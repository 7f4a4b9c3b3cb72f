--------------------------- MODULE ClaimFormProofs ---------------------------
(* Proofs about ClaimForm, for any names, any number of employers and any      *)
(* number of posts in flight.                                                  *)
EXTENDS ClaimForm, SequenceTheorems, FiniteSetTheorems, TLAPS

\* The claims that the bound lets the form hold.
FormClaim == {c \in Claim : Len(c.employers) =< MaxEmployers}

Request == [claim : FormClaim, by : {"save", "exit", "removal"}, follows : BOOLEAN,
            errors : BOOLEAN, removed : SUBSET Names, here : BOOLEAN, applied : BOOLEAN]

Refresh == [pc : {"none", "sent", "read"}, claim : FormClaim, awaited : BOOLEAN]

TypeInv ==
  /\ route \in Routes /\ route.segment < MaxEmployers
  /\ values \in FormClaim /\ initial \in FormClaim
  /\ draft \in FormClaim /\ sent \in FormClaim
  /\ cache \in [claim : FormClaim, errors : BOOLEAN]
  /\ get \in Refresh /\ (get.pc = "none" => ~ get.awaited)
  /\ posts \in Seq(Request) /\ Len(posts) =< MaxPosts
  /\ \A i \in DOMAIN draft.more : draft.more[i] # "unset"
  /\ Writable(draft) /\ Writable(cache.claim) /\ Writable(get.claim)
  /\ \A i \in DOMAIN posts : posts[i].applied => Writable(posts[i].claim)

\* One answer for every employer, no employer skipped, no name twice.
Distinct(c) ==
  \A i, j \in DOMAIN c.employers :
    c.employers[i] = c.employers[j] /\ c.employers[i] \in Names => i = j

Whole(c) == Len(c.more) = Len(c.employers) /\ Writable(c) /\ Distinct(c)

-----------------------------------------------------------------------------
(* Claims and the operators on them *)

LEMMA Constants ==
  /\ MaxEmployers \in Nat /\ 1 =< MaxEmployers /\ MaxPosts \in Nat
  /\ untouched \notin Names /\ hole \notin Names /\ untouched # hole
  /\ untouched \in Employers /\ hole \in Employers /\ Names \subseteq Employers
BY FormAssumption DEF untouched, hole, Employers

LEMMA FunctionIsSeq ==
  ASSUME NEW S, NEW n \in Nat, NEW f \in [1 .. n -> S]
  PROVE  f \in Seq(S) /\ Len(f) = n /\ DOMAIN f = 1 .. n
OBVIOUS

LEMMA ClaimParts ==
  ASSUME NEW c \in Claim
  PROVE  /\ c.employers \in Seq(Employers) /\ c.more \in Seq(Answers) /\ c.affirmed \in Answers
         /\ Len(c.employers) \in Nat /\ DOMAIN c.employers = 1 .. Len(c.employers)
         /\ Len(c.more) \in Nat /\ DOMAIN c.more = 1 .. Len(c.more)
         /\ \A i \in DOMAIN c.employers : c.employers[i] \in Employers
         /\ \A i \in DOMAIN c.more : c.more[i] \in Answers
BY DEF Claim

LEMMA ClaimOf ==
  ASSUME NEW e \in Seq(Employers), NEW m \in Seq(Answers), NEW a \in Answers
  PROVE  [employers |-> e, more |-> m, affirmed |-> a] \in Claim
BY DEF Claim

LEMMA EqualClaims ==
  ASSUME NEW c \in Claim, NEW d \in Claim,
         c.employers = d.employers, c.more = d.more, c.affirmed = d.affirmed
  PROVE  c = d
BY DEF Claim

LEMMA NamesAgree ==
  ASSUME NEW c, NEW d, c.employers = d.employers
  PROVE  NameSet(c) = NameSet(d)
BY DEF NameSet

LEMMA NoClaimFacts ==
  /\ NoClaim \in FormClaim /\ Whole(NoClaim) /\ NameSet(NoClaim) = {}
  /\ NoClaim.employers = <<>> /\ NoClaim.more = <<>> /\ NoClaim.affirmed = "unset"
  /\ NoCache \in [claim : FormClaim, errors : BOOLEAN] /\ NoCache.claim = NoClaim
<1>1. NoClaim \in Claim
  BY EmptySeq, "unset" \in Answers, ClaimOf DEF NoClaim, Answers
<1>2. NoClaim.employers = <<>> /\ NoClaim.more = <<>> /\ NoClaim.affirmed = "unset"
  BY DEF NoClaim
<1>3. Len(NoClaim.employers) = 0 /\ Len(NoClaim.more) = 0 /\ DOMAIN NoClaim.employers = {}
  BY <1>1, <1>2, ClaimParts, EmptySeq
<1>4. NoClaim \in FormClaim
  BY <1>1, <1>3, Constants DEF FormClaim
<1>5. NoCache \in [claim : FormClaim, errors : BOOLEAN] /\ NoCache.claim = NoClaim
  BY <1>4 DEF NoCache, NoClaim
<1> QED
  BY <1>2, <1>3, <1>4, <1>5 DEF Whole, Writable, Distinct, NameSet

LEMMA WithMore ==
  ASSUME NEW c \in Claim, NEW m \in Seq(Answers), NEW d, d = [c EXCEPT !.more = m]
  PROVE  d \in Claim /\ d.employers = c.employers /\ d.more = m /\ d.affirmed = c.affirmed
BY DEF Claim

LEMMA JsonFacts ==
  ASSUME NEW c \in Claim
  PROVE  /\ Json(c) \in Claim /\ Json(c).employers = c.employers
         /\ Json(c).affirmed = c.affirmed /\ Len(Json(c).more) = Len(c.more)
         /\ \A i \in DOMAIN Json(c).more : Json(c).more[i] # "unset"
<1> DEFINE m == [i \in DOMAIN c.more |-> IF c.more[i] = "unset" THEN "null" ELSE c.more[i]]
<1>1. m \in Seq(Answers) /\ Len(m) = Len(c.more) /\ \A i \in DOMAIN m : m[i] # "unset"
  <2>1. m \in [1 .. Len(c.more) -> Answers] /\ Len(c.more) \in Nat
    BY ClaimParts DEF Answers
  <2> QED
    BY <2>1
<1>2. Json(c) = [c EXCEPT !.more = m]
  BY DEF Json
<1> HIDE DEF m
<1> QED
  BY <1>1, <1>2, WithMore

LEMMA NoElements ==
  ASSUME NEW S, NEW f \in [1 .. 0 -> S]
  PROVE  f = <<>>
<1>1. f \in Seq(S)
  BY 0 \in Nat, SeqDef, Zenon
<1>2. Len(f) \in Nat /\ DOMAIN f = 1 .. Len(f)
  BY <1>1, LenProperties
<1>3. 1 .. Len(f) = 1 .. 0
  BY <1>2
<1>4. \A n \in Nat : 1 .. n = 1 .. 0 => n = 0
  BY \A n \in Nat : 1 \in 1 .. n \/ n = 0, 1 \notin 1 .. 0
<1>5. Len(f) = 0
  BY <1>2, <1>3, <1>4, Zenon
<1> QED
  BY <1>1, <1>5, EmptySeq

LEMMA MissingAnswers ==
  ASSUME NEW n, NEW k \in Int
  PROVE  LET f == [i \in 1 .. k |-> IF i = n THEN "no" ELSE "yes"] IN
         f \in Seq(Answers) /\ (k =< 0 => f = <<>>)
<1> DEFINE f == [i \in 1 .. k |-> IF i = n THEN "no" ELSE "yes"]
<1>1. f \in [1 .. k -> Answers]
  <2>1. "no" \in Answers /\ "yes" \in Answers
    BY DEF Answers
  <2> QED
    BY <2>1
<1> HIDE DEF f
<1>2. k > 0 \/ 1 .. k = 1 .. 0
  OBVIOUS
<1>3. CASE k > 0
  <2>1. k \in Nat
    BY <1>3
  <2>2. f \in Seq(Answers)
    BY <2>1, <1>1, SeqDef, Zenon
  <2> QED
    BY <2>2, <1>3 DEF f
<1>4. CASE 1 .. k = 1 .. 0
  <2>1. f \in [1 .. 0 -> Answers]
    BY <1>1, <1>4
  <2>2. f = <<>> /\ f \in Seq(Answers)
    BY <2>1, NoElements, EmptySeq
  <2> QED
    BY <2>2 DEF f
<1> QED
  BY <1>2, <1>3, <1>4

LEMMA MergedFacts ==
  ASSUME NEW c \in Claim
  PROVE  /\ Merged(c) \in Claim /\ Merged(c).employers = c.employers
         /\ Merged(c).affirmed = c.affirmed
         /\ Len(c.more) = Len(c.employers) => Merged(c) = c
<1> DEFINE n == Len(c.employers)
           k == n - Len(c.more)
           missing == [i \in 1 .. k |-> IF i = n THEN "no" ELSE "yes"]
<1>1. n \in Nat /\ Len(c.more) \in Nat /\ k \in Int /\ c.more \in Seq(Answers)
  BY ClaimParts
<1>2. missing \in Seq(Answers) /\ (k =< 0 => missing = <<>>)
  <2> HIDE DEF k, n
  <2> QED
    BY <1>1, MissingAnswers, Zenon
<1>3. Merged(c) = [c EXCEPT !.more = c.more \o missing]
  BY DEF Merged
<1> HIDE DEF missing
<1> DEFINE m == c.more \o missing
<1>4. m \in Seq(Answers)
  BY <1>1, <1>2, ConcatProperties
<1>a. Merged(c) = [c EXCEPT !.more = m]
  BY <1>3
<1>b. Len(c.more) = Len(c.employers) => m = c.more
  BY <1>1, <1>2, ConcatEmptySeq
<1> HIDE DEF m
<1>5. /\ Merged(c) \in Claim /\ Merged(c).employers = c.employers
      /\ Merged(c).affirmed = c.affirmed /\ Merged(c).more = m
  BY <1>a, <1>4, WithMore
<1>6. ASSUME Len(c.more) = Len(c.employers)
      PROVE  Merged(c) = c
  BY <1>6, <1>b, <1>5, EqualClaims
<1> QED
  BY <1>5, <1>6

\* d is a with x at i, past the end or not.
IsPut(d, a, i, x, gap) ==
  /\ Len(d) = (IF i > Len(a) THEN i ELSE Len(a)) /\ DOMAIN d = 1 .. Len(d)
  /\ \A j \in DOMAIN d : d[j] = IF j = i THEN x ELSE IF j \in DOMAIN a THEN a[j] ELSE gap

LEMMA PutFacts ==
  ASSUME NEW S, NEW a \in Seq(S), NEW i \in Nat \ {0}, NEW x \in S, NEW gap \in S,
         NEW d, d = Put(a, i, x, gap)
  PROVE  d \in Seq(S) /\ IsPut(d, a, i, x, gap)
<1> DEFINE n == IF i > Len(a) THEN i ELSE Len(a)
<1>1. Len(a) \in Nat /\ DOMAIN a = 1 .. Len(a) /\ n \in Nat /\ \A j \in DOMAIN a : a[j] \in S
  OBVIOUS
<1>2. d = [j \in 1 .. n |-> IF j = i THEN x ELSE IF j \in DOMAIN a THEN a[j] ELSE gap]
  BY DEF Put
<1>3. \A j \in 1 .. n : (IF j = i THEN x ELSE IF j \in DOMAIN a THEN a[j] ELSE gap) \in S
  BY <1>1
<1> HIDE DEF n
<1>4. d \in [1 .. n -> S]
  BY <1>2, <1>3
<1>5. d \in Seq(S) /\ Len(d) = n /\ DOMAIN d = 1 .. n
  BY <1>1, <1>4, FunctionIsSeq
<1>6. \A j \in 1 .. n : d[j] = IF j = i THEN x ELSE IF j \in DOMAIN a THEN a[j] ELSE gap
  BY <1>2
<1> QED
  BY <1>5, <1>6 DEF n, IsPut

\* The number of elements of K up to one of them takes every value once.
LEMMA RankFacts ==
  ASSUME NEW n \in Nat, NEW K \in SUBSET (1 .. n)
  PROVE  /\ Cardinality(K) \in Nat /\ Cardinality(K) =< n
         /\ \A j \in 1 .. Cardinality(K) : \E i \in K : Cardinality({k \in K : k =< i}) = j
         /\ \A i \in K : Cardinality({k \in K : k =< i}) \in 1 .. Cardinality(K)
         /\ \A i, j \in K :
              Cardinality({k \in K : k =< i}) = Cardinality({k \in K : k =< j}) => i = j
<1> DEFINE upto(i) == {k \in K : k =< i}
           c == Cardinality(K)
           rank == [i \in K |-> Cardinality(upto(i))]
<1>1. IsFiniteSet(1 .. n) /\ Cardinality(1 .. n) = n
  BY FS_Interval
<1>2. IsFiniteSet(K) /\ c \in Nat /\ c =< n
  BY <1>1, FS_Subset, FS_CardinalityType
<1>3. ASSUME NEW i \in K
      PROVE  /\ IsFiniteSet(upto(i)) /\ Cardinality(upto(i)) \in 1 .. c
             /\ i \in upto(i)
  <2>1. upto(i) \in SUBSET K /\ i \in upto(i)
    OBVIOUS
  <2>2. IsFiniteSet(upto(i)) /\ Cardinality(upto(i)) =< c /\ Cardinality(upto(i)) \in Nat
    BY <2>1, <1>2, FS_Subset, FS_CardinalityType
  <2>3. Cardinality(upto(i)) # 0
    BY <2>1, <2>2, FS_EmptySet
  <2> QED
    BY <2>1, <2>2, <2>3, <1>2
<1>4. ASSUME NEW i \in K, NEW j \in K, i < j
      PROVE  Cardinality(upto(i)) # Cardinality(upto(j))
  <2>1. i \in Int /\ j \in Int /\ \A k \in K : k \in Int
    OBVIOUS
  <2>2. \A k \in K : k =< i => k =< j
    BY <2>1, <1>4
  <2>3. upto(i) \in SUBSET upto(j)
    BY <2>2
  <2>4. j \notin upto(i) /\ j \in upto(j)
    BY <2>1, <1>4
  <2> QED
    BY <2>3, <2>4, <1>3, FS_Subset, Zenon
<1>5. \A i, j \in K : Cardinality(upto(i)) = Cardinality(upto(j)) => i = j
  <2> SUFFICES ASSUME NEW i \in K, NEW j \in K, i # j
               PROVE  Cardinality(upto(i)) # Cardinality(upto(j))
    BY Zenon
  <2>1. i < j \/ j < i
    OBVIOUS
  <2> QED
    BY <2>1, <1>4, Zenon
<1> HIDE DEF upto, c
<1>6. rank \in [K -> 1 .. c]
  BY <1>3
<1>7. rank \in Injection(K, 1 .. c)
  BY <1>5, <1>6 DEF Injection, IsInjective
<1>8. IsFiniteSet(1 .. c) /\ Cardinality(1 .. c) = c
  BY <1>2, FS_Interval
<1>9. rank \in Surjection(K, 1 .. c)
  BY <1>7, <1>8, FS_Injection DEF c
<1>10. \A j \in 1 .. c : \E i \in K : Cardinality(upto(i)) = j
  BY <1>9 DEF Surjection
<1> QED
  BY <1>2, <1>3, <1>5, <1>10 DEF upto, c

LEMMA LeastElement ==
  ASSUME NEW n \in Nat, NEW K \in SUBSET (1 .. n), K # {}
  PROVE  \E i \in K : \A k \in K : i =< k
<1>1. PICK e \in K : TRUE
  OBVIOUS
<1>2. Cardinality(K) \in Nat /\ Cardinality({k \in K : k =< e}) \in 1 .. Cardinality(K)
  BY RankFacts, Zenon
<1>3. 1 \in 1 .. Cardinality(K)
  <2>1. \A c \in Nat : \A r \in 1 .. c : 1 \in 1 .. c
    OBVIOUS
  <2> QED
    BY <1>2, <2>1, Zenon
<1>4. PICK i \in K : Cardinality({k \in K : k =< i}) = 1
  <2>1. \A j \in 1 .. Cardinality(K) : \E i \in K : Cardinality({k \in K : k =< i}) = j
    BY RankFacts, Zenon
  <2> QED
    BY <1>3, <2>1, Zenon
<1>5. IsFiniteSet({k \in K : k =< i})
  <2>1. {k \in K : k =< i} \in SUBSET (1 .. n)
    OBVIOUS
  <2> QED
    BY <2>1, FS_Interval, FS_Subset
<1>6. PICK x : {k \in K : k =< i} = {x}
  BY <1>4, <1>5, FS_Singleton
<1>7. i = x
  BY <1>6
<1>8. \A k \in K : k < i => k = x
  BY <1>6
<1> QED
  BY <1>7, <1>8

\* d has the elements of a at the places kept, in some order, each of them once.
Picks(d, a, kept) ==
  \E nth \in [1 .. Len(d) -> kept] :
    /\ \A j \in 1 .. Len(d) : d[j] = a[nth[j]]
    /\ \A j, k \in 1 .. Len(d) : nth[j] = nth[k] => j = k
    /\ \A i \in kept : \E j \in 1 .. Len(d) : nth[j] = i

LEMMA WithoutFacts ==
  ASSUME NEW S, NEW a \in Seq(S), NEW I
  PROVE  LET d == Without(a, I)  kept == DOMAIN a \ I IN
         /\ d \in Seq(S) /\ Len(d) = Cardinality(kept) /\ Len(d) =< Len(a)
         /\ Picks(d, a, kept)
<1> DEFINE kept == DOMAIN a \ I
           upto(i) == {k \in kept : k =< i}
           c == Cardinality(kept)
           nth == [j \in 1 .. c |-> CHOOSE i \in kept : Cardinality(upto(i)) = j]
           d == Without(a, I)
<1>1. Len(a) \in Nat /\ DOMAIN a = 1 .. Len(a) /\ kept \in SUBSET (1 .. Len(a))
  OBVIOUS
<1>2. /\ c \in Nat /\ c =< Len(a)
      /\ \A j \in 1 .. c : \E i \in kept : Cardinality(upto(i)) = j
      /\ \A i \in kept : Cardinality(upto(i)) \in 1 .. c
      /\ \A i, j \in kept : Cardinality(upto(i)) = Cardinality(upto(j)) => i = j
  <2> HIDE DEF kept
  <2> QED
    BY <1>1, RankFacts
<1>3. d = [j \in 1 .. c |-> a[nth[j]]]
  BY DEF Without
<1> HIDE DEF upto, kept, c
<1>4. \A j \in 1 .. c : nth[j] \in kept /\ Cardinality(upto(nth[j])) = j
  BY <1>2
<1>5. nth \in [1 .. c -> kept]
  BY <1>4
<1>6. \A i \in kept : nth[Cardinality(upto(i))] = i
  BY <1>2, <1>4
<1> HIDE DEF nth, d
<1>7. \A j \in 1 .. c : a[nth[j]] \in S
  BY <1>1, <1>4 DEF kept
<1>8. d \in [1 .. c -> S]
  BY <1>3, <1>7
<1>9. d \in Seq(S) /\ Len(d) = c
  BY <1>2, <1>8, FunctionIsSeq
<1>11. /\ \A j \in 1 .. c : d[j] = a[nth[j]]
       /\ \A j, k \in 1 .. c : nth[j] = nth[k] => j = k
       /\ \A i \in kept : \E j \in 1 .. c : nth[j] = i
  <2>1. \A j \in 1 .. c : d[j] = a[nth[j]]
    BY <1>3
  <2>2. \A j, k \in 1 .. c : nth[j] = nth[k] => j = k
    BY <1>4
  <2>3. \A i \in kept : \E j \in 1 .. c : nth[j] = i
    BY <1>2, <1>6
  <2> QED
    BY <2>1, <2>2, <2>3
<1>12. Picks(d, a, kept)
  BY <1>5, <1>9, <1>11 DEF Picks
<1>13. d \in Seq(S) /\ Len(d) = Cardinality(kept) /\ Len(d) =< Len(a)
  BY <1>2, <1>9 DEF c
<1> QED
  BY <1>12, <1>13, Zenon DEF d, kept

LEMMA RouteParts ==
  /\ \A r \in Routes : /\ r.segment \in 0 .. MaxEmployers
                       /\ r.page \in {"employer", "home", "review", "employer-review", "out", "success"}
                       /\ r.page = "employer" => r = Employer(r.segment)
                       /\ r.page # "employer" => r.segment = 0 /\ r = Gone(r.page)
  /\ \A s \in 0 .. MaxEmployers :
       Employer(s) \in Routes /\ Employer(s).page = "employer" /\ Employer(s).segment = s
  /\ Home = Gone("home") /\ Review = Gone("review") /\ EmployerReview = Gone("employer-review")
  /\ \A p \in {"home", "review", "employer-review", "out", "success"} :
       Gone(p) \in Routes /\ Gone(p).page = p /\ Gone(p).segment = 0
BY Constants DEF Routes, Employer, Gone, Home, Review, EmployerReview

LEMMA Pages ==
  /\ Home \in Routes /\ Home.page = "home" /\ Home.segment = 0
  /\ Review \in Routes /\ Review.page = "review" /\ Review.segment = 0
  /\ EmployerReview \in Routes /\ EmployerReview.page = "employer-review"
  /\ EmployerReview.segment = 0
  /\ Employer(0) \in Routes /\ Employer(0).page = "employer" /\ Employer(0).segment = 0
  /\ \A p \in {"out", "success"} : Gone(p) \in Routes /\ Gone(p).page = p /\ Gone(p).segment = 0
BY Constants DEF Routes, Employer, Gone, Home, Review, EmployerReview

\* A page shows the claim as it is, or with one more employer.
LEMMA SettledFacts ==
  ASSUME NEW c \in Claim, NEW r \in Routes
  PROVE  LET d == Settled(c, r) IN
         /\ d \in Claim /\ d.affirmed = c.affirmed /\ NameSet(d) = NameSet(c)
         /\ c \in FormClaim /\ r.segment < MaxEmployers => d \in FormClaim
         /\ r.page = "employer" => r.segment < Len(d.employers)
         /\ r.page # "employer" => d = c
         /\ Whole(c) /\ (r.page = "employer" => r.segment =< Len(c.employers)) => Whole(d)
         /\ Whole(c) /\ r.segment < Len(c.employers) => d = c
<1> DEFINE s == r.segment + 1
           e == Put(c.employers, s, untouched, hole)
           m == Append(c.more, "unset")
           new == r.page = "employer" /\ (s \notin DOMAIN c.employers \/ c.employers[s] = hole)
           d == Settled(c, r)
<1>1. /\ r.segment \in Nat /\ s \in Nat \ {0}
      /\ c.employers \in Seq(Employers) /\ c.more \in Seq(Answers)
      /\ Len(c.employers) \in Nat /\ DOMAIN c.employers = 1 .. Len(c.employers)
      /\ \A i \in DOMAIN c.employers : c.employers[i] \in Employers
  BY ClaimParts, RouteParts, Constants
<1>2. CASE ~ new
  <2>1. d = c
    BY <1>2 DEF Settled
  <2>2. r.page = "employer" => r.segment < Len(c.employers)
    BY <1>1, <1>2
  <2> QED
    BY <2>1, <2>2
<1>3. CASE new
  <2>1. d = [c EXCEPT !.employers = e, !.more = m]
    BY <1>3 DEF Settled
  <2>a. e \in Seq(Employers) /\ IsPut(e, c.employers, s, untouched, hole)
    <3>1. e = Put(c.employers, s, untouched, hole)
      OBVIOUS
    <3>2. s \in Nat \ {0} /\ c.employers \in Seq(Employers)
      BY <1>1
    <3>3. untouched \in Employers /\ hole \in Employers
      BY Constants
    <3> HIDE DEF s, e
    <3> QED
      BY <3>1, <3>2, <3>3, PutFacts, Zenon
  <2> HIDE DEF e
  <2>2. /\ e \in Seq(Employers) /\ Len(e) = (IF s > Len(c.employers) THEN s ELSE Len(c.employers))
        /\ DOMAIN e = 1 .. Len(e)
        /\ \A j \in DOMAIN e : e[j] = IF j = s THEN untouched
                                      ELSE IF j \in DOMAIN c.employers THEN c.employers[j] ELSE hole
    BY <2>a DEF IsPut
  <2>3. m \in Seq(Answers) /\ Len(m) = Len(c.more) + 1
    <3>1. "unset" \in Answers
      BY DEF Answers
    <3> QED
      BY <1>1, <3>1
  <2> HIDE DEF e, m, d
  <2>4. d \in Claim /\ d.employers = e /\ d.more = m /\ d.affirmed = c.affirmed
    <3>1. e \in Seq(Employers)
      BY <2>2
    <3>2. m \in Seq(Answers)
      BY <2>3
    <3> QED
      BY <2>1, <3>1, <3>2 DEF Claim
  <2>5. NameSet(d) = NameSet(c)
    <3>1. \A j \in DOMAIN e : e[j] \in Names => j \in DOMAIN c.employers /\ c.employers[j] = e[j]
      BY <2>2, Constants
    <3>2. \A j \in DOMAIN c.employers : c.employers[j] \in Names => j \in DOMAIN e /\ e[j] = c.employers[j]
      BY <1>1, <1>3, <2>2, Constants
    <3> QED
      BY <2>4, <3>1, <3>2 DEF NameSet
  <2>6. c \in FormClaim /\ r.segment < MaxEmployers => d \in FormClaim
    BY <1>1, <2>2, <2>4, Constants DEF FormClaim
  <2>7. r.page = "employer" /\ r.segment < Len(d.employers)
    BY <1>1, <1>3, <2>2, <2>4
  <2>8. ASSUME Whole(c), r.segment =< Len(c.employers)
        PROVE  Whole(d) /\ r.segment = Len(c.employers)
    <3>1. s \notin DOMAIN c.employers
      BY <1>3, <2>8 DEF Whole, Writable
    <3>2. s = Len(c.employers) + 1
      BY <3>1, <1>1, <2>8
    <3>3. Len(e) = Len(c.employers) + 1 /\ DOMAIN e = 1 .. s
      BY <3>2, <2>2, <1>1
    <3>4. Len(d.more) = Len(d.employers)
      BY <3>3, <2>3, <2>4, <2>8 DEF Whole
    <3>5. \A j \in DOMAIN e : e[j] = IF j = s THEN untouched ELSE c.employers[j]
      BY <3>2, <3>3, <2>2, <1>1
    <3>6. \A j \in DOMAIN e : j = s \/ j \in DOMAIN c.employers
      BY <3>2, <3>3, <1>1
    <3>7. Writable(d)
      BY <3>5, <3>6, <2>4, <2>8, Constants DEF Whole, Writable
    <3>8. Distinct(d)
      BY <3>5, <3>6, <2>4, <2>8, Constants DEF Whole, Distinct
    <3> QED
      BY <3>2, <3>4, <3>7, <3>8, <1>1 DEF Whole
  <2> QED
    BY <2>4, <2>5, <2>6, <2>7, <2>8, <1>1 DEF d
<1> QED
  BY <1>2, <1>3

\* What is left after a removal.
LEMMA RemovedFacts ==
  ASSUME TypeInv, NEW I \in SUBSET DOMAIN values.employers
  PROVE  LET d == Removed(I) IN
         /\ d \in FormClaim /\ d.affirmed = values.affirmed
         /\ Whole(values) => /\ Whole(d)
                             /\ NameSet(d) = NameSet(values) \ {values.employers[i] : i \in I}
         /\ NameSet(d) \subseteq NameSet(values)
<1> DEFINE a == values.employers
           e == Without(a, I)
           w == Without(values.more, I)
           m == IF w = <<>> THEN w ELSE [w EXCEPT ![Len(w)] = "no"]
           d == Removed(I)
           kept == DOMAIN a \ I
<1>1. /\ values \in Claim /\ Len(a) =< MaxEmployers /\ Len(a) \in Nat
      /\ a \in Seq(Employers) /\ values.more \in Seq(Answers)
      /\ DOMAIN a = 1 .. Len(a) /\ DOMAIN values.more = 1 .. Len(values.more)
  BY ClaimParts DEF TypeInv, FormClaim
<1>2. /\ e \in Seq(Employers) /\ Len(e) = Cardinality(kept) /\ Len(e) =< Len(a)
      /\ Picks(e, a, kept)
  BY <1>1, WithoutFacts, Zenon
<1>3. w \in Seq(Answers) /\ Len(w) = Cardinality(DOMAIN values.more \ I)
  BY <1>1, WithoutFacts, Zenon
<1> HIDE DEF e, w, kept
<1>4. m \in Seq(Answers) /\ Len(m) = Len(w)
  <2>1. CASE w = <<>>
    BY <2>1, <1>3
  <2>2. CASE w # <<>>
    <3>1. Len(w) \in 1 .. Len(w)
      BY <1>3, <2>2, EmptySeq
    <3>2. "no" \in Answers
      BY DEF Answers
    <3> QED
      BY <3>1, <3>2, <1>3, <2>2, ExceptSeq
  <2> QED
    BY <2>1, <2>2
<1>5. d = [values EXCEPT !.employers = e, !.more = m]
  BY DEF Removed, w, e
<1> HIDE DEF m, d
<1>6. d \in Claim /\ d.employers = e /\ d.more = m /\ d.affirmed = values.affirmed
  <2>1. e \in Seq(Employers)
    BY <1>2
  <2>2. m \in Seq(Answers)
    BY <1>4
  <2> QED
    BY <1>1, <1>5, <2>1, <2>2 DEF Claim
<1>7. d \in FormClaim
  <2>1. Len(e) \in Nat
    BY <1>2
  <2> QED
    BY <1>1, <1>2, <1>6, <2>1, Constants DEF FormClaim
<1>8. PICK nth \in [1 .. Len(e) -> kept] :
              /\ \A j \in 1 .. Len(e) : e[j] = a[nth[j]]
              /\ \A j, k \in 1 .. Len(e) : nth[j] = nth[k] => j = k
              /\ \A i \in kept : \E j \in 1 .. Len(e) : nth[j] = i
  BY <1>2 DEF Picks
<1>9. DOMAIN e = 1 .. Len(e)
  BY <1>2
<1>10. NameSet(d) = {a[i] : i \in kept} \cap Names
  <2>1. {e[j] : j \in DOMAIN e} = {a[i] : i \in kept}
    <3>1. ASSUME NEW j \in DOMAIN e
          PROVE  e[j] \in {a[i] : i \in kept}
      BY <1>8, <1>9
    <3>2. ASSUME NEW i \in kept
          PROVE  a[i] \in {e[j] : j \in DOMAIN e}
      BY <1>8, <1>9
    <3> QED
      BY <3>1, <3>2
  <2> QED
    BY <2>1, <1>6 DEF NameSet
<1>11. NameSet(d) \subseteq NameSet(values)
  BY <1>10 DEF NameSet, kept
<1>12. ASSUME Whole(values)
       PROVE  Whole(d) /\ NameSet(d) = NameSet(values) \ {a[i] : i \in I}
  <2>1. Len(m) = Len(e)
    BY <1>12, <1>1, <1>2, <1>3, <1>4 DEF Whole, kept
  <2>2. Writable(d)
    BY <1>12, <1>6, <1>8, <1>9 DEF Whole, Writable, kept
  <2>3. Distinct(d)
    <3> SUFFICES ASSUME NEW j \in DOMAIN e, NEW k \in DOMAIN e, e[j] = e[k], e[j] \in Names
                 PROVE  j = k
      BY <1>6 DEF Distinct
    <3>1. nth[j] \in DOMAIN a /\ nth[k] \in DOMAIN a /\ a[nth[j]] = a[nth[k]] /\ a[nth[j]] \in Names
      BY <1>8, <1>9 DEF kept
    <3>2. nth[j] = nth[k]
      BY <3>1, <1>12 DEF Whole, Distinct
    <3> QED
      BY <3>2, <1>8, <1>9
  <2>4. NameSet(d) = NameSet(values) \ {a[i] : i \in I}
    <3>1. \A i \in kept : \A k \in I : a[i] \in Names => a[i] # a[k]
      BY <1>12 DEF Whole, Distinct, kept
    <3> QED
      BY <1>10, <3>1 DEF NameSet, kept
  <2> QED
    BY <2>1, <2>2, <2>3, <2>4, <1>6 DEF Whole
<1> QED
  BY <1>6, <1>7, <1>11, <1>12 DEF d

-----------------------------------------------------------------------------
(* Posts in flight *)

\* x is the post y, which the form may have stopped to wait for.
Same(x, y) ==
  /\ x.claim = y.claim /\ x.by = y.by /\ x.removed = y.removed /\ x.applied = y.applied
  /\ x.here => y.here

\* Every post of q is one of p, and no two of q are the same of p.
Rest(q, p) ==
  \A j, k \in DOMAIN q : \E l, m \in DOMAIN p : Same(q[j], p[l]) /\ Same(q[k], p[m]) /\ (l = m => j = k)

LEMMA RestOf ==
  ASSUME NEW q, NEW p, Rest(q, p), NEW j \in DOMAIN q
  PROVE  \E l \in DOMAIN p : Same(q[j], p[l])
BY DEF Rest

LEMMA PostFacts ==
  ASSUME TypeInv, NEW c \in FormClaim, NEW by \in {"save", "exit", "removal"}, NEW f, f \in BOOLEAN,
         NEW p, p = Post(c, by, f)
  PROVE  /\ p \in Request /\ p.claim = c /\ p.by = by /\ p.removed = {} /\ p.here /\ ~ p.applied
BY DEF Post, Request, TypeInv

\* The post of removeEmployer.
Removal(c, gone) == [Post(c, "removal", FALSE) EXCEPT !.removed = gone]

LEMMA RemovalFacts ==
  ASSUME TypeInv, NEW c \in FormClaim, NEW gone \in SUBSET Names, NEW p, p = Removal(c, gone)
  PROVE  /\ p \in Request /\ p.claim = c /\ p.by = "removal" /\ p.removed = gone
         /\ p.here /\ ~ p.applied
BY DEF Removal, Post, Request, TypeInv

LEMMA Posts ==
  ASSUME TypeInv
  PROVE  /\ posts \in Seq(Request) /\ Len(posts) \in Nat /\ DOMAIN posts = 1 .. Len(posts)
         /\ \A i \in DOMAIN posts : /\ posts[i] \in Request /\ posts[i].claim \in FormClaim
                                    /\ posts[i].claim \in Claim
                                    /\ posts[i].by \in {"save", "exit", "removal"}
<1>1. posts \in Seq(Request)
  BY DEF TypeInv
<1>2. \A x \in Request : /\ x.claim \in FormClaim /\ x.claim \in Claim
                          /\ x.by \in {"save", "exit", "removal"}
  BY DEF Request, FormClaim
<1>3. Len(posts) \in Nat /\ DOMAIN posts = 1 .. Len(posts) /\ \A i \in DOMAIN posts : posts[i] \in Request
  BY <1>1
<1> QED
  BY <1>1, <1>2, <1>3, Zenon

\* A function over the posts that changes only what the form does about the answer.
LEMMA AlteredFacts ==
  ASSUME NEW p \in Seq(Request), NEW q, DOMAIN q = DOMAIN p, q = [i \in DOMAIN p |-> q[i]],
         \A i \in DOMAIN p : q[i] \in Request /\ Same(q[i], p[i])
  PROVE  q \in Seq(Request) /\ Len(q) = Len(p) /\ DOMAIN q = DOMAIN p /\ Rest(q, p)
<1>1. Len(p) \in Nat /\ DOMAIN p = 1 .. Len(p)
  OBVIOUS
<1>2. q \in [1 .. Len(p) -> Request]
  BY <1>1
<1>3. q \in Seq(Request) /\ Len(q) = Len(p)
  BY <1>1, <1>2, FunctionIsSeq
<1>4. Rest(q, p)
  BY Zenon DEF Rest
<1> QED
  BY <1>3, <1>4

LEMMA UnfollowedFacts ==
  ASSUME TypeInv
  PROVE  /\ Unfollowed \in Seq(Request) /\ Len(Unfollowed) = Len(posts)
         /\ DOMAIN Unfollowed = DOMAIN posts /\ Rest(Unfollowed, posts)
<1>1. ASSUME NEW x \in Request
      PROVE  /\ [x EXCEPT !.follows = FALSE] \in Request
             /\ Same([x EXCEPT !.follows = FALSE], x)
  BY DEF Request, Same
<1> DEFINE q == Unfollowed
<1>2. DOMAIN q = DOMAIN posts /\ q = [i \in DOMAIN posts |-> q[i]]
  BY DEF Unfollowed
<1>3. \A i \in DOMAIN posts : q[i] \in Request /\ Same(q[i], posts[i])
  BY <1>1, Posts DEF Unfollowed
<1> HIDE DEF q
<1>4. q \in Seq(Request) /\ Len(q) = Len(posts) /\ DOMAIN q = DOMAIN posts /\ Rest(q, posts)
  BY <1>2, <1>3, Posts, AlteredFacts, Zenon
<1> QED
  BY <1>4 DEF q

LEMMA UnmountedFacts ==
  ASSUME TypeInv
  PROVE  /\ Unmounted \in Seq(Request) /\ Len(Unmounted) = Len(posts)
         /\ DOMAIN Unmounted = DOMAIN posts /\ Rest(Unmounted, posts)
         /\ \A i \in DOMAIN posts : ~ Unmounted[i].here
<1>1. ASSUME NEW x \in Request
      PROVE  /\ [x EXCEPT !.here = FALSE, !.follows = FALSE] \in Request
             /\ Same([x EXCEPT !.here = FALSE, !.follows = FALSE], x)
             /\ ~ [x EXCEPT !.here = FALSE, !.follows = FALSE].here
  BY DEF Request, Same
<1> DEFINE q == Unmounted
<1>2. DOMAIN q = DOMAIN posts /\ q = [i \in DOMAIN posts |-> q[i]]
  BY DEF Unmounted
<1>3. \A i \in DOMAIN posts : q[i] \in Request /\ Same(q[i], posts[i]) /\ ~ q[i].here
  BY <1>1, Posts DEF Unmounted
<1> HIDE DEF q
<1>4. q \in Seq(Request) /\ Len(q) = Len(posts) /\ DOMAIN q = DOMAIN posts /\ Rest(q, posts)
  BY <1>2, <1>3, Posts, AlteredFacts, Zenon
<1> QED
  BY <1>3, <1>4 DEF q

\* q is p without the element at i, in whatever order.
AllBut(q, p, i) ==
  /\ \A l \in DOMAIN p \ {i} : \E j \in DOMAIN q : q[j] = p[l]
  /\ \A j, k \in DOMAIN q : \E l, m \in DOMAIN p \ {i} :
       q[j] = p[l] /\ q[k] = p[m] /\ (l = m => j = k)

LEMMA RemoveAtFacts ==
  ASSUME NEW p \in Seq(Request), NEW i \in DOMAIN p, NEW q, q = RemoveAt(p, i)
  PROVE  q \in Seq(Request) /\ Len(q) = Len(p) - 1 /\ Rest(q, p) /\ AllBut(q, p, i)
<1> DEFINE n == Len(p)
           front == SubSeq(p, 1, i - 1)
           back == SubSeq(p, i + 1, n)
           at(j) == IF j < i THEN j ELSE j + 1
<1>1. n \in Nat /\ DOMAIN p = 1 .. n /\ i \in 1 .. n /\ \A j \in 1 .. n : p[j] \in Request
  OBVIOUS
<1>2. /\ front \in Seq(Request) /\ Len(front) = i - 1
      /\ \A j \in 1 .. i - 1 : front[j] = p[j]
  <2>1. \A j \in 1 .. i - 1 : p[j] \in Request
    BY <1>1
  <2>2. i - 1 \in Int /\ (1 =< i - 1 => i - 1 - 1 + 1 = i - 1) /\ (~ (1 =< i - 1) => i - 1 = 0)
    BY <1>1
  <2> QED
    BY <1>1, <2>1, <2>2, SubSeqProperties
<1>3. /\ back \in Seq(Request) /\ Len(back) = n - i
      /\ \A j \in 1 .. n - i : back[j] = p[i + j]
  <2>1. \A j \in i + 1 .. n : p[j] \in Request
    BY <1>1
  <2>2. i + 1 \in Int /\ n \in Int /\ (i + 1 =< n => n - (i + 1) + 1 = n - i) /\ (~ (i + 1 =< n) => n - i = 0)
    BY <1>1
  <2> QED
    BY <1>1, <2>1, <2>2, SubSeqProperties
<1>4. q = front \o back
  BY DEF RemoveAt
<1> HIDE DEF n, front, back
<1>5. q \in Seq(Request) /\ Len(q) = n - 1
  <2>1. q \in Seq(Request) /\ Len(q) = Len(front) + Len(back)
    BY <1>2, <1>3, <1>4, ConcatProperties, Zenon
  <2> QED
    BY <1>1, <1>2, <1>3, <2>1
<1>6. DOMAIN q = 1 .. n - 1
  BY <1>5
<1>7. \A j \in 1 .. n - 1 : q[j] = p[at(j)] /\ at(j) \in DOMAIN p \ {i}
  <2> SUFFICES ASSUME NEW j \in 1 .. n - 1
               PROVE  q[j] = p[at(j)] /\ at(j) \in DOMAIN p \ {i}
    OBVIOUS
  <2>1. Len(front) + Len(back) = n - 1
    BY <1>1, <1>2, <1>3
  <2>2. q[j] = IF j =< Len(front) THEN front[j] ELSE back[j - Len(front)]
    BY <1>2, <1>3, <1>4, <2>1, ConcatProperties
  <2>3. CASE j < i
    <3>1. j =< Len(front) /\ j \in 1 .. i - 1
      BY <1>1, <1>2, <2>3
    <3> QED
      BY <1>1, <1>2, <2>2, <2>3, <3>1
  <2>4. CASE ~ (j < i)
    <3>1. ~ (j =< Len(front)) /\ j - Len(front) \in 1 .. n - i /\ i + (j - Len(front)) = j + 1
      BY <1>1, <1>2, <2>4
    <3>2. q[j] = p[j + 1]
      BY <1>3, <2>2, <3>1
    <3> QED
      BY <1>1, <2>4, <3>2
  <2> QED
    BY <2>3, <2>4
<1>8. \A j, k \in 1 .. n - 1 : at(j) = at(k) => j = k
  BY <1>1
<1>9. \A l \in DOMAIN p \ {i} : \E j \in 1 .. n - 1 : at(j) = l
  <2> SUFFICES ASSUME NEW l \in DOMAIN p \ {i}
               PROVE  \E j \in 1 .. n - 1 : at(j) = l
    OBVIOUS
  <2>1. CASE l < i
    <3>1. l \in 1 .. n - 1 /\ at(l) = l
      BY <1>1, <2>1
    <3> QED
      BY <3>1
  <2>2. CASE ~ (l < i)
    <3>1. l - 1 \in 1 .. n - 1 /\ at(l - 1) = l
      BY <1>1, <2>2
    <3> QED
      BY <3>1
  <2> QED
    BY <2>1, <2>2
<1> HIDE DEF at
<1>10. \A j, k \in DOMAIN q : \E l, m \in DOMAIN p \ {i} :
         q[j] = p[l] /\ q[k] = p[m] /\ (l = m => j = k)
  <2> SUFFICES ASSUME NEW j \in DOMAIN q, NEW k \in DOMAIN q
               PROVE  \E l, m \in DOMAIN p \ {i} : q[j] = p[l] /\ q[k] = p[m] /\ (l = m => j = k)
    OBVIOUS
  <2>1. at(j) \in DOMAIN p \ {i} /\ at(k) \in DOMAIN p \ {i} /\ q[j] = p[at(j)] /\ q[k] = p[at(k)]
    BY <1>6, <1>7
  <2>2. at(j) = at(k) => j = k
    BY <1>6, <1>8
  <2> QED
    BY <2>1, <2>2, Zenon
<1>11. \A l \in DOMAIN p \ {i} : \E j \in DOMAIN q : q[j] = p[l]
  BY <1>6, <1>7, <1>9, Zenon
<1>12. Rest(q, p)
  <2>1. \A x : Same(x, x)
    BY DEF Same
  <2> SUFFICES ASSUME NEW j \in DOMAIN q, NEW k \in DOMAIN q
               PROVE  \E l, m \in DOMAIN p : Same(q[j], p[l]) /\ Same(q[k], p[m]) /\ (l = m => j = k)
    BY DEF Rest
  <2>2. PICK l \in DOMAIN p, m \in DOMAIN p : q[j] = p[l] /\ q[k] = p[m] /\ (l = m => j = k)
    BY <1>10
  <2> QED
    BY <2>1, <2>2
<1> QED
  BY <1>5, <1>10, <1>11, <1>12 DEF n, AllBut

LEMMA AppendFacts ==
  ASSUME NEW p \in Seq(Request), NEW x \in Request, NEW q, q = Append(p, x)
  PROVE  /\ q \in Seq(Request) /\ Len(q) = Len(p) + 1
         /\ DOMAIN q = 1 .. Len(p) + 1 /\ Len(p) + 1 \notin DOMAIN p
         /\ q[Len(p) + 1] = x
         /\ \A i \in DOMAIN p : i \in DOMAIN q /\ q[i] = p[i]
         /\ \A i \in DOMAIN q : i \in DOMAIN p \/ i = Len(p) + 1
OBVIOUS

-----------------------------------------------------------------------------
(* The invariant *)

\* Nothing was changed while a removal was awaited, and she never left the form
\* while a save was in flight or lost.
Lossless == excuses \cap {"removal", "left"} = {}

\* A removal whose answer will replace what the form shows.
Awaited(i) == posts[i].by = "removal" /\ posts[i].here

\* What is stored or on its way is whole whatever happened: she posts only as
\* long as nothing was lost.
StoredInv ==
  /\ Whole(cache.claim) /\ Whole(get.claim) /\ Whole(draft)
  /\ \A i \in DOMAIN posts : Whole(posts[i].claim)

FormInv == Lossless => Whole(values) /\ Whole(initial) /\ Whole(sent)

\* The page of an employer shows one that the values last sent, and those that
\* Back returns to, hold or end just before.
PlaceInv ==
  Lossless =>
    /\ route.page = "employer" =>
         /\ route.segment < Len(values.employers)
         /\ route.segment =< Len(initial.employers)
         /\ route.segment =< Len(sent.employers)
    /\ route.page \in {"employer-review", "review"} =>
         /\ Len(values.employers) = Len(initial.employers)
         /\ Removing \/ Len(sent.employers) = Len(initial.employers)

\* The answer of a removal finds the page that asked for it, and nothing was
\* sent in between.
RemovalInv ==
  Lossless =>
    \A i \in DOMAIN posts : Awaited(i) =>
      /\ route = EmployerReview
      /\ sent = posts[i].claim
      /\ \A j \in DOMAIN posts : Awaited(j) => i = j
      /\ \A j \in DOMAIN posts : posts[j].here => posts[j].by # "exit"

\* Away from the form nothing is in flight.
AwayInv == Lossless /\ ~ OnForm => posts = <<>>

\* Home once it is refreshed has what the server has, and what it says of
\* errors is said of that claim.
HomeInv ==
  route = Home /\ "left" \notin excuses =>
    /\ posts = <<>> /\ get.pc # "read"
    /\ get.pc = "none" => cache.claim = draft /\ cache.errors = Errors(draft)

IInv == TypeInv /\ StoredInv /\ FormInv /\ PlaceInv /\ RemovalInv /\ AwayInv /\ HomeInv

-----------------------------------------------------------------------------
(* What a step does to the posts *)

LEMMA FreeFacts ==
  ASSUME Free
  PROVE  Lossless /\ \A i \in DOMAIN posts : posts[i].by # "exit"
BY DEF Free, Lossless

\* What holds of every post holds of those that are left.
LEMMA StillStored ==
  ASSUME TypeInv, StoredInv, NEW q \in Seq(Request), Rest(q, posts)
  PROVE  /\ \A i \in DOMAIN q : Whole(q[i].claim) /\ (q[i].applied => Writable(q[i].claim))
         /\ ~ Removing => \A i \in DOMAIN q : ~ (q[i].by = "removal" /\ q[i].here)
<1> SUFFICES ASSUME NEW i \in DOMAIN q
             PROVE  /\ Whole(q[i].claim) /\ (q[i].applied => Writable(q[i].claim))
                    /\ ~ Removing => ~ (q[i].by = "removal" /\ q[i].here)
  BY Zenon
<1>1. PICK l \in DOMAIN posts : Same(q[i], posts[l])
  BY RestOf, Zenon
<1>2. Whole(posts[l].claim) /\ (posts[l].applied => Writable(posts[l].claim))
  BY DEF TypeInv, StoredInv
<1> QED
  BY <1>1, <1>2 DEF Same, Removing

\* One more post of a claim that is whole.
LEMMA SentFacts ==
  ASSUME TypeInv, StoredInv, NEW others \in Seq(Request), Len(others) = Len(posts),
         Rest(others, posts), Len(posts) < MaxPosts, NEW x \in Request, Whole(x.claim),
         NEW q, q = Append(others, x)
  PROVE  /\ q \in Seq(Request) /\ Len(q) =< MaxPosts
         /\ \A i \in DOMAIN q : Whole(q[i].claim) /\ (q[i].applied => Writable(q[i].claim))
         /\ ~ Removing => \A i \in DOMAIN q : q[i].by = "removal" /\ q[i].here
                                               => i = Len(q) /\ q[i] = x
<1>1. /\ q \in Seq(Request) /\ Len(q) = Len(others) + 1 /\ q[Len(others) + 1] = x
      /\ \A i \in DOMAIN q : \/ i \in DOMAIN others /\ q[i] = others[i]
                             \/ i = Len(others) + 1
  BY AppendFacts
<1>2. /\ \A i \in DOMAIN others : Whole(others[i].claim) /\ (others[i].applied => Writable(others[i].claim))
      /\ ~ Removing => \A i \in DOMAIN others : ~ (others[i].by = "removal" /\ others[i].here)
  BY StillStored, Zenon
<1>3. Len(q) =< MaxPosts
  BY <1>1, Posts, Constants
<1>4. \A i \in DOMAIN q : Whole(q[i].claim) /\ (q[i].applied => Writable(q[i].claim))
  BY <1>1, <1>2, Zenon DEF Whole
<1>5. ~ Removing => \A i \in DOMAIN q : q[i].by = "removal" /\ q[i].here => i = Len(q) /\ q[i] = x
  BY <1>1, <1>2, Zenon
<1> QED
  BY <1>1, <1>3, <1>4, <1>5, Zenon

\* One post was answered, or failed.
LEMMA StillAwaited ==
  ASSUME TypeInv, NEW i \in DOMAIN posts, posts' = RemoveAt(posts, i)
  PROVE  /\ posts' \in Seq(Request) /\ Len(posts') =< MaxPosts /\ Rest(posts', posts)
         /\ AllBut(posts', posts, i) /\ (Removing /\ ~ Awaited(i) => Removing')
<1>1. \A q : q = RemoveAt(posts, i) => q \in Seq(Request) /\ Len(q) = Len(posts) - 1
                                     /\ Rest(q, posts) /\ AllBut(q, posts, i)
  BY Posts, RemoveAtFacts, Zenon
<1>2. /\ posts' \in Seq(Request) /\ Len(posts') = Len(posts) - 1 /\ Rest(posts', posts)
      /\ AllBut(posts', posts, i)
  BY <1>1, Zenon
<1>3. Removing /\ ~ Awaited(i) => Removing'
  <2> SUFFICES ASSUME NEW l \in DOMAIN posts, Awaited(l), ~ Awaited(i)
               PROVE  Removing'
    BY DEF Removing, Awaited
  <2>1. l \in DOMAIN posts \ {i}
    OBVIOUS
  <2>2. PICK j \in DOMAIN posts' : posts'[j] = posts[l]
    BY <1>2, <2>1 DEF AllBut
  <2> QED
    BY <2>2 DEF Removing, Awaited
<1>4. Len(posts') =< MaxPosts
  BY <1>2, Posts, Constants DEF TypeInv
<1> QED
  BY <1>2, <1>3, <1>4, Zenon

\* A post is sent only below the bound.
LEMMA MaySendFacts ==
  ASSUME TypeInv, MaySend
  PROVE  Len(posts) < MaxPosts
<1>1. Len(posts) \in Nat
  BY Posts
<1> QED
  BY <1>1, Constants DEF MaySend

\* A refresh that is asked for is in flight.
LEMMA RefetchFacts ==
  ASSUME TypeInv, StoredInv, Refetch
  PROVE  /\ get' \in Refresh /\ get'.pc # "none" /\ Writable(get'.claim) /\ Whole(get'.claim)
         /\ get.pc = "none" => get'.pc = "sent"
<1>1. Asked \in Refresh /\ Asked.pc = "sent" /\ Asked.claim = NoClaim
  BY NoClaimFacts DEF Asked, Refresh
<1> QED
  BY <1>1, NoClaimFacts DEF Refetch, TypeInv, StoredInv, Whole

\* No refresh, or one that starts, or one that is not awaited any more.
LEMMA GetFacts ==
  ASSUME TypeInv, StoredInv, get' \in {NoGet, Asked, Unawaited}
  PROVE  /\ get' \in Refresh /\ (get'.pc = "none" => ~ get'.awaited)
         /\ Writable(get'.claim) /\ Whole(get'.claim)
         /\ get' \in {NoGet, Asked} => get'.pc # "read"
         /\ get' = NoGet => get'.pc = "none"
         /\ get' = Asked => get'.pc = "sent"
         /\ get' = Unawaited => get'.pc = get.pc
<1>1. Asked \in Refresh /\ Asked.pc = "sent" /\ Asked.claim = NoClaim
  BY NoClaimFacts DEF Asked, Refresh
<1>2. NoGet \in Refresh /\ NoGet.pc = "none" /\ NoGet.claim = NoClaim /\ ~ NoGet.awaited
  BY NoClaimFacts DEF NoGet, Refresh
<1>3. Unawaited \in Refresh /\ Unawaited.pc = get.pc /\ Unawaited.claim = get.claim /\ ~ Unawaited.awaited
  BY DEF Unawaited, Refresh, TypeInv
<1>4. Writable(get.claim) /\ Whole(get.claim)
  BY DEF TypeInv, StoredInv
<1> QED
  BY <1>1, <1>2, <1>3, <1>4, NoClaimFacts DEF Whole

-----------------------------------------------------------------------------
(* The pages a step leads to *)

FormPages == {"employer", "employer-review", "review"}

LEMMA ContinueFacts ==
  ASSUME NEW c \in FormClaim, NEW r, r = ContinueAt(c)
  PROVE  r \in Routes /\ r.page \in FormPages /\ r.segment =< Len(c.employers)
<1> DEFINE Stops == {s \in 0 .. Len(c.employers) :
                       /\ \A t \in 0 .. s - 1 : segmentSchema(c, t) /\ repeatable(c, t)
                       /\ ~ segmentSchema(c, s)}
           at == CHOOSE s \in Stops : TRUE
<1>1. r = IF Stops # {} THEN Employer(at) ELSE IF pageSchema(c) THEN Review ELSE EmployerReview
  BY DEF ContinueAt
<1>2. c \in Claim /\ Len(c.employers) \in Nat /\ Len(c.employers) =< MaxEmployers
  BY ClaimParts DEF FormClaim
<1>3. \A s \in Stops : s \in 0 .. MaxEmployers /\ s =< Len(c.employers)
  BY <1>2, Constants
<1> HIDE DEF Stops
<1>4. CASE Stops # {}
  <2>1. at \in Stops
    BY <1>4
  <2> HIDE DEF at
  <2>2. at \in 0 .. MaxEmployers /\ at =< Len(c.employers) /\ r = Employer(at)
    BY <1>1, <1>3, <1>4, <2>1
  <2> QED
    BY <2>2, RouteParts DEF FormPages
<1>5. CASE Stops = {}
  <2>1. r = Review \/ r = EmployerReview
    BY <1>1, <1>5
  <2> QED
    BY <2>1, <1>2, RouteParts DEF FormPages
<1> QED
  BY <1>4, <1>5

LEMMA NextPageFacts ==
  ASSUME TypeInv, OnForm, NEW r, r = NextPage, r.segment < MaxEmployers
  PROVE  /\ r \in Routes /\ r.page \in FormPages
         /\ \/ r.segment = 0
            \/ route.page = "employer" /\ r.segment = route.segment + 1
<1>1. route \in Routes /\ route.segment \in 0 .. MaxEmployers /\ route.segment + 1 \in Int
      /\ route.segment < MaxEmployers /\ MaxEmployers \in Nat
  BY RouteParts, Constants DEF TypeInv
<1>2. CASE route.page = "employer" /\ repeatable(values, route.segment)
  <2>1. r = Employer(route.segment + 1)
    BY <1>2 DEF NextPage
  <2>2. route.segment + 1 \in 0 .. MaxEmployers
    BY <1>1
  <2> QED
    BY <1>2, <2>1, <2>2, RouteParts DEF FormPages
<1>3. CASE ~ (route.page = "employer" /\ repeatable(values, route.segment))
  <2>1. r = Review \/ r = EmployerReview
    <3>1. CASE route.page = "employer"
      BY <1>3, <3>1 DEF NextPage
    <3>2. CASE route.page # "employer"
      BY <3>2 DEF NextPage
    <3> QED
      BY <3>1, <3>2
  <2> QED
    BY <2>1, Pages DEF FormPages
<1> QED
  BY <1>2, <1>3

LEMMA PreviousPageFacts ==
  ASSUME TypeInv, OnForm, route # Employer(0), NEW r, r = PreviousPage
  PROVE  /\ r \in Routes /\ r.page \in FormPages /\ r.segment < MaxEmployers
         /\ \/ route.page = "employer" /\ r.page = "employer" /\ r.segment = route.segment - 1
            \/ /\ route.page = "employer-review" /\ r.page = "employer"
               /\ r.segment = 0 \/ r.segment = Len(values.employers) - 1
               /\ r.segment =< Len(values.employers)
            \/ route.page = "review" /\ r.page = "employer-review"
<1>1. /\ route \in Routes /\ route.segment \in 0 .. MaxEmployers
      /\ route.segment < MaxEmployers /\ MaxEmployers \in Nat /\ 1 =< MaxEmployers
      /\ Len(values.employers) \in Nat /\ Len(values.employers) =< MaxEmployers
      /\ values.employers \in Seq(Employers)
  BY RouteParts, Constants, ClaimParts DEF TypeInv, FormClaim
<1>2. CASE route.page = "employer"
  <2>1. r = Employer(route.segment - 1)
    BY <1>2 DEF PreviousPage
  <2>2. route.segment # 0
    BY <1>1, <1>2, RouteParts
  <2>3. route.segment - 1 \in 0 .. MaxEmployers
    BY <1>1, <2>2
  <2> QED
    BY <1>1, <1>2, <2>1, <2>3, RouteParts DEF FormPages
<1>3. CASE route.page = "employer-review"
  <2> DEFINE s == IF values.employers = <<>> THEN 0 ELSE Len(values.employers) - 1
  <2>1. r = Employer(s)
    BY <1>3 DEF PreviousPage
  <2>2. s \in 0 .. MaxEmployers /\ s < MaxEmployers /\ s =< Len(values.employers)
        /\ (s = 0 \/ s = Len(values.employers) - 1)
    BY <1>1, EmptySeq
  <2> HIDE DEF s
  <2> QED
    BY <1>1, <1>3, <2>1, <2>2, RouteParts DEF FormPages
<1>4. CASE route.page = "review"
  <2>1. r = EmployerReview
    BY <1>4 DEF PreviousPage
  <2> QED
    BY <1>1, <1>4, <2>1, RouteParts DEF FormPages
<1> QED
  BY <1>2, <1>3, <1>4 DEF OnForm

-----------------------------------------------------------------------------
(* The invariant is kept: what she does to the form *)

\* What a post claims, the cache and the draft are the claims that are stored.
LEMMA StoredFacts ==
  ASSUME TypeInv, StoredInv
  PROVE  /\ cache.claim \in FormClaim /\ cache.claim \in Claim /\ Whole(cache.claim)
         /\ draft \in FormClaim /\ draft \in Claim /\ Whole(draft)
         /\ values \in FormClaim /\ values \in Claim
         /\ initial \in FormClaim /\ initial \in Claim
         /\ sent \in FormClaim /\ sent \in Claim
BY DEF TypeInv, StoredInv, FormClaim

\* An answer to one question of the page.
LEMMA AnswerKeeps ==
  ASSUME IInv, excuses \subseteq excuses', values' \in FormClaim,
         Len(values'.employers) = Len(values.employers), Whole(values) => Whole(values'),
         UNCHANGED <<route, initial, cache, get, posts, draft, sent>>
  PROVE  IInv'
<1>1. Lossless' => Lossless
  BY DEF Lossless
<1>2. TypeInv'
  BY DEF IInv, TypeInv
<1>3. StoredInv' /\ (FormInv' /\ RemovalInv' /\ AwayInv' /\ HomeInv')
  BY <1>1 DEF IInv, StoredInv, FormInv, RemovalInv, AwayInv, HomeInv, Awaited, OnForm
<1>4. PlaceInv'
  BY <1>1 DEF IInv, PlaceInv, Removing
<1> QED
  BY <1>2, <1>3, <1>4 DEF IInv

\* On the page of an employer, as long as nothing was lost, there is one.
LEMMA OnPage ==
  ASSUME IInv, Free, route.page = "employer", NEW s, s = route.segment
  PROVE  /\ s \in Nat /\ s < Len(values.employers) /\ s + 1 \in DOMAIN values.employers
         /\ Whole(values) /\ s =< Len(initial.employers) /\ s =< Len(sent.employers)
<1>1. Lossless
  BY FreeFacts
<1>2. s \in Nat
  BY RouteParts, Constants DEF IInv, TypeInv
<1>3. /\ s < Len(values.employers) /\ Whole(values)
      /\ s =< Len(initial.employers) /\ s =< Len(sent.employers)
  BY <1>1 DEF IInv, PlaceInv, FormInv
<1>4. values.employers \in Seq(Employers) /\ Len(values.employers) \in Nat
      /\ DOMAIN values.employers = 1 .. Len(values.employers)
  BY StoredFacts, ClaimParts DEF IInv
<1> QED
  BY <1>2, <1>3, <1>4

\* A claim with one employer filled in.
FilledIn(c, k, name) == [c EXCEPT !.employers[k] = name]

LEMMA FilledFacts ==
  ASSUME NEW c \in FormClaim, NEW k \in DOMAIN c.employers, c.employers[k] = untouched,
         NEW name \in Names, NEW d, d = FilledIn(c, k, name)
  PROVE  /\ d \in FormClaim /\ d.more = c.more /\ d.affirmed = c.affirmed
         /\ Len(d.employers) = Len(c.employers)
         /\ NameSet(d) = NameSet(c) \cup {name}
         /\ Whole(c) /\ name \notin NameSet(c) => Whole(d)
<1> DEFINE e == [c.employers EXCEPT ![k] = name]
<1>1. /\ c \in Claim /\ c.employers \in Seq(Employers) /\ DOMAIN c.employers = 1 .. Len(c.employers)
      /\ Len(c.employers) =< MaxEmployers /\ Len(c.employers) \in Nat /\ name \in Employers
  BY ClaimParts, Constants DEF FormClaim
<1>2. /\ e \in Seq(Employers) /\ Len(e) = Len(c.employers)
      /\ DOMAIN e = DOMAIN c.employers
      /\ \A j \in DOMAIN e : e[j] = IF j = k THEN name ELSE c.employers[j]
  <2>1. e \in Seq(Employers) /\ Len(e) = Len(c.employers)
    BY <1>1, ExceptSeq
  <2> QED
    BY <1>1, <2>1
<1>3. d = [c EXCEPT !.employers = e]
  BY DEF FilledIn
<1> HIDE DEF e
<1>4. d \in Claim /\ d.employers = e /\ d.more = c.more /\ d.affirmed = c.affirmed
  <2>1. e \in Seq(Employers)
    BY <1>2
  <2> QED
    BY <1>1, <1>3, <2>1 DEF Claim
<1>5. d \in FormClaim
  BY <1>1, <1>2, <1>4 DEF FormClaim
<1>6. NameSet(d) = NameSet(c) \cup {name}
  <2>1. c.employers[k] \notin Names
    BY Constants
  <2> QED
    BY <1>2, <1>4, <2>1 DEF NameSet
<1>7. ASSUME Whole(c), name \notin NameSet(c)
      PROVE  Whole(d)
  <2>1. \A j \in DOMAIN c.employers : c.employers[j] # name
    BY <1>7 DEF NameSet
  <2>2. Writable(d)
    BY <1>2, <1>4, <1>7, Constants DEF Whole, Writable
  <2>3. Distinct(d)
    BY <1>2, <1>4, <1>7, <2>1 DEF Whole, Distinct
  <2> QED
    BY <1>2, <1>4, <1>7, <2>2, <2>3 DEF Whole
<1> QED
  BY <1>2, <1>4, <1>5, <1>6, <1>7

LEMMA EnterNameFacts ==
  ASSUME IInv, NEW name \in Names, EnterName(name)
  PROVE  /\ values' \in FormClaim /\ values'.affirmed = values.affirmed
         /\ Len(values'.employers) = Len(values.employers)
         /\ NameSet(values') = NameSet(values) \cup {name}
         /\ Whole(values) => Whole(values')
<1> DEFINE k == route.segment + 1
<1>1. k \in DOMAIN values.employers
  BY OnPage DEF Types, EnterName
<1>2. values \in FormClaim
  BY DEF IInv, TypeInv
<1>3. values.employers[k] = untouched /\ name \notin NameSet(values)
      /\ values' = FilledIn(values, k, name)
  BY DEF EnterName, FilledIn
<1> HIDE DEF k
<1> DEFINE d == FilledIn(values, k, name)
<1>a. name \in Names /\ d = FilledIn(values, k, name)
  OBVIOUS
<1> HIDE DEF d
<1>4. /\ d \in FormClaim /\ d.affirmed = values.affirmed
      /\ Len(d.employers) = Len(values.employers)
      /\ NameSet(d) = NameSet(values) \cup {name}
      /\ Whole(values) /\ name \notin NameSet(values) => Whole(d)
  BY <1>1, <1>2, <1>3, <1>a, FilledFacts
<1>5. values' = d
  BY <1>3, <1>a
<1> QED
  BY <1>3, <1>4, <1>5

LEMMA AnswerMoreFacts ==
  ASSUME IInv, NEW x \in {"yes", "no"}, AnswerMore(x)
  PROVE  /\ values' \in FormClaim /\ values'.affirmed = values.affirmed
         /\ values'.employers = values.employers
         /\ Whole(values) => Whole(values')
<1> DEFINE k == route.segment + 1
           m == Put(values.more, k, x, "unset")
<1>1. /\ k \in Nat \ {0} /\ k =< Len(values.employers) /\ Whole(values)
  BY OnPage DEF Types, AnswerMore
<1>2. values \in FormClaim /\ values \in Claim /\ values.more \in Seq(Answers)
  BY StoredFacts, ClaimParts DEF IInv
<1>3. values' = [values EXCEPT !.more = m]
  BY DEF AnswerMore
<1>4. m \in Seq(Answers) /\ IsPut(m, values.more, k, x, "unset")
  <2>1. x \in Answers /\ "unset" \in Answers
    BY DEF Answers
  <2> HIDE DEF k
  <2> QED
    BY <1>1, <1>2, <2>1, PutFacts
<1>5. Len(m) = Len(values.more)
  BY <1>1, <1>2, <1>4 DEF IsPut, Whole
<1> HIDE DEF m, k
<1>6. /\ values' \in Claim /\ values'.employers = values.employers
      /\ values'.more = m /\ values'.affirmed = values.affirmed
  <2>1. m \in Seq(Answers)
    BY <1>4
  <2> QED
    BY <1>2, <1>3, <2>1 DEF Claim
<1> QED
  BY <1>1, <1>2, <1>5, <1>6 DEF FormClaim, Whole, Writable, Distinct

LEMMA AffirmFacts ==
  ASSUME IInv, NEW x \in Affirmations, Affirm(x)
  PROVE  /\ values' \in FormClaim /\ values'.affirmed = x
         /\ values'.employers = values.employers /\ values'.more = values.more
         /\ Whole(values) => Whole(values')
<1>1. values \in FormClaim /\ values \in Claim /\ x \in Answers
  BY StoredFacts, FormAssumption DEF IInv, Answers
<1>2. values' = [values EXCEPT !.affirmed = x]
  BY DEF Affirm
<1>3. /\ values' \in Claim /\ values'.employers = values.employers
      /\ values'.more = values.more /\ values'.affirmed = x
  BY <1>1, <1>2 DEF Claim
<1> QED
  BY <1>1, <1>3 DEF FormClaim, Whole, Writable, Distinct

LEMMA AnswersKeep ==
  ASSUME IInv,
         \/ \E name \in Names : EnterName(name)
         \/ \E x \in {"yes", "no"} : AnswerMore(x)
         \/ \E x \in Affirmations : Affirm(x)
  PROVE  IInv'
<1>1. ASSUME NEW name \in Names, EnterName(name)
      PROVE  IInv'
  <2>1. excuses \subseteq excuses' /\ UNCHANGED <<route, initial, cache, get, posts, draft, sent>>
    BY <1>1 DEF EnterName, MindsRemoval, Excused
  <2> QED
    BY <1>1, <2>1, EnterNameFacts, AnswerKeeps
<1>2. ASSUME NEW x \in {"yes", "no"}, AnswerMore(x)
      PROVE  IInv'
  <2>1. excuses \subseteq excuses' /\ UNCHANGED <<route, initial, cache, get, posts, draft, sent>>
    BY <1>2 DEF AnswerMore, MindsRemoval, Excused
  <2>2. /\ values' \in FormClaim /\ values'.employers = values.employers
        /\ Whole(values) => Whole(values')
    BY <1>2, AnswerMoreFacts
  <2> QED
    BY <2>1, <2>2, AnswerKeeps
<1>3. ASSUME NEW x \in Affirmations, Affirm(x)
      PROVE  IInv'
  <2>1. excuses \subseteq excuses' /\ UNCHANGED <<route, initial, cache, get, posts, draft, sent>>
    BY <1>3 DEF Affirm, MindsRemoval, Excused
  <2>2. /\ values' \in FormClaim /\ values'.employers = values.employers
        /\ Whole(values) => Whole(values')
    BY <1>3, AffirmFacts
  <2> QED
    BY <2>1, <2>2, AnswerKeeps
<1> QED
  BY <1>1, <1>2, <1>3

\* What holds of the posts once x was sent, a claim that is whole.
Sends(x) ==
  /\ posts' \in Seq(Request) /\ Len(posts') =< MaxPosts
  /\ \A i \in DOMAIN posts' : Whole(posts'[i].claim) /\ (posts'[i].applied => Writable(posts'[i].claim))
  /\ Removing \/ \A i \in DOMAIN posts' : posts'[i].by = "removal" /\ posts'[i].here
                                            => i = Len(posts') /\ posts'[i] = x

LEMMA PostSends ==
  ASSUME TypeInv, StoredInv, NEW c \in FormClaim, Whole(c), NEW by \in {"save", "exit", "removal"},
         NEW f, f \in BOOLEAN, Len(posts) < MaxPosts, posts' = Append(Unfollowed, Post(c, by, f))
  PROVE  Sends(Post(c, by, f))
<1> DEFINE x == Post(c, by, f)
<1>1. x \in Request /\ Whole(x.claim)
  BY PostFacts
<1>2. posts' = Append(Unfollowed, x)
  OBVIOUS
<1> HIDE DEF x
<1> DEFINE others == Unfollowed
<1>3. others \in Seq(Request) /\ Len(others) = Len(posts) /\ Rest(others, posts)
  BY UnfollowedFacts
<1>4. posts' = Append(others, x)
  BY <1>2
<1> HIDE DEF others
<1>5. \A q : q = Append(others, x) =>
        /\ q \in Seq(Request) /\ Len(q) =< MaxPosts
        /\ \A i \in DOMAIN q : Whole(q[i].claim) /\ (q[i].applied => Writable(q[i].claim))
        /\ ~ Removing => \A i \in DOMAIN q : q[i].by = "removal" /\ q[i].here
                                              => i = Len(q) /\ q[i] = x
  BY <1>1, <1>3, SentFacts, Zenon
<1>6. Sends(x)
  BY <1>4, <1>5, Zenon DEF Sends
<1> QED
  BY <1>6 DEF x

LEMMA RemovalSends ==
  ASSUME TypeInv, StoredInv, NEW c \in FormClaim, Whole(c), NEW gone \in SUBSET Names,
         Len(posts) < MaxPosts, posts' = Append(posts, Removal(c, gone))
  PROVE  Sends(Removal(c, gone)) /\ posts'[Len(posts')] = Removal(c, gone) /\ Len(posts') \in DOMAIN posts'
<1> DEFINE x == Removal(c, gone)
           others == posts
<1>1. x \in Request /\ Whole(x.claim)
  BY RemovalFacts
<1>2. posts' = Append(others, x)
  OBVIOUS
<1> HIDE DEF x
<1>3. others \in Seq(Request) /\ Len(others) = Len(posts) /\ Rest(others, posts)
  <2>1. \A y : Same(y, y)
    BY DEF Same
  <2> QED
    BY <2>1, Posts, Zenon DEF Rest
<1> HIDE DEF others
<1>5. \A q : q = Append(others, x) =>
        /\ q \in Seq(Request) /\ Len(q) =< MaxPosts
        /\ \A i \in DOMAIN q : Whole(q[i].claim) /\ (q[i].applied => Writable(q[i].claim))
        /\ ~ Removing => \A i \in DOMAIN q : q[i].by = "removal" /\ q[i].here
                                              => i = Len(q) /\ q[i] = x
  BY <1>1, <1>3, SentFacts, Zenon
<1>6. Sends(x)
  BY <1>2, <1>5, Zenon DEF Sends
<1>7. \A q : q = Append(others, x) => q[Len(q)] = x /\ Len(q) \in DOMAIN q
  BY <1>1, <1>3
<1> QED
  BY <1>2, <1>6, <1>7, Zenon DEF x

LEMMA GoNextKeeps ==
  ASSUME IInv, GoNext
  PROVE  IInv'
<1> DEFINE r == NextPage
           x == Post(values, "save", TRUE)
<1>0. TRUE \in BOOLEAN
  OBVIOUS
<1>1. /\ TypeInv /\ StoredInv /\ OnForm /\ Free /\ Lossless /\ Whole(values)
      /\ values \in FormClaim /\ values \in Claim /\ Len(values.employers) \in Nat
  BY FreeFacts, StoredFacts, ClaimParts DEF GoNext, IInv, FormInv
<1>2. /\ route' = r /\ values' = Settled(values, r) /\ initial' = values /\ sent' = values
      /\ UNCHANGED <<cache, get, draft>>
      /\ r.segment < MaxEmployers /\ Len(posts) < MaxPosts /\ posts' = Append(Unfollowed, x)
  BY <1>1, MaySendFacts DEF GoNext, Show, Sent, resetForm
<1>3. Removing => ~ Lossless'
  BY DEF GoNext, Sent, Lossless
<1>4. Sends(x) /\ x.by = "save"
  <2>1. Sends(x)
    BY <1>0, <1>1, <1>2, PostSends, Zenon
  <2>2. x.by = "save"
    BY DEF Post
  <2> QED
    BY <2>1, <2>2
<1>5. /\ r \in Routes /\ r.page \in FormPages
      /\ r.segment = 0 \/ r.segment =< Len(values.employers)
  <2>1. CASE route.page = "employer"
    BY <1>1, <1>2, <2>1, NextPageFacts, OnPage
  <2>2. CASE route.page # "employer"
    BY <1>1, <1>2, <2>2, NextPageFacts
  <2> QED
    BY <2>1, <2>2
<1> HIDE DEF r, x
<1>6. /\ values' \in FormClaim /\ Whole(values')
      /\ r.page = "employer" => r.segment < Len(values'.employers) /\ r.segment =< Len(values.employers)
      /\ r.page # "employer" => values' = values
  BY <1>1, <1>2, <1>5, SettledFacts
<1>7. TypeInv'
  BY <1>1, <1>2, <1>4, <1>5, <1>6 DEF TypeInv, Sends
<1>8. StoredInv' /\ FormInv'
  BY <1>1, <1>2, <1>4, <1>6 DEF StoredInv, FormInv, Sends
<1>9. PlaceInv'
  BY <1>1, <1>2, <1>5, <1>6 DEF PlaceInv, FormPages
<1>10. RemovalInv'
  BY <1>3, <1>4 DEF RemovalInv, Awaited, Sends
<1>11. AwayInv' /\ HomeInv'
  BY <1>2, <1>5, Pages DEF AwayInv, HomeInv, OnForm, FormPages
<1> QED
  BY <1>7, <1>8, <1>9, <1>10, <1>11 DEF IInv

LEMMA GoBackKeeps ==
  ASSUME IInv, GoBack
  PROVE  IInv'
<1> DEFINE r == PreviousPage
           x == Post(values, "save", FALSE)
<1>0. FALSE \in BOOLEAN
  OBVIOUS
<1>1. /\ TypeInv /\ StoredInv /\ OnForm /\ Free /\ Lossless /\ Whole(values) /\ Whole(initial)
      /\ values \in FormClaim /\ values \in Claim /\ Len(values.employers) \in Nat
      /\ initial \in FormClaim /\ initial \in Claim /\ Len(initial.employers) \in Nat
  BY FreeFacts, StoredFacts, ClaimParts DEF GoBack, IInv, FormInv
<1>2. /\ route' = r /\ values' = Settled(initial, r) /\ initial' = initial /\ sent' = values
      /\ UNCHANGED <<cache, get, draft>> /\ route # Employer(0)
      /\ Len(posts) < MaxPosts /\ posts' = Append(Unfollowed, x)
  BY <1>1, MaySendFacts DEF GoBack, Show
<1>3. Removing => ~ Lossless'
  BY DEF GoBack, Lossless
<1>4. Sends(x) /\ x.by = "save"
  <2>1. Sends(x)
    BY <1>0, <1>1, <1>2, PostSends, Zenon
  <2>2. x.by = "save"
    BY DEF Post
  <2> QED
    BY <2>1, <2>2
<1>5. /\ r \in Routes /\ r.page \in FormPages /\ r.segment < MaxEmployers
      /\ \/ route.page = "employer" /\ r.page = "employer" /\ r.segment = route.segment - 1
         \/ route.page = "employer-review" /\ r.page = "employer" /\ r.segment =< Len(values.employers)
         \/ route.page = "review" /\ r.page = "employer-review"
  BY <1>1, <1>2, PreviousPageFacts
<1> HIDE DEF r, x
<1>a. /\ route.page = "employer" => /\ route.segment =< Len(initial.employers)
                                    /\ route.segment < Len(values.employers) /\ route.segment \in Nat
      /\ route.page \in {"employer-review", "review"} =>
           Len(values.employers) = Len(initial.employers)
  BY <1>1, OnPage DEF IInv, PlaceInv
<1>b. r.page = "employer" => /\ r.segment =< Len(initial.employers)
                             /\ r.segment =< Len(values.employers)
  BY <1>1, <1>5, <1>a
<1>6. /\ values' \in FormClaim /\ Whole(values')
      /\ r.page = "employer" => r.segment < Len(values'.employers)
      /\ r.page # "employer" => values' = initial
  BY <1>1, <1>2, <1>5, <1>b, SettledFacts
<1>7. TypeInv'
  BY <1>1, <1>2, <1>4, <1>5, <1>6 DEF TypeInv, Sends
<1>8. StoredInv' /\ FormInv'
  BY <1>1, <1>2, <1>4, <1>6 DEF StoredInv, FormInv, Sends
<1>9. PlaceInv'
  BY <1>1, <1>2, <1>5, <1>6, <1>a, <1>b DEF PlaceInv, FormPages
<1>10. RemovalInv'
  BY <1>3, <1>4 DEF RemovalInv, Awaited, Sends
<1>11. AwayInv' /\ HomeInv'
  BY <1>2, <1>5, Pages DEF AwayInv, HomeInv, OnForm, FormPages
<1> QED
  BY <1>7, <1>8, <1>9, <1>10, <1>11 DEF IInv

LEMMA SaveAndExitKeeps ==
  ASSUME IInv, SaveAndExit
  PROVE  IInv'
<1> DEFINE x == Post(values, "exit", TRUE)
<1>0. TRUE \in BOOLEAN
  OBVIOUS
<1>1. /\ TypeInv /\ StoredInv /\ OnForm /\ Free /\ Lossless /\ Whole(values)
      /\ values \in FormClaim
  BY FreeFacts, StoredFacts DEF SaveAndExit, IInv, FormInv
<1>2. /\ sent' = values /\ UNCHANGED <<route, values, initial, cache, get, draft>>
      /\ Len(posts) < MaxPosts /\ posts' = Append(Unfollowed, x)
  BY <1>1, MaySendFacts DEF SaveAndExit, Sent
<1>3. Removing => ~ Lossless'
  BY DEF SaveAndExit, Sent, Lossless
<1>4. Sends(x) /\ x.by = "exit"
  <2>1. Sends(x)
    BY <1>0, <1>1, <1>2, PostSends, Zenon
  <2>2. x.by = "exit"
    BY DEF Post
  <2> QED
    BY <2>1, <2>2
<1> HIDE DEF x
<1>5. TypeInv'
  BY <1>1, <1>2, <1>4 DEF TypeInv, Sends
<1>6. StoredInv' /\ FormInv'
  BY <1>1, <1>2, <1>4 DEF IInv, StoredInv, FormInv, Sends
<1>7. PlaceInv'
  <2>1. /\ route.page = "employer" => /\ route.segment < Len(values.employers)
                                      /\ route.segment =< Len(initial.employers)
                                      /\ route.segment =< Len(values.employers)
        /\ route.page \in {"employer-review", "review"} =>
             Len(values.employers) = Len(initial.employers)
    <3>1. route.page = "employer" => /\ route.segment < Len(values.employers)
                                     /\ route.segment =< Len(initial.employers)
                                     /\ route.segment \in Nat /\ Len(values.employers) \in Nat
      BY <1>1, OnPage, ClaimParts, StoredFacts
    <3> QED
      BY <1>1, <3>1 DEF IInv, PlaceInv
  <2> QED
    BY <1>2, <2>1 DEF PlaceInv
<1>8. RemovalInv'
  BY <1>3, <1>4 DEF RemovalInv, Awaited, Sends
<1>9. AwayInv' /\ HomeInv'
  BY <1>1, <1>2, Pages DEF AwayInv, HomeInv, OnForm
<1> QED
  BY <1>5, <1>6, <1>7, <1>8, <1>9 DEF IInv

\* The names of the employers she removes.
NamesOf(I) == {values.employers[i] : i \in I} \cap Names

\* removeEmployer, as the invariants see it.
LEMMA RemovalStep ==
  ASSUME IInv, NEW I \in SUBSET DOMAIN values.employers, removeEmployer(I)
  PROVE  /\ Free /\ Lossless /\ route = EmployerReview
         /\ sent' = Removed(I) /\ Removed(I) \in FormClaim /\ Whole(Removed(I))
         /\ Removed(I).affirmed = values.affirmed
         /\ NameSet(Removed(I)) = NameSet(values) \ NamesOf(I)
         /\ Sends(Removal(Removed(I), NamesOf(I)))
         /\ posts'[Len(posts')] = Removal(Removed(I), NamesOf(I))
         /\ Len(posts') \in DOMAIN posts'
         /\ posts' = Append(posts, Removal(Removed(I), NamesOf(I)))
         /\ UNCHANGED <<route, values, initial, cache, get, draft, filed, entered>>
<1>1. /\ TypeInv /\ StoredInv /\ Free /\ Lossless /\ Whole(values) /\ route = EmployerReview
  <2>1. route \in Routes /\ route.page = "employer-review"
    BY DEF removeEmployer, IInv, TypeInv
  <2>2. route = EmployerReview
    BY <2>1, RouteParts
  <2> QED
    BY <2>2, FreeFacts DEF removeEmployer, IInv, FormInv
<1>2. /\ Removed(I) \in FormClaim /\ Removed(I).affirmed = values.affirmed /\ Whole(Removed(I))
      /\ NameSet(Removed(I)) = NameSet(values) \ {values.employers[i] : i \in I}
  BY <1>1, RemovedFacts, Zenon
<1>3. NameSet(Removed(I)) = NameSet(values) \ NamesOf(I)
  BY <1>2 DEF NamesOf, NameSet
<1>4. /\ sent' = Removed(I) /\ Len(posts) < MaxPosts
      /\ posts' = Append(posts, Removal(Removed(I), NamesOf(I)))
      /\ UNCHANGED <<route, values, initial, cache, get, draft, filed, entered>>
  BY <1>1, MaySendFacts DEF removeEmployer, Sent, Removal, NamesOf
<1>5. NamesOf(I) \in SUBSET Names
  BY DEF NamesOf
<1>6. /\ Sends(Removal(Removed(I), NamesOf(I)))
      /\ posts'[Len(posts')] = Removal(Removed(I), NamesOf(I))
      /\ Len(posts') \in DOMAIN posts'
  <2> DEFINE c == Removed(I)  gone == NamesOf(I)
  <2>1. c \in FormClaim /\ Whole(c) /\ gone \in SUBSET Names
    BY <1>2, <1>5
  <2>2. posts' = Append(posts, Removal(c, gone))
    BY <1>4
  <2> HIDE DEF c, gone
  <2>3. /\ Sends(Removal(c, gone)) /\ posts'[Len(posts')] = Removal(c, gone)
        /\ Len(posts') \in DOMAIN posts'
    BY <1>1, <1>4, <2>1, <2>2, RemovalSends, Zenon
  <2> QED
    BY <2>3, Zenon DEF c, gone
<1> QED
  BY <1>1, <1>2, <1>3, <1>4, <1>6, Zenon

LEMMA RemoveKeeps ==
  ASSUME IInv, NEW I \in SUBSET DOMAIN values.employers, removeEmployer(I)
  PROVE  IInv'
<1> DEFINE c == Removed(I)
           x == Removal(c, NamesOf(I))
<1>1. /\ Free /\ Lossless /\ route = EmployerReview /\ sent' = c /\ c \in FormClaim /\ Whole(c)
      /\ Sends(x) /\ posts'[Len(posts')] = x /\ Len(posts') \in DOMAIN posts'
      /\ posts' = Append(posts, x)
      /\ UNCHANGED <<route, values, initial, cache, get, draft>>
  BY RemovalStep, Zenon
<1>2. x.claim = c /\ x.by = "removal" /\ x.here
  BY DEF Removal, Post
<1>3. /\ TypeInv /\ StoredInv /\ FormInv /\ PlaceInv
      /\ \A i \in DOMAIN posts : posts[i].by # "exit"
  BY <1>1, FreeFacts DEF IInv
<1>4. Removing => ~ Lossless'
  BY DEF removeEmployer, Sent, Lossless
<1> HIDE DEF c, x
<1>5. TypeInv'
  BY <1>1, <1>3 DEF TypeInv, Sends
<1>6. StoredInv' /\ FormInv'
  BY <1>1, <1>3 DEF StoredInv, FormInv, Sends
<1>7. PlaceInv'
  <2>1. Removing'
    BY <1>1, <1>2 DEF Removing
  <2>2. route.page = "employer-review" /\ Len(values.employers) = Len(initial.employers)
    BY <1>1, <1>3, Pages DEF PlaceInv
  <2> QED
    BY <1>1, <2>1, <2>2 DEF PlaceInv
<1>8. RemovalInv'
  <2>1. \A i \in DOMAIN posts' : posts'[i].by # "exit"
    <3>1. posts \in Seq(Request) /\ x \in Request
      BY <1>1, <1>3, RemovalFacts, Posts DEF x, NamesOf
    <3>2. \A q : q = Append(posts, x) => \A i \in DOMAIN q :
                   \/ i \in DOMAIN posts /\ q[i] = posts[i]
                   \/ q[i] = x
      BY <3>1
    <3>3. \A i \in DOMAIN posts' : \/ i \in DOMAIN posts /\ posts'[i] = posts[i]
                               \/ posts'[i] = x
      BY <1>1, <3>2, Zenon
    <3> QED
      BY <1>2, <1>3, <3>3
  <2> QED
    BY <1>1, <1>2, <1>4, <2>1 DEF RemovalInv, Awaited, Sends
<1>9. AwayInv' /\ HomeInv'
  BY <1>1, Pages DEF AwayInv, HomeInv, OnForm
<1> QED
  BY <1>5, <1>6, <1>7, <1>8, <1>9 DEF IInv

LEMMA Removals ==
  ASSUME RemoveEmployer \/ RemoveEmpty
  PROVE  \E I \in SUBSET DOMAIN values.employers : removeEmployer(I)
BY DEF RemoveEmployer, RemoveEmpty

LEMMA GoToEmployerKeeps ==
  ASSUME IInv, NEW s \in 0 .. MaxEmployers, GoToEmployer(s)
  PROVE  IInv'
<1> DEFINE r == Employer(s)
<1>1. /\ TypeInv /\ StoredInv /\ FormInv /\ PlaceInv /\ Free /\ Lossless /\ Whole(values)
      /\ Whole(initial) /\ values \in FormClaim /\ values \in Claim
      /\ Len(values.employers) \in Nat /\ route.page = "employer-review"
  BY FreeFacts, StoredFacts, ClaimParts DEF GoToEmployer, IInv, FormInv
<1>2. /\ route' = r /\ values' = Settled(values, r) /\ s =< Len(values.employers) /\ s < MaxEmployers
      /\ UNCHANGED <<initial, cache, get, posts, draft, sent>>
  BY <1>1 DEF GoToEmployer, Show
<1>3. /\ (Removing => ~ Lossless')
      /\ (~ Removing => excuses' = excuses)
  BY DEF GoToEmployer, MindsRemoval, Excused, Lossless
<1>4. r \in Routes /\ r.page = "employer" /\ r.segment = s
  BY RouteParts
<1> HIDE DEF r
<1>5. values' \in FormClaim /\ Whole(values') /\ s < Len(values'.employers)
  BY <1>1, <1>2, <1>4, SettledFacts
<1>6. TypeInv'
  BY <1>1, <1>2, <1>4, <1>5 DEF TypeInv
<1>7. StoredInv' /\ FormInv'
  BY <1>1, <1>2, <1>5 DEF StoredInv, FormInv
<1>8. PlaceInv'
  <2>1. Len(values.employers) = Len(initial.employers)
        /\ (Removing \/ Len(sent.employers) = Len(initial.employers))
    BY <1>1 DEF PlaceInv
  <2> QED
    BY <1>2, <1>3, <1>4, <1>5, <2>1 DEF PlaceInv
<1>9. RemovalInv'
  BY <1>2, <1>3 DEF RemovalInv, Awaited, Removing
<1>10. AwayInv' /\ HomeInv'
  BY <1>2, <1>4, Pages DEF AwayInv, HomeInv, OnForm
<1> QED
  BY <1>6, <1>7, <1>8, <1>9, <1>10 DEF IInv

-----------------------------------------------------------------------------
(* The invariant is kept: answers *)

\* What is written of a claim that is whole.
LEMMA JsonWhole ==
  ASSUME NEW c \in FormClaim, NEW d, d = Json(c)
  PROVE  /\ d \in FormClaim /\ d.employers = c.employers /\ d.affirmed = c.affirmed
         /\ \A i \in DOMAIN d.more : d.more[i] # "unset"
         /\ NameSet(d) = NameSet(c) /\ (Writable(c) => Writable(d)) /\ (Whole(c) => Whole(d))
<1>1. /\ c \in Claim /\ d \in Claim /\ d.employers = c.employers /\ d.affirmed = c.affirmed
      /\ Len(d.more) = Len(c.more) /\ \A i \in DOMAIN d.more : d.more[i] # "unset"
  BY JsonFacts DEF FormClaim
<1> QED
  BY <1>1 DEF FormClaim, Whole, Writable, Distinct, NameSet

LEMMA AppliedFacts ==
  ASSUME IInv, NEW i \in DOMAIN posts, Apply(i)
  PROVE  /\ posts' \in Seq(Request) /\ Len(posts') = Len(posts) /\ DOMAIN posts' = DOMAIN posts
         /\ \A j \in DOMAIN posts : /\ posts'[j].claim = posts[j].claim /\ posts'[j].by = posts[j].by
                                    /\ posts'[j].here = posts[j].here
                                    /\ posts'[j].removed = posts[j].removed
                                    /\ j # i => posts'[j].applied = posts[j].applied
<1>1. ASSUME NEW x \in Request, NEW y, y = [x EXCEPT !.applied = TRUE]
      PROVE  /\ y \in Request /\ y.claim = x.claim /\ y.by = x.by /\ y.here = x.here
             /\ y.removed = x.removed
  BY <1>1 DEF Request
<1>2. posts \in Seq(Request) /\ Len(posts) \in Nat /\ DOMAIN posts = 1 .. Len(posts)
      /\ posts[i] \in Request
  BY Posts DEF IInv
<1> DEFINE y == [posts[i] EXCEPT !.applied = TRUE]
<1>3. posts' = [posts EXCEPT ![i] = y]
  BY DEF Apply
<1>4. /\ y \in Request /\ y.claim = posts[i].claim /\ y.by = posts[i].by
      /\ y.here = posts[i].here /\ y.removed = posts[i].removed
  BY <1>1, <1>2
<1> HIDE DEF y
<1>5. posts' \in Seq(Request) /\ Len(posts') = Len(posts) /\ DOMAIN posts' = DOMAIN posts
  <2>1. posts' \in [1 .. Len(posts) -> Request]
    BY <1>2, <1>3, <1>4
  <2> QED
    BY <1>2, <2>1
<1>6. \A j \in DOMAIN posts : posts'[j] = IF j = i THEN y ELSE posts[j]
  BY <1>3
<1> QED
  BY <1>4, <1>5, <1>6

LEMMA ApplyKeeps ==
  ASSUME IInv, NEW i \in DOMAIN posts, Apply(i)
  PROVE  IInv'
<1>1. /\ TypeInv /\ StoredInv /\ FormInv /\ PlaceInv /\ RemovalInv /\ AwayInv /\ HomeInv
      /\ posts[i].claim \in FormClaim /\ Whole(posts[i].claim) /\ Writable(posts[i].claim)
      /\ DOMAIN posts = 1 .. Len(posts) /\ Len(posts) \in Nat
  BY Posts DEF IInv, StoredInv, Apply
<1>2. /\ draft' = Json(posts[i].claim)
      /\ get' = get \/ get' = [get EXCEPT !.pc = "read", !.claim = draft]
      /\ UNCHANGED <<route, values, initial, cache, sent, excuses>>
  BY DEF Apply
<1>g. /\ get' \in Refresh /\ (get'.pc = "none" => ~ get'.awaited)
      /\ Writable(get'.claim) /\ Whole(get'.claim)
  <2>1. CASE get' = get
    BY <1>1, <2>1 DEF TypeInv, StoredInv
  <2>2. CASE get' = [get EXCEPT !.pc = "read", !.claim = draft]
    <3>1. get' \in Refresh /\ get'.pc = "read" /\ get'.claim = draft
      BY <1>1, <2>2 DEF TypeInv, Refresh
    <3> QED
      BY <1>1, <3>1 DEF TypeInv, StoredInv
  <2> QED
    BY <1>2, <2>1, <2>2
<1>3. /\ posts' \in Seq(Request) /\ Len(posts') = Len(posts) /\ DOMAIN posts' = DOMAIN posts
      /\ \A j \in DOMAIN posts : /\ posts'[j].claim = posts[j].claim /\ posts'[j].by = posts[j].by
                                 /\ posts'[j].here = posts[j].here
                                 /\ j # i => posts'[j].applied = posts[j].applied
  BY AppliedFacts
<1>4. /\ draft' \in FormClaim /\ \A k \in DOMAIN draft'.more : draft'.more[k] # "unset"
      /\ Writable(draft') /\ Whole(draft')
  <2> DEFINE d == Json(posts[i].claim)
  <2>1. /\ d \in FormClaim /\ \A k \in DOMAIN d.more : d.more[k] # "unset"
        /\ Writable(d) /\ Whole(d)
    BY <1>1, JsonWhole
  <2>2. draft' = d
    BY <1>2
  <2> HIDE DEF d
  <2> QED
    BY <2>1, <2>2
<1>5. TypeInv'
  <2>1. \A k \in DOMAIN posts' : posts'[k].applied => Writable(posts'[k].claim)
    BY <1>1, <1>3 DEF TypeInv
  <2> QED
    BY <1>1, <1>2, <1>3, <1>4, <1>g, <2>1 DEF TypeInv
<1>6. StoredInv' /\ FormInv'
  BY <1>1, <1>2, <1>3, <1>4, <1>g DEF StoredInv, FormInv, Lossless
<1>7. PlaceInv'
  <2>1. Removing => Removing'
    BY <1>3 DEF Removing
  <2> QED
    BY <1>1, <1>2, <2>1 DEF PlaceInv, Lossless
<1>8. RemovalInv'
  BY <1>1, <1>2, <1>3 DEF RemovalInv, Awaited, Lossless
<1>9. posts # <<>>
  BY <1>1
<1>10. AwayInv' /\ HomeInv'
  BY <1>1, <1>2, <1>9 DEF AwayInv, HomeInv, OnForm, Lossless
<1> QED
  BY <1>5, <1>6, <1>7, <1>8, <1>10 DEF IInv

\* A post is taken off, and what is stored may be what it carried.
LEMMA TakenOff ==
  ASSUME TypeInv, StoredInv, NEW i \in DOMAIN posts, posts' = RemoveAt(posts, i)
  PROVE  /\ posts' \in Seq(Request) /\ Len(posts') =< MaxPosts
         /\ \A k \in DOMAIN posts' : /\ Whole(posts'[k].claim)
                                     /\ posts'[k].applied => Writable(posts'[k].claim)
         /\ posts # <<>>
<1>1. posts' \in Seq(Request) /\ Len(posts') =< MaxPosts /\ Rest(posts', posts)
  BY StillAwaited
<1>2. \A q : q \in Seq(Request) /\ Rest(q, posts) =>
        \A k \in DOMAIN q : Whole(q[k].claim) /\ (q[k].applied => Writable(q[k].claim))
  BY StillStored, Zenon
<1>3. posts # <<>>
  BY Posts
<1> QED
  BY <1>1, <1>2, <1>3, Zenon

\* The removals that are still awaited are as they were.
LEMMA OthersAwaited ==
  ASSUME IInv, NEW i \in DOMAIN posts, posts' = RemoveAt(posts, i), route' = route, excuses \subseteq excuses',
         Awaited(i) \/ sent' = sent
  PROVE  /\ RemovalInv'
         /\ Lossless /\ (Awaited(i) \/ (posts[i].here /\ posts[i].by = "exit")) => ~ Removing'
<1>1. AllBut(posts', posts, i) /\ (Lossless' => Lossless) /\ RemovalInv
  BY StillAwaited DEF IInv, Lossless
<1>2. ASSUME Lossless, NEW j \in DOMAIN posts', Awaited(j)'
      PROVE  /\ route = EmployerReview /\ ~ Awaited(i) /\ sent = posts'[j].claim
             /\ ~ (posts[i].here /\ posts[i].by = "exit")
             /\ \A k \in DOMAIN posts' : Awaited(k)' => j = k
             /\ \A k \in DOMAIN posts' : posts'[k].here => posts'[k].by # "exit"
  <2>1. PICK l \in DOMAIN posts \ {i} : posts'[j] = posts[l]
    BY <1>1 DEF AllBut
  <2>2. Awaited(l)
    BY <1>2, <2>1 DEF Awaited
  <2>3. /\ route = EmployerReview /\ sent = posts[l].claim
        /\ \A m \in DOMAIN posts : Awaited(m) => l = m
        /\ \A m \in DOMAIN posts : posts[m].here => posts[m].by # "exit"
    BY <1>1, <1>2, <2>2 DEF RemovalInv
  <2>4. ASSUME NEW k \in DOMAIN posts', Awaited(k)'
        PROVE  j = k
    <3>1. PICK a, b \in DOMAIN posts \ {i} :
             posts'[j] = posts[a] /\ posts'[k] = posts[b] /\ (a = b => j = k)
      BY <1>1 DEF AllBut
    <3>2. Awaited(a) /\ Awaited(b)
      BY <1>2, <2>4, <3>1 DEF Awaited
    <3>3. a = l /\ b = l
      BY <2>3, <3>2
    <3> QED
      BY <3>1, <3>3
  <2>5. ASSUME NEW k \in DOMAIN posts', posts'[k].here
        PROVE  posts'[k].by # "exit"
    <3>1. PICK m \in DOMAIN posts : posts'[k] = posts[m]
      BY <1>1 DEF AllBut
    <3> QED
      BY <2>3, <2>5, <3>1
  <2> QED
    BY <2>1, <2>3, <2>4, <2>5
<1>3. RemovalInv'
  BY <1>1, <1>2, Zenon DEF RemovalInv
<1>4. ASSUME Lossless, Awaited(i) \/ (posts[i].here /\ posts[i].by = "exit")
      PROVE  ~ Removing'
  BY <1>2, <1>4 DEF Removing, Awaited
<1> QED
  BY <1>3, <1>4

LEMMA FailKeeps ==
  ASSUME IInv, NEW i \in DOMAIN posts, Fail(i)
  PROVE  IInv'
<1>1. TypeInv /\ StoredInv /\ FormInv /\ PlaceInv /\ RemovalInv /\ AwayInv /\ HomeInv
  BY DEF IInv
<1>2. /\ posts' = RemoveAt(posts, i)
      /\ sent' = IF posts[i].by \in {"removal", "exit"} /\ posts[i].here /\ ~ posts[i].applied
                 THEN initial ELSE sent
      /\ UNCHANGED <<route, values, initial, cache, get, draft>>
      /\ excuses \subseteq excuses' /\ (Lossless' => Lossless) /\ ("left" \notin excuses' => "left" \notin excuses)
      /\ Awaited(i) /\ posts[i].applied => ~ Lossless'
  BY DEF Fail, Lossless, Awaited
<1>3. /\ posts' \in Seq(Request) /\ Len(posts') =< MaxPosts
      /\ \A k \in DOMAIN posts' : /\ Whole(posts'[k].claim)
                                  /\ posts'[k].applied => Writable(posts'[k].claim)
      /\ posts # <<>>
  BY <1>1, <1>2, TakenOff
<1>4. TypeInv'
  BY <1>1, <1>2, <1>3 DEF TypeInv
<1>5. StoredInv' /\ FormInv'
  BY <1>1, <1>2, <1>3 DEF StoredInv, FormInv
<1>6. CASE posts[i].by \in {"removal", "exit"} /\ posts[i].here /\ ~ posts[i].applied
  <2>1. sent' = initial
    BY <1>2, <1>6
  <2>2. Lossless' => Lossless
    BY <1>2
  <2>3. PlaceInv'
    <3>1. Lossless /\ route.page = "employer" => route.segment =< Len(initial.employers)
      BY <1>1 DEF PlaceInv
    <3> QED
      BY <1>1, <1>2, <2>1, <2>2, <3>1 DEF PlaceInv
  <2>4. RemovalInv'
    <3>1. ASSUME Lossless, NEW j \in DOMAIN posts', Awaited(j)'
          PROVE  FALSE
      <4>1. AllBut(posts', posts, i)
        BY <1>1, <1>2, StillAwaited
      <4>2. PICK l \in DOMAIN posts \ {i} : posts'[j] = posts[l]
        BY <4>1 DEF AllBut
      <4>3. Awaited(l)
        BY <3>1, <4>2 DEF Awaited
      <4>4. /\ \A m \in DOMAIN posts : Awaited(m) => l = m
            /\ \A m \in DOMAIN posts : posts[m].here => posts[m].by # "exit"
        BY <1>1, <3>1, <4>3 DEF RemovalInv
      <4> QED
        BY <1>6, <4>4 DEF Awaited
    <3> QED
      BY <2>2, <3>1, Zenon DEF RemovalInv
  <2>5. AwayInv' /\ HomeInv'
    BY <1>1, <1>2, <1>3 DEF AwayInv, HomeInv, OnForm
  <2> QED
    BY <1>4, <1>5, <2>3, <2>4, <2>5 DEF IInv
<1>7. CASE ~ (posts[i].by \in {"removal", "exit"} /\ posts[i].here /\ ~ posts[i].applied)
  <2>1. sent' = sent /\ (Lossless' => ~ Awaited(i))
    BY <1>2, <1>7 DEF Awaited
  <2>2. Lossless' => (Removing => Removing')
    BY <1>1, <1>2, <2>1, StillAwaited
  <2>3. PlaceInv'
    BY <1>1, <1>2, <2>1, <2>2 DEF PlaceInv
  <2>4. RemovalInv'
    BY <1>2, <2>1, OthersAwaited
  <2>5. AwayInv' /\ HomeInv'
    BY <1>1, <1>2, <1>3 DEF AwayInv, HomeInv, OnForm
  <2> QED
    BY <1>4, <1>5, <2>3, <2>4, <2>5 DEF IInv
<1> QED
  BY <1>6, <1>7

\* She is sent Home.
LEMMA ThrownKeeps ==
  ASSUME IInv, NEW i \in DOMAIN posts, SaveAnswered(i), posts[i].claim.affirmed = "yes", OnForm
  PROVE  IInv'
<1>1. TypeInv /\ StoredInv /\ FormInv
  BY DEF IInv
<1>2. /\ route' = Home /\ values' = NoClaim /\ initial' = NoClaim
      /\ posts' = RemoveAt(Unmounted, i) /\ Refetch
      /\ Len(posts) > 1 \/ get.pc # "none" => "left" \in excuses'
      /\ excuses \subseteq excuses'
      /\ UNCHANGED <<cache, draft, sent>>
  BY DEF SaveAnswered, Unmount, ThrownOut
<1>g. /\ get' \in Refresh /\ get'.pc # "none" /\ Writable(get'.claim) /\ Whole(get'.claim)
      /\ "left" \notin excuses' => get'.pc = "sent"
  BY <1>1, <1>2, RefetchFacts
<1> DEFINE p == Unmounted
<1>3. p \in Seq(Request) /\ Len(p) = Len(posts) /\ i \in DOMAIN p /\ Rest(p, posts) /\ posts' = RemoveAt(p, i)
  BY <1>1, <1>2, UnmountedFacts
<1>4. /\ \A k \in DOMAIN p : Whole(p[k].claim) /\ (p[k].applied => Writable(p[k].claim))
  BY <1>1, <1>3, StillStored
<1> HIDE DEF p
<1>5. \A q : q = RemoveAt(p, i) => q \in Seq(Request) /\ Len(q) = Len(p) - 1 /\ AllBut(q, p, i)
  BY <1>3, RemoveAtFacts, Zenon
<1>6. posts' \in Seq(Request) /\ Len(posts') = Len(posts) - 1 /\ AllBut(posts', p, i)
  BY <1>3, <1>5, Zenon
<1>7. \A k \in DOMAIN posts' : Whole(posts'[k].claim) /\ (posts'[k].applied => Writable(posts'[k].claim))
  BY <1>4, <1>6 DEF AllBut
<1>8. "left" \notin excuses' => posts' = <<>>
  <2>1. "left" \notin excuses' => Len(posts') = 0
    BY <1>1, <1>2, <1>6, Posts
  <2> QED
    BY <1>6, <2>1, EmptySeq
<1>9. TypeInv'
  <2>1. Len(posts') =< MaxPosts
    BY <1>1, <1>6, Posts, Constants DEF TypeInv
  <2>2. route'.segment < MaxEmployers
    BY <1>2, Pages, Constants
  <2> QED
    BY <1>1, <1>2, <1>6, <1>7, <1>g, <2>1, <2>2, NoClaimFacts, Pages DEF TypeInv
<1>10. StoredInv' /\ FormInv'
  BY <1>1, <1>2, <1>7, <1>g, NoClaimFacts DEF StoredInv, FormInv, Lossless
<1>11. PlaceInv' /\ RemovalInv' /\ AwayInv' /\ HomeInv'
  BY <1>2, <1>8, <1>g, Pages, EmptySeq DEF PlaceInv, RemovalInv, AwayInv, HomeInv, Lossless
<1> QED
  BY <1>9, <1>10, <1>11 DEF IInv

LEMMA SaveAnsweredKeeps ==
  ASSUME IInv, NEW i \in DOMAIN posts, SaveAnswered(i)
  PROVE  IInv'
<1>1. CASE posts[i].claim.affirmed = "yes" /\ OnForm
  BY <1>1, ThrownKeeps
<1>2. CASE ~ (posts[i].claim.affirmed = "yes" /\ OnForm)
  <2>1. TypeInv /\ StoredInv /\ FormInv /\ PlaceInv /\ RemovalInv /\ AwayInv /\ HomeInv
    BY DEF IInv
  <2>2. /\ \/ cache' = cache
           \/ cache' = [claim |-> posts[i].claim, errors |-> posts[i].errors]
        /\ posts' = RemoveAt(posts, i)
        /\ get' = get \/ get' \in {NoGet, Asked, Unawaited}
        /\ UNCHANGED <<route, values, initial, draft, sent, excuses>>
        /\ posts[i].applied /\ ~ Awaited(i)
    BY <1>2 DEF SaveAnswered, Awaited
  <2>g. /\ get' \in Refresh /\ (get'.pc = "none" => ~ get'.awaited)
        /\ Writable(get'.claim) /\ Whole(get'.claim)
    <3>1. CASE get' = get
      BY <2>1, <3>1 DEF TypeInv, StoredInv
    <3> QED
      BY <2>1, <2>2, <3>1, GetFacts
  <2>3. /\ posts' \in Seq(Request) /\ Len(posts') =< MaxPosts
        /\ \A k \in DOMAIN posts' : /\ Whole(posts'[k].claim)
                                    /\ posts'[k].applied => Writable(posts'[k].claim)
        /\ posts # <<>>
    BY <2>1, <2>2, TakenOff
  <2>4. cache' \in [claim : FormClaim, errors : BOOLEAN] /\ Whole(cache'.claim) /\ Writable(cache'.claim)
    <3>1. posts[i].claim \in FormClaim /\ Whole(posts[i].claim) /\ posts[i].errors \in BOOLEAN
      BY <2>1, Posts DEF StoredInv, Request
    <3> QED
      BY <2>1, <2>2, <3>1 DEF TypeInv, StoredInv, Whole
  <2>5. TypeInv'
    BY <2>1, <2>2, <2>3, <2>4, <2>g DEF TypeInv
  <2>6. StoredInv' /\ FormInv'
    BY <2>1, <2>2, <2>3, <2>4, <2>g DEF StoredInv, FormInv, Lossless
  <2>7. PlaceInv'
    <3>1. Removing => Removing'
      BY <2>1, <2>2, StillAwaited
    <3> QED
      BY <2>1, <2>2, <3>1 DEF PlaceInv, Lossless
  <2>8. RemovalInv'
    BY <2>2, OthersAwaited
  <2>9. AwayInv' /\ HomeInv'
    BY <2>1, <2>2, <2>3 DEF AwayInv, HomeInv, OnForm, Lossless
  <2> QED
    BY <2>5, <2>6, <2>7, <2>8, <2>9 DEF IInv
<1> QED
  BY <1>1, <1>2

LEMMA RemovalAnsweredKeeps ==
  ASSUME IInv, NEW i \in DOMAIN posts, RemovalAnswered(i)
  PROVE  IInv'
<1>1. TypeInv /\ StoredInv /\ FormInv /\ PlaceInv /\ RemovalInv /\ AwayInv /\ HomeInv
  BY DEF IInv
<1>2. /\ posts' = RemoveAt(posts, i) /\ Refetch
      /\ IF posts[i].here THEN values' = Settled(posts[i].claim, route) /\ initial' = posts[i].claim
                          ELSE UNCHANGED <<values, initial>>
      /\ posts[i].by = "removal"
      /\ UNCHANGED <<route, cache, draft, sent, excuses>>
  BY DEF RemovalAnswered, resetForm
<1>g. get' \in Refresh /\ get'.pc # "none" /\ Writable(get'.claim) /\ Whole(get'.claim)
  BY <1>1, <1>2, RefetchFacts
<1>3. /\ posts' \in Seq(Request) /\ Len(posts') =< MaxPosts
      /\ \A k \in DOMAIN posts' : /\ Whole(posts'[k].claim)
                                  /\ posts'[k].applied => Writable(posts'[k].claim)
      /\ posts # <<>>
  BY <1>1, <1>2, TakenOff
<1>4. StoredInv' /\ AwayInv' /\ HomeInv'
  BY <1>1, <1>2, <1>3, <1>g DEF StoredInv, AwayInv, HomeInv, OnForm, Lossless
<1>5. RemovalInv'
  BY <1>2, OthersAwaited
<1>6. CASE posts[i].here
  <2> DEFINE c == posts[i].claim
  <2>1. c \in FormClaim /\ c \in Claim /\ Whole(c)
    BY <1>1, Posts DEF StoredInv
  <2>2. values' = Settled(c, route) /\ initial' = c
    BY <1>2, <1>6
  <2>3. route \in Routes /\ route.segment < MaxEmployers
    BY <1>1 DEF TypeInv
  <2>4. Lossless => route = EmployerReview /\ sent = c
    BY <1>1, <1>2, <1>6 DEF RemovalInv, Awaited
  <2> HIDE DEF c
  <2>5. values' \in FormClaim /\ (route.page # "employer" => values' = c)
    BY <2>1, <2>2, <2>3, SettledFacts
  <2>6. TypeInv'
    BY <1>1, <1>2, <1>3, <1>g, <2>1, <2>2, <2>5 DEF TypeInv
  <2>7. FormInv' /\ PlaceInv'
    BY <1>2, <2>1, <2>2, <2>4, <2>5, Pages DEF FormInv, PlaceInv, Lossless
  <2> QED
    BY <1>4, <1>5, <2>6, <2>7 DEF IInv
<1>7. CASE ~ posts[i].here
  <2>1. UNCHANGED <<values, initial>> /\ ~ Awaited(i)
    BY <1>2, <1>7 DEF Awaited
  <2>2. Removing => Removing'
    BY <1>1, <1>2, <2>1, StillAwaited
  <2>3. TypeInv'
    BY <1>1, <1>2, <1>3, <1>g, <2>1 DEF TypeInv
  <2>4. FormInv' /\ PlaceInv'
    BY <1>1, <1>2, <2>1, <2>2 DEF FormInv, PlaceInv, Lossless
  <2> QED
    BY <1>4, <1>5, <2>3, <2>4 DEF IInv
<1> QED
  BY <1>6, <1>7

LEMMA FetchAnsweredKeeps ==
  ASSUME IInv, FetchAnswered
  PROVE  IInv'
<1> DEFINE answer == IF get.pc = "read" THEN get.claim ELSE draft
<1>1. /\ cache' = [claim |-> answer, errors |-> Errors(answer)] /\ get' \in {NoGet, Asked, Unawaited}
      /\ get' \in {NoGet, Asked}
      /\ UNCHANGED <<route, values, initial, posts, draft, sent, excuses>>
  BY DEF FetchAnswered
<1>2. TypeInv /\ StoredInv /\ FormInv /\ PlaceInv /\ RemovalInv /\ AwayInv /\ HomeInv
  BY DEF IInv
<1>3. answer \in FormClaim /\ Writable(answer) /\ Whole(answer) /\ (get.pc # "read" => answer = draft)
  BY <1>2 DEF TypeInv, StoredInv, Refresh
<1> HIDE DEF answer
<1>4. cache' \in [claim : FormClaim, errors : BOOLEAN] /\ cache'.claim = answer
      /\ cache'.errors = Errors(answer)
  BY <1>1, <1>3 DEF Errors
<1>5. /\ get' \in Refresh /\ (get'.pc = "none" => ~ get'.awaited) /\ get'.pc # "read"
      /\ Writable(get'.claim) /\ Whole(get'.claim)
  BY <1>1, <1>2, GetFacts
<1>6. TypeInv'
  BY <1>1, <1>2, <1>3, <1>4, <1>5 DEF TypeInv
<1>7. StoredInv' /\ FormInv'
  BY <1>1, <1>2, <1>3, <1>4, <1>5 DEF StoredInv, FormInv, Lossless
<1>8. HomeInv'
  <2>1. route' = Home /\ "left" \notin excuses' => posts' = <<>> /\ cache'.claim = draft' /\ cache'.errors = Errors(draft)
    BY <1>1, <1>2, <1>3, <1>4 DEF HomeInv
  <2>2. Errors(draft') = Errors(draft)
    BY <1>1 DEF Errors
  <2> QED
    BY <1>1, <1>5, <2>1, <2>2 DEF HomeInv, Errors
<1>9. RemovalInv' /\ AwayInv'
  BY <1>1, <1>2 DEF RemovalInv, AwayInv, Awaited, OnForm, Lossless
<1>10. PlaceInv'
  BY <1>1, <1>2 DEF PlaceInv, Removing, Lossless
<1> QED
  BY <1>6, <1>7, <1>8, <1>9, <1>10 DEF IInv

-----------------------------------------------------------------------------
(* The invariant is kept: between the form and Home *)

\* The page is gone: what the server has is what it had or what a post carried.
LEMMA GoneFacts ==
  ASSUME IInv, PageGone
  PROVE  /\ posts' = <<>> /\ posts' \in Seq(Request) /\ DOMAIN posts' = {} /\ Len(posts') =< MaxPosts
         /\ draft' \in FormClaim /\ Whole(draft') /\ Writable(draft')
         /\ \A k \in DOMAIN draft'.more : draft'.more[k] # "unset"
         /\ posts = <<>> => draft' = draft
         /\ draft' = draft \/ \E i \in DOMAIN posts : /\ ~ posts[i].applied
                                                      /\ draft' = Json(posts[i].claim)
<1>1. TypeInv /\ StoredInv
  BY DEF IInv
<1>2. posts' = <<>>
  BY DEF PageGone
<1>3. posts' \in Seq(Request) /\ DOMAIN posts' = {} /\ Len(posts') =< MaxPosts
  <2>1. <<>> \in Seq(Request) /\ Len(<<>>) = 0 /\ DOMAIN <<>> = {}
    BY EmptySeq
  <2> QED
    BY <1>2, <2>1, Constants
<1>4. CASE draft' = draft
  BY <1>1, <1>2, <1>3, <1>4 DEF TypeInv, StoredInv
<1>5. ASSUME NEW i \in DOMAIN posts, ~ posts[i].applied, draft' = Json(posts[i].claim)
      PROVE  /\ draft' \in FormClaim /\ Whole(draft') /\ Writable(draft')
             /\ \A k \in DOMAIN draft'.more : draft'.more[k] # "unset"
             /\ posts # <<>>
  <2> DEFINE c == posts[i].claim  d == Json(c)
  <2>1. c \in FormClaim /\ Whole(c) /\ posts # <<>>
    BY <1>1, Posts DEF StoredInv
  <2> HIDE DEF c
  <2>2. d \in FormClaim /\ Whole(d) /\ \A k \in DOMAIN d.more : d.more[k] # "unset"
    BY <2>1, JsonWhole
  <2>3. draft' = d
    BY <1>5 DEF c
  <2> HIDE DEF d
  <2> QED
    BY <2>1, <2>2, <2>3 DEF Whole
<1>6. \/ draft' = draft
      \/ \E i \in DOMAIN posts : ~ posts[i].applied /\ draft' = Json(posts[i].claim)
  BY DEF PageGone
<1> QED
  BY <1>2, <1>3, <1>4, <1>5, <1>6

LEMMA LeavesFacts ==
  ASSUME Leaves
  PROVE  /\ excuses \subseteq excuses'
         /\ "left" \notin excuses' => posts = <<>> /\ draft = Json(sent) /\ get.pc = "none"
BY DEF Leaves

LEMMA ExitAnsweredKeeps ==
  ASSUME IInv, NEW i \in DOMAIN posts, ExitAnswered(i)
  PROVE  IInv'
<1>1. /\ route' = Gone("out") /\ values' = NoClaim /\ initial' = NoClaim
      /\ cache' = NoCache /\ get' = NoGet /\ PageGone /\ Leaves /\ sent' = sent
  BY DEF ExitAnswered, Unmount
<1>2. "left" \in excuses'
  <2>1. posts # <<>>
    BY Posts DEF IInv
  <2> QED
    BY <1>1, <2>1, LeavesFacts
<1>g. /\ get' \in Refresh /\ (get'.pc = "none" => ~ get'.awaited)
      /\ Writable(get'.claim) /\ Whole(get'.claim)
  BY <1>1, GetFacts DEF IInv
<1>3. Gone("out") \in Routes /\ Gone("out").page = "out" /\ Gone("out").segment = 0
  BY Pages
<1>4. /\ posts' \in Seq(Request) /\ DOMAIN posts' = {} /\ Len(posts') =< MaxPosts
      /\ draft' \in FormClaim /\ Whole(draft') /\ Writable(draft')
      /\ \A k \in DOMAIN draft'.more : draft'.more[k] # "unset"
  BY <1>1, GoneFacts
<1>5. TypeInv'
  BY <1>1, <1>3, <1>4, <1>g, NoClaimFacts, Constants DEF IInv, TypeInv, Whole
<1>6. StoredInv'
  BY <1>1, <1>4, <1>g, NoClaimFacts DEF StoredInv
<1> QED
  BY <1>2, <1>5, <1>6 DEF IInv, FormInv, PlaceInv, RemovalInv, AwayInv, HomeInv, Lossless

LEMMA GoHomeKeeps ==
  ASSUME IInv, GoHome
  PROVE  IInv'
<1>1. /\ route' = Home /\ values' = NoClaim /\ initial' = NoClaim /\ posts' = Unmounted
      /\ Refetch /\ Leaves /\ UNCHANGED <<cache, draft, sent>>
  BY DEF GoHome, Unmount
<1>2. TypeInv /\ StoredInv /\ FormInv
  BY DEF IInv
<1>g. /\ get' \in Refresh /\ get'.pc # "none" /\ Writable(get'.claim) /\ Whole(get'.claim)
      /\ "left" \notin excuses' => get'.pc = "sent"
  BY <1>1, <1>2, RefetchFacts, LeavesFacts
<1> DEFINE p == Unmounted
<1>3. p \in Seq(Request) /\ Len(p) = Len(posts) /\ Rest(p, posts) /\ posts' = p
  BY <1>1, <1>2, UnmountedFacts
<1> HIDE DEF p
<1>4. \A k \in DOMAIN p : Whole(p[k].claim) /\ (p[k].applied => Writable(p[k].claim))
  BY <1>2, <1>3, StillStored
<1>5. "left" \notin excuses' => posts' = <<>>
  <2>1. posts = <<>> => Len(posts) = 0
    BY EmptySeq
  <2> QED
    BY <1>1, <1>3, <2>1, LeavesFacts, EmptySeq
<1>6. TypeInv'
  BY <1>1, <1>2, <1>3, <1>4, <1>g, NoClaimFacts, Constants, Pages DEF TypeInv
<1>7. StoredInv'
  BY <1>1, <1>2, <1>3, <1>4, <1>g DEF StoredInv
<1>8. FormInv'
  BY <1>1, <1>2, NoClaimFacts, LeavesFacts DEF FormInv, Lossless
<1>9. PlaceInv' /\ RemovalInv' /\ AwayInv' /\ HomeInv'
  BY <1>1, <1>5, <1>g, Pages, EmptySeq DEF PlaceInv, RemovalInv, AwayInv, HomeInv, Lossless
<1> QED
  BY <1>6, <1>7, <1>8, <1>9 DEF IInv

\* The form comes up with a claim that was stored.
LEMMA MountFacts ==
  ASSUME NEW c \in FormClaim, Whole(c), NEW r \in Routes, r.segment < MaxEmployers, Mount(c, r)
  PROVE  /\ route' = r /\ initial' = c /\ values' \in FormClaim
         /\ NameSet(values') = NameSet(c) /\ values'.affirmed = c.affirmed
         /\ r.page = "employer" => r.segment < Len(values'.employers)
         /\ r.page # "employer" => values' = c
         /\ (r.page = "employer" => r.segment =< Len(c.employers)) => Whole(values')
<1>1. c \in Claim /\ Len(c.more) = Len(c.employers)
  BY DEF FormClaim, Whole
<1>2. Merged(c) = c
  BY <1>1, MergedFacts
<1>3. route' = r /\ initial' = c /\ values' = Settled(c, r)
  BY <1>2 DEF Mount, Show
<1> QED
  BY <1>1, <1>3, SettledFacts

LEMMA ContinueKeeps ==
  ASSUME IInv, Continue
  PROVE  IInv'
<1> DEFINE c == cache.claim
           r == ContinueAt(c)
<1>1. TypeInv /\ StoredInv /\ FormInv /\ HomeInv /\ Lossless
      /\ c \in FormClaim /\ Whole(c) /\ c \in Claim
      /\ draft \in FormClaim /\ draft \in Claim /\ sent \in Claim
  BY FreeFacts, StoredFacts DEF IInv, Continue
<1>2. /\ Mount(c, r) /\ Refetch /\ Leaves /\ UNCHANGED <<cache, posts, draft, sent>>
      /\ r.segment < MaxEmployers /\ route = Home
  BY DEF Continue
<1>g. get' \in Refresh /\ get'.pc # "none" /\ Writable(get'.claim) /\ Whole(get'.claim)
  BY <1>1, <1>2, RefetchFacts
<1> HIDE DEF c
<1>3. r \in Routes /\ r.page \in FormPages /\ r.segment =< Len(c.employers)
  BY <1>1, ContinueFacts
<1> HIDE DEF r
<1>4. /\ route' = r /\ initial' = c /\ values' \in FormClaim /\ Whole(values')
      /\ r.page = "employer" => r.segment < Len(values'.employers)
      /\ r.page # "employer" => values' = c
  BY <1>1, <1>2, <1>3, MountFacts
<1>5. ASSUME Lossless'
      PROVE  posts = <<>> /\ Len(sent.employers) = Len(c.employers)
  <2>1. posts = <<>> /\ draft = Json(sent) /\ get.pc = "none"
    BY <1>2, <1>5, LeavesFacts DEF Lossless
  <2>2. c = draft
    BY <1>1, <1>2, <2>1 DEF HomeInv, Lossless, c
  <2> QED
    BY <1>1, <2>1, <2>2, JsonFacts
<1>6. TypeInv'
  BY <1>1, <1>2, <1>3, <1>4, <1>g DEF TypeInv
<1>7. StoredInv' /\ FormInv'
  BY <1>1, <1>2, <1>4, <1>g DEF StoredInv, FormInv, c
<1>8. PlaceInv'
  BY <1>2, <1>3, <1>4, <1>5 DEF PlaceInv, FormPages
<1>9. RemovalInv'
  BY <1>2, <1>5, EmptySeq DEF RemovalInv
<1>10. AwayInv' /\ HomeInv'
  BY <1>3, <1>4, Pages DEF AwayInv, HomeInv, OnForm, FormPages
<1> QED
  BY <1>6, <1>7, <1>8, <1>9, <1>10 DEF IInv

\* The pages the menus link to.
LEMMA LinkedFacts == Linked \subseteq {Employer(0), EmployerReview, Review}
<1> DEFINE at == ContinueAt(cache.claim)
           pages == <<Employer(0), EmployerReview, Review>>
           found == {k \in DOMAIN pages : pages[k] = at}
<1>1. Linked = {pages[k] : k \in {k \in DOMAIN pages : \A f \in found : k =< f}}
  BY DEF Linked
<1>2. \A k \in DOMAIN pages : pages[k] \in {Employer(0), EmployerReview, Review}
  <2>1. DOMAIN pages = 1 .. 3
    OBVIOUS
  <2>2. \A k \in 1 .. 3 : k = 1 \/ k = 2 \/ k = 3
    OBVIOUS
  <2>3. pages[1] = Employer(0) /\ pages[2] = EmployerReview /\ pages[3] = Review
    OBVIOUS
  <2> QED
    BY <2>1, <2>2, <2>3
<1> HIDE DEF pages, found
<1> QED
  BY <1>1, <1>2

LEMMA LoadKeeps ==
  ASSUME IInv, NEW r \in Routes, Load(r)
  PROVE  IInv'
<1>1. /\ TypeInv /\ StoredInv /\ FormInv /\ PlaceInv /\ Lossless
      /\ draft \in Claim /\ sent \in Claim
  BY FreeFacts, StoredFacts DEF IInv, Load
<1>2. /\ cache' = [claim |-> draft', errors |-> Errors(draft')]
      /\ get' \in {NoGet, Asked, Unawaited} /\ get' \in {NoGet, Asked}
      /\ IF r = Home THEN route' = Home /\ values' = NoClaim /\ initial' = NoClaim ELSE Mount(draft', r)
      /\ PageGone /\ Leaves /\ sent' = sent
      /\ r \in {route, Home} \cup Linked
  BY DEF Load, Unmount
<1>3. /\ posts' = <<>> /\ posts' \in Seq(Request) /\ DOMAIN posts' = {} /\ Len(posts') =< MaxPosts
      /\ draft' \in FormClaim /\ Whole(draft') /\ Writable(draft')
      /\ \A k \in DOMAIN draft'.more : draft'.more[k] # "unset"
      /\ posts = <<>> => draft' = draft
  BY <1>2, GoneFacts
<1>4. /\ cache' \in [claim : FormClaim, errors : BOOLEAN] /\ cache'.claim = draft'
      /\ cache'.errors = Errors(draft')
  BY <1>2, <1>3 DEF Errors
<1>g. /\ get' \in Refresh /\ (get'.pc = "none" => ~ get'.awaited) /\ get'.pc # "read"
      /\ Writable(get'.claim) /\ Whole(get'.claim)
  BY <1>1, <1>2, GetFacts
<1>5. r.segment < MaxEmployers /\ route \in Routes
      /\ \/ r = route
         \/ r.segment = 0
  BY <1>1, <1>2, LinkedFacts, Pages, Constants DEF TypeInv
<1>6. TypeInv'
  <2>1. route' \in Routes /\ route'.segment < MaxEmployers /\ values' \in FormClaim /\ initial' \in FormClaim
    <3>1. CASE r = Home
      BY <1>2, <1>5, <3>1, NoClaimFacts, Pages
    <3>2. CASE r # Home
      <4> DEFINE d == draft'
      <4>1. d \in FormClaim /\ Whole(d) /\ Mount(d, r)
        BY <1>2, <1>3, <3>2
      <4> HIDE DEF d
      <4>2. route' = r /\ initial' = d /\ values' \in FormClaim
        BY <1>5, <4>1, MountFacts
      <4> QED
        BY <1>5, <4>1, <4>2
    <3> QED
      BY <3>1, <3>2
  <2> QED
    BY <1>1, <1>2, <1>3, <1>4, <1>g, <2>1 DEF TypeInv
<1>7. StoredInv'
  BY <1>3, <1>4, <1>g DEF StoredInv
<1>8. RemovalInv' /\ AwayInv' /\ HomeInv'
  BY <1>2, <1>3, <1>4, <1>g DEF RemovalInv, AwayInv, HomeInv, Errors
<1>9. CASE r = Home
  <2>1. FormInv'
    BY <1>1, <1>2, <1>9, NoClaimFacts DEF FormInv
  <2>2. PlaceInv'
    BY <1>2, <1>9, Pages DEF PlaceInv
  <2> QED
    BY <1>6, <1>7, <1>8, <2>1, <2>2 DEF IInv
<1>10. CASE r # Home
  <2> DEFINE d == draft'
  <2>1. d \in FormClaim /\ Whole(d) /\ Mount(d, r)
    BY <1>2, <1>3, <1>10
  <2>2. ASSUME Lossless'
        PROVE  Len(sent.employers) = Len(d.employers)
    <3>1. posts = <<>> /\ draft = Json(sent)
      BY <1>2, <2>2, LeavesFacts DEF Lossless
    <3> QED
      BY <1>1, <1>3, <3>1, JsonFacts
  <2> HIDE DEF d
  <2>3. Len(d.employers) \in Nat
    BY <2>1, ClaimParts DEF FormClaim
  <2>4. ASSUME Lossless', r.page = "employer"
        PROVE  r.segment =< Len(d.employers)
    <3>1. CASE r = route
      BY <1>1, <2>2, <2>4, <3>1 DEF PlaceInv
    <3>2. CASE r.segment = 0
      BY <2>3, <3>2
    <3> QED
      BY <1>5, <3>1, <3>2
  <2>5. /\ route' = r /\ initial' = d
        /\ r.page = "employer" => r.segment < Len(values'.employers)
        /\ r.page # "employer" => values' = d
        /\ (r.page = "employer" => r.segment =< Len(d.employers)) => Whole(values')
    BY <1>5, <2>1, MountFacts
  <2>6. FormInv'
    BY <1>1, <1>2, <2>1, <2>4, <2>5 DEF FormInv
  <2>7. PlaceInv'
    BY <1>2, <2>2, <2>4, <2>5 DEF PlaceInv
  <2> QED
    BY <1>6, <1>7, <1>8, <2>6, <2>7 DEF IInv
<1> QED
  BY <1>9, <1>10

LEMMA SubmitKeeps ==
  ASSUME IInv, Submit
  PROVE  IInv'
<1>1. TypeInv /\ StoredInv /\ FormInv
  BY DEF IInv
<1>2. /\ route' = Gone("success") /\ posts' = <<>> /\ cache' = NoCache /\ get' = NoGet
      /\ UNCHANGED <<values, initial, draft, sent, excuses>>
  BY DEF Submit
<1>g. /\ get' \in Refresh /\ (get'.pc = "none" => ~ get'.awaited)
      /\ Writable(get'.claim) /\ Whole(get'.claim)
  BY <1>1, <1>2, GetFacts
<1>3. posts' \in Seq(Request) /\ DOMAIN posts' = {} /\ Len(posts') =< MaxPosts
  <2>1. <<>> \in Seq(Request) /\ Len(<<>>) = 0 /\ DOMAIN <<>> = {}
    BY EmptySeq
  <2> QED
    BY <1>2, <2>1, Constants
<1>4. Gone("success") \in Routes /\ Gone("success").page = "success" /\ Gone("success").segment = 0
  BY Pages
<1>5. TypeInv'
  BY <1>1, <1>2, <1>3, <1>4, <1>g, NoClaimFacts, Constants DEF TypeInv, Whole
<1>6. StoredInv' /\ FormInv'
  BY <1>1, <1>2, <1>3, <1>g, NoClaimFacts DEF StoredInv, FormInv, Lossless
<1>7. PlaceInv' /\ RemovalInv' /\ AwayInv' /\ HomeInv'
  BY <1>2, <1>3, <1>4, Pages DEF PlaceInv, RemovalInv, AwayInv, HomeInv
<1> QED
  BY <1>5, <1>6, <1>7 DEF IInv

-----------------------------------------------------------------------------
(* The invariant holds *)

LEMMA Initially ==
  ASSUME Init
  PROVE  IInv
<1>1. /\ route = Home /\ values = NoClaim /\ initial = NoClaim /\ draft = NoClaim
      /\ cache = [claim |-> NoClaim, errors |-> FALSE] /\ get = NoGet
      /\ posts = <<>> /\ sent = NoClaim
  BY DEF Init
<1>2. posts \in Seq(Request) /\ DOMAIN posts = {} /\ Len(posts) =< MaxPosts
  <2>1. <<>> \in Seq(Request) /\ Len(<<>>) = 0 /\ DOMAIN <<>> = {}
    BY EmptySeq
  <2> QED
    BY <1>1, <2>1, Constants
<1>g. /\ get \in Refresh /\ get.pc = "none" /\ ~ get.awaited
      /\ Writable(get.claim) /\ Whole(get.claim)
  <2>1. get.claim = NoClaim /\ get \in Refresh /\ get.pc = "none" /\ ~ get.awaited
    BY <1>1, NoClaimFacts DEF NoGet, Refresh
  <2> QED
    BY <2>1, NoClaimFacts DEF Whole
<1>3. DOMAIN draft.more = {} /\ DOMAIN draft.employers = {}
  BY <1>1, NoClaimFacts, EmptySeq
<1>4. cache \in [claim : FormClaim, errors : BOOLEAN] /\ cache.claim = NoClaim
      /\ cache.errors = FALSE
  BY <1>1, NoClaimFacts
<1>5. ~ Errors(cache.claim)
  BY <1>1, <1>3, <1>4 DEF Errors
<1>6. TypeInv
  BY <1>1, <1>2, <1>3, <1>4, <1>g, NoClaimFacts, Pages, Constants DEF TypeInv, Whole
<1>7. StoredInv /\ FormInv
  BY <1>1, <1>2, <1>4, <1>g, NoClaimFacts DEF StoredInv, FormInv
<1>8. PlaceInv /\ RemovalInv /\ AwayInv /\ HomeInv
  BY <1>1, <1>2, <1>4, <1>5, <1>g, Pages DEF PlaceInv, RemovalInv, AwayInv, HomeInv, Errors
<1> QED
  BY <1>6, <1>7, <1>8 DEF IInv

LEMMA StepKeeps ==
  ASSUME IInv, [Next]_vars
  PROVE  IInv'
<1>1. CASE Next
  <2>1. CASE \/ \E name \in Names : EnterName(name)
             \/ \E x \in {"yes", "no"} : AnswerMore(x)
             \/ \E x \in Affirmations : Affirm(x)
    BY <2>1, AnswersKeep
  <2>2. CASE GoNext
    BY <2>2, GoNextKeeps
  <2>3. CASE GoBack
    BY <2>3, GoBackKeeps
  <2>4. CASE SaveAndExit
    BY <2>4, SaveAndExitKeeps
  <2>5. CASE \E s \in 0 .. MaxEmployers : GoToEmployer(s)
    BY <2>5, GoToEmployerKeeps
  <2>6. CASE RemoveEmployer \/ RemoveEmpty
    BY <2>6, Removals, RemoveKeeps
  <2>7. CASE GoHome
    BY <2>7, GoHomeKeeps
  <2>8. CASE Continue
    BY <2>8, ContinueKeeps
  <2>9. CASE \E r \in Routes : Load(r)
    BY <2>9, LoadKeeps
  <2>10. CASE Submit
    BY <2>10, SubmitKeeps
  <2>11. CASE \E i \in DOMAIN posts : Apply(i)
    BY <2>11, ApplyKeeps
  <2>12. CASE \E i \in DOMAIN posts : Fail(i)
    BY <2>12, FailKeeps
  <2>13. CASE \E i \in DOMAIN posts : SaveAnswered(i)
    BY <2>13, SaveAnsweredKeeps
  <2>14. CASE \E i \in DOMAIN posts : RemovalAnswered(i)
    BY <2>14, RemovalAnsweredKeeps
  <2>15. CASE \E i \in DOMAIN posts : ExitAnswered(i)
    BY <2>15, ExitAnsweredKeeps
  <2>16. CASE FetchAnswered
    BY <2>16, FetchAnsweredKeeps
  <2> QED
    BY <1>1, <2>1, <2>2, <2>3, <2>4, <2>5, <2>6, <2>7, <2>8, <2>9, <2>10, <2>11, <2>12,
       <2>13, <2>14, <2>15, <2>16 DEF Next
<1>2. CASE UNCHANGED vars
  <2>1. UNCHANGED <<route, values, initial, cache, get, posts, draft, sent, excuses>>
    BY <1>2 DEF vars
  <2>2. TypeInv'
    BY <2>1 DEF IInv, TypeInv
  <2>3. StoredInv' /\ FormInv' /\ RemovalInv' /\ AwayInv' /\ HomeInv'
    BY <2>1 DEF IInv, StoredInv, FormInv, RemovalInv, AwayInv, HomeInv, Awaited, OnForm, Lossless, Errors
  <2>4. PlaceInv'
    BY <2>1 DEF IInv, PlaceInv, Removing, Lossless
  <2> QED
    BY <2>2, <2>3, <2>4 DEF IInv
<1> QED
  BY <1>1, <1>2

LEMMA Invariant == Spec => []IInv
BY Initially, StepKeeps, PTL DEF Spec

\* Every copy of the claim, in the form, in the cache and on the server, has
\* employers and answers of the right kind; what came through JSON holds no
\* undefined, and no draft has a null employer (ClaimForm.tsx, views.py).
THEOREM ClaimsAreTyped == Spec => []TypeOK
<1>1. IInv => TypeOK
  <2> SUFFICES ASSUME IInv
               PROVE  TypeOK
    OBVIOUS
  <2>1. \A c \in {values, initial, cache.claim, get.claim, draft, sent} : c \in Claim
    <3>1. get.claim \in Claim
      BY DEF IInv, TypeInv, Refresh, FormClaim
    <3> QED
      BY <3>1, StoredFacts DEF IInv
  <2>2. \A c \in {values, initial, cache.claim, get.claim, draft, sent} :
          /\ \A i \in DOMAIN c.employers : c.employers[i] \in Employers
          /\ \A i \in DOMAIN c.more : c.more[i] \in Answers
    BY <2>1, ClaimParts, Zenon
  <2> QED
    BY <2>2 DEF IInv, TypeInv, TypeOK
<1> QED
  BY <1>1, Invariant, PTL

\* One answer to "more employers?" for every employer and no employer skipped,
\* unless she went on while a removal was in flight or left while a save was.
THEOREM FormIsWhole == Spec => []EmployersAreWhole
<1>1. IInv => EmployersAreWhole
  BY DEF IInv, FormInv, Lossless, Whole, Writable, EmployersAreWhole
<1> QED
  BY <1>1, Invariant, PTL

-----------------------------------------------------------------------------
(* Where Home sends her *)

LEMMA AcceptsFacts ==
  ASSUME NEW c
  PROVE  /\ \A r : r.page = "employer" => Accepts(r, c) = segmentSchema(c, r.segment)
         /\ Accepts(EmployerReview, c) = pageSchema(c)
BY Pages DEF Accepts

\* The segments that useClaimProgress may stop at.
StopsOf(c) ==
  {s \in 0 .. Len(c.employers) : /\ \A t \in 0 .. s - 1 : segmentSchema(c, t) /\ repeatable(c, t)
                                 /\ ~ segmentSchema(c, s)}

LEMMA ContinueCases ==
  ASSUME NEW c
  PROVE  /\ StopsOf(c) # {} => \E s \in StopsOf(c) : ContinueAt(c) = Employer(s)
         /\ StopsOf(c) = {} => ContinueAt(c) = IF pageSchema(c) THEN Review ELSE EmployerReview
BY DEF ContinueAt, StopsOf

\* A segment past the end is shown as the skeleton.
LEMMA NewSegment ==
  ASSUME NEW c \in Claim, NEW r \in Routes, r.page = "employer",
         r.segment + 1 \notin DOMAIN c.employers
  PROVE  Settled(c, r).employers[r.segment + 1] = untouched
<1> DEFINE s == r.segment + 1
           e == Put(c.employers, s, untouched, hole)
<1>1. s \in Nat \ {0} /\ c.employers \in Seq(Employers) /\ Len(c.employers) \in Nat
  BY RouteParts, ClaimParts, Constants
<1>2. Settled(c, r) = [c EXCEPT !.employers = e, !.more = Append(c.more, "unset")]
  BY DEF Settled
<1>3. Settled(c, r).employers = e
  BY <1>2 DEF Claim
<1>4. e \in Seq(Employers) /\ IsPut(e, c.employers, s, untouched, hole)
  <2>1. untouched \in Employers /\ hole \in Employers /\ e = Put(c.employers, s, untouched, hole)
    BY Constants
  <2> HIDE DEF e, s
  <2> QED
    BY <1>1, <2>1, PutFacts, Zenon
<1>5. s \in DOMAIN e
  BY <1>1, <1>4 DEF IsPut
<1>6. e[s] = untouched
  BY <1>4, <1>5 DEF IsPut
<1> QED
  BY <1>3, <1>6

\* Home is the only place where she files, and it offers what the form finished.
THEOREM OfferedClaimIsFinished == Spec => []OfferedIsFinished
<1>1. IInv => OfferedIsFinished
  <2> DEFINE c == cache.claim
             n == Len(c.employers)
  <2> SUFFICES ASSUME IInv, route = Home, get.pc = "none", ~ cache.errors, "left" \notin excuses,
                      c.employers # <<>>, \A i \in DOMAIN c.more : c.more[i] \in {"yes", "no"},
                      c.more[Len(c.more)] # "yes"
               PROVE  ContinueAt(c) = Review
    BY DEF OfferedIsFinished
  <2>1. /\ c \in Claim /\ Whole(c) /\ c.employers \in Seq(Employers) /\ n \in Nat
        /\ DOMAIN c.employers = 1 .. n /\ DOMAIN c.more = 1 .. n /\ Len(c.more) = n /\ n # 0
    BY StoredFacts, ClaimParts, EmptySeq DEF IInv, Whole
  <2>2. \A i \in 1 .. n : c.employers[i] \in Names
    BY <2>1 DEF IInv, HomeInv, Errors
  <2> HIDE DEF c, n
  <2>3. pageSchema(c)
    BY <2>1, <2>2 DEF pageSchema
  <2>4. \A s \in 0 .. n : s # n => segmentSchema(c, s)
    <3> SUFFICES ASSUME NEW s \in 0 .. n, s # n
                 PROVE  segmentSchema(c, s)
      OBVIOUS
    <3>1. s + 1 \in 1 .. n
      BY <2>1
    <3> QED
      BY <2>1, <2>2, <3>1 DEF segmentSchema, Filled, More
  <2>5. n - 1 \in 0 .. n - 1 /\ ~ repeatable(c, n - 1)
    BY <2>1 DEF repeatable, More
  <2>6. StopsOf(c) = {}
    BY <2>1, <2>4, <2>5 DEF StopsOf, n
  <2> QED
    BY <2>3, <2>6, ContinueCases
<1> QED
  BY <1>1, Invariant, PTL

LEMMA StopIsOpen ==
  ASSUME NEW c \in FormClaim, Whole(c), NEW s \in StopsOf(c)
  PROVE  ~ Accepts(Employer(s), Settled(c, Employer(s)))
<1> DEFINE r == Employer(s)
           d == Settled(c, r)
<1>1. /\ c \in Claim /\ Len(c.employers) \in Nat /\ Len(c.employers) =< MaxEmployers
      /\ DOMAIN c.employers = 1 .. Len(c.employers)
  BY ClaimParts DEF FormClaim
<1>2. s \in 0 .. Len(c.employers) /\ s \in 0 .. MaxEmployers /\ ~ segmentSchema(c, s)
  BY <1>1, Constants DEF StopsOf
<1>3. r \in Routes /\ r.page = "employer" /\ r.segment = s
  BY <1>2, RouteParts
<1> HIDE DEF r
<1>4. CASE s < Len(c.employers)
  <2>1. d = c
    BY <1>1, <1>3, <1>4, SettledFacts
  <2> QED
    BY <1>2, <1>3, <2>1, AcceptsFacts DEF r
<1>5. CASE s = Len(c.employers)
  <2>1. d.employers[s + 1] = untouched
    <3>1. r.segment + 1 \notin DOMAIN c.employers
      BY <1>1, <1>3, <1>5
    <3> QED
      BY <1>1, <1>3, <3>1, NewSegment
  <2>2. ~ segmentSchema(d, s)
    BY <2>1, Constants DEF segmentSchema, Filled
  <2> QED
    BY <1>3, <2>2, AcceptsFacts DEF r
<1> QED
  BY <1>1, <1>2, <1>4, <1>5

\* Where Home lets her continue is an open question, and the segments before
\* it are answered (useClaimProgress against the schemas of the pages).
THEOREM ContinuesAtOpen == Spec => []ContinuesAtOpenQuestion
<1>1. IInv => ContinuesAtOpenQuestion
  <2> DEFINE c == cache.claim
             at == ContinueAt(c)
             n == Len(c.employers)
  <2> SUFFICES ASSUME IInv, route = Home
               PROVE  /\ at # Review => ~ Accepts(at, Settled(Merged(c), at))
                      /\ at.page # "employer" => \A i \in DOMAIN c.employers :
                           (\A j \in 1 .. i - 1 : c.more[j] = "yes") => Accepts(Employer(i - 1), Merged(c))
    BY DEF ContinuesAtOpenQuestion
  <2>1. /\ c \in FormClaim /\ c \in Claim /\ Whole(c) /\ n \in Nat /\ n =< MaxEmployers
        /\ DOMAIN c.employers = 1 .. n /\ DOMAIN c.more = 1 .. n /\ Len(c.more) = n
    BY StoredFacts, ClaimParts DEF IInv, Whole, FormClaim
  <2>2. Merged(c) = c
    BY <2>1, MergedFacts
  <2> HIDE DEF c
  <2>3. ASSUME at # Review
        PROVE  ~ Accepts(at, Settled(c, at))
    <3>1. CASE StopsOf(c) # {}
      <4>1. PICK s \in StopsOf(c) : at = Employer(s)
        BY <3>1, ContinueCases
      <4> QED
        BY <2>1, <4>1, StopIsOpen
    <3>2. CASE StopsOf(c) = {}
      <4>1. at = EmployerReview /\ ~ pageSchema(c)
        BY <2>3, <3>2, ContinueCases
      <4>2. Settled(c, EmployerReview) = c
        BY Pages DEF Settled
      <4> QED
        BY <4>1, <4>2, AcceptsFacts
    <3> QED
      BY <3>1, <3>2
  <2>4. ASSUME at.page # "employer", NEW i \in DOMAIN c.employers,
               \A j \in 1 .. i - 1 : c.more[j] = "yes"
        PROVE  segmentSchema(c, i - 1)
    <3>1. StopsOf(c) = {}
      <4> SUFFICES ASSUME StopsOf(c) # {}
                   PROVE  FALSE
        OBVIOUS
      <4>1. PICK s \in StopsOf(c) : at = Employer(s)
        BY ContinueCases
      <4>2. s \in 0 .. MaxEmployers
        BY <2>1, Constants DEF StopsOf
      <4> QED
        BY <2>4, <4>1, <4>2, RouteParts
    <3> DEFINE K == {k \in 1 .. i : ~ segmentSchema(c, k - 1)}
    <3>2. i \in Nat /\ i \in 1 .. n /\ K \in SUBSET (1 .. i)
      BY <2>1
    <3> SUFFICES ASSUME K # {}
                 PROVE  FALSE
      BY <3>2
    <3>3. PICK k \in K : \A m \in K : k =< m
      <4> HIDE DEF K
      <4> QED
        BY <3>2, LeastElement
    <3>4. k \in 1 .. i /\ ~ segmentSchema(c, k - 1)
      OBVIOUS
    <3>5. ASSUME NEW t \in 0 .. (k - 1) - 1
          PROVE  segmentSchema(c, t) /\ repeatable(c, t)
      <4>1. t + 1 \in 1 .. i /\ t + 1 < k /\ (t + 1) - 1 = t /\ t + 1 \in 1 .. i - 1 /\ t + 1 \in 1 .. n
        BY <3>2, <3>4
      <4>2. segmentSchema(c, t)
        <5>1. t + 1 \notin K
          BY <3>3, <4>1
        <5> QED
          BY <4>1, <5>1
      <4>3. repeatable(c, t)
        BY <2>1, <2>4, <4>1 DEF repeatable, More
      <4> QED
        BY <4>2, <4>3
    <3>6. k - 1 \in 0 .. n
      BY <2>1, <3>2, <3>4
    <3>7. k - 1 \in StopsOf(c)
      BY <3>4, <3>5, <3>6 DEF StopsOf
    <3> QED
      BY <3>1, <3>7
  <2>5. ASSUME NEW i \in DOMAIN c.employers, segmentSchema(c, i - 1)
        PROVE  Accepts(Employer(i - 1), c)
    <3>1. i - 1 \in 0 .. MaxEmployers
      BY <2>1, Constants
    <3> QED
      BY <2>5, <3>1, RouteParts, AcceptsFacts
  <2> QED
    BY <2>2, <2>3, <2>4, <2>5
<1> QED
  BY <1>1, Invariant, PTL

-----------------------------------------------------------------------------
(* Nothing she entered is forgotten *)

\* The same employers and the same affirmation.
Alike(c, d) == NameSet(c) = NameSet(d) /\ c.affirmed = d.affirmed

\* The form has what she entered, and an awaited removal what is to be left.
NamesInv ==
  excuses \subseteq {"overlap", "lost"} =>
    /\ OnForm => NameSet(values) = entered
    /\ \A i \in DOMAIN posts : Awaited(i) => NameSet(posts[i].claim) = entered \ posts[i].removed

\* As long as nothing went wrong all posts in flight carry the claim last sent.
\* A save carries what the form falls back to as well; on the page review, where
\* the affirmation changes, with its affirmation, elsewhere a removal or an exit does.
SentInv ==
  excuses = {} =>
    /\ \A i \in DOMAIN posts :
         /\ posts[i].here /\ Alike(posts[i].claim, sent)
         /\ posts[i].applied => Alike(draft, sent)
         /\ posts[i].by = "save" =>
              /\ NameSet(posts[i].claim) = NameSet(initial)
              /\ route.page = "review" => posts[i].claim.affirmed = initial.affirmed
         /\ posts[i].by # "save" /\ route.page # "review" =>
              posts[i].claim.affirmed = initial.affirmed
    /\ \A i, j \in DOMAIN posts : posts[i].by = "exit" /\ posts[j].by = "exit" => i = j

\* What the form falls back to.
BaseInv ==
  excuses = {} /\ OnForm =>
    /\ (\A i \in DOMAIN posts : posts[i].by = "save") => NameSet(initial) = NameSet(sent)
    /\ route.page # "review" => values.affirmed = initial.affirmed

\* On Home she has nothing that is not saved.
DraftInv ==
  excuses \subseteq {"lost"} /\ route = Home => NameSet(sent) = entered

MemoryInv == NamesInv /\ SentInv /\ BaseInv /\ DraftInv

\* An answer that changes neither the employers nor the affirmation.
LEMMA MemoryOfAnswers ==
  ASSUME IInv, MemoryInv, OnForm, NameSet(values') = NameSet(values), values'.affirmed = values.affirmed,
         UNCHANGED <<route, initial, posts, draft, entered, sent>>, excuses \subseteq excuses'
  PROVE  MemoryInv'
<1>1. /\ (excuses' = {} => excuses = {})
      /\ (excuses' \subseteq {"lost"} => excuses \subseteq {"lost"})
      /\ (excuses' \subseteq {"overlap", "lost"} => excuses \subseteq {"overlap", "lost"})
  OBVIOUS
<1>2. NamesInv'
  BY <1>1 DEF MemoryInv, NamesInv, Awaited, OnForm
<1>3. SentInv' /\ BaseInv' /\ DraftInv'
  BY <1>1 DEF MemoryInv, SentInv, BaseInv, DraftInv, Alike, OnForm
<1> QED
  BY <1>2, <1>3 DEF MemoryInv

LEMMA EnterNameRemembers ==
  ASSUME IInv, MemoryInv, NEW name \in Names, EnterName(name)
  PROVE  MemoryInv'
<1>1. /\ NameSet(values') = NameSet(values) \cup {name} /\ values'.affirmed = values.affirmed
  BY EnterNameFacts
<1>2. /\ entered' = entered \cup {name} /\ route.page = "employer"
      /\ UNCHANGED <<route, initial, posts, draft, sent>>
      /\ excuses = {} /\ (Removing => "removal" \in excuses') /\ (~ Removing => excuses' = excuses)
  BY DEF EnterName, MindsRemoval, Excused, Types, Free
<1>3. NamesInv'
  BY <1>1, <1>2 DEF MemoryInv, NamesInv, Awaited, OnForm, Removing
<1>4. SentInv' /\ BaseInv' /\ DraftInv'
  BY <1>1, <1>2, Pages DEF MemoryInv, SentInv, BaseInv, DraftInv, Alike, OnForm
<1> QED
  BY <1>3, <1>4 DEF MemoryInv

LEMMA AnswersRemember ==
  ASSUME IInv, MemoryInv,
         \/ \E x \in {"yes", "no"} : AnswerMore(x)
         \/ \E x \in Affirmations : Affirm(x)
  PROVE  MemoryInv'
<1>1. ASSUME NEW x \in {"yes", "no"}, AnswerMore(x)
      PROVE  MemoryInv'
  <2>1. /\ excuses \subseteq excuses' /\ OnForm
        /\ UNCHANGED <<route, initial, posts, draft, entered, sent>>
    BY <1>1 DEF AnswerMore, MindsRemoval, Excused, OnForm
  <2>2. values'.employers = values.employers /\ values'.affirmed = values.affirmed
    BY <1>1, AnswerMoreFacts
  <2>3. NameSet(values') = NameSet(values)
    BY <2>2 DEF NameSet
  <2> QED
    BY <2>1, <2>2, <2>3, MemoryOfAnswers
<1>2. ASSUME NEW x \in Affirmations, Affirm(x)
      PROVE  MemoryInv'
  <2>1. /\ excuses \subseteq excuses' /\ route.page = "review"
        /\ UNCHANGED <<route, initial, posts, draft, entered, sent>>
    BY <1>2 DEF Affirm, MindsRemoval, Excused
  <2>2. NameSet(values') = NameSet(values)
    BY <1>2, AffirmFacts DEF NameSet
  <2>3. NamesInv'
    BY <2>1, <2>2 DEF MemoryInv, NamesInv, Awaited, OnForm
  <2>4. SentInv' /\ BaseInv' /\ DraftInv'
    BY <2>1, Pages DEF MemoryInv, SentInv, BaseInv, DraftInv, Alike, OnForm
  <2> QED
    BY <2>3, <2>4 DEF MemoryInv
<1> QED
  BY <1>1, <1>2

LEMMA GoToEmployerRemembers ==
  ASSUME IInv, MemoryInv, NEW s \in 0 .. MaxEmployers, GoToEmployer(s)
  PROVE  MemoryInv'
<1>1. /\ route.page = "employer-review" /\ route' = Employer(s) /\ values' = Settled(values, Employer(s))
      /\ UNCHANGED <<initial, posts, draft, entered, sent>> /\ excuses \subseteq excuses'
  BY DEF GoToEmployer, Show, MindsRemoval, Excused
<1>2. NameSet(values') = NameSet(values) /\ values'.affirmed = values.affirmed
      /\ Employer(s) \in Routes /\ Employer(s).page = "employer"
  <2> DEFINE r == Employer(s)
  <2>1. r \in Routes /\ r.page = "employer"
    BY RouteParts
  <2>2. values' = Settled(values, r) /\ values \in Claim
    BY <1>1, StoredFacts DEF IInv
  <2> HIDE DEF r
  <2>3. NameSet(values') = NameSet(values) /\ values'.affirmed = values.affirmed
    BY <2>1, <2>2, SettledFacts
  <2> QED
    BY <2>1, <2>3 DEF r
<1>3. NamesInv'
  BY <1>1, <1>2 DEF MemoryInv, NamesInv, Awaited, OnForm
<1>4. SentInv' /\ BaseInv' /\ DraftInv'
  BY <1>1, <1>2, Pages DEF MemoryInv, SentInv, BaseInv, DraftInv, Alike, OnForm
<1> QED
  BY <1>3, <1>4 DEF MemoryInv

\* x is the post y, but for who waits for it.
Kept(x, y) ==
  /\ x.claim = y.claim /\ x.by = y.by /\ x.removed = y.removed /\ x.applied = y.applied
  /\ x.here = y.here

\* The posts in flight, and x after them.
Grown(x) ==
  \A j \in DOMAIN posts' : \/ j \in DOMAIN posts /\ Kept(posts'[j], posts[j])
                           \/ j = Len(posts) + 1 /\ posts'[j] = x

LEMMA GrownFacts ==
  ASSUME TypeInv, NEW x \in Request, posts' = Append(Unfollowed, x) \/ posts' = Append(posts, x)
  PROVE  Grown(x)
<1>1. ASSUME NEW p \in Seq(Request), Len(p) = Len(posts), DOMAIN p = DOMAIN posts,
             \A i \in DOMAIN posts : Kept(p[i], posts[i]), posts' = Append(p, x)
      PROVE  Grown(x)
  <2>1. /\ \A i \in DOMAIN p : posts'[i] = p[i]
        /\ posts'[Len(p) + 1] = x
        /\ \A i \in DOMAIN posts' : i \in DOMAIN p \/ i = Len(p) + 1
    <3>1. \A q : q = Append(p, x) => /\ \A i \in DOMAIN p : q[i] = p[i]
                                     /\ q[Len(p) + 1] = x
                                     /\ \A i \in DOMAIN q : i \in DOMAIN p \/ i = Len(p) + 1
      BY <1>1
    <3> QED
      BY <1>1, <3>1, Zenon
  <2> QED
    BY <1>1, <2>1 DEF Grown
<1>2. CASE posts' = Append(Unfollowed, x)
  <2> DEFINE p == Unfollowed
  <2>1. p \in Seq(Request) /\ Len(p) = Len(posts) /\ DOMAIN p = DOMAIN posts /\ posts' = Append(p, x)
    BY <1>2, UnfollowedFacts
  <2>2. ASSUME NEW y \in Request
        PROVE  Kept([y EXCEPT !.follows = FALSE], y)
    BY DEF Request, Kept
  <2>3. \A i \in DOMAIN posts : Kept(p[i], posts[i])
    BY <2>2, Posts DEF Unfollowed
  <2> HIDE DEF p
  <2> QED
    BY <1>1, <2>1, <2>3
<1>3. CASE posts' = Append(posts, x)
  <2> DEFINE p == posts
  <2>1. p \in Seq(Request) /\ Len(p) = Len(posts) /\ DOMAIN p = DOMAIN posts /\ posts' = Append(p, x)
        /\ \A i \in DOMAIN posts : Kept(p[i], posts[i])
    BY <1>3, Posts DEF Kept
  <2> HIDE DEF p
  <2> QED
    BY <1>1, <2>1
<1> QED
  BY <1>2, <1>3

\* She sends what all posts in flight carry.
LEMMA SendRemembers ==
  ASSUME MemoryInv, Free, NEW x, x.claim = sent', x.here, ~ x.applied, Grown(x),
         draft' = draft, \A i \in DOMAIN posts : posts[i].claim = sent'
  PROVE  /\ \A i \in DOMAIN posts' : /\ posts'[i].here /\ Alike(posts'[i].claim, sent')
                                     /\ posts'[i].applied => Alike(draft', sent')
         /\ \A i, j \in DOMAIN posts' : posts'[i].by = "exit" /\ posts'[j].by = "exit" => i = j
<1>1. /\ \A i \in DOMAIN posts : /\ posts[i].here /\ Alike(posts[i].claim, sent)
                                 /\ posts[i].applied => Alike(draft, sent)
      /\ \A i \in DOMAIN posts : posts[i].by # "exit"
  BY DEF MemoryInv, SentInv, Free
<1>2. \A i \in DOMAIN posts' : /\ posts'[i].here /\ Alike(posts'[i].claim, sent')
                               /\ posts'[i].applied => Alike(draft', sent')
  BY <1>1 DEF Grown, Kept, Alike
<1>3. \A i, j \in DOMAIN posts' : posts'[i].by = "exit" /\ posts'[j].by = "exit" => i = j
  BY <1>1 DEF Grown, Kept
<1> QED
  BY <1>2, <1>3

LEMMA NoneAwaited ==
  ASSUME NEW x, Grown(x), x.by # "removal", ~ Removing
  PROVE  \A j \in DOMAIN posts' : ~ Awaited(j)'
BY DEF Grown, Kept, Awaited, Removing

LEMMA GoNextRemembers ==
  ASSUME IInv, MemoryInv, GoNext
  PROVE  MemoryInv'
<1> DEFINE r == NextPage
           x == Post(values, "save", TRUE)
<1>1. /\ TypeInv /\ OnForm /\ Free /\ excuses = {} /\ values \in FormClaim /\ values \in Claim
  BY StoredFacts DEF GoNext, IInv, Free
<1>2. /\ route' = r /\ values' = Settled(values, r) /\ initial' = values /\ sent' = values
      /\ draft' = draft /\ entered' = entered
      /\ r.segment < MaxEmployers /\ posts' = Append(Unfollowed, x)
      /\ Removing => "removal" \in excuses'
      /\ "overlap" \notin excuses' => \A i \in DOMAIN posts : posts[i].claim = values
  BY DEF GoNext, Show, Sent, Overlaps, resetForm
<1>3. x \in Request /\ x.claim = values /\ x.by = "save" /\ x.here /\ ~ x.applied
  BY <1>1 DEF Post, Request
<1> HIDE DEF x
<1>4. Grown(x)
  BY <1>1, <1>2, <1>3, GrownFacts
<1>5. r \in Routes /\ r.page \in FormPages
  BY <1>1, <1>2, NextPageFacts
<1> HIDE DEF r
<1>6. NameSet(values') = NameSet(values) /\ values'.affirmed = values.affirmed
  BY <1>1, <1>2, <1>5, SettledFacts
<1>7. NamesInv'
  BY <1>1, <1>2, <1>3, <1>4, <1>6, NoneAwaited DEF MemoryInv, NamesInv
<1>8. ASSUME excuses' = {}
      PROVE  SentInv' /\ BaseInv'
  <2>1. \A i \in DOMAIN posts : posts[i].claim = sent' /\ posts[i].by # "exit"
    BY <1>1, <1>2, <1>8 DEF Free
  <2>2. /\ \A i \in DOMAIN posts' : /\ posts'[i].here /\ Alike(posts'[i].claim, sent')
                                    /\ posts'[i].applied => Alike(draft', sent')
        /\ \A i, j \in DOMAIN posts' : posts'[i].by = "exit" /\ posts'[j].by = "exit" => i = j
    BY <1>1, <1>2, <1>3, <1>4, <2>1, SendRemembers
  <2>3. \A i \in DOMAIN posts' : posts'[i].claim = initial'
    BY <1>2, <1>3, <1>4, <2>1 DEF Grown, Kept
  <2>4. SentInv'
    BY <2>2, <2>3 DEF SentInv
  <2>5. BaseInv'
    BY <1>2, <1>6 DEF BaseInv
  <2> QED
    BY <2>4, <2>5
<1>9. SentInv' /\ BaseInv'
  BY <1>8 DEF SentInv, BaseInv
<1>10. DraftInv'
  BY <1>2, <1>5, Pages DEF DraftInv, FormPages
<1> QED
  BY <1>7, <1>9, <1>10 DEF MemoryInv

LEMMA GoBackRemembers ==
  ASSUME IInv, MemoryInv, GoBack
  PROVE  MemoryInv'
<1> DEFINE r == PreviousPage
           x == Post(values, "save", FALSE)
<1>1. /\ TypeInv /\ OnForm /\ Free /\ excuses = {} /\ values \in FormClaim /\ values \in Claim
      /\ initial \in Claim
  BY StoredFacts DEF GoBack, IInv, Free
<1>2. /\ route' = r /\ values' = Settled(initial, r) /\ initial' = initial /\ sent' = values
      /\ draft' = draft /\ entered' = entered /\ route # Employer(0)
      /\ posts' = Append(Unfollowed, x)
      /\ Removing => "removal" \in excuses'
      /\ "overlap" \notin excuses' => \A i \in DOMAIN posts : posts[i].claim = values
      /\ "back" \notin excuses' => NameSet(values) = NameSet(sent)
  BY DEF GoBack, Overlaps, Show
<1>3. x \in Request /\ x.claim = values /\ x.by = "save" /\ x.here /\ ~ x.applied
  BY <1>1 DEF Post, Request
<1> HIDE DEF x
<1>4. Grown(x)
  BY <1>1, <1>2, <1>3, GrownFacts
<1>5. r \in Routes /\ r.page \in FormPages /\ r.page # "review"
  BY <1>1, <1>2, PreviousPageFacts
<1> HIDE DEF r
<1>6. NameSet(values') = NameSet(initial) /\ values'.affirmed = initial.affirmed
  BY <1>1, <1>2, <1>5, SettledFacts
<1>7. ASSUME excuses' \subseteq {"overlap", "lost"}
      PROVE  /\ ~ Removing
             /\ NameSet(initial) = NameSet(sent) /\ NameSet(values) = NameSet(sent)
  <2>1. ~ Removing /\ NameSet(values) = NameSet(sent)
    BY <1>2, <1>7
  <2>2. \A i \in DOMAIN posts : posts[i].by = "save"
    BY <1>1, <2>1, Posts DEF MemoryInv, SentInv, Free, Removing
  <2> QED
    BY <1>1, <2>1, <2>2 DEF MemoryInv, BaseInv
<1>8. NamesInv'
  BY <1>1, <1>2, <1>3, <1>4, <1>6, <1>7, NoneAwaited DEF MemoryInv, NamesInv
<1>9. ASSUME excuses' = {}
      PROVE  SentInv' /\ BaseInv'
  <2>1. \A i \in DOMAIN posts : posts[i].claim = sent'
    BY <1>2, <1>9
  <2>2. /\ \A i \in DOMAIN posts' : /\ posts'[i].here /\ Alike(posts'[i].claim, sent')
                                    /\ posts'[i].applied => Alike(draft', sent')
        /\ \A i, j \in DOMAIN posts' : posts'[i].by = "exit" /\ posts'[j].by = "exit" => i = j
    BY <1>1, <1>2, <1>3, <1>4, <2>1, SendRemembers
  <2>3. NameSet(initial) = NameSet(values)
    BY <1>7, <1>9
  <2>4. \A i \in DOMAIN posts' : posts'[i].claim = values /\ posts'[i].by = "save"
    <3>1. \A i \in DOMAIN posts : posts[i].by = "save"
      BY <1>1, <1>7, <1>9, Posts DEF MemoryInv, SentInv, Free, Removing
    <3> QED
      BY <1>2, <1>3, <1>4, <2>1, <3>1 DEF Grown, Kept
  <2>5. SentInv'
    BY <1>2, <1>5, <2>2, <2>3, <2>4 DEF SentInv
  <2>6. BaseInv'
    BY <1>2, <1>6, <2>3 DEF BaseInv
  <2> QED
    BY <2>5, <2>6
<1>10. SentInv' /\ BaseInv'
  BY <1>9 DEF SentInv, BaseInv
<1>11. DraftInv'
  BY <1>2, <1>5, Pages DEF DraftInv, FormPages
<1> QED
  BY <1>8, <1>10, <1>11 DEF MemoryInv

LEMMA SaveAndExitRemembers ==
  ASSUME IInv, MemoryInv, SaveAndExit
  PROVE  MemoryInv'
<1> DEFINE x == Post(values, "exit", TRUE)
<1>1. /\ TypeInv /\ OnForm /\ Free /\ excuses = {} /\ values \in FormClaim
  BY StoredFacts DEF SaveAndExit, IInv, Free
<1>2. /\ sent' = values /\ UNCHANGED <<route, values, initial, draft, entered>>
      /\ posts' = Append(Unfollowed, x)
      /\ Removing => "removal" \in excuses'
      /\ "overlap" \notin excuses' => \A i \in DOMAIN posts : posts[i].claim = values
  BY DEF SaveAndExit, Sent, Overlaps
<1>3. x \in Request /\ x.claim = values /\ x.by = "exit" /\ x.here /\ ~ x.applied
  BY <1>1 DEF Post, Request
<1> HIDE DEF x
<1>4. Grown(x) /\ posts'[Len(posts) + 1] = x /\ Len(posts) + 1 \in DOMAIN posts'
  <2>1. Grown(x)
    BY <1>1, <1>2, <1>3, GrownFacts
  <2> DEFINE p == Unfollowed
  <2>2. p \in Seq(Request) /\ Len(p) = Len(posts) /\ posts' = Append(p, x)
    BY <1>1, <1>2, UnfollowedFacts
  <2> HIDE DEF p
  <2>3. posts'[Len(p) + 1] = x /\ Len(p) + 1 \in DOMAIN posts'
    BY <1>3, <2>2
  <2> QED
    BY <2>1, <2>2, <2>3
<1>5. NamesInv'
  BY <1>1, <1>2, <1>3, <1>4, NoneAwaited DEF MemoryInv, NamesInv, OnForm
<1>6. ASSUME excuses' = {}
      PROVE  SentInv' /\ BaseInv'
  <2>1. \A i \in DOMAIN posts : posts[i].claim = sent'
    BY <1>2, <1>6
  <2>2. /\ \A i \in DOMAIN posts' : /\ posts'[i].here /\ Alike(posts'[i].claim, sent')
                                    /\ posts'[i].applied => Alike(draft', sent')
        /\ \A i, j \in DOMAIN posts' : posts'[i].by = "exit" /\ posts'[j].by = "exit" => i = j
    BY <1>1, <1>2, <1>3, <1>4, <2>1, SendRemembers
  <2>3. route.page # "review" => values.affirmed = initial.affirmed
    BY <1>1 DEF MemoryInv, BaseInv
  <2>4. \A i \in DOMAIN posts' :
          /\ posts'[i].by = "save" =>
               /\ NameSet(posts'[i].claim) = NameSet(initial)
               /\ route.page = "review" => posts'[i].claim.affirmed = initial.affirmed
          /\ posts'[i].by # "save" /\ route.page # "review" =>
               posts'[i].claim.affirmed = initial.affirmed
    BY <1>1, <1>3, <1>4, <2>3 DEF MemoryInv, SentInv, Grown, Kept
  <2>5. SentInv'
    BY <1>2, <2>2, <2>4 DEF SentInv
  <2>6. BaseInv'
    BY <1>2, <1>3, <1>4, <2>3 DEF BaseInv
  <2> QED
    BY <2>5, <2>6
<1>7. SentInv' /\ BaseInv'
  BY <1>6 DEF SentInv, BaseInv
<1>8. DraftInv'
  BY <1>1, <1>2, Pages DEF DraftInv, OnForm
<1> QED
  BY <1>5, <1>7, <1>8 DEF MemoryInv

LEMMA RemoveRemembers ==
  ASSUME IInv, MemoryInv, NEW I \in SUBSET DOMAIN values.employers, removeEmployer(I)
  PROVE  MemoryInv'
<1> DEFINE c == Removed(I)
           gone == NamesOf(I)
           x == Removal(c, gone)
<1>1. /\ Free /\ route = EmployerReview /\ sent' = c /\ c \in FormClaim
      /\ c.affirmed = values.affirmed /\ NameSet(c) = NameSet(values) \ gone
      /\ posts'[Len(posts')] = x /\ Len(posts') \in DOMAIN posts' /\ posts' = Append(posts, x)
      /\ UNCHANGED <<route, values, initial, draft, entered>>
  BY RemovalStep, Zenon
<1>2. /\ TypeInv /\ excuses = {} /\ OnForm /\ route.page = "employer-review"
  BY <1>1, Pages DEF IInv, Free, OnForm
<1>3. /\ Removing => "removal" \in excuses'
      /\ "overlap" \notin excuses' => \A i \in DOMAIN posts : posts[i].claim = c
  BY DEF removeEmployer, Sent, Overlaps
<1>4. /\ x \in Request /\ x.claim = c /\ x.by = "removal" /\ x.here /\ ~ x.applied /\ x.removed = gone
  <2>1. gone \in SUBSET Names
    BY DEF NamesOf
  <2> HIDE DEF c, gone
  <2> QED
    BY <1>1, <1>2, <2>1, RemovalFacts
<1> HIDE DEF x, c, gone
<1>5. Grown(x)
  BY <1>1, <1>2, <1>4, GrownFacts
<1>6. NamesInv'
  <2>1. ASSUME excuses' \subseteq {"overlap", "lost"}, NEW j \in DOMAIN posts', Awaited(j)'
        PROVE  posts'[j] = x
    BY <1>3, <1>5, <2>1 DEF Grown, Kept, Awaited, Removing
  <2> QED
    BY <1>1, <1>2, <1>4, <2>1 DEF MemoryInv, NamesInv, OnForm
<1>7. ASSUME excuses' = {}
      PROVE  SentInv' /\ BaseInv'
  <2>1. \A i \in DOMAIN posts : posts[i].claim = sent'
    BY <1>1, <1>3, <1>7
  <2>2. /\ \A i \in DOMAIN posts' : /\ posts'[i].here /\ Alike(posts'[i].claim, sent')
                                    /\ posts'[i].applied => Alike(draft', sent')
        /\ \A i, j \in DOMAIN posts' : posts'[i].by = "exit" /\ posts'[j].by = "exit" => i = j
    BY <1>1, <1>4, <1>5, <2>1, SendRemembers
  <2>3. values.affirmed = initial.affirmed
    BY <1>2 DEF MemoryInv, BaseInv
  <2>4. \A i \in DOMAIN posts' :
          /\ posts'[i].by = "save" => NameSet(posts'[i].claim) = NameSet(initial)
          /\ posts'[i].by # "save" => posts'[i].claim.affirmed = initial.affirmed
    BY <1>1, <1>2, <1>4, <1>5, <2>3 DEF MemoryInv, SentInv, Grown, Kept
  <2>5. SentInv'
    BY <1>1, <1>2, <2>2, <2>4 DEF SentInv
  <2>6. BaseInv'
    BY <1>1, <1>4, <2>3 DEF BaseInv
  <2> QED
    BY <2>5, <2>6
<1>8. SentInv' /\ BaseInv'
  BY <1>7 DEF SentInv, BaseInv
<1>9. DraftInv'
  BY <1>1, Pages DEF DraftInv
<1> QED
  BY <1>6, <1>8, <1>9 DEF MemoryInv

LEMMA ApplyRemembers ==
  ASSUME IInv, MemoryInv, NEW i \in DOMAIN posts, Apply(i)
  PROVE  MemoryInv'
<1> DEFINE c == posts[i].claim
           d == Json(c)
<1>1. draft' = d /\ UNCHANGED <<route, values, initial, entered, sent, excuses>>
  BY DEF Apply
<1>2. /\ DOMAIN posts' = DOMAIN posts
      /\ \A j \in DOMAIN posts : /\ posts'[j].claim = posts[j].claim /\ posts'[j].by = posts[j].by
                                 /\ posts'[j].here = posts[j].here
                                 /\ posts'[j].removed = posts[j].removed
  BY AppliedFacts
<1>3. Alike(d, c)
  <2>1. c \in FormClaim
    BY Posts DEF IInv
  <2> HIDE DEF c
  <2> QED
    BY <2>1, JsonWhole DEF Alike
<1> HIDE DEF d
<1>4. NamesInv'
  BY <1>1, <1>2 DEF MemoryInv, NamesInv, Awaited, OnForm
<1>5. excuses = {} => Alike(draft', sent)
  BY <1>1, <1>3 DEF MemoryInv, SentInv, Alike
<1>6. SentInv' /\ BaseInv'
  BY <1>1, <1>2, <1>5 DEF MemoryInv, SentInv, BaseInv, OnForm
<1>7. DraftInv'
  BY <1>1 DEF MemoryInv, DraftInv
<1> QED
  BY <1>4, <1>6, <1>7 DEF MemoryInv

\* Beside a removal, or the post of "save and exit", there are saves only.
LEMMA OnlySaves ==
  ASSUME IInv, MemoryInv, excuses = {}, NEW i \in DOMAIN posts, posts[i].by # "save",
         NEW l \in DOMAIN posts \ {i}
  PROVE  posts[l].by = "save"
<1>1. /\ posts[i].by \in {"exit", "removal"} /\ posts[l].by \in {"save", "exit", "removal"}
      /\ Lossless /\ posts[i].here /\ posts[l].here
      /\ \A j, k \in DOMAIN posts : posts[j].by = "exit" /\ posts[k].by = "exit" => j = k
  BY Posts DEF IInv, MemoryInv, SentInv, Lossless
<1>2. \A j \in DOMAIN posts : Awaited(j) =>
        /\ \A k \in DOMAIN posts : Awaited(k) => j = k
        /\ \A k \in DOMAIN posts : posts[k].here => posts[k].by # "exit"
  BY <1>1 DEF IInv, RemovalInv
<1>3. posts[l].by # "removal"
  BY <1>1, <1>2 DEF Awaited
<1>4. posts[l].by # "exit"
  BY <1>1, <1>2 DEF Awaited
<1> QED
  BY <1>1, <1>3, <1>4

\* What is left when one post goes.
LEMMA RemovedPost ==
  ASSUME IInv, NEW i \in DOMAIN posts, posts' = RemoveAt(posts, i)
  PROVE  /\ \A j \in DOMAIN posts' : \E l \in DOMAIN posts \ {i} : posts'[j] = posts[l]
         /\ \A l \in DOMAIN posts \ {i} : \E j \in DOMAIN posts' : posts'[j] = posts[l]
         /\ \A j, k \in DOMAIN posts' : \E l, m \in DOMAIN posts \ {i} :
              posts'[j] = posts[l] /\ posts'[k] = posts[m] /\ (l = m => j = k)
         /\ posts # <<>>
<1>1. AllBut(posts', posts, i) /\ posts # <<>>
  BY StillAwaited, Posts DEF IInv
<1> QED
  BY <1>1 DEF AllBut

\* A save was answered, or failed, and she stays where she is.
LEMMA SaveGone ==
  ASSUME IInv, MemoryInv, NEW i \in DOMAIN posts, posts[i].by = "save",
         posts' = RemoveAt(posts, i),
         UNCHANGED <<route, values, initial, draft, entered, sent>>, excuses \subseteq excuses'
  PROVE  MemoryInv'
<1>1. /\ \A j \in DOMAIN posts' : \E l \in DOMAIN posts \ {i} : posts'[j] = posts[l]
      /\ \A l \in DOMAIN posts \ {i} : \E j \in DOMAIN posts' : posts'[j] = posts[l]
      /\ \A j, k \in DOMAIN posts' : \E l, m \in DOMAIN posts \ {i} :
              posts'[j] = posts[l] /\ posts'[k] = posts[m] /\ (l = m => j = k)
      /\ posts # <<>>
  BY RemovedPost
<1>2. NamesInv'
  <2>1. (excuses' \subseteq {"overlap", "lost"} => excuses \subseteq {"overlap", "lost"}) /\ (OnForm' <=> OnForm)
    BY DEF OnForm
  <2>2. ASSUME excuses \subseteq {"overlap", "lost"}, NEW j \in DOMAIN posts', Awaited(j)'
        PROVE  NameSet(posts'[j].claim) = entered \ posts'[j].removed
    <3>1. PICK l \in DOMAIN posts : posts'[j] = posts[l]
      BY <1>1
    <3> QED
      BY <2>2, <3>1 DEF MemoryInv, NamesInv, Awaited
  <2> QED
    BY <2>1, <2>2 DEF MemoryInv, NamesInv
<1>3. ASSUME excuses = {}
      PROVE  /\ \A j \in DOMAIN posts' :
                  /\ posts'[j].here /\ Alike(posts'[j].claim, sent)
                  /\ posts'[j].applied => Alike(draft, sent)
                  /\ posts'[j].by = "save" =>
                       /\ NameSet(posts'[j].claim) = NameSet(initial)
                       /\ route.page = "review" => posts'[j].claim.affirmed = initial.affirmed
                  /\ posts'[j].by # "save" /\ route.page # "review" =>
                       posts'[j].claim.affirmed = initial.affirmed
             /\ \A j, k \in DOMAIN posts' : posts'[j].by = "exit" /\ posts'[k].by = "exit" => j = k
  <2>1. SentInv
    BY DEF MemoryInv
  <2>2. ASSUME NEW j \in DOMAIN posts'
        PROVE  /\ posts'[j].here /\ Alike(posts'[j].claim, sent)
               /\ posts'[j].applied => Alike(draft, sent)
               /\ posts'[j].by = "save" =>
                    /\ NameSet(posts'[j].claim) = NameSet(initial)
                    /\ route.page = "review" => posts'[j].claim.affirmed = initial.affirmed
               /\ posts'[j].by # "save" /\ route.page # "review" =>
                    posts'[j].claim.affirmed = initial.affirmed
    <3>1. PICK l \in DOMAIN posts : posts'[j] = posts[l]
      BY <1>1
    <3> QED
      BY <1>3, <2>1, <3>1 DEF SentInv
  <2>3. ASSUME NEW j \in DOMAIN posts', NEW k \in DOMAIN posts',
               posts'[j].by = "exit", posts'[k].by = "exit"
        PROVE  j = k
    <3>1. PICK l, m \in DOMAIN posts : posts'[j] = posts[l] /\ posts'[k] = posts[m] /\ (l = m => j = k)
      BY <1>1
    <3> QED
      BY <1>3, <2>1, <2>3, <3>1 DEF SentInv
  <2> QED
    BY <2>2, <2>3
<1>4. SentInv'
  BY <1>3 DEF SentInv, Alike
<1>5. BaseInv'
  <2>1. (\A j \in DOMAIN posts' : posts'[j].by = "save") => \A l \in DOMAIN posts : posts[l].by = "save"
    BY <1>1
  <2> QED
    BY <2>1 DEF MemoryInv, BaseInv, OnForm
<1>6. DraftInv'
  BY DEF MemoryInv, DraftInv, Alike
<1> QED
  BY <1>2, <1>4, <1>5, <1>6 DEF MemoryInv

LEMMA FailRemembers ==
  ASSUME IInv, MemoryInv, NEW i \in DOMAIN posts, Fail(i)
  PROVE  MemoryInv'
<1>1. /\ posts' = RemoveAt(posts, i)
      /\ sent' = IF posts[i].by \in {"removal", "exit"} /\ posts[i].here /\ ~ posts[i].applied
                 THEN initial ELSE sent
      /\ UNCHANGED <<route, values, initial, draft, entered>> /\ excuses \subseteq excuses'
      /\ posts[i].applied => excuses' # {}
  BY DEF Fail
<1>2. CASE posts[i].by = "save"
  <2>1. sent' = sent
    BY <1>1, <1>2
  <2> QED
    BY <1>1, <1>2, <2>1, SaveGone
<1>3. CASE posts[i].by # "save"
  <2>1. /\ \A j \in DOMAIN posts' : \E l \in DOMAIN posts \ {i} : posts'[j] = posts[l]
        /\ posts # <<>>
    BY <1>1, RemovedPost
  <2>2. NamesInv'
    <3>1. (excuses' \subseteq {"overlap", "lost"} => excuses \subseteq {"overlap", "lost"}) /\ (OnForm' <=> OnForm)
      BY <1>1 DEF OnForm
    <3>2. ASSUME excuses \subseteq {"overlap", "lost"}, NEW j \in DOMAIN posts', Awaited(j)'
          PROVE  NameSet(posts'[j].claim) = entered \ posts'[j].removed
      <4>1. PICK l \in DOMAIN posts : posts'[j] = posts[l]
        BY <2>1
      <4> QED
        BY <3>2, <4>1 DEF MemoryInv, NamesInv, Awaited
    <3> QED
      BY <1>1, <3>1, <3>2 DEF MemoryInv, NamesInv
  <2>3. ASSUME excuses' = {}
        PROVE  SentInv' /\ BaseInv'
    <3>0. excuses = {} /\ ~ posts[i].applied
      BY <1>1, <2>3
    <3>1. posts[i].here /\ posts[i].by \in {"removal", "exit"} /\ sent' = initial
      BY <1>1, <1>3, <3>0, Posts DEF IInv, MemoryInv, SentInv
    <3>2. /\ Alike(posts[i].claim, sent)
          /\ route.page # "review" => posts[i].claim.affirmed = initial.affirmed
      BY <1>3, <3>0 DEF MemoryInv, SentInv
    <3>3. ASSUME NEW j \in DOMAIN posts'
          PROVE  /\ posts'[j].here /\ posts'[j].by = "save" /\ Alike(posts'[j].claim, initial)
                 /\ posts'[j].applied => Alike(draft, initial)
      <4>1. PICK l \in DOMAIN posts \ {i} : posts'[j] = posts[l]
        BY <2>1
      <4>2. posts[l].by = "save"
        BY <1>3, <3>0, OnlySaves
      <4>3. /\ posts[l].here /\ Alike(posts[l].claim, sent)
            /\ posts[l].applied => Alike(draft, sent)
            /\ NameSet(posts[l].claim) = NameSet(initial)
            /\ route.page = "review" => posts[l].claim.affirmed = initial.affirmed
        BY <3>0, <4>2 DEF MemoryInv, SentInv
      <4>4. Alike(posts[l].claim, initial) /\ Alike(sent, initial)
        BY <3>2, <4>3 DEF Alike
      <4> QED
        BY <4>1, <4>2, <4>3, <4>4 DEF Alike
    <3>4. SentInv'
      BY <1>1, <3>1, <3>3 DEF SentInv, Alike
    <3>5. BaseInv'
      BY <1>1, <3>0, <3>1 DEF MemoryInv, BaseInv, OnForm
    <3> QED
      BY <3>4, <3>5
  <2>4. SentInv' /\ BaseInv'
    BY <1>1, <2>3 DEF SentInv, BaseInv
  <2>5. DraftInv'
    BY <1>1, <2>1 DEF IInv, HomeInv, DraftInv
  <2> QED
    BY <2>2, <2>4, <2>5 DEF MemoryInv
<1> QED
  BY <1>2, <1>3

LEMMA SaveAnsweredRemembers ==
  ASSUME IInv, MemoryInv, NEW i \in DOMAIN posts, SaveAnswered(i)
  PROVE  MemoryInv'
<1>1. CASE posts[i].claim.affirmed = "yes" /\ OnForm
  <2>1. /\ route' = Home /\ posts' = RemoveAt(Unmounted, i) /\ posts[i].applied
        /\ Len(posts) > 1 => "left" \in excuses'
        /\ NameSet(values) # NameSet(sent) => "thrown" \in excuses'
        /\ excuses \subseteq excuses'
        /\ UNCHANGED <<draft, sent, entered>>
    BY <1>1 DEF SaveAnswered, ThrownOut
  <2> DEFINE p == Unmounted
  <2>2. /\ p \in Seq(Request) /\ Len(p) = Len(posts) /\ i \in DOMAIN p /\ posts' = RemoveAt(p, i)
        /\ \A k \in DOMAIN p : ~ p[k].here
    BY <2>1, UnmountedFacts DEF IInv
  <2> HIDE DEF p
  <2>3. \A q : q = RemoveAt(p, i) => q \in Seq(Request) /\ Len(q) = Len(p) - 1 /\ AllBut(q, p, i)
    BY <2>2, RemoveAtFacts, Zenon
  <2>4. posts' \in Seq(Request) /\ Len(posts') = Len(posts) - 1 /\ AllBut(posts', p, i)
    BY <2>2, <2>3, Zenon
  <2>5. \A k \in DOMAIN posts' : ~ posts'[k].here
    <3> SUFFICES ASSUME NEW k \in DOMAIN posts'
                 PROVE  ~ posts'[k].here
      OBVIOUS
    <3>1. PICK l \in DOMAIN p : posts'[k] = p[l]
      BY <2>4 DEF AllBut
    <3> QED
      BY <2>2, <3>1
  <2>6. NamesInv'
    BY <2>1, <2>5, Pages DEF NamesInv, Awaited, OnForm
  <2>7. "left" \notin excuses' => DOMAIN posts' = {}
    BY <2>1, <2>4, Posts DEF IInv
  <2>8. SentInv' /\ BaseInv'
    BY <2>1, <2>7, Pages DEF SentInv, BaseInv, OnForm
  <2>9. ASSUME excuses' \subseteq {"lost"}
        PROVE  NameSet(sent) = entered
    <3>1. excuses \subseteq {"overlap", "lost"} /\ NameSet(values) = NameSet(sent)
      BY <2>1, <2>9
    <3> QED
      BY <1>1, <3>1 DEF MemoryInv, NamesInv
  <2>10. DraftInv'
    BY <2>1, <2>9 DEF DraftInv
  <2> QED
    BY <2>6, <2>8, <2>10 DEF MemoryInv
<1>2. CASE ~ (posts[i].claim.affirmed = "yes" /\ OnForm)
  <2>1. /\ posts' = RemoveAt(posts, i) /\ posts[i].by = "save"
        /\ UNCHANGED <<route, values, initial, draft, entered, sent, excuses>>
    BY <1>2 DEF SaveAnswered
  <2> QED
    BY <2>1, SaveGone
<1> QED
  BY <1>1, <1>2

LEMMA RemovalAnsweredRemembers ==
  ASSUME IInv, MemoryInv, NEW i \in DOMAIN posts, RemovalAnswered(i)
  PROVE  MemoryInv'
<1> DEFINE c == posts[i].claim
<1>1. /\ posts' = RemoveAt(posts, i) /\ posts[i].by = "removal"
      /\ IF posts[i].here
         THEN /\ values' = Settled(c, route) /\ initial' = c
              /\ entered' = entered \ posts[i].removed
         ELSE UNCHANGED <<values, initial, entered>>
      /\ UNCHANGED <<route, draft, sent, excuses>>
  BY DEF RemovalAnswered, resetForm
<1>2. /\ \A j \in DOMAIN posts' : \E l \in DOMAIN posts \ {i} : posts'[j] = posts[l]
      /\ posts # <<>>
  BY <1>1, RemovedPost
<1>3. (excuses' \subseteq {"overlap", "lost"} <=> excuses \subseteq {"overlap", "lost"}) /\ (OnForm' <=> OnForm)
  BY <1>1 DEF OnForm
<1>4. ~ (excuses \subseteq {"lost"} /\ route = Home)
  BY <1>2 DEF IInv, HomeInv
<1>5. excuses = {} => posts[i].here
  BY DEF MemoryInv, SentInv
<1>6. CASE ~ posts[i].here
  <2>1. ASSUME excuses \subseteq {"overlap", "lost"}, NEW j \in DOMAIN posts', Awaited(j)'
        PROVE  NameSet(posts'[j].claim) = entered \ posts'[j].removed
    <3>1. PICK l \in DOMAIN posts : posts'[j] = posts[l]
      BY <1>2
    <3> QED
      BY <2>1, <3>1 DEF MemoryInv, NamesInv, Awaited
  <2>2. NamesInv'
    BY <1>1, <1>3, <1>6, <2>1 DEF MemoryInv, NamesInv
  <2>3. SentInv' /\ BaseInv' /\ DraftInv'
    BY <1>1, <1>4, <1>5, <1>6 DEF SentInv, BaseInv, DraftInv
  <2> QED
    BY <2>2, <2>3 DEF MemoryInv
<1>7. CASE posts[i].here
  <2>1. Awaited(i)
    BY <1>1, <1>7 DEF Awaited
  <2>2. Lossless /\ excuses \subseteq {"overlap", "lost"} => ~ Removing'
    BY <1>1, <2>1, OthersAwaited
  <2>3. excuses \subseteq {"overlap", "lost"} =>
          /\ Lossless /\ route = EmployerReview /\ sent = c
          /\ NameSet(c) = entered \ posts[i].removed
    BY <2>1 DEF IInv, RemovalInv, MemoryInv, NamesInv, Lossless
  <2>4. c \in Claim
    BY Posts DEF IInv
  <2>5. values' = Settled(c, route) /\ initial' = c /\ entered' = entered \ posts[i].removed
    BY <1>1, <1>7
  <2>6. /\ excuses = {} => Alike(c, sent)
        /\ \A j \in DOMAIN posts : excuses = {} => /\ posts[j].here /\ Alike(posts[j].claim, sent)
                                                   /\ posts[j].applied => Alike(draft, sent)
    BY DEF MemoryInv, SentInv
  <2> HIDE DEF c
  <2>7. NameSet(values') = NameSet(c) /\ values'.affirmed = c.affirmed
    <3>1. route \in Routes
      BY DEF IInv, TypeInv
    <3> QED
      BY <2>4, <2>5, <3>1, SettledFacts
  <2>8. NamesInv'
    BY <1>3, <2>2, <2>3, <2>5, <2>7 DEF NamesInv, Removing, Awaited
  <2>9. ASSUME excuses = {}
        PROVE  SentInv' /\ BaseInv'
    <3>1. route = EmployerReview /\ sent = c /\ route.page # "review"
      BY <2>3, <2>9, Pages
    <3>2. ASSUME NEW j \in DOMAIN posts'
          PROVE  /\ posts'[j].here /\ posts'[j].by = "save" /\ Alike(posts'[j].claim, sent)
                 /\ posts'[j].applied => Alike(draft, sent)
      <4>1. PICK l \in DOMAIN posts \ {i} : posts'[j] = posts[l]
        BY <1>2
      <4>2. posts[l].by = "save"
        BY <1>1, <2>9, OnlySaves
      <4> QED
        BY <2>6, <2>9, <4>1, <4>2
    <3>3. SentInv'
      BY <1>1, <2>5, <3>1, <3>2 DEF SentInv, Alike
    <3>4. BaseInv'
      BY <1>1, <2>5, <2>7, <3>1 DEF BaseInv
    <3> QED
      BY <3>3, <3>4
  <2>10. SentInv' /\ BaseInv'
    BY <1>1, <2>9 DEF SentInv, BaseInv
  <2>11. DraftInv'
    BY <1>1, <1>4 DEF DraftInv
  <2> QED
    BY <2>8, <2>10, <2>11 DEF MemoryInv
<1> QED
  BY <1>6, <1>7

LEMMA ExitAnsweredRemembers ==
  ASSUME IInv, MemoryInv, NEW i \in DOMAIN posts, ExitAnswered(i)
  PROVE  MemoryInv'
<1>1. Leaves /\ posts # <<>>
  BY Posts DEF ExitAnswered, IInv
<1>2. "left" \in excuses'
  BY <1>1, LeavesFacts
<1> QED
  BY <1>2 DEF MemoryInv, NamesInv, SentInv, BaseInv, DraftInv

LEMMA FetchAnsweredRemembers ==
  ASSUME MemoryInv, FetchAnswered
  PROVE  MemoryInv'
<1>1. UNCHANGED <<route, values, initial, posts, draft, entered, sent, excuses>>
  BY DEF FetchAnswered
<1> QED
  BY <1>1 DEF MemoryInv, NamesInv, SentInv, BaseInv, DraftInv, Awaited, Alike, OnForm

LEMMA GoHomeRemembers ==
  ASSUME IInv, MemoryInv, GoHome
  PROVE  MemoryInv'
<1>1. /\ route' = Home /\ posts' = Unmounted /\ Leaves /\ UNCHANGED <<draft, sent>>
      /\ entered' = NameSet(sent)
  BY DEF GoHome, Leaves
<1>2. /\ \A i \in DOMAIN posts' : ~ posts'[i].here
      /\ DOMAIN posts' = DOMAIN posts
  BY <1>1, UnmountedFacts DEF IInv
<1>3. "left" \notin excuses' => DOMAIN posts' = {} /\ draft = Json(sent)
  <2>1. posts = <<>> => DOMAIN posts = {}
    BY EmptySeq
  <2> QED
    BY <1>1, <1>2, <2>1, LeavesFacts
<1>4. Alike(Json(sent), sent)
  BY StoredFacts, JsonFacts DEF Alike, NameSet, IInv
<1>5. NamesInv'
  BY <1>1, <1>2, Pages DEF NamesInv, Awaited, OnForm
<1>6. SentInv' /\ BaseInv'
  BY <1>1, <1>3, Pages DEF SentInv, BaseInv, OnForm
<1>7. DraftInv'
  BY <1>1 DEF DraftInv
<1> QED
  BY <1>5, <1>6, <1>7 DEF MemoryInv

\* The form comes up with what she last saved, or something was lost.
LEMMA MountRemembers ==
  ASSUME IInv, NEW c \in FormClaim, Whole(c), NEW r \in Routes, r.segment < MaxEmployers, Mount(c, r),
         r # Home, sent' = sent, entered' = NameSet(sent), "left" \notin excuses' => posts' = <<>> /\ c = Json(sent)
  PROVE  MemoryInv'
<1>1. /\ route' = r /\ initial' = c /\ NameSet(values') = NameSet(c) /\ values'.affirmed = c.affirmed
  BY MountFacts
<1>2. Alike(Json(sent), sent)
  BY StoredFacts, JsonFacts DEF Alike, NameSet, IInv
<1>3. "left" \notin excuses' => /\ DOMAIN posts' = {} /\ NameSet(c) = NameSet(sent)
  BY <1>2, EmptySeq DEF Alike
<1>4. NamesInv'
  BY <1>1, <1>3 DEF NamesInv
<1>5. SentInv' /\ BaseInv' /\ DraftInv'
  BY <1>1, <1>3 DEF SentInv, BaseInv, DraftInv
<1> QED
  BY <1>4, <1>5 DEF MemoryInv

LEMMA ContinueRemembers ==
  ASSUME IInv, MemoryInv, Continue
  PROVE  MemoryInv'
<1> DEFINE c == cache.claim
           r == ContinueAt(c)
<1>1. c \in FormClaim /\ Whole(c)
  BY StoredFacts DEF IInv
<1>2. /\ Mount(c, r) /\ Leaves /\ UNCHANGED <<posts, draft, sent>> /\ r.segment < MaxEmployers
      /\ entered' = NameSet(sent) /\ route = Home /\ Lossless
  BY FreeFacts DEF Continue, Leaves
<1>3. "left" \notin excuses' => posts' = <<>> /\ c = Json(sent)
  <2>1. "left" \notin excuses' => posts = <<>> /\ draft = Json(sent) /\ get.pc = "none"
    BY <1>2, LeavesFacts
  <2>2. get.pc = "none" => c = draft
    BY <1>2 DEF IInv, HomeInv, Lossless
  <2> QED
    BY <1>2, <2>1, <2>2
<1> HIDE DEF c
<1>4. r \in Routes /\ r # Home
  BY <1>1, ContinueFacts, Pages DEF FormPages
<1> HIDE DEF r
<1> QED
  BY <1>1, <1>2, <1>3, <1>4, MountRemembers

LEMMA LoadRemembers ==
  ASSUME IInv, MemoryInv, NEW r \in Routes, Load(r)
  PROVE  MemoryInv'
<1>1. /\ IF r = Home THEN route' = Home ELSE Mount(draft', r)
      /\ PageGone /\ Leaves /\ sent' = sent /\ entered' = NameSet(sent)
      /\ r \in {route, Home} \cup Linked
  BY DEF Load, Leaves
<1>2. /\ posts' = <<>> /\ DOMAIN posts' = {} /\ draft' \in FormClaim /\ Whole(draft')
      /\ posts = <<>> => draft' = draft
  BY <1>1, GoneFacts
<1>3. "left" \notin excuses' => draft' = Json(sent)
  BY <1>1, <1>2, LeavesFacts
<1>4. CASE r = Home
  <2>1. Alike(Json(sent), sent)
    BY StoredFacts, JsonFacts DEF Alike, NameSet, IInv
  <2>2. route' = Home
    BY <1>1, <1>4
  <2> QED
    BY <1>1, <1>2, <1>3, <2>1, <2>2, Pages DEF MemoryInv, NamesInv, SentInv, BaseInv, DraftInv, OnForm, Alike
<1>5. CASE r # Home
  <2> DEFINE c == draft'
  <2>1. c \in FormClaim /\ Whole(c) /\ Mount(c, r) /\ ("left" \notin excuses' => posts' = <<>> /\ c = Json(sent))
    BY <1>1, <1>2, <1>3, <1>5
  <2>2. r.segment < MaxEmployers
    BY <1>1, LinkedFacts, Pages, Constants DEF IInv, TypeInv
  <2> HIDE DEF c
  <2> QED
    BY <1>1, <1>5, <2>1, <2>2, MountRemembers
<1> QED
  BY <1>4, <1>5

LEMMA SubmitRemembers ==
  ASSUME MemoryInv, Submit
  PROVE  MemoryInv'
<1>1. route' = Gone("success") /\ posts' = <<>> /\ DOMAIN posts' = {}
  BY EmptySeq DEF Submit
<1> QED
  BY <1>1, Pages DEF MemoryInv, NamesInv, SentInv, BaseInv, DraftInv, OnForm

LEMMA StepRemembers ==
  ASSUME IInv, MemoryInv, [Next]_vars
  PROVE  MemoryInv'
<1>1. CASE Next
  <2>1. CASE \E name \in Names : EnterName(name)
    BY <2>1, EnterNameRemembers
  <2>2. CASE (\E x \in {"yes", "no"} : AnswerMore(x)) \/ (\E x \in Affirmations : Affirm(x))
    BY <2>2, AnswersRemember
  <2>3. CASE GoNext
    BY <2>3, GoNextRemembers
  <2>4. CASE GoBack
    BY <2>4, GoBackRemembers
  <2>5. CASE SaveAndExit
    BY <2>5, SaveAndExitRemembers
  <2>6. CASE \E s \in 0 .. MaxEmployers : GoToEmployer(s)
    BY <2>6, GoToEmployerRemembers
  <2>7. CASE RemoveEmployer \/ RemoveEmpty
    BY <2>7, Removals, RemoveRemembers
  <2>8. CASE GoHome
    BY <2>8, GoHomeRemembers
  <2>9. CASE Continue
    BY <2>9, ContinueRemembers
  <2>10. CASE \E r \in Routes : Load(r)
    BY <2>10, LoadRemembers
  <2>11. CASE Submit
    BY <2>11, SubmitRemembers
  <2>12. CASE \E i \in DOMAIN posts : Apply(i)
    BY <2>12, ApplyRemembers
  <2>13. CASE \E i \in DOMAIN posts : Fail(i)
    BY <2>13, FailRemembers
  <2>14. CASE \E i \in DOMAIN posts : SaveAnswered(i)
    BY <2>14, SaveAnsweredRemembers
  <2>15. CASE \E i \in DOMAIN posts : RemovalAnswered(i)
    BY <2>15, RemovalAnsweredRemembers
  <2>16. CASE \E i \in DOMAIN posts : ExitAnswered(i)
    BY <2>16, ExitAnsweredRemembers
  <2>17. CASE FetchAnswered
    BY <2>17, FetchAnsweredRemembers
  <2> QED
    BY <1>1, <2>1, <2>2, <2>3, <2>4, <2>5, <2>6, <2>7, <2>8, <2>9, <2>10, <2>11, <2>12,
       <2>13, <2>14, <2>15, <2>16, <2>17 DEF Next
<1>2. CASE UNCHANGED vars
  <2>1. UNCHANGED <<route, values, initial, posts, draft, entered, sent, excuses>>
    BY <1>2 DEF vars
  <2> QED
    BY <2>1 DEF MemoryInv, NamesInv, SentInv, BaseInv, DraftInv, Awaited, Alike, OnForm
<1> QED
  BY <1>1, <1>2

LEMMA InitiallyRemembered ==
  ASSUME Init
  PROVE  MemoryInv
<1>1. /\ route = Home /\ DOMAIN posts = {} /\ draft = NoClaim /\ sent = NoClaim /\ entered = {}
  BY EmptySeq DEF Init
<1> QED
  BY <1>1, Pages, NoClaimFacts DEF MemoryInv, NamesInv, SentInv, BaseInv, DraftInv, Alike, OnForm

LEMMA Memory == Spec => []MemoryInv
<1>1. Init => MemoryInv
  BY InitiallyRemembered
<1>2. IInv /\ MemoryInv /\ [Next]_vars => MemoryInv'
  BY StepRemembers
<1> QED
  BY <1>1, <1>2, Invariant, PTL DEF Spec

-----------------------------------------------------------------------------
(* What is saved *)

\* Unless she left a page with something unsaved or two posts differ, every post
\* carries what was last sent, and one that was stored has made it the draft; on
\* Home the draft is that.
SavedInv ==
  excuses \cap {"left", "overlap"} = {} =>
    /\ \A i \in DOMAIN posts : posts[i].claim = sent /\ (posts[i].applied => draft = Json(sent))
    /\ route = Home => draft = Json(sent)

LEMMA JsonAgain ==
  ASSUME NEW c \in Claim, \A i \in DOMAIN c.more : c.more[i] # "unset"
  PROVE  Json(c) = c
<1>1. Json(c) = [c EXCEPT !.more = [i \in DOMAIN c.more |-> c.more[i]]]
  BY DEF Json
<1>2. [i \in DOMAIN c.more |-> c.more[i]] = c.more
  BY ClaimParts
<1> QED
  BY <1>1, <1>2 DEF Claim

\* Nothing that is saved or on its way changes, and she is not on Home.
LEMMA StillSaved ==
  ASSUME SavedInv, UNCHANGED <<posts, draft, sent>>, excuses \subseteq excuses', route' # Home
  PROVE  SavedInv'
BY DEF SavedInv, Json

LEMMA FormStepsSave ==
  ASSUME IInv, SavedInv,
         \/ \E name \in Names : EnterName(name)
         \/ \E x \in {"yes", "no"} : AnswerMore(x)
         \/ \E x \in Affirmations : Affirm(x)
         \/ \E s \in 0 .. MaxEmployers : GoToEmployer(s)
  PROVE  SavedInv'
<1>1. UNCHANGED <<posts, draft, sent>> /\ excuses \subseteq excuses'
  BY DEF EnterName, AnswerMore, Affirm, GoToEmployer, MindsRemoval, Excused
<1>2. route' # Home
  <2>1. CASE \E s \in 0 .. MaxEmployers : GoToEmployer(s)
    BY <2>1, Pages DEF GoToEmployer, Show, Employer, Home
  <2>2. CASE route' = route /\ route.page \in {"employer", "review"}
    BY <2>2, Pages
  <2> QED
    BY <2>1, <2>2 DEF EnterName, AnswerMore, Affirm
<1> QED
  BY <1>1, <1>2, StillSaved

\* She sends x.
LEMMA SendSaves ==
  ASSUME SavedInv, Free, NEW x, x.claim = sent', ~ x.applied, Grown(x), draft' = draft,
         excuses \subseteq excuses', route' # Home,
         "overlap" \notin excuses' => \A i \in DOMAIN posts : posts[i].claim = sent'
  PROVE  SavedInv'
<1> SUFFICES ASSUME excuses' \cap {"left", "overlap"} = {}, NEW j \in DOMAIN posts'
             PROVE  posts'[j].claim = sent' /\ (posts'[j].applied => draft = Json(sent'))
  BY DEF SavedInv, Json
<1>1. \A i \in DOMAIN posts : /\ posts[i].claim = sent /\ posts[i].claim = sent'
                              /\ posts[i].applied => draft = Json(sent)
  BY DEF SavedInv
<1> QED
  BY <1>1 DEF Grown, Kept

LEMMA SendsSave ==
  ASSUME IInv, SavedInv, GoNext \/ GoBack \/ SaveAndExit
  PROVE  SavedInv'
<1>1. TypeInv /\ OnForm /\ Free /\ values \in FormClaim /\ values \in Claim
  BY StoredFacts DEF GoNext, GoBack, SaveAndExit, IInv
<1>2. \E f \in BOOLEAN, by \in {"save", "exit"} : posts' = Append(Unfollowed, Post(values, by, f))
  BY DEF GoNext, GoBack, SaveAndExit, Sent
<1>3. PICK f \in BOOLEAN, by \in {"save", "exit"} : posts' = Append(Unfollowed, Post(values, by, f))
  BY <1>2
<1> DEFINE x == Post(values, by, f)
<1>4. x \in Request /\ x.claim = values /\ ~ x.applied /\ posts' = Append(Unfollowed, x)
  BY <1>1, <1>3, PostFacts
<1> HIDE DEF x
<1>5. Grown(x)
  BY <1>1, <1>4, GrownFacts
<1>6. /\ draft' = draft /\ sent' = values /\ excuses \subseteq excuses'
      /\ "overlap" \notin excuses' => \A i \in DOMAIN posts : posts[i].claim = values
  BY DEF GoNext, GoBack, SaveAndExit, Sent, Overlaps
<1>7. route' # Home
  <2>1. CASE GoNext
    <3>1. route' = NextPage /\ NextPage.segment < MaxEmployers
      BY <2>1 DEF GoNext, Show
    <3> QED
      BY <1>1, <3>1, NextPageFacts, Pages DEF FormPages
  <2>2. CASE GoBack
    <3>1. route' = PreviousPage /\ route # Employer(0)
      BY <2>2 DEF GoBack, Show
    <3> QED
      BY <1>1, <3>1, PreviousPageFacts, Pages DEF FormPages
  <2>3. CASE SaveAndExit
    BY <1>1, <2>3, Pages DEF SaveAndExit, OnForm
  <2> QED
    BY <2>1, <2>2, <2>3
<1> QED
  BY <1>1, <1>4, <1>5, <1>6, <1>7, SendSaves

LEMMA RemovalsSave ==
  ASSUME IInv, SavedInv, NEW I \in SUBSET DOMAIN values.employers, removeEmployer(I)
  PROVE  SavedInv'
<1> DEFINE c == Removed(I)
           gone == NamesOf(I)
           x == Removal(c, gone)
<1>1. /\ TypeInv /\ Free /\ route = EmployerReview /\ sent' = c /\ c \in FormClaim
      /\ posts' = Append(posts, x) /\ UNCHANGED <<route, draft>>
  BY RemovalStep, Zenon DEF IInv
<1>2. /\ excuses \subseteq excuses'
      /\ "overlap" \notin excuses' => \A i \in DOMAIN posts : posts[i].claim = c
  BY DEF removeEmployer, Sent, Overlaps
<1>3. x \in Request /\ x.claim = c /\ ~ x.applied
  <2>1. gone \in SUBSET Names
    BY DEF NamesOf
  <2> HIDE DEF c, gone
  <2> QED
    BY <1>1, <2>1, RemovalFacts
<1> HIDE DEF x, c, gone
<1>4. Grown(x)
  BY <1>1, <1>3, GrownFacts
<1> QED
  BY <1>1, <1>2, <1>3, <1>4, SendSaves, Pages

LEMMA ApplySaves ==
  ASSUME IInv, SavedInv, NEW i \in DOMAIN posts, Apply(i)
  PROVE  SavedInv'
<1>1. draft' = Json(posts[i].claim) /\ UNCHANGED <<route, sent, excuses>>
  BY DEF Apply
<1>2. DOMAIN posts' = DOMAIN posts /\ \A j \in DOMAIN posts : posts'[j].claim = posts[j].claim
  BY AppliedFacts
<1>3. ~ (route = Home /\ "left" \notin excuses)
  BY Posts DEF IInv, HomeInv
<1> SUFFICES ASSUME excuses \cap {"left", "overlap"} = {}
             PROVE  SavedInv'
  BY <1>1 DEF SavedInv
<1>4. \A j \in DOMAIN posts : posts[j].claim = sent
  BY DEF SavedInv
<1>5. draft' = Json(sent')
  BY <1>1, <1>4
<1> QED
  BY <1>1, <1>2, <1>3, <1>4, <1>5 DEF SavedInv, Json

\* A post is taken off: those that are left carry what counts as sent.
LEMMA OthersSaved ==
  ASSUME IInv, SavedInv, NEW i \in DOMAIN posts, posts' = RemoveAt(posts, i),
         UNCHANGED <<route, draft>>, excuses \subseteq excuses',
         \/ sent' = sent
         \/ "overlap" \notin excuses' => \A j \in DOMAIN posts' : posts'[j].claim = sent'
  PROVE  SavedInv'
<1>1. /\ \A j \in DOMAIN posts' : \E l \in DOMAIN posts \ {i} : posts'[j] = posts[l]
      /\ posts # <<>>
  BY RemovedPost
<1>2. ~ (route = Home /\ "left" \notin excuses)
  BY <1>1 DEF IInv, HomeInv
<1>3. ASSUME excuses' \cap {"left", "overlap"} = {}, NEW j \in DOMAIN posts'
      PROVE  posts'[j].claim = sent' /\ (posts'[j].applied => draft = Json(sent'))
  <2>1. PICK l \in DOMAIN posts : posts'[j] = posts[l]
    BY <1>1
  <2>2. posts[l].claim = sent /\ (posts[l].applied => draft = Json(sent))
    BY <1>3 DEF SavedInv
  <2>3. sent' = sent
    BY <1>3, <2>1, <2>2
  <2> QED
    BY <2>1, <2>2, <2>3
<1> QED
  BY <1>2, <1>3 DEF SavedInv, Json

LEMMA AnswersSave ==
  ASSUME IInv, IInv', SavedInv, NEW i \in DOMAIN posts,
         Fail(i) \/ SaveAnswered(i) \/ RemovalAnswered(i)
  PROVE  SavedInv'
<1>1. CASE Fail(i)
  BY <1>1, OthersSaved DEF Fail, Overlaps
<1>2. CASE RemovalAnswered(i)
  BY <1>2, OthersSaved DEF RemovalAnswered
<1>3. CASE SaveAnswered(i) /\ ~ (posts[i].claim.affirmed = "yes" /\ OnForm)
  BY <1>3, OthersSaved DEF SaveAnswered
<1>4. CASE SaveAnswered(i) /\ posts[i].claim.affirmed = "yes" /\ OnForm
  <2>1. /\ route' = Home /\ posts[i].applied /\ UNCHANGED <<draft, sent>> /\ excuses \subseteq excuses'
    BY <1>4 DEF SaveAnswered, ThrownOut
  <2>2. "left" \notin excuses' => posts' = <<>>
    BY <2>1 DEF IInv, HomeInv
  <2>3. ASSUME excuses' \cap {"left", "overlap"} = {}
        PROVE  draft = Json(sent)
    BY <2>1, <2>3 DEF SavedInv
  <2>4. "left" \notin excuses' => DOMAIN posts' = {}
    BY <2>2, EmptySeq
  <2> QED
    BY <2>1, <2>3, <2>4 DEF SavedInv, Json
<1> QED
  BY <1>1, <1>2, <1>3, <1>4

LEMMA LeavingSaves ==
  ASSUME IInv, SavedInv, GoHome \/ Continue \/ (\E r \in Routes : Load(r)) \/ Submit
                         \/ \E i \in DOMAIN posts : ExitAnswered(i)
  PROVE  SavedInv'
<1>1. CASE Submit
  <2>1. posts' = <<>> /\ route' # Home /\ DOMAIN posts' = {}
    BY <1>1, EmptySeq DEF Submit, Gone, Home
  <2> QED
    BY <2>1 DEF SavedInv
<1>2. CASE ~ Submit
  <2>1. Leaves /\ sent' = sent
    BY <1>2 DEF GoHome, Continue, Load, ExitAnswered
  <2>2. "left" \notin excuses' => posts = <<>> /\ DOMAIN posts = {} /\ draft = Json(sent)
    BY <2>1, LeavesFacts, EmptySeq
  <2>3. DOMAIN posts' = {} \/ (DOMAIN posts' = DOMAIN posts /\ draft' = draft)
    <3>1. CASE GoHome
      BY <3>1, UnmountedFacts DEF GoHome, IInv
    <3>2. CASE Continue
      BY <3>2 DEF Continue
    <3>3. CASE ~ GoHome /\ ~ Continue
      BY <1>2, <3>3, GoneFacts DEF Load, ExitAnswered
    <3> QED
      BY <3>1, <3>2, <3>3
  <2>4. posts = <<>> => draft' = draft
    <3>1. CASE GoHome \/ Continue
      BY <3>1 DEF GoHome, Continue
    <3>2. CASE ~ (GoHome \/ Continue)
      BY <1>2, <3>2, GoneFacts DEF Load, ExitAnswered
    <3> QED
      BY <3>1, <3>2
  <2> QED
    BY <2>1, <2>2, <2>3, <2>4 DEF SavedInv, Json
<1> QED
  BY <1>1, <1>2

LEMMA StepSaves ==
  ASSUME IInv, SavedInv, [Next]_vars
  PROVE  SavedInv'
<1>1. IInv'
  BY StepKeeps
<1>2. CASE GoNext \/ GoBack \/ SaveAndExit
  BY <1>2, SendsSave
<1>3. CASE RemoveEmployer \/ RemoveEmpty
  BY <1>3, Removals, RemovalsSave
<1>4. CASE GoHome \/ Continue \/ (\E r \in Routes : Load(r)) \/ Submit
           \/ \E i \in DOMAIN posts : ExitAnswered(i)
  BY <1>4, LeavingSaves
<1>5. CASE \E i \in DOMAIN posts : Apply(i)
  BY <1>5, ApplySaves
<1>6. CASE \E i \in DOMAIN posts : Fail(i) \/ SaveAnswered(i) \/ RemovalAnswered(i)
  BY <1>1, <1>6, AnswersSave
<1>7. CASE FetchAnswered \/ UNCHANGED vars
  <2>1. UNCHANGED <<route, posts, draft, sent, excuses>>
    BY <1>7 DEF FetchAnswered, vars
  <2> QED
    BY <2>1 DEF SavedInv, Json
<1>8. CASE \/ \E name \in Names : EnterName(name)
           \/ \E x \in {"yes", "no"} : AnswerMore(x)
           \/ \E x \in Affirmations : Affirm(x)
           \/ \E s \in 0 .. MaxEmployers : GoToEmployer(s)
  BY <1>8, FormStepsSave
<1> QED
  BY <1>2, <1>3, <1>4, <1>5, <1>6, <1>7, <1>8 DEF Next

LEMMA Saved == Spec => []SavedInv
<1>1. Init => SavedInv
  <2> SUFFICES ASSUME Init
               PROVE  SavedInv
    OBVIOUS
  <2>1. /\ DOMAIN posts = {} /\ draft = NoClaim /\ sent = NoClaim
    BY EmptySeq DEF Init
  <2>2. NoClaim \in Claim /\ DOMAIN NoClaim.more = {}
    BY NoClaimFacts, EmptySeq DEF FormClaim
  <2>3. Json(NoClaim) = NoClaim
    BY <2>2, JsonAgain
  <2> QED
    BY <2>1, <2>3 DEF SavedInv
<1>2. IInv /\ SavedInv /\ [Next]_vars => SavedInv'
  BY StepSaves
<1> QED
  BY <1>1, <1>2, Invariant, PTL DEF Spec

\* Only "submit" files.
LEMMA OnlySubmitFiles ==
  ASSUME [Next]_vars, filed' # filed
  PROVE  Submit
BY DEF Next, vars, EnterName, AnswerMore, Affirm, GoNext, GoBack, SaveAndExit, GoToEmployer,
   RemoveEmployer, RemoveEmpty, removeEmployer, GoHome, Continue, Load, Apply, Fail,
   SaveAnswered, RemovalAnswered, ExitAnswered, FetchAnswered

-----------------------------------------------------------------------------
(* The theorems *)

\* The form, and Home once it is refreshed, show the employers she entered and
\* none she removed, however the answers come, but for these losses: Back with
\* an unsaved employer; going on while a removal is in flight, or the lost
\* answer of one; leaving while a save or a refresh is in flight or a save is
\* lost; typing on an affirmed claim until its save sends her to Home; and, for
\* Home, two posts in flight with different claims.
THEOREM EmployersAreRemembered == Spec => []NothingIsForgotten
<1>1. IInv /\ MemoryInv /\ SavedInv => NothingIsForgotten
  <2> SUFFICES ASSUME IInv, MemoryInv, SavedInv
               PROVE  NothingIsForgotten
    OBVIOUS
  <2>1. OnForm /\ excuses \subseteq {"overlap", "lost"} => NameSet(values) = entered
    BY DEF MemoryInv, NamesInv
  <2>2. ASSUME route = Home, get.pc = "none", excuses \subseteq {"lost"}
        PROVE  NameSet(cache.claim) = entered
    <3>1. cache.claim = Json(sent) /\ NameSet(sent) = entered
      BY <2>2 DEF IInv, HomeInv, SavedInv, MemoryInv, DraftInv
    <3>2. Json(sent).employers = sent.employers
      BY StoredFacts, JsonFacts DEF IInv
    <3> QED
      BY <3>1, <3>2, NamesAgree
  <2> QED
    BY <2>1, <2>2 DEF NothingIsForgotten
<1> QED
  BY <1>1, Invariant, Memory, Saved, PTL

\* What is filed from Home is the claim she last saved, unless Home still
\* refreshes, she came to Home while a save or a refresh was in flight or a save
\* was lost, or posts with different claims were in flight.
THEOREM FiledAsLastSaved == Spec => FiledIsLastSaved
<1>1. ASSUME IInv, SavedInv, [Next]_vars
      PROVE  [filed' # filed /\ get.pc = "none" /\ excuses \cap {"left", "overlap"} = {} =>
                Json(filed'[1]) = Json(sent)]_vars
  <2> SUFFICES ASSUME filed' # filed, get.pc = "none", excuses \cap {"left", "overlap"} = {}
               PROVE  Json(filed'[1]) = Json(sent)
    OBVIOUS
  <2>1. route = Home /\ filed' = <<cache.claim>>
    BY <1>1, OnlySubmitFiles DEF Submit
  <2>2. cache.claim = draft /\ draft = Json(sent)
    BY <1>1, <2>1 DEF IInv, HomeInv, SavedInv
  <2>3. filed'[1] = draft
    BY <2>1, <2>2
  <2>4. Json(draft) = draft
    <3>1. draft \in Claim /\ \A i \in DOMAIN draft.more : draft.more[i] # "unset"
      BY <1>1 DEF IInv, TypeInv, FormClaim
    <3> QED
      BY <3>1, JsonAgain
  <2> QED
    BY <2>2, <2>3, <2>4
<1> QED
  BY <1>1, Invariant, Saved, PTL DEF Spec, FiledIsLastSaved
=============================================================================

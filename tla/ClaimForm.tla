----------------------------- MODULE ClaimForm ------------------------------
(***************************************************************************)
(* One claimant walks through the form in one browser tab: the component   *)
(* ClaimForm with its Formik state, the pages employer, employer-review    *)
(* and review, the page Home, the query cache of react-query and the draft *)
(* on the server.  Requests are asynchronous: two posts of the browser may *)
(* reach the server, and be answered, in either order; a post may be lost. *)
(*                                                                         *)
(* The answers of the other pages are complete and are left out.  An       *)
(* employer is untouched (the skeleton) or filled in, and then known by    *)
(* its name.  Segment s of the page employer is employers[s + 1] here.     *)
(***************************************************************************)
EXTENDS Integers, Sequences, SequencesExt, FiniteSets

CONSTANTS
  Names,          \* names of employers
  Affirmations,   \* of {"yes", "no"}, what she does to the box of the review page
  MaxEmployers,   \* bound: employers in the form
  MaxPosts        \* bound: posts in flight

untouched == "untouched"   \* EMPLOYER_SKELETON
hole      == "hole"        \* an index JavaScript skipped; null once it was sent

ASSUME FormAssumption == /\ {untouched, hole} \cap Names = {}
                         /\ Affirmations \subseteq {"yes", "no"}
                         /\ MaxEmployers \in Nat \ {0} /\ MaxPosts \in Nat \ {0}

Employers == Names \cup {untouched, hole}
Answers == {"unset", "null", "yes", "no"}   \* undefined, JSON's null, true, false

VARIABLES
  route,     \* where the browser is
  values,    \* Formik: the values
  initial,   \* Formik: initialValues, to which resetForm() returns
  cache,     \* react-query: getPartialClaim, a claim and whether it has errors
  get,       \* the request in flight that refreshes it
  posts,     \* posts in flight, in the order they were sent
  draft,     \* the server's draft
  filed      \* what was filed from Home: nothing or one claim

\* History, for the properties: what she typed and did not take back, the
\* values last sent, and what she or the network did to lose answers.
VARIABLES entered, sent, excuses

vars == <<route, values, initial, cache, get, posts, draft, filed, entered, sent, excuses>>

Claim == [employers : Seq(Employers), more : Seq(Answers), affirmed : Answers]

Home    == [page |-> "home", segment |-> 0]
Review  == [page |-> "review", segment |-> 0]
EmployerReview == [page |-> "employer-review", segment |-> 0]
Employer(s) == [page |-> "employer", segment |-> s]
Gone(p) == [page |-> p, segment |-> 0]   \* "out" or "success"

Routes == {Employer(s) : s \in 0 .. MaxEmployers} \cup
          {Home, Review, EmployerReview, Gone("out"), Gone("success")}

\* She waits for the answer of "save and exit".  Bound: once something was
\* lost only the network goes on.
Free == excuses = {} /\ ~ \E i \in DOMAIN posts : posts[i].by = "exit"

\* Bound: she types nothing while a GET is in flight that a save overtook; the
\* form does not show its answer, and no post is sent before it comes.
Types == Free /\ get.pc # "read"

OnForm == route.page \in {"employer", "employer-review", "review"}

NoCache == [claim |-> [employers |-> <<>>, more |-> <<>>, affirmed |-> "unset"],
            errors |-> TRUE]
NoClaim == [employers |-> <<>>, more |-> <<>>, affirmed |-> "unset"]

\* No request, one that was sent, and one that react-query no longer waits
\* for (isFetching), since setQueryData came between: its answer counts all
\* the same.
NoGet == [pc |-> "none", claim |-> NoClaim, awaited |-> FALSE]
Asked == [pc |-> "sent", claim |-> NoClaim, awaited |-> TRUE]
Unawaited == [get EXCEPT !.awaited = FALSE]

NameSet(c) == {c.employers[i] : i \in DOMAIN c.employers} \cap Names

(* Arrays of JavaScript. *)

\* a[i] = x, past the end of the array if need be.
Put(a, i, x, gap) ==
  [j \in 1 .. (IF i > Len(a) THEN i ELSE Len(a)) |->
     CASE j = i -> x [] j \in DOMAIN a \ {i} -> a[j] [] OTHER -> gap]

\* a.filter((_, i) => !I.includes(i))
Without(a, I) ==
  LET kept == DOMAIN a \ I
      nth(j) == CHOOSE i \in kept : Cardinality({k \in kept : k <= i}) = j
  IN [j \in 1 .. Cardinality(kept) |-> a[nth(j)]]

(* Variant: undefined survives the journey.                                *)
Json_same(c) == c

\* The body of a post: undefined in an array is null.
Json(c) == [c EXCEPT !.more = [i \in DOMAIN @ |-> IF @[i] = "unset" THEN "null" ELSE @[i]]]

(* What the pages and the server make of a claim. *)

Filled(c, s) == s + 1 \in DOMAIN c.employers /\ c.employers[s + 1] \in Names
More(c, s)   == IF s + 1 \in DOMAIN c.more THEN c.more[s + 1] ELSE "unset"

segmentSchema(c, s) == Filled(c, s) /\ More(c, s) # "null"
pageSchema(c) == /\ \A i \in DOMAIN c.employers : c.employers[i] \in Names
                 /\ \A i \in DOMAIN c.more : c.more[i] \in {"yes", "no"}
repeatable(c, s) == More(c, s) = "yes"

Accepts(r, c) == CASE r.page = "employer" -> segmentSchema(c, r.segment)
                   [] r.page = "employer-review" -> pageSchema(c)
                   [] r.page = "review" -> c.affirmed \in {"yes", "no"}

\* The server goes through the employers of whatever is posted, and fails
\* before it writes when one of them is null.
Writable(c) == \A i \in DOMAIN c.employers : c.employers[i] # hole

(* Variant: the server looks at the first employer only.                   *)
Errors_first(c) == c.employers # <<>> /\ c.employers[1] \notin Names

\* validation_errors of the answer to a GET.
Errors(c) == \E i \in DOMAIN c.employers : c.employers[i] \notin Names

(* Variant: the second segment is never looked at.                         *)
ContinueAt_first_segment(c) ==
  IF ~ segmentSchema(c, 0) THEN Employer(0)
  ELSE IF pageSchema(c) THEN Review ELSE EmployerReview

\* useClaimProgress: the first page, or segment, that is not valid.
ContinueAt(c) ==
  LET Walked(s) == \A t \in 0 .. s - 1 : segmentSchema(c, t) /\ repeatable(c, t)
      Stops == {s \in 0 .. Len(c.employers) : Walked(s) /\ ~ segmentSchema(c, s)}
  IN IF Stops # {} THEN Employer(CHOOSE s \in Stops : TRUE)
     ELSE IF pageSchema(c) THEN Review ELSE EmployerReview

\* mergeClaimFormValues: answers to "more employers?" that are missing.
Merged(c) ==
  LET n == Len(c.employers)
      missing == [i \in 1 .. n - Len(c.more) |-> IF i = n THEN "no" ELSE "yes"]
  IN [c EXCEPT !.more = @ \o missing]

\* EmployerProfile: a segment that does not exist gets the skeleton, and
\* "more employers?" one more answer, at its end.
Settled(c, r) ==
  IF r.page = "employer" /\ (r.segment + 1 \notin DOMAIN c.employers
                             \/ c.employers[r.segment + 1] = hole)
  THEN [c EXCEPT !.employers = Put(@, r.segment + 1, untouched, hole),
                 !.more = Append(@, "unset")]
  ELSE c

(* The history. *)

Excused(reason) == excuses' = excuses \cup {reason}

\* A removal is in flight: its answer will overwrite what she does now.
Removing == \E i \in DOMAIN posts : posts[i].by = "removal" /\ posts[i].here

MindsRemoval == IF Removing THEN Excused("removal") ELSE UNCHANGED excuses

\* A post of q carries another claim than the one that counts as last saved.
Overlaps(q, saved) == IF \E i \in DOMAIN q : q[i].claim # saved THEN {"overlap"} ELSE {}

\* She leaves the form, or what she sees of it, while a save or a refresh is
\* in flight or a save is lost, so that what she finds next may be older.
Leaves ==
  /\ entered' = NameSet(sent)
  /\ excuses' = IF posts # <<>> \/ draft # Json(sent) \/ get.pc # "none"
                THEN excuses \cup {"left"} ELSE excuses

(* Requests. *)

\* The observer of ClaimForm follows its last post only: Next waits for it.
Unfollowed == [i \in DOMAIN posts |-> [posts[i] EXCEPT !.follows = FALSE]]
isLoading  == \E i \in DOMAIN posts : posts[i].follows

Post(c, by, follows) ==
  [claim |-> c, by |-> by, follows |-> follows, errors |-> by = "save" /\ cache.errors,
   removed |-> {}, here |-> TRUE, applied |-> FALSE]

(* Variant: Home does not ask again for what is in the cache.              *)
Refetch_never == UNCHANGED get

\* useQuery on mount, or invalidateQueries: a request that is awaited will do.
\* Bound: there is no second one until one that is not awaited is answered.
Refetch == \/ get.awaited /\ UNCHANGED get
           \/ get.pc = "none" /\ get' = Asked

\* SubmitClaimCard comes up on Home, with a useQuery of its own.
CardComesUp(r, old, new) == r = Home /\ old.errors /\ ~ new.errors

\* Bound: no post while as many requests are in flight, or while a GET is that
\* is no longer awaited.
MaySend == \/ get.pc = "none" /\ Len(posts) < MaxPosts
           \/ get.awaited /\ Len(posts) + 1 < MaxPosts

Sent(c, others, post) ==
  /\ MaySend
  /\ posts' = Append(others, post)
  /\ sent' = c
  /\ excuses' = excuses \cup Overlaps(posts, c)
       \cup (IF Removing THEN {"removal"} ELSE {})

(* The form. *)

Show(c, r) == route' = r /\ values' = Settled(c, r)

(* Variant: resetForm() without the values.                                *)
resetForm_without(c) == UNCHANGED initial

\* resetForm({ values: c }) makes c the initial values.
resetForm(c) == initial' = c

\* Formik is gone: answers of posts that would reset it have no effect.
Unmounted == [i \in DOMAIN posts |-> [posts[i] EXCEPT !.here = FALSE, !.follows = FALSE]]
Unmount == values' = NoClaim /\ initial' = NoClaim

EnterName(name) ==
  LET s == route.segment IN
  /\ Types /\ route.page = "employer" /\ values.employers[s + 1] = untouched
  /\ name \notin entered \cup NameSet(values)
  /\ values' = [values EXCEPT !.employers[s + 1] = name]
  /\ entered' = entered \cup {name}
  /\ MindsRemoval
  /\ UNCHANGED <<route, initial, cache, get, posts, draft, filed, sent>>

AnswerMore(x) ==
  LET s == route.segment IN
  /\ Types /\ route.page = "employer"
  /\ More(values, s) # x
  /\ values' = [values EXCEPT !.more = Put(@, s + 1, x, "unset")]
  /\ MindsRemoval
  /\ UNCHANGED <<route, initial, cache, get, posts, draft, filed, entered, sent>>

Affirm(x) ==
  /\ Types /\ route.page = "review"
  /\ values.affirmed # x
  /\ values' = [values EXCEPT !.affirmed = x]
  /\ MindsRemoval
  /\ UNCHANGED <<route, initial, cache, get, posts, draft, filed, entered, sent>>

NextPage ==
  CASE route.page = "employer" -> IF repeatable(values, route.segment)
                                  THEN Employer(route.segment + 1) ELSE EmployerReview
    [] OTHER -> Review

PreviousPage ==
  CASE route.page = "employer" -> Employer(route.segment - 1)
    [] route.page = "employer-review" ->
         Employer(IF values.employers = <<>> THEN 0 ELSE Len(values.employers) - 1)
    [] OTHER -> EmployerReview

\* onSubmit: to the next page first; then the post; then resetForm({values}).
GoNext ==
  /\ Free /\ OnForm /\ ~ isLoading
  /\ Accepts(route, values)
  /\ NextPage.segment < MaxEmployers
  /\ Show(values, NextPage)
  /\ Sent(values, Unfollowed, Post(values, "save", TRUE))
  /\ resetForm(values)
  /\ UNCHANGED <<cache, get, draft, filed, entered>>

\* navigateToPreviousPage: the values are posted as they are; reset() makes
\* the observer forget the post; resetForm() goes back to initialValues.
GoBack ==
  /\ Free /\ OnForm /\ route # Employer(0)
  /\ Show(initial, PreviousPage)
  /\ MaySend
  /\ posts' = Append(Unfollowed, Post(values, "save", FALSE))
  /\ sent' = values
  /\ excuses' = excuses \cup Overlaps(posts, values)
       \cup (IF Removing THEN {"removal"} ELSE {})
       \cup (IF NameSet(values) # NameSet(sent) THEN {"back"} ELSE {})
  /\ UNCHANGED <<initial, cache, get, draft, filed, entered>>

SaveAndExit ==
  /\ Free /\ OnForm
  /\ Sent(values, Unfollowed, Post(values, "exit", TRUE))
  /\ UNCHANGED <<route, values, initial, cache, get, draft, filed, entered>>

\* The links of employer-review: "edit" one employer, "add another".
GoToEmployer(s) ==
  /\ Free /\ route.page = "employer-review"
  /\ s \in 0 .. Len(values.employers) /\ s < MaxEmployers
  /\ Show(values, Employer(s))
  /\ MindsRemoval
  /\ UNCHANGED <<initial, cache, get, posts, draft, filed, entered, sent>>

(* Variant: the answers of the removed employers stay.                     *)
Removed_employers_only(I) == [values EXCEPT !.employers = Without(@, I)]

Removed(I) ==
  LET more == Without(values.more, I)
  IN [values EXCEPT !.employers = Without(@, I),
                    !.more = IF more = <<>> THEN more ELSE [more EXCEPT ![Len(more)] = "no"]]

\* removeEmployer, with its own observer: the form changes with the answer.
removeEmployer(I) ==
  LET removed == {values.employers[i] : i \in I} \cap Names IN
  /\ Free /\ route.page = "employer-review"
  /\ Sent(Removed(I), posts, [Post(Removed(I), "removal", FALSE) EXCEPT !.removed = removed])
  /\ UNCHANGED <<route, values, initial, cache, get, draft, filed, entered>>

RemoveEmployer == \E i \in DOMAIN values.employers :
                    values.employers[i] \in Names /\ removeEmployer({i})

\* While it renders, employer-review removes the employers that look empty;
\* it does so again with every render until the answer arrives.
RemoveEmpty ==
  LET empty == {i \in DOMAIN values.employers : values.employers[i] \notin Names}
  IN empty # {} /\ removeEmployer(empty)

(* Answers. *)

\* The server stores a claim. A GET in flight has read the draft before that,
\* or it reads a later one, at the latest when it is answered.
Apply(i) ==
  /\ ~ posts[i].applied /\ Writable(posts[i].claim)
  /\ draft' = Json(posts[i].claim)
  /\ posts' = [posts EXCEPT ![i].applied = TRUE]
  /\ \/ UNCHANGED get
     \/ get.pc = "sent" /\ draft' # draft /\ get' = [get EXCEPT !.pc = "read", !.claim = draft]
  /\ UNCHANGED <<route, values, initial, cache, filed, entered, sent, excuses>>

\* A post fails, or the answer of one that was stored is lost: the form goes on
\* without it, and what a failed removal or exit sent does not count as saved.
Fail(i) ==
  LET p == posts[i] IN
  /\ posts' = RemoveAt(posts, i)
  /\ sent' = IF p.by \in {"removal", "exit"} /\ p.here /\ ~ p.applied THEN initial ELSE sent
  /\ excuses' = excuses \cup Overlaps(posts', sent') \cup
       (IF ~ p.applied THEN {} ELSE IF p.by = "removal" /\ p.here THEN {"removal"} ELSE {"lost"})
  /\ UNCHANGED <<route, values, initial, cache, get, draft, filed, entered>>

\* The post of an affirmed claim was answered: she is sent to Home, and what
\* she typed since is thrown away.
ThrownOut ==
  /\ excuses' = excuses \cup (IF NameSet(values) # NameSet(sent) THEN {"thrown"} ELSE {})
                       \cup (IF Len(posts) > 1 \/ get.pc # "none" THEN {"left"} ELSE {})
  /\ UNCHANGED entered

\* What it was sent with: the claim, in the answer to the GET of that time.
SaveAnswered(i) ==
  LET p == posts[i]
      saved == [claim |-> p.claim, errors |-> p.errors]
  IN
  /\ p.applied /\ p.by = "save"
  /\ \/ /\ p.claim.affirmed = "yes" /\ OnForm
        /\ route' = Home /\ Unmount
        /\ posts' = RemoveAt(Unmounted, i)
        /\ Refetch /\ ThrownOut
        /\ UNCHANGED cache
     \/ /\ p.claim.affirmed = "yes" /\ ~ OnForm
        /\ posts' = RemoveAt(posts, i)
        /\ UNCHANGED <<route, values, initial, cache, get, entered, excuses>>
     \/ /\ p.claim.affirmed # "yes"
        /\ cache' = saved
        /\ IF CardComesUp(route, cache, saved) THEN get.pc = "none" /\ get' = Asked
           ELSE get' = Unawaited
        /\ posts' = RemoveAt(posts, i)
        /\ UNCHANGED <<route, values, initial, entered, excuses>>
  /\ UNCHANGED <<draft, filed, sent>>

RemovalAnswered(i) ==
  LET p == posts[i] IN
  /\ p.applied /\ p.by = "removal"
  /\ posts' = RemoveAt(posts, i)
  /\ Refetch
  /\ IF p.here THEN /\ values' = Settled(p.claim, route)
                    /\ resetForm(p.claim)
                    /\ entered' = entered \ p.removed
               ELSE UNCHANGED <<values, initial, entered>>
  /\ UNCHANGED <<route, cache, draft, filed, sent, excuses>>

\* The page is gone: a post in flight reaches the server first, or never.
PageGone ==
  /\ posts' = <<>>
  /\ draft' \in {draft} \cup {Json(posts[i].claim) : i \in {i \in DOMAIN posts :
                                  ~ posts[i].applied /\ Writable(posts[i].claim)}}

ExitAnswered(i) ==
  /\ posts[i].applied /\ posts[i].by = "exit"
  /\ route' = Gone("out") /\ Unmount
  /\ cache' = NoCache /\ get' = NoGet
  /\ PageGone /\ Leaves
  /\ UNCHANGED <<filed, sent>>

FetchAnswered ==
  LET answer == IF get.pc = "read" THEN get.claim ELSE draft IN
  /\ get.pc # "none"
  /\ cache' = [claim |-> answer, errors |-> Errors(answer)]
  /\ get' = IF CardComesUp(route, cache, cache') THEN Asked ELSE NoGet
  /\ UNCHANGED <<route, values, initial, posts, draft, filed, entered, sent, excuses>>

(* Between the form and Home. *)

\* The header's links to Home, which keep the query cache.
GoHome ==
  /\ Free /\ OnForm
  /\ route' = Home /\ Unmount /\ posts' = Unmounted
  /\ Refetch /\ Leaves
  /\ UNCHANGED <<cache, draft, filed, sent>>

Mount(c, r) == Show(Merged(c), r) /\ initial' = Merged(c)

\* "Continue" and "edit" of Home: the form comes up with the cached claim,
\* which is refreshed behind it.
Continue ==
  LET r == ContinueAt(cache.claim) IN
  /\ Free /\ route = Home /\ r.segment < MaxEmployers
  /\ Mount(cache.claim, r)
  /\ Refetch /\ Leaves
  /\ UNCHANGED <<cache, posts, draft, filed, sent>>

\* The links of the two menus load a page anew.  ClaimFormNav links every page
\* up to the one to continue at, and all of them when that is "employer1/".
Linked ==
  LET at == ContinueAt(cache.claim)
      pages == <<Employer(0), EmployerReview, Review>>
      found == {k \in DOMAIN pages : pages[k] = at}
  IN {pages[k] : k \in {k \in DOMAIN pages : \A f \in found : k <= f}}

\* A page is loaded: by a link, by the browser, or after a login (Home).
Load(r) ==
  /\ Free /\ filed = <<>>
  /\ r \in IF route.page = "out" THEN {Home} ELSE {route, Home} \cup Linked
  /\ PageGone
  /\ cache' = [claim |-> draft', errors |-> Errors(draft')]
  /\ get' = IF CardComesUp(r, NoCache, cache') THEN Asked ELSE NoGet
  /\ IF r = Home THEN route' = Home /\ Unmount ELSE Mount(draft', r)
  /\ Leaves
  /\ UNCHANGED <<filed, sent>>

\* determineClaimStatus; the claim has other answers, so it has been started.
claimStatus == IF cache.errors THEN "in_progress" ELSE "complete"

\* SubmitClaimCard, rendered when the claim is complete, files whatever claim
\* is in the cache; the server validates it. Here the walk ends, and what
\* comes of posts still in flight is left to ClaimSession.
Submit ==
  /\ route = Home
  /\ claimStatus = "complete" /\ ~ Errors(cache.claim)
  /\ filed' = <<cache.claim>>
  /\ route' = Gone("success") /\ posts' = <<>>
  /\ cache' = NoCache /\ get' = NoGet
  /\ UNCHANGED <<values, initial, draft, entered, sent, excuses>>

Init ==
  /\ route = Home
  /\ values = NoClaim /\ initial = NoClaim
  /\ draft = NoClaim /\ cache = [claim |-> NoClaim, errors |-> FALSE]
  /\ get = NoGet /\ posts = <<>> /\ filed = <<>>
  /\ entered = {} /\ sent = NoClaim /\ excuses = {}

Next ==
  \/ \E name \in Names : EnterName(name)
  \/ \E x \in {"yes", "no"} : AnswerMore(x)
  \/ \E x \in Affirmations : Affirm(x)
  \/ GoNext \/ GoBack \/ SaveAndExit
  \/ \E s \in 0 .. MaxEmployers : GoToEmployer(s)
  \/ RemoveEmployer \/ RemoveEmpty
  \/ GoHome \/ Continue \/ (\E r \in Routes : Load(r)) \/ Submit
  \/ \E i \in DOMAIN posts : \/ Apply(i) \/ Fail(i)
                             \/ SaveAnswered(i) \/ RemovalAnswered(i) \/ ExitAnswered(i)
  \/ FetchAnswered

Spec == Init /\ [][Next]_vars
---------------------------------------------------------------------------

(* Every copy of the claim has employers and answers of the right kind,    *)
(* what came through JSON holds no undefined, and only Formik skips an     *)
(* index: the server writes no draft with a null employer.                 *)
TypeOK ==
  /\ route \in Routes
  /\ \A c \in {values, initial, cache.claim, get.claim, draft, sent} :
       /\ \A i \in DOMAIN c.employers : c.employers[i] \in Employers
       /\ \A i \in DOMAIN c.more : c.more[i] \in Answers
  /\ \A i \in DOMAIN draft.more : draft.more[i] # "unset"
  /\ Writable(draft) /\ Writable(cache.claim) /\ Writable(get.claim)
  /\ Len(posts) <= MaxPosts

(* The form holds one answer to "more employers?" for every employer, and  *)
(* skips no employer: effects, links, removals and restored drafts keep    *)
(* the two arrays in step.  Two things break it: going on while a removal  *)
(* is in flight (EmployerReview.tsx:117 resets the form whatever the page  *)
(* is by then), and loading the page of an employer that was never saved.  *)
EmployersAreWhole ==
  excuses \cap {"removal", "left"} = {} =>
    /\ Len(values.more) = Len(values.employers)
    /\ \A i \in DOMAIN values.employers : values.employers[i] # hole

(* The form, and Home once it is refreshed, show every employer she        *)
(* entered and did not leave unsaved, and none she removed, through saves, *)
(* links, menus and restored drafts.  What breaks it: Back with an unsaved *)
(* employer (ClaimForm.tsx:110); going on while a removal is in flight, or *)
(* the loss of its answer; leaving while a save or a refresh is in flight, *)
(* or a save is lost;                                                      *)
(* typing on an affirmed claim until a save sends her to Home              *)
(* (ClaimForm.tsx:210); and, for Home, two posts in flight with different  *)
(* claims, which may arrive in any order.                                  *)
NothingIsForgotten ==
  /\ OnForm /\ excuses \subseteq {"overlap", "lost"} => NameSet(values) = entered
  /\ route = Home /\ get.pc = "none" /\ excuses \subseteq {"lost"} => NameSet(cache.claim) = entered

(* The page where Home lets her continue is one that refuses to go on, and *)
(* every segment before it is accepted (useClaimProgress against what the  *)
(* form makes of the same claim): she is not sent past an open question    *)
(* nor back to a finished one.                                             *)
ContinuesAtOpenQuestion ==
  route = Home =>
    LET c == cache.claim  at == ContinueAt(c) IN
    /\ at # Review => ~ Accepts(at, Settled(Merged(c), at))
    /\ at.page # "employer" => \A i \in DOMAIN c.employers :
         (\A j \in 1 .. i - 1 : c.more[j] = "yes") => Accepts(Employer(i - 1), Merged(c))

(* A claim that Home offers to submit is one the form has finished, but    *)
(* for the employers: the server does not know of "more employers?", so it *)
(* takes a claim without employers, one with that question open, and one   *)
(* that promised another employer.  Excepted is a Home she came to while a *)
(* save or a refresh was in flight, or a save was lost: a late answer puts *)
(* its claim into the cache with the errors of another (ClaimForm.tsx:213).*)
OfferedIsFinished ==
  route = Home /\ get.pc = "none" /\ ~ cache.errors /\ "left" \notin excuses =>
    LET c == cache.claim IN
    \/ ContinueAt(c) = Review
    \/ c.employers = <<>>
    \/ \E i \in DOMAIN c.more : c.more[i] \notin {"yes", "no"}
    \/ c.more[Len(c.more)] = "yes"

(* What is filed from Home is the claim she last saved, with every answer  *)
(* and the affirmation of it.  Home files its cache and asks nobody        *)
(* (Home.tsx:473), so there are ways for an older claim to be filed, and   *)
(* these are all of them: Home still refreshes; she came to Home while a   *)
(* save or a refresh was in flight, or a save was lost (then a late answer *)
(* leaves the older claim in the cache for good); or two posts with        *)
(* different claims were in flight and one overtook the other.             *)
FiledIsLastSaved ==
  [][filed' # filed /\ get.pc = "none" /\ excuses \cap {"left", "overlap"} = {} =>
       Json(filed'[1]) = Json(sent)]_vars
=============================================================================

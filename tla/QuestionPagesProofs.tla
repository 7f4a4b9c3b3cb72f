------------------------- MODULE QuestionPagesProofs -------------------------
(* Proofs about the pages with state of their own: the list of occupations,  *)
(* for a SOC of any size, other pay, for any types of pay, and the birthdate;*)
(* and what FormAnswersProofs shows of the others carries over to the pages  *)
(* together.                                                                 *)
EXTENDS QuestionPages, FormAnswersProofs, SequenceTheorems, FiniteSetTheorems, TLAPS

-----------------------------------------------------------------------------
(* Numbers.                                                                  *)

LEMMA Least ==
  ASSUME NEW S \in SUBSET Nat, S # {}
  PROVE  \E m \in S : \A n \in S : m =< n
<1>1. PICK m \in S : \A n \in S : ~ (<<n, m>> \in OpToRel(<, Nat))
  BY NatLessThanWellFounded, WFMin
<1>2. ASSUME NEW n \in S, n < m
      PROVE  FALSE
  <2>1. <<n, m>> \in Nat \X Nat /\ <<n, m>>[1] < <<n, m>>[2]
    BY <1>2
  <2>2. <<n, m>> \in OpToRel(<, Nat)
    BY <2>1, Zenon DEF OpToRel
  <2> QED
    BY <1>1, <2>2
<1> QED
  BY <1>2

LEMMA Upwards ==
  ASSUME NEW m \in Nat, NEW S, 0 \in S, \A i \in 0 .. m - 1 : i \in S => i + 1 \in S
  PROVE  0 .. m \subseteq S
<1> SUFFICES ASSUME NEW T, T = (0 .. m) \ S, T # {}
             PROVE  FALSE
  OBVIOUS
<1>1. PICK least \in T : \A n \in T : least =< n
  BY Least
<1> QED
  BY <1>1

LEMMA DivFacts ==
  ASSUME NEW a \in Nat, NEW d \in Nat \ {0}
  PROVE  /\ a \div d \in Nat
         /\ (a \div d) * d =< a
         /\ a < (a \div d) * d + d
OBVIOUS

LEMMA MinFacts ==
  ASSUME NEW S \in SUBSET Nat, S # {}
  PROVE  Min(S) \in S /\ \A n \in S : Min(S) =< n
BY Least DEF Min

-----------------------------------------------------------------------------
(* The page numbers under a list.                                            *)

Fills(pages, lastPage, shown) ==
  pages = [i \in 0 .. lastPage |-> IF i = 0 THEN <<>> ELSE Pushed(pages[i - 1], i, shown)]

LEMMA PagesAreDefined ==
  ASSUME NEW n \in Nat, NEW shown
  PROVE  \E pages : Fills(pages, n, shown)
<1> DEFINE S == {m \in Nat : \E pages : Fills(pages, m, shown)}
<1>1. 0 \in S
  <2>1. Fills([i \in 0 .. 0 |-> <<>>], 0, shown)
    BY DEF Fills
  <2> QED
    BY <2>1
<1>2. ASSUME NEW i \in Nat, i \in S
      PROVE  i + 1 \in S
  <2>1. PICK f : Fills(f, i, shown)
    BY <1>2
  <2> DEFINE g == [j \in 0 .. i + 1 |->
                     IF j = i + 1 THEN Pushed(f[i], j, shown) ELSE f[j]]
  <2>2. \A j \in 0 .. i : g[j] = f[j] /\ f[j] = IF j = 0 THEN <<>> ELSE Pushed(f[j - 1], j, shown)
    BY <2>1 DEF Fills
  <2>3. g[i + 1] = Pushed(f[i], i + 1, shown) /\ g[i] = f[i]
    OBVIOUS
  <2>4. \A j \in 0 .. i + 1 : g[j] = IF j = 0 THEN <<>> ELSE Pushed(g[j - 1], j, shown)
    BY <2>2, <2>3
  <2>5. g = [j \in 0 .. i + 1 |-> IF j = 0 THEN <<>> ELSE Pushed(g[j - 1], j, shown)]
    BY <2>4
  <2> HIDE DEF g
  <2> QED
    BY <2>5 DEF Fills
<1> HIDE DEF S
<1>3. 0 .. n \subseteq S
  BY <1>1, <1>2, Upwards
<1> QED
  BY <1>3 DEF S

\* What comes after the k-th.
InOrder(p, k) ==
  IF p[k + 1] = 0
  THEN p[k] > 0 /\ (k + 2 \in 1 .. Len(p) => p[k + 2] > p[k] + 1)
  ELSE p[k] = 0 \/ p[k + 1] = p[k] + 1

\* What the loop has pushed after page i.
ExactUpTo(p, i, shown) ==
  /\ p \in Seq(0 .. i) /\ p # <<>>
  /\ Range(p) \ {0} = shown \cap (1 .. i)
  /\ p[Len(p)] = IF i \in shown THEN i ELSE 0
  /\ p[Len(p)] = 0 => Len(p) > 1 /\ p[Len(p) - 1] \in 1 .. i - 1
  /\ \A k \in 1 .. Len(p) - 1 : InOrder(p, k)

LEMMA PushKeepsExact ==
  ASSUME NEW i \in Nat \ {0}, NEW shown, NEW p, ExactUpTo(p, i, shown)
  PROVE  ExactUpTo(Pushed(p, i + 1, shown), i + 1, shown)
<1> SUFFICES ASSUME NEW q, q = Pushed(p, i + 1, shown)
             PROVE  ExactUpTo(q, i + 1, shown)
  OBVIOUS
<1>0. PICK n \in Nat \ {0} : n = Len(p)
  BY DEF ExactUpTo
<1>1. p \in Seq(0 .. i + 1) /\ Len(p) = n /\ DOMAIN p = 1 .. n
  BY <1>0, SeqMonotonic, LenProperties DEF ExactUpTo
<1>2. /\ \A k \in 1 .. n : p[k] \in 0 .. i
      /\ p[n] = IF i \in shown THEN i ELSE 0
      /\ p[n] = 0 => n > 1 /\ p[n - 1] \in 1 .. i - 1
      /\ \A k \in 1 .. n - 1 : InOrder(p, k)
  BY <1>1 DEF ExactUpTo
<1>3. ASSUME NEW x \in 0 .. i + 1, q = Append(p, x)
      PROVE  /\ q \in Seq(0 .. i + 1) /\ q # <<>> /\ Len(q) = n + 1
             /\ \A k \in 1 .. n : q[k] = p[k]
             /\ q[n + 1] = x
             /\ Range(q) = Range(p) \cup {x}
  <2>1. /\ Append(p, x) \in Seq(0 .. i + 1)
        /\ Len(Append(p, x)) = Len(p) + 1
        /\ \A k \in 1 .. Len(p) : Append(p, x)[k] = p[k]
        /\ Append(p, x)[Len(p) + 1] = x
    BY <1>1, AppendProperties
  <2>2. /\ q \in Seq(0 .. i + 1) /\ Len(q) = n + 1
        /\ \A k \in 1 .. n : q[k] = p[k]
        /\ q[n + 1] = x
    BY <1>1, <1>3, <2>1, Zenon
  <2>3. DOMAIN q = 1 .. n + 1
    BY <2>2, LenProperties
  <2>4. ASSUME NEW k \in 1 .. n + 1
        PROVE  q[k] \in Range(p) \cup {x}
    <3>1. CASE k \in 1 .. n
      BY <1>1, <2>2, <3>1 DEF Range
    <3> QED
      BY <2>2, <3>1
  <2>5. \A k \in 1 .. n : p[k] \in Range(q)
    BY <2>2, <2>3 DEF Range
  <2>6. x \in Range(q)
    BY <2>2, <2>3 DEF Range
  <2>7. Range(p) \cup {x} \subseteq Range(q)
    BY <1>1, <2>5, <2>6 DEF Range
  <2>8. Range(q) \subseteq Range(p) \cup {x}
    BY <2>3, <2>4, Zenon DEF Range
  <2>9. q # <<>>
    BY <2>2
  <2> QED
    BY <2>2, <2>7, <2>8, <2>9
\* What was in order stays in order, but for a last "...".
<1>4. ASSUME NEW x \in 0 .. i + 1, q = Append(p, x), NEW k \in 1 .. n - 1,
             p[n] = 0 => x > p[n - 1] + 1
      PROVE  InOrder(q, k)
  <2>0. k \in 1 .. n /\ k + 1 \in 1 .. n
    OBVIOUS
  <2>1. InOrder(p, k) /\ q[k] = p[k] /\ q[k + 1] = p[k + 1]
    BY <1>2, <1>3, <1>4, <2>0, Zenon
  <2>2. CASE k + 2 \in 1 .. n
    <3>1. q[k + 2] = p[k + 2] /\ Len(q) = n + 1
      BY <1>3, <1>4, <2>2
    <3> QED
      BY <1>1, <2>1, <2>2, <3>1 DEF InOrder
  <2>3. CASE k = n - 1
    <3>1. k + 2 = n + 1 /\ k + 1 = n
      BY <2>3
    <3>2. q[k + 2] = x
      BY <1>3, <1>4, <3>1
    <3> QED
      BY <1>4, <2>1, <3>1, <3>2, <2>3 DEF InOrder
  <2> QED
    BY <2>2, <2>3
<1>5. CASE i + 1 \in shown
  <2>1. q = Append(p, i + 1)
    BY <1>5 DEF Pushed
  <2>2. q[Len(q)] = i + 1
    BY <1>3, <2>1
  <2>3. Range(q) \ {0} = shown \cap (1 .. i + 1)
    BY <1>3, <1>5, <2>1 DEF ExactUpTo
  <2>4. \A k \in 1 .. n - 1 : InOrder(q, k)
    BY <1>2, <1>4, <2>1
  <2>5. InOrder(q, n)
    <3>1. q[n + 1] = i + 1 /\ q[n] = p[n]
      <4>1. i + 1 \in 0 .. i + 1 /\ n \in 1 .. n
        OBVIOUS
      <4> QED
        BY <1>3, <2>1, <4>1, Zenon
    <3>2. q[n] = i \/ q[n] = 0
      BY <1>2, <3>1, Zenon
    <3> QED
      BY <3>1, <3>2 DEF InOrder
  <2>6. \A k \in 1 .. Len(q) - 1 : InOrder(q, k)
    BY <1>1, <1>3, <2>1, <2>4, <2>5
  <2> QED
    BY <1>3, <1>5, <2>1, <2>2, <2>3, <2>6 DEF ExactUpTo
<1>6. CASE i + 1 \notin shown /\ p[n] # 0
  <2>1. q = Append(p, 0)
    BY <1>1, <1>6 DEF Pushed, Last
  <2>2. p[n] = i
    BY <1>2, <1>6
  <2>8. 0 \in 0 .. i + 1
    OBVIOUS
  <2>9. /\ q \in Seq(0 .. i + 1) /\ q # <<>> /\ Len(q) = n + 1
        /\ \A k \in 1 .. n : q[k] = p[k]
        /\ q[n + 1] = 0
        /\ Range(q) = Range(p) \cup {0}
    BY <1>3, <2>1, <2>8, Zenon
  <2>3. Range(q) \ {0} = shown \cap (1 .. i + 1)
    <3>1. Range(q) \ {0} = shown \cap (1 .. i)
      BY <2>9 DEF ExactUpTo
    <3>2. shown \cap (1 .. i + 1) = shown \cap (1 .. i)
      BY <1>6
    <3> QED
      BY <3>1, <3>2
  <2>4. \A k \in 1 .. n - 1 : InOrder(q, k)
    BY <1>4, <1>6, <2>1
  <2>5. InOrder(q, n)
    <3>1. q[n + 1] = 0 /\ q[n] = i /\ n + 1 = Len(q)
      BY <2>2, <2>9
    <3>2. q[n] # 0 /\ ~ (n + 2 \in DOMAIN q)
      <4>1. DOMAIN q = 1 .. n + 1
        BY <2>9, LenProperties
      <4> QED
        BY <2>2, <3>1, <4>1
    <3> QED
      BY <3>1, <3>2 DEF InOrder
  <2>6. \A k \in 1 .. Len(q) - 1 : InOrder(q, k)
    <3>1. Len(q) - 1 = n /\ \A k \in 1 .. n : k \in 1 .. n - 1 \/ k = n
      BY <2>9
    <3> QED
      BY <2>4, <2>5, <3>1, Zenon
  <2>7. q[Len(q)] = 0 /\ Len(q) > 1 /\ q[Len(q) - 1] = i
    BY <2>2, <2>9
  <2> QED
    <3>1. q \in Seq(0 .. i + 1) /\ q # <<>> /\ i \in 1 .. i + 1 - 1
      BY <2>9
    <3> QED
      BY <1>6, <2>3, <2>6, <2>7, <3>1 DEF ExactUpTo
<1>7. CASE i + 1 \notin shown /\ p[n] = 0
  <2>1. q = p
    BY <1>1, <1>7 DEF Pushed, Last
  <2>2. Range(q) \ {0} = shown \cap (1 .. i + 1)
    BY <1>7, <2>1 DEF ExactUpTo
  <2>3. q # <<>> /\ Len(q) > 1 /\ q[Len(q) - 1] \in 1 .. i + 1 - 1
    BY <1>2, <1>7, <2>1 DEF ExactUpTo
  <2> QED
    BY <1>1, <1>2, <1>7, <2>1, <2>2, <2>3 DEF ExactUpTo
<1> QED
  BY <1>5, <1>6, <1>7

LEMMA LoopIsExact ==
  ASSUME NEW n \in Nat \ {0}, NEW shown, 1 \in shown, NEW pages, Fills(pages, n, shown)
  PROVE  ExactUpTo(pages[n], n, shown)
<1> DEFINE S == {m \in 0 .. n - 1 : ExactUpTo(pages[m + 1], m + 1, shown)}
<1>1. /\ pages[0] = <<>>
      /\ \A i \in 1 .. n : pages[i] = Pushed(pages[i - 1], i, shown)
  BY DEF Fills
<1>2. 0 \in S
  <2>1. pages[1] = <<1>>
    <3>1. 1 \in 1 .. n /\ pages[1] = Pushed(pages[1 - 1], 1, shown) /\ pages[1 - 1] = <<>>
      BY <1>1
    <3>2. pages[1] = Append(<<>>, 1)
      BY <3>1, Zenon DEF Pushed
    <3> QED
      BY <3>2
  <2>2. ExactUpTo(<<1>>, 1, shown)
    BY DEF ExactUpTo, InOrder, Range
  <2> QED
    BY <2>1, <2>2
<1>3. ASSUME NEW i \in 0 .. n - 1 - 1, i \in S
      PROVE  i + 1 \in S
  <2>1. i + 1 + 1 \in 1 .. n /\ i + 1 + 1 - 1 = i + 1 /\ i + 1 \in Nat \ {0} /\ i + 1 \in 0 .. n - 1
    OBVIOUS
  <2>2. pages[i + 1 + 1] = Pushed(pages[i + 1], i + 1 + 1, shown)
    BY <1>1, <2>1
  <2>3. ExactUpTo(pages[i + 1], i + 1, shown)
    BY <1>3
  <2>4. ExactUpTo(pages[i + 1 + 1], i + 1 + 1, shown)
    BY <2>1, <2>2, <2>3, PushKeepsExact
  <2> QED
    BY <2>1, <2>4
<1> HIDE DEF S
<1>4. 0 .. n - 1 \subseteq S
  BY <1>2, <1>3, Upwards
<1>5. n - 1 \in S /\ n - 1 + 1 = n
  BY <1>4
<1> QED
  BY <1>5 DEF S

\* The loop around the current page ends after two passes.
Window(w, lastPage) ==
  /\ w.lower \in 1 .. lastPage /\ w.upper \in w.lower .. lastPage
  /\ w.b = w.upper - w.lower + 1 /\ w.b =< 3

LEMMA WidenedFacts ==
  ASSUME NEW lastPage \in Nat \ {0}, NEW w, Window(w, lastPage)
  PROVE  LET v == Widened(w, lastPage) IN
         /\ Window(v, lastPage) /\ v.lower =< w.lower /\ w.upper =< v.upper
         /\ v.b >= 3 \/ v.b >= lastPage \/ v.b > w.b
<1> SUFFICES ASSUME NEW v, v = Widened(w, lastPage)
             PROVE  /\ Window(v, lastPage) /\ v.lower =< w.lower /\ w.upper =< v.upper
                    /\ v.b >= 3 \/ v.b >= lastPage \/ v.b > w.b
  OBVIOUS
<1>1. CASE w.b >= 3 \/ w.b >= lastPage
  BY <1>1 DEF Widened, Window, buttons
<1>2. CASE ~ (w.b >= 3 \/ w.b >= lastPage)
  <2>1. w.lower \in Int /\ w.upper \in Int /\ w.b \in Int
    BY DEF Window
  <2>2. CASE w.lower > 1
    <3> DEFINE up == w.b + 1 < 3 /\ w.upper < lastPage
    <3>1. /\ v.lower = w.lower - 1
          /\ v.upper = IF up THEN w.upper + 1 ELSE w.upper
          /\ v.b = IF up THEN w.b + 1 + 1 ELSE w.b + 1
      BY <1>2, <2>2 DEF Widened, buttons
    <3> QED
      BY <2>1, <2>2, <3>1, <1>2 DEF Window
  <2>3. CASE ~ (w.lower > 1)
    <3> DEFINE up == w.b < 3 /\ w.upper < lastPage
    <3>1. /\ v.lower = w.lower
          /\ v.upper = IF up THEN w.upper + 1 ELSE w.upper
          /\ v.b = IF up THEN w.b + 1 ELSE w.b
      BY <1>2, <2>3 DEF Widened, buttons
    <3> QED
      BY <2>1, <2>3, <3>1, <1>2 DEF Window
  <2> QED
    BY <2>2, <2>3
<1> QED
  BY <1>1, <1>2

LEMMA AroundFacts ==
  ASSUME NEW lastPage \in Nat \ {0}, NEW currentPage \in Nat \ {0}
  PROVE  LET w == Around(currentPage, lastPage) IN
         /\ Window(w, lastPage)
         /\ w.b >= 3 \/ w.b >= lastPage
         /\ currentPage =< lastPage => currentPage \in w.lower .. w.upper
<1> DEFINE start == Min({currentPage, lastPage})
           first == [lower |-> start, upper |-> start, b |-> 1]
           second == Widened(first, lastPage)
           third == Widened(second, lastPage)
<1>1. start \in {currentPage, lastPage} /\ start =< currentPage /\ start =< lastPage
  BY MinFacts
<1> HIDE DEF start
<1>2. Window(first, lastPage) /\ first.b = 1 /\ first.lower = start /\ first.upper = start
  BY <1>1 DEF Window
<1> HIDE DEF first
<1>3. /\ Window(second, lastPage) /\ second.lower =< start /\ start =< second.upper
      /\ second.b >= 3 \/ second.b >= lastPage \/ second.b > 1
  BY <1>2, WidenedFacts
<1> HIDE DEF second
<1>4. /\ Window(third, lastPage) /\ third.lower =< second.lower /\ second.upper =< third.upper
      /\ third.b >= 3 \/ third.b >= lastPage \/ third.b > second.b
  BY <1>3, WidenedFacts
<1> HIDE DEF third
<1>5. third = Around(currentPage, lastPage)
  BY DEF third, second, first, start, Around
<1>6. third.lower =< start /\ start =< third.upper /\ second.b =< third.b
      /\ (third.b >= 3 \/ third.b >= lastPage)
  BY <1>1, <1>3, <1>4 DEF Window
<1>7. currentPage =< lastPage => currentPage \in third.lower .. third.upper
  BY <1>1, <1>4, <1>6 DEF Window
<1> QED
  BY <1>4, <1>5, <1>6, <1>7

ShownAround(currentIndex, lastIndex) ==
  LET w == Around(currentIndex + 1, lastIndex + 1) IN
  {1, lastIndex + 1} \cup (w.lower .. w.upper)

LEMMA PaginationFacts ==
  ASSUME NEW currentIndex \in Nat, NEW lastIndex \in Nat
  PROVE  ExactUpTo(pagination(currentIndex, lastIndex), lastIndex + 1,
                   ShownAround(currentIndex, lastIndex))
<1> DEFINE shown == ShownAround(currentIndex, lastIndex)
           n == lastIndex + 1
           filled == CHOOSE pages : Fills(pages, n, shown)
<1>1. Fills(filled, n, shown)
  <2> HIDE DEF shown
  <2> QED
    BY PagesAreDefined
<1>2. pagination(currentIndex, lastIndex) = filled[n]
  BY DEF pagination, Fills, ShownAround
<1>3. 1 \in shown
  BY DEF ShownAround
<1> HIDE DEF shown, filled
<1> QED
  BY <1>1, <1>2, <1>3, LoopIsExact DEF shown

\* The numbers that are shown.
LEMMA NumbersFacts ==
  ASSUME NEW currentIndex \in Nat, NEW lastIndex \in Nat
  PROVE  /\ Range(pagination(currentIndex, lastIndex)) \ {0} = ShownAround(currentIndex, lastIndex)
         /\ ShownAround(currentIndex, lastIndex) \subseteq 1 .. lastIndex + 1
<1>1. ShownAround(currentIndex, lastIndex) \subseteq 1 .. lastIndex + 1
  BY AroundFacts DEF ShownAround, Window
<1>2. Range(pagination(currentIndex, lastIndex)) \ {0}
        = ShownAround(currentIndex, lastIndex) \cap (1 .. lastIndex + 1)
  BY PaginationFacts DEF ExactUpTo
<1> QED
  BY <1>1, <1>2

LEMMA PagesAreExact ==
  ASSUME NEW lastIndex \in Nat, NEW currentIndex \in 0 .. lastIndex
  PROVE  ExactPages(pagination(currentIndex, lastIndex), currentIndex, lastIndex)
<1> DEFINE p == pagination(currentIndex, lastIndex)
           numbers == Range(p) \ {0}
           w == Around(currentIndex + 1, lastIndex + 1)
           shown == ShownAround(currentIndex, lastIndex)
<1>1. numbers = shown /\ shown \subseteq 1 .. lastIndex + 1
  BY NumbersFacts
<1>2. ExactUpTo(p, lastIndex + 1, shown)
  BY PaginationFacts
<1>3. /\ Window(w, lastIndex + 1)
      /\ w.b >= 3 \/ w.b >= lastIndex + 1
      /\ currentIndex + 1 \in w.lower .. w.upper
  BY AroundFacts
<1>4. {1, currentIndex + 1, lastIndex + 1} \subseteq shown
  BY <1>3 DEF ShownAround
<1>5. /\ w.lower \in shown
      /\ currentIndex + 1 \in w.lower .. w.lower + 2
      /\ (w.lower .. w.lower + 2) \cap (1 .. lastIndex + 1) \subseteq shown
  <2>1. w.lower \in 1 .. lastIndex + 1 /\ w.upper \in w.lower .. lastIndex + 1
        /\ w.upper =< w.lower + 2 /\ w.upper \in Int /\ w.lower \in Int
        /\ (w.upper = w.lower + 2 \/ w.upper >= w.lower + lastIndex)
    BY <1>3 DEF Window
  <2>2. w.lower .. w.upper \subseteq shown
    BY DEF ShownAround
  <2> HIDE DEF w, shown
  <2> QED
    BY <1>3, <2>1, <2>2
<1> HIDE DEF p, w, shown
<1>6. ASSUME NEW k \in 1 .. Len(p) - 1
      PROVE  IF p[k + 1] = 0
             THEN k + 2 \in DOMAIN p /\ p[k] > 0 /\ p[k + 2] > p[k] + 1
             ELSE p[k] = 0 \/ p[k + 1] = p[k] + 1
  <2>1. InOrder(p, k)
    BY <1>2 DEF ExactUpTo
  <2>2. Len(p) \in Nat /\ DOMAIN p = 1 .. Len(p)
    BY <1>2, LenProperties DEF ExactUpTo
  <2>3. p[Len(p)] = lastIndex + 1
    BY <1>2, <1>4 DEF ExactUpTo
  <2>4. p[k + 1] = 0 => k + 2 \in 1 .. Len(p)
    BY <2>2, <2>3
  <2> QED
    BY <2>1, <2>2, <2>4 DEF InOrder
<1> QED
  BY <1>1, <1>4, <1>5, <1>6 DEF ExactPages, p, shown

LEMMA TurnableFacts ==
  ASSUME NEW currentIndex \in Nat, NEW lastIndex \in Nat
  PROVE  /\ \A q \in Turnable(currentIndex, lastIndex) : q \in Nat /\ (q =< lastIndex \/ q < currentIndex)
         /\ currentIndex =< lastIndex =>
              ({0, lastIndex, currentIndex - 1, currentIndex + 1} \cap 0 .. lastIndex) \ {currentIndex}
                \subseteq Turnable(currentIndex, lastIndex)
<1> DEFINE shown == ShownAround(currentIndex, lastIndex)
           numbered == {q - 1 : q \in shown}
           down == IF currentIndex # 0 THEN {Max({0, currentIndex - 1})} ELSE {}
           up == IF currentIndex # lastIndex THEN {Min({lastIndex, currentIndex + 1})} ELSE {}
<1>1. shown \subseteq 1 .. lastIndex + 1 /\ {1, lastIndex + 1} \subseteq shown
  BY NumbersFacts DEF ShownAround
<1>2. currentIndex # 0 => Max({0, currentIndex - 1}) = currentIndex - 1
  BY DEF Max
<1>3. /\ Min({lastIndex, currentIndex + 1}) \in {lastIndex, currentIndex + 1}
      /\ Min({lastIndex, currentIndex + 1}) =< lastIndex
      /\ Min({lastIndex, currentIndex + 1}) =< currentIndex + 1
  BY MinFacts
<1>4. Turnable(currentIndex, lastIndex) = numbered \cup down \cup up
  BY NumbersFacts DEF Turnable
<1>5. /\ \A q \in numbered : q \in Nat /\ q =< lastIndex
      /\ \A q \in down : q \in Nat /\ q < currentIndex
      /\ \A q \in up : q \in Nat /\ q =< lastIndex
  <2> HIDE DEF shown
  <2> QED
    BY <1>1, <1>2, <1>3
<1>6. 0 \in numbered /\ lastIndex \in numbered
  <2>1. 0 = 1 - 1 /\ lastIndex = lastIndex + 1 - 1
    OBVIOUS
  <2> HIDE DEF shown
  <2> QED
    BY <1>1, <2>1
<1>7. currentIndex =< lastIndex =>
        /\ currentIndex # 0 => currentIndex - 1 \in down
        /\ currentIndex # lastIndex => currentIndex + 1 \in up
  BY <1>2, <1>3
<1> HIDE DEF numbered, down, up
<1>8. \A q \in numbered \cup down \cup up : q \in Nat /\ (q =< lastIndex \/ q < currentIndex)
  BY <1>5
<1>9. ASSUME currentIndex =< lastIndex,
             NEW q \in ({0, lastIndex, currentIndex - 1, currentIndex + 1} \cap 0 .. lastIndex) \ {currentIndex}
      PROVE  q \in numbered \cup down \cup up
  <2>1. CASE q = currentIndex - 1
    BY <1>7, <1>9, <2>1
  <2>2. CASE q = currentIndex + 1
    BY <1>7, <1>9, <2>2
  <2> QED
    BY <1>6, <2>1, <2>2
<1> QED
  BY <1>4, <1>8, <1>9

-----------------------------------------------------------------------------
(* The list of occupations.                                                  *)

LEMMA SequenceFacts ==
  ASSUME NEW n \in Nat, NEW f, DOMAIN f = 1 .. n, f = [k \in 1 .. n |-> f[k]]
  PROVE  Len(f) = n /\ (f = <<>> <=> n = 0)
<1> DEFINE S == {f[k] : k \in 1 .. n}
<1>1. f \in [1 .. n -> S]
  OBVIOUS
<1>2. f \in Seq(S)
  BY <1>1, SeqDef
<1>3. Len(f) \in Nat /\ DOMAIN f = 1 .. Len(f)
  BY <1>2, LenProperties
<1>4. Len(f) = n
  BY <1>3
<1> QED
  BY <1>2, <1>4, EmptySeq

\* What is found is a list, however it is found.
Found(options) == Len(options) \in Nat /\ DOMAIN options = 1 .. Len(options)
                  /\ (options = <<>> <=> Len(options) = 0)

LEMMA SearchFacts ==
  ASSUME NEW title \in Titles \cup {NoTitle}
  PROVE  Found(searchSOC(title))
<1>1. Found(<<>>)
  BY DEF Found
<1>2. CASE TitleLength(title) =< MinJobTitleLength
  BY <1>1, <1>2 DEF searchSOC
<1>3. CASE ~ (TitleLength(title) =< MinJobTitleLength)
  <2>1. title \in Titles
    BY <1>3 DEF TitleLength, MinJobTitleLength
  <2>2. searchSOC(title) = searchSOCEntries(title)
    BY <1>3, <2>1 DEF searchSOC, Matches
  <2>3. PICK R, place : R \in SUBSET Codes /\ searchSOCEntries(title) = Ordered(R, place)
    BY Zenon DEF searchSOCEntries
  <2>4. Cardinality(R) \in Nat
    <3>1. IsFiniteSet(Codes)
      BY OccupationAssumption, FS_Interval DEF Codes
    <3>2. IsFiniteSet(R)
      BY <2>3, <3>1, FS_Subset
    <3> QED
      BY <3>2, FS_CardinalityType
  <2> QED
    BY <2>2, <2>3, <2>4, SequenceFacts DEF Found, Ordered
<1> QED
  BY <1>2, <1>3

\* The name is the one the present results give; the code was among those she
\* picked it from; the page of the list is one of the list it was turned in.
OccupationInv ==
  /\ list_page \in Nat
  /\ {job_title, debounced, picked_for, turned_for} \subseteq Titles \cup {NoTitle}
  /\ bls_title = NameOf(bls_code, Options)
  /\ bls_code = noCode \/ bls_code \in Range(searchSOC(picked_for))
  /\ list_page = 0 \/ list_page =< LastPageIndex(searchSOC(turned_for))

LEMMA Multiples ==
  ASSUME NEW a \in Int, NEW b \in Int, NEW d \in Nat \ {0}
  PROVE  /\ a * d \in Int /\ (a + 1) * d = a * d + d
         /\ a * d < b * d => a < b
         /\ a =< b => a * d =< b * d
         /\ a \in Nat => a * d \in Nat /\ (a * d) \div d = a
OBVIOUS

LEMMA ListPages ==
  ASSUME NEW options, Found(options), NEW p \in Nat
  PROVE  LET last == LastPageIndex(options) IN
         /\ last \in Int
         /\ options # <<>> => last \in Nat
         /\ p =< last => Visible(options, p) # {}
         /\ \A k \in 1 .. Len(options) :
              (k - 1) \div OccupationsPerPage \in Nat /\ (k - 1) \div OccupationsPerPage =< last
<1> DEFINE d == OccupationsPerPage
           n == Len(options)
           q == (n + d - 1) \div d
<1>1. d \in Nat \ {0} /\ n \in Nat /\ n + d - 1 \in Nat /\ DOMAIN options = 1 .. n
  BY OccupationAssumption DEF Found
<1>2. LastPageIndex(options) = q - 1
  BY DEF LastPageIndex
<1> HIDE DEF d, n
<1>3. q \in Nat /\ q * d =< n + d - 1 /\ n + d - 1 < q * d + d
  BY <1>1, DivFacts
<1>4. (q + 1) * d = q * d + d
  BY <1>1, <1>3, Multiples
<1> HIDE DEF q
<1>5. ASSUME NEW k \in 1 .. n
      PROVE  (k - 1) \div d \in Nat /\ (k - 1) \div d =< q - 1
  <2> DEFINE r == (k - 1) \div d
  <2>1. k - 1 \in Nat /\ r \in Nat /\ r * d =< k - 1
    BY <1>1, DivFacts
  <2> HIDE DEF r
  <2>2. (r + 1) * d = r * d + d /\ r * d \in Int
    BY <1>1, <2>1, Multiples
  <2>3. (r + 1) * d < (q + 1) * d
    BY <1>1, <1>3, <1>4, <2>1, <2>2
  <2>4. r + 1 < q + 1
    BY <1>1, <1>3, <2>1, <2>3, Multiples
  <2> QED
    BY <1>3, <2>1, <2>4 DEF r
<1>6. options # <<>> => q - 1 \in Nat
  <2>1. options # <<>> => n \in 1 .. n
    BY <1>1 DEF Found, n
  <2> QED
    BY <1>3, <1>5, <2>1
<1>7. ASSUME p =< q - 1
      PROVE  Visible(options, p) # {}
  <2>1. (p + 1) * d =< q * d /\ (p + 1) * d = p * d + d /\ p * d \in Nat /\ (p * d) \div d = p
    BY <1>1, <1>3, <1>7, Multiples
  <2>2. p * d + 1 \in 1 .. n
    BY <1>1, <1>3, <2>1
  <2>3. (p * d + 1 - 1) \div d = p
    BY <2>1
  <2>4. p * d + 1 \in {i \in DOMAIN options : (i - 1) \div OccupationsPerPage = p}
    BY <1>1, <2>2, <2>3 DEF d
  <2>5. options[p * d + 1] \in Visible(options, p)
    BY <2>4, Zenon DEF Visible
  <2> QED
    BY <2>5
<1> QED
  BY <1>2, <1>3, <1>5, <1>6, <1>7 DEF n, d

LEMMA VisibleInRange ==
  ASSUME NEW options, NEW p
  PROVE  Visible(options, p) \subseteq Range(options)
BY DEF Visible, Range

\* Where a code is found first, counted from 1, or 0.
FirstPlace(code, options) == SelectInSeq(options, LAMBDA c : c = code)

\* The effect turns to a page of the list, or leaves the page.
LEMMA PageOfFacts ==
  ASSUME NEW options, Found(options), NEW code, NEW p \in Nat
  PROVE  IF FirstPlace(code, options) > 1
         THEN PageOf(code, options, p) \in Nat
              /\ PageOf(code, options, p) =< LastPageIndex(options)
         ELSE PageOf(code, options, p) = p
<1> DEFINE k == FirstPlace(code, options)
<1>1. k \in 0 .. Len(options)
  <2> DEFINE I == {i \in 1 .. Len(options) : options[i] = code}
  <2>1. k = IF I # {} THEN Min(I) ELSE 0
    BY DEF FirstPlace, SelectInSeq
  <2>2. Len(options) \in Nat
    BY DEF Found
  <2>3. I # {} => Min(I) \in I
    BY MinFacts
  <2> QED
    BY <2>1, <2>2, <2>3
<1>2. PageOf(code, options, p) = IF k > 1 THEN (k - 1) \div OccupationsPerPage ELSE p
  BY DEF PageOf, FirstPlace
<1> HIDE DEF k
<1>3. k > 1 => k \in 1 .. Len(options)
  BY <1>1
<1> QED
  BY <1>2, <1>3, ListPages DEF k

LEMMA SearchedIsList ==
  ASSUME OccupationInv
  PROVE  /\ Found(Options) /\ Found(searchSOC(job_title)) /\ Found(searchSOC(turned_for))
         /\ LastPageIndex(Options) \in Int /\ LastPageIndex(searchSOC(turned_for)) \in Int
         /\ list_page \in Nat
<1>1. Found(Options) /\ Found(searchSOC(job_title)) /\ Found(searchSOC(turned_for))
  BY SearchFacts DEF OccupationInv, Options
<1> QED
  BY <1>1, ListPages, 0 \in Nat DEF OccupationInv

LEMMA OccupationStarts ==
  OccupationInit => OccupationInv
BY DEF OccupationInit, OccupationInv, NameOf, noName, noCode

LEMMA SearchKeepsOccupation ==
  ASSUME OccupationInv, Search
  PROVE  OccupationInv'
<1> DEFINE options == searchSOC(job_title)
           k == FirstPlace(bls_code, options)
<1>1. Found(options) /\ list_page \in Nat
  BY SearchedIsList
<1>2. /\ debounced' = job_title /\ bls_title' = NameOf(bls_code, options)
      /\ list_page' = PageOf(bls_code, options, list_page)
      /\ turned_for' = IF k > 1 THEN job_title ELSE turned_for
      /\ job_title' = job_title /\ bls_code' = bls_code /\ picked_for' = picked_for
  BY DEF Search, FirstPlace
<1>3. IF k > 1 THEN list_page' \in Nat /\ list_page' =< LastPageIndex(options)
      ELSE list_page' = list_page
  BY <1>1, <1>2, PageOfFacts
<1>4. Options' = options
  BY <1>2 DEF Options
<1> HIDE DEF k
<1>5. list_page' \in Nat
  BY <1>1, <1>3
<1>6. list_page' = 0 \/ list_page' =< LastPageIndex(searchSOC(turned_for'))
  BY <1>2, <1>3 DEF OccupationInv
<1> QED
  BY <1>2, <1>4, <1>5, <1>6 DEF OccupationInv

LEMMA PickKeepsOccupation ==
  ASSUME OccupationInv, NEW code, Pick(code)
  PROVE  OccupationInv'
<1> DEFINE k == FirstPlace(code, Options)
<1>1. Found(Options) /\ list_page \in Nat
  BY SearchedIsList
<1>2. /\ bls_code' = code /\ bls_title' = NameOf(code, Options)
      /\ list_page' = PageOf(code, Options, list_page)
      /\ picked_for' = debounced /\ turned_for' = debounced
      /\ job_title' = job_title /\ debounced' = debounced
      /\ code \in Visible(Options, list_page)
  BY DEF Pick
<1>3. IF k > 1 THEN list_page' \in Nat /\ list_page' =< LastPageIndex(Options)
      ELSE list_page' = list_page
  BY <1>1, <1>2, PageOfFacts
<1> HIDE DEF k
<1>4. list_page =< LastPageIndex(Options)
  <2>1. PICK i \in DOMAIN Options : (i - 1) \div OccupationsPerPage = list_page
    BY <1>2 DEF Visible
  <2> QED
    BY <1>1, <2>1, ListPages DEF Found
<1>5. Options' = Options
  BY <1>2 DEF Options
<1>6. list_page' \in Nat /\ list_page' =< LastPageIndex(searchSOC(turned_for'))
  BY <1>1, <1>2, <1>3, <1>4 DEF Options
<1>7. bls_code' \in Range(searchSOC(picked_for'))
  BY <1>2, VisibleInRange DEF Options
<1> QED
  BY <1>2, <1>5, <1>6, <1>7 DEF OccupationInv

LEMMA TurnKeepsOccupation ==
  ASSUME OccupationInv, NEW p, TurnTo(p)
  PROVE  OccupationInv'
<1> DEFINE last == LastPageIndex(Options)
           earlier == LastPageIndex(searchSOC(turned_for))
<1>1. last \in Int /\ earlier \in Int /\ list_page \in Nat
  BY SearchedIsList
<1>2. /\ last > 0 /\ p \in Turnable(list_page, last) /\ list_page' = p
      /\ turned_for' = IF p > last THEN turned_for ELSE debounced
      /\ UNCHANGED <<job_title, debounced, bls_code, bls_title, picked_for>>
  BY DEF TurnTo
<1>3. p \in Nat /\ (p =< last \/ p < list_page)
  BY <1>1, <1>2, TurnableFacts
<1>4. Options' = Options
  BY <1>2 DEF Options
<1>5. list_page = 0 \/ list_page =< earlier
  BY DEF OccupationInv
<1>6. CASE p > last
  <2>1. turned_for' = turned_for /\ (list_page' = 0 \/ list_page' =< earlier)
    BY <1>1, <1>2, <1>3, <1>5, <1>6
  <2> HIDE DEF last
  <2> QED
    BY <1>2, <1>3, <1>4, <2>1 DEF OccupationInv
<1>7. CASE ~ (p > last)
  <2>1. turned_for' = debounced /\ list_page' =< last
    BY <1>1, <1>2, <1>3, <1>7
  <2> HIDE DEF earlier
  <2> QED
    BY <1>2, <1>3, <1>4, <2>1 DEF OccupationInv, Options
<1> QED
  BY <1>6, <1>7

LEMMA OccupationStep ==
  ASSUME OccupationInv, OccupationNext \/ UNCHANGED occupationVars
  PROVE  OccupationInv'
<1>1. ASSUME NEW t \in Titles, TypeTitle(t)
      PROVE  OccupationInv'
  BY <1>1 DEF OccupationInv, TypeTitle, Options
<1>2. CASE ReturnToOccupation
  <2>1. Options' = <<>>
    BY <1>2 DEF ReturnToOccupation, Options, searchSOC, TitleLength, MinJobTitleLength
  <2> QED
    BY <1>2, <2>1 DEF ReturnToOccupation, OccupationInv
<1>3. CASE UNCHANGED occupationVars
  BY <1>3 DEF occupationVars, OccupationInv, Options
<1> QED
  BY <1>1, <1>2, <1>3, SearchKeepsOccupation, PickKeepsOccupation, TurnKeepsOccupation
  DEF OccupationNext

LEMMA OccupationInvSays ==
  ASSUME OccupationInv
  PROVE  OccupationIsAsPicked
<1> DEFINE last == LastPageIndex(Options)
<1>1. Found(Options) /\ last \in Int /\ list_page \in Nat
  BY SearchedIsList
<1>2. AcceptedIsNamed
  BY DEF AcceptedIsNamed, OccupationInv, OccupationAccepted, NameOf, Options
<1>3. ResultsAreVisible
  <2> SUFFICES ASSUME Options # <<>>
               PROVE  Visible(Options, list_page) # {} \/ (list_page > last /\ turned_for # debounced)
    BY Zenon DEF ResultsAreVisible
  <2>1. last \in Nat /\ (list_page =< last => Visible(Options, list_page) # {})
    BY <1>1, ListPages
  <2>2. turned_for = debounced => list_page = 0 \/ list_page =< last
    BY DEF OccupationInv, Options
  <2> HIDE DEF last
  <2> QED
    BY <1>1, <2>1, <2>2
<1>4. PaginationIsExact
  <2>1. ASSUME NEW l \in LastPages, NEW current \in 0 .. l
        PROVE  ExactPages(pagination(current, l), current, l)
    BY PagesAreExact, OccupationAssumption
  <2>2. list_page \in 0 .. last =>
          ({0, last, list_page - 1, list_page + 1} \cap 0 .. last) \ {list_page}
            \subseteq Turnable(list_page, last)
    <3> HIDE DEF last
    <3>1. list_page \in 0 .. last => last \in Nat /\ list_page =< last
      BY <1>1
    <3> QED
      BY <1>1, <3>1, TurnableFacts
  <2> QED
    BY <2>1, <2>2, Zenon DEF PaginationIsExact
<1> QED
  BY <1>2, <1>3, <1>4 DEF OccupationIsAsPicked

(* Whatever the SOC holds and whatever she types, a claimant who waits for    *)
(* the search sees what it found and can reach all of it, the page numbers    *)
(* are right for a list of any length, and the occupation she picked is filed *)
(* under its name, with the exceptions that OccupationIsAsPicked states.      *)
THEOREM OccupationAlwaysAsPicked ==
  PagesSpec => []OccupationIsAsPicked
<1>1. PagesInit => OccupationInv
  BY OccupationStarts DEF PagesInit
<1>2. OccupationInv /\ [PagesNext]_pagesVars => OccupationInv'
  <2> SUFFICES ASSUME OccupationInv, [PagesNext]_pagesVars
               PROVE  OccupationNext \/ UNCHANGED occupationVars
    BY OccupationStep
  <2> QED
    BY DEF PagesNext, OnAnswers, OnOtherPay, OnOccupation, OnDate, pagesVars
<1>3. OccupationInv => OccupationIsAsPicked
  BY OccupationInvSays
<1> QED
  BY <1>1, <1>2, <1>3, PTL DEF PagesSpec

-----------------------------------------------------------------------------
(* Other pay.                                                                *)

\* The kinds of pay, with the answer that there is none.
PayType == PayTypes \cup {NoOtherPay}
Amount == [amount : Int, under : PayType]
PayDetail == [pay_type : PayType, total : Amount]

\* Every type once, and no_other_pay alone.
Exclusive(details) ==
  /\ \A i, j \in 1 .. Len(details) : details[i].pay_type = details[j].pay_type => i = j
  /\ \A i \in 1 .. Len(details) : details[i].pay_type = NoOtherPay => Len(details) = 1

None(details) == \E k \in 1 .. Len(details) : details[k].pay_type = NoOtherPay

LEMMA OptionIndexFacts ==
  /\ \A t \in PayType : OptionIndex(t) \in Nat
  /\ \A s, t \in PayType : OptionIndex(s) = OptionIndex(t) => s = t
<1> DEFINE places(t) == {i \in 1 .. Len(PayTypeOrder) : PayTypeOrder[i] = t}
<1>1. /\ Len(PayTypeOrder) \in Nat /\ DOMAIN PayTypeOrder = 1 .. Len(PayTypeOrder)
      /\ \A i \in DOMAIN PayTypeOrder : PayTypeOrder[i] # NoOtherPay
  BY OtherPayAssumption, LenProperties, ElementOfSeq
<1>2. \A t : OptionIndex(t) = IF places(t) # {} THEN Min(places(t)) ELSE 0
  BY DEF OptionIndex, SelectInSeq
<1>3. \A t : places(t) # {} => Min(places(t)) \in places(t)
  <2> TAKE t
  <2>1. places(t) \in SUBSET Nat
    OBVIOUS
  <2> QED
    BY <2>1, MinFacts
<1>4. \A t : places(t) # {} <=> t \in PayTypes
  BY <1>1 DEF PayTypes, Range
<1>5. \A t : IF t \in PayTypes THEN OptionIndex(t) \in places(t) ELSE OptionIndex(t) = 0
  BY <1>2, <1>3, <1>4
<1> QED
  BY <1>1, <1>5 DEF PayType

LEMMA DetailParts ==
  /\ \A d \in PayDetail : /\ d.pay_type \in PayType /\ d.total \in Amount
                          /\ d.total.amount \in Int /\ d.total.under \in PayType
  /\ \A a \in Amount : a.amount \in Int /\ a.under \in PayType
  /\ NoOtherPay \in PayType /\ NoOtherPay \notin PayTypes
  /\ blankAmount \in Amount /\ blankAmount.amount = nothing /\ blankAmount.under = NoOtherPay
  /\ \A t \in PayType : /\ Detail(t) \in PayDetail /\ Detail(t).pay_type = t
                        /\ Detail(t).total = blankAmount
<1>1. NoOtherPay \notin PayTypes
  BY OtherPayAssumption, LenProperties, ElementOfSeq DEF PayTypes, Range
<1>2. NoOtherPay \in PayType
  BY DEF PayType
<1>3. blankAmount \in Amount /\ blankAmount.amount = nothing /\ blankAmount.under = NoOtherPay
  BY <1>2 DEF blankAmount, Amount, nothing
<1>4. \A t \in PayType : /\ Detail(t) \in PayDetail /\ Detail(t).pay_type = t
                         /\ Detail(t).total = blankAmount
  BY <1>3 DEF Detail, PayDetail
<1> QED
  BY <1>1, <1>2, <1>3, <1>4 DEF PayDetail, Amount

LEMMA AmountFacts ==
  /\ \A a \in Int : convertDollarsToCents(a) \in Int /\ convertCentsToDollars(a) \in Int
  /\ \A a \in Typings : a \in Int
  /\ \A a \in Int : ~ yupCurrency(convertDollarsToCents(a)) => convertDollarsToCents(a) = a
  /\ \A a \in Int : ~ yupCurrency(a) => convertCentsToDollars(a) = a
  /\ yupCurrency(nothing)
<1>1. \A a \in Typings : a \in Int
  BY OtherPayAssumption DEF TypedAmounts, nothing
<1>2. \A a \in Int : convertDollarsToCents(a) \in Int /\ convertCentsToDollars(a) \in Int
  BY DEF convertDollarsToCents, convertCentsToDollars
<1>3. \A a \in Int : ~ yupCurrency(convertDollarsToCents(a)) => convertDollarsToCents(a) = a
  BY DEF convertDollarsToCents, Inexact, yupCurrency
<1>4. \A a \in Int : ~ yupCurrency(a) => convertCentsToDollars(a) = a
  BY DEF convertCentsToDollars, yupCurrency, nothing
<1>5. yupCurrency(nothing)
  BY DEF yupCurrency, nothing
<1> QED
  BY <1>1, <1>2, <1>3, <1>4, <1>5

\* `sorted` is `details` in the order of the boxes.
Arranged(sorted, details) ==
  /\ sorted \in [DOMAIN details -> Range(details)]
  /\ Range(sorted) = Range(details)
  /\ \A i, j \in DOMAIN sorted :
       i < j => OptionIndex(sorted[i].pay_type) < OptionIndex(sorted[j].pay_type)

\* The details follow one another as their boxes do.
TopDown(details) ==
  \A i, j \in 1 .. Len(details) :
    i < j => OptionIndex(details[i].pay_type) < OptionIndex(details[j].pay_type)

LEMMA DetailsFacts ==
  ASSUME NEW details \in Seq(PayDetail)
  PROVE  /\ Len(details) \in Nat /\ DOMAIN details = 1 .. Len(details)
         /\ \A i \in 1 .. Len(details) : details[i] \in PayDetail
         /\ details = <<>> <=> Len(details) = 0
BY LenProperties, ElementOfSeq, EmptySeq

\* A detail's place in the order of the boxes: the details that come no later.
LEMMA ArrangementExists ==
  ASSUME NEW details \in Seq(PayDetail), Exclusive(details)
  PROVE  \E sorted : Arranged(sorted, details)
<1> DEFINE N == 1 .. Len(details)
           index(i) == OptionIndex(details[i].pay_type)
           upto(i) == {k \in N : index(k) =< index(i)}
           rank == [i \in N |-> Cardinality(upto(i))]
           sorted == [p \in N |-> details[CHOOSE i \in N : rank[i] = p]]
<1>1. Len(details) \in Nat /\ DOMAIN details = N /\ \A i \in N : details[i].pay_type \in PayType
  BY DetailsFacts, DetailParts
<1>2. \A i \in N : index(i) \in Nat
  BY <1>1, OptionIndexFacts
<1>3. \A i, j \in N : index(i) = index(j) => i = j
  BY <1>1, OptionIndexFacts DEF Exclusive
<1>4. IsFiniteSet(N) /\ Cardinality(N) = Len(details)
  BY <1>1, FS_Interval
<1> HIDE DEF index
<1>5. ASSUME NEW i \in N
      PROVE  /\ IsFiniteSet(upto(i)) /\ Cardinality(upto(i)) \in N /\ i \in upto(i)
  <2>1. upto(i) \in SUBSET N /\ i \in upto(i)
    BY <1>2
  <2>2. IsFiniteSet(upto(i)) /\ Cardinality(upto(i)) =< Len(details) /\ Cardinality(upto(i)) \in Nat
    BY <2>1, <1>4, FS_Subset, FS_CardinalityType
  <2>3. Cardinality(upto(i)) # 0
    BY <2>1, <2>2, FS_EmptySet
  <2> QED
    BY <1>1, <2>1, <2>2, <2>3
<1>6. ASSUME NEW i \in N, NEW j \in N, index(i) < index(j)
      PROVE  Cardinality(upto(i)) < Cardinality(upto(j))
  <2>1. upto(i) \in SUBSET upto(j) /\ j \notin upto(i) /\ j \in upto(j)
    BY <1>2, <1>6
  <2>2. Cardinality(upto(i)) =< Cardinality(upto(j)) /\ Cardinality(upto(i)) # Cardinality(upto(j))
    BY <2>1, <1>5, FS_Subset, Zenon
  <2> HIDE DEF upto
  <2>3. Cardinality(upto(i)) \in N /\ Cardinality(upto(j)) \in N
    BY <1>5
  <2> QED
    BY <2>2, <2>3
<1>7. \A i, j \in N : rank[i] = rank[j] => i = j
  <2> SUFFICES ASSUME NEW i \in N, NEW j \in N, i # j
               PROVE  Cardinality(upto(i)) # Cardinality(upto(j))
    BY Zenon
  <2>1. index(i) < index(j) \/ index(j) < index(i)
    BY <1>2, <1>3
  <2> HIDE DEF upto
  <2>2. Cardinality(upto(i)) \in N /\ Cardinality(upto(j)) \in N
    BY <1>5
  <2> QED
    BY <1>6, <2>1, <2>2
<1>8. \A i \in N : rank[i] = Cardinality(upto(i)) /\ rank[i] \in N
  BY <1>5
<1> HIDE DEF upto
<1>9. rank \in Injection(N, N)
  BY <1>7, <1>8 DEF Injection, IsInjective
<1>10. rank \in Surjection(N, N)
  BY <1>4, <1>9, FS_Injection
<1>11. \A p \in N : \E i \in N : rank[i] = p
  BY <1>10 DEF Surjection
<1>12. \A i \in N : sorted[rank[i]] = details[i]
  <2> TAKE i \in N
  <2>1. (CHOOSE k \in N : rank[k] = rank[i]) = i
    <3> HIDE DEF rank
    <3> QED
      BY <1>7, Zenon
  <2> HIDE DEF rank
  <2> QED
    BY <1>8, <2>1
<1>13. DOMAIN sorted = N
  OBVIOUS
<1> HIDE DEF sorted, rank, N
<1>14. \A p \in N : sorted[p] \in Range(details)
  <2> TAKE p \in N
  <2>1. PICK i \in N : rank[i] = p
    BY <1>11
  <2> QED
    BY <1>1, <1>12, <2>1 DEF Range
<1>15. Range(sorted) = Range(details)
  <2>1. Range(sorted) \subseteq Range(details)
    BY <1>13, <1>14 DEF Range
  <2>2. Range(details) \subseteq Range(sorted)
    BY <1>1, <1>8, <1>12, <1>13 DEF Range
  <2> QED
    BY <2>1, <2>2
<1>16. ASSUME NEW p \in N, NEW q \in N, p < q
       PROVE  OptionIndex(sorted[p].pay_type) < OptionIndex(sorted[q].pay_type)
  <2>1. PICK i \in N : rank[i] = p
    BY <1>11
  <2>2. PICK j \in N : rank[j] = q
    BY <1>11
  <2>3. ~ (index(j) < index(i))
    <3> SUFFICES ASSUME index(j) < index(i)
                 PROVE  FALSE
      OBVIOUS
    <3>1. rank[j] < rank[i]
      BY <1>6, <1>8
    <3>2. p \in Nat /\ q \in Nat
      BY DEF N
    <3> QED
      BY <1>16, <2>1, <2>2, <3>1, <3>2
  <2>4. i # j
    BY <1>16, <2>1, <2>2 DEF N
  <2>5. index(i) < index(j)
    BY <1>2, <1>3, <2>3, <2>4
  <2> QED
    BY <1>12, <2>1, <2>2, <2>5 DEF index
<1>17. sorted \in [DOMAIN details -> Range(details)]
  <2>1. sorted = [p \in N |-> sorted[p]]
    BY DEF sorted
  <2> QED
    BY <1>1, <1>14, <2>1
<1> QED
  BY <1>13, <1>15, <1>16, <1>17 DEF Arranged

\* Details that are in order are arranged as they are.
LEMMA ArrangementUnique ==
  ASSUME NEW details \in Seq(PayDetail), TopDown(details),
         NEW sorted, Arranged(sorted, details)
  PROVE  /\ Arranged(details, details)
         /\ \A i \in 1 .. Len(details) : sorted[i] = details[i]
<1> DEFINE N == 1 .. Len(details)
           index(d) == OptionIndex(d.pay_type)
           wrong == {i \in N : sorted[i] # details[i]}
<1>1. Len(details) \in Nat /\ DOMAIN details = N /\ \A d \in Range(details) : index(d) \in Nat
  BY DetailsFacts, DetailParts, OptionIndexFacts DEF Range
<1>2. /\ DOMAIN sorted = N /\ Range(sorted) = Range(details)
      /\ \A i, j \in N : i < j => index(sorted[i]) < index(sorted[j])
      /\ \A i, j \in N : i < j => index(details[i]) < index(details[j])
  BY <1>1 DEF Arranged, TopDown
<1>3. \A i \in N : sorted[i] \in Range(details) /\ details[i] \in Range(details)
  BY <1>1, <1>2 DEF Range
<1>4. Arranged(details, details)
  <2>1. details \in [DOMAIN details -> Range(details)]
    <3>1. details \in [1 .. Len(details) -> PayDetail]
      BY LenProperties
    <3> QED
      BY <3>1, <1>1, <1>3
  <2> QED
    BY <1>1, <1>2, <2>1 DEF Arranged
<1> HIDE DEF index
<1>5. ASSUME wrong # {}
      PROVE  FALSE
  <2>1. wrong \in SUBSET Nat
    OBVIOUS
  <2>2. PICK i \in wrong : \A n \in wrong : i =< n
    BY <1>5, <2>1, Least
  <2>3. i \in N /\ sorted[i] # details[i] /\ \A n \in N : n < i => sorted[n] = details[n]
    BY <2>2
  <2>4. PICK j \in N : sorted[i] = details[j]
    BY <1>1, <1>3, <2>3 DEF Range
  <2>5. PICK k \in N : details[i] = sorted[k]
    BY <1>2, <1>3, <2>3 DEF Range
  <2>6. /\ index(sorted[i]) \in Nat /\ index(details[i]) \in Nat
        /\ index(sorted[j]) \in Nat /\ index(details[k]) \in Nat
    BY <1>1, <1>3, <2>3
  <2>7. ~ (j < i)
    <3>1. j < i => index(sorted[j]) < index(sorted[i]) /\ sorted[j] = details[j]
      BY <1>2, <2>3
    <3> QED
      BY <2>4, <2>6, <3>1
  <2>8. ~ (k < i)
    <3>1. k < i => index(details[k]) < index(details[i]) /\ sorted[k] = details[k]
      BY <1>2, <2>3
    <3> QED
      BY <2>5, <2>6, <3>1
  <2>9. i < j /\ i < k
    BY <2>3, <2>4, <2>5, <2>7, <2>8
  <2>10. index(sorted[i]) < index(sorted[k]) /\ index(details[i]) < index(details[j])
    BY <1>2, <2>3, <2>9
  <2> QED
    BY <2>4, <2>5, <2>6, <2>10
<1> QED
  BY <1>4, <1>5

\* The sorted copy has the details, and in their order when they are in it.
LEMMA SortFacts ==
  ASSUME NEW details \in Seq(PayDetail), Exclusive(details)
  PROVE  /\ Arranged(sortPayDetails(details), details)
         /\ \A i \in 1 .. Len(details) : sortPayDetails(details)[i].pay_type \in PayType
         /\ TopDown(details) =>
              \A i \in 1 .. Len(details) : sortPayDetails(details)[i] = details[i]
<1> DEFINE sorted == sortPayDetails(details)
<1>1. PICK arrangement : Arranged(arrangement, details)
  BY ArrangementExists
<1>2. Arranged(sorted, details)
  BY <1>1, Zenon DEF Arranged, sortPayDetails
<1>3. \A i \in 1 .. Len(details) : sorted[i] \in Range(details)
  BY <1>2, DetailsFacts DEF Arranged
<1>4. \A d \in Range(details) : d.pay_type \in PayType
  BY DetailsFacts, DetailParts DEF Range
<1> QED
  BY <1>2, <1>3, <1>4, ArrangementUnique

Left(details, type) == RemoveFirstMatch(details, LAMBDA d : d.pay_type = type)

\* The detail of a type is taken out, and those below it move up.
LEMMA RemoveFacts ==
  ASSUME NEW details \in Seq(PayDetail), NEW type,
         \E i \in 1 .. Len(details) : details[i].pay_type = type
  PROVE  LET left == Left(details, type) IN
         /\ left \in Seq(PayDetail) /\ Len(left) = Len(details) - 1
         /\ \E i \in 1 .. Len(details) :
              /\ details[i].pay_type = type
              /\ \A k \in 1 .. Len(left) : left[k] = details[IF k < i THEN k ELSE k + 1]
<1> DEFINE places == {i \in 1 .. Len(details) : details[i].pay_type = type}
           i == SelectInSeq(details, LAMBDA d : d.pay_type = type)
           left == Left(details, type)
           above == SubSeq(details, 1, i - 1)
           below == SubSeq(details, i + 1, Len(details))
<1>1. i = Min(places)
  BY DEF SelectInSeq
<1>2. places \in SUBSET Nat /\ places # {}
  OBVIOUS
<1>3. i \in 1 .. Len(details) /\ details[i].pay_type = type
  BY <1>1, <1>2, MinFacts
<1>4. left = above \o below
  BY DEF Left, RemoveFirstMatch, RemoveAt
<1> HIDE DEF i, left
<1>5. Len(details) \in Nat /\ \A k \in 1 .. Len(details) : details[k] \in PayDetail
  BY DetailsFacts
<1>6. /\ above \in Seq(PayDetail) /\ Len(above) = i - 1
      /\ \A k \in 1 .. i - 1 : above[k] = details[k]
  <2>1. 1 \in Int /\ i - 1 \in Int /\ \A k \in 1 .. i - 1 : details[k] \in PayDetail
    BY <1>3, <1>5
  <2>2. /\ above \in Seq(PayDetail) /\ Len(above) = IF 1 =< i - 1 THEN i - 1 - 1 + 1 ELSE 0
        /\ \A k \in 1 .. i - 1 - 1 + 1 : above[k] = details[1 + k - 1]
    BY <2>1, SubSeqProperties
  <2> HIDE DEF above
  <2> QED
    BY <1>3, <2>2
<1>7. /\ below \in Seq(PayDetail) /\ Len(below) = Len(details) - i
      /\ \A k \in 1 .. Len(details) - i : below[k] = details[i + k]
  <2>1. i + 1 \in Int /\ Len(details) \in Int /\ \A k \in i + 1 .. Len(details) : details[k] \in PayDetail
    BY <1>3, <1>5
  <2>2. /\ below \in Seq(PayDetail)
        /\ Len(below) = IF i + 1 =< Len(details) THEN Len(details) - (i + 1) + 1 ELSE 0
        /\ \A k \in 1 .. Len(details) - (i + 1) + 1 : below[k] = details[i + 1 + k - 1]
    BY <2>1, SubSeqProperties
  <2> HIDE DEF below
  <2> QED
    BY <1>3, <1>5, <2>2
<1> HIDE DEF above, below
<1>8. /\ left \in Seq(PayDetail) /\ Len(left) = Len(details) - 1
      /\ \A k \in 1 .. Len(left) : left[k] = IF k =< i - 1 THEN above[k] ELSE below[k - (i - 1)]
  BY <1>3, <1>4, <1>5, <1>6, <1>7, ConcatProperties
<1>9. ASSUME NEW k \in 1 .. Len(left)
      PROVE  left[k] = details[IF k < i THEN k ELSE k + 1]
  <2>1. CASE k < i
    BY <1>3, <1>6, <1>8, <2>1
  <2>2. CASE ~ (k < i)
    <3>1. k - (i - 1) \in 1 .. Len(details) - i /\ i + (k - (i - 1)) = k + 1
      BY <1>3, <1>5, <1>8, <2>2
    <3> QED
      BY <1>3, <1>7, <1>8, <2>2, <3>1
  <2> QED
    BY <2>1, <2>2
<1> QED
  BY <1>3, <1>8, <1>9 DEF left

\* What the page holds, step for step: a box for each payment; ticked in order
\* the details are in order; what a new box starts from is blank.
Kept(details, shown, saved, ordered, taken_back) ==
  /\ details \in Seq(PayDetail) /\ shown \in Seq(Amount) /\ saved \in Seq(PayDetail)
  /\ ordered \in BOOLEAN /\ taken_back \in BOOLEAN
  /\ Exclusive(details)
  /\ Len(shown) = IF None(details) THEN 0 ELSE Len(details)
  /\ ordered => TopDown(details)
  /\ ordered => \A k \in 1 .. Len(details) :
                  details[k].total.under \in {NoOtherPay, details[k].pay_type}
  /\ ~ taken_back => Len(saved) =< Len(details)
  /\ ~ taken_back => \A k \in 1 .. Len(shown) :
                       ~ yupCurrency(details[k].total.amount) =>
                         shown[k].amount = details[k].total.amount

OtherPayInv == Kept(other_pay, boxes, saved_pay, in_order, unticked)

LEMMA LocalFacts ==
  ASSUME NEW details \in Seq(PayDetail)
  PROVE  /\ \A t : t \in {details[k].pay_type : k \in DOMAIN details} <=>
                     \E k \in 1 .. Len(details) : details[k].pay_type = t
         /\ NoOtherPay \in {details[k].pay_type : k \in DOMAIN details} <=> None(details)
         /\ Exclusive(details) /\ None(details) =>
              Len(details) = 1 /\ details[1].pay_type = NoOtherPay
<1>1. DOMAIN details = 1 .. Len(details) /\ Len(details) \in Nat
  BY DetailsFacts
<1>2. Exclusive(details) /\ None(details) => Len(details) = 1 /\ details[1].pay_type = NoOtherPay
  <2> SUFFICES ASSUME Exclusive(details), None(details)
               PROVE  Len(details) = 1 /\ details[1].pay_type = NoOtherPay
    OBVIOUS
  <2>1. PICK k \in 1 .. Len(details) : details[k].pay_type = NoOtherPay
    BY DEF None
  <2>2. Len(details) = 1
    BY <2>1 DEF Exclusive
  <2>3. k = 1
    BY <2>2
  <2> QED
    BY <2>1, <2>2, <2>3
<1> QED
  BY <1>1, <1>2 DEF None

LEMMA BlankFacts ==
  ASSUME NEW a \in Amount
  PROVE  /\ [a EXCEPT !.amount = convertCentsToDollars(@)] \in Amount
         /\ [a EXCEPT !.amount = convertCentsToDollars(@)].amount = convertCentsToDollars(a.amount)
BY DetailParts, AmountFacts DEF Amount

LEMMA RerenderedFacts ==
  ASSUME OtherPayInv, NEW details \in Seq(PayDetail)
  PROVE  /\ Rerendered(details) \in Seq(Amount)
         /\ Len(Rerendered(details)) =
              IF Len(details) = 1 /\ details[1].pay_type = NoOtherPay THEN 0 ELSE Len(details)
         /\ \A k \in 1 .. Len(Rerendered(details)) :
              /\ k =< Len(boxes) => Rerendered(details)[k] = boxes[k]
              /\ k > Len(boxes) /\ k > Len(saved_pay) => Rerendered(details)[k] = blankAmount
<1> DEFINE box(k) == IF k \in DOMAIN boxes THEN boxes[k]
                     ELSE IF k \in DOMAIN saved_pay
                     THEN [saved_pay[k].total EXCEPT !.amount = convertCentsToDollars(@)]
                     ELSE blankAmount
           rendered == [k \in 1 .. Len(details) |-> box(k)]
<1>1. /\ Len(details) \in Nat /\ DOMAIN details = 1 .. Len(details)
      /\ DOMAIN boxes = 1 .. Len(boxes) /\ Len(boxes) \in Nat
      /\ DOMAIN saved_pay = 1 .. Len(saved_pay) /\ Len(saved_pay) \in Nat
      /\ \A k \in 1 .. Len(boxes) : boxes[k] \in Amount
      /\ \A k \in 1 .. Len(saved_pay) : saved_pay[k].total \in Amount
  <2>1. boxes \in Seq(Amount) /\ saved_pay \in Seq(PayDetail)
    BY DEF OtherPayInv, Kept
  <2> QED
    BY <2>1, DetailsFacts, DetailParts, LenProperties, ElementOfSeq
<1>2. CASE Len(details) = 1 /\ details[1].pay_type = NoOtherPay
  BY <1>2, EmptySeq DEF Rerendered
<1>3. CASE ~ (Len(details) = 1 /\ details[1].pay_type = NoOtherPay)
  <2>1. Rerendered(details) = rendered
    BY <1>1, <1>3 DEF Rerendered
  <2>2. \A k \in 1 .. Len(details) : box(k) \in Amount
    BY <1>1, BlankFacts, DetailParts
  <2>3. \A k \in 1 .. Len(details) :
          /\ k =< Len(boxes) => box(k) = boxes[k]
          /\ k > Len(boxes) /\ k > Len(saved_pay) => box(k) = blankAmount
    BY <1>1
  <2> HIDE DEF box
  <2>4. rendered \in [1 .. Len(details) -> Amount]
    BY <2>2
  <2>5. rendered \in Seq(Amount)
    BY <1>1, <2>4, SeqDef
  <2>6. Len(rendered) = Len(details)
    BY <1>1, <2>4, <2>5, LenProperties
  <2>7. \A k \in 1 .. Len(details) : rendered[k] = box(k)
    OBVIOUS
  <2> HIDE DEF rendered
  <2> QED
    BY <1>3, <2>1, <2>3, <2>5, <2>6, <2>7
<1> QED
  BY <1>2, <1>3

LEMMA OtherPayStarts ==
  OtherPayInit => OtherPayInv
<1>1. <<>> \in Seq(PayDetail) /\ <<>> \in Seq(Amount) /\ Len(<<>>) = 0
  BY EmptySeq
<1>2. Exclusive(<<>>) /\ ~ None(<<>>) /\ TopDown(<<>>)
  BY <1>1 DEF Exclusive, None, TopDown
<1>3. Kept(<<>>, <<>>, <<>>, TRUE, FALSE)
  BY <1>1, <1>2 DEF Kept
<1> QED
  BY <1>3 DEF OtherPayInit, OtherPayInv

LEMMA TickKeeps ==
  ASSUME OtherPayInv, NEW type, Tick(type)
  PROVE  OtherPayInv'
<1> DEFINE n == Len(other_pay)
           details == Append(other_pay, Detail(type))
           shown == Rerendered(details)
<1>1. Kept(other_pay, boxes, saved_pay, in_order, unticked)
  BY DEF OtherPayInv
<1>2. other_pay \in Seq(PayDetail) /\ n \in Nat /\ DOMAIN other_pay = 1 .. n
      /\ (other_pay = <<>> <=> n = 0)
  BY <1>1, DetailsFacts DEF Kept
<1>3. /\ type \in PayType /\ type # NoOtherPay /\ ~ None(other_pay)
      /\ \A k \in 1 .. n : other_pay[k].pay_type # type
  <2>1. type \in PayTypes /\ type \notin LOCAL_pay_types /\ ~ Disabled(type)
    BY DEF Tick
  <2>2. type \in PayType /\ type # NoOtherPay
    BY <2>1, DetailParts DEF PayType
  <2>3. NoOtherPay \notin LOCAL_pay_types
    BY <2>1, <2>2 DEF Disabled
  <2> QED
    BY <1>2, <2>1, <2>2, <2>3, LocalFacts DEF LOCAL_pay_types
<1>4. /\ Detail(type) \in PayDetail /\ Detail(type).pay_type = type
      /\ Detail(type).total.amount = nothing /\ Detail(type).total.under = NoOtherPay
  BY <1>3, DetailParts
<1>5. /\ details \in Seq(PayDetail) /\ Len(details) = n + 1
      /\ \A k \in 1 .. n : details[k] = other_pay[k]
      /\ details[n + 1] = Detail(type)
  BY <1>2, <1>4, AppendProperties
<1>6. /\ other_pay' = details /\ boxes' = shown
      /\ saved_pay' = saved_pay /\ unticked' = unticked
      /\ in_order' \in BOOLEAN
      /\ in_order' => other_pay = <<>> \/ (in_order /\ \A t \in LOCAL_pay_types :
                                                       OptionIndex(t) < OptionIndex(type))
  BY DEF Tick, Show
<1> HIDE DEF details
<1>7. \A k \in 1 .. n + 1 : k \in 1 .. n \/ k = n + 1
  BY <1>2
<1>8. \A k \in 1 .. n + 1 : details[k].pay_type # NoOtherPay
  BY <1>3, <1>4, <1>5, <1>7 DEF None
<1>9. Exclusive(details) /\ ~ None(details)
  <2>1. ASSUME NEW i \in 1 .. n + 1, NEW j \in 1 .. n + 1, details[i].pay_type = details[j].pay_type
        PROVE  i = j
    BY <1>1, <1>3, <1>4, <1>5, <1>7, <2>1 DEF Kept, Exclusive
  <2> QED
    BY <1>5, <1>8, <2>1 DEF Exclusive, None
<1>10. Len(boxes) = n
  BY <1>1, <1>3 DEF Kept
<1>11. /\ shown \in Seq(Amount) /\ Len(shown) = n + 1
       /\ \A k \in 1 .. n : shown[k] = boxes[k]
       /\ n + 1 > Len(saved_pay) => shown[n + 1] = blankAmount
  <2>1. /\ shown \in Seq(Amount)
        /\ Len(shown) = IF Len(details) = 1 /\ details[1].pay_type = NoOtherPay THEN 0
                        ELSE Len(details)
        /\ \A k \in 1 .. Len(shown) :
             /\ k =< Len(boxes) => shown[k] = boxes[k]
             /\ k > Len(boxes) /\ k > Len(saved_pay) => shown[k] = blankAmount
    BY <1>5, RerenderedFacts
  <2> HIDE DEF shown
  <2>2. Len(details) = 1 => details[1].pay_type # NoOtherPay
    BY <1>2, <1>5, <1>8
  <2> QED
    BY <1>2, <1>5, <1>10, <2>1, <2>2
<1> HIDE DEF shown
<1>12. in_order' => TopDown(details)
  <2> SUFFICES ASSUME in_order', NEW i \in 1 .. n + 1, NEW j \in 1 .. n + 1, i < j
               PROVE  OptionIndex(details[i].pay_type) < OptionIndex(details[j].pay_type)
    BY <1>5 DEF TopDown
  <2>1. i \in 1 .. n /\ n # 0
    BY <1>2
  <2>2. in_order /\ OptionIndex(other_pay[i].pay_type) < OptionIndex(type)
    BY <1>2, <1>6, <2>1 DEF LOCAL_pay_types
  <2>3. CASE j \in 1 .. n
    BY <1>1, <1>5, <2>1, <2>2, <2>3 DEF Kept, TopDown
  <2>4. CASE j = n + 1
    BY <1>4, <1>5, <2>1, <2>2, <2>4
  <2> QED
    BY <1>7, <2>3, <2>4
<1>13. in_order' => \A k \in 1 .. n + 1 : details[k].total.under \in {NoOtherPay, details[k].pay_type}
  <2>1. ASSUME in_order', NEW k \in 1 .. n
        PROVE  details[k].total.under \in {NoOtherPay, details[k].pay_type}
    <3>1. n # 0
      BY <1>2
    <3> QED
      BY <1>1, <1>2, <1>5, <1>6, <2>1, <3>1 DEF Kept
  <2> QED
    BY <1>4, <1>5, <1>7, <2>1
<1>14. ~ unticked => Len(saved_pay) =< n
  BY <1>1 DEF Kept
<1>15. ~ unticked => \A k \in 1 .. n + 1 : ~ yupCurrency(details[k].total.amount) =>
                       shown[k].amount = details[k].total.amount
  <2>1. \A k \in 1 .. n : ~ unticked /\ ~ yupCurrency(details[k].total.amount) =>
                       shown[k].amount = details[k].total.amount
    BY <1>1, <1>5, <1>10, <1>11 DEF Kept
  <2>2. yupCurrency(details[n + 1].total.amount)
    BY <1>4, <1>5, AmountFacts
  <2> QED
    BY <1>7, <2>1, <2>2
<1>16. ~ unticked => Len(saved_pay) =< n + 1
  <2>1. Len(saved_pay) \in Nat
    BY <1>1, DetailsFacts DEF Kept
  <2> QED
    BY <1>2, <1>14, <2>1
<1>17. saved_pay \in Seq(PayDetail) /\ unticked \in BOOLEAN
  BY <1>1 DEF Kept
<1>18. Kept(details, shown, saved_pay, in_order', unticked)
  BY <1>5, <1>6, <1>9, <1>11, <1>12, <1>13, <1>15, <1>16, <1>17 DEF Kept
<1> QED
  BY <1>6, <1>18 DEF OtherPayInv

LEMMA TickNoOtherPayKeeps ==
  ASSUME OtherPayInv, TickNoOtherPay
  PROVE  OtherPayInv'
<1> DEFINE details == <<Detail(NoOtherPay)>>
           shown == Rerendered(details)
<1>1. Kept(other_pay, boxes, saved_pay, in_order, unticked)
  BY DEF OtherPayInv
<1>2. /\ details \in Seq(PayDetail) /\ Len(details) = 1
      /\ details[1].pay_type = NoOtherPay /\ details[1].total.under = NoOtherPay
  BY DetailParts
<1>3. /\ other_pay' = details /\ boxes' = shown /\ saved_pay' = saved_pay
      /\ in_order' = TRUE /\ unticked' = (unticked \/ other_pay # <<>>)
  BY DEF TickNoOtherPay, Show
<1>4. shown \in Seq(Amount) /\ Len(shown) = 0
  BY <1>2, RerenderedFacts
<1> HIDE DEF details, shown
<1>5. Exclusive(details) /\ None(details) /\ TopDown(details)
  BY <1>2 DEF Exclusive, None, TopDown
<1>6. ~ unticked' => Len(saved_pay) =< Len(details)
  <2>1. ~ unticked' => Len(saved_pay) =< Len(other_pay) /\ Len(other_pay) = 0
    BY <1>1, <1>3, DetailsFacts DEF Kept
  <2>2. Len(saved_pay) \in Nat
    BY <1>1, DetailsFacts DEF Kept
  <2> QED
    BY <1>2, <2>1, <2>2
<1>7. Kept(details, shown, saved_pay, in_order', unticked')
  BY <1>1, <1>2, <1>3, <1>4, <1>5, <1>6 DEF Kept
<1> QED
  BY <1>3, <1>7 DEF OtherPayInv

LEMMA UntickKeeps ==
  ASSUME OtherPayInv, NEW type, Untick(type)
  PROVE  OtherPayInv'
<1> DEFINE n == Len(other_pay)
           details == Left(other_pay, type)
           shown == Rerendered(details)
<1>1. Kept(other_pay, boxes, saved_pay, in_order, unticked)
  BY DEF OtherPayInv
<1>2. other_pay \in Seq(PayDetail) /\ n \in Nat /\ Exclusive(other_pay)
  BY <1>1, DetailsFacts DEF Kept
<1>3. \E i \in 1 .. n : other_pay[i].pay_type = type
  BY <1>2, LocalFacts DEF Untick, LOCAL_pay_types
<1>4. /\ other_pay' = details /\ boxes' = shown /\ saved_pay' = saved_pay
      /\ in_order' = in_order /\ unticked' = TRUE
  BY DEF Untick, Show, Left
<1>5. details \in Seq(PayDetail) /\ Len(details) = n - 1
  BY <1>2, <1>3, RemoveFacts
<1>6. PICK i \in 1 .. n :
        /\ other_pay[i].pay_type = type
        /\ \A k \in 1 .. Len(details) : details[k] = other_pay[IF k < i THEN k ELSE k + 1]
  BY <1>2, <1>3, RemoveFacts
<1> HIDE DEF details
<1> DEFINE was(k) == IF k < i THEN k ELSE k + 1
<1>7. /\ \A k \in 1 .. n - 1 : was(k) \in 1 .. n /\ details[k] = other_pay[was(k)]
      /\ \A j, k \in 1 .. n - 1 : was(j) = was(k) => j = k
      /\ \A j, k \in 1 .. n - 1 : j < k => was(j) < was(k)
  BY <1>2, <1>5, <1>6
<1> HIDE DEF was
<1>8. ~ None(details)
  <2> SUFFICES ASSUME NEW k \in 1 .. n - 1, details[k].pay_type = NoOtherPay
               PROVE  FALSE
    BY <1>5 DEF None
  <2>1. n = 1
    BY <1>2, <1>7 DEF Exclusive
  <2> QED
    BY <2>1
<1>9. Exclusive(details)
  <2>1. \A j, k \in 1 .. n - 1 : details[j].pay_type = details[k].pay_type => j = k
    BY <1>2, <1>7 DEF Exclusive
  <2> QED
    BY <1>5, <1>8, <2>1 DEF Exclusive, None
<1>10. in_order => TopDown(details)
  <2> SUFFICES ASSUME in_order, NEW j \in 1 .. n - 1, NEW k \in 1 .. n - 1, j < k
               PROVE  OptionIndex(details[j].pay_type) < OptionIndex(details[k].pay_type)
    BY <1>5 DEF TopDown
  <2>1. was(j) \in 1 .. n /\ was(k) \in 1 .. n /\ was(j) < was(k)
        /\ details[j] = other_pay[was(j)] /\ details[k] = other_pay[was(k)]
    BY <1>7
  <2> QED
    BY <1>1, <2>1 DEF Kept, TopDown
<1>11. in_order => \A k \in 1 .. Len(details) :
                     details[k].total.under \in {NoOtherPay, details[k].pay_type}
  BY <1>1, <1>5, <1>7 DEF Kept
<1>12. shown \in Seq(Amount) /\ Len(shown) = Len(details)
  <2>1. ~ (Len(details) = 1 /\ details[1].pay_type = NoOtherPay)
    BY <1>8 DEF None
  <2> QED
    BY <1>5, <2>1, RerenderedFacts
<1> HIDE DEF shown
<1>13. Kept(details, shown, saved_pay, in_order, TRUE)
  BY <1>1, <1>5, <1>8, <1>9, <1>10, <1>11, <1>12 DEF Kept
<1> QED
  BY <1>4, <1>13 DEF OtherPayInv
LEMMA TypeAmountKeeps ==
  ASSUME OtherPayInv, NEW k \in DOMAIN boxes, NEW a \in Typings, TypeAmount(k, a)
  PROVE  OtherPayInv'
<1> DEFINE n == Len(other_pay)
           under == IF a = nothing THEN NoOtherPay ELSE Heading(k)
           entered == [amount |-> a, under |-> under]
           total == [amount |-> convertDollarsToCents(a), under |-> under]
           changed == [other_pay[k] EXCEPT !.total = total]
           details == [other_pay EXCEPT ![k] = changed]
           shown == [boxes EXCEPT ![k] = entered]
<1>1. Kept(other_pay, boxes, saved_pay, in_order, unticked)
  BY DEF OtherPayInv
<1>2. /\ other_pay \in Seq(PayDetail) /\ n \in Nat /\ DOMAIN other_pay = 1 .. n
      /\ boxes \in Seq(Amount) /\ DOMAIN boxes = 1 .. Len(boxes) /\ Len(boxes) \in Nat
      /\ Exclusive(other_pay)
  BY <1>1, DetailsFacts, LenProperties DEF Kept
<1>3. ~ None(other_pay) /\ Len(boxes) = n /\ k \in 1 .. n
  <2>1. Len(boxes) # 0
    BY <1>2
  <2> QED
    BY <1>1, <1>2, <2>1 DEF Kept
<1>4. other_pay' = details /\ boxes' = shown /\ UNCHANGED <<saved_pay, in_order, unticked>>
  BY DEF TypeAmount
<1>5. Heading(k) \in PayType /\ (in_order => Heading(k) = other_pay[k].pay_type)
  BY <1>1, <1>2, <1>3, SortFacts DEF Heading, Kept
<1>6. under \in PayType /\ (in_order => under \in {NoOtherPay, other_pay[k].pay_type})
  BY <1>5, DetailParts
<1> HIDE DEF under
<1>7. a \in Int /\ convertDollarsToCents(a) \in Int
  BY AmountFacts
<1>8. entered \in Amount /\ total \in Amount /\ entered.amount = a
      /\ total.amount = convertDollarsToCents(a) /\ total.under = under
  BY <1>6, <1>7 DEF Amount
<1> HIDE DEF entered, total
<1>9. changed \in PayDetail /\ changed.pay_type = other_pay[k].pay_type /\ changed.total = total
  <2>1. other_pay[k] \in PayDetail
    BY <1>2, <1>3, DetailsFacts
  <2> QED
    BY <1>8, <2>1 DEF PayDetail
<1> HIDE DEF changed
<1>10. /\ details \in Seq(PayDetail) /\ Len(details) = n
       /\ \A j \in 1 .. n : details[j] = IF j = k THEN changed ELSE other_pay[j]
  BY <1>2, <1>3, <1>9, ExceptSeq
<1>11. /\ shown \in Seq(Amount) /\ Len(shown) = n
       /\ \A j \in 1 .. n : shown[j] = IF j = k THEN entered ELSE boxes[j]
  BY <1>2, <1>3, <1>8, ExceptSeq
<1> HIDE DEF details, shown
<1>12. \A j \in 1 .. n : details[j].pay_type = other_pay[j].pay_type
  BY <1>9, <1>10
<1>13. Exclusive(details) /\ ~ None(details) /\ (in_order => TopDown(details))
  BY <1>1, <1>2, <1>3, <1>10, <1>12 DEF Exclusive, None, TopDown, Kept
<1>14. in_order => \A j \in 1 .. n : details[j].total.under \in {NoOtherPay, details[j].pay_type}
  BY <1>1, <1>6, <1>8, <1>9, <1>10, <1>12 DEF Kept
<1>15. ~ unticked => \A j \in 1 .. n : ~ yupCurrency(details[j].total.amount) =>
                       shown[j].amount = details[j].total.amount
  <2>1. ~ yupCurrency(changed.total.amount) => entered.amount = changed.total.amount
    BY <1>7, <1>8, <1>9, AmountFacts
  <2> QED
    BY <1>1, <1>3, <1>10, <1>11, <2>1 DEF Kept
<1>16. Kept(details, shown, saved_pay, in_order, unticked)
  BY <1>1, <1>10, <1>11, <1>13, <1>14, <1>15 DEF Kept
<1> QED
  BY <1>4, <1>16 DEF OtherPayInv

LEMMA ReturnKeeps ==
  ASSUME OtherPayInv, ReturnToOtherPay
  PROVE  OtherPayInv'
<1> DEFINE n == Len(other_pay)
           filled == [k \in 1 .. n |->
                        [other_pay[k].total EXCEPT !.amount = convertCentsToDollars(@)]]
           shown == IF LOCAL_pay_types = {NoOtherPay} THEN <<>> ELSE filled
<1>1. Kept(other_pay, boxes, saved_pay, in_order, unticked)
  BY DEF OtherPayInv
<1>2. /\ other_pay \in Seq(PayDetail) /\ n \in Nat /\ DOMAIN other_pay = 1 .. n
      /\ Exclusive(other_pay) /\ \A k \in 1 .. n : other_pay[k].total \in Amount
  BY <1>1, DetailsFacts, DetailParts DEF Kept
<1>3. /\ other_pay' = other_pay /\ saved_pay' = other_pay /\ in_order' = in_order
      /\ unticked' = FALSE /\ boxes' = shown
  BY <1>2 DEF ReturnToOtherPay
<1>4. LOCAL_pay_types = {NoOtherPay} <=> None(other_pay)
  <2>1. NoOtherPay \in LOCAL_pay_types <=> None(other_pay)
    BY <1>2, LocalFacts DEF LOCAL_pay_types
  <2>2. None(other_pay) => Len(other_pay) = 1 /\ other_pay[1].pay_type = NoOtherPay
    BY <1>2, LocalFacts
  <2>3. None(other_pay) => LOCAL_pay_types \subseteq {NoOtherPay}
    <3>1. None(other_pay) => \A k \in DOMAIN other_pay : other_pay[k].pay_type = NoOtherPay
      <4>1. \A k \in 1 .. 1 : k = 1
        OBVIOUS
      <4> QED
        BY <1>2, <2>2, <4>1
    <3> QED
      BY <3>1 DEF LOCAL_pay_types
  <2> QED
    BY <2>1, <2>3
<1>5. \A k \in 1 .. n : /\ filled[k] \in Amount
                        /\ filled[k].amount = convertCentsToDollars(other_pay[k].total.amount)
  BY <1>2, BlankFacts
<1>6. filled \in Seq(Amount) /\ Len(filled) = n
  <2>1. filled = [k \in 1 .. n |-> filled[k]]
    OBVIOUS
  <2>2. DOMAIN filled = 1 .. n
    OBVIOUS
  <2> HIDE DEF filled
  <2>3. filled \in [1 .. n -> Amount]
    BY <1>5, <2>1
  <2> QED
    BY <1>2, <2>3, <2>2, <2>1, SeqDef, SequenceFacts
<1> HIDE DEF filled
<1>7. /\ shown \in Seq(Amount) /\ Len(shown) = IF None(other_pay) THEN 0 ELSE n
      /\ \A k \in 1 .. Len(shown) : shown[k] = filled[k] /\ k \in 1 .. n
  BY <1>4, <1>6, EmptySeq
<1>8. \A k \in 1 .. n : ~ yupCurrency(other_pay[k].total.amount) =>
                          filled[k].amount = other_pay[k].total.amount
  BY <1>2, <1>5, DetailParts, AmountFacts
<1> HIDE DEF shown
<1>9. Kept(other_pay, shown, other_pay, in_order, FALSE)
  BY <1>1, <1>2, <1>7, <1>8 DEF Kept
<1> QED
  BY <1>3, <1>9 DEF OtherPayInv

LEMMA OtherPayStep ==
  ASSUME OtherPayInv, OtherPayNext \/ UNCHANGED otherPayVars
  PROVE  OtherPayInv'
<1>1. CASE UNCHANGED otherPayVars
  BY <1>1 DEF otherPayVars, OtherPayInv
<1> QED
  BY <1>1, TickKeeps, TickNoOtherPayKeeps, UntickKeeps, TypeAmountKeeps, ReturnKeeps
  DEF OtherPayNext

LEMMA OtherPayInvSays ==
  ASSUME OtherPayInv
  PROVE  OtherPayIsAsEntered
<1> DEFINE n == Len(other_pay)
           types == [k \in 1 .. n |-> other_pay[k].pay_type]
<1>1. /\ Kept(other_pay, boxes, saved_pay, in_order, unticked)
      /\ other_pay \in Seq(PayDetail) /\ n \in Nat /\ DOMAIN other_pay = 1 .. n
      /\ boxes \in Seq(Amount) /\ DOMAIN boxes = 1 .. Len(boxes)
      /\ Exclusive(other_pay)
  BY DetailsFacts, LenProperties DEF OtherPayInv, Kept
<1>2. NoOtherPay \in LOCAL_pay_types => n = 1
  BY <1>1, LocalFacts DEF LOCAL_pay_types
<1>3. Cardinality(LOCAL_pay_types) = n
  <2>1. LOCAL_pay_types = {types[k] : k \in 1 .. n}
    BY <1>1 DEF LOCAL_pay_types
  <2>2. \A i, j \in 1 .. n : types[i] = types[j] => i = j
    BY <1>1 DEF Exclusive
  <2>3. DOMAIN types = 1 .. n /\ types = [k \in 1 .. n |-> types[k]]
    OBVIOUS
  <2> HIDE DEF types
  <2>4. types \in Bijection(1 .. n, LOCAL_pay_types)
    <3>1. types \in [1 .. n -> LOCAL_pay_types]
      BY <2>1, <2>3
    <3>2. \A t \in LOCAL_pay_types : \E k \in 1 .. n : types[k] = t
      BY <2>1
    <3>3. IsInjective(types)
      BY <2>2, <2>3 DEF IsInjective
    <3>4. types \in Injection(1 .. n, LOCAL_pay_types)
      BY <3>1, <3>3 DEF Injection
    <3>5. types \in Surjection(1 .. n, LOCAL_pay_types)
      BY <3>1, <3>2 DEF Surjection
    <3> QED
      BY <3>4, <3>5 DEF Bijection
  <2>5. IsFiniteSet(1 .. n) /\ Cardinality(1 .. n) = n
    <3>1. n \in Nat
      BY <1>1
    <3> HIDE DEF n
    <3> QED
      BY <3>1, FS_Interval
  <2> QED
    BY <2>4, <2>5, FS_Bijection DEF ExistsBijection
<1>4. NoOtherPayIsAlone
  BY <1>2, <1>3 DEF NoOtherPayIsAlone
<1>5. AmountIsOfItsType
  BY <1>1 DEF AmountIsOfItsType, Kept
<1>6. BoxShowsAmount
  BY <1>1 DEF BoxShowsAmount, Kept
<1> QED
  BY <1>4, <1>5, <1>6 DEF OtherPayIsAsEntered

(* Whatever the types of pay are, and whichever amounts she enters, takes     *)
(* back and comes back to: "no other pay" is alone, no type is filed twice,   *)
(* an amount goes to the type it was entered for and is the one in its box,   *)
(* with the exceptions that OtherPayIsAsEntered states.                       *)
THEOREM OtherPayAlwaysAsEntered ==
  PagesSpec => []OtherPayIsAsEntered
<1>1. PagesInit => OtherPayInv
  BY OtherPayStarts DEF PagesInit
<1>2. OtherPayInv /\ [PagesNext]_pagesVars => OtherPayInv'
  <2> SUFFICES ASSUME OtherPayInv, [PagesNext]_pagesVars
               PROVE  OtherPayNext \/ UNCHANGED otherPayVars
    BY OtherPayStep
  <2> QED
    BY DEF PagesNext, OnAnswers, OnOtherPay, OnOccupation, OnDate, pagesVars
<1>3. OtherPayInv => OtherPayIsAsEntered
  BY OtherPayInvSays
<1> QED
  BY <1>1, <1>2, <1>3, PTL DEF PagesSpec

-----------------------------------------------------------------------------
(* The birthdate.                                                            *)

DateBoxes == [year : Years, month : Months \cup {"02"}, day : DaysOfMonth \cup {"03"}]

Slashed(value) == \E part \in DOMAIN value : HasSlash(value[part])

\* The boxes show the value, or they came up empty: there is none yet, or one
\* with a slash in it.
DateInv ==
  /\ date_boxes \in DateBoxes
  /\ DOMAIN birthdate = {"year", "month", "day"}
  /\ \/ birthdate = updateFormik(date_boxes)
     \/ date_boxes = emptyBoxes /\ birthdate = none_date
     \/ date_boxes = emptyBoxes /\ Slashed(birthdate)

\* What an effect wrote comes back into the boxes as it was written, and the
\* effect would write it again.
LEMMA DateComesBack ==
  ASSUME NEW typed \in DateBoxes, ~ Slashed(updateFormik(typed))
  PROVE  /\ parsedInitialValue(updateFormik(typed)) \in DateBoxes
         /\ updateFormik(parsedInitialValue(updateFormik(typed))) = updateFormik(typed)
<1>1. CASE typed = emptyBoxes
  <2>1. updateFormik(typed) = blank_date
    BY <1>1 DEF updateFormik
  <2>2. parsedInitialValue(blank_date) = emptyBoxes
    BY DEF parsedInitialValue
  <2>3. emptyBoxes \in DateBoxes
    BY DEF DateBoxes, emptyBoxes, Years, Months, DaysOfMonth
  <2> QED
    BY <1>1, <2>1, <2>2, <2>3
<1>2. CASE typed # emptyBoxes
  <2> DEFINE value == [year |-> typed.year, month |-> Padded(typed.month),
                       day |-> Padded(typed.day)]
  <2>1. updateFormik(typed) = value
    BY <1>2 DEF updateFormik
  <2>2. /\ typed.year \in Years
        /\ typed.month \in Months \cup {"02"}
        /\ typed.day \in DaysOfMonth \cup {"03"}
    BY DEF DateBoxes
  <2>3. Padded(typed.month) \in Months \cup {"02"} /\ Padded(typed.day) \in {"", "03", "31", "0/"}
    BY <2>2 DEF Padded, Months, DaysOfMonth
  <2>4. ~ HasSlash(value.day)
    BY <2>1 DEF Slashed
  <2>5. value \in DateBoxes
    BY <2>2, <2>3, <2>4 DEF DateBoxes, HasSlash, DaysOfMonth
  <2>6. Padded(value.month) = value.month /\ Padded(value.day) = value.day
    BY <2>2, <2>3, <2>4 DEF Padded, Months, DaysOfMonth, HasSlash
  <2>7. value \notin {none_date, blank_date, emptyBoxes}
    <3>1. value.year \in Years /\ value.month = Padded(typed.month)
          /\ value.day = Padded(typed.day)
      BY <2>2
    <3>2. value.year \notin {none, blank}
      BY <3>1 DEF Years, none, blank
    <3>3. ~ (value.year = "" /\ value.month = "" /\ value.day = "")
      <4> SUFFICES ASSUME typed.year = "", Padded(typed.month) = "", Padded(typed.day) = ""
                   PROVE  FALSE
        BY <3>1
      <4>1. typed.month = "" /\ typed.day = ""
        BY <2>2 DEF Padded, Months, DaysOfMonth
      <4>2. typed = emptyBoxes
        BY <4>1 DEF emptyBoxes, DateBoxes
      <4> QED
        BY <4>2, <1>2
    <3> QED
      BY <3>2, <3>3 DEF none_date, blank_date, emptyBoxes
  <2>8. parsedInitialValue(value) = value
    BY <2>1, <2>7 DEF parsedInitialValue, Slashed
  <2>9. updateFormik(value) = value
    BY <2>6, <2>7 DEF updateFormik
  <2> QED
    BY <2>1, <2>5, <2>8, <2>9
<1> QED
  BY <1>1, <1>2

LEMMA DateParts ==
  /\ emptyBoxes \in DateBoxes
  /\ DOMAIN none_date = {"year", "month", "day"}
  /\ \A typed : DOMAIN updateFormik(typed) = {"year", "month", "day"}
BY DEF emptyBoxes, DateBoxes, Years, Months, DaysOfMonth, none_date, updateFormik, blank_date

LEMMA DateStep ==
  ASSUME DateInv, DateNext \/ UNCHANGED dateVars
  PROVE  DateInv'
<1>1. ASSUME NEW part \in {"year", "month", "day"}, NEW text, TypeInBox(part, text),
             text \in (CASE part = "year" -> Years [] part = "month" -> Months
                         [] part = "day" -> DaysOfMonth)
      PROVE  DateInv'
  <2>1. date_boxes' \in DateBoxes
    BY <1>1 DEF TypeInBox, DateInv, DateBoxes
  <2> QED
    BY <1>1, <2>1, DateParts DEF TypeInBox, DateInv
<1>2. CASE ReturnToDate
  <2>1. birthdate' = birthdate /\ date_boxes' = parsedInitialValue(birthdate)
    BY <1>2 DEF ReturnToDate
  <2>2. emptyBoxes \in DateBoxes
    BY DateParts
  <2>3. CASE Slashed(birthdate)
    <3>1. date_boxes' = emptyBoxes
      BY <2>1, <2>3 DEF parsedInitialValue, Slashed
    <3> QED
      BY <2>1, <2>2, <2>3, <3>1 DEF DateInv
  <2>4. CASE birthdate = none_date
    <3>1. date_boxes' = emptyBoxes
      BY <2>1, <2>4 DEF parsedInitialValue
    <3> QED
      BY <2>1, <2>2, <2>4, <3>1 DEF DateInv
  <2>5. CASE birthdate = updateFormik(date_boxes) /\ ~ Slashed(birthdate)
    <3>1. /\ date_boxes' \in DateBoxes
          /\ updateFormik(date_boxes') = birthdate
      BY <2>1, <2>5, DateComesBack DEF DateInv
    <3> QED
      BY <2>1, <3>1 DEF DateInv
  <2> QED
    BY <2>3, <2>4, <2>5 DEF DateInv
<1>3. CASE UNCHANGED dateVars
  BY <1>3 DEF DateInv, dateVars
<1> QED
  BY <1>1, <1>2, <1>3 DEF DateNext

LEMMA DateInvSays ==
  ASSUME DateInv
  PROVE  AcceptedDateIsShown
<1>1. ~ IsDate(none_date)
  BY DEF IsDate, none_date, none
<1>2. ASSUME IsDate(birthdate), Slashed(birthdate), birthdate # updateFormik(date_boxes)
      PROVE  FALSE
  BY <1>2 DEF DateInv, IsDate, Slashed, HasSlash
<1> QED
  BY <1>1, <1>2 DEF DateInv, AcceptedDateIsShown, Slashed

(* Typing, taking back, saving and returning in any order: a birthdate that   *)
(* the page accepts is the one in its boxes, and one that it refuses can be   *)
(* seen in them but for the exceptions that AcceptedDateIsShown states.       *)
THEOREM DateAlwaysShown ==
  PagesSpec => []AcceptedDateIsShown
<1>1. PagesInit => DateInv
  BY DateParts DEF PagesInit, DateInit, DateInv
<1>2. DateInv /\ [PagesNext]_pagesVars => DateInv'
  <2> SUFFICES ASSUME DateInv, [PagesNext]_pagesVars
               PROVE  DateNext \/ UNCHANGED dateVars
    BY DateStep
  <2> QED
    BY DEF PagesNext, OnAnswers, OnOtherPay, OnOccupation, OnDate, pagesVars
<1>3. DateInv => AcceptedDateIsShown
  BY DateInvSays
<1> QED
  BY <1>1, <1>2, <1>3, PTL DEF PagesSpec

-----------------------------------------------------------------------------
(* The other pages.                                                          *)

(* Seen from the pages of FormAnswers, a claimant who works on any page of   *)
(* the application does what FormAnswers lets her do: whatever happens on    *)
(* other-pay, occupation or the birthdate is a stutter.                      *)
THEOREM PagesAnswer ==
  PagesSpec => Spec
<1>1. PagesInit => Init
  BY DEF PagesInit
<1>2. [PagesNext]_pagesVars => [Next]_vars
  BY DEF PagesNext, OnAnswers, OnOtherPay, OnOccupation, OnDate, pagesVars, answersVars, vars
<1> QED
  BY <1>1, <1>2, PTL DEF PagesSpec, Spec

(* So every promise of FormAnswers holds of the pages together.              *)
THEOREM PagesKeepPromises ==
  PagesSpec => /\ []TypeOK
               /\ []AcceptedIsFilable
               /\ []RefusalIsExplained
               /\ []HiddenAnswersAreForgotten
               /\ []AnAnswerStays
               /\ []ReturnKeepsAnswers
               /\ []ProgressAgreesWithNext
               /\ []FiledIsReviewed
BY PagesAnswer, AnswersWellTyped, AcceptedAnswersFilable, RefusalsExplained,
   HiddenForgotten, AnswersStay, AnswersComeBack, ProgressAgrees, FiledReviewed, PTL
=============================================================================

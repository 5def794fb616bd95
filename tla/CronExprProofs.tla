--------------------------- MODULE CronExprProofs ---------------------------
(***************************************************************************)
(* The search for the next run of a crontab, page after page of the days    *)
(* that match, finds the first minute that matches: on any calendar, from   *)
(* any minute, for any crontab that expand_field raises no exception for.   *)
(*                                                                          *)
(* The search calls itself at most once: a page after the first is a later  *)
(* day, and all its minutes lie ahead.  So its recursive definition has a   *)
(* solution, which is written down, and no induction is needed.             *)
(***************************************************************************)
EXTENDS CronExpr, FiniteSetTheorems, WellFoundedInduction, TLAPS

-----------------------------------------------------------------------------
(* Days and minutes.                                                        *)

LEMMA Divided ==
    ASSUME NEW a \in Nat, NEW b \in Nat \ {0}
    PROVE  a = (a \div b) * b + (a % b) /\ a \div b \in Nat /\ a % b \in 0..(b - 1)
OBVIOUS

LEMMA Quotient ==
    ASSUME NEW q \in Nat, NEW b \in Nat \ {0}, NEW r \in 0..(b - 1)
    PROVE  (q * b + r) \div b = q /\ (q * b + r) % b = r
OBVIOUS

LEMMA Product ==
    ASSUME NEW a \in Nat, NEW b \in Nat, a <= b, NEW c \in Nat
    PROVE  a * c \in Nat /\ a * c <= b * c /\ (a + 1) * c = a * c + c
OBVIOUS

LEMMA DayLength == MinutesPerDay \in Nat \ {0}
BY CronExprAssumption DEF MinutesPerDay

\* The minutes of a day.
LEMMA DayOf ==
    ASSUME NEW t \in Nat, NEW d \in Nat
    PROVE  /\ t \div MinutesPerDay \in Nat
           /\ t \div MinutesPerDay = d
                  <=> d * MinutesPerDay <= t /\ t < d * MinutesPerDay + MinutesPerDay
<1> DEFINE M == MinutesPerDay
           q == t \div M
<1>1. M \in Nat \ {0}
  BY DayLength
<1>2. t = q * M + (t % M) /\ q \in Nat /\ t % M \in 0..(M - 1)
  BY <1>1, Divided
<1>3. d * M <= t /\ t < d * M + M => q = d
  <2>1. SUFFICES ASSUME d * M <= t, t < d * M + M
                 PROVE  q = d
    OBVIOUS
  <2> DEFINE r == t - d * M
  <2>2. r \in 0..(M - 1) /\ t = d * M + r
    BY <1>1, <2>1
  <2> HIDE DEF r
  <2>3. QED
    BY <1>1, <2>2, Quotient
<1>4. q = d => d * M <= t /\ t < d * M + M
  BY <1>1, <1>2
<1>5. QED
  BY <1>2, <1>3, <1>4

-----------------------------------------------------------------------------
(* The least of a set of numbers.                                           *)

LEMMA LeastOf ==
    ASSUME NEW S \in SUBSET Nat, S # {}
    PROVE  Least(S) \in S /\ \A y \in S : Least(S) <= y
<1> DEFINE less == {ss \in Nat \X Nat : ss[1] < ss[2]}
<1>1. IsWellFoundedOn(less, Nat)
  BY NatLessThanWellFounded DEF OpToRel
<1>2. \A x, y \in Nat : x < y => <<x, y>> \in less
  OBVIOUS
<1> HIDE DEF less
<1>3. PICK x \in S : \A y \in S : <<y, x>> \notin less
  BY <1>1, WFMin
<1>4. ASSUME NEW y \in S
      PROVE  x <= y
  <2>1. x \in Nat /\ y \in Nat /\ ~(y < x)
    BY <1>2, <1>3
  <2>2. QED
    BY <2>1
<1>5. QED
  BY <1>4 DEF Least

LEMMA LeastIs ==
    ASSUME NEW S \in SUBSET Nat, NEW x \in S, \A y \in S : x <= y
    PROVE  Least(S) = x
<1>1. Least(S) \in S /\ Least(S) <= x
  BY LeastOf
<1>2. Least(S) \in Nat /\ x \in Nat /\ x <= Least(S)
  BY <1>1
<1>3. QED
  BY <1>1, <1>2

LEMMA LeastOne == ASSUME NEW d \in Nat PROVE Least({d}) = d
<1>1. {d} \in SUBSET Nat /\ {d} # {}
  OBVIOUS
<1>2. Least({d}) \in {d}
  BY <1>1, LeastOf
<1>3. QED
  BY <1>2

-----------------------------------------------------------------------------
(* The values of a field, and the minutes of a day that matches.            *)

LEMMA FieldValues ==
    ASSUME NEW field \in Field, NEW min \in Nat, NEW max \in Nat, min <= max,
           Expands(field, min, max)
    PROVE  /\ expand_field(field, min, max) # {}
           /\ expand_field(field, min, max) \subseteq min..max
<1>1. CASE field \in [every : Nat]
  <2>1. "every" \in DOMAIN field /\ field.every \in 1..max
    BY <1>1 DEF Expands
  <2>2. min \in generate_series(min, max, field.every)
    BY <2>1 DEF generate_series
  <2>3. QED
    BY <2>1, <2>2 DEF expand_field, generate_series
<1>2. CASE field \in [list : (SUBSET (Nat \X Nat \X Nat)) \ {{}}]
  <2>1. /\ "every" \notin DOMAIN field /\ field.list # {}
        /\ \A p \in field.list : p \in Nat \X Nat \X Nat
    <3>1. field.list \in (SUBSET (Nat \X Nat \X Nat)) \ {{}}
      BY <1>2
    <3>2. "every" \notin DOMAIN field
      <4>1. field = [list |-> field.list]
        BY <1>2
      <4>2. DOMAIN [list |-> field.list] = {"list"}
        OBVIOUS
      <4>3. QED
        BY <4>1, <4>2
    <3>3. field.list # {} /\ \A p \in field.list : p \in Nat \X Nat \X Nat
      BY <3>1
    <3>4. QED
      BY <3>2, <3>3
  <2>2. \A p \in field.list : min <= p[1] /\ p[1] <= p[2] /\ p[2] <= max /\ p[3] \in 1..max
    BY <2>1 DEF Expands
  <2>3. \A p \in field.list : p[1] \in generate_series(p[1], p[2], p[3])
    BY <2>1, <2>2 DEF generate_series
  <2>4. \A p \in field.list : generate_series(p[1], p[2], p[3]) \subseteq min..max
    BY <2>1, <2>2 DEF generate_series
  <2>5. expand_field(field, min, max)
            = UNION {generate_series(p[1], p[2], p[3]) : p \in field.list}
    BY <2>1 DEF expand_field
  <2>6. QED
    BY <2>1, <2>3, <2>4, <2>5
<1>3. QED
  BY <1>1, <1>2 DEF Field

LEMMA MatchesOnDay == \A ts, e : match(ts, e) => DayMatches(ts \div MinutesPerDay, e)
BY DEF match

\* A day that matches has a minute that does.
LEMMA MinuteOf ==
    ASSUME NEW e \in Crontab, Valid(e), NEW d \in Nat, DayMatches(d, e)
    PROVE  \E t \in Nat : /\ d * MinutesPerDay <= t /\ t < d * MinutesPerDay + MinutesPerDay
                          /\ match(t, e)
<1> DEFINE H == HoursPerDay
           M == MinutesPerHour
<1>1. H \in Nat \ {0} /\ M \in Nat \ {0}
  BY CronExprAssumption
<1>2. PICK m \in 0..(M - 1) : m \in expand_field(e.minute, 0, M - 1)
  <2>1. e.minute \in Field /\ Expands(e.minute, 0, M - 1)
    BY DEF Crontab, Valid
  <2>2. M - 1 \in Nat
    BY <1>1
  <2>3. QED
    BY <2>1, <2>2, FieldValues
<1>3. PICK h \in 0..(H - 1) : h \in expand_field(e.hour, 0, H - 1)
  <2>1. e.hour \in Field /\ Expands(e.hour, 0, H - 1)
    BY DEF Crontab, Valid
  <2>2. H - 1 \in Nat
    BY <1>1
  <2>3. QED
    BY <2>1, <2>2, FieldValues
<1> DEFINE q == d * H + h
           t == q * M + m
<1>4. q \in Nat /\ t \in Nat
  BY <1>1
<1>5. t % M = m /\ t \div M = q
  <2> HIDE DEF q
  <2>1. QED
    BY <1>1, <1>2, <1>4, Quotient
<1>6. q % H = h
  BY <1>1, <1>3, Quotient
<1>7. t = d * MinutesPerDay + (h * M + m) /\ h * M + m \in 0..(MinutesPerDay - 1)
  <2>1. h * M \in Nat /\ h * M + M <= H * M
    <3>1. h + 1 <= H /\ h + 1 \in Nat
      BY <1>1
    <3>2. (h + 1) * M <= H * M /\ (h + 1) * M = h * M + M /\ h * M \in Nat
      BY <1>1, <3>1, Product
    <3>3. QED
      BY <3>2
  <2>2. MinutesPerDay = H * M /\ H * M \in Nat
    BY <1>1 DEF MinutesPerDay
  <2>3. (d * H + h) * M = d * (H * M) + h * M
    BY <1>1
  <2>4. d * (H * M) \in Nat
    BY <2>2
  <2>5. QED
    BY <1>1, <2>1, <2>2, <2>3, <2>4
<1>8. d * MinutesPerDay <= t /\ t < d * MinutesPerDay + MinutesPerDay
  BY <1>4, <1>7, DayLength
<1>9. t \div MinutesPerDay = d
  BY <1>4, <1>8, DayOf
<1> HIDE DEF t, q
<1>10. match(t, e)
  BY <1>2, <1>3, <1>5, <1>6, <1>9 DEF match
<1>11. QED
  BY <1>4, <1>8, <1>10
-----------------------------------------------------------------------------
(* Pages: the days that match, in their order.                              *)

Days(ts, e) ==
    LET today == ts \div MinutesPerDay
    IN  {d \in today..(today + Horizon) : DayMatches(d, e)}

Before(D, d) == {c \in D : c < d}

LEMMA Today ==
    ASSUME NEW ts \in Nat
    PROVE  ts \div MinutesPerDay \in Nat
BY DayLength, Divided

LEMMA DaysFinite ==
    ASSUME NEW ts \in Nat, NEW e
    PROVE  /\ Days(ts, e) \in SUBSET Nat
           /\ \A c \in Days(ts, e) : c \in Nat /\ ts \div MinutesPerDay <= c
           /\ \A d : IsFiniteSet(Before(Days(ts, e), d))
<1> DEFINE today == ts \div MinutesPerDay
<1>1. today \in Nat
  BY Today
<1>2. Days(ts, e) \subseteq today..(today + Horizon)
  BY DEF Days
<1> HIDE DEF today
<1>a. Horizon \in Nat /\ today + Horizon \in Nat
  BY <1>1, CronExprAssumption
<1>3. IsFiniteSet(today..(today + Horizon))
  BY <1>1, <1>a, FS_Interval
<1>4. ASSUME NEW d
      PROVE  IsFiniteSet(Before(Days(ts, e), d))
  <2>1. Before(Days(ts, e), d) \subseteq today..(today + Horizon)
    BY <1>2 DEF Before
  <2>2. QED
    BY <2>1, <1>3, FS_Subset
<1>5. \A c \in Days(ts, e) : c \in Nat /\ today <= c
  BY <1>1, <1>a, <1>2
<1>6. QED
  BY <1>4, <1>5 DEF today

LEMMA PageDays ==
    ASSUME NEW ts \in Nat, NEW e, NEW page
    PROVE  /\ DaysAt(ts, e, page) \subseteq Days(ts, e)
           /\ \A d \in Days(ts, e) : d \in DaysAt(ts, e, page)
                                      <=> Cardinality(Before(Days(ts, e), d)) = page
BY DEF DaysAt, Days, Before

\* No other day comes before the least.
LEMMA BeforeLeast ==
    ASSUME NEW D \in SUBSET Nat, NEW R \in SUBSET D, R # {}
    PROVE  /\ Least(R) \in R
           /\ Before(D, Least(R)) \cap R = {}
           /\ \A d \in R : Least(R) = d \/ Least(R) \in Before(D, d)
<1>1. Least(R) \in R /\ \A y \in R : Least(R) <= y
  BY LeastOf
<1>2. \A y \in R : ~(y < Least(R)) /\ (Least(R) = y \/ Least(R) < y)
  <2>1. SUFFICES ASSUME NEW y \in R
                 PROVE  ~(y < Least(R)) /\ (Least(R) = y \/ Least(R) < y)
    OBVIOUS
  <2>2. y \in Nat /\ Least(R) \in Nat /\ Least(R) <= y
    BY <1>1
  <2>3. QED
    BY <2>2
<1>3. QED
  BY <1>1, <1>2 DEF Before

\* The first page is the first day that matches.
LEMMA FirstPage ==
    ASSUME NEW ts \in Nat, NEW e
    PROVE  DaysAt(ts, e, 0) = IF Days(ts, e) = {} THEN {} ELSE {Least(Days(ts, e))}
<1> DEFINE D == Days(ts, e)
           P == DaysAt(ts, e, 0)
<1>1. D \in SUBSET Nat /\ P \subseteq D
  BY DaysFinite, PageDays
<1>2. ASSUME NEW d \in D
      PROVE  d \in P <=> Before(D, d) = {}
  <2>1. IsFiniteSet(Before(D, d))
    BY DaysFinite
  <2>2. d \in P <=> Cardinality(Before(D, d)) = 0
    BY PageDays
  <2>3. QED
    BY <2>1, <2>2, FS_EmptySet
<1> HIDE DEF P, D
<1>3. CASE D = {}
  BY <1>1, <1>3 DEF D, P
<1>4. CASE D # {}
  <2>1. Least(D) \in D /\ Before(D, Least(D)) \cap D = {}
    BY <1>1, <1>4, BeforeLeast
  <2>2. Before(D, Least(D)) = {}
    BY <2>1 DEF Before
  <2>3. \A d \in D : Least(D) = d \/ Least(D) \in Before(D, d)
    BY <1>1, <1>4, BeforeLeast
  <2>4. P = {Least(D)}
    BY <1>1, <1>2, <2>1, <2>2, <2>3
  <2>5. QED
    BY <1>4, <2>4 DEF D, P
<1>5. QED
  BY <1>3, <1>4

\* The others are later days.
LEMMA LaterPage ==
    ASSUME NEW ts \in Nat, NEW e, NEW page \in Nat \ {0}, NEW d \in DaysAt(ts, e, page)
    PROVE  d \in Days(ts, e) /\ d \in Nat /\ d > ts \div MinutesPerDay
<1> DEFINE today == ts \div MinutesPerDay
           D == Days(ts, e)
<1>1. d \in D
  BY PageDays
<1>2. Cardinality(Before(D, d)) = page /\ IsFiniteSet(Before(D, d))
  BY <1>1, DaysFinite, PageDays
<1>3. Before(D, d) # {}
  BY <1>2, FS_EmptySet
<1>4. PICK c \in D : c < d
  BY <1>3 DEF Before
<1>5. c \in Nat /\ d \in Nat /\ today <= c
  BY <1>1, <1>4, DaysFinite
<1>6. today \in Nat
  BY Today
<1> HIDE DEF today
<1>7. d > today
  BY <1>4, <1>5, <1>6
<1>8. QED
  BY <1>1, <1>5, <1>7 DEF today

\* The second is the next day that matches, if the day of ts does.
LEMMA SecondPage ==
    ASSUME NEW ts \in Nat, NEW e, ts \div MinutesPerDay \in Days(ts, e)
    PROVE  LET rest == Days(ts, e) \ {ts \div MinutesPerDay}
           IN  DaysAt(ts, e, 1) = IF rest = {} THEN {} ELSE {Least(rest)}
<1> DEFINE today == ts \div MinutesPerDay
           D == Days(ts, e)
           R == D \ {today}
           P == DaysAt(ts, e, 1)
<1>1. D \in SUBSET Nat /\ today \in D
  BY DaysFinite
<1>2. ASSUME NEW d \in R
      PROVE  today \in Before(D, d)
  <2>1. d \in Nat /\ today <= d /\ today \in Nat /\ today # d
    BY DaysFinite, Today
  <2>2. today < d
    BY <2>1
  <2>3. QED
    BY <1>1, <2>2 DEF Before
<1>3. P \subseteq R
  <2>1. \A d \in P : d \in D /\ d \in Nat /\ d > today
    BY LaterPage
  <2>2. \A d \in Nat : d > today => d # today
    BY Today
  <2>3. QED
    BY <2>1, <2>2
<1>4. ASSUME NEW d \in R
      PROVE  d \in P <=> Before(D, d) = {today}
  <2>1. IsFiniteSet(Before(D, d))
    BY DaysFinite
  <2>2. d \in P <=> Cardinality(Before(D, d)) = 1
    BY PageDays
  <2>3. Cardinality(Before(D, d)) = 1 <=> \E x : Before(D, d) = {x}
    BY <2>1, FS_Singleton
  <2>4. QED
    BY <1>2, <2>2, <2>3
<1>5. R \subseteq D /\ today \notin R /\ \A c \in D : c = today \/ c \in R
  OBVIOUS
<1> HIDE DEF P, D, R
<1>6. CASE R = {}
  BY <1>3, <1>6 DEF D, P, R
<1>7. CASE R # {}
  <2>1. Least(R) \in R /\ Before(D, Least(R)) \cap R = {}
    BY <1>1, <1>5, <1>7, BeforeLeast
  <2>2. Before(D, Least(R)) = {today}
    <3>1. Before(D, Least(R)) \subseteq {today}
      BY <1>5, <2>1 DEF Before
    <3>2. QED
      BY <1>2, <2>1, <3>1
  <2>3. \A d \in R : Least(R) = d \/ Least(R) \in Before(D, d)
    BY <1>1, <1>5, <1>7, BeforeLeast
  <2>4. P = {Least(R)}
    <3>1. Least(R) \in P
      BY <1>4, <2>1, <2>2
    <3>2. ASSUME NEW d \in P
          PROVE  d = Least(R)
      <4>1. d \in R /\ Before(D, d) = {today}
        BY <1>3, <1>4
      <4>2. Least(R) # today
        BY <1>5, <2>1
      <4>3. QED
        BY <2>3, <4>1, <4>2
    <3>3. QED
      BY <3>1, <3>2
  <2>5. QED
    BY <1>7, <2>4 DEF D, P, R
<1>8. QED
  BY <1>6, <1>7
-----------------------------------------------------------------------------
(* One call of the search.                                                  *)

\* The minutes after ts that match, of a day and the midnight after it.
FoundOn(d, ts, e) ==
    {t \in (d * MinutesPerDay)..(d * MinutesPerDay + MinutesPerDay) : t > ts /\ match(t, e)}

LEMMA FoundNat ==
    ASSUME NEW d \in Nat, NEW ts, NEW e
    PROVE  FoundOn(d, ts, e) \in SUBSET Nat
<1>1. d * MinutesPerDay \in Nat
  BY DayLength
<1> DEFINE start == d * MinutesPerDay
<1> HIDE DEF start
<1>2. start \in Nat => start..(start + MinutesPerDay) \subseteq Nat
  BY DayLength
<1>3. QED
  BY <1>1, <1>2 DEF FoundOn, start

\* A later day lies ahead as a whole: one of its own minutes is found.
LEMMA LaterDay ==
    ASSUME NEW e \in Crontab, Valid(e), NEW ts \in Nat, NEW d \in Nat, DayMatches(d, e),
           d > ts \div MinutesPerDay
    PROVE  \E t \in FoundOn(d, ts, e) : t < d * MinutesPerDay + MinutesPerDay
<1> DEFINE start == d * MinutesPerDay
           today == ts \div MinutesPerDay
<1>1. PICK t \in Nat : start <= t /\ t < start + MinutesPerDay /\ match(t, e)
  BY MinuteOf
<1>2. ts < today * MinutesPerDay + MinutesPerDay /\ today \in Nat
  BY Today, DayOf
<1>3. start \in Nat /\ today * MinutesPerDay + MinutesPerDay <= start
  <2> HIDE DEF today
  <2>1. today + 1 <= d /\ today + 1 \in Nat
    BY <1>2 DEF today
  <2>2. /\ (today + 1) * MinutesPerDay <= start
        /\ (today + 1) * MinutesPerDay = today * MinutesPerDay + MinutesPerDay
    BY <1>2, <2>1, DayLength, Product
  <2>3. start \in Nat
    BY DayLength
  <2>4. QED
    BY <2>2, <2>3
<1> DEFINE end == today * MinutesPerDay + MinutesPerDay
<1>4. end \in Nat
  BY <1>2, DayLength
<1> HIDE DEF start, today, end
<1>5. ts < end /\ end <= start
  BY <1>2, <1>3 DEF end
<1>6. t \in start..(start + MinutesPerDay) /\ t > ts
  BY <1>1, <1>3, <1>4, <1>5, DayLength
<1>7. QED
  BY <1>1, <1>6 DEF FoundOn, start

\* What a call returns, by the day of its page.
LEMMA SearchDay ==
    ASSUME NEW run, NEW ts, NEW page, NEW e
    PROVE  LET d == Least(DaysAt(ts, e, page))
           IN  Search(run, ts, page, e) =
                   IF DaysAt(ts, e, page) = {} THEN NoDate
                   ELSE IF FoundOn(d, ts, e) # {} THEN Least(FoundOn(d, ts, e))
                   ELSE run[<<d * MinutesPerDay, page + 1>>]
BY DEF Search, FoundOn

\* A call for a page after the first makes no other.
LastSearch(ts, page, e) ==
    IF DaysAt(ts, e, page) = {} THEN NoDate
    ELSE Least(FoundOn(Least(DaysAt(ts, e, page)), ts, e))

LEMMA LaterSearch ==
    ASSUME NEW e \in Crontab, Valid(e), NEW ts \in Nat, NEW page \in Nat \ {0}, NEW run
    PROVE  Search(run, ts, page, e) = LastSearch(ts, page, e)
<1> DEFINE P == DaysAt(ts, e, page)
           d == Least(P)
<1>1. CASE P = {}
  BY <1>1, SearchDay DEF LastSearch
<1>2. CASE P # {}
  <2>1. P \in SUBSET Nat
    BY DaysFinite, PageDays
  <2>2. d \in P
    BY <1>2, <2>1, LeastOf
  <2>3. d \in Days(ts, e) /\ d \in Nat /\ d > ts \div MinutesPerDay
    BY <2>2, LaterPage
  <2>4. DayMatches(d, e)
    BY <2>3 DEF Days
  <2>5. FoundOn(d, ts, e) # {}
    BY <2>3, <2>4, LaterDay
  <2> HIDE DEF d
  <2>6. d = Least(DaysAt(ts, e, page))
    BY DEF d
  <2>7. QED
    BY <1>2, <2>5, <2>6, SearchDay DEF LastSearch
<1>3. QED
  BY <1>1, <1>2

\* A solution of the recursive definition.
LEMMA Recursion ==
    ASSUME NEW e \in Crontab, Valid(e), NEW from \in Nat
    PROVE  \E run : /\ run = [at \in Nat \X Nat |-> Search(run, at[1], at[2], e)]
                    /\ cron_next_run(from, e) = run[<<from, 0>>]
<1> DEFINE last == [at \in Nat \X Nat |-> LastSearch(at[1], at[2], e)]
           all  == [at \in Nat \X Nat |-> IF at[2] = 0 THEN Search(last, at[1], 0, e)
                                                     ELSE LastSearch(at[1], at[2], e)]
           Run  == CHOOSE run : run = [at \in Nat \X Nat |-> Search(run, at[1], at[2], e)]
<1>1. ASSUME NEW ts \in Nat
      PROVE  Search(all, ts, 0, e) = Search(last, ts, 0, e)
  <2> DEFINE d == Least(DaysAt(ts, e, 0))
             at1 == <<d * MinutesPerDay, 1>>
  <2>1. CASE DaysAt(ts, e, 0) = {}
    BY <2>1, SearchDay
  <2>2. CASE DaysAt(ts, e, 0) # {}
    <3>1. DaysAt(ts, e, 0) \in SUBSET Nat
      BY DaysFinite, PageDays
    <3>2. d \in Nat
      BY <2>2, <3>1, LeastOf
    <3>3. d * MinutesPerDay \in Nat
      BY <3>2, DayLength
    <3>4. all[at1] = last[at1]
      BY <3>3
    <3> HIDE DEF all, last, d
    <3>5. QED
      BY <3>4, SearchDay DEF d
  <2>3. QED
    BY <2>1, <2>2
<1>2. ASSUME NEW at \in Nat \X Nat
      PROVE  all[at] = Search(all, at[1], at[2], e)
  <2>1. CASE at[2] = 0
    <3>1. all[at] = Search(last, at[1], 0, e)
      BY <2>1
    <3>2. at[1] \in Nat
      OBVIOUS
    <3> HIDE DEF all, last
    <3>3. QED
      BY <1>1, <2>1, <3>1, <3>2
  <2>2. CASE at[2] # 0
    <3>1. all[at] = LastSearch(at[1], at[2], e)
      BY <2>2
    <3>2. at[1] \in Nat /\ at[2] \in Nat \ {0}
      BY <2>2
    <3> HIDE DEF all, last
    <3>3. QED
      BY <3>1, <3>2, LaterSearch
  <2>3. QED
    BY <2>1, <2>2
<1>3. all = [at \in Nat \X Nat |-> all[at]]
  OBVIOUS
<1> HIDE DEF all, last
<1>4. all = [at \in Nat \X Nat |-> Search(all, at[1], at[2], e)]
  BY <1>2, <1>3
<1>5. Run = [at \in Nat \X Nat |-> Search(Run, at[1], at[2], e)]
  BY <1>4
<1>6. cron_next_run(from, e) = Run[<<from, 0>>]
  BY DEF cron_next_run
<1> HIDE DEF Run
<1>7. QED
  BY <1>5, <1>6
-----------------------------------------------------------------------------
(* The minutes that FirstMatch looks at.                                    *)

Matches(from, e) ==
    LET today == from \div MinutesPerDay
    IN  {t \in (from + 1)..((today + Horizon + 1) * MinutesPerDay - 1) : match(t, e)}

\* The day of such a minute matches; it is found on its day, and on no later one.
LEMMA MatchDay ==
    ASSUME NEW from \in Nat, NEW e, NEW t \in Matches(from, e)
    PROVE  /\ t \in Nat /\ t > from /\ match(t, e)
           /\ t \div MinutesPerDay \in Days(from, e)
<1> DEFINE today == from \div MinutesPerDay
           M == MinutesPerDay
           c == t \div M
<1>1. today \in Nat /\ M \in Nat \ {0} /\ Horizon \in Nat
  BY Today, DayLength, CronExprAssumption
<1>2. today * M <= from /\ from \in Nat
  BY DayOf
<1> DEFINE n == today + Horizon + 1
<1>3. n \in Nat
  BY <1>1
<1>4. /\ t \in (from + 1)..(n * M - 1)
      /\ match(t, e)
  BY DEF Matches
<1> HIDE DEF today, M, n
<1>5. n * M \in Nat
  BY <1>1, <1>3
<1>6. t \in Nat /\ t > from /\ t < n * M
  BY <1>4, <1>5
<1>7. c \in Nat /\ c * M <= t /\ t < c * M + M
  BY <1>6, DayOf DEF M
<1>8. today <= c
  <2>1. SUFFICES ASSUME c + 1 <= today
                 PROVE  FALSE
    BY <1>1, <1>7
  <2>2. (c + 1) * M <= today * M /\ (c + 1) * M = c * M + M
    BY <1>1, <1>7, <2>1, Product
  <2>3. c * M \in Nat /\ today * M \in Nat
    BY <1>1, <1>7, Product
  <2> HIDE DEF c
  <2>4. QED
    BY <1>1, <1>2, <1>6, <1>7, <2>2, <2>3
<1>9. c <= today + Horizon
  <2>1. SUFFICES ASSUME n <= c
                 PROVE  FALSE
    BY <1>1, <1>7 DEF n
  <2>2. n * M <= c * M /\ c * M \in Nat
    BY <1>1, <1>3, <1>7, <2>1, Product
  <2> HIDE DEF c
  <2>3. QED
    BY <1>5, <1>6, <1>7, <2>2
<1>10. DayMatches(c, e)
  BY <1>4, MatchesOnDay DEF M
<1>11. c \in today..(today + Horizon)
  BY <1>1, <1>7, <1>8, <1>9
<1>12. QED
  BY <1>4, <1>6, <1>10, <1>11 DEF Days, M, today, c

\* From the other side: what is found on such a day, before its end.
LEMMA DayMatch ==
    ASSUME NEW from \in Nat, NEW e, NEW d \in Nat, NEW t \in Nat, t > from, match(t, e),
           d <= from \div MinutesPerDay + Horizon,
           t < d * MinutesPerDay + MinutesPerDay
    PROVE  t \in Matches(from, e)
<1> DEFINE today == from \div MinutesPerDay
           M == MinutesPerDay
           n == today + Horizon + 1
<1>1. today \in Nat /\ M \in Nat \ {0} /\ Horizon \in Nat
  BY Today, DayLength, CronExprAssumption
<1>2. (d + 1) * M <= n * M /\ (d + 1) * M = d * M + M /\ n * M \in Nat /\ d * M \in Nat
  <2> HIDE DEF today, M
  <2>1. d + 1 <= n /\ d + 1 \in Nat /\ n \in Nat
    BY <1>1 DEF today
  <2> HIDE DEF n
  <2>2. QED
    BY <1>1, <2>1, Product
<1> HIDE DEF today, M, n
<1>3. t < d * M + M
  BY DEF M
<1>4. t \in (from + 1)..(n * M - 1)
  BY <1>1, <1>2, <1>3
<1>5. QED
  BY <1>4 DEF Matches, n, M, today

\* A minute of a later day comes after those of a day.
LEMMA LaterMinute ==
    ASSUME NEW e, NEW ts \in Nat, NEW d \in Nat, NEW t \in Nat, t > ts, match(t, e),
           d <= t \div MinutesPerDay, NEW x \in FoundOn(d, ts, e),
           \A y \in FoundOn(d, ts, e) : x <= y
    PROVE  x <= t
<1> DEFINE M == MinutesPerDay
           c == t \div M
<1>1. M \in Nat \ {0} /\ c \in Nat /\ c * M <= t
  BY DayLength, DayOf
<1>2. d * M \in Nat /\ d * M <= c * M /\ c * M \in Nat
  <2> HIDE DEF c
  <2>1. QED
    BY <1>1, Product DEF c
<1> HIDE DEF c, M
<1>3. x \in (d * M)..(d * M + M)
  BY DEF FoundOn, M
<1>4. CASE t <= d * M + M
  <2>1. t \in (d * M)..(d * M + M)
    BY <1>1, <1>2, <1>4
  <2>2. t \in FoundOn(d, ts, e)
    BY <2>1 DEF FoundOn, M
  <2>3. QED
    BY <2>2
<1>5. CASE ~(t <= d * M + M)
  BY <1>1, <1>2, <1>3, <1>5
<1>6. QED
  BY <1>4, <1>5
\* If no minute is found on the only day that matches, none of its minutes is
\* left.
LEMMA NothingLeft ==
    ASSUME NEW from \in Nat, NEW e, NEW d \in Nat, FoundOn(d, from, e) = {}
    PROVE  \A t \in Matches(from, e) : t \div MinutesPerDay # d
<1> SUFFICES ASSUME NEW t \in Matches(from, e), t \div MinutesPerDay = d
             PROVE  FALSE
  OBVIOUS
<1> DEFINE start == d * MinutesPerDay
<1>1. t \in Nat /\ t > from /\ match(t, e)
  BY MatchDay
<1>2. start <= t /\ t < start + MinutesPerDay
  BY <1>1, DayOf
<1>3. start \in Nat /\ MinutesPerDay \in Nat
  BY DayLength
<1> HIDE DEF start
<1>4. t \in start..(start + MinutesPerDay)
  BY <1>1, <1>2, <1>3
<1>5. t \in FoundOn(d, from, e)
  BY <1>1, <1>4 DEF FoundOn, start
<1>6. QED
  BY <1>5

\* The first minute is the least that is found on the first day on which one is.
LEMMA FirstFound ==
    ASSUME NEW e \in Crontab, Valid(e), NEW from \in Nat, NEW ts \in Nat,
           ts \div MinutesPerDay = from \div MinutesPerDay,
           NEW d \in Days(from, e), FoundOn(d, ts, e) # {},
           \A t \in FoundOn(d, ts, e) : t > from,
           \A t \in Matches(from, e) : t > ts /\ d <= t \div MinutesPerDay
    PROVE  /\ Matches(from, e) # {}
           /\ Least(FoundOn(d, ts, e)) = Least(Matches(from, e))
<1> DEFINE F == FoundOn(d, ts, e)
           x == Least(F)
           M == MinutesPerDay
           today == from \div M
<1>1. d \in Nat /\ today \in Nat /\ M \in Nat \ {0}
  BY DaysFinite, Today, DayLength
<1>2. F \in SUBSET Nat
  BY <1>1, FoundNat
<1>3. x \in F /\ \A y \in F : x <= y
  BY <1>2, LeastOf
<1>4. x \in Nat /\ x > from /\ match(x, e)
  BY <1>2, <1>3 DEF FoundOn
<1>5. d <= today + Horizon /\ DayMatches(d, e) /\ today <= d
  <2>1. d \in today..(today + Horizon) /\ DayMatches(d, e)
    BY DEF Days
  <2> HIDE DEF today
  <2>2. QED
    BY <2>1, <1>1, CronExprAssumption
\* The midnight after today is a minute of tomorrow, which is within the horizon.
<1>6. x \in Matches(from, e)
  <2>1. CASE x < d * M + M
    BY <1>1, <1>4, <1>5, <2>1, DayMatch
  <2>2. CASE ~(x < d * M + M)
    <3>1. d <= today
      <4>1. SUFFICES ASSUME d > today
                     PROVE  FALSE
        BY <1>1
      <4>2. PICK t \in F : t < d * M + M
        BY <1>1, <1>5, <4>1, LaterDay
      <4>3. x <= t /\ t \in Nat /\ d * M \in Nat
        BY <1>1, <1>2, <1>3, <4>2
      <4> HIDE DEF x, F
      <4>4. QED
        BY <1>1, <1>4, <2>2, <4>2, <4>3
    <3>2. d + 1 \in Nat /\ d + 1 <= today + Horizon
      <4> HIDE DEF today
      <4>1. QED
        BY <1>1, <3>1, CronExprAssumption
    <3>3. d * M \in Nat /\ (d + 1) * M = d * M + M
      BY <1>1, Product
    <3>4. x \in (d * M)..(d * M + M)
      BY <1>3 DEF FoundOn
    <3> HIDE DEF x
    <3>5. x < (d + 1) * M + M
      BY <1>1, <3>3, <3>4
    <3>6. QED
      BY <1>4, <3>2, <3>5, DayMatch
  <2>3. QED
    BY <2>1, <2>2
<1>7. \A t \in Matches(from, e) : x <= t
  BY <1>1, <1>3, MatchDay, LaterMinute
<1>8. Matches(from, e) \in SUBSET Nat
  BY MatchDay
<1>9. QED
  BY <1>6, <1>7, <1>8, LeastIs

(***************************************************************************)
(* The search through days and pages finds the first minute that matches:   *)
(* none is left out when the minutes of the first day are over, and none    *)
(* is found twice (init.sql:36-96).                                         *)
(***************************************************************************)
THEOREM SearchFindsFirst ==
    ASSUME NEW e \in Crontab, Valid(e), NEW from \in Nat
    PROVE  cron_next_run(from, e) = FirstMatch(from, e)
<1> DEFINE M == MinutesPerDay
           today == from \div M
           D == Days(from, e)
           Q == Matches(from, e)
<1>1. FirstMatch(from, e) = IF Q = {} THEN NoDate ELSE Least(Q)
  BY DEF FirstMatch, Matches
<1>2. PICK run : /\ run = [at \in Nat \X Nat |-> Search(run, at[1], at[2], e)]
                 /\ cron_next_run(from, e) = run[<<from, 0>>]
  BY Recursion
<1>3. \A ts, page \in Nat : run[<<ts, page>>] = Search(run, ts, page, e)
  BY <1>2
<1>4. cron_next_run(from, e) = Search(run, from, 0, e)
  BY <1>2, <1>3
<1>5. M \in Nat \ {0} /\ today \in Nat
  BY DayLength, Today
<1>6. CASE D = {}
  <2>1. DaysAt(from, e, 0) = {}
    BY <1>6, FirstPage
  <2>2. Q = {}
    BY <1>6, MatchDay
  <2>3. QED
    BY <1>1, <1>4, <2>1, <2>2, SearchDay
<1>7. CASE D # {}
  <2> DEFINE d == Least(D)
             F == FoundOn(d, from, e)
  <2>1. d \in D /\ \A c \in D : d <= c
    BY <1>7, DaysFinite, LeastOf
  <2>2. d \in Nat /\ today <= d /\ DayMatches(d, e)
    BY <2>1, DaysFinite DEF Days
  <2>3. DaysAt(from, e, 0) = {d}
    BY <1>7, FirstPage
  <2>4. cron_next_run(from, e) = IF F # {} THEN Least(F) ELSE run[<<d * M, 1>>]
    <3>1. d \in Nat
      BY <2>2
    <3> HIDE DEF d
    <3>2. Least({d}) = d
      BY <3>1, LeastOne
    <3> HIDE DEF F
    <3>3. cron_next_run(from, e) = IF F # {} THEN Least(F) ELSE run[<<d * M, 0 + 1>>]
      BY <1>4, <2>3, <3>2, SearchDay DEF F
    <3>4. QED
      BY <3>3
  <2>5. \A t \in Q : t > from /\ d <= t \div M
    BY <2>1, MatchDay
  <2>6. CASE F # {}
    <3>1. \A t \in F : t > from
      BY DEF FoundOn
    <3>2. Q # {} /\ Least(F) = Least(Q)
      BY <2>1, <2>5, <2>6, <3>1, FirstFound
    <3>3. QED
      BY <1>1, <2>4, <2>6, <3>2
  <2>7. CASE F = {}
    <3> DEFINE start == d * M
               R  == Days(start, e) \ {start \div M}
               d1 == Least(R)
               F1 == FoundOn(d1, start, e)
    <3>1. d = today
      <4>1. d > today => F # {}
        BY <2>2, LaterDay
      <4>2. QED
        BY <1>5, <2>2, <2>7, <4>1
    <3>2. start \in Nat /\ start \div M = today /\ start <= from
      <4>1. start \in Nat /\ start <= start /\ start < start + M
        BY <1>5, <2>2
      <4>2. start \div M = d
        BY <2>2, <4>1, DayOf
      <4>3. start <= from
        BY <2>2, <3>1, DayOf
      <4>4. QED
        BY <3>1, <4>1, <4>2, <4>3
    <3>3. Days(start, e) = D /\ start \div M \in Days(start, e)
      BY <2>1, <3>1, <3>2 DEF Days
    <3>4. DaysAt(start, e, 1) = IF R = {} THEN {} ELSE {d1}
      BY <3>2, <3>3, SecondPage
    <3>5. cron_next_run(from, e) = Search(run, start, 1, e)
      <4>1. cron_next_run(from, e) = run[<<start, 1>>]
        BY <2>4, <2>7
      <4> HIDE DEF start
      <4>2. QED
        BY <1>3, <3>2, <4>1
    <3>6. \A t \in Q : t > start /\ t \div M \in R
      <4>1. SUFFICES ASSUME NEW t \in Q
                     PROVE  t > start /\ t \div M \in R
        OBVIOUS
      <4>2. t \in Nat /\ t > from /\ t \div M \in D
        BY MatchDay
      <4>3. t \div M # d
        BY <2>2, <2>7, NothingLeft
      <4> HIDE DEF start
      <4>4. QED
        BY <3>1, <3>2, <3>3, <4>2, <4>3
    <3>7. CASE R = {}
      <4>1. Q = {}
        BY <3>6, <3>7
      <4>2. QED
        BY <1>1, <3>4, <3>5, <3>7, <4>1, SearchDay
    <3>8. CASE R # {}
      <4>1. d1 \in R /\ \A c \in R : d1 <= c
        <5>1. R \in SUBSET Nat
          BY <3>3, DaysFinite
        <5>2. QED
          BY <5>1, <3>8, LeastOf
      <4>2. d1 \in D /\ d1 \in Nat /\ d1 > today /\ DayMatches(d1, e)
        <5>1. d1 \in D /\ d1 # today
          BY <3>2, <3>3, <4>1
        <5>2. d1 \in Nat /\ today <= d1 /\ DayMatches(d1, e)
          BY <5>1, DaysFinite DEF Days
        <5>3. QED
          BY <1>5, <5>1, <5>2
      <4>3. F1 # {}
        BY <3>2, <4>2, LaterDay
      <4>4. cron_next_run(from, e) = Least(F1)
        <5>1. DaysAt(start, e, 1) = {d1}
          BY <3>4, <3>8
        <5>2. d1 \in Nat
          BY <4>2
        <5> HIDE DEF d1, start
        <5>3. Least({d1}) = d1
          BY <5>2, LeastOne
        <5>4. QED
          BY <3>5, <4>3, <5>1, <5>3, SearchDay
      <4>5. \A t \in F1 : t > from
        <5>1. SUFFICES ASSUME NEW t \in F1
                       PROVE  t > from
          OBVIOUS
        <5>2. from < today * M + M
          BY <1>5, DayOf
        <5>3. today * M + M <= d1 * M /\ d1 * M \in Nat /\ today * M \in Nat
          <6>1. today + 1 <= d1 /\ today + 1 \in Nat
            BY <1>5, <4>2
          <6> HIDE DEF today, d1
          <6>2. (today + 1) * M <= d1 * M /\ (today + 1) * M = today * M + M
            BY <1>5, <4>2, <6>1, Product
          <6>3. QED
            BY <1>5, <4>2, <6>2, Product
        <5>4. t \in (d1 * M)..(d1 * M + M)
          BY DEF FoundOn
        <5> HIDE DEF today, d1
        <5>5. QED
          BY <1>5, <5>2, <5>3, <5>4
      <4>6. \A t \in Q : t > start /\ d1 <= t \div M
        BY <3>6, <4>1
      <4> HIDE DEF d1, start
      <4>7. Q # {} /\ Least(F1) = Least(Q)
        BY <3>2, <4>2, <4>3, <4>5, <4>6, FirstFound
      <4>8. QED
        BY <1>1, <4>4, <4>7
    <3>9. QED
      BY <3>7, <3>8
  <2>8. QED
    BY <2>6, <2>7
<1>8. QED
  BY <1>6, <1>7

(***************************************************************************)
(* What the table makes of it: a next run that is not null lies ahead, at a *)
(* minute that matches, and no minute before it does.                       *)
(***************************************************************************)
THEOREM NextMatch ==
    ASSUME NEW e \in Crontab, NEW from \in Nat, cron_next_run(from, e) \in Int
    PROVE  LET at == cron_next_run(from, e)
           IN  /\ at \in Nat /\ at > from /\ match(at, e)
               /\ \A ts \in (from + 1)..(at - 1) : ~match(ts, e)
<1> DEFINE at == cron_next_run(from, e)
           Q == Matches(from, e)
           last == (from \div MinutesPerDay + Horizon + 1) * MinutesPerDay - 1
<1>1. Valid(e)
  BY CronExprAssumption DEF cron_next_run
<1>2. at = FirstMatch(from, e)
  BY <1>1, SearchFindsFirst
<1>3. Q # {} /\ at = Least(Q)
  BY <1>2, CronExprAssumption DEF FirstMatch, Matches
<1>4. Q \in SUBSET Nat /\ Q = {t \in (from + 1)..last : match(t, e)}
  BY MatchDay DEF Matches
<1>5. at \in Q /\ \A t \in Q : at <= t
  BY <1>3, <1>4, LeastOf
<1>6. last \in Int
  BY Today, DayLength, CronExprAssumption
<1> HIDE DEF at, Q, last
<1>7. at \in Nat /\ at > from /\ at <= last /\ match(at, e)
  BY <1>4, <1>5, <1>6
<1>8. \A ts \in (from + 1)..(at - 1) : ~match(ts, e)
  <2>1. SUFFICES ASSUME NEW ts \in (from + 1)..(at - 1), match(ts, e)
                 PROVE  FALSE
    OBVIOUS
  <2>2. ts \in (from + 1)..last /\ ts < at /\ ts \in Int
    BY <1>6, <1>7, <2>1
  <2>3. at <= ts
    BY <1>4, <1>5, <2>1, <2>2
  <2>4. QED
    BY <1>7, <2>2, <2>3
<1>9. QED
  BY <1>7, <1>8 DEF at
=============================================================================

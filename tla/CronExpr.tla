------------------------------ MODULE CronExpr ------------------------------
(***************************************************************************)
(* Crontabs: cronexp.expand_field, cronexp.match and tiny.cron_next_run, on *)
(* a calendar whose hours, days, weeks and months may be short.  A minute   *)
(* is a number, a day is the number of minutes / MinutesPerDay; `Dates' are *)
(* the month and the day of the month of the days of a cycle of years, leap *)
(* years included.                                                          *)
(*                                                                          *)
(* The text of a field is what it parses to: [every |-> k] for an asterisk  *)
(* with step k, or [list |-> S], where <<m, n, k>> of S is a range from m   *)
(* to n with step k.  A number is a range, an asterisk has step 1, and the  *)
(* names of months and days are numbers.  A crontab is a record of fields.  *)
(***************************************************************************)
EXTENDS Integers, Sequences, FiniteSets

CONSTANTS
    MinutesPerHour, HoursPerDay, DaysPerWeek,   \* 60, 24 and 7
    Dates,                                      \* <<month, day>> of each day of a cycle
    LastMonth, LastDay,                         \* 12 and 31
    Horizon,                                    \* the days of 5 years
    NoDate                                      \* null

ASSUME CronExprAssumption ==
    /\ {MinutesPerHour, HoursPerDay, DaysPerWeek, LastMonth, LastDay} \subseteq Nat \ {0}
    /\ Len(Dates) > 0 /\ Horizon \in Nat \ {0} /\ NoDate \notin Int

MinutesPerDay == MinutesPerHour * HoursPerDay

Field   == [every : Nat] \cup [list : (SUBSET (Nat \X Nat \X Nat)) \ {{}}]
Crontab == [minute : Field, hour : Field, day : Field, month : Field, dow : Field]

-----------------------------------------------------------------------------
generate_series(m, n, k) == {x \in m..n : (x - m) % k = 0}

\* A field that expand_field raises no exception for.
Expands(field, min, max) ==
    IF "every" \in DOMAIN field
    THEN field.every \in 1..max
    ELSE \A p \in field.list : min <= p[1] /\ p[1] <= p[2] /\ p[2] <= max /\ p[3] \in 1..max

expand_field(field, min, max) ==
    IF "every" \in DOMAIN field
    THEN generate_series(min, max, field.every)
    ELSE UNION {generate_series(p[1], p[2], p[3]) : p \in field.list}

Valid(e) == /\ Expands(e.minute, 0, MinutesPerHour - 1)
            /\ Expands(e.hour, 0, HoursPerDay - 1)
            /\ Expands(e.day, 1, LastDay)
            /\ Expands(e.month, 1, LastMonth)
            /\ Expands(e.dow, 0, DaysPerWeek)

\* Sunday is 0 and 7.
dow_fields(e) ==
    LET fields == expand_field(e.dow, 0, DaysPerWeek)
    IN  IF DaysPerWeek \in fields THEN {0} \cup fields ELSE fields

\* date_part of day d: its month and day of the month; its day of the week is
\* d % DaysPerWeek.
Date(d) == Dates[(d % Len(Dates)) + 1]

\* The fields that a day must match, and all five.
DayMatches(d, e) ==
    /\ Date(d)[2] \in expand_field(e.day, 1, LastDay)
    /\ Date(d)[1] \in expand_field(e.month, 1, LastMonth)
    /\ d % DaysPerWeek \in dow_fields(e)

match(ts, e) ==
    /\ ts % MinutesPerHour \in expand_field(e.minute, 0, MinutesPerHour - 1)
    /\ (ts \div MinutesPerHour) % HoursPerDay \in expand_field(e.hour, 0, HoursPerDay - 1)
    /\ DayMatches(ts \div MinutesPerDay, e)

-----------------------------------------------------------------------------
Least(S) == CHOOSE x \in S : \A y \in S : x <= y

\* The day with `offset page' among those that match, in 5 years from ts.
DaysAt(ts, e, page) ==
    LET today == ts \div MinutesPerDay
        days  == {d \in today..(today + Horizon) : DayMatches(d, e)}
    IN  {d \in days : Cardinality({c \in days : c < d}) = page}

\* The first minute after ts, of the day with offset page, that matches; or the
\* next page, from the start of that day.
Search(run, ts, page, e) ==
    LET days  == DaysAt(ts, e, page)
        start == Least(days) * MinutesPerDay
        found == {t \in start..(start + MinutesPerDay) : t > ts /\ match(t, e)}
    IN  IF days = {} THEN NoDate
        ELSE IF found # {} THEN Least(found)
        ELSE run[<<start, page + 1>>]

\* An exception fails the statement that asks, as null does, which run_at must
\* not be.
cron_next_run(from_ts, e) ==
    LET run[at \in Nat \X Nat] == Search(run, at[1], at[2], e)
    IN  IF Valid(e) THEN run[<<from_ts, 0>>] ELSE NoDate

\* The definition it is to agree with: the first minute that matches, if one
\* does on the days that it looks at.
FirstMatch(from_ts, e) ==
    LET today == from_ts \div MinutesPerDay
        found == {t \in (from_ts + 1)..((today + Horizon + 1) * MinutesPerDay - 1) : match(t, e)}
    IN  IF found = {} THEN NoDate ELSE Least(found)
=============================================================================

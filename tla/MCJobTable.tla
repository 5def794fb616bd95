----------------------------- MODULE MCJobTable -----------------------------
EXTENDS JobTable, TLC

CONSTANTS x1, x2

\* A date that passes, an interval, a negative one, and two crontabs.
SomeExprs == {<<"at", 2>>, <<"after", 1>>, <<"every", -1>>, <<"cron", 1>>, <<"cron", 2>>}

\* Hours of two minutes, days of two hours, weeks of three days, and years of
\* three days, every second of which has a leap day.
SomeDates == <<<<1, 1>>, <<1, 2>>, <<2, 1>>, <<2, 2>>, <<1, 1>>, <<1, 2>>, <<2, 1>>>>

List(m, n, k) == [list |-> {<<m, n, k>>}]
Every(k)      == [every |-> k]
\* One minute of Sundays and Mondays, after which the day still matches; and
\* Sundays, called by their other number, that are the first day of a year: the
\* second one is farther away than the horizon.
SomeCrontabs == <<
    [minute |-> List(1, 1, 1), hour |-> List(0, 0, 1), day |-> Every(1), month |-> Every(1),
     dow |-> [list |-> {<<0, 0, 1>>, <<1, 1, 1>>}]],
    [minute |-> List(1, 1, 1), hour |-> List(0, 1, 1), day |-> List(1, 1, 1),
     month |-> List(1, 1, 1), dow |-> List(3, 3, 1)]>>

\* Crontabs whose fields are of any form, and refused ones.
Fields(min, max) == {Every(k) : k \in 1..2}
                        \cup {List(m, n, k) : m \in min..max, n \in min..max, k \in 1..2}
AllCrontabs ==
    [minute : Fields(0, 1), hour : {Every(1), List(0, 0, 1), List(1, 1, 1)},
     day : {Every(1), List(2, 2, 1), List(1, 2, 2)}, month : {Every(1), List(2, 2, 1)},
     dow : {Every(1), Every(2), List(3, 3, 1), [list |-> {<<0, 0, 1>>, <<2, 2, 1>>}]}]

\* The search agrees with its definition from any minute of a cycle of dates.
ASSUME CronAgrees ==
    \A e \in AllCrontabs, from \in 0..27 :
        Valid(e) => cron_next_run(from, e) = FirstMatch(from, e)

\* none, and values that the checks of the table accept and refuse
SomeTimeouts == {-1, 0, 2}
SomeAttempts == {0, 1, 3}

\* Executors differ in nothing but who they are.
Symmetry == Permutations(Executors)
=============================================================================

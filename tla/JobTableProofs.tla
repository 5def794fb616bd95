--------------------------- MODULE JobTableProofs ---------------------------
(***************************************************************************)
(* Proofs about JobTable, for any schedules, counters and order of the      *)
(* statements, and without bound on the clock.                              *)
(***************************************************************************)
EXTENDS JobTable, CronExprProofs

USE DEF Status, NoRow, Kinds

-----------------------------------------------------------------------------
(* Type correctness.                                                        *)

\* Of a row that exists, all fields have their type.
LEMMA ExistsRow ==
    ASSUME TypeOK, NEW j \in Jobs
    PROVE  Exists(j) <=> row[j] \in Row
<1>1. row[j] \in Row => row[j].status \in Status
  BY DEF Row
<1>2. row[j] \in {Absent(s) : s \in NoRow} => row[j].status \in NoRow
  BY DEF Absent
<1>3. QED
  BY <1>1, <1>2 DEF TypeOK, Exists

\* The table keeps its type when rows are replaced by rows.
LEMMA RowsType ==
    ASSUME TypeOK, NEW J \in SUBSET Jobs, NEW f,
           \A j \in J : f[j] \in Row \cup {Absent(s) : s \in NoRow},
           row' = [j \in Jobs |-> IF j \in J THEN f[j] ELSE row[j]]
    PROVE  row' \in [Jobs -> Row \cup {Absent(s) : s \in NoRow}]
BY DEF TypeOK

\* Initially there is no row.
LEMMA InitType == Init => TypeOK
BY JobTableAssumption DEF Init, TypeOK, Absent, Blank

\* The statements of the users.
LEMMA UserType ==
    ASSUME TypeOK, NEW x \in Executors, NEW j \in Jobs, User(j, x)
    PROVE  TypeOK'
<1>1. CASE \E e \in Exprs, s \in Starts, t \in Timeouts, r \in Attempts :
              CreateJob(j, x, e, s, t, r)
  <2>1. PICK e \in Exprs, s \in Starts, t \in Timeouts, r \in Attempts :
            CreateJob(j, x, e, s, t, r)
    BY <1>1
  <2> DEFINE tt == OrDefault(t, DefaultTimeout)
             rr == OrDefault(r, DefaultRetries)
             from == greatest(now + s, now)
  <2>2. tt \in Nat \ {0} /\ rr \in Int /\ from \in Nat /\ e \in Exprs
    <3>1. t \in Int /\ r \in Int /\ s \in Nat /\ now \in Nat
      BY JobTableAssumption DEF TypeOK
    <3>2. tt \in Int /\ rr \in Int
      BY <3>1, JobTableAssumption DEF OrDefault
    <3>3. tt > 0
      BY <2>1 DEF CreateJob
    <3>4. from \in Nat
      BY <3>1 DEF greatest
    <3>5. QED
      BY <3>2, <3>3, <3>4
  <2>3. next(from, e) \in Int
    BY <2>1 DEF CreateJob, NotNull
  <2> DEFINE new == [status |-> "READY", executor |-> x, expr |-> e,
                     run_at |-> next(from, e), last_run_at |-> now,
                     timeout |-> tt, retries |-> rr, execution_amount |-> 0]
  <2>4. /\ row' = [row EXCEPT ![j] = new]
        /\ hist' = [hist EXCEPT ![j] = [Blank EXCEPT !.allowed = rr, !.start = s]]
        /\ now' = now
    BY <2>1 DEF CreateJob
  <2>5. new \in Row
    BY <2>2, <2>3 DEF Row, TypeOK
  <2>6. s \in Nat
    BY JobTableAssumption
  <2> HIDE DEF new, rr, tt, from
  <2>7. QED
    BY <2>2, <2>4, <2>5, <2>6 DEF TypeOK, Blank
<1>2. CASE \E e \in Exprs, t \in Timeouts : UpdateJob(j, x, e, t)
  <2>1. PICK e \in Exprs, t \in Timeouts : UpdateJob(j, x, e, t)
    BY <1>2
  <2> DEFINE tt == OrDefault(t, row[j].timeout)
             at == next(row[j].last_run_at, e)
  <2>2. row[j] \in Row
    BY <2>1, ExistsRow DEF UpdateJob, Found
  <2>3. at \in Int
    BY <2>1 DEF UpdateJob, NotNull
  <2>4. tt \in Nat \ {0}
    BY <2>1, <2>2, JobTableAssumption DEF UpdateJob, OrDefault, Row
  <2>5. /\ row' = [row EXCEPT ![j].expr = e, ![j].timeout = tt, ![j].run_at = at]
        /\ hist' = [hist EXCEPT ![j] = Follows(hist[j])] /\ now' = now
    BY <2>1 DEF UpdateJob
  <2> HIDE DEF tt, at
  <2>6. [row[j] EXCEPT !.expr = e, !.timeout = tt, !.run_at = at] \in Row
    BY <2>2, <2>3, <2>4 DEF Row
  <2>7. QED
    BY <2>5, <2>6 DEF TypeOK, Follows
<1>3. CASE \E e \in Exprs : UpdateExprByID(j, x, e)
  <2>1. PICK e \in Exprs : UpdateExprByID(j, x, e)
    BY <1>3
  <2>2. row[j] \in Row
    BY <2>1, ExistsRow DEF UpdateExprByID, Found
  <2>3. [row[j] EXCEPT !.expr = e] \in Row
    BY <2>2 DEF Row
  <2>4. QED
    BY <2>1, <2>3 DEF TypeOK, UpdateExprByID
<1>4. CASE StopJob(j, x) \/ RestartJob(j, x)
  <2>1. row[j] \in Row
    BY <1>4, ExistsRow DEF StopJob, RestartJob, Found
  <2>2. PICK st \in Status : row' = [row EXCEPT ![j].status = st]
    BY <1>4 DEF StopJob, RestartJob
  <2>3. [row[j] EXCEPT !.status = st] \in Row
    BY <2>1 DEF Row
  <2>4. now' = now /\ hist' = hist
    BY <1>4 DEF StopJob, RestartJob
  <2>5. QED
    BY <2>2, <2>3, <2>4 DEF TypeOK
<1>5. CASE DeleteJob(j, x)
  BY <1>5 DEF DeleteJob, TypeOK, Blank
<1>6. QED
  BY <1>1, <1>2, <1>3, <1>4, <1>5 DEF User

\* The power of two in a back-off that the table can represent is a date.
LEMMA BackoffType ==
    ASSUME TypeOK, NEW j \in Jobs, NEW x \in Executors, NEW e \in Exprs,
           BatchUpdateFailedJobs(j, x, e)
    PROVE  is_one_shot(row[j].expr) => now + 2 ^ row[j].execution_amount \in Int
<1>1. row[j] \in Row
  BY ExistsRow DEF BatchUpdateFailedJobs, Found
<1>2. SUFFICES ASSUME is_one_shot(row[j].expr)
               PROVE  now + 2 ^ row[j].execution_amount \in Int
  OBVIOUS
<1>3. row[j].execution_amount \in 0..MaxBackoff
  BY <1>1, <1>2, JobTableAssumption DEF BatchUpdateFailedJobs, Row
<1>4. 2 ^ row[j].execution_amount \in Nat
  BY <1>3, BackoffAssumption
<1>5. QED
  BY <1>4 DEF TypeOK

\* What an execution writes to a row makes a row.
LEMMA WrittenType ==
    ASSUME NEW r \in Row, NEW t \in Nat, NEW e \in Exprs, NEW st \in Status, NEW n \in Int,
           NEW m \in Nat, NEW at \in Int
    PROVE  [r EXCEPT !.last_run_at = t, !.expr = e, !.status = st, !.retries = n,
                     !.execution_amount = m, !.run_at = at] \in Row
BY DEF Row

\* The answers of handlers.
LEMMA AnswerType ==
    ASSUME TypeOK, NEW x \in Executors, NEW j \in Jobs, Answer(j, x)
    PROVE  TypeOK'
<1>1. PICK e \in Exprs : \/ \E status \in {"SUCCESS", "READY"} : BatchUpdateJobs(j, x, status, e)
                         \/ BatchUpdateFailedJobs(j, x, e)
  BY DEF Answer
<1>2. row[j] \in Row
  BY <1>1, ExistsRow DEF BatchUpdateJobs, BatchUpdateFailedJobs, Found
<1>3. now \in Nat
  BY DEF TypeOK
<1>4. CASE \E status \in {"SUCCESS", "READY"} : BatchUpdateJobs(j, x, status, e)
  <2>1. PICK status \in {"SUCCESS", "READY"} : BatchUpdateJobs(j, x, status, e)
    BY <1>4
  <2> DEFINE at  == next(now, e)
             n   == 0
             m   == row[j].execution_amount + 1
             new == [row[j] EXCEPT !.last_run_at = now, !.expr = e, !.status = status,
                                   !.retries = n, !.execution_amount = m, !.run_at = at]
  <2>2. /\ row' = [row EXCEPT ![j] = new]
        /\ hist' = [hist EXCEPT ![j] = [Follows(hist[j]) EXCEPT !.cleared = TRUE]]
        /\ now' = now
    BY <2>1 DEF BatchUpdateJobs
  <2>3. n \in Int /\ m \in Nat /\ at \in Int /\ status \in Status
    BY <1>2, <2>1 DEF Row, BatchUpdateJobs, NotNull
  <2> HIDE DEF at, n, m
  <2>4. new \in Row
    BY <1>2, <1>3, <2>3, WrittenType
  <2> HIDE DEF new
  <2>5. QED
    BY <2>2, <2>4 DEF TypeOK, Follows
<1>5. CASE BatchUpdateFailedJobs(j, x, e)
  <2> DEFINE st  == IF IsLast(j) THEN "FAILURE" ELSE "READY"
             os  == is_one_shot(row[j].expr)
             at  == IF os THEN now + 2 ^ row[j].execution_amount ELSE next(now, e)
             n   == row[j].retries - 1
             m   == row[j].execution_amount + 1
             new == [row[j] EXCEPT !.last_run_at = now, !.expr = e, !.status = st,
                                   !.retries = n, !.execution_amount = m, !.run_at = at]
  <2>1. /\ row' = [row EXCEPT ![j] = new]
        /\ hist' = [hist EXCEPT ![j] = [Follows(hist[j]) EXCEPT !.backoff = os]]
        /\ now' = now
    BY <1>5 DEF BatchUpdateFailedJobs
  <2>2. st \in Status /\ os \in BOOLEAN
    BY DEF is_one_shot
  <2>3. at \in Int
    BY <1>5, BackoffType DEF BatchUpdateFailedJobs, NotNull
  <2>4. n \in Int /\ m \in Nat
    BY <1>2 DEF Row
  <2> HIDE DEF st, at, os, n, m
  <2>5. new \in Row
    BY <1>2, <1>3, <2>2, <2>3, <2>4, WrittenType
  <2> HIDE DEF new
  <2>6. QED
    BY <2>1, <2>2, <2>5 DEF TypeOK, Follows
<1>6. QED
  BY <1>1, <1>4, <1>5

\* What executors and the clock do by themselves.
LEMMA FetchType ==
    ASSUME TypeOK, NEW x \in Executors, FetchDueJobs(x)
    PROVE  TypeOK'
<1>1. PICK J \in (SUBSET Due(x)) \ {{}} :
        row' = [j \in Jobs |-> IF j \in J
                   THEN [row[j] EXCEPT !.status = "PENDING", !.last_run_at = now]
                   ELSE row[j]]
  BY DEF FetchDueJobs
<1>2. now' = now /\ hist' = hist
  BY DEF FetchDueJobs
<1>3. ASSUME NEW j \in J
      PROVE  [row[j] EXCEPT !.status = "PENDING", !.last_run_at = now] \in Row
  <2>1. j \in Jobs /\ row[j] \in Row
    BY <1>3, ExistsRow DEF Due, Found
  <2>2. QED
    BY <2>1 DEF Row, TypeOK
<1>4. J \subseteq Jobs
  BY DEF Due
<1>5. row' \in [Jobs -> Row \cup {Absent(s) : s \in NoRow}]
  BY <1>1, <1>3, <1>4 DEF TypeOK
<1>6. QED
  BY <1>2, <1>5 DEF TypeOK

LEMMA ResetType ==
    ASSUME TypeOK, NEW x \in Executors, ResetTimeoutJobs(x)
    PROVE  TypeOK'
<1> DEFINE J == TimedOut(x)
<1>1. row' = [j \in Jobs |-> IF j \in J THEN [row[j] EXCEPT !.status = "READY"] ELSE row[j]]
  BY DEF ResetTimeoutJobs
<1>2. now' = now /\ hist' = hist
  BY DEF ResetTimeoutJobs
<1>3. J \subseteq Jobs
  BY DEF TimedOut
<1>4. ASSUME NEW j \in J
      PROVE  [row[j] EXCEPT !.status = "READY"] \in Row
  <2>1. row[j] \in Row
    BY <1>4, ExistsRow DEF TimedOut, Found
  <2>2. QED
    BY <2>1 DEF Row
<1> HIDE DEF J
<1>5. row' \in [Jobs -> Row \cup {Absent(s) : s \in NoRow}]
  BY <1>1, <1>3, <1>4 DEF TypeOK
<1>6. QED
  BY <1>2, <1>5 DEF TypeOK

LEMMA StepType == TypeOK /\ [Next]_vars => TypeOK'
<1> SUFFICES ASSUME TypeOK, [Next]_vars PROVE TypeOK'
  OBVIOUS
<1>1. CASE \E x \in Executors : FetchDueJobs(x)
  BY <1>1, FetchType
<1>2. CASE \E x \in Executors : ResetTimeoutJobs(x)
  BY <1>2, ResetType
<1>3. CASE \E x \in Executors, j \in Jobs : User(j, x)
  BY <1>3, UserType
<1>4. CASE \E x \in Executors, j \in Jobs : Answer(j, x)
  BY <1>4, AnswerType
<1>5. CASE Tick
  BY <1>5 DEF Tick, TypeOK
<1>6. CASE UNCHANGED vars
  BY <1>6 DEF vars, TypeOK
<1>7. QED
  BY <1>1, <1>2, <1>3, <1>4, <1>5, <1>6 DEF Next

(***************************************************************************)
(* Every row is whole or absent: no statement leaves one without a date for *)
(* its next run or with a time-out that never ends.                         *)
(***************************************************************************)
THEOREM TableType == Spec => []TypeOK
BY InitType, StepType, PTL DEF Spec

-----------------------------------------------------------------------------
(* The counters and the dates of a row, in any status.                      *)

\* Until a success or a retry is written, every execution has cost an attempt.
Counted(j) ==
    Exists(j) /\ ~hist[j].cleared =>
        /\ row[j].retries + row[j].execution_amount = hist[j].allowed
        /\ row[j].status = "FAILURE" => row[j].retries <= 0
        /\ hist[j].allowed <= MaxRetries

\* RunAtConsistent says this of rows that nobody executes: the lease of a row
\* starts when it is overdue.
Dated(j) ==
    Exists(j) =>
        \/ row[j].run_at < row[j].last_run_at
        \/ hist[j].backoff /\ BackedOff(row[j])
        \/ /\ ~hist[j].backoff
           /\ hist[j].drifted
                \/ row[j].run_at = next(row[j].last_run_at + hist[j].start, row[j].expr)

\* CronOnTime says this of the same rows; the reset puts back the minute at which
\* the row was due when it was fetched.
OnMinute(e, at) == kind(e) = "cron" => match(at, Crontabs[e[2]])

Matched(j) ==
    Exists(j) /\ ~hist[j].drifted /\ ~hist[j].backoff => OnMinute(row[j].expr, row[j].run_at)

RowInv(j) == Counted(j) /\ Dated(j) /\ Matched(j)

IInv == TypeOK /\ \A j \in Jobs : RowInv(j)

\* What a statement computes for a crontab and does not refuse.
LEMMA CronNext ==
    ASSUME NEW from \in Nat, NEW e \in Exprs, kind(e) = "cron", NotNull(next(from, e))
    PROVE  /\ next(from, e) \in Nat /\ next(from, e) > from
           /\ match(next(from, e), Crontabs[e[2]])
           /\ \A ts \in (from + 1)..(next(from, e) - 1) : ~match(ts, Crontabs[e[2]])
<1>1. next(from, e) = cron_next_run(from, Crontabs[e[2]])
  BY DEF next
<1>2. Crontabs[e[2]] \in Crontab
  BY JobTableAssumption DEF kind
<1>3. QED
  BY <1>1, <1>2, NextMatch DEF NotNull

LEMMA NextOnMinute ==
    ASSUME NEW from \in Nat, NEW e \in Exprs, NotNull(next(from, e))
    PROVE  OnMinute(e, next(from, e))
BY CronNext DEF OnMinute

\* A row that a step leaves keeps its part of the invariant.
LEMMA LeftAlone ==
    ASSUME NEW i \in Jobs, RowInv(i), row'[i] = row[i], hist'[i] = hist[i]
    PROVE  RowInv(i)'
BY DEF RowInv, Counted, Dated, BackedOff, Matched, Exists

\* So does one of which only the status changes, to another than FAILURE.
LEMMA StatusOnly ==
    ASSUME TypeOK, NEW i \in Jobs, RowInv(i), Exists(i), hist'[i] = hist[i],
           NEW st \in Status \ {"FAILURE"}, row'[i] = [row[i] EXCEPT !.status = st]
    PROVE  RowInv(i)'
<1>1. row[i] \in Row
  BY ExistsRow
<1>2. /\ row'[i].status = st /\ row'[i].retries = row[i].retries
      /\ row'[i].execution_amount = row[i].execution_amount
      /\ row'[i].expr = row[i].expr /\ row'[i].run_at = row[i].run_at
      /\ row'[i].last_run_at = row[i].last_run_at
  BY <1>1 DEF Row
<1>3. Counted(i)'
  BY <1>2 DEF RowInv, Counted
<1>4. Dated(i)'
  BY <1>2 DEF RowInv, Dated, BackedOff
<1>5. Matched(i)'
  BY <1>2 DEF RowInv, Matched
<1>6. QED
  BY <1>3, <1>4, <1>5 DEF RowInv

\* The statements of the users.
LEMMA UserRows ==
    ASSUME IInv, NEW x \in Executors, NEW j \in Jobs, User(j, x), NEW i \in Jobs
    PROVE  RowInv(i)'
<1> USE DEF IInv
<1>1. CASE i # j
  <2>1. row'[i] = row[i] /\ hist'[i] = hist[i]
    BY <1>1 DEF User, CreateJob, UpdateJob, UpdateExprByID, StopJob, RestartJob, DeleteJob,
                TypeOK
  <2>2. QED
    BY <2>1, LeftAlone
<1>2. CASE i = j
  <2>1. ASSUME NEW e \in Exprs, NEW s \in Starts, NEW t \in Timeouts, NEW r \in Attempts,
               CreateJob(j, x, e, s, t, r)
        PROVE  RowInv(i)'
    <3> DEFINE rr == OrDefault(r, DefaultRetries)
    <3>1. now \in Nat /\ s \in Nat
      BY JobTableAssumption DEF TypeOK
    <3>2. greatest(now + s, now) = now + s
      BY <3>1 DEF greatest
    <3>3. rr \in Int
      BY JobTableAssumption DEF OrDefault
    <3>4. /\ row'[i].status = "READY" /\ row'[i].expr = e /\ row'[i].last_run_at = now
          /\ row'[i].run_at = next(now + s, e)
          /\ row'[i].retries = rr /\ row'[i].execution_amount = 0
      BY <1>2, <2>1, <3>2 DEF CreateJob, TypeOK
    <3>5. hist'[i].allowed = rr /\ rr <= MaxRetries
      BY <1>2, <2>1 DEF CreateJob, TypeOK, Blank
    <3>6. hist'[i].start = s /\ ~hist'[i].backoff
      BY <1>2, <2>1 DEF CreateJob, TypeOK, Blank
    <3> HIDE DEF rr
    <3>7. Counted(i)'
      BY <3>3, <3>4, <3>5 DEF Counted
    <3>8. Dated(i)'
      BY <3>4, <3>6 DEF Dated
    <3>9. Matched(i)'
      <4>1. NotNull(next(now + s, e)) /\ now + s \in Nat
        BY <2>1, <3>1, <3>2 DEF CreateJob
      <4>2. OnMinute(e, next(now + s, e))
        BY <4>1, NextOnMinute
      <4>3. QED
        BY <3>4, <4>2 DEF Matched
    <3>10. QED
      BY <3>7, <3>8, <3>9 DEF RowInv
  <2>2. ASSUME NEW e \in Exprs, NEW t \in Timeouts, UpdateJob(j, x, e, t)
        PROVE  RowInv(i)'
    <3>1. row[i] \in Row
      BY <1>2, <2>2, ExistsRow DEF UpdateJob, Found
    <3>2. /\ row'[i].status = row[i].status /\ row'[i].retries = row[i].retries
          /\ row'[i].execution_amount = row[i].execution_amount
          /\ row'[i].last_run_at = row[i].last_run_at /\ row'[i].expr = e
          /\ row'[i].run_at = next(row[i].last_run_at, e)
      BY <1>2, <2>2, <3>1 DEF UpdateJob, TypeOK, Row
    <3>3. /\ hist'[i].allowed = hist[i].allowed /\ hist'[i].cleared = hist[i].cleared
          /\ hist'[i].start = 0 /\ ~hist'[i].backoff
      BY <1>2, <2>2 DEF UpdateJob, Follows, TypeOK
    <3>4. Counted(i)'
      BY <3>2, <3>3 DEF RowInv, Counted, Exists
    <3>5. Dated(i)'
      <4>1. row'[i].last_run_at + 0 = row[i].last_run_at
        BY <3>1, <3>2 DEF Row
      <4>2. QED
        BY <3>2, <3>3, <4>1 DEF Dated
    <3>6. Matched(i)'
      <4>1. NotNull(next(row[i].last_run_at, e)) /\ row[i].last_run_at \in Nat
        BY <1>2, <2>2, <3>1 DEF UpdateJob, Row
      <4>2. OnMinute(e, next(row[i].last_run_at, e))
        BY <4>1, NextOnMinute
      <4>3. QED
        BY <3>2, <4>2 DEF Matched
    <3>7. QED
      BY <3>4, <3>5, <3>6 DEF RowInv
  <2>3. ASSUME NEW e \in Exprs, UpdateExprByID(j, x, e)
        PROVE  RowInv(i)'
    <3>1. row[i] \in Row
      BY <1>2, <2>3, ExistsRow DEF UpdateExprByID, Found
    <3>2. /\ row'[i].status = row[i].status /\ row'[i].retries = row[i].retries
          /\ row'[i].execution_amount = row[i].execution_amount
          /\ row'[i].last_run_at = row[i].last_run_at /\ row'[i].expr = e
          /\ row'[i].run_at = row[i].run_at
      BY <1>2, <2>3, <3>1 DEF UpdateExprByID, TypeOK, Row
    <3>3. /\ hist'[i].allowed = hist[i].allowed /\ hist'[i].cleared = hist[i].cleared
          /\ hist'[i].start = hist[i].start /\ hist'[i].backoff = hist[i].backoff
      BY <1>2, <2>3 DEF UpdateExprByID, TypeOK
    <3>4. hist'[i].drifted <=> hist[i].drifted \/ e # row[i].expr
      BY <1>2, <2>3 DEF UpdateExprByID, TypeOK
    <3>5. Counted(i)'
      BY <3>2, <3>3 DEF RowInv, Counted, Exists
    <3>6. Dated(i)'
      BY <3>2, <3>3, <3>4 DEF RowInv, Dated, BackedOff, Exists
    <3>7. Matched(i)'
      BY <3>2, <3>3, <3>4 DEF RowInv, Matched, Exists
    <3>8. QED
      BY <3>5, <3>6, <3>7 DEF RowInv
  <2>4. ASSUME StopJob(j, x) \/ RestartJob(j, x)
        PROVE  RowInv(i)'
    <3>1. PICK st \in {"PAUSED", "READY"} : row'[i] = [row[i] EXCEPT !.status = st]
      BY <1>2, <2>4 DEF StopJob, RestartJob, TypeOK
    <3>2. Exists(i) /\ hist' = hist
      BY <1>2, <2>4 DEF StopJob, RestartJob, Found
    <3>3. QED
      BY <3>1, <3>2, StatusOnly
  <2>5. ASSUME DeleteJob(j, x)
        PROVE  RowInv(i)'
    <3>1. ~Exists(i)'
      BY <1>2, <2>5 DEF DeleteJob, TypeOK, Exists, Absent
    <3>2. QED
      BY <3>1 DEF RowInv, Counted, Dated, Matched
  <2>6. QED
    BY <2>1, <2>2, <2>3, <2>4, <2>5 DEF User
<1>3. QED
  BY <1>1, <1>2

\* The answers of handlers: a success or a retry clears the counter, a failure
\* takes one attempt and adds one execution.
LEMMA AnswerRows ==
    ASSUME IInv, NEW x \in Executors, NEW j \in Jobs, Answer(j, x), NEW i \in Jobs
    PROVE  RowInv(i)'
<1> USE DEF IInv
<1>1. PICK e \in Exprs : \/ \E status \in {"SUCCESS", "READY"} : BatchUpdateJobs(j, x, status, e)
                         \/ BatchUpdateFailedJobs(j, x, e)
  BY DEF Answer
<1>2. CASE i # j
  <2>1. row'[i] = row[i]
    BY <1>1, <1>2 DEF BatchUpdateJobs, BatchUpdateFailedJobs, TypeOK
  <2>2. hist'[i] = hist[i]
    BY <1>1, <1>2 DEF BatchUpdateJobs, BatchUpdateFailedJobs, TypeOK
  <2>3. QED
    BY <2>1, <2>2, LeftAlone
<1>3. CASE i = j /\ \E status \in {"SUCCESS", "READY"} : BatchUpdateJobs(j, x, status, e)
  <2>1. PICK status \in {"SUCCESS", "READY"} : BatchUpdateJobs(j, x, status, e)
    BY <1>3
  <2>2. row[i] \in Row
    BY <1>3, <2>1, ExistsRow DEF BatchUpdateJobs, Found
  <2>3. /\ row'[i].expr = e /\ row'[i].last_run_at = now /\ row'[i].run_at = next(now, e)
    BY <1>3, <2>1, <2>2 DEF BatchUpdateJobs, TypeOK, Row
  <2>4. hist'[i].cleared /\ hist'[i].start = 0 /\ ~hist'[i].backoff
    BY <1>3, <2>1 DEF BatchUpdateJobs, Follows, TypeOK
  <2>5. Dated(i)'
    <3>1. now + 0 = now
      BY DEF TypeOK
    <3>2. QED
      BY <2>3, <2>4, <3>1 DEF Dated
  <2>6. Matched(i)'
    <3>1. NotNull(next(now, e)) /\ now \in Nat
      BY <2>1 DEF BatchUpdateJobs, TypeOK
    <3>2. OnMinute(e, next(now, e))
      BY <3>1, NextOnMinute
    <3>3. QED
      BY <2>3, <3>2 DEF Matched
  <2>7. QED
    BY <2>4, <2>5, <2>6 DEF RowInv, Counted
<1>4. CASE i = j /\ BatchUpdateFailedJobs(j, x, e)
  <2>1. row[i] \in Row /\ Exists(i)
    BY <1>4, ExistsRow DEF BatchUpdateFailedJobs, Found
  <2>2. /\ row'[i].retries = row[i].retries - 1
        /\ row'[i].execution_amount = row[i].execution_amount + 1
        /\ row'[i].expr = e /\ row'[i].last_run_at = now
    BY <1>4, <2>1 DEF BatchUpdateFailedJobs, TypeOK, Row
  <2>3. row'[i].status = IF IsLast(i) THEN "FAILURE" ELSE "READY"
    BY <1>4, <2>1 DEF BatchUpdateFailedJobs, TypeOK, Row
  <2>4. row'[i].run_at = IF is_one_shot(row[i].expr) THEN now + 2 ^ row[i].execution_amount
                                                     ELSE next(now, e)
    BY <1>4, <2>1 DEF BatchUpdateFailedJobs, TypeOK, Row
  <2>5. hist'[i].allowed = hist[i].allowed
    BY <1>4 DEF BatchUpdateFailedJobs, Follows, TypeOK
  <2>6. hist'[i].cleared = hist[i].cleared
    BY <1>4 DEF BatchUpdateFailedJobs, Follows, TypeOK
  <2>7. (hist'[i].backoff <=> is_one_shot(row[i].expr)) /\ hist'[i].start = 0
    BY <1>4 DEF BatchUpdateFailedJobs, Follows, TypeOK, is_one_shot
  <2>8. Counted(i)'
    <3>1. SUFFICES ASSUME ~hist[i].cleared
                   PROVE  /\ row'[i].retries + row'[i].execution_amount = hist[i].allowed
                          /\ row'[i].status = "FAILURE" => row'[i].retries <= 0
                          /\ hist[i].allowed <= MaxRetries
      BY <2>5, <2>6 DEF Counted
    <3>2. /\ row[i].retries + row[i].execution_amount = hist[i].allowed
          /\ hist[i].allowed <= MaxRetries
      BY <2>1, <3>1 DEF RowInv, Counted
    <3>3. row[i].retries \in Int /\ row[i].execution_amount \in Int
      BY <2>1 DEF Row
    <3>4. row'[i].status = "FAILURE" => row[i].retries - 1 <= 0
      BY <2>3 DEF IsLast
    <3>5. QED
      BY <2>2, <3>2, <3>3, <3>4
  <2>9. Dated(i)'
    <3>1. now + 0 = now
      BY DEF TypeOK
    <3>2. row'[i].execution_amount - 1 = row[i].execution_amount
      BY <2>1, <2>2 DEF Row
    <3>3. CASE is_one_shot(row[i].expr)
      BY <2>2, <2>4, <2>7, <3>2, <3>3 DEF Dated, BackedOff
    <3>4. CASE ~is_one_shot(row[i].expr)
      BY <2>2, <2>4, <2>7, <3>1, <3>4 DEF Dated
    <3>5. QED
      BY <3>3, <3>4
  <2>10. Matched(i)'
    <3>1. CASE is_one_shot(row[i].expr)
      BY <2>7, <3>1 DEF Matched
    <3>2. CASE ~is_one_shot(row[i].expr)
      <4>1. NotNull(next(now, e)) /\ now \in Nat
        BY <1>4, <3>2 DEF BatchUpdateFailedJobs, TypeOK
      <4>2. OnMinute(e, next(now, e))
        BY <4>1, NextOnMinute
      <4>3. QED
        BY <2>2, <2>4, <3>2, <4>2 DEF Matched
    <3>3. QED
      BY <3>1, <3>2
  <2>11. QED
    BY <2>8, <2>9, <2>10 DEF RowInv
<1>5. QED
  BY <1>1, <1>2, <1>3, <1>4

\* The fetch starts the lease of overdue rows.
LEMMA FetchRows ==
    ASSUME IInv, NEW x \in Executors, FetchDueJobs(x), NEW i \in Jobs
    PROVE  RowInv(i)'
<1> USE DEF IInv
<1>1. PICK J \in (SUBSET Due(x)) \ {{}} :
        row' = [j \in Jobs |-> IF j \in J
                   THEN [row[j] EXCEPT !.status = "PENDING", !.last_run_at = now]
                   ELSE row[j]]
  BY DEF FetchDueJobs
<1>2. hist'[i] = hist[i]
  BY DEF FetchDueJobs
<1>3. CASE i \notin J
  BY <1>1, <1>2, <1>3, LeftAlone
<1>4. CASE i \in J
  <2>1. Exists(i) /\ row[i].run_at < now
    BY <1>4 DEF Due, Found
  <2>2. row[i] \in Row
    BY <2>1, ExistsRow
  <2>3. row'[i] = [row[i] EXCEPT !.status = "PENDING", !.last_run_at = now]
    BY <1>1, <1>4
  <2>4. /\ row'[i].status = "PENDING" /\ row'[i].last_run_at = now
        /\ row'[i].run_at = row[i].run_at /\ row'[i].retries = row[i].retries
        /\ row'[i].execution_amount = row[i].execution_amount
        /\ row'[i].expr = row[i].expr
    BY <2>2, <2>3 DEF Row
  <2>5. Counted(i)'
    BY <1>2, <2>1, <2>4 DEF RowInv, Counted
  <2>6. Dated(i)'
    BY <2>1, <2>4 DEF Dated
  <2>7. Matched(i)'
    BY <1>2, <2>1, <2>4 DEF RowInv, Matched
  <2>8. QED
    BY <2>5, <2>6, <2>7 DEF RowInv
<1>5. QED
  BY <1>3, <1>4

LEMMA ResetRows ==
    ASSUME IInv, NEW x \in Executors, ResetTimeoutJobs(x), NEW i \in Jobs
    PROVE  RowInv(i)'
<1> USE DEF IInv
<1>1. hist'[i] = hist[i]
  BY DEF ResetTimeoutJobs
<1>2. CASE i \in TimedOut(x)
  <2>1. row'[i] = [row[i] EXCEPT !.status = "READY"]
    BY <1>2 DEF ResetTimeoutJobs
  <2>2. Exists(i)
    BY <1>2 DEF TimedOut, Found
  <2>3. QED
    BY <1>1, <2>1, <2>2, StatusOnly
<1>3. CASE i \notin TimedOut(x)
  BY <1>1, <1>3, LeftAlone DEF ResetTimeoutJobs
<1>4. QED
  BY <1>2, <1>3

LEMMA StepRows ==
    ASSUME IInv, [Next]_vars, NEW i \in Jobs
    PROVE  RowInv(i)'
<1>1. CASE \E x \in Executors : FetchDueJobs(x)
  BY <1>1, FetchRows
<1>2. CASE \E x \in Executors : ResetTimeoutJobs(x)
  BY <1>2, ResetRows
<1>3. CASE \E x \in Executors, j \in Jobs : User(j, x)
  BY <1>3, UserRows
<1>4. CASE \E x \in Executors, j \in Jobs : Answer(j, x)
  BY <1>4, AnswerRows
<1>5. CASE Tick \/ UNCHANGED vars
  BY <1>5, LeftAlone DEF Tick, vars, IInv
<1>6. QED
  BY <1>1, <1>2, <1>3, <1>4, <1>5 DEF Next

\* The invariant holds in all states.
LEMMA Inductive == Spec => []IInv
<1>1. Init => IInv
  <2>1. Init => \A j \in Jobs : ~Exists(j)
    BY DEF Init, Absent, Exists
  <2>2. QED
    BY <2>1, InitType DEF IInv, RowInv, Counted, Dated, Matched
<1>2. IInv /\ [Next]_vars => IInv'
  BY StepType, StepRows DEF IInv
<1>3. QED
  BY <1>1, <1>2, PTL DEF Spec

(***************************************************************************)
(* A job to which only failures are written becomes FAILURE after no fewer  *)
(* executions than it was allowed at its creation.                          *)
(***************************************************************************)
THEOREM AllAttemptsMade == Spec => []NoEarlyFailure
<1>1. IInv => NoEarlyFailure
  <2>1. SUFFICES ASSUME IInv, NEW j \in Jobs, row[j].status = "FAILURE", ~hist[j].cleared
                 PROVE  row[j].execution_amount >= hist[j].allowed
    BY DEF NoEarlyFailure
  <2>2. Exists(j) /\ TypeOK /\ RowInv(j)
    BY <2>1 DEF Exists, IInv
  <2>3. row[j].retries \in Int /\ row[j].execution_amount \in Int
    BY <2>2, ExistsRow DEF Row
  <2>4. QED
    BY <2>1, <2>2, <2>3 DEF RowInv, Counted
<1>2. QED
  BY <1>1, Inductive, PTL

(***************************************************************************)
(* However its schedule changed, a job that was written nothing but         *)
(* failures never has a back-off out of range while attempts are left.      *)
(***************************************************************************)
THEOREM AttemptsSpendable == Spec => []AttemptsCanFail
<1>1. IInv => AttemptsCanFail
  <2>1. SUFFICES ASSUME IInv, NEW j \in Jobs, Exists(j), ~hist[j].cleared, row[j].retries >= 1
                 PROVE  row[j].execution_amount <= MaxBackoff
    BY DEF AttemptsCanFail
  <2>2. TypeOK /\ RowInv(j)
    BY <2>1 DEF IInv
  <2>3. /\ row[j].retries \in Int /\ row[j].execution_amount \in Int
        /\ hist[j].allowed \in Int
    BY <2>1, <2>2, ExistsRow DEF Row, TypeOK
  <2>4. /\ row[j].retries + row[j].execution_amount = hist[j].allowed
        /\ hist[j].allowed <= MaxRetries
    BY <2>1, <2>2 DEF RowInv, Counted
  <2>5. QED
    BY <2>1, <2>3, <2>4, JobTableAssumption
<1>2. QED
  BY <1>1, Inductive, PTL

(***************************************************************************)
(* The next run of a job that nobody executes, one-shot or recurring, is    *)
(* the one its schedule gives after its last execution or its start, or the *)
(* back-off of the failure of a one-shot job, or it is overdue: whatever    *)
(* the order of the statements, unless UpdateExprByID changed the schedule. *)
(***************************************************************************)
THEOREM RunAtFollows == Spec => []RunAtConsistent
<1>1. IInv => RunAtConsistent
  BY DEF IInv, RowInv, Dated, Exists, RunAtConsistent
<1>2. QED
  BY <1>1, Inductive, PTL

(***************************************************************************)
(* A job at rest is due at a minute that its crontab matches, and none that *)
(* it matches is left out since its last execution or its start, for all    *)
(* crontabs and any order of the statements.  Two statements write another  *)
(* run_at beside a crontab, and their rows are excepted: UpdateExprByID,    *)
(* and the failure of a job that was one-shot (its back-off).               *)
(***************************************************************************)
THEOREM CronRuns == Spec => []CronOnTime
<1>1. IInv => CronOnTime
  <2>1. SUFFICES ASSUME IInv, NEW j \in Jobs, row[j].status \in {"READY", "PAUSED"},
                        kind(row[j].expr) = "cron", ~hist[j].drifted, ~hist[j].backoff
                 PROVE  LET crontab == Crontabs[row[j].expr[2]]
                            from    == row[j].last_run_at + hist[j].start
                        IN  /\ match(row[j].run_at, crontab)
                            /\ row[j].run_at < row[j].last_run_at \/ row[j].run_at > from
                            /\ \A ts \in (from + 1)..(row[j].run_at - 1) : ~match(ts, crontab)
    BY DEF CronOnTime
  <2> DEFINE last == row[j].last_run_at
             from == last + hist[j].start
             at   == row[j].run_at
             e    == row[j].expr
  <2>2. Exists(j) /\ row[j] \in Row /\ RowInv(j) /\ TypeOK
    BY <2>1, ExistsRow DEF Exists, IInv
  <2>3. last \in Nat /\ at \in Int /\ e \in Exprs /\ from \in Nat /\ from >= last
    BY <2>2 DEF Row, TypeOK
  <2>4. match(at, Crontabs[e[2]])
    BY <2>1, <2>2 DEF RowInv, Matched, OnMinute
  <2>5. at < last \/ at = next(from, e)
    BY <2>1, <2>2 DEF RowInv, Dated
  <2>6. kind(e) = "cron"
    BY <2>1
  <2> HIDE DEF last, from, at, e
  <2>7. CASE at = next(from, e)
    <3>1. NotNull(next(from, e))
      BY <2>3, <2>7 DEF NotNull
    <3>2. at > from /\ \A ts \in (from + 1)..(at - 1) : ~match(ts, Crontabs[e[2]])
      BY <2>3, <2>6, <2>7, <3>1, CronNext
    <3>3. QED
      BY <2>4, <3>2 DEF last, from, at, e
  <2>8. CASE at < last
    <3>1. (from + 1)..(at - 1) = {}
      BY <2>3, <2>8
    <3>2. QED
      BY <2>4, <2>8, <3>1 DEF last, from, at, e
  <2>9. QED
    BY <2>5, <2>7, <2>8
<1>2. QED
  BY <1>1, Inductive, PTL
=============================================================================

------------------------------ MODULE JobStore ------------------------------
(***************************************************************************)
(* The table tiny.job as the statements of queries.sql change it, without   *)
(* a clock.  Of a row's timestamps only two comparisons are kept, the ones  *)
(* the statements make:                                                     *)
(*    due    run_at < now()                              (FetchDueJobs)     *)
(*    late   now() - last_run_at > timeout, of a PENDING row                *)
(*                                                       (ResetTimeoutJobs) *)
(* and of its counter of retries, whether the next failure is the last:     *)
(*    spent  retries - 1 <= 0                     (BatchUpdateFailedJobs)   *)
(* Every operator below constrains job' alone: a module that composes the   *)
(* table with its clients adds what the same step does elsewhere.           *)
(*                                                                          *)
(* An operator whose name starts with "Mutant" is the definition after it   *)
(* with a bug: no specification uses it, it serves to see that a property   *)
(* notices the bug.                                                         *)
(***************************************************************************)
EXTENDS Integers, FiniteSets

CONSTANTS
    Jobs,        \* the ids the sequence of the table hands out
    Executors,   \* the executor column
    Exprs        \* the schedules in use, a subset of Schedules

Schedules == {"at", "after", "every"}

ASSUME JobStoreAssumption == Jobs \subseteq Nat /\ Exprs \subseteq Schedules

VARIABLE job     \* job[j]: the row with id j

\* tiny.status, and the two ways of there being no row.
Terminal == {"SUCCESS", "FAILURE"}
Status   == {"READY", "PENDING", "PAUSED"} \cup Terminal
NoRow    == {"UNUSED", "DELETED"}

Row == [status : Status \cup NoRow, executor : Executors \cup {"none"},
        expr : Exprs \cup {"none"}, due : BOOLEAN, late : BOOLEAN,
        spent : BOOLEAN]

Absent(s) == [status |-> s, executor |-> "none", expr |-> "none",
              due |-> FALSE, late |-> FALSE, spent |-> FALSE]

\* A lease runs only while the row is PENDING: last_run_at is set by the
\* statement that makes it so.
TableOK ==
    /\ job \in [Jobs -> Row]
    /\ \A j \in Jobs : /\ job[j].late => job[j].status = "PENDING"
                       /\ job[j].status \in Status => job[j].expr \in Exprs

Exists(j) == job[j].status \in Status

-----------------------------------------------------------------------------
\* Both of them: the SQL function and the method of the Go job.
is_one_shot(e) == e \in {"at", "after"}

\* What both batch statements write: the lease of the row ends with it.
Written(row, st, e, d, sp) ==
    [row EXCEPT !.status = st, !.expr = e, !.due = d, !.late = FALSE, !.spent = sp]

\* The rows BatchUpdateJobs may leave where `row' was: status st, schedule e.
\* The next run may lie in the past: a date may, and an interval be negative.
\* No caller sets the argument retries, so that the statement clears it.
Updated(row, st, e) == {Written(row, st, e, d, TRUE) : d \in BOOLEAN}

\* The rows BatchUpdateFailedJobs may leave.  The status and the back-off
\* look at the schedule the row had, the next run at the one it gets: of a
\* one-shot row it is the back-off, which lies ahead.
StatusFailed(row) ==
    IF is_one_shot(row.expr) /\ row.spent THEN "FAILURE" ELSE "READY"

PastFailed(row) == IF is_one_shot(row.expr) THEN {FALSE} ELSE BOOLEAN

UpdatedFailed(row, e) ==
    UNION {{Written(row, StatusFailed(row), e, d, sp) : d \in PastFailed(row)} :
              sp \in {TRUE, row.spent}}

-----------------------------------------------------------------------------
\* insert: ids, and with them created_at, grow in the order of creation.  The
\* user may allow as little as one attempt.
CreateJob(x, e) ==
    \E j \in Jobs :
        /\ job[j].status = "UNUSED"
        /\ \A i \in Jobs : i < j => job[i].status # "UNUSED"
        /\ \E d, sp \in BOOLEAN :
              job' = [job EXCEPT ![j] = [status |-> "READY", executor |-> x, expr |-> e,
                                         due |-> d, late |-> FALSE, spent |-> sp]]

\* UpdateJobByID and UpdateJobByName: any status; run_at is computed again
\* from last_run_at, and the time-out of a running job may move.
UpdateJob(j, e) ==
    /\ Exists(j)
    /\ \E d, l \in BOOLEAN :
          /\ l => job[j].status = "PENDING"
          /\ job' = [job EXCEPT ![j].expr = e, ![j].due = d, ![j].late = l]

UpdateExprByID(j, e) ==
    /\ Exists(j)
    /\ job' = [job EXCEPT ![j].expr = e]

MutantStopRunning(j) ==
    /\ job[j].status \in Status \ Terminal
    /\ job' = [job EXCEPT ![j].status = "PAUSED"]

StopJob(j) ==
    /\ job[j].status \in Status \ {"FAILURE", "SUCCESS", "PENDING"}
    /\ job' = [job EXCEPT ![j].status = "PAUSED"]

MutantRestartAny(j) ==
    /\ Exists(j)
    /\ job' = [job EXCEPT ![j].status = "READY"]

RestartJob(j) ==
    /\ job[j].status = "PAUSED"
    /\ job' = [job EXCEPT ![j].status = "READY"]

DeleteJob(j) ==
    /\ Exists(j)
    /\ job' = [job EXCEPT ![j] = Absent("DELETED")]

-----------------------------------------------------------------------------
\* without "skip locked", and without the condition on the status
MutantDueLocked(x, locked) ==
    {j \in Jobs : job[j].status = "READY" /\ job[j].due /\ job[j].executor = x}

MutantDueRunning(x, locked) ==
    {j \in Jobs \ locked :
        job[j].status \in {"READY", "PENDING"} /\ job[j].due /\ job[j].executor = x}

\* FetchDueJobs: the rows its CTE may lock, for an executor that finds the
\* rows of `locked' locked, and the first `limit' of them by created_at.
DueRows(x, locked) ==
    {j \in Jobs \ locked :
        job[j].status = "READY" /\ job[j].due /\ job[j].executor = x}

MutantFirstOfLess(S, limit) == {j \in S : Cardinality({i \in S : i < j}) < limit - 1}
FirstOf(S, limit) == {j \in S : Cardinality({i \in S : i < j}) < limit}

\* ... and its update of the rows J it locked.
MarkPending(J) ==
    job' = [j \in Jobs |-> IF j \in J
                           THEN [job[j] EXCEPT !.status = "PENDING", !.late = FALSE]
                           ELSE job[j]]

MutantLateReady(x) ==
    {j \in Jobs : job[j].status = "READY" /\ job[j].late /\ job[j].executor = x}

LateRows(x) ==
    {j \in Jobs : job[j].status = "PENDING" /\ job[j].late /\ job[j].executor = x}

ResetTimeoutJobs(x) ==
    /\ LateRows(x) # {}
    /\ job' = [j \in Jobs |-> IF j \in LateRows(x)
                              THEN [job[j] EXCEPT !.status = "READY", !.late = FALSE]
                              ELSE job[j]]

-----------------------------------------------------------------------------
\* The clock passes run_at; the clock passes last_run_at + timeout.
Elapse(j) ==
    /\ Exists(j) /\ ~job[j].due
    /\ job' = [job EXCEPT ![j].due = TRUE]

Expire(j) ==
    /\ job[j].status = "PENDING" /\ ~job[j].late
    /\ job' = [job EXCEPT ![j].late = TRUE]

TableInit == job = [j \in Jobs |-> Absent("UNUSED")]

-----------------------------------------------------------------------------
\* The table by itself, under any order of the statements.
Answered(j) ==
    \E e \in Exprs :
        \E r \in UpdatedFailed(job[j], e) \cup
                 UNION {Updated(job[j], st, e) : st \in {"SUCCESS", "READY"}} :
            Exists(j) /\ job' = [job EXCEPT ![j] = r]

Fetched(x) == \E J \in SUBSET DueRows(x, {}) : MarkPending(J)

\* The clock passes a date of several rows at once.
Pass ==
    \E D \in SUBSET {j \in Jobs : Exists(j)}, L \in SUBSET {j \in Jobs : job[j].status = "PENDING"} :
        job' = [j \in Jobs |-> [job[j] EXCEPT !.due = @ \/ j \in D, !.late = @ \/ j \in L]]

TableNext ==
    \/ \E x \in Executors : \/ \E e \in Exprs : CreateJob(x, e)
                            \/ Fetched(x) \/ ResetTimeoutJobs(x)
    \/ \E j \in Jobs : \/ \E e \in Exprs : UpdateJob(j, e) \/ UpdateExprByID(j, e)
                       \/ StopJob(j) \/ RestartJob(j) \/ DeleteJob(j) \/ Answered(j)
    \/ Pass

TableSpec == TableInit /\ [][TableNext]_job
=============================================================================

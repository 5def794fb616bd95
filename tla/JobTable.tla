------------------------------ MODULE JobTable ------------------------------
(***************************************************************************)
(* The table tiny.job with its clock: the dates and counters of a row, as   *)
(* the generated statements of package sqlc compute them.  JobStore is what *)
(* the sessions see of it, and this module is shown to implement JobStore.  *)
(*                                                                          *)
(* The answers of handlers come while their job is PENDING, and at any      *)
(* time: the resolvers are exported by the GraphQL API, and nothing tells   *)
(* a late answer apart.  AnsweredIn says which of the two is considered.    *)
(* Statements of one row are modelled one by one, the rows of a batch too;  *)
(* that they commit together is QronClient's matter.                        *)
(***************************************************************************)
EXTENDS CronExpr

CONSTANTS
    Jobs, Executors,
    Exprs,            \* schedules <<kind, number>>; intervals may be negative
    Crontabs,         \* the crontabs, numbered
    Starts,           \* how far in the future start_at may be
    Timeouts,         \* arguments timeout; 0 stands for none
    Attempts,         \* arguments retries; 0 stands for none
    AnsweredIn,       \* the statuses in which a job may be answered
    DefaultTimeout, DefaultRetries,   \* 120 and 5
    MaxRetries,       \* 20, the check max_retries
    MaxBackoff,       \* 43: two to the power of more overflows timestamptz
    MaxTime,          \* bound on the clock
    MaxExecutions     \* bound on execution_amount

Kinds == {"at", "after", "every", "cron"}

ASSUME JobTableAssumption ==
    /\ Jobs \subseteq Nat
    /\ Exprs \subseteq Kinds \X Int
    /\ \A e \in Exprs : e[1] = "cron" =>
          e[2] \in DOMAIN Crontabs /\ Crontabs[e[2]] \in Crontab
    /\ Starts \subseteq Nat /\ Timeouts \subseteq Int /\ Attempts \subseteq Int
    /\ AnsweredIn \subseteq {"READY", "PENDING", "PAUSED", "SUCCESS", "FAILURE"}
    /\ DefaultTimeout \in Nat \ {0} /\ DefaultRetries \in Nat \ {0}
    /\ MaxRetries \in Nat /\ MaxBackoff \in Nat /\ MaxRetries <= MaxBackoff + 1
    /\ MaxTime \in Nat /\ MaxExecutions \in Nat

\* For the provers, which know little of powers.
ASSUME BackoffAssumption == \A n \in 0..MaxBackoff : 2 ^ n \in Nat \ {0}

VARIABLES
    now,     \* now(), in ticks
    row,
    hist     \* history of row j; no guard reads it:
             \*   allowed   the retries it was created with
             \*   cleared   BatchUpdateJobs has written its retries
             \*   start     how far after last_run_at it was told to start
             \*   drifted   UpdateExprByID changed its schedule alone
             \*   backoff   run_at is the back-off of a failure

vars == <<now, row, hist>>

Status == {"READY", "PENDING", "PAUSED", "SUCCESS", "FAILURE"}
NoRow  == {"UNUSED", "DELETED"}

Row == [status : Status, executor : Executors, expr : Exprs, run_at : Int,
        last_run_at : Nat, timeout : Nat \ {0}, retries : Int, execution_amount : Nat]

Absent(s) == [status |-> s]

Blank == [allowed |-> 0, cleared |-> FALSE, start |-> 0, drifted |-> FALSE, backoff |-> FALSE]

TypeOK ==
    /\ now \in Nat
    /\ row \in [Jobs -> Row \cup {Absent(s) : s \in NoRow}]
    /\ hist \in [Jobs -> [allowed : Int, cleared : BOOLEAN, start : Nat,
                      drifted : BOOLEAN, backoff : BOOLEAN]]

Init ==
    /\ now = 0
    /\ row = [j \in Jobs |-> Absent("UNUSED")]
    /\ hist = [j \in Jobs |-> Blank]

-----------------------------------------------------------------------------
kind(e) == e[1]
is_one_shot(e) == kind(e) \in {"at", "after"}

\* also a match at `from' itself
MutantNext(from, e) ==
    CASE kind(e) = "at" -> e[2]
      [] kind(e) \in {"after", "every"} -> from + e[2]
      [] kind(e) = "cron" -> IF match(from, Crontabs[e[2]]) THEN from
                             ELSE cron_next_run(from, Crontabs[e[2]])

\* A date, an interval from `from', or the next match of a crontab: a tick is a
\* minute.
next(from, e) ==
    CASE kind(e) = "at" -> e[2]
      [] kind(e) \in {"after", "every"} -> from + e[2]
      [] kind(e) = "cron" -> cron_next_run(from, Crontabs[e[2]])

\* run_at is not null: a statement that computes a null is refused.
NotNull(at) == at \in Int

\* coalesce(nullif(v, 0), default), and greatest
OrDefault(v, default) == IF v = 0 THEN default ELSE v
greatest(a, b) == IF a > b THEN a ELSE b

Exists(j)   == row[j].status \in Status
Found(j, x) == Exists(j) /\ row[j].executor = x

-----------------------------------------------------------------------------
\* without the check positive_timeout
MutantCreateJob(j, x, e, start, timeout, retries) ==
    LET t == OrDefault(timeout, DefaultTimeout)
        r == OrDefault(retries, DefaultRetries)
        at == next(greatest(now + start, now), e)
    IN  /\ row[j].status = "UNUSED" /\ r <= MaxRetries /\ NotNull(at)
        /\ row' = [row EXCEPT ![j] =
               [status |-> "READY", executor |-> x, expr |-> e,
                run_at |-> at, last_run_at |-> now,
                timeout |-> t, retries |-> r, execution_amount |-> 0]]
        /\ hist' = [hist EXCEPT ![j] = [Blank EXCEPT !.allowed = r, !.start = start]]
        /\ UNCHANGED now

\* max_retries and positive_timeout refuse the rest.
CreateJob(j, x, e, start, timeout, retries) ==
    LET t == OrDefault(timeout, DefaultTimeout)
        r == OrDefault(retries, DefaultRetries)
        at == next(greatest(now + start, now), e)
    IN  /\ row[j].status = "UNUSED"
        /\ \A i \in Jobs : i < j => row[i].status # "UNUSED"
        /\ t > 0 /\ r <= MaxRetries /\ NotNull(at)
        /\ row' = [row EXCEPT ![j] =
               [status |-> "READY", executor |-> x, expr |-> e,
                run_at |-> at, last_run_at |-> now,
                timeout |-> t, retries |-> r, execution_amount |-> 0]]
        /\ hist' = [hist EXCEPT ![j] = [Blank EXCEPT !.allowed = r, !.start = start]]
        /\ UNCHANGED now

\* The history of a row whose run_at was computed from its last_run_at.
Follows(h) == [h EXCEPT !.start = 0, !.drifted = FALSE, !.backoff = FALSE]

\* leaves run_at
MutantUpdateJob(j, x, e, timeout) ==
    LET t == OrDefault(timeout, row[j].timeout)
    IN  /\ Found(j, x) /\ t > 0
        /\ row' = [row EXCEPT ![j].expr = e, ![j].timeout = t]
        /\ hist' = [hist EXCEPT ![j] = Follows(@)]
        /\ UNCHANGED now

\* UpdateJobByID, UpdateJobByName.
UpdateJob(j, x, e, timeout) ==
    LET t == OrDefault(timeout, row[j].timeout)
        at == next(row[j].last_run_at, e)
    IN  /\ Found(j, x) /\ t > 0 /\ NotNull(at)
        /\ row' = [row EXCEPT ![j].expr = e, ![j].timeout = t, ![j].run_at = at]
        /\ hist' = [hist EXCEPT ![j] = Follows(@)]
        /\ UNCHANGED now

UpdateExprByID(j, x, e) ==
    /\ Found(j, x)
    /\ row' = [row EXCEPT ![j].expr = e]
    /\ hist' = [hist EXCEPT ![j].drifted = @ \/ e # row[j].expr]
    /\ UNCHANGED now

StopJob(j, x) ==
    /\ Found(j, x) /\ row[j].status \notin {"FAILURE", "SUCCESS", "PENDING"}
    /\ row' = [row EXCEPT ![j].status = "PAUSED"]
    /\ UNCHANGED <<now, hist>>

RestartJob(j, x) ==
    /\ Found(j, x) /\ row[j].status = "PAUSED"
    /\ row' = [row EXCEPT ![j].status = "READY"]
    /\ UNCHANGED <<now, hist>>

DeleteJob(j, x) ==
    /\ Found(j, x)
    /\ row' = [row EXCEPT ![j] = Absent("DELETED")]
    /\ hist' = [hist EXCEPT ![j] = Blank]
    /\ UNCHANGED now

-----------------------------------------------------------------------------
Due(x) == {j \in Jobs : Found(j, x) /\ row[j].status = "READY" /\ row[j].run_at < now}

\* leaves last_run_at
MutantFetchDueJobs(x) ==
    \E J \in (SUBSET Due(x)) \ {{}} :
        /\ row' = [j \in Jobs |-> IF j \in J THEN [row[j] EXCEPT !.status = "PENDING"]
                                             ELSE row[j]]
        /\ UNCHANGED <<now, hist>>

\* Which of the due rows the limit and the locks leave is not decided here.
FetchDueJobs(x) ==
    \E J \in (SUBSET Due(x)) \ {{}} :
        /\ row' = [j \in Jobs |->
               IF j \in J THEN [row[j] EXCEPT !.status = "PENDING", !.last_run_at = now]
                          ELSE row[j]]
        /\ UNCHANGED <<now, hist>>

\* CommitJobs and RetryJobs leave the argument retries at zero.
BatchUpdateJobs(j, x, status, e) ==
    LET at == next(now, e)
    IN  /\ Found(j, x)
        /\ row[j].execution_amount < MaxExecutions /\ NotNull(at)
        /\ row' = [row EXCEPT ![j] =
               [row[j] EXCEPT !.last_run_at = now, !.expr = e, !.status = status,
                              !.retries = 0, !.execution_amount = @ + 1, !.run_at = at]]
        /\ hist' = [hist EXCEPT ![j] = [Follows(@) EXCEPT !.cleared = TRUE]]
        /\ UNCHANGED now

MutantIsLast(j) == is_one_shot(row[j].expr) /\ row[j].retries - 2 <= 0
IsLast(j) == is_one_shot(row[j].expr) /\ row[j].retries - 1 <= 0

\* the failures of recurring jobs cost no attempts
MutantBatchUpdateFailedJobs(j, x, e) ==
    LET oneShot == is_one_shot(row[j].expr)
        at      == IF oneShot THEN now + 2 ^ row[j].execution_amount ELSE next(now, e)
    IN  /\ Found(j, x)
        /\ row[j].execution_amount < MaxExecutions
        /\ IF oneShot THEN row[j].execution_amount <= MaxBackoff ELSE NotNull(at)
        /\ row' = [row EXCEPT ![j] =
               [row[j] EXCEPT !.last_run_at = now, !.expr = e,
                              !.status = IF IsLast(j) THEN "FAILURE" ELSE "READY",
                              !.retries = IF oneShot THEN @ - 1 ELSE @,
                              !.execution_amount = @ + 1, !.run_at = at]]
        /\ hist' = [hist EXCEPT ![j] = [Follows(@) EXCEPT !.backoff = oneShot]]
        /\ UNCHANGED now

\* A back-off out of range fails the statement, and so does a null.
BatchUpdateFailedJobs(j, x, e) ==
    LET oneShot == is_one_shot(row[j].expr)
        at      == IF oneShot THEN now + 2 ^ row[j].execution_amount ELSE next(now, e)
    IN  /\ Found(j, x)
        /\ row[j].execution_amount < MaxExecutions
        /\ IF oneShot THEN row[j].execution_amount <= MaxBackoff ELSE NotNull(at)
        /\ row' = [row EXCEPT ![j] =
               [row[j] EXCEPT !.last_run_at = now, !.expr = e,
                              !.status = IF IsLast(j) THEN "FAILURE" ELSE "READY",
                              !.retries = @ - 1,
                              !.execution_amount = @ + 1, !.run_at = at]]
        /\ hist' = [hist EXCEPT ![j] = [Follows(@) EXCEPT !.backoff = oneShot]]
        /\ UNCHANGED now

TimedOut(x) ==
    {j \in Jobs : /\ Found(j, x) /\ row[j].status = "PENDING"
                  /\ row[j].timeout > 0 /\ now - row[j].last_run_at > row[j].timeout}

ResetTimeoutJobs(x) ==
    /\ TimedOut(x) # {}
    /\ row' = [j \in Jobs |-> IF j \in TimedOut(x) THEN [row[j] EXCEPT !.status = "READY"]
                                                   ELSE row[j]]
    /\ UNCHANGED <<now, hist>>

Tick ==
    /\ now < MaxTime
    /\ now' = now + 1
    /\ UNCHANGED <<row, hist>>

-----------------------------------------------------------------------------
User(j, x) ==
    \/ \E e \in Exprs, s \in Starts, t \in Timeouts, r \in Attempts : CreateJob(j, x, e, s, t, r)
    \/ \E e \in Exprs, t \in Timeouts : UpdateJob(j, x, e, t)
    \/ \E e \in Exprs : UpdateExprByID(j, x, e)
    \/ StopJob(j, x) \/ RestartJob(j, x) \/ DeleteJob(j, x)

Answer(j, x) ==
    /\ row[j].status \in AnsweredIn
    /\ \E e \in Exprs : \/ \E status \in {"SUCCESS", "READY"} : BatchUpdateJobs(j, x, status, e)
                        \/ BatchUpdateFailedJobs(j, x, e)

Next ==
    \/ \E x \in Executors : \/ FetchDueJobs(x) \/ ResetTimeoutJobs(x)
                            \/ \E j \in Jobs : User(j, x) \/ Answer(j, x)
    \/ Tick

Spec == Init /\ [][Next]_vars

-----------------------------------------------------------------------------
\* A row as the sessions see it: two comparisons with the clock, and whether the
\* next failure is the last.
StoreKind(e) == IF is_one_shot(e) THEN kind(e) ELSE "every"

Seen(j) ==
    [status   |-> row[j].status,
     executor |-> IF Exists(j) THEN row[j].executor ELSE "none",
     expr     |-> IF Exists(j) THEN StoreKind(row[j].expr) ELSE "none",
     due      |-> Exists(j) /\ row[j].run_at < now,
     late     |-> /\ row[j].status = "PENDING"
                  /\ now - row[j].last_run_at > row[j].timeout,
     spent    |-> Exists(j) /\ row[j].retries - 1 <= 0]

Store == INSTANCE JobStore WITH
    Exprs <- {StoreKind(e) : e \in Exprs},
    job   <- [j \in Jobs |-> Seen(j)]

(***************************************************************************)
(* What JobStore leaves open, when a row is due, late or spent after a      *)
(* statement, covers what the dates and counters of the rows make of it:    *)
(* whatever is shown of the sessions on JobStore holds on the real table.   *)
(***************************************************************************)
KeepsStore == Store!TableSpec

(***************************************************************************)
(* A job fails for good only after as many executions as it was allowed, if *)
(* nothing but failures has been written to it, whatever has happened to    *)
(* its schedule and however often it was stopped, lost and fetched again.   *)
(***************************************************************************)
NoEarlyFailure ==
    \A j \in Jobs : row[j].status = "FAILURE" /\ ~hist[j].cleared
                        => row[j].execution_amount >= hist[j].allowed

(***************************************************************************)
(* An attempt that is left can be spent.  The back-off grows with all the   *)
(* executions of a row, those it made under other schedules included, and a *)
(* failure whose back-off overflows is refused (queries.sql:197): the job   *)
(* would time out and run again for ever.  No row gets there by failures    *)
(* alone; one whose retries a success or a retry has cleared may.           *)
(***************************************************************************)
AttemptsCanFail ==
    \A j \in Jobs : Exists(j) /\ ~hist[j].cleared /\ row[j].retries >= 1
                        => row[j].execution_amount <= MaxBackoff

\* A job is left in its terminal state after the maximum of its retries.
MaximumRetries ==
    \A j \in Jobs : row[j].status = "FAILURE" => row[j].execution_amount >= hist[j].allowed

(***************************************************************************)
(* The comment of the updates: run_at is always consistent.  The next run   *)
(* of a job that nobody executes follows from the row: by its schedule,     *)
(* from the end of its last execution or from its start, or, after the      *)
(* failure of a one-shot job, by the back-off of its executions, whatever   *)
(* schedule the handler left; or it is overdue since the execution that was *)
(* reset.  Excepted are the rows whose schedule UpdateExprByID has changed, *)
(* which leaves run_at as it was (queries.sql:76).                          *)
(***************************************************************************)
BackedOff(r) == r.run_at = r.last_run_at + 2 ^ (r.execution_amount - 1)

RunAtConsistent ==
    \A j \in Jobs : row[j].status \in {"READY", "PAUSED"} =>
        \/ row[j].run_at < row[j].last_run_at
        \/ hist[j].backoff /\ BackedOff(row[j])
        \/ /\ ~hist[j].backoff
           /\ hist[j].drifted
                \/ row[j].run_at = next(row[j].last_run_at + hist[j].start, row[j].expr)

(***************************************************************************)
(* What a crontab asks for: a job at rest is due at a minute that matches,  *)
(* as cronexp.match has it, and none is left out since its last execution,  *)
(* or its start, however the search through days and pages went             *)
(* (init.sql:36-96).  It may be overdue since an execution that was reset.  *)
(* Excepted are the rows whose run_at is not the crontab's: UpdateExprByID  *)
(* gave them the crontab and left run_at (queries.sql:76-82), or they were  *)
(* one-shot when they failed, and run_at is the back-off of that failure    *)
(* (queries.sql:196-202).                                                   *)
(***************************************************************************)
CronOnTime ==
    \A j \in Jobs :
        /\ row[j].status \in {"READY", "PAUSED"}
        /\ kind(row[j].expr) = "cron" /\ ~hist[j].drifted /\ ~hist[j].backoff
        => LET crontab == Crontabs[row[j].expr[2]]
               from    == row[j].last_run_at + hist[j].start
           IN  /\ match(row[j].run_at, crontab)
               /\ row[j].run_at < row[j].last_run_at \/ row[j].run_at > from
               /\ \A ts \in (from + 1)..(row[j].run_at - 1) : ~match(ts, crontab)
=============================================================================

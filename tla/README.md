# Verification of qron

qron is a job scheduler: a table of jobs in Postgres, and a Go client that polls
it, hands the jobs that are due to handlers of the application, and writes their
answers back. This directory holds TLA+ specifications of it, the TLC
configurations that check them on small instances, and proofs, checked by TLAPS,
of what holds for every instance.

## 1. Inventory

| part | state it keeps | operations | interacts with |
|---|---|---|---|
| job table (`queries.sql`, `migrations/*init.sql`, generated `sqlc/*.go`) | one row per job: status, executor, schedule, run_at, last_run_at, timeout, retries, execution_amount, state | create, batch create, update by id or name, update expr, update state, stop, restart, delete, fetch due, batch update, batch fail, reset | every client by SQL; row locks and `skip locked` order the statements |
| client session (`client.go`, `graph/job_resolvers.go`) | per `Fetch`: context, channel to the consumer, three batches; per client: `processedCh`, MaxInFlight, MaxFlushSize | poller, flusher, resetter; `Commit`, `Fail`, `Retry` of a job in flight | table; consumer by an unbuffered channel; handlers by `processedCh`, which all sessions of the client share |
| HTTP executor (`executor/http.go`) | a limiter channel | `Run` | a handler of the client; a remote service |
| cron expressions (`*crontab.sql`, `tiny.cron_next_run`) | none | expand a field, match, next run | every statement that computes run_at |
| owner pool (`sqlc/owner.go`, `*rls.sql`, `ctx/ctx.go`) | `tiny.owner` of each pooled connection | acquire, release, reset; exit of the process | row level security of the table |
| sugared jobs (`sugar.go`) | a template of a job; a relay goroutine | builder methods, `Schedule`, `Fetch` | the client |
| names and deduplication (`*job_deduplication.sql`) | two unique constraints | an insert that conflicts, or waits to know | `CreateJob`, `BatchCreateJobs` |
| GraphQL API (`graph/generated`, `graph/job_resolvers.go`, `Client.Handler`) | requests in progress, a call for each of their fields | 15 mutations, 5 queries | owner pool, table |
| migrations runner, other servers, test containers | none of their own | wiring | Postgres |

### What is hard

* **A job is in two places.** Between the SELECT that claims it and the UPDATE
  that settles it, the row says PENDING and a copy is in some process. Time-outs,
  crashes and lost connections separate the two: the row goes back to READY, and
  the copy may still answer.
* **Statements find rows by id and executor, not by lease.** Nothing tells the
  answer of the current execution from that of an earlier one.
* **Answers are batched**, by kind, in whichever session of the process receives
  them, and one batch is one implicit transaction.
* **Cancellation** stops three goroutines at different moments; each has a
  different idea of which context to use for its SQL.
* **Fetch order** is by creation, and limited: who is served depends on who else
  is due.
* **Owners share connections.** What a statement sees depends on a setting of its
  connection, which the hooks of a pool write and clear; a hook that cannot ends
  the process.
* **Transactions of several statements** wait for each other's rows and names, are
  cut off at any of them, and report to a client what became of them.
* **Numbers**: retries and back-off, MaxInFlight, the limits of intervals, the days
  and minutes of a crontab.

`PROJECT.json` lists every such hazard at its line, with the properties that
cover it or the reason why none does yet.

### What makes each part correct

* Table: a job is at rest (PAUSED, SUCCESS, FAILURE) until a user says otherwise;
  a lease runs only while the row is PENDING; run_at agrees with the schedule;
  a job with n attempts fails n times before it is given up.
* Session: one current execution of a job at a time; an answer is never lost but
  by a fault; a lease never lasts for ever; a due job is delivered; what was
  fetched before cancellation is still settled.
* HTTP executor: at most n requests at a time; every job it is given is answered;
  the loop that feeds it keeps serving, and ends when it is stopped.
* Cron: the next run is the first match after now, or there is none in five years.
* Owner pool: a statement runs as the owner of the context that issued it; a
  connection that waits in the pool is nobody's; none is lost.
* API: nobody sees or changes rows of others; every request is answered, truly;
  the constraints of the table hold whatever is cut off.

## 2. The modules

    JobLease          what a user is promised about the executions of a job
       ^ implemented by (refinement mapping, property KeepsLeases)
    QronClient        sessions, handlers, faults, users   EXTENDS
    JobStore          the table and its statements, without a clock
       ^ implemented by (refinement mapping, property KeepsStore)
    JobTable          the table with its clock, dates and counters   EXTENDS
    CronExpr          crontabs and their next run

    GraphqlApi        requests, calls, transactions   EXTENDS
    OwnedTable        JobStore with owners, names and keys   EXTENDS
    OwnerPool         connections, their owners, and the exit of the process

    HttpDev           the server of cmd/httpdev: its loop and a relay   EXTENDS
    HttpExecutor      the runs of one executor and their limiter

    MCQronClient, MCJobTable, MCHttpDev, MCGraphqlApi                    constants for TLC
    QronClientProofs, AnswerProofs, LeaseProofs                          theorems
    CronExprProofs, JobTableProofs, StoreProofs                          theorems
    HttpDevProofs, GraphqlApiProofs                                      theorems

### JobStore

`job[j]` is row j. Of its timestamps the module keeps the two comparisons that
statements make, `due` (`run_at < now()`) and `late` (`now() - last_run_at >
timeout`, of a PENDING row), and of `retries` whether the next failure is the last
(`spent`). A statement that computes a new run_at may leave the row due or not: a
date may be over, and an interval may be negative, as the repository's README.md:202
allows and `run_format` does not forbid. Only the back-off of a one-shot job always lies ahead
(`PastFailed`). Schedules are the three kinds the code tells apart: `@at` and
`@after`, both one-shot, and everything recurring.

Details that follow the SQL and not intuition: `BatchUpdateJobs` and
`BatchUpdateFailedJobs` have no condition on the status; the former clears
retries, as no caller sets the argument; the latter decides FAILURE by the
schedule the row *had*, and computes the next run from the one it *gets*;
`UpdateExprByID` leaves run_at alone; `UpdateJobByID` computes it again from
last_run_at and may change the time-out of a running job; `StopJob` accepts a
paused job, `RestartJob` nothing else.

`TableSpec` is the table by itself, under any order of the statements: the step
from JobTable to JobStore is a refinement of it.

### JobTable

The same statements on a clock that ticks: `row[j]` has the columns the statements
read and write, a schedule is `<<kind, number>>`, and `next` computes a run as
`tiny.next` does (`"every"` stands for `@every` and `@daily` and the like, `"cron"`
for one of `Crontabs`; a tick is a minute). Of a crontab without a next run the
result is null, or an exception, and the statement is refused (`NotNull`), as a
back-off out of range is. The defaults of `CreateJob`, the
checks `max_retries` and `positive_timeout`, the back-off `2 ^ execution_amount`
and its limit (a power above 43 is no date any more; Postgres fails the statement)
are the code's; their values are constants.

`hist` is a history of each row that no statement reads: the attempts it was
created with, whether a success or retry has overwritten them, the start it was
created with as long as run_at counts from it, whether UpdateExprByID has changed its
schedule without its run_at (`drifted`), and whether run_at is the back-off of a
failure (`backoff`).

`Seen(j)` is the refinement mapping: `due`, `late` and `spent` of JobStore as the
comparisons they stand for. What JobStore says of any statement, and what
QronClient shows of the sessions with it, thus holds of dates and counters.

### CronExpr

A field is what its text parses to: an asterisk with a step, or a list of ranges
with steps. `expand_field` is the set of its values and `Expands` says when it
raises no exception; `match` is `cronexp.match`; `cron_next_run` is the search of
`tiny.cron_next_run` as it is written: the first day that matches, with an offset
(`page`) into those of the next five years, the first minute of it after the start,
and once more from the beginning of that day with the next page when there is none.
Hours, days, weeks and months have constant lengths, and the calendar is a cycle of
dates (`Dates`), so that TLC can search all of a small one. `FirstMatch`, the first
minute that `match` accepts, is the definition it is compared with: it does not
know of days, pages and fields.

### QronClient

A *session* is one call of `Fetch`; a *client* is a process. A *claim* is one
execution of a job that a poll took, `claim[<<j, n>>]` the n-th under way of job j:

| stage | where the copy of the job is | code |
|---|---|---|
| locked | the poll's transaction is open, the row locked | `FetchForProcessing` between `FetchDueJobs` and `tx.Commit` |
| fetched | in the slice `jobs`; the poller blocks on `ch <-` | `client.go:212` |
| running | with a handler | the application |
| commit, fail, retry | in that batch of a flusher | `client.go:137` |

Actions, one per step of the code: `PollBegin`, `PollCommit`, `PollAbort`,
`PollCommitLost` (the commit took effect, but `tx.Commit` does not learn of it, as the
context is cancelled at that moment or the connection lost, and `return nil, err`
returns no error; only the second is a fault); `Deliver`; `Answer` (a handler's send meets the
select of any flusher of its process); `FlushStart` (the timer, or the cancelled
context; the size limit is part of `Answer`); `FlushCommit`, `FlushFail`,
`FlushRetry` (one batch each, in order, emptied whatever came of it, the third
with the context of the session); `FlushError`; `Reset`; `Create`, `Mutate` (the
API); `Fetch`, `Cancel`, `Leave` (the consumer returns on `ctx.Done()`, as the
README's does), `Crash`, `Abandon` (a handler ends, or hangs, without an answer);
`Tick` (the clock passes run_at or the time-out).

`Write` is a batch: all its statements or, if one row is refused by the table's
checks (`bad`: a schedule of wrong format, a state too long), none. It waits while
a poll has one of its rows locked, and ends the claims of the batch. Two answers
of one job in one fail batch are applied one after the other (`Before`).

`stale` is a history variable: the table forgot this claim, by a reset or by the
answer of another claim of the job. No guard reads it. A claim that is not stale
is *current*.

### JobLease

The abstract promise: per job a phase, the execution that holds its lease, and
whether an execution that lost the lease may still answer. Only jobs that wait
are granted; a lease never passes from one execution to another; a job that is
paused or has ended is disturbed by users and by late answers alone.

### HttpExecutor and HttpDev

`run[r]` says where the r-th call of `HttpExecutor.Run` is: preparing, waiting for
a slot of the limiter, in its request, reading the body, or blocked in `Commit`,
`Fail` or `Retry`. `Respond` gives the slot back before the body is read;
`RequestFails` is the error path, which returns with it.

HttpDev is one consumer as the repository writes it: a goroutine selects among the
context, the channel of the HTTP session, for whose jobs it spawns runs, and the
channel of sugared jobs, which it commits itself. It does not look whether a
channel is closed, so that after the stop it may spawn runs of zero jobs
(`DispatchZero`), which block for ever on a nil channel. The sessions' pollers are
reduced to what they send (`Poll`, `Close`, and `RelayFetch` for the relay of
`sugar.go`); their answers are always taken in the end, as flushers never return.

### OwnerPool

`conn[k]` is the k-th connection the pool may open: closed, idle, lent, or returned
and not yet reset; with the owner in its setting `tiny.owner`, and whether its next
statement would work. The hooks of `NewScopedPgx` are actions: `BeforeAcquire` (with
`AfterConnect`) sets the owner of the borrower's context, `AfterRelease` resets it or,
when that fails, destroys the connection, and `AcquireFatal` is `log.Fatal` in the
former: a context without an owner, a connection that broke while it was idle, a
client that left at that moment. It ends the process (`up`). pgxpool and what
breaks are external: idle connections are lent before new ones are opened (of
those, the first number), and pinged when they have been idle for long
(`Discard`).

### OwnedTable

JobStore's rows with the columns that never change, `tag[j]`: owner, name,
deduplication key. `Visible(o)` is the policy of the table, `Conflicts` are its
two unique constraints, of which that on keys knows no owner, and `NextId` is the
sequence: an id is used once, also when the row is deleted or its transaction is
rolled back. The statements that read are here.

### GraphqlApi

A request is an operation: its kind, the owner of its header, its fields with raw
arguments. `Decodes` says which of those gqlgen accepts, with an operator for each
type of arguments, as in the generated code. So are there for each field the executor,
`Mutation_f` or `Query_f`, and what it calls: `mutationResolver_F` or
`queryResolver_F` is the method of `job_resolvers.go` with its statements. A call
*waits*, borrows a connection (`Acquire`), is *open* while its statements run, and *done*; it is *cut* when its client leaves while the pool serves
it. The calls of a query run together; those of a mutation in turn, whatever came of
the one before (`Turn`).

What a transaction has written is the call's `draft`, and the rows in it are those it
has locked. A statement that needs a row, a name or a key that another draft has,
waits; in a circle one of the transactions is aborted (`Deadlock`). `Publish` commits
a draft. `Errors` is a statement that fails, `Lost` a connection that breaks, `Returns`
a statement whose answer may be lost although it took effect. `Unapplied` is the
answer of each resolver when nothing took effect: `RetryJobs` lists the ids whose
results it did not see, `FetchForProcessing` returns nothing and no error when its
commit fails, the others an error.

`applied` is a history variable: what the call was asked to do has been done.

## 3. The runs

`table` and `attempts` are of MCJobTable, `httpdev` of MCHttpDev, `api` of
MCGraphqlApi, the others of MCQronClient. Deadlock is
not an error in them: when every job is settled for good, every session cancelled
or the clock at its bound, the system rightly stops.

| run | instance | shows |
|---|---|---|
| claims | 1 job, 2 processes of 1 session for one executor, 2 slots, all mutations, `@at` and recurring, handlers and users that change the schedule, refused answers; one of the processes may crash or be cancelled; 1 fault | `TypeOK`, `ExclusiveDelivery`, `RestingStays`, `KeepsLeases`, `OnlyOneShotsSucceed` |
| results | 2 jobs, 1 session, batches of 2, polls of 2, late answers, refused answers | `NoAnswerLost`, `MemoryBounded` |
| shutdown | 2 jobs, 2 sessions of one client, both cancellable at any time, the commit of a poll included, one consumer that leaves at its cancellation, handlers that commit or fail; fair | `NoAnswerLost`, `Drains` |
| live | 1 job, a lasting session and one that may be cancelled, left or crash; stop, restart, delete; 1 fault; fair | `AtLeastOnce`, `PendingEnds` |
| two_executors | 1 job, one client fetching for two executors | `NoAnswerLost` is violated |
| retry_at_stop | 1 recurring job, one session that may be cancelled | `NoAnswerLost` is violated |
| late_answer | 1 job, one session, a slow handler | `FailureIsForever` is violated |
| starvation | 2 recurring jobs, polls of 1; fair | `AtLeastOnce` is violated |
| table | 1 row of one of 2 executors, 3 ticks and 3 executions; `@at`, `@after`, an interval of -1 and two crontabs; a start now or in 2 ticks; arguments absent, accepted and refused; answers in any status | `TypeOK`, `AttemptsCanFail`, `NoEarlyFailure`, `RunAtConsistent`, `CronOnTime`, `KeepsStore` |
| httpdev | 3 runs, 1 slot, polls of 1, 1 sugared job; fair | `TypeOK`, `RequestsBounded`, `ZeroTakesNoSlot`, `AnsweredUnlessLeaked`, `KeepsServing`, `Returns` |
| api | 2 requests of 2 owners, the first one of 6 mutations, the second one of 21 operations of one or two fields, any mutation and any query among them; 2 connections, 6 ids, 1 fault; fair | `TypeOK`, `LoansAccounted`, `ShowsOwnRows`, `AnswersTrue`, `StaysUp`, `OwnRowsOnly`, `EveryRequestEnds` |
| attempts | 1 row with 3 attempts, answers while it is PENDING | `MaximumRetries` is violated |

### Bounds, and why they are enough

* `Jobs`: the row of a job is touched by its own claims alone, except in two
  places, the limit of a poll and the batches. One job with two sessions shows the
  former's races, two jobs in one or two sessions the latter.
* `Slots`: two executions of a job under way show a current one and a stale one;
  the poller waits when there is no slot. Shutdown has one slot: with no reset
  before the cancellation the second would never be used, and with one it would
  only delay the drain.
* `MaxFaults`: one crash, connection or handler lost; the liveness properties say
  that the system recovers from it, whenever it happens.
* `MaxInFlight`, `MaxFlushSize`: one and two, so that limits are reached with one
  job more than that.
* HttpDev: with one slot, one failed request exhausts the limiter, a second run
  waits for ever, and a third shows whether the loop still serves.
* JobTable: a statement changes the rows it selects each by itself, so one row
  shows what can happen to any; the theorems are about any number. Three ticks let a
  row come due, time out, and come due again (an interval that goes back is due again
  at once), and let a start lie ahead at any of the first two; three
  executions use up the two attempts of the default and go one below. Executors are
  interchangeable (symmetry). A back-off is out of range after two executions
  (`MaxBackoff` is 1), so that `AttemptsCanFail` is at its limit: `MaxRetries` is one
  more. The bounds `MaxTime` and `MaxExecutions` are guards
  of `Tick` and of the answers.

* CronExpr: hours of two minutes, days of two hours, weeks of three days, years of
  three days with a leap day in every second one, a horizon of six days: every day
  of the year falls on every day of the week, and some matches are farther away
  than the horizon. MCJobTable compares the search with its reference, as an
  assumption that TLC evaluates, for the 288 valid of its crontabs from every minute
  of the cycle. The rows of `table` have one crontab whose days still match when
  their minute is over, and one that has no next run from some time on.
* GraphqlApi: the first request is a batch of either kind or a change, the second a
  change or any other operation, so that two calls at a time meet in every way that
  statements of two transactions can, crossing batches included; three requests
  would add waiting for a connection, of which there are two, as one query of two fields
  already does. The first request writes, so that the second one finds or meets what it
  did. Three rows exist and three may be inserted: two by a batch and one more. `Half`
  (2^31) is 4 and `MaxSearch` (1000) is 2. One fault: a client that leaves or a connection that
  breaks, at any step.

### Fairness, and why the code justifies it

Weak fairness of each step of the poller, the flusher and the resetter of a
session: their goroutines are always runnable and their timers fire. The polls
and the resetter need a live context (`PollBegin` has the guard; the resetter may
tick once more in its last select, but nothing counts on it). `Deliver` needs a
consumer that still reads. `Answer` is strongly fair: a send waits in the queue of
a Go channel, which serves senders in turn, while the flusher leaves its select
again and again. The clock advances. Nothing is assumed of users, of
cancellation, of faults or of a first call of `Fetch`; the liveness properties speak of
jobs that are *served*, by a session that is live and will neither be
cancelled nor crash.

In HttpDev the cases of the loop's select are strongly fair (Go chooses among those
that are ready), as is taking a slot (senders on a channel are served in turn); a
request ends, as the HTTP client has a time-out; a stop is not assumed.

In GraphqlApi some step is taken as long as one is possible that is not a fault, a
client leaving or a new request: `WF_vars(Progress)`. Goroutines are scheduled,
Postgres answers and its detector of deadlocks runs. This is weak: which request
gets a connection first is open, and each ends for want of others.

### What was found

* **two_executors.** Flushers write with the executor of their own session, and
  take answers of any session of the client. The README's own subscriber, three
  executors on one client, loses about two answers in three: the update matches no
  row, which is no error, the job stays PENDING until its time-out and runs again.
* **retry_at_stop.** `RetryJobs` is the one of three that passes on the session's
  context. What is retried, and every recurring job that commits, is lost on
  cancellation.
* **late_answer.** An answer has no condition on the lease or the status: after a
  time-out the first execution can bring back a job that the second brought to
  FAILURE, which the tests call terminal for ever.
* **attempts.** Neither `CommitJobs` nor `RetryJobs` sets the argument `retries`,
  and the statement writes its zero: after one `Retry` the next `Fail` is the last,
  however many attempts the user allowed.
* **starvation.** Polls take the oldest jobs, not the longest due: enough old
  recurring jobs keep a young one from ever being delivered.
* **A failed request keeps its slot of the limiter** (in `httpdev`, which passes: no
  document says otherwise). `RequestsBounded` counts those slots and
  `AnsweredUnlessLeaked` has them as its exception: after as many failures as the
  limiter has slots, every later job of the executor is fetched, handed to a run,
  never sent and never answered, until its time-out has it fetched again.
* **CommitJobs and FailJobs end the process** when they come through the API: they
  send their batch with `context.Background()`, which has no owner, and the hook of
  the pool calls `log.Fatal` (`api` passes: no document speaks of it; the exception
  of `StaysUp` is exactly this one). So does a client that leaves, or an idle
  connection that breaks, while an owner is being set.
* **What answers of the API do not tell.** `FetchForProcessing` turns a failed commit
  into an empty list. `RetryJobs` reports the ids from the first result it did not
  get, though the whole batch is rolled back. `BatchCreateJobs` answers with the
  positions of the jobs in the batch, not with their ids. `AnswersTrue` has the first
  two as its exceptions, and a batch of no commits, which has nothing to report
  whatever happened to its statements.
* **A crontab may run out**, or be accepted by the pattern of the table and refused
  by `expand_field`: `UpdateExprByID` stores it, and every answer of the job is refused
  from then on, with the batch it is in (`NotNull`).

## 4. What is proved

`QronClientProofs` proves, for any number of jobs, processes, sessions, executions
under way and faults, and any limits:

* `TypeCorrect`: `Spec => []TypeOK`. The part worth a theorem is `TableOK`: a lease
  runs only while its row is PENDING, and a row that exists has a schedule.
* `Exclusivity`: `Spec => []ExclusiveDelivery`. A job has at most one current
  execution, from the lock of the poll to the write of the answer.
* `RestUndisturbed`: `Spec => RestingStays`. A job that is paused or has ended is
  left alone, but by users and by executions that lost their lease: the batch that
  rewrites such a row holds a claim of it, and by `ExclusiveDelivery` that claim is
  not current.
* `MemoryStaysBounded`: `Spec => []MemoryBounded`. A session holds no more claims than
  one poll takes and no more answers than one flush writes, however many handlers
  answer.

Neither `TypeOK` nor `ExclusiveDelivery` is inductive alone: that a poll commits only
rows that exist follows from
no statement getting past a row lock, which `ExclusiveDelivery` says, and that a
claim can be moved along is typing. Their conjunction `IInv` is (`Inductive`). The
argument for a step has three cases. Most steps only end claims, move them on
after the poll or make them stale, and leave the status alone (`KeepJob`). A
batch or a reset takes away the currency of all claims of the rows it touches,
none of which is locked (`ForgetJob`, `ReleaseStaleExclusive`). A poll is given
rows that are READY and unlocked, hence without current claim, and gives each
one claim, in its first free slot (`PollBeginExclusive`, `PollCommitExclusive`).

For `MemoryBounded` the invariant is `Bounded`: a flusher that waits for answers has
room for one more, which its flush at the limit sees to. A poll begins when nothing of
the one before is left, and takes a claim for each of at most `MaxInFlight` rows:
`FirstFew` shows it from the places of the rows, without induction over the table.
Every other step moves claims onward (`Onward`, `LessBounded`).

The only assumptions are those on the constants (`JobStoreAssumption`,
`QronClientAssumption`), which TLC evaluates in every run.

`AnswerProofs` proves, for the same constants:

* `NothingLost`: `Spec => NoAnswerLost`, if the sessions of a process fetch for one
  executor (`OneExecutorPerClient`) and nothing is retried under a context that may be
  done (`RetriesInTime`). The runs two_executors and retry_at_stop are what happens without
  the first and the second. The property itself excepts two kinds of steps, each for what
  that step does and nothing after it: a fault, and the flush of a batch with a refused
  row, which undoes the other answers of that batch. It speaks of executions, which begin
  when the poll has returned its rows: those of a poll that is cut off in its commit
  (`PollCommitLost`) are nobody's, and wait for their time-out.
* `SuccessIsOneShot`: `Spec => OnlyOneShotsSucceed`, with no condition: the batch that
  writes SUCCESS writes the schedule by which `Commit` chose it, over whatever a user has
  put into the row meanwhile (`StepCommits`).

For `NothingLost` the invariant `AnswerInv` adds, for each claim, that its row has the
executor of the session that took it (`Held`), without which a batch might pass by the
row of an answer, and that a claim is in a retry batch only where no context is ever
cancelled; `InTime` says which contexts are. An execution survives each step because a
batch writes all of its rows, loses them to a refusal or was hit by a fault
(`FlushSaved`), a reset leaves no row it touches PENDING (`ResetSaved`), and a poll or an
answer only moves claims on (`PollSaved`, `AnswerSaved`).

`LeaseProofs` proves `LeasesKept`: `Spec => KeepsLeases`, QronClient implements JobLease,
with no condition at all. A step of the sessions is, for each job, one step of its lease
or none (`StepLease`). The mapping looks at the row and at the claims of the job
(`PhaseOf`, `HolderOf`), so that a step which keeps both keeps the lease (`LeaseStays`);
the others are the commit of a poll, a batch, a reset and the calls of users, which may
end, usurp or forget (`WriteLease`, `ResetLease`, `MutateLease`). Beside `IInv` it needs
`ClaimsHaveRows`: a claim of a row that was never inserted would make a forgotten
execution of the insert.

`JobTableProofs` proves, for any rows, schedules, arguments, defaults and limits:

* `TableType`: `Spec => []TypeOK`. The parts that need an argument are that no
  row is left without a positive time-out or a date for its next run, and
  that a statement replaces a row by a whole row (`ExistsRow`, `WrittenType`).
* `AllAttemptsMade`: `Spec => []NoEarlyFailure`.
* `AttemptsSpendable`: `Spec => []AttemptsCanFail`, from `MaxRetries <= MaxBackoff + 1`
  (20 and 43 in the code): the sum of `Counted` bounds the executions.
* `RunAtFollows`: `Spec => []RunAtConsistent`, of one-shot and recurring jobs, their
  back-offs included. Excepted are the rows whose schedule UpdateExprByID has changed.
* `CronRuns`: `Spec => []CronOnTime`, from `NextMatch` of `CronExprProofs`. Excepted are
  rows that have a crontab but not its run_at: UpdateExprByID gave it to them, or they were
  one-shot when they last failed, with a handler that left a crontab.

The inductive invariant `IInv` adds to `TypeOK`, for each row, `Counted`, `Dated` and
`Matched`. `NoEarlyFailure` speaks of executions and attempts only when a job has
failed; `Counted` says that at any time retries and executions add up to what was
allowed, as long as failures alone are written, and that a FAILURE has no retries
left. `RunAtConsistent` speaks of rows at rest; `Dated` says the same of a row with
a lease, whose run_at was overdue when the lease began, so that a reset may put it
to rest again. `Matched` keeps the minute of a crontab through a lease for the same
reason. A step concerns one row (`UserRows`, `AnswerRows`, `FetchRows`,
`ResetRows`) and leaves the others (`LeftAlone`), or only changes their status
(`StatusOnly`). Beside the constants' types one assumption is made for the provers,
which know little of powers: `BackoffAssumption`, that those of two are positive.

`CronExprProofs` proves of the search for the next run of a crontab:

* `SearchFindsFirst`: `cron_next_run` is `FirstMatch`. The first minute that matches is
  found, and none is left out or found twice, when the minutes of the first day that
  matches are over and the search goes on with the next page.
* `NextMatch`: a next run that is not null lies ahead, matches, and is the first to.

They hold on any calendar, from any minute, for any crontab that `expand_field` accepts.
The horizon must be a day at least (it is five years). The search is a recursive
function, of which the prover knows nothing until one shows that such a function exists.
No induction is needed for that: a page after the first is a later day
(`LaterPage`), all its minutes lie ahead (`LaterSearch`), each day that matches has a
minute that does (`MinuteOf`, as no field is empty), so that the search calls itself at
most once and the solution can be written down (`Recursion`).

`StoreProofs` proves `StoreKept`: `Spec => KeepsStore`, JobTable implements JobStore, for
any schedules, negative intervals and crontabs included. There is one
lemma for each statement (`CreateSeen`, `UpdateSeen`, ..., `TickSeen`). What carries them:
a lease that begins now is
not late, as time-outs are positive; a back-off is positive, so that a one-shot job is
never due at once; and what is left of `retries` after a failure is spent if it was before
(`FailSeen`).

`HttpDevProofs` proves, for any number of runs, any capacity and any polls:

* `Limited`: `Spec => []RequestsBounded`. The equation of slots, requests and
  failures is inductive together with `FailedAnswered` (a run that failed is past
  its request, so that each failure is counted once); the lemmas say how a move
  changes the set of the requests in progress, and its cardinality.
* `ZeroHarmless`: `Spec => []ZeroTakesNoSlot`, by `ZeroAfterClose`.
* `DevType`: `Spec => []TypeOK`.

`GraphqlApiProofs` proves, for any traffic and arguments, any number of requests,
fields, owners, connections, rows and faults:

* `ApiType`: `Spec => []TypeOK`. The part that needs the argument is that rows keep
  to the unique constraints, batches that are rolled back included.
* `LoansSafe`: `Spec => []LoansAccounted`. No connection is lost or shared, and none
  waits with an owner in its setting.
* `AnswersOwn`: `Spec => []ShowsOwnRows`; `RowsOwned`: `Spec => OwnRowsOnly`. Nobody sees
  or changes what another owner has.
* `ProcessStays`: `Spec => []StaysUp`.
* `AnswersHonest`: `Spec => []AnswersTrue`. What a field answers is what became of it.

The invariant `IInv` has seven parts. `Loans`: open calls and connections on loan
correspond one to one, with the owner of the call in the setting. `Drafts`: a draft is of
rows the call may write, no two calls draft the same one, and its ids have been given
out. `Unique`: the constraints hold between rows and drafts together, without which a
commit could break them. `Served`, `Shown` and `Standing` say what calls there are, what
their answers contain, and what happens while there has been no fault. Twenty fields with
their outcomes would make as many proofs, times seven. Instead a step of a call is of one
of a few kinds: it acquires, goes on with a transaction (`GoesOn`), ends (`Ends`, or
`EndsEarly` without a connection), or ends the process. One lemma for a kind
shows that it keeps `IInv` (`AcquireInv`, `GoesOnInv`, `EndsInv`, `EndsEarlyInv`,
`FatalInv`), one for a field which kinds its steps are of, and `Kinds` collects them.
The requests and the idle connections have lemmas of their own.

`AnswersTrue` is inductive together with `Owned`, that a call whose batch runs under
`context.Background()` never gets a connection: a `CommitJobs` that had one could break
after its last result and report nothing, as `RetryJobs` cannot. A call keeps its answer once it
is done, so each way of ending one has a lemma: with nothing applied (`UnappliedHonest`,
where `RetryJobs` answers the ids from the first result it did not get, which are some
as long as there is one, `DropsCount`), and after errors, losses, deadlocks and statements
(`ErrorsHonest`, `LostHonest`, `DeadlockHonest`, `EarlyHonest`, `StatementHonest`).

Only model-checked: the liveness properties `Drains`, `AtLeastOnce`, `PendingEnds`,
`AnsweredUnlessLeaked`, `KeepsServing`, `Returns` and `EveryRequestEnds`. They rest on
fairness, hence on ENABLED, which is beyond this prover. Every invariant of the runs,
every action property and both refinements have a theorem. One of them is conditional,
`NothingLost`, under the two conditions named above.
That `CronAgrees` compares the search with its definition is now a check of the calendar
of `table` only.

## 5. What is not modelled, and what was simplified

* The state text and meta: their sizes and formats are among what makes a statement
  fail (`bad`, `"wrong"`). Search by meta may return any of the rows that the other
  conditions leave. JobStore and QronClient have no names: no statement of theirs
  reads one.
* created_at: last_run_at has a default and is never null, so that `coalesce(last_run_at,
  created_at)` is last_run_at; the order of the poll is that of the ids.
* `now()` is the time of the statement. In Postgres it is that of the start of its
  transaction, which for the poll and the batches is one statement earlier.
* JobTable leaves to JobStore which of the due rows a poll takes.
* Rows of one batch insert share created_at; the model takes them in the order of
  their ids.
* A handler that hangs is one that ends without an answer.
* The wait of two batches for each other's rows, which Postgres ends with an
  error, is part of `FlushError`.
* The exit of the development server after its stop, which ends what still blocks.
* Of the GraphQL API: introspection, complexity, deferred groups, the recovery from a
  panic, and the marshalling of a job's fields. Totals of searches. A handler over a
  pool without owners. The id that the sequence gave to an insert which is refused at
  once is given again. A call that reads and whose answer is lost is one that failed.
* In GraphqlApi `"wrong"` also stands for a crontab that the pattern accepts and
  `expand_field` refuses; only JobTable can store one.
* Daylight saving time: a day has the same minutes every day. A field of a crontab is
  parsed already, and its names of months and days are numbers.
* The cancellation of sugared jobs, whose relay ends with its context: only the relay of
  `cmd/httpdev`, which is never cancelled, is modelled. Migrations runner, other servers
  and test containers: they start things and hold no state of the system.

## 6. Plan

1. *(done)* `JobStore`, `QronClient`, `JobLease`: the core, its runs, `TypeCorrect`,
   `Exclusivity` and `RestUndisturbed`.
2. *(done)* `JobTable`: the table with a clock, shown to implement `JobStore`;
   `TableType`, `AllAttemptsMade`, `RunAtFollows`.
3. *(done)* `HttpExecutor` and `HttpDev`: the limiter, what becomes of a response, the
   consumer loop; `Limited`, `ZeroHarmless`.
4. *(done)* `CronExpr`: `expand_field`, `match` and the paging of `cron_next_run`,
   against a reference definition over a small calendar; `AttemptsSpendable`.
5. *(done)* `OwnerPool`, `OwnedTable`, `GraphqlApi`: owners, constraints and the requests
   that share connections; five theorems.
6. *(done)* `AnswerProofs`, `LeaseProofs`, `StoreProofs`: no answer is lost under two
   conditions, and both refinements.
7. *(done)* `CronExprProofs`, with `CronRuns` and an unconditional `StoreKept`;
   `AnswersHonest`; `MemoryBounded` and its theorem.
8. *(done)* Cancellation during the commit of a poll, consumers that leave in `shutdown`,
   users who change schedules in `claims`, negative intervals, the exact exceptions of
   `RunAtConsistent` and `CronOnTime`, a resolver for each field.
9. Left: the relay of sugared jobs at cancellation, and a limit that moves
   (`IncreaseInFlight`, `DecreaseInFlight`).

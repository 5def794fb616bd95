----------------------------- MODULE QronClient -----------------------------
(***************************************************************************)
(* Clients of the job table: what Client.Fetch starts, and what becomes of  *)
(* a job between the SELECT that claims it and the UPDATE that settles it.  *)
(*                                                                          *)
(* A session is one call of Fetch.  It runs three goroutines, the poller,   *)
(* the flusher and the resetter, under one context.  The sessions of one    *)
(* client (one process) share the channel processedCh: any of their         *)
(* flushers may receive the answer of any of their jobs.                    *)
(*                                                                          *)
(* A claim is one execution of a job that a poller took from the table.     *)
(* claim[<<j, n>>] is the n-th of those of job j that are under way at a    *)
(* time; `stage' says where the in-memory copy of the job is:               *)
(*    locked    its row is locked by the open transaction of poller `at'    *)
(*    fetched   in the slice `jobs' of poller `at', which blocks on ch <-   *)
(*    running   with a handler of session `at'                              *)
(*    commit, fail, retry    in that batch of the flusher of session `at'   *)
(***************************************************************************)
EXTENDS JobStore

CONSTANTS
    Clients, Sessions,   \* processes; calls of Fetch
    ClientOf,            \* [Sessions -> Clients]
    ExecutorOf,          \* [Sessions -> Executors], the argument of Fetch
    MaxInFlight,         \* the limit of one poll
    MaxFlushSize,
    Slots,               \* bound: executions of one job under way at a time
    Answers,             \* the methods the handlers call, of AllAnswers
    HandlerExprs,        \* the schedules a handler may assign to job.Expr
    BadAnswers,          \* may a handler assign a value the table's checks
                         \*   refuse (run_format, the length of state)?
    ApiCalls,            \* the mutations the users call
    Cancellable,         \* sessions whose context may be cancelled
    Leavers,             \* sessions whose consumer stops receiving then
    Crashable,           \* clients that may crash
    MaxFaults,           \* bound on crashes, lost connections, lost handlers
    None

AllAnswers  == {"commit", "fail", "retry"}
Batches     == {"commit", "fail", "retry"}
Claims      == Jobs \X Slots

ASSUME QronClientAssumption ==
    /\ ClientOf \in [Sessions -> Clients]
    /\ ExecutorOf \in [Sessions -> Executors]
    /\ MaxInFlight \in Nat \ {0} /\ MaxFlushSize \in Nat \ {0}
    /\ Slots \subseteq Nat /\ MaxFaults \in Nat
    /\ Answers \subseteq AllAnswers /\ HandlerExprs \subseteq Exprs
    /\ BadAnswers \subseteq BOOLEAN
    /\ Cancellable \subseteq Sessions /\ Leavers \subseteq Sessions
    /\ Crashable \subseteq Clients
    /\ None \notin Sessions \cup Exprs /\ None \notin Claims

VARIABLES
    ctx,        \* ctx[s]: Fetch not called, running, or its context is done
    claim,
    flusher,    \* flusher[s]: in its select, or writing its batches
    reading,    \* reading[s]: somebody receives from the channel of Fetch
    faults      \* how many faults happened

vars == <<job, ctx, claim, flusher, reading, faults>>

Stages == {"locked", "fetched", "running"} \cup Batches

\* `stale' is history: since this claim was made the table forgot it, by a
\* reset or by the answer of another claim of the job.  No guard reads it.
Claim == [stage : Stages, at : Sessions, expr : Exprs, bad : BOOLEAN, stale : BOOLEAN]
Free  == [stage |-> "free", at |-> None, expr |-> None, bad |-> FALSE, stale |-> FALSE]

TypeOK ==
    /\ TableOK
    /\ ctx \in [Sessions -> {"idle", "live", "done"}]
    /\ claim \in [Claims -> Claim \cup {Free}]
    /\ flusher \in [Sessions -> {"collect", "flush"}]
    /\ reading \in [Sessions -> BOOLEAN]
    /\ faults \in 0..MaxFaults

Init ==
    /\ TableInit
    /\ ctx = [s \in Sessions |-> "idle"]
    /\ claim = [c \in Claims |-> Free]
    /\ flusher = [s \in Sessions |-> "collect"]
    /\ reading = [s \in Sessions |-> TRUE]
    /\ faults = 0

-----------------------------------------------------------------------------
At(stage, s) == {c \in Claims : claim[c].stage = stage /\ claim[c].at = s}
JobsOf(C)    == {c[1] : c \in C}
UnderWay(j)  == {c \in {j} \X Slots : claim[c].stage # "free"}
Locked       == JobsOf({c \in Claims : claim[c].stage = "locked"})
Batched(s)   == UNION {At(b, s) : b \in Batches}

\* Faults that happen to the connection or the process; bounded.
Fault == faults < MaxFaults /\ faults' = faults + 1

Move(C, stage) ==
    claim' = [c \in Claims |-> IF c \in C THEN [claim[c] EXCEPT !.stage = stage]
                                          ELSE claim[c]]
Release(C) == claim' = [c \in Claims |-> IF c \in C THEN Free ELSE claim[c]]

\* The claims C end, and the other claims of the jobs J become stale.
ReleaseStale(C, J) ==
    claim' = [c \in Claims |->
                IF c \in C THEN Free
                ELSE IF c[1] \in J /\ claim[c].stage # "free"
                THEN [claim[c] EXCEPT !.stale = TRUE]
                ELSE claim[c]]

-----------------------------------------------------------------------------
\* A session: Fetch starts it, its context may be cancelled, and then its
\* consumer may stop receiving.
Fetch(s) ==
    /\ ctx[s] = "idle"
    /\ ctx' = [ctx EXCEPT ![s] = "live"]
    /\ UNCHANGED <<job, claim, flusher, reading, faults>>

Cancel(s) ==
    /\ s \in Cancellable /\ ctx[s] = "live"
    /\ ctx' = [ctx EXCEPT ![s] = "done"]
    /\ UNCHANGED <<job, claim, flusher, reading, faults>>

Leave(s) ==
    /\ s \in Leavers /\ ctx[s] = "done" /\ reading[s]
    /\ reading' = [reading EXCEPT ![s] = FALSE]
    /\ UNCHANGED <<job, ctx, claim, flusher, faults>>

\* The process of client k dies: its transactions roll back and what its
\* goroutines held in memory is gone.
Crash(k) ==
    LET S == {s \in Sessions : ClientOf[s] = k}
    IN  /\ k \in Crashable
        /\ \E s \in S : ctx[s] # "idle"
        /\ Fault
        /\ ctx' = [s \in Sessions |-> IF s \in S THEN "idle" ELSE ctx[s]]
        /\ flusher' = [s \in Sessions |-> IF s \in S THEN "collect" ELSE flusher[s]]
        /\ reading' = [s \in Sessions |-> IF s \in S THEN TRUE ELSE reading[s]]
        /\ Release({c \in Claims : claim[c].at \in S})
        /\ UNCHANGED job

-----------------------------------------------------------------------------
\* The poller: FetchForProcessing locks the due rows it takes, marks them
\* PENDING and commits; then the loop of Fetch hands them over one by one.
Idle(s) == At("locked", s) = {} /\ At("fetched", s) = {}

FreeSlot(j, n) == claim[<<j, n>>].stage = "free"

\* The poller waits where the bound Slots leaves no room for a claim.
PollBegin(s) ==
    LET J == FirstOf(DueRows(ExecutorOf[s], Locked), MaxInFlight)
    IN  /\ ctx[s] = "live" /\ Idle(s)
        /\ J # {}
        /\ \A j \in J : \E n \in Slots : FreeSlot(j, n)
        /\ claim' = [c \in Claims |->
               IF /\ c[1] \in J /\ FreeSlot(c[1], c[2])
                  /\ \A m \in Slots : m < c[2] => ~FreeSlot(c[1], m)
               THEN [stage |-> "locked", at |-> s, expr |-> job[c[1]].expr,
                     bad |-> FALSE, stale |-> FALSE]
               ELSE claim[c]]
        /\ UNCHANGED <<job, ctx, flusher, reading, faults>>

PollCommit(s) ==
    /\ At("locked", s) # {}
    /\ MarkPending(JobsOf(At("locked", s)))
    /\ Move(At("locked", s), "fetched")
    /\ UNCHANGED <<ctx, flusher, reading, faults>>

\* A statement of the transaction fails: a cancelled context, a lost connection.
PollAbort(s) ==
    /\ At("locked", s) # {}
    /\ \/ ctx[s] = "done" /\ UNCHANGED faults
       \/ ctx[s] = "live" /\ Fault
    /\ Release(At("locked", s))
    /\ UNCHANGED <<job, ctx, flusher, reading>>

\* The commit succeeds but tx.Commit does not learn of it, because its context is
\* cancelled or the connection lost: FetchForProcessing returns no job, and no
\* error.
PollCommitLost(s) ==
    /\ At("locked", s) # {}
    /\ \/ ctx[s] = "done" /\ UNCHANGED faults
       \/ ctx[s] = "live" /\ Fault
    /\ MarkPending(JobsOf(At("locked", s)))
    /\ Release(At("locked", s))
    /\ UNCHANGED <<ctx, flusher, reading>>

Deliver(s) ==
    \E c \in At("fetched", s) :
        /\ reading[s]
        /\ Move({c}, "running")
        /\ UNCHANGED <<job, ctx, flusher, reading, faults>>

-----------------------------------------------------------------------------
\* The handler of claim c answers, with its copy of the job: `kind' is the
\* method it calls, e the schedule it leaves in job.Expr.  The flusher of s
\* receives the answer if it is in its select.
MutantBatchForAll(kind, e) == kind

BatchFor(kind, e) ==
    IF kind = "commit" /\ ~is_one_shot(e) THEN "retry" ELSE kind

\* the flush comes one answer late
MutantAnswer(c, s) ==
    /\ claim[c].stage = "running"
    /\ ClientOf[claim[c].at] = ClientOf[s]
    /\ ctx[s] # "idle" /\ flusher[s] = "collect"
    /\ \E kind \in Answers, e \in {claim[c].expr} \cup HandlerExprs, b \in BadAnswers :
          claim' = [claim EXCEPT ![c] = [@ EXCEPT !.stage = BatchFor(kind, e),
                                                  !.at = s, !.expr = e, !.bad = b]]
    /\ flusher' = IF Cardinality(Batched(s)) >= MaxFlushSize
                  THEN [flusher EXCEPT ![s] = "flush"] ELSE flusher
    /\ UNCHANGED <<job, ctx, reading, faults>>

Answer(c, s) ==
    /\ claim[c].stage = "running"
    /\ ClientOf[claim[c].at] = ClientOf[s]
    /\ ctx[s] # "idle" /\ flusher[s] = "collect"
    /\ \E kind \in Answers, e \in {claim[c].expr} \cup HandlerExprs, b \in BadAnswers :
          claim' = [claim EXCEPT ![c] = [@ EXCEPT !.stage = BatchFor(kind, e),
                                                  !.at = s, !.expr = e, !.bad = b]]
    /\ flusher' = IF Cardinality(Batched(s)) + 1 >= MaxFlushSize
                  THEN [flusher EXCEPT ![s] = "flush"] ELSE flusher
    /\ UNCHANGED <<job, ctx, reading, faults>>

\* The handler ends without an answer.
Abandon(c) ==
    /\ claim[c].stage = "running"
    /\ Fault
    /\ Release({c})
    /\ UNCHANGED <<job, ctx, flusher, reading>>

MutantFlushStartLive(s) ==
    /\ ctx[s] = "live" /\ flusher[s] = "collect" /\ Batched(s) # {}
    /\ flusher' = [flusher EXCEPT ![s] = "flush"]
    /\ UNCHANGED <<job, ctx, claim, reading, faults>>

\* The flusher's timer fires, or its context is done.
FlushStart(s) ==
    /\ ctx[s] # "idle" /\ flusher[s] = "collect" /\ Batched(s) # {}
    /\ flusher' = [flusher EXCEPT ![s] = "flush"]
    /\ UNCHANGED <<job, ctx, claim, reading, faults>>

\* The rows a batch statement of session s finds: its own executor's.
Matched(C, s) == {c \in C : Exists(c[1]) /\ job[c[1]].executor = ExecutorOf[s]}

\* What the failure statement of claim c may find of its row when it is the last
\* of the claims D of one job in one batch.
Before(c, D) ==
    IF D = {c} THEN {job[c[1]]}
    ELSE UNION {UpdatedFailed(job[c[1]], claim[d].expr) : d \in D \ {c}}

\* The rows the batch may leave in place of row j, D its claims in it.
Result(kind, j, D) ==
    UNION {CASE kind = "commit" -> Updated(job[j], "SUCCESS", claim[c].expr)
             [] kind = "retry"  -> Updated(job[j], "READY", claim[c].expr)
             [] kind = "fail"   ->
                  UNION {UpdatedFailed(row, claim[c].expr) : row \in Before(c, D)} :
           c \in D}

\* The statements of a batch are one implicit transaction: they all take
\* effect, and one row that the table's checks refuse undoes them all.  A
\* statement waits for a row that a poller has locked.
Write(kind, s) ==
    LET C == Matched(At(kind, s), s)
        J == JobsOf(C)
        R == [j \in J |-> Result(kind, j, {c \in C : c[1] = j})]
    IN  /\ J \cap Locked = {}
        /\ \/ /\ \A c \in C : ~claim[c].bad
              /\ \E rows \in [J -> UNION {R[j] : j \in J}] :
                    /\ \A j \in J : rows[j] \in R[j]
                    /\ job' = [j \in Jobs |-> IF j \in J THEN rows[j] ELSE job[j]]
              /\ ReleaseStale(At(kind, s), J)
           \/ /\ \E c \in C : claim[c].bad
              /\ Release(At(kind, s))
              /\ UNCHANGED job

Earlier(kind) == CASE kind = "commit" -> {}
                   [] kind = "fail"   -> {"commit"}
                   [] kind = "retry"  -> {"commit", "fail"}

\* The batches are written in order, and emptied whatever became of them.
EmptyBatch(kind, s) ==
    /\ flusher[s] = "flush" /\ At(kind, s) # {}
    /\ \A b \in Earlier(kind) : At(b, s) = {}
    /\ flusher' = IF Batched(s) = At(kind, s)
                  THEN [flusher EXCEPT ![s] = "collect"] ELSE flusher
    /\ UNCHANGED <<ctx, reading>>

\* resets the three batches after the first
MutantFlushCommitClears(s) ==
    /\ flusher[s] = "flush" /\ At("commit", s) # {}
    /\ LET J == JobsOf(Matched(At("commit", s), s))
       IN  job' = [j \in Jobs |-> IF j \in J THEN [job[j] EXCEPT !.status = "SUCCESS"] ELSE job[j]]
    /\ Release(Batched(s))
    /\ flusher' = [flusher EXCEPT ![s] = "collect"]
    /\ UNCHANGED <<ctx, reading, faults>>

FlushCommit(s) ==
    /\ EmptyBatch("commit", s)
    /\ Write("commit", s) /\ UNCHANGED faults

\* FailJobs with the context of the session
MutantFlushFailCtx(s) ==
    /\ EmptyBatch("fail", s)
    /\ \/ ctx[s] = "live" /\ Write("fail", s)
       \/ ctx[s] = "done" /\ Release(At("fail", s)) /\ UNCHANGED job
    /\ UNCHANGED faults

FlushFail(s) ==
    /\ EmptyBatch("fail", s)
    /\ Write("fail", s) /\ UNCHANGED faults

\* Alone of the three, RetryJobs passes on the context of the session.
FlushRetry(s) ==
    /\ EmptyBatch("retry", s)
    /\ \/ ctx[s] = "live" /\ Write("retry", s)
       \/ ctx[s] = "done" /\ Release(At("retry", s)) /\ UNCHANGED job
    /\ UNCHANGED faults

\* The connection fails under a batch: its error is logged, or not looked at.
FlushError(s) ==
    \E kind \in Batches :
        /\ EmptyBatch(kind, s)
        /\ Fault
        /\ Release(At(kind, s))
        /\ UNCHANGED job

-----------------------------------------------------------------------------
\* The resetter of a session.  In its last select it may still tick.
Reset(s) ==
    /\ ctx[s] # "idle"
    /\ ResetTimeoutJobs(ExecutorOf[s])
    /\ ReleaseStale({}, LateRows(ExecutorOf[s]))
    /\ UNCHANGED <<ctx, flusher, reading, faults>>

\* The mutations of the API, by any process.  An update waits for a row lock.
Create(x, e) ==
    /\ "create" \in ApiCalls
    /\ CreateJob(x, e)
    /\ UNCHANGED <<ctx, claim, flusher, reading, faults>>

Mutate(j) ==
    /\ j \notin Locked
    /\ \/ "update" \in ApiCalls /\ \E e \in Exprs : UpdateJob(j, e)
       \/ "expr" \in ApiCalls /\ \E e \in Exprs : UpdateExprByID(j, e)
       \/ "stop" \in ApiCalls /\ StopJob(j)
       \/ "restart" \in ApiCalls /\ RestartJob(j)
       \/ "delete" \in ApiCalls /\ DeleteJob(j)
    /\ UNCHANGED <<ctx, claim, flusher, reading, faults>>

Tick(j) ==
    /\ Elapse(j) \/ Expire(j)
    /\ UNCHANGED <<ctx, claim, flusher, reading, faults>>

-----------------------------------------------------------------------------
Poller(s) == PollBegin(s) \/ PollCommit(s) \/ PollAbort(s) \/ PollCommitLost(s) \/ Deliver(s)
Flusher(s) == FlushStart(s) \/ FlushCommit(s) \/ FlushFail(s) \/ FlushRetry(s) \/ FlushError(s)

Next ==
    \/ \E s \in Sessions : \/ Fetch(s) \/ Cancel(s) \/ Leave(s)
                           \/ Poller(s) \/ Flusher(s) \/ Reset(s)
    \/ \E c \in Claims : Abandon(c) \/ \E s \in Sessions : Answer(c, s)
    \/ \E k \in Clients : Crash(k)
    \/ \E x \in Executors, e \in Exprs : Create(x, e)
    \/ \E j \in Jobs : Mutate(j) \/ Tick(j)

Spec == Init /\ [][Next]_vars

(***************************************************************************)
(* What the code schedules: the goroutines of a session whose context is    *)
(* live run, its timers fire and the clock advances.  A poll's transaction  *)
(* ends and a flusher goes on after the context is done as well.  A handler *)
(* answers, or is lost by a fault; its send waits in the queue of a Go      *)
(* channel, which serves senders in turn, hence SF.  Nothing is assumed of  *)
(* users, of cancellation, of faults, or of a call of Fetch.                *)
(***************************************************************************)
SessionFairness(s) ==
    /\ WF_vars(PollBegin(s))
    /\ WF_vars(PollCommit(s))
    /\ WF_vars(Deliver(s))
    /\ WF_vars(FlushStart(s))
    /\ WF_vars(FlushCommit(s)) /\ WF_vars(FlushFail(s)) /\ WF_vars(FlushRetry(s))
    /\ WF_vars(ctx[s] = "live" /\ Reset(s))

FairSpec ==
    /\ Spec
    /\ \A s \in Sessions : SessionFairness(s)
    /\ \A c \in Claims : SF_vars(\E s \in Sessions : Answer(c, s))
    /\ \A j \in Jobs : WF_vars(Tick(j))

-----------------------------------------------------------------------------
\* A claim the table still goes by.
Current(c) == claim[c].stage # "free" /\ ~claim[c].stale

\* Job j has one current claim at most.
Exclusive(j) ==
    /\ \A c, d \in {j} \X Slots : Current(c) /\ Current(d) => c = d
    /\ \A c \in {j} \X Slots :
          /\ claim[c].stage = "locked" => Current(c) /\ job[j].status = "READY"
          /\ Current(c) /\ claim[c].stage # "locked"
                => job[j].status \in {"PENDING", "DELETED"}

(***************************************************************************)
(* A job is with one handler at a time: of its claims under way at most one *)
(* is current, its row is PENDING from the commit of the poll to the write  *)
(* of the answer, and READY while the poll's transaction is open: nothing   *)
(* outdates a claim in that time.  Late answers, restarts of a stopped job, *)
(* resets by any client and crashes take part.                              *)
(***************************************************************************)
ExclusiveDelivery == \A j \in Jobs : Exclusive(j)

\* A claim that the poll has handed to the process, and the table goes by.
Executing(c) == Current(c) /\ claim[c].stage # "locked"

(***************************************************************************)
(* No answer is lost: an execution the table goes by never ends while its   *)
(* row stays PENDING, which would leave the job to its time-out and to a    *)
(* second execution.  It ends with the write of its answer or with a reset. *)
(* Two steps are excepted, each for what that step itself does: a fault     *)
(* (crash, lost connection, lost handler), and the flush of a batch of      *)
(* which a row is refused, which undoes the other answers of that batch.    *)
(* Rows of a poll that is cut off in its commit (PollCommitLost) were never *)
(* handed to anybody: they wait for their time-out.                         *)
(***************************************************************************)
NoAnswerLost ==
    [][\A c \in Claims :
          /\ Executing(c)
          /\ job[c[1]].status = "PENDING" /\ job'[c[1]].status = "PENDING"
          => \/ Executing(c)'
             \/ faults' # faults
             \/ \E d \in At(claim[c].stage, claim[c].at) : claim[d].bad]_vars

(***************************************************************************)
(* What a session keeps in memory is bounded, however many handlers answer  *)
(* while its flusher writes and whatever batch their answers go to: it has  *)
(* claimed no more jobs than one poll takes, and its three batches together *)
(* never hold more than MaxFlushSize answers (client.go:112-181, 187-220).  *)
(***************************************************************************)
MemoryBounded ==
    \A s \in Sessions :
        /\ Cardinality(At("locked", s) \cup At("fetched", s)) <= MaxInFlight
        /\ Cardinality(Batched(s)) <= MaxFlushSize

\* Job j and its executions as JobLease sees them.
phaseOf(status) ==
    CASE status = "UNUSED"  -> "absent"
      [] status = "READY"   -> "waiting"
      [] status = "PENDING" -> "leased"
      [] status = "PAUSED"  -> "paused"
      [] status = "DELETED" -> "gone"
      [] OTHER              -> "ended"

holderOf(j) ==
    IF job[j].status = "PENDING" /\ \E c \in {j} \X Slots : Current(c)
    THEN CHOOSE c \in {j} \X Slots : Current(c) ELSE None

Lease == INSTANCE JobLease WITH
    Executions <- Claims,
    phase      <- [j \in Jobs |-> phaseOf(job[j].status)],
    holder     <- [j \in Jobs |-> holderOf(j)],
    forgotten  <- [j \in Jobs |-> Exists(j) /\ \E c \in UnderWay(j) : claim[c].stale]

\* The clients and the table keep the promise of JobLease.
KeepsLeases == Lease!Spec

\* A job succeeds only with a one-shot schedule: Commit decides on the handler's
\* copy of the schedule, which the handler or a user may have changed meanwhile,
\* and the row must end with the one it decided on (client.go:369).
OnlyOneShotsSucceed ==
    [][\A j \in Jobs : job'[j].status = "SUCCESS" /\ job[j].status # "SUCCESS"
                        => is_one_shot(job'[j].expr)]_vars

Resting(j) == job[j].status \in Terminal \cup {"PAUSED"}

Roused(j) ==
    \/ job'[j].status = "DELETED"
    \/ job[j].status = "PAUSED" /\ job'[j].status = "READY"
    \/ \E c \in UnderWay(j) : claim[c].stale

(***************************************************************************)
(* A stopped job, or one that ended in FAILURE or SUCCESS, stays so until a *)
(* user restarts or deletes it, unless an execution the table gave up       *)
(* waiting for still answers.                                               *)
(***************************************************************************)
RestingStays ==
    [][\A j \in Jobs : Resting(j) /\ job'[j].status # job[j].status => Roused(j)]_vars

\* Sessions that last, once Fetch was called, and serve job j.
Served(j) ==
    \E s \in Sessions \ Cancellable : /\ ClientOf[s] \notin Crashable
                                     /\ ctx[s] = "live"
                                     /\ ExecutorOf[s] = job[j].executor

(***************************************************************************)
(* At least once: a job that is READY, and is served, is handed to a        *)
(* handler, however often an earlier claim of it is lost with a crash, a    *)
(* connection or a consumer that left.  Unless it is stopped or deleted.    *)
(***************************************************************************)
AtLeastOnce ==
    \A j \in Jobs : (job[j].status = "READY" /\ Served(j)) ~>
        \/ \E c \in {j} \X Slots : claim[c].stage = "running"
        \/ job[j].status \in Terminal \cup {"PAUSED", "DELETED"}

\* No job stays PENDING for ever: it is settled, or its lease runs out and
\* some session of its executor resets it.
PendingEnds ==
    \A j \in Jobs : (job[j].status = "PENDING" /\ Served(j)) ~> job[j].status # "PENDING"

(***************************************************************************)
(* Whenever the contexts are cancelled, a job that a process has fetched is *)
(* still handed over, answered and written: no time-out is needed to end    *)
(* its PENDING, although no resetter need be left.  Unless its consumer     *)
(* left at the cancellation, as the subscriber of README.md:75 does: then   *)
(* the poller blocks on its channel, and only a time-out helps.  Nor is it  *)
(* so for the rows of a poll cut off in its commit: nobody has fetched them.*)
(***************************************************************************)
Undeliverable(c) == claim[c].stage = "fetched" /\ ~reading[claim[c].at]

Drains ==
    \A j \in Jobs :
        /\ faults = 0 /\ job[j].status = "PENDING"
        /\ \E c \in {j} \X Slots : Executing(c)
        ~> \/ job[j].status # "PENDING"
           \/ \E c \in {j} \X Slots : Undeliverable(c)

\* A job that ended in FAILURE is left there.
FailureIsForever ==
    [][\A j \in Jobs : job[j].status = "FAILURE" =>
          job'[j].status \in {"FAILURE", "DELETED"}]_vars
=============================================================================

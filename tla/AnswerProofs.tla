---------------------------- MODULE AnswerProofs ----------------------------
(***************************************************************************)
(* What becomes of answers: conditions under which QronClient loses none,   *)
(* and that only one-shot jobs succeed, with proofs.  The runs              *)
(* two_executors and retry_at_stop show answers lost where one fails.       *)
(***************************************************************************)
EXTENDS QronClientProofs

USE DEF Claims, Batches, Stages

\* The sessions of a process fetch for one executor (client.go:137-194).
OneExecutorPerClient ==
    \A s, t \in Sessions : ClientOf[s] = ClientOf[t] => ExecutorOf[s] = ExecutorOf[t]

\* Nothing is retried under a context that may be done (job_resolvers.go:333).
RetriesInTime ==
    \/ Cancellable = {}
    \/ "retry" \notin Answers /\ \A e \in Exprs : is_one_shot(e)

\* What a claim has to do with its row: nobody else's executor answers it.
Held(c) ==
    claim[c].stage # "free" =>
        /\ job[c[1]].status # "UNUSED"
        /\ Exists(c[1]) => job[c[1]].executor = ExecutorOf[claim[c].at]
        /\ claim[c].stage = "retry" => Cancellable = {}

InTime == \A s \in Sessions : ctx[s] = "done" => s \in Cancellable

AnswerInv == IInv /\ (\A c \in Claims : Held(c)) /\ InTime

-----------------------------------------------------------------------------
(* Rows.                                                                    *)

\* A row keeps its executor for good.
RowKept(j) ==
    job[j].status # "UNUSED" =>
        /\ job'[j].status # "UNUSED"
        /\ Exists(j)' => Exists(j) /\ job'[j].executor = job[j].executor

\* What a batch statement writes.
LEMMA WrittenRow ==
    ASSUME NEW row \in Row, NEW st, NEW e, NEW d, NEW sp
    PROVE  LET r == Written(row, st, e, d, sp)
           IN  r.status = st /\ r.executor = row.executor /\ r.expr = e
BY DEF Written, Row

LEMMA FailedRow ==
    ASSUME NEW row \in Row, NEW e, NEW r \in UpdatedFailed(row, e)
    PROVE  r.status \in {"READY", "FAILURE"} /\ r.executor = row.executor
<1>1. PICK d, sp : r = Written(row, StatusFailed(row), e, d, sp)
  BY DEF UpdatedFailed
<1>2. QED
  BY <1>1, WrittenRow DEF StatusFailed

LEMMA ResultRow ==
    ASSUME TypeOK, NEW kind \in Batches, NEW j \in Jobs, NEW D \in SUBSET Claims,
           \A c \in D : c[1] = j /\ claim[c].stage # "free",
           NEW r \in Result(kind, j, D)
    PROVE  /\ r.executor = job[j].executor
           /\ r.status \in {"READY", "SUCCESS", "FAILURE"}
           /\ r.status = "SUCCESS" => kind = "commit" /\ \E c \in D : r.expr = claim[c].expr
<1>1. job[j] \in Row
  BY DEF TypeOK, TableOK
<1>2. \A c \in D : claim[c].expr \in Exprs
  BY BusyClaim DEF Claim
<1>3. PICK c \in D :
         r \in CASE kind = "commit" -> Updated(job[j], "SUCCESS", claim[c].expr)
                 [] kind = "retry"  -> Updated(job[j], "READY", claim[c].expr)
                 [] kind = "fail"   ->
                      UNION {UpdatedFailed(row, claim[c].expr) : row \in Before(c, D)}
  BY DEF Result
<1>4. CASE kind = "commit"
  <2>1. r \in Updated(job[j], "SUCCESS", claim[c].expr)
    BY <1>3, <1>4
  <2>2. PICK d : r = Written(job[j], "SUCCESS", claim[c].expr, d, TRUE)
    BY <2>1 DEF Updated
  <2>3. QED
    BY <2>2, <1>1, <1>4 DEF Written, Row
<1>5. CASE kind = "retry"
  <2>1. r \in Updated(job[j], "READY", claim[c].expr)
    BY <1>3, <1>5
  <2>2. PICK d : r = Written(job[j], "READY", claim[c].expr, d, TRUE)
    BY <2>1 DEF Updated
  <2>3. QED
    BY <2>2, <1>1 DEF Written, Row
<1>6. CASE kind = "fail"
  <2>1. PICK row \in Before(c, D) : r \in UpdatedFailed(row, claim[c].expr)
    BY <1>3, <1>6
  <2>2. row \in Row /\ row.executor = job[j].executor
    <3>1. CASE D = {c}
      BY <3>1, <2>1, <1>1 DEF Before
    <3>2. CASE D # {c}
      <4>1. PICK d \in D \ {c} : row \in UpdatedFailed(job[j], claim[d].expr)
        BY <3>2, <2>1 DEF Before
      <4>2. QED
        BY <4>1, <1>1, <1>2, UpdatedFailedType, FailedRow
    <3>3. QED
      BY <3>1, <3>2
  <2>3. QED
    BY <2>1, <2>2, FailedRow
<1>7. QED
  BY <1>4, <1>5, <1>6

\* A batch rewrites the rows it finds, or it is refused.
LEMMA WriteRows ==
    ASSUME TypeOK, NEW kind \in Batches, NEW s \in Sessions, Write(kind, s)
    PROVE  LET C == Matched(At(kind, s), s)
               J == JobsOf(C)
           IN  \/ /\ \E c \in C : claim[c].bad
                  /\ Release(At(kind, s)) /\ UNCHANGED job
               \/ /\ ReleaseStale(At(kind, s), J)
                  /\ \A j \in Jobs \ J : job'[j] = job[j]
                  /\ \A j \in J :
                        /\ Exists(j) /\ job'[j].executor = job[j].executor
                        /\ job'[j].status \in {"READY", "SUCCESS", "FAILURE"}
                        /\ job'[j].status = "SUCCESS" =>
                              kind = "commit" /\ \E c \in C : job'[j].expr = claim[c].expr
<1> DEFINE C == Matched(At(kind, s), s)
           J == JobsOf(C)
           R == [j \in J |-> Result(kind, j, {c \in C : c[1] = j})]
<1>1. C \subseteq At(kind, s) /\ C \subseteq Claims
  BY AtType DEF Matched
<1>2. J \subseteq Jobs
  BY <1>1, JobsOfType
<1>3. CASE (\E c \in C : claim[c].bad) /\ Release(At(kind, s)) /\ UNCHANGED job
  BY <1>3
<1>4. CASE /\ \E rows \in [J -> UNION {R[j] : j \in J}] :
                /\ \A j \in J : rows[j] \in R[j]
                /\ job' = [j \in Jobs |-> IF j \in J THEN rows[j] ELSE job[j]]
           /\ ReleaseStale(At(kind, s), J)
  <2>1. PICK rows \in [J -> UNION {R[j] : j \in J}] :
                /\ \A j \in J : rows[j] \in R[j]
                /\ job' = [j \in Jobs |-> IF j \in J THEN rows[j] ELSE job[j]]
    BY <1>4
  <2>2. ASSUME NEW j \in J
        PROVE  /\ Exists(j) /\ job'[j].executor = job[j].executor
               /\ job'[j].status \in {"READY", "SUCCESS", "FAILURE"}
               /\ job'[j].status = "SUCCESS" =>
                     kind = "commit" /\ \E c \in C : job'[j].expr = claim[c].expr
    <3>1. Exists(j)
      BY DEF JobsOf, Matched
    <3>2. job'[j] = rows[j] /\ rows[j] \in Result(kind, j, {c \in C : c[1] = j})
      BY <2>1, <1>2
    <3>3. \A c \in {c \in C : c[1] = j} : c[1] = j /\ claim[c].stage # "free"
      BY <1>1, AtType
    <3>4. /\ rows[j].executor = job[j].executor
          /\ rows[j].status \in {"READY", "SUCCESS", "FAILURE"}
          /\ rows[j].status = "SUCCESS" =>
                kind = "commit" /\ \E c \in {c \in C : c[1] = j} : rows[j].expr = claim[c].expr
      BY <3>2, <3>3, <1>1, <1>2, ResultRow
    <3>5. QED
      BY <3>1, <3>2, <3>4
  <2>3. \A j \in Jobs \ J : job'[j] = job[j]
    BY <2>1
  <2>4. QED
    BY <2>2, <2>3, <1>4
<1>5. QED
  BY <1>3, <1>4 DEF Write

\* Every step keeps the executor of every row.
LEMMA StepRows ==
    ASSUME TypeOK, ExclusiveDelivery, [Next]_vars, NEW j \in Jobs
    PROVE  RowKept(j)
<1> USE DEF RowKept
<1>0. job[j] \in Row
  BY DEF TypeOK, TableOK
<1>1. CASE UNCHANGED job
  BY <1>1 DEF Exists
<1>2. ASSUME NEW s \in Sessions, PollCommit(s) \/ PollCommitLost(s)
      PROVE  RowKept(j)
  <2> DEFINE J == JobsOf(At("locked", s))
  <2>1. job'[j] = IF j \in J THEN [job[j] EXCEPT !.status = "PENDING", !.late = FALSE]
                             ELSE job[j]
    BY <1>2 DEF PollCommit, PollCommitLost, MarkPending
  <2>2. CASE j \in J
    <3>1. job[j].status = "READY"
      BY <2>2, LockedReady
    <3>2. job'[j].status = "PENDING" /\ job'[j].executor = job[j].executor
      BY <1>0, <2>1, <2>2 DEF Row
    <3>3. QED
      BY <3>1, <3>2 DEF Exists, Status
  <2>3. CASE j \notin J
    BY <2>1, <2>3 DEF Exists
  <2>4. QED
    BY <2>2, <2>3
<1>3. ASSUME NEW s \in Sessions, FlushCommit(s) \/ FlushFail(s) \/ FlushRetry(s)
      PROVE  RowKept(j)
  <2>1. PICK kind \in Batches :
           Write(kind, s) \/ (Release(At(kind, s)) /\ UNCHANGED job)
    BY <1>3, FlushIsBatch
  <2>2. CASE Write(kind, s)
    <3>1. \/ job'[j] = job[j]
          \/ /\ Exists(j) /\ job'[j].executor = job[j].executor
             /\ job'[j].status \in {"READY", "SUCCESS", "FAILURE"}
      BY <2>2, WriteRows
    <3>2. QED
      BY <3>1 DEF Exists
  <2>3. QED
    BY <2>1, <2>2, <1>1
<1>4. ASSUME NEW s \in Sessions, Reset(s)
      PROVE  RowKept(j)
  <2> DEFINE J == LateRows(ExecutorOf[s])
  <2>1. job'[j] = IF j \in J THEN [job[j] EXCEPT !.status = "READY", !.late = FALSE]
                             ELSE job[j]
    BY <1>4 DEF Reset, ResetTimeoutJobs
  <2>2. CASE j \in J
    <3>1. job[j].status = "PENDING"
      BY <2>2 DEF LateRows
    <3>2. job'[j].status = "READY" /\ job'[j].executor = job[j].executor
      BY <1>0, <2>1, <2>2 DEF Row
    <3>3. QED
      BY <3>1, <3>2 DEF Exists, Status
  <2>3. CASE j \notin J
    BY <2>1, <2>3 DEF Exists
  <2>4. QED
    BY <2>2, <2>3
<1>5. ASSUME NEW x \in Executors, NEW e \in Exprs, Create(x, e)
      PROVE  RowKept(j)
  <2>1. PICK i \in Jobs : /\ job[i].status = "UNUSED"
                          /\ \A k \in Jobs \ {i} : job'[k] = job[k]
    BY <1>5 DEF Create, CreateJob, TypeOK, TableOK
  <2>2. QED
    BY <2>1 DEF Exists
<1>6. ASSUME NEW i \in Jobs, Mutate(i)
      PROVE  RowKept(j)
  <2>1. CASE j # i
    <3>1. job'[j] = job[j]
      BY <1>6, <2>1 DEF Mutate, UpdateJob, UpdateExprByID, StopJob, RestartJob, DeleteJob,
                        TypeOK, TableOK
    <3>2. QED
      BY <3>1 DEF Exists
  <2>2. ASSUME j = i, NEW e \in Exprs, UpdateJob(j, e)
        PROVE  RowKept(j)
    <3>1. PICK d, l \in BOOLEAN : job' = [job EXCEPT ![j].expr = e, ![j].due = d, ![j].late = l]
      BY <2>2 DEF UpdateJob
    <3>2. job'[j] = [job[j] EXCEPT !.expr = e, !.due = d, !.late = l]
      BY <3>1 DEF TypeOK, TableOK
    <3>3. job'[j].status = job[j].status /\ job'[j].executor = job[j].executor
      BY <1>0, <3>2 DEF Row
    <3>4. QED
      BY <3>3 DEF Exists
  <2>3. ASSUME j = i, NEW e \in Exprs, UpdateExprByID(j, e)
        PROVE  RowKept(j)
    <3>1. job'[j].status = job[j].status /\ job'[j].executor = job[j].executor
      BY <1>0, <2>3 DEF UpdateExprByID, TypeOK, TableOK, Row
    <3>2. QED
      BY <3>1 DEF Exists
  <2>4. CASE j = i /\ (StopJob(j) \/ RestartJob(j))
    <3>1. /\ job[j].status \in Status /\ job'[j].status \in {"PAUSED", "READY"}
          /\ job'[j].executor = job[j].executor
      BY <1>0, <2>4 DEF StopJob, RestartJob, Status, TypeOK, TableOK, Row
    <3>2. QED
      BY <3>1 DEF Exists
  <2>5. CASE j = i /\ DeleteJob(j)
    <3>1. job'[j].status = "DELETED"
      BY <2>5 DEF DeleteJob, Absent, TypeOK, TableOK
    <3>2. QED
      BY <3>1 DEF Exists, Status, Terminal
  <2>6. QED
    BY <1>6, <2>1, <2>2, <2>3, <2>4, <2>5 DEF Mutate
<1>7. ASSUME NEW i \in Jobs, Tick(i)
      PROVE  RowKept(j)
  <2>1. CASE j # i
    <3>1. job'[j] = job[j]
      BY <1>7, <2>1 DEF Tick, Elapse, Expire, TypeOK, TableOK
    <3>2. QED
      BY <3>1 DEF Exists
  <2>2. CASE j = i
    <3>1. job'[j] \in {[job[j] EXCEPT !.due = TRUE], [job[j] EXCEPT !.late = TRUE]}
      BY <1>7, <2>2 DEF Tick, Elapse, Expire, TypeOK, TableOK
    <3>2. job'[j].status = job[j].status /\ job'[j].executor = job[j].executor
      BY <1>0, <3>1 DEF Row
    <3>3. QED
      BY <3>2 DEF Exists
  <2>3. QED
    BY <2>1, <2>2
<1>8. QED
  BY <1>1, <1>2, <1>3, <1>4, <1>5, <1>6, <1>7
     DEF Next, Poller, Flusher, Fetch, Cancel, Leave, PollBegin, PollAbort, Deliver,
         FlushStart, FlushError, Abandon, Answer, Crash, vars

-----------------------------------------------------------------------------
(* Claims.                                                                  *)

\* A claim that goes on as what it was.
Follows(c) ==
    claim'[c].stage # "free" =>
        /\ claim[c].stage # "free"
        /\ claim'[c].at = claim[c].at
        /\ claim'[c].expr = claim[c].expr
        /\ claim'[c].stage \in Batches => claim'[c].stage = claim[c].stage

LEMMA HeldKept ==
    ASSUME NEW c \in Claims, Held(c), Follows(c), RowKept(c[1])
    PROVE  Held(c)'
BY DEF Held, Follows, RowKept

\* The operators on claims make none.
LEMMA SameFollows ==
    ASSUME NEW c \in Claims, claim'[c] = claim[c]
    PROVE  Follows(c)
BY DEF Follows

LEMMA ReleaseFollows ==
    ASSUME NEW C, Release(C), NEW c \in Claims
    PROVE  Follows(c)
BY DEF Release, Follows, Free

LEMMA ReleaseStaleFollows ==
    ASSUME TypeOK, NEW C, NEW J, ReleaseStale(C, J), NEW c \in Claims
    PROVE  Follows(c)
<1>1. CASE claim[c].stage # "free"
  <2>1. claim[c] \in Claim
    BY <1>1, BusyClaim
  <2>2. claim'[c] \in {Free, claim[c], [claim[c] EXCEPT !.stale = TRUE]}
    BY DEF ReleaseStale
  <2>3. QED
    BY <1>1, <2>1, <2>2 DEF Follows, Free, Claim
<1>2. CASE claim[c].stage = "free"
  BY <1>2 DEF ReleaseStale, Follows, Free
<1>3. QED
  BY <1>1, <1>2

LEMMA MoveFollows ==
    ASSUME TypeOK, NEW C \in SUBSET Claims, NEW stage \in {"fetched", "running"},
           Move(C, stage), \A c \in C : claim[c].stage # "free", NEW c \in Claims
    PROVE  Follows(c)
<1>1. CASE c \in C
  <2>1. claim[c] \in Claim
    BY <1>1, BusyClaim
  <2>2. claim'[c] = [claim[c] EXCEPT !.stage = stage]
    BY <1>1 DEF Move
  <2>3. QED
    BY <1>1, <2>1, <2>2 DEF Follows, Claim
<1>2. CASE c \notin C
  BY <1>2, SameFollows DEF Move
<1>3. QED
  BY <1>1, <1>2

\* An answer is for its own row still: the flusher that receives it writes with
\* the executor of the session that fetched the job.
LEMMA AnswerHeld ==
    ASSUME OneExecutorPerClient, RetriesInTime, AnswerInv,
           NEW d \in Claims, NEW s \in Sessions, Answer(d, s)
    PROVE  \A c \in Claims : Held(c)'
<1> USE DEF AnswerInv, IInv
<1>1. PICK kind \in Answers, e \in {claim[d].expr} \cup HandlerExprs, b \in BadAnswers :
         claim' = [claim EXCEPT ![d] = [@ EXCEPT !.stage = BatchFor(kind, e),
                                                 !.at = s, !.expr = e, !.bad = b]]
  BY DEF Answer
<1>2. /\ claim[d].stage = "running" /\ claim[d] \in Claim /\ UNCHANGED job
      /\ ClientOf[claim[d].at] = ClientOf[s]
  BY BusyClaim DEF Answer
<1>3. claim'[d] = [claim[d] EXCEPT !.stage = BatchFor(kind, e), !.at = s, !.expr = e, !.bad = b]
  BY <1>1 DEF TypeOK
<1>4. /\ claim'[d].stage = BatchFor(kind, e) /\ claim'[d].at = s
      /\ claim[d].at \in Sessions /\ e \in Exprs
  BY <1>2, <1>3, QronClientAssumption DEF Claim
<1>5. ExecutorOf[claim[d].at] = ExecutorOf[s]
  BY <1>2, <1>4 DEF OneExecutorPerClient
<1>6. BatchFor(kind, e) = "retry" => Cancellable = {}
  BY <1>4 DEF RetriesInTime, BatchFor
<1>7. Held(d)'
  BY <1>2, <1>4, <1>5, <1>6 DEF Held, Exists
<1>8. ASSUME NEW c \in Claims \ {d}
      PROVE  Held(c)'
  <2>1. claim'[c] = claim[c]
    BY <1>1 DEF TypeOK
  <2>2. QED
    BY <1>2, <2>1 DEF Held, Exists
<1>9. QED
  BY <1>7, <1>8

\* A poll takes rows of the executor of its session.
LEMMA PollBeginHeld ==
    ASSUME AnswerInv, NEW s \in Sessions, PollBegin(s)
    PROVE  \A c \in Claims : Held(c)'
<1> USE DEF AnswerInv, IInv
<1> DEFINE J == FirstOf(DueRows(ExecutorOf[s], Locked), MaxInFlight)
<1>1. UNCHANGED job
  BY DEF PollBegin
<1>2. SUFFICES ASSUME NEW c \in Claims
               PROVE  Held(c)'
  OBVIOUS
<1>3. CASE claim'[c] = claim[c]
  BY <1>1, <1>3 DEF Held, Exists
<1>4. CASE claim'[c] # claim[c]
  <2>1. /\ c[1] \in J
        /\ claim'[c] = [stage |-> "locked", at |-> s, expr |-> job[c[1]].expr,
                        bad |-> FALSE, stale |-> FALSE]
    BY <1>4 DEF PollBegin
  <2>2. job[c[1]].status = "READY" /\ job[c[1]].executor = ExecutorOf[s]
    BY <2>1 DEF FirstOf, DueRows
  <2>3. QED
    BY <1>1, <2>1, <2>2 DEF Held
<1>5. QED
  BY <1>3, <1>4

\* Polls make claims and answers change them; all other steps let them go on.
LEMMA StepFollows ==
    ASSUME TypeOK, [Next]_vars
    PROVE  \/ \A c \in Claims : Follows(c)
           \/ \E s \in Sessions : PollBegin(s)
           \/ \E c \in Claims, s \in Sessions : Answer(c, s)
<1>1. CASE UNCHANGED claim
  BY <1>1, SameFollows
<1>2. ASSUME NEW s \in Sessions, PollCommit(s) \/ PollCommitLost(s)
      PROVE  \A c \in Claims : Follows(c)
  <2>1. /\ At("locked", s) \subseteq Claims
        /\ \A c \in At("locked", s) : claim[c].stage # "free"
    BY AtType
  <2>2. Move(At("locked", s), "fetched") \/ Release(At("locked", s))
    BY <1>2 DEF PollCommit, PollCommitLost
  <2>3. QED
    BY <2>1, <2>2, MoveFollows, ReleaseFollows
<1>3. ASSUME NEW s \in Sessions, PollAbort(s) \/ FlushError(s)
      PROVE  \A c \in Claims : Follows(c)
  BY <1>3, ReleaseFollows DEF PollAbort, FlushError
<1>4. ASSUME NEW s \in Sessions, Deliver(s)
      PROVE  \A c \in Claims : Follows(c)
  <2>1. PICK d \in At("fetched", s) : Move({d}, "running")
    BY <1>4 DEF Deliver
  <2>2. {d} \in SUBSET Claims /\ \A c \in {d} : claim[c].stage # "free"
    BY AtType
  <2>3. QED
    BY <2>1, <2>2, MoveFollows
<1>5. ASSUME NEW s \in Sessions, FlushCommit(s) \/ FlushFail(s) \/ FlushRetry(s)
      PROVE  \A c \in Claims : Follows(c)
  <2>1. PICK kind \in Batches : Write(kind, s) \/ Release(At(kind, s))
    BY <1>5, FlushIsBatch
  <2>2. Release(At(kind, s)) \/ \E J : ReleaseStale(At(kind, s), J)
    BY <2>1, WriteRows
  <2>3. QED
    BY <2>2, ReleaseFollows, ReleaseStaleFollows
<1>6. ASSUME NEW s \in Sessions, Reset(s)
      PROVE  \A c \in Claims : Follows(c)
  BY <1>6, ReleaseStaleFollows DEF Reset
<1>7. ASSUME NEW c \in Claims, Abandon(c)
      PROVE  \A d \in Claims : Follows(d)
  BY <1>7, ReleaseFollows DEF Abandon
<1>8. ASSUME NEW k \in Clients, Crash(k)
      PROVE  \A c \in Claims : Follows(c)
  BY <1>8, ReleaseFollows DEF Crash
<1>9. QED
  BY <1>1, <1>2, <1>3, <1>4, <1>5, <1>6, <1>7, <1>8
     DEF Next, Poller, Flusher, Fetch, Cancel, Leave, FlushStart, Create, Mutate, Tick, vars

LEMMA StepHeld ==
    ASSUME OneExecutorPerClient, RetriesInTime, AnswerInv, [Next]_vars
    PROVE  \A c \in Claims : Held(c)'
<1> USE DEF AnswerInv, IInv
<1>1. CASE \A c \in Claims : Follows(c)
  <2>1. SUFFICES ASSUME NEW c \in Claims PROVE Held(c)'
    OBVIOUS
  <2>2. RowKept(c[1])
    BY StepRows
  <2>3. QED
    BY <1>1, <2>2, HeldKept
<1>2. CASE \E s \in Sessions : PollBegin(s)
  BY <1>2, PollBeginHeld
<1>3. CASE \E c \in Claims, s \in Sessions : Answer(c, s)
  BY <1>3, AnswerHeld
<1>4. QED
  BY <1>1, <1>2, <1>3, StepFollows

\* Contexts are done only of sessions that may be cancelled.
LEMMA StepInTime ==
    ASSUME TypeOK, InTime, [Next]_vars
    PROVE  InTime'
<1>1. CASE UNCHANGED ctx
  BY <1>1 DEF InTime
<1>2. ASSUME NEW s \in Sessions, Fetch(s)
      PROVE  InTime'
  BY <1>2 DEF Fetch, InTime, TypeOK
<1>3. ASSUME NEW s \in Sessions, Cancel(s)
      PROVE  InTime'
  BY <1>3 DEF Cancel, InTime, TypeOK
<1>4. ASSUME NEW k \in Clients, Crash(k)
      PROVE  InTime'
  BY <1>4 DEF Crash, InTime
<1>5. QED
  BY <1>1, <1>2, <1>3, <1>4
     DEF Next, Poller, Flusher, Leave, PollBegin, PollCommit, PollAbort, PollCommitLost,
         Deliver, FlushStart, FlushCommit, FlushFail, FlushRetry, FlushError, EmptyBatch,
         Reset, Abandon, Answer, Create, Mutate, Tick, vars

-----------------------------------------------------------------------------
(* Answers.                                                                 *)

\* What NoAnswerLost says of one claim.
Saved(c) ==
    /\ Executing(c)
    /\ job[c[1]].status = "PENDING" /\ job'[c[1]].status = "PENDING"
    => \/ Executing(c)'
       \/ faults' # faults
       \/ \E d \in At(claim[c].stage, claim[c].at) : claim[d].bad

LEMMA SameSaved ==
    ASSUME NEW c \in Claims, claim'[c] = claim[c]
    PROVE  Saved(c)
BY DEF Saved, Executing, Current

\* A fault excuses.
LEMMA FaultSaves ==
    ASSUME TypeOK, Fault, NEW c \in Claims
    PROVE  Saved(c)
BY QronClientAssumption DEF TypeOK, Fault, Saved

\* A claim that is handed on goes on executing.
LEMMA MoveSaved ==
    ASSUME TypeOK, NEW C \in SUBSET Claims, NEW stage \in {"fetched", "running"},
           Move(C, stage), \A c \in C : claim[c].stage # "free", NEW c \in Claims
    PROVE  Saved(c)
<1>1. CASE c \in C
  <2>1. claim[c] \in Claim
    BY <1>1, BusyClaim
  <2>2. claim'[c] = [claim[c] EXCEPT !.stage = stage]
    BY <1>1 DEF Move
  <2>3. claim'[c].stage = stage /\ claim'[c].stale = claim[c].stale
    BY <2>1, <2>2 DEF Claim
  <2>4. QED
    BY <2>3 DEF Saved, Executing, Current
<1>2. CASE c \notin C
  BY <1>2, SameSaved DEF Move
<1>3. QED
  BY <1>1, <1>2

\* The poller: what a poll cuts off was not executing yet.
LEMMA PollSaved ==
    ASSUME TypeOK, NEW s \in Sessions, Poller(s), NEW c \in Claims
    PROVE  Saved(c)
<1> DEFINE L == At("locked", s)
<1>0. L \subseteq Claims /\ \A d \in L : claim[d].stage = "locked"
  BY AtType
<1>1. CASE PollBegin(s)
  <2>1. CASE claim'[c] = claim[c]
    BY <2>1, SameSaved
  <2>2. CASE claim'[c] # claim[c]
    <3>1. FreeSlot(c[1], c[2]) /\ c = <<c[1], c[2]>>
      BY <1>1, <2>2 DEF PollBegin
    <3>2. QED
      BY <3>1 DEF FreeSlot, Saved, Executing, Current
  <2>3. QED
    BY <2>1, <2>2
<1>2. CASE PollCommit(s)
  BY <1>0, <1>2, MoveSaved DEF PollCommit
<1>3. CASE PollAbort(s) \/ PollCommitLost(s)
  <2>1. Release(L)
    BY <1>3 DEF PollAbort, PollCommitLost
  <2>2. CASE c \in L
    BY <1>0, <2>2 DEF Saved, Executing
  <2>3. CASE c \notin L
    BY <2>1, <2>3, SameSaved DEF Release
  <2>4. QED
    BY <2>2, <2>3
<1>4. CASE Deliver(s)
  <2>1. PICK d \in At("fetched", s) : Move({d}, "running")
    BY <1>4 DEF Deliver
  <2>2. {d} \in SUBSET Claims /\ \A i \in {d} : claim[i].stage # "free"
    BY AtType
  <2>3. QED
    BY <2>1, <2>2, MoveSaved
<1>5. QED
  BY <1>1, <1>2, <1>3, <1>4 DEF Poller

\* The flusher: a batch finds the row of every answer in it that counts, and none
\* is dropped.
LEMMA FlushSaved ==
    ASSUME AnswerInv, NEW s \in Sessions,
           FlushCommit(s) \/ FlushFail(s) \/ FlushRetry(s), NEW c \in Claims
    PROVE  Saved(c)
<1> USE DEF AnswerInv, IInv
<1>1. PICK kind \in Batches : /\ EmptyBatch(kind, s)
                              /\ \/ Write(kind, s)
                                 \/ kind = "retry" /\ ctx[s] = "done"
  <2>1. CASE FlushCommit(s)
    BY <2>1 DEF FlushCommit
  <2>2. CASE FlushFail(s)
    BY <2>2 DEF FlushFail
  <2>3. CASE FlushRetry(s)
    BY <2>3 DEF FlushRetry
  <2>4. QED
    BY <2>1, <2>2, <2>3
<1> DEFINE B == At(kind, s)
           C == Matched(B, s)
           J == JobsOf(C)
<1>2. /\ B \subseteq Claims /\ C \subseteq B
      /\ \A d \in B : claim[d].stage = kind /\ claim[d].at = s
  BY AtType DEF Matched
<1>3. Write(kind, s)
  <2>1. SUFFICES ASSUME kind = "retry", ctx[s] = "done"
                 PROVE  FALSE
    BY <1>1
  <2>2. PICK d \in B : claim[d].stage = "retry"
    BY <1>1, <1>2, <2>1 DEF EmptyBatch
  <2>3. Held(d) /\ claim[d].stage # "free"
    BY <1>2, <2>2
  <2>4. Cancellable = {}
    BY <2>2, <2>3 DEF Held
  <2>5. QED
    BY <2>1, <2>4 DEF InTime
<1>4. CASE (\E d \in C : claim[d].bad) /\ Release(B)
  <2>1. CASE c \in B
    <3>1. \E d \in At(claim[c].stage, claim[c].at) : claim[d].bad
      BY <1>2, <1>4, <2>1
    <3>2. QED
      BY <3>1 DEF Saved
  <2>2. CASE c \notin B
    BY <1>4, <2>2, SameSaved DEF Release
  <2>3. QED
    BY <2>1, <2>2
<1>5. CASE /\ ReleaseStale(B, J)
           /\ \A i \in J : job'[i].status \in {"READY", "SUCCESS", "FAILURE"}
  <2>1. SUFFICES ASSUME Executing(c), job[c[1]].status = "PENDING",
                        job'[c[1]].status = "PENDING"
                 PROVE  Saved(c)
    BY DEF Saved
  <2>2. c[1] \notin J
    BY <1>5, <2>1
  <2>3. c \notin B
    <3>1. SUFFICES ASSUME c \in B PROVE FALSE
      OBVIOUS
    <3>2. claim[c].stage # "free" /\ claim[c].at = s /\ Held(c)
      BY <1>2, <2>1, <3>1 DEF Executing, Current
    <3>3. Exists(c[1])
      BY <2>1 DEF Exists, Status
    <3>4. job[c[1]].executor = ExecutorOf[s]
      BY <3>2, <3>3 DEF Held
    <3>5. c \in C
      BY <3>1, <3>3, <3>4 DEF Matched
    <3>6. QED
      BY <2>2, <3>5 DEF JobsOf
  <2>4. claim'[c] = claim[c]
    BY <1>5, <2>2, <2>3 DEF ReleaseStale
  <2>5. QED
    BY <2>4, SameSaved
<1>6. QED
  BY <1>3, <1>4, <1>5, WriteRows

\* The resetter forgets the claims of the rows that it makes READY alone.
LEMMA ResetSaved ==
    ASSUME TypeOK, NEW s \in Sessions, Reset(s), NEW c \in Claims
    PROVE  Saved(c)
<1> DEFINE J == LateRows(ExecutorOf[s])
           j == c[1]
<1>1. /\ job'[j] = IF j \in J THEN [job[j] EXCEPT !.status = "READY", !.late = FALSE]
                              ELSE job[j]
      /\ ReleaseStale({}, J)
  BY DEF Reset, ResetTimeoutJobs
<1>2. CASE j \in J
  <2>1. job[j] \in Row
    BY DEF TypeOK, TableOK
  <2>2. job'[j].status = "READY"
    BY <1>1, <1>2, <2>1 DEF Row
  <2>3. QED
    BY <2>2 DEF Saved
<1>3. CASE j \notin J
  <2>1. claim'[c] = claim[c]
    BY <1>1, <1>3 DEF ReleaseStale
  <2>2. QED
    BY <2>1, SameSaved
<1>4. QED
  BY <1>2, <1>3

\* An answer takes its claim to a batch and leaves it as current as it was.
LEMMA AnswerSaved ==
    ASSUME TypeOK, NEW d \in Claims, NEW s \in Sessions, Answer(d, s), NEW c \in Claims
    PROVE  Saved(c)
<1>1. PICK kind \in Answers, e \in {claim[d].expr} \cup HandlerExprs, b \in BadAnswers :
         claim' = [claim EXCEPT ![d] = [@ EXCEPT !.stage = BatchFor(kind, e),
                                                 !.at = s, !.expr = e, !.bad = b]]
  BY DEF Answer
<1>2. claim[d] \in Claim
  BY BusyClaim DEF Answer
<1>3. claim'[d] = [claim[d] EXCEPT !.stage = BatchFor(kind, e), !.at = s, !.expr = e, !.bad = b]
  BY <1>1 DEF TypeOK
<1>4. BatchFor(kind, e) \in Batches
  BY QronClientAssumption DEF BatchFor, AllAnswers
<1>5. claim'[d].stage \in Batches /\ claim'[d].stale = claim[d].stale
  BY <1>2, <1>3, <1>4 DEF Claim
<1>6. CASE c = d
  BY <1>5, <1>6 DEF Saved, Executing, Current
<1>7. CASE c # d
  <2>1. claim'[c] = claim[c]
    BY <1>1, <1>7 DEF TypeOK
  <2>2. QED
    BY <2>1, SameSaved
<1>8. QED
  BY <1>6, <1>7

LEMMA StepSaved ==
    ASSUME AnswerInv, [Next]_vars, NEW c \in Claims
    PROVE  Saved(c)
<1> USE DEF AnswerInv, IInv
<1>1. CASE UNCHANGED claim
  BY <1>1, SameSaved
<1>2. ASSUME NEW s \in Sessions, Poller(s)
      PROVE  Saved(c)
  BY <1>2, PollSaved
<1>3. ASSUME NEW s \in Sessions, FlushCommit(s) \/ FlushFail(s) \/ FlushRetry(s)
      PROVE  Saved(c)
  BY <1>3, FlushSaved
<1>4. ASSUME NEW s \in Sessions, FlushError(s)
      PROVE  Saved(c)
  BY <1>4, FaultSaves DEF FlushError
<1>5. ASSUME NEW s \in Sessions, Reset(s)
      PROVE  Saved(c)
  BY <1>5, ResetSaved
<1>6. ASSUME NEW d \in Claims, NEW s \in Sessions, Answer(d, s)
      PROVE  Saved(c)
  BY <1>6, AnswerSaved
<1>7. CASE (\E d \in Claims : Abandon(d)) \/ (\E k \in Clients : Crash(k))
  BY <1>7, FaultSaves DEF Abandon, Crash
<1>8. QED
  BY <1>1, <1>2, <1>3, <1>4, <1>5, <1>6, <1>7
     DEF Next, Flusher, Fetch, Cancel, Leave, FlushStart, Create, Mutate, Tick, vars

\* No job is PENDING before a poll, and no context done before a call of Fetch.
LEMMA InitAnswer == Init => AnswerInv
<1> SUFFICES ASSUME Init PROVE AnswerInv
  OBVIOUS
<1>1. IInv
  BY InitType, InitExclusive DEF IInv
<1>2. \A c \in Claims : Held(c)
  BY DEF Init, Free, Held
<1>3. InTime
  BY DEF Init, InTime
<1>4. QED
  BY <1>1, <1>2, <1>3 DEF AnswerInv

\* An execution the table goes by never ends while its row stays PENDING, but by a
\* fault of that very step or with a batch of which a row is refused: for any
\* number of sessions, cancelled at any time, and however their timers fire, if the
\* sessions of a process fetch for one executor and nothing is retried under a
\* context that may be done.
THEOREM NothingLost ==
    ASSUME OneExecutorPerClient, RetriesInTime
    PROVE  Spec => NoAnswerLost
<1>1. AnswerInv /\ [Next]_vars => AnswerInv'
  <2>1. SUFFICES ASSUME AnswerInv, [Next]_vars PROVE AnswerInv'
    OBVIOUS
  <2>2. IInv'
    BY <2>1, StepType, StepExclusive DEF AnswerInv, IInv
  <2>3. \A c \in Claims : Held(c)'
    BY <2>1, StepHeld
  <2>4. InTime'
    BY <2>1, StepInTime DEF AnswerInv, IInv
  <2>5. QED
    BY <2>2, <2>3, <2>4 DEF AnswerInv
<1>2. AnswerInv /\ [Next]_vars =>
        [\A c \in Claims :
            /\ Executing(c)
            /\ job[c[1]].status = "PENDING" /\ job'[c[1]].status = "PENDING"
            => \/ Executing(c)'
               \/ faults' # faults
               \/ \E d \in At(claim[c].stage, claim[c].at) : claim[d].bad]_vars
  BY StepSaved DEF Saved
<1>3. QED
  BY <1>1, <1>2, InitAnswer, PTL DEF Spec, NoAnswerLost

-----------------------------------------------------------------------------
(* Successes.                                                               *)

CommitsOneShots ==
    \A c \in Claims : claim[c].stage = "commit" => is_one_shot(claim[c].expr)

\* Commit looks at the schedule that it sends along.
LEMMA StepCommits ==
    ASSUME TypeOK, CommitsOneShots, [Next]_vars
    PROVE  CommitsOneShots'
<1>1. CASE \A c \in Claims : Follows(c)
  BY <1>1 DEF Follows, CommitsOneShots
<1>2. ASSUME NEW s \in Sessions, PollBegin(s)
      PROVE  CommitsOneShots'
  BY <1>2 DEF PollBegin, CommitsOneShots
<1>3. ASSUME NEW d \in Claims, NEW s \in Sessions, Answer(d, s)
      PROVE  CommitsOneShots'
  <2>1. PICK kind \in Answers, e \in {claim[d].expr} \cup HandlerExprs, b \in BadAnswers :
           claim' = [claim EXCEPT ![d] = [@ EXCEPT !.stage = BatchFor(kind, e),
                                                   !.at = s, !.expr = e, !.bad = b]]
    BY <1>3 DEF Answer
  <2>2. claim[d] \in Claim
    BY <1>3, BusyClaim DEF Answer
  <2>3. claim'[d] = [claim[d] EXCEPT !.stage = BatchFor(kind, e), !.at = s, !.expr = e, !.bad = b]
    BY <2>1 DEF TypeOK
  <2>4. claim'[d].stage = BatchFor(kind, e) /\ claim'[d].expr = e
    BY <2>2, <2>3 DEF Claim
  <2>5. \A c \in Claims \ {d} : claim'[c] = claim[c]
    BY <2>1 DEF TypeOK
  <2>6. QED
    BY <2>4, <2>5 DEF CommitsOneShots, BatchFor
<1>4. QED
  BY <1>1, <1>2, <1>3, StepFollows

\* SUCCESS comes with the commit of a one-shot job alone.
LEMMA StepSuccess ==
    ASSUME IInv, CommitsOneShots, [Next]_vars, NEW j \in Jobs,
           job'[j].status = "SUCCESS", job[j].status # "SUCCESS"
    PROVE  is_one_shot(job'[j].expr)
<1> USE DEF IInv
<1>0. job[j] \in Row
  BY DEF TypeOK, TableOK
<1>1. ASSUME NEW s \in Sessions, PollCommit(s) \/ PollCommitLost(s)
      PROVE  FALSE
  <2>1. job'[j] = IF j \in JobsOf(At("locked", s))
                  THEN [job[j] EXCEPT !.status = "PENDING", !.late = FALSE] ELSE job[j]
    BY <1>1 DEF PollCommit, PollCommitLost, MarkPending
  <2>2. QED
    BY <1>0, <2>1 DEF Row
<1>2. ASSUME NEW s \in Sessions, FlushCommit(s) \/ FlushFail(s) \/ FlushRetry(s)
      PROVE  is_one_shot(job'[j].expr)
  <2>1. PICK kind \in Batches :
           Write(kind, s) \/ (Release(At(kind, s)) /\ UNCHANGED job)
    BY <1>2, FlushIsBatch
  <2>2. Write(kind, s)
    BY <2>1
  <2> DEFINE C == Matched(At(kind, s), s)
  <2>3. kind = "commit" /\ \E c \in C : job'[j].expr = claim[c].expr
    BY <2>2, WriteRows
  <2>4. C \subseteq Claims /\ \A c \in C : claim[c].stage = kind
    BY AtType DEF Matched
  <2>5. QED
    BY <2>3, <2>4 DEF CommitsOneShots
<1>3. ASSUME NEW s \in Sessions, Reset(s)
      PROVE  FALSE
  <2>1. job'[j] = IF j \in LateRows(ExecutorOf[s])
                  THEN [job[j] EXCEPT !.status = "READY", !.late = FALSE] ELSE job[j]
    BY <1>3 DEF Reset, ResetTimeoutJobs
  <2>2. QED
    BY <1>0, <2>1 DEF Row
<1>4. ASSUME NEW x \in Executors, NEW e \in Exprs, Create(x, e)
      PROVE  FALSE
  <2>1. PICK i \in Jobs : \E d, sp \in BOOLEAN :
              job' = [job EXCEPT ![i] = [status |-> "READY", executor |-> x, expr |-> e,
                                         due |-> d, late |-> FALSE, spent |-> sp]]
    BY <1>4 DEF Create, CreateJob
  <2>2. job'[i].status = "READY" /\ \A k \in Jobs \ {i} : job'[k] = job[k]
    BY <2>1 DEF TypeOK, TableOK
  <2>3. QED
    BY <2>2
<1>5. ASSUME NEW i \in Jobs, Mutate(i)
      PROVE  FALSE
  <2>1. ASSUME NEW e \in Exprs, UpdateJob(i, e)
        PROVE  FALSE
    <3>1. PICK d, l \in BOOLEAN : job' = [job EXCEPT ![i].expr = e, ![i].due = d, ![i].late = l]
      BY <2>1 DEF UpdateJob
    <3>2. job'[j] \in {job[j], [job[j] EXCEPT !.expr = e, !.due = d, !.late = l]}
      BY <3>1 DEF TypeOK, TableOK
    <3>3. QED
      BY <1>0, <3>2 DEF Row
  <2>2. ASSUME NEW e \in Exprs, UpdateExprByID(i, e)
        PROVE  FALSE
    <3>1. job'[j] \in {job[j], [job[j] EXCEPT !.expr = e]}
      BY <2>2 DEF UpdateExprByID, TypeOK, TableOK
    <3>2. QED
      BY <1>0, <3>1 DEF Row
  <2>3. CASE StopJob(i) \/ RestartJob(i) \/ DeleteJob(i)
    <3>1. \A k \in Jobs \ {i} : job'[k] = job[k]
      BY <2>3 DEF StopJob, RestartJob, DeleteJob, TypeOK, TableOK
    <3>2. job[i] \in Row
      BY DEF TypeOK, TableOK
    <3>3. job'[i].status \in {"PAUSED", "READY", "DELETED"}
      BY <2>3, <3>2 DEF StopJob, RestartJob, DeleteJob, Absent, TypeOK, TableOK, Row
    <3>4. QED
      BY <3>1, <3>3
  <2>4. QED
    BY <1>5, <2>1, <2>2, <2>3 DEF Mutate
<1>6. ASSUME NEW i \in Jobs, Tick(i)
      PROVE  FALSE
  <2>1. \/ job'[j] = job[j]
        \/ job'[j] \in {[job[j] EXCEPT !.due = TRUE], [job[j] EXCEPT !.late = TRUE]}
    BY <1>6 DEF Tick, Elapse, Expire, TypeOK, TableOK
  <2>2. QED
    BY <1>0, <2>1 DEF Row
<1>7. ~UNCHANGED job
  OBVIOUS
<1>8. QED
  BY <1>1, <1>2, <1>3, <1>4, <1>5, <1>6, <1>7
     DEF Next, Poller, Flusher, Fetch, Cancel, Leave, PollBegin, PollAbort, Deliver,
         FlushStart, FlushError, Abandon, Answer, Crash, vars

\* A job succeeds only with a one-shot schedule: whatever handlers assign to
\* job.Expr and users write to the row, Commit and the batch go by one schedule.
THEOREM SuccessIsOneShot == Spec => OnlyOneShotsSucceed
<1>1. Init => CommitsOneShots
  BY DEF Init, Free, CommitsOneShots
<1>2. IInv /\ CommitsOneShots /\ [Next]_vars => CommitsOneShots'
  BY StepCommits DEF IInv
<1>3. IInv /\ CommitsOneShots /\ [Next]_vars =>
        [\A j \in Jobs : job'[j].status = "SUCCESS" /\ job[j].status # "SUCCESS"
                            => is_one_shot(job'[j].expr)]_vars
  BY StepSuccess
<1>4. QED
  BY <1>1, <1>2, <1>3, Inductive, PTL DEF Spec, OnlyOneShotsSucceed
=============================================================================

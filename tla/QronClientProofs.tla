-------------------------- MODULE QronClientProofs --------------------------
(***************************************************************************)
(* Proofs about QronClient, for any number of jobs, clients, sessions and   *)
(* executions under way, any limits and any calls of the API.               *)
(***************************************************************************)
EXTENDS QronClient, FiniteSetTheorems, TLAPS

USE DEF Claims, Batches, Stages

-----------------------------------------------------------------------------
(* What the operators on claims return.                                     *)

\* A batch, a poll's rows: subsets of the claims, with the stage they name.
LEMMA AtType ==
    ASSUME NEW stage, NEW s
    PROVE  /\ At(stage, s) \subseteq Claims
           /\ \A c \in At(stage, s) : claim[c].stage = stage /\ claim[c].at = s
BY DEF At

\* The jobs of some claims are jobs.
LEMMA JobsOfType ==
    ASSUME NEW C \in SUBSET Claims
    PROVE  JobsOf(C) \subseteq Jobs /\ \A c \in C : c[1] \in JobsOf(C)
BY DEF JobsOf

\* A claim that is not free has the fields of a claim.
LEMMA BusyClaim ==
    ASSUME TypeOK, NEW c \in Claims, claim[c].stage # "free"
    PROVE  claim[c] \in Claim
BY DEF TypeOK, Free

\* Moving claims to a stage keeps their type.
LEMMA MoveType ==
    ASSUME TypeOK, NEW C \in SUBSET Claims, NEW stage \in Stages, Move(C, stage),
           \A c \in C : claim[c].stage # "free"
    PROVE  claim' \in [Claims -> Claim \cup {Free}]
<1>1. \A c \in C : [claim[c] EXCEPT !.stage = stage] \in Claim
  BY BusyClaim DEF Claim
<1>2. QED
  BY <1>1 DEF Move, TypeOK

\* So does ending them ...
LEMMA ReleaseType ==
    ASSUME TypeOK, NEW C, Release(C)
    PROVE  claim' \in [Claims -> Claim \cup {Free}]
BY DEF Release, TypeOK

\* ... and making others stale.
LEMMA ReleaseStaleType ==
    ASSUME TypeOK, NEW C, NEW J, ReleaseStale(C, J)
    PROVE  claim' \in [Claims -> Claim \cup {Free}]
<1>1. \A c \in Claims : claim[c].stage # "free" => [claim[c] EXCEPT !.stale = TRUE] \in Claim
  BY BusyClaim DEF Claim
<1>2. QED
  BY <1>1 DEF ReleaseStale, TypeOK

-----------------------------------------------------------------------------
(* What the statements on the table leave.                                  *)

\* A row that a batch writes is a row, without a running lease.
LEMMA WrittenType ==
    ASSUME NEW row \in Row, NEW e \in Exprs, NEW st \in Status,
           NEW d \in BOOLEAN, NEW sp \in BOOLEAN
    PROVE  LET r == Written(row, st, e, d, sp)
           IN  r \in Row /\ ~r.late /\ r.expr \in Exprs
BY DEF Written, Row

LEMMA UpdatedType ==
    ASSUME NEW row \in Row, NEW e \in Exprs, NEW st \in Status, NEW r \in Updated(row, st, e)
    PROVE  r \in Row /\ ~r.late /\ r.expr \in Exprs
BY WrittenType DEF Updated

LEMMA UpdatedFailedType ==
    ASSUME NEW row \in Row, NEW e \in Exprs, NEW r \in UpdatedFailed(row, e)
    PROVE  r \in Row /\ ~r.late /\ r.expr \in Exprs
<1>1. PICK d \in PastFailed(row), sp \in {TRUE, row.spent} :
         r = Written(row, StatusFailed(row), e, d, sp)
  BY DEF UpdatedFailed
<1>2. d \in BOOLEAN /\ sp \in BOOLEAN
  <2>1. PastFailed(row) \subseteq BOOLEAN
    BY DEF PastFailed
  <2>2. {TRUE, row.spent} \subseteq BOOLEAN
    BY DEF Row
  <2>3. QED
    BY <1>1, <2>1, <2>2
<1>3. StatusFailed(row) \in Status
  BY DEF StatusFailed, Status, Terminal
<1>4. QED
  BY <1>1, <1>2, <1>3, WrittenType

\* The rows a batch may leave in place of row j.
LEMMA ResultType ==
    ASSUME TypeOK, NEW kind \in Batches, NEW j \in Jobs, NEW D \in SUBSET Claims,
           \A c \in D : c[1] = j /\ claim[c].stage # "free",
           NEW r \in Result(kind, j, D)
    PROVE  r \in Row /\ ~r.late /\ r.expr \in Exprs
<1>1. job[j] \in Row
  BY DEF TypeOK, TableOK
<1>2. \A c \in D : claim[c].expr \in Exprs
  BY BusyClaim DEF Claim
<1>3. PICK c \in D :
         r \in CASE kind = "commit" -> Updated(job[j], "SUCCESS", claim[c].expr)
                 [] kind = "retry"  -> Updated(job[j], "READY", claim[c].expr)
                 [] kind = "fail"   ->
                      UNION {UpdatedFailed(row, claim[c].expr) : row \in Before(c, D)}
  BY DEF Result
<1>4. CASE kind = "commit"
  <2>1. r \in Updated(job[j], "SUCCESS", claim[c].expr)
    BY <1>3, <1>4
  <2>2. QED
    BY <2>1, <1>1, <1>2, UpdatedType DEF Status, Terminal
<1>5. CASE kind = "retry"
  <2>1. r \in Updated(job[j], "READY", claim[c].expr)
    BY <1>3, <1>5
  <2>2. QED
    BY <2>1, <1>1, <1>2, UpdatedType DEF Status
<1>6. CASE kind = "fail"
  <2>1. PICK row \in Before(c, D) : r \in UpdatedFailed(row, claim[c].expr)
    BY <1>3, <1>6
  <2>2. row \in Row
    <3>1. CASE D = {c}
      BY <3>1, <2>1, <1>1 DEF Before
    <3>2. CASE D # {c}
      <4>1. PICK d \in D \ {c} : row \in UpdatedFailed(job[j], claim[d].expr)
        BY <3>2, <2>1 DEF Before
      <4>2. QED
        BY <4>1, <1>1, <1>2, UpdatedFailedType
    <3>3. QED
      BY <3>1, <3>2
  <2>3. QED
    BY <2>1, <2>2, <1>2, UpdatedFailedType
<1>7. QED
  BY <1>4, <1>5, <1>6

\* A batch statement rewrites rows of its claims that no poller has locked, ends
\* the claims of the batch, and makes every other claim of a rewritten row stale.
LEMMA WriteEffect ==
    ASSUME TypeOK, NEW kind \in Batches, NEW s \in Sessions, Write(kind, s)
    PROVE  /\ TableOK'
           /\ \E J \in SUBSET Jobs :
                /\ J \cap Locked = {}
                /\ J \subseteq JobsOf(At(kind, s))
                /\ \A j \in Jobs \ J : job'[j] = job[j]
                /\ ReleaseStale(At(kind, s), J)
<1> DEFINE C == Matched(At(kind, s), s)
           J == JobsOf(C)
           R == [j \in J |-> Result(kind, j, {c \in C : c[1] = j})]
<1>1. C \subseteq At(kind, s) /\ C \subseteq Claims
  BY AtType DEF Matched
<1>2. J \subseteq Jobs /\ J \subseteq JobsOf(At(kind, s))
  BY <1>1, JobsOfType DEF JobsOf
<1>3. J \cap Locked = {}
  BY DEF Write
<1>4. CASE \E c \in C : claim[c].bad /\ Release(At(kind, s)) /\ UNCHANGED job
  <2>1. ReleaseStale(At(kind, s), {})
    BY <1>4 DEF Release, ReleaseStale
  <2>2. QED
    BY <2>1, <1>4 DEF TypeOK, TableOK
<1>5. CASE /\ \E rows \in [J -> UNION {R[j] : j \in J}] :
                /\ \A j \in J : rows[j] \in R[j]
                /\ job' = [j \in Jobs |-> IF j \in J THEN rows[j] ELSE job[j]]
           /\ ReleaseStale(At(kind, s), J)
  <2>1. PICK rows \in [J -> UNION {R[j] : j \in J}] :
                /\ \A j \in J : rows[j] \in R[j]
                /\ job' = [j \in Jobs |-> IF j \in J THEN rows[j] ELSE job[j]]
    BY <1>5
  <2>2. ASSUME NEW j \in J
        PROVE  rows[j] \in Row /\ ~rows[j].late /\ rows[j].expr \in Exprs
    <3>1. rows[j] \in Result(kind, j, {c \in C : c[1] = j})
      BY <2>1
    <3>2. \A c \in {c \in C : c[1] = j} : c[1] = j /\ claim[c].stage # "free"
      BY <1>1, AtType
    <3>3. QED
      BY <3>1, <3>2, <1>1, <1>2, ResultType
  <2>3. job' \in [Jobs -> Row]
    BY <2>1, <2>2 DEF TypeOK, TableOK
  <2>4. \A j \in Jobs : /\ job'[j].late => job'[j].status = "PENDING"
                        /\ job'[j].status \in Status => job'[j].expr \in Exprs
    BY <2>1, <2>2 DEF TypeOK, TableOK
  <2>5. \A j \in Jobs \ J : job'[j] = job[j]
    BY <2>1
  <2>6. QED
    BY <2>3, <2>4, <2>5, <1>2, <1>3, <1>5 DEF TableOK
<1>6. QED
  BY <1>4, <1>5 DEF Write

\* The three batches are written or dropped in the same way.
LEMMA FlushIsBatch ==
    ASSUME NEW s, FlushCommit(s) \/ FlushFail(s) \/ FlushRetry(s)
    PROVE  \E kind \in Batches :
             /\ EmptyBatch(kind, s)
             /\ Write(kind, s) \/ (Release(At(kind, s)) /\ UNCHANGED job)
             /\ UNCHANGED faults
<1>1. CASE FlushCommit(s)
  BY <1>1 DEF FlushCommit
<1>2. CASE FlushFail(s)
  BY <1>2 DEF FlushFail
<1>3. CASE FlushRetry(s)
  BY <1>3 DEF FlushRetry
<1>4. QED
  BY <1>1, <1>2, <1>3

\* The rows an open poll has locked are READY.
LEMMA LockedReady ==
    ASSUME ExclusiveDelivery, NEW s
    PROVE  \A j \in JobsOf(At("locked", s)) : job[j].status = "READY"
<1>1. SUFFICES ASSUME NEW c \in At("locked", s)
               PROVE  job[c[1]].status = "READY"
  BY DEF JobsOf
<1>2. c[1] \in Jobs /\ c \in {c[1]} \X Slots /\ claim[c].stage = "locked"
  BY AtType
<1>3. QED
  BY <1>2 DEF ExclusiveDelivery, Exclusive

-----------------------------------------------------------------------------
(* Type correctness.                                                        *)

\* The table keeps its type when one row is replaced ...
LEMMA OneRow ==
    ASSUME TableOK, NEW j \in Jobs, NEW r \in Row, job' = [job EXCEPT ![j] = r],
           r.late => r.status = "PENDING", r.status \in Status => r.expr \in Exprs
    PROVE  TableOK'
BY DEF TableOK

\* ... as the statements on one row do, and the clock.
LEMMA RowType ==
    ASSUME TableOK,
           \/ \E x \in Executors, e \in Exprs : CreateJob(x, e)
           \/ \E j \in Jobs : \/ \E e \in Exprs : UpdateJob(j, e) \/ UpdateExprByID(j, e)
                              \/ StopJob(j) \/ RestartJob(j) \/ DeleteJob(j)
                              \/ Elapse(j) \/ Expire(j)
    PROVE  TableOK'
<1>1. ASSUME NEW x \in Executors, NEW e \in Exprs, CreateJob(x, e)
      PROVE  TableOK'
  <2>1. PICK j \in Jobs, d \in BOOLEAN, sp \in BOOLEAN :
           job' = [job EXCEPT ![j] = [status |-> "READY", executor |-> x, expr |-> e,
                                      due |-> d, late |-> FALSE, spent |-> sp]]
    BY <1>1 DEF CreateJob
  <2>2. QED
    BY <2>1 DEF TableOK, Row, Status
<1>2. ASSUME NEW j \in Jobs, NEW e \in Exprs, UpdateJob(j, e)
      PROVE  TableOK'
  <2>1. PICK d, l \in BOOLEAN :
           /\ l => job[j].status = "PENDING"
           /\ job' = [job EXCEPT ![j].expr = e, ![j].due = d, ![j].late = l]
    BY <1>2 DEF UpdateJob
  <2>2. job'[j] = [job[j] EXCEPT !.expr = e, !.due = d, !.late = l]
    BY <2>1 DEF TableOK
  <2>3. job'[j] \in Row
    <3>1. job[j] \in Row
      BY DEF TableOK
    <3>2. [job[j] EXCEPT !.expr = e, !.due = d, !.late = l] \in Row
      BY <3>1 DEF Row
    <3>3. QED
      BY <2>2, <3>2
  <2>4. QED
    BY <2>1, <2>2, <2>3 DEF TableOK, Row
<1>3. ASSUME NEW j \in Jobs, NEW e \in Exprs, UpdateExprByID(j, e)
      PROVE  TableOK'
  BY <1>3 DEF UpdateExprByID, TableOK, Row
<1>4. ASSUME NEW j \in Jobs, StopJob(j)
      PROVE  TableOK'
  BY <1>4 DEF StopJob, TableOK, Row, Status
<1>5. ASSUME NEW j \in Jobs, RestartJob(j)
      PROVE  TableOK'
  BY <1>5 DEF RestartJob, TableOK, Row, Status
<1>6. ASSUME NEW j \in Jobs, DeleteJob(j)
      PROVE  TableOK'
  BY <1>6 DEF DeleteJob, Absent, NoRow, TableOK, Row, Status, Terminal
<1>7. ASSUME NEW j \in Jobs, Elapse(j)
      PROVE  TableOK'
  BY <1>7 DEF Elapse, TableOK, Row
<1>8. ASSUME NEW j \in Jobs, Expire(j)
      PROVE  TableOK'
  <2> DEFINE r == [job[j] EXCEPT !.late = TRUE]
  <2>1. job' = [job EXCEPT ![j] = r] /\ job[j].status = "PENDING"
    BY <1>8 DEF Expire, TableOK
  <2>2. job[j] \in Row /\ (job[j].status \in Status => job[j].expr \in Exprs)
    BY DEF TableOK
  <2>3. r \in Row /\ r.status = job[j].status /\ r.expr = job[j].expr
    BY <2>2 DEF Row
  <2>4. QED
    BY <2>1, <2>2, <2>3, OneRow
<1>9. QED
  BY <1>1, <1>2, <1>3, <1>4, <1>5, <1>6, <1>7, <1>8

\* It keeps it under the statements of a poll and of a reset.
LEMMA MarkPendingType ==
    ASSUME TableOK, NEW J \in SUBSET Jobs, MarkPending(J), \A j \in J : Exists(j)
    PROVE  TableOK'
BY DEF TableOK, MarkPending, Exists, Row, Status

LEMMA ResetType ==
    ASSUME TableOK, NEW x, ResetTimeoutJobs(x)
    PROVE  TableOK'
<1>1. \A j \in LateRows(x) : j \in Jobs /\ job[j].status = "PENDING"
  BY DEF LateRows
<1>2. \A j \in Jobs : [job[j] EXCEPT !.status = "READY", !.late = FALSE] \in Row
  BY DEF TableOK, Row, Status
<1>3. \A j \in Jobs : job'[j] = IF j \in LateRows(x)
                               THEN [job[j] EXCEPT !.status = "READY", !.late = FALSE]
                               ELSE job[j]
  BY DEF ResetTimeoutJobs
<1>4. job' \in [Jobs -> Row]
  BY <1>2 DEF TableOK, ResetTimeoutJobs
<1>5. ASSUME NEW j \in Jobs
      PROVE  /\ job'[j].late => job'[j].status = "PENDING"
             /\ job'[j].status \in Status => job'[j].expr \in Exprs
  <2>1. job[j] \in Row
    BY DEF TableOK
  <2>2. CASE j \in LateRows(x)
    BY <2>1, <2>2, <1>1, <1>3 DEF TableOK, Row, Status
  <2>3. CASE j \notin LateRows(x)
    BY <2>3, <1>3 DEF TableOK
  <2>4. QED
    BY <2>2, <2>3
<1>6. QED
  BY <1>4, <1>5 DEF TableOK

LEMMA InitType == Init => TypeOK
<1>1. Absent("UNUSED") \in Row /\ ~Absent("UNUSED").late
      /\ Absent("UNUSED").status \notin Status
  BY DEF Absent, Row, NoRow, Status, Terminal
<1>2. QED
  BY <1>1, QronClientAssumption DEF Init, TableInit, TypeOK, TableOK

\* The type is preserved by every step of a session, a handler, a user and the
\* clock.  That a poll commits rows that exist follows from Exclusive: no
\* statement gets past the lock of an open poll.
LEMMA StepType == TypeOK /\ ExclusiveDelivery /\ [Next]_vars => TypeOK'
<1> SUFFICES ASSUME TypeOK, ExclusiveDelivery, [Next]_vars
             PROVE  TypeOK'
  OBVIOUS
<1> USE QronClientAssumption
<1> DEFINE ClaimsOK == claim' \in [Claims -> Claim \cup {Free}]
<1>1. ASSUME NEW s \in Sessions, Fetch(s) \/ Cancel(s) \/ Leave(s) \/ FlushStart(s)
      PROVE  TypeOK'
  BY <1>1 DEF TypeOK, TableOK, Fetch, Cancel, Leave, FlushStart
<1>2. ASSUME NEW s \in Sessions, PollBegin(s)
      PROVE  TypeOK'
  <2> DEFINE J == FirstOf(DueRows(ExecutorOf[s], Locked), MaxInFlight)
  <2>1. \A j \in J : job[j].expr \in Exprs
    BY DEF FirstOf, DueRows, TypeOK, TableOK, Status
  <2>2. ClaimsOK
    BY <1>2, <2>1 DEF PollBegin, TypeOK, Claim
  <2>3. QED
    BY <1>2, <2>2 DEF PollBegin, TypeOK, TableOK
<1>3. ASSUME NEW s \in Sessions, PollCommit(s) \/ PollCommitLost(s)
      PROVE  TypeOK'
  <2>1. /\ At("locked", s) \subseteq Claims
        /\ \A c \in At("locked", s) : claim[c].stage # "free"
    BY AtType
  <2>2. TableOK'
    <3>1. JobsOf(At("locked", s)) \subseteq Jobs
      BY <2>1, JobsOfType
    <3>2. \A j \in JobsOf(At("locked", s)) : Exists(j)
      BY <2>1, <3>1, LockedReady DEF Exists, Status
    <3>3. QED
      BY <1>3, <3>1, <3>2, MarkPendingType DEF PollCommit, PollCommitLost, TypeOK
  <2>3. ClaimsOK
    BY <1>3, <2>1, MoveType, ReleaseType DEF PollCommit, PollCommitLost
  <2>4. QED
    BY <1>3, <2>2, <2>3 DEF PollCommit, PollCommitLost, Fault, TypeOK
<1>4. ASSUME NEW s \in Sessions, PollAbort(s)
      PROVE  TypeOK'
  BY <1>4, ReleaseType DEF PollAbort, Fault, TypeOK, TableOK
<1>5. ASSUME NEW s \in Sessions, Deliver(s)
      PROVE  TypeOK'
  <2>1. PICK c \in At("fetched", s) : Move({c}, "running")
    BY <1>5 DEF Deliver
  <2>2. c \in Claims /\ claim[c].stage # "free"
    BY <2>1, AtType
  <2>3. ClaimsOK
    <3>1. {c} \in SUBSET Claims /\ "running" \in Stages
      BY <2>2
    <3>2. \A d \in {c} : claim[d].stage # "free"
      BY <2>2
    <3>3. QED
      BY <2>1, <3>1, <3>2, MoveType
  <2>4. UNCHANGED <<job, ctx, flusher, reading, faults>>
    BY <1>5 DEF Deliver
  <2>5. QED
    BY <2>3, <2>4 DEF TypeOK, TableOK
<1>6. ASSUME NEW s \in Sessions, FlushCommit(s) \/ FlushFail(s) \/ FlushRetry(s)
      PROVE  TypeOK'
  <2>1. PICK kind \in Batches :
           /\ EmptyBatch(kind, s)
           /\ Write(kind, s) \/ (Release(At(kind, s)) /\ UNCHANGED job)
           /\ UNCHANGED faults
    BY <1>6, FlushIsBatch
  <2>2. TableOK' /\ ClaimsOK
    BY <2>1, WriteEffect, ReleaseType, ReleaseStaleType DEF TypeOK, TableOK
  <2>3. QED
    BY <2>1, <2>2 DEF EmptyBatch, TypeOK
<1>7. ASSUME NEW s \in Sessions, FlushError(s)
      PROVE  TypeOK'
  BY <1>7, ReleaseType DEF FlushError, EmptyBatch, Fault, TypeOK, TableOK
<1>8. ASSUME NEW s \in Sessions, Reset(s)
      PROVE  TypeOK'
  BY <1>8, ResetType, ReleaseStaleType DEF Reset, TypeOK
<1>9. ASSUME NEW c \in Claims, Abandon(c)
      PROVE  TypeOK'
  BY <1>9, ReleaseType DEF Abandon, Fault, TypeOK, TableOK
<1>10. ASSUME NEW c \in Claims, NEW s \in Sessions, Answer(c, s)
       PROVE  TypeOK'
  <2>1. PICK kind \in Answers, e \in {claim[c].expr} \cup HandlerExprs, b \in BadAnswers :
           claim' = [claim EXCEPT ![c] = [@ EXCEPT !.stage = BatchFor(kind, e),
                                                   !.at = s, !.expr = e, !.bad = b]]
    BY <1>10 DEF Answer
  <2>2. claim[c] \in Claim
    BY <1>10, BusyClaim DEF Answer
  <2>3. BatchFor(kind, e) \in Stages /\ e \in Exprs /\ b \in BOOLEAN
    BY <2>1, <2>2 DEF BatchFor, AllAnswers, Claim
  <2>4. [claim[c] EXCEPT !.stage = BatchFor(kind, e), !.at = s, !.expr = e, !.bad = b]
          \in Claim
    BY <2>2, <2>3 DEF Claim
  <2>5. ClaimsOK
    BY <2>1, <2>4 DEF TypeOK
  <2>6. QED
    BY <1>10, <2>5 DEF Answer, TypeOK, TableOK
<1>11. ASSUME NEW k \in Clients, Crash(k)
       PROVE  TypeOK'
  <2>1. ClaimsOK
    BY <1>11, ReleaseType DEF Crash
  <2>2. /\ ctx' \in [Sessions -> {"idle", "live", "done"}]
        /\ flusher' \in [Sessions -> {"collect", "flush"}]
        /\ reading' \in [Sessions -> BOOLEAN]
    BY <1>11 DEF Crash, TypeOK
  <2>3. faults' \in 0..MaxFaults
    BY <1>11 DEF Crash, Fault, TypeOK
  <2>4. TableOK'
    BY <1>11 DEF Crash, TypeOK, TableOK
  <2>5. QED
    BY <2>1, <2>2, <2>3, <2>4 DEF TypeOK
<1>12. ASSUME NEW x \in Executors, NEW e \in Exprs, Create(x, e)
       PROVE  TypeOK'
  BY <1>12, RowType DEF Create, TypeOK
<1>13. ASSUME NEW j \in Jobs, Mutate(j) \/ Tick(j)
       PROVE  TypeOK'
  BY <1>13, RowType DEF Mutate, Tick, TypeOK
<1>14. CASE UNCHANGED vars
  BY <1>14 DEF vars, TypeOK, TableOK
<1>15. QED
  BY <1>1, <1>2, <1>3, <1>4, <1>5, <1>6, <1>7, <1>8, <1>9, <1>10, <1>11, <1>12,
     <1>13, <1>14 DEF Next, Poller, Flusher

-----------------------------------------------------------------------------
(* Exclusive delivery.                                                      *)

\* What most steps do to a claim: it may end, or move on from one stage after
\* the poll to another, or become stale.
Weaker(c) ==
    /\ Current(c)' => Current(c)
    /\ (claim'[c].stage = "locked") => Current(c)' /\ claim[c].stage = "locked"
    /\ Current(c)' /\ claim'[c].stage # "locked" => claim[c].stage # "locked"

\* Such steps keep a job exclusive if its row keeps its status, or is not
\* locked and leaves PENDING for nothing but DELETED.
LEMMA KeepJob ==
    ASSUME NEW j \in Jobs, Exclusive(j), \A c \in {j} \X Slots : Weaker(c),
           \/ job'[j].status = job[j].status
           \/ /\ \A c \in {j} \X Slots : claim[c].stage # "locked"
              /\ job[j].status \in {"PENDING", "DELETED"}
                    => job'[j].status \in {"PENDING", "DELETED"}
    PROVE  Exclusive(j)'
BY DEF Exclusive, Weaker

\* A job is exclusive when none of its claims is current.
LEMMA ForgetJob ==
    ASSUME NEW j \in Jobs,
           \A c \in {j} \X Slots : ~Current(c)' /\ claim'[c].stage # "locked"
    PROVE  Exclusive(j)'
BY DEF Exclusive

\* Claims that stay, that end and that move on are no stronger afterwards.
LEMMA SameWeaker ==
    ASSUME ExclusiveDelivery, NEW c \in Claims, claim'[c] = claim[c]
    PROVE  Weaker(c)
<1>1. claim[c].stage = "locked" => Current(c)
  BY DEF ExclusiveDelivery, Exclusive
<1>2. Current(c)' <=> Current(c)
  BY DEF Current
<1>3. QED
  BY <1>1, <1>2 DEF Weaker

LEMMA FreeWeaker ==
    ASSUME NEW c \in Claims, claim'[c] = Free
    PROVE  Weaker(c) /\ ~Current(c)' /\ claim'[c].stage # "locked"
BY DEF Weaker, Current, Free

LEMMA ReleaseWeaker ==
    ASSUME ExclusiveDelivery, NEW C, Release(C)
    PROVE  \A c \in Claims : Weaker(c)
BY SameWeaker, FreeWeaker DEF Release

LEMMA MoveWeaker ==
    ASSUME ExclusiveDelivery, TypeOK, NEW stage \in Stages \ {"locked"},
           NEW c \in Claims, claim[c].stage \notin {"free", "locked"},
           claim'[c].stage = stage, claim'[c].stale = claim[c].stale
    PROVE  Weaker(c)
BY DEF Weaker, Current

\* The claims of the jobs that a step forgets end or become stale; those of
\* the others end or stay as they are.
LEMMA ReleaseStaleExclusive ==
    ASSUME ExclusiveDelivery, NEW C \in SUBSET Claims, NEW J \in SUBSET Jobs,
           ReleaseStale(C, J), J \cap Locked = {},
           \A j \in Jobs \ J : job'[j].status = job[j].status
    PROVE  ExclusiveDelivery'
<1>1. SUFFICES ASSUME NEW j \in Jobs PROVE Exclusive(j)'
  BY DEF ExclusiveDelivery
<1>2. CASE j \in J
  <2>1. ASSUME NEW c \in {j} \X Slots
        PROVE  ~Current(c)' /\ claim'[c].stage # "locked"
    <3>1. c \in Claims /\ c[1] = j
      OBVIOUS
    <3>2. claim[c].stage # "locked"
      BY <3>1, <1>2 DEF Locked, JobsOf
    <3>3. CASE c \in C
      BY <3>1, <3>3, FreeWeaker DEF ReleaseStale
    <3>4. CASE c \notin C /\ claim[c].stage = "free"
      BY <3>1, <3>4 DEF ReleaseStale, Current
    <3>5. CASE c \notin C /\ claim[c].stage # "free"
      <4>1. claim'[c] = [claim[c] EXCEPT !.stale = TRUE]
        BY <3>1, <3>5, <1>2 DEF ReleaseStale
      <4>2. QED
        BY <4>1, <3>2 DEF Current
    <3>6. QED
      BY <3>3, <3>4, <3>5
  <2>2. QED
    BY <2>1, ForgetJob
<1>3. CASE j \notin J
  <2>1. ASSUME NEW c \in {j} \X Slots
        PROVE  Weaker(c)
    <3>1. c \in Claims /\ c[1] \notin J
      BY <1>3
    <3>2. claim'[c] = Free \/ claim'[c] = claim[c]
      BY <3>1 DEF ReleaseStale
    <3>3. QED
      BY <3>1, <3>2, SameWeaker, FreeWeaker
  <2>2. QED
    BY <2>1, <1>3, KeepJob DEF ExclusiveDelivery
<1>4. QED
  BY <1>2, <1>3

\* A poll gives each of its jobs, which had no current claim, one.
LEMMA PollBeginExclusive ==
    ASSUME TypeOK, ExclusiveDelivery, NEW s \in Sessions, PollBegin(s)
    PROVE  ExclusiveDelivery'
<1> DEFINE J == FirstOf(DueRows(ExecutorOf[s], Locked), MaxInFlight)
           First(c) == /\ FreeSlot(c[1], c[2])
                       /\ \A m \in Slots : m < c[2] => ~FreeSlot(c[1], m)
           new(j) == [stage |-> "locked", at |-> s, expr |-> job[j].expr,
                      bad |-> FALSE, stale |-> FALSE]
<1>1. /\ \A c \in Claims : claim'[c] = IF c[1] \in J /\ First(c) THEN new(c[1]) ELSE claim[c]
      /\ UNCHANGED job
  BY DEF PollBegin
<1>2. SUFFICES ASSUME NEW j \in Jobs PROVE Exclusive(j)'
  BY DEF ExclusiveDelivery
<1> HIDE DEF J
<1>3. CASE j \notin J
  <2>1. \A c \in {j} \X Slots : c \in Claims /\ claim'[c] = claim[c]
    BY <1>1, <1>3
  <2>2. QED
    BY <2>1, <1>1, SameWeaker, KeepJob DEF ExclusiveDelivery
<1>4. CASE j \in J
  <2>1. job[j].status = "READY" /\ j \notin Locked
    BY <1>4 DEF J, FirstOf, DueRows
  <2>2. \A c \in {j} \X Slots : claim[c].stage # "locked"
    BY <2>1 DEF Locked, JobsOf
  <2>3. \A c \in {j} \X Slots : ~Current(c)
    BY <2>1, <2>2 DEF ExclusiveDelivery, Exclusive
  <2>4. \A c \in {j} \X Slots : First(c) => claim'[c] = new(j)
    BY <1>1, <1>4
  <2>5. \A c \in {j} \X Slots : ~First(c) => claim'[c] = claim[c]
    BY <1>1
  <2>6. \A c \in {j} \X Slots :
           /\ Current(c)' <=> First(c)
           /\ claim'[c].stage = "locked" <=> First(c)
    BY <2>2, <2>3, <2>4, <2>5 DEF Current
  <2>7. \A c, d \in {j} \X Slots : First(c) /\ First(d) => c = d
    <3>1. SUFFICES ASSUME NEW c \in {j} \X Slots, NEW d \in {j} \X Slots,
                          First(c), First(d)
                   PROVE  c = d
      OBVIOUS
    <3>2. c = <<j, c[2]>> /\ d = <<j, d[2]>> /\ c[2] \in Slots /\ d[2] \in Slots
      OBVIOUS
    <3>3. c[1] = j /\ d[1] = j
      OBVIOUS
    <3>4. ~(c[2] < d[2]) /\ ~(d[2] < c[2])
      BY <3>1, <3>2, <3>3
    <3>5. c[2] \in Nat /\ d[2] \in Nat
      BY <3>2, QronClientAssumption
    <3>6. c[2] = d[2]
      BY <3>4, <3>5
    <3>7. QED
      BY <3>2, <3>6
  <2>8. job'[j].status = "READY"
    BY <1>1, <2>1
  <2>9. QED
    BY <2>6, <2>7, <2>8 DEF Exclusive
<1>5. QED
  BY <1>3, <1>4

\* A poll that commits turns the claim of each of its rows from locked into one
\* that goes with PENDING, or loses it.
LEMMA PollCommitExclusive ==
    ASSUME TypeOK, ExclusiveDelivery, NEW s \in Sessions,
           PollCommit(s) \/ PollCommitLost(s)
    PROVE  ExclusiveDelivery'
<1> DEFINE L == At("locked", s)
<1>1. SUFFICES ASSUME NEW j \in Jobs PROVE Exclusive(j)'
  BY DEF ExclusiveDelivery
<1>2. MarkPending(JobsOf(L)) /\ (Move(L, "fetched") \/ Release(L))
  <2>1. CASE PollCommit(s)
    BY <2>1 DEF PollCommit
  <2>2. CASE PollCommitLost(s)
    BY <2>2 DEF PollCommitLost
  <2>3. QED
    BY <2>1, <2>2
<1>3. job'[j].status = IF j \in JobsOf(L) THEN "PENDING" ELSE job[j].status
  BY <1>2 DEF MarkPending, TypeOK, TableOK, Row
<1>4. \A c \in {j} \X Slots : c \in Claims /\ c \notin L => claim'[c] = claim[c]
  BY <1>2 DEF Move, Release
<1>5. CASE j \notin JobsOf(L)
  <2>1. \A c \in {j} \X Slots : c \in Claims /\ c \notin L
    BY <1>5 DEF JobsOf
  <2>2. QED
    BY <2>1, <1>3, <1>4, <1>5, SameWeaker, KeepJob DEF ExclusiveDelivery
<1>6. CASE j \in JobsOf(L)
  <2>1. PICK c0 \in {j} \X Slots : c0 \in L
    <3>1. PICK c0 \in L : c0[1] = j
      BY <1>6 DEF JobsOf
    <3>2. QED
      BY <3>1, AtType
  <2>2. claim[c0].stage = "locked" /\ c0 \in Claims
    BY <2>1, AtType
  <2>3. \A c \in {j} \X Slots : c # c0 => ~Current(c) /\ claim[c].stage # "locked"
    BY <2>2 DEF ExclusiveDelivery, Exclusive
  <2>4. \A c \in {j} \X Slots : c # c0 => ~Current(c)' /\ claim'[c].stage # "locked"
    <3>1. SUFFICES ASSUME NEW c \in {j} \X Slots, c # c0
                   PROVE  ~Current(c)' /\ claim'[c].stage # "locked"
      OBVIOUS
    <3>2. c \notin L
      BY <2>3, <3>1, AtType
    <3>3. claim'[c] = claim[c]
      BY <3>2, <1>4
    <3>4. QED
      BY <3>1, <3>3, <2>3 DEF Current
  <2>5. claim'[c0].stage # "locked"
    <3>1. CASE Release(L)
      BY <3>1, <2>1, <2>2 DEF Release, Free
    <3>2. CASE Move(L, "fetched")
      <4>1. claim[c0] \in Claim
        BY <2>2, BusyClaim
      <4>2. claim'[c0] = [claim[c0] EXCEPT !.stage = "fetched"]
        BY <3>2, <2>1, <2>2 DEF Move
      <4>3. QED
        BY <4>1, <4>2 DEF Claim
    <3>3. QED
      BY <1>2, <3>1, <3>2
  <2>6. job'[j].status = "PENDING"
    BY <1>3, <1>6
  <2>7. QED
    BY <2>4, <2>5, <2>6 DEF Exclusive
<1>7. QED
  BY <1>5, <1>6

\* Every step keeps every job exclusive.
LEMMA StepExclusive == TypeOK /\ ExclusiveDelivery /\ [Next]_vars => ExclusiveDelivery'
<1> SUFFICES ASSUME TypeOK, ExclusiveDelivery, [Next]_vars
             PROVE  ExclusiveDelivery'
  OBVIOUS
<1> DEFINE Kept == UNCHANGED job /\ \A c \in Claims : Weaker(c)
\* Steps that leave the table alone and make no claim.
<1>1. ASSUME Kept PROVE ExclusiveDelivery'
  <2>1. SUFFICES ASSUME NEW j \in Jobs PROVE Exclusive(j)'
    BY DEF ExclusiveDelivery
  <2>2. \A c \in {j} \X Slots : Weaker(c)
    BY <1>1
  <2>3. QED
    BY <2>2, <1>1, KeepJob DEF ExclusiveDelivery
\* Steps that leave the claims alone.
<1>2. ASSUME UNCHANGED claim, NEW i \in Jobs,
             \A j \in Jobs \ {i} : job'[j].status = job[j].status,
             \/ job'[i].status = job[i].status
             \/ i \notin Locked /\ (job[i].status \in {"PENDING", "DELETED"}
                                    => job'[i].status \in {"PENDING", "DELETED"})
      PROVE  ExclusiveDelivery'
  <2>1. SUFFICES ASSUME NEW j \in Jobs PROVE Exclusive(j)'
    BY DEF ExclusiveDelivery
  <2>2. \A c \in {j} \X Slots : Weaker(c)
    BY <1>2, SameWeaker
  <2>3. i \notin Locked => \A c \in {i} \X Slots : claim[c].stage # "locked"
    BY DEF Locked, JobsOf
  <2>4. QED
    BY <2>2, <2>3, <1>2, KeepJob DEF ExclusiveDelivery
<1>3. ASSUME NEW s \in Sessions, Fetch(s) \/ Cancel(s) \/ Leave(s) \/ FlushStart(s)
      PROVE  ExclusiveDelivery'
  BY <1>3, <1>1, SameWeaker DEF Fetch, Cancel, Leave, FlushStart
<1>4. ASSUME NEW s \in Sessions, PollBegin(s) \/ PollCommit(s) \/ PollCommitLost(s)
      PROVE  ExclusiveDelivery'
  BY <1>4, PollBeginExclusive, PollCommitExclusive
<1>5. ASSUME NEW s \in Sessions, PollAbort(s) \/ FlushError(s)
      PROVE  ExclusiveDelivery'
  BY <1>5, <1>1, ReleaseWeaker DEF PollAbort, FlushError
<1>6. ASSUME NEW s \in Sessions, Deliver(s)
      PROVE  ExclusiveDelivery'
  <2>1. PICK d \in At("fetched", s) : Move({d}, "running") /\ UNCHANGED job
    BY <1>6 DEF Deliver
  <2>2. d \in Claims /\ claim[d].stage = "fetched"
    BY <2>1, AtType
  <2>3. claim[d] \in Claim
    BY <2>2, BusyClaim
  <2>4. claim'[d] = [claim[d] EXCEPT !.stage = "running"]
    BY <2>1, <2>2 DEF Move
  <2>5. claim'[d].stage = "running" /\ claim'[d].stale = claim[d].stale
    BY <2>3, <2>4 DEF Claim
  <2>6. Weaker(d)
    BY <2>2, <2>5, MoveWeaker
  <2>7. \A c \in Claims \ {d} : Weaker(c)
    BY <2>1, SameWeaker DEF Move
  <2>8. QED
    BY <2>1, <2>6, <2>7, <1>1
<1>7. ASSUME NEW s \in Sessions, FlushCommit(s) \/ FlushFail(s) \/ FlushRetry(s)
      PROVE  ExclusiveDelivery'
  <2>1. PICK kind \in Batches :
           Write(kind, s) \/ (Release(At(kind, s)) /\ UNCHANGED job)
    BY <1>7, FlushIsBatch
  <2>2. CASE Write(kind, s)
    <3>1. PICK J \in SUBSET Jobs :
             /\ J \cap Locked = {}
             /\ \A j \in Jobs \ J : job'[j] = job[j]
             /\ ReleaseStale(At(kind, s), J)
      BY <2>2, WriteEffect
    <3>2. QED
      BY <3>1, AtType, ReleaseStaleExclusive
  <2>3. CASE Release(At(kind, s)) /\ UNCHANGED job
    BY <2>3, <1>1, ReleaseWeaker
  <2>4. QED
    BY <2>1, <2>2, <2>3
<1>8. ASSUME NEW s \in Sessions, Reset(s)
      PROVE  ExclusiveDelivery'
  <2> DEFINE J == LateRows(ExecutorOf[s])
  <2>1. J \subseteq Jobs /\ \A j \in J : job[j].status = "PENDING"
    BY DEF LateRows
  <2>2. J \cap Locked = {}
    <3>1. ASSUME NEW j \in J, j \in Locked PROVE FALSE
      <4>1. PICK c \in Claims : claim[c].stage = "locked" /\ c[1] = j
        BY <3>1 DEF Locked, JobsOf
      <4>2. c \in {j} \X Slots
        BY <4>1
      <4>3. QED
        BY <4>1, <4>2, <2>1, <3>1 DEF ExclusiveDelivery, Exclusive
    <3>2. QED
      BY <3>1
  <2>3. \A j \in Jobs \ J : job'[j].status = job[j].status
    BY <1>8 DEF Reset, ResetTimeoutJobs
  <2>4. ReleaseStale({}, J)
    BY <1>8 DEF Reset
  <2>5. QED
    BY <2>1, <2>2, <2>3, <2>4, ReleaseStaleExclusive
<1>9. ASSUME NEW c \in Claims, Abandon(c)
      PROVE  ExclusiveDelivery'
  BY <1>9, <1>1, ReleaseWeaker DEF Abandon
<1>10. ASSUME NEW d \in Claims, NEW s \in Sessions, Answer(d, s)
       PROVE  ExclusiveDelivery'
  <2>1. PICK kind \in Answers, e \in {claim[d].expr} \cup HandlerExprs, b \in BadAnswers :
           claim' = [claim EXCEPT ![d] = [@ EXCEPT !.stage = BatchFor(kind, e),
                                                   !.at = s, !.expr = e, !.bad = b]]
    BY <1>10 DEF Answer
  <2>2. claim[d] \in Claim /\ claim[d].stage = "running"
    BY <1>10, BusyClaim DEF Answer
  <2>3. BatchFor(kind, e) \in Stages \ {"locked"}
    BY QronClientAssumption DEF BatchFor, AllAnswers
  <2>4. claim'[d] = [claim[d] EXCEPT !.stage = BatchFor(kind, e),
                                     !.at = s, !.expr = e, !.bad = b]
    BY <2>1 DEF TypeOK
  <2>5. claim'[d].stage = BatchFor(kind, e) /\ claim'[d].stale = claim[d].stale
    BY <2>2, <2>4 DEF Claim
  <2>6. Weaker(d)
    BY <2>2, <2>3, <2>5, MoveWeaker
  <2>7. \A c \in Claims \ {d} : Weaker(c)
    BY <2>1, SameWeaker DEF TypeOK
  <2>8. QED
    BY <1>10, <2>6, <2>7, <1>1 DEF Answer
<1>11. ASSUME NEW k \in Clients, Crash(k)
       PROVE  ExclusiveDelivery'
  BY <1>11, <1>1, ReleaseWeaker DEF Crash
<1>12. ASSUME NEW x \in Executors, NEW e \in Exprs, Create(x, e)
       PROVE  ExclusiveDelivery'
  <2>1. PICK i \in Jobs : /\ job[i].status = "UNUSED"
                          /\ \A j \in Jobs \ {i} : job'[j] = job[j]
    BY <1>12 DEF Create, CreateJob, TypeOK, TableOK
  <2>2. i \notin Locked
    <3>1. ASSUME i \in Locked PROVE FALSE
      <4>1. PICK c \in Claims : claim[c].stage = "locked" /\ c[1] = i
        BY <3>1 DEF Locked, JobsOf
      <4>2. c \in {i} \X Slots
        BY <4>1
      <4>3. QED
        BY <4>1, <4>2, <2>1 DEF ExclusiveDelivery, Exclusive
    <3>2. QED
      BY <3>1
  <2>3. QED
    BY <1>12, <2>1, <2>2, <1>2 DEF Create
<1>13. ASSUME NEW i \in Jobs, Mutate(i)
       PROVE  ExclusiveDelivery'
  <2>1. i \notin Locked /\ UNCHANGED claim
    BY <1>13 DEF Mutate
  <2>2. \A j \in Jobs \ {i} : job'[j] = job[j]
    BY <1>13 DEF Mutate, UpdateJob, UpdateExprByID, StopJob, RestartJob, DeleteJob,
                 TypeOK, TableOK
  <2>3. job[i].status \in {"PENDING", "DELETED"} => job'[i].status \in {"PENDING", "DELETED"}
    <3>1. job[i] \in Row
      BY DEF TypeOK, TableOK
    <3>2. ASSUME NEW e \in Exprs, UpdateJob(i, e)
          PROVE  job'[i].status = job[i].status
      <4>1. PICK d, l \in BOOLEAN : job' = [job EXCEPT ![i].expr = e, ![i].due = d, ![i].late = l]
        BY <3>2 DEF UpdateJob
      <4>2. job'[i] = [job[i] EXCEPT !.expr = e, !.due = d, !.late = l]
        BY <4>1 DEF TypeOK, TableOK
      <4>3. QED
        BY <3>1, <4>2 DEF Row
    <3>3. ASSUME NEW e \in Exprs, UpdateExprByID(i, e)
          PROVE  job'[i].status = job[i].status
      BY <3>1, <3>3 DEF UpdateExprByID, TypeOK, TableOK, Row
    <3>4. CASE StopJob(i) \/ RestartJob(i) \/ DeleteJob(i)
      BY <3>1, <3>4 DEF StopJob, RestartJob, DeleteJob, Absent, Status, Terminal,
                        TypeOK, TableOK, Row
    <3>5. QED
      BY <1>13, <3>2, <3>3, <3>4 DEF Mutate
  <2>4. QED
    BY <2>1, <2>2, <2>3, <1>2
<1>14. ASSUME NEW i \in Jobs, Tick(i)
       PROVE  ExclusiveDelivery'
  <2>1. /\ \A j \in Jobs \ {i} : job'[j] = job[j]
        /\ job'[i].status = job[i].status
    BY <1>14 DEF Tick, Elapse, Expire, TypeOK, TableOK, Row
  <2>2. QED
    BY <2>1, <1>14, <1>2 DEF Tick
<1>15. CASE UNCHANGED vars
  BY <1>15, <1>1, SameWeaker DEF vars
<1>16. QED
  BY <1>3, <1>4, <1>5, <1>6, <1>7, <1>8, <1>9, <1>10, <1>11, <1>12, <1>13, <1>14,
     <1>15 DEF Next, Poller, Flusher

LEMMA InitExclusive == Init => ExclusiveDelivery
<1> SUFFICES ASSUME Init PROVE ExclusiveDelivery
  OBVIOUS
<1>1. \A c \in Claims : claim[c].stage = "free"
  BY DEF Init, Free
<1>2. QED
  BY <1>1 DEF ExclusiveDelivery, Exclusive, Current

-----------------------------------------------------------------------------
\* Each of the two invariants needs the other: the rows that a poll commits
\* exist because they are locked, and a claim is typed because it is busy.
IInv == TypeOK /\ ExclusiveDelivery

THEOREM Inductive == Spec => []IInv
<1>1. Init => IInv
  BY InitType, InitExclusive DEF IInv
<1>2. IInv /\ [Next]_vars => IInv'
  BY StepType, StepExclusive DEF IInv
<1>3. QED
  BY <1>1, <1>2, PTL DEF Spec

\* Every reachable state of the table, the claims and the sessions is well
\* typed; no lease outlives PENDING and every row has a schedule.
THEOREM TypeCorrect == Spec => []TypeOK
<1>1. IInv => TypeOK
  BY DEF IInv
<1>2. QED
  BY <1>1, Inductive, PTL

\* A job is with one handler at a time, for any number of pollers, flushers and
\* resetters, under restarts, deletions, late answers and crashes.
THEOREM Exclusivity == Spec => []ExclusiveDelivery
<1>1. IInv => ExclusiveDelivery
  BY DEF IInv
<1>2. QED
  BY <1>1, Inductive, PTL

-----------------------------------------------------------------------------
(* Jobs at rest.                                                            *)

\* A batch that rewrites a resting job holds a claim of it that is not current.
LEMMA WriteRouses ==
    ASSUME TypeOK, ExclusiveDelivery, NEW kind \in Batches, NEW s \in Sessions,
           Write(kind, s), NEW j \in Jobs, Resting(j), job'[j].status # job[j].status
    PROVE  Roused(j)
<1>1. j \in JobsOf(At(kind, s))
  <2>1. PICK J \in SUBSET Jobs : /\ J \subseteq JobsOf(At(kind, s))
                                /\ \A i \in Jobs \ J : job'[i] = job[i]
    BY WriteEffect
  <2>2. QED
    BY <2>1
<1>2. PICK c \in At(kind, s) : c[1] = j
  BY <1>1 DEF JobsOf
<1>3. c \in Claims /\ claim[c].stage = kind /\ c \in {j} \X Slots
  BY <1>2, AtType
<1>4. ~Current(c)
  BY <1>3 DEF ExclusiveDelivery, Exclusive, Resting, Terminal
<1>5. claim[c].stage # "free"
  BY <1>3
<1>6. claim[c].stale
  BY <1>4, <1>5 DEF Current
<1>7. c \in UnderWay(j)
  BY <1>3, <1>5 DEF UnderWay
<1>8. QED
  BY <1>6, <1>7 DEF Roused

LEMMA StepResting ==
    ASSUME TypeOK, ExclusiveDelivery, [Next]_vars,
           NEW j \in Jobs, Resting(j), job'[j].status # job[j].status
    PROVE  Roused(j)
<1>1. ASSUME NEW s \in Sessions, FlushCommit(s) \/ FlushFail(s) \/ FlushRetry(s)
      PROVE  Roused(j)
  <2>1. PICK kind \in Batches :
           Write(kind, s) \/ (Release(At(kind, s)) /\ UNCHANGED job)
    BY <1>1, FlushIsBatch
  <2>2. QED
    BY <2>1, WriteRouses
\* The poller and the resetter change the status of READY and PENDING rows.
<1>2. ASSUME NEW s \in Sessions, PollCommit(s) \/ PollCommitLost(s)
      PROVE  FALSE
  <2>1. j \notin JobsOf(At("locked", s))
    BY LockedReady DEF Resting, Terminal
  <2>2. job'[j] = job[j]
    BY <1>2, <2>1 DEF PollCommit, PollCommitLost, MarkPending
  <2>3. QED
    BY <2>2
<1>3. ASSUME NEW s \in Sessions, Reset(s)
      PROVE  FALSE
  BY <1>3 DEF Reset, ResetTimeoutJobs, LateRows, Resting, Terminal
<1>4. ASSUME NEW x \in Executors, NEW e \in Exprs, Create(x, e)
      PROVE  FALSE
  <2>1. PICK i \in Jobs : /\ job[i].status = "UNUSED"
                          /\ \A k \in Jobs \ {i} : job'[k] = job[k]
    BY <1>4 DEF Create, CreateJob, TypeOK, TableOK
  <2>2. QED
    BY <2>1 DEF Resting, Terminal
<1>5. ASSUME NEW i \in Jobs, Mutate(i)
      PROVE  Roused(j)
  <2>1. \A k \in Jobs \ {i} : job'[k] = job[k]
    BY <1>5 DEF Mutate, UpdateJob, UpdateExprByID, StopJob, RestartJob, DeleteJob,
                TypeOK, TableOK
  <2>2. j = i
    BY <2>1
  <2>3. job[j] \in Row
    BY DEF TypeOK, TableOK
  <2>4. ASSUME NEW e \in Exprs, UpdateJob(j, e) PROVE FALSE
    <3>1. PICK d, l \in BOOLEAN : job' = [job EXCEPT ![j].expr = e, ![j].due = d, ![j].late = l]
      BY <2>4 DEF UpdateJob
    <3>2. job'[j] = [job[j] EXCEPT !.expr = e, !.due = d, !.late = l]
      BY <3>1 DEF TypeOK, TableOK
    <3>3. QED
      BY <2>3, <3>2 DEF Row
  <2>5. ASSUME NEW e \in Exprs, UpdateExprByID(j, e) PROVE FALSE
    BY <2>3, <2>5 DEF UpdateExprByID, TypeOK, TableOK, Row
  <2>6. CASE StopJob(j) \/ RestartJob(j) \/ DeleteJob(j)
    BY <2>3, <2>6 DEF StopJob, RestartJob, DeleteJob, Absent, Status, Terminal, Resting,
                      Roused, TypeOK, TableOK, Row
  <2>7. QED
    BY <1>5, <2>2, <2>4, <2>5, <2>6 DEF Mutate
<1>6. ASSUME NEW i \in Jobs, Tick(i)
      PROVE  FALSE
  BY <1>6 DEF Tick, Elapse, Expire, TypeOK, TableOK, Row
<1>7. CASE UNCHANGED job
  BY <1>7
<1>8. QED
  BY <1>1, <1>2, <1>3, <1>4, <1>5, <1>6, <1>7
     DEF Next, Poller, Flusher, Fetch, Cancel, Leave, PollBegin, PollAbort, Deliver,
         FlushStart, FlushError, Abandon, Answer, Crash, vars

\* Whatever the sessions do and whichever faults happen, a paused job or one that
\* has ended is left alone, but by a user or by an execution that lost its lease.
THEOREM RestUndisturbed == Spec => RestingStays
<1>1. IInv /\ [Next]_vars =>
        [\A j \in Jobs : Resting(j) /\ job'[j].status # job[j].status => Roused(j)]_vars
  BY StepResting DEF IInv
<1>2. QED
  BY <1>1, Inductive, PTL DEF Spec, RestingStays

-----------------------------------------------------------------------------
(* What a session keeps in memory.                                          *)

\* What its poller has taken and not handed over.
Loaded(s) == At("locked", s) \cup At("fetched", s)

\* A flusher that waits for answers has room for one.
Bounded(s) ==
    /\ IsFiniteSet(Loaded(s)) /\ Cardinality(Loaded(s)) <= MaxInFlight
    /\ IsFiniteSet(Batched(s)) /\ Cardinality(Batched(s)) <= MaxFlushSize
    /\ flusher[s] = "collect" => Cardinality(Batched(s)) < MaxFlushSize

\* The first rows are no more than the limit: each has a place of its own.
LEMMA FirstFew ==
    ASSUME NEW S \in SUBSET Nat, NEW n \in Nat
    PROVE  IsFiniteSet(FirstOf(S, n)) /\ Cardinality(FirstOf(S, n)) <= n
<1> DEFINE Below(j) == {i \in S : i < j}
           F == FirstOf(S, n)
           place == [j \in F |-> Cardinality(Below(j))]
<1>1. ASSUME NEW j \in S
      PROVE  IsFiniteSet(Below(j)) /\ Cardinality(Below(j)) \in Nat
  <2>1. j \in Nat /\ Below(j) \in SUBSET (0..j)
    <3>1. j \in Nat
      OBVIOUS
    <3>2. ASSUME NEW i \in Below(j) PROVE i \in 0..j
      <4>1. i \in Nat /\ i < j
        BY <3>2
      <4>2. QED
        BY <3>1, <4>1
    <3>3. QED
      BY <3>1, <3>2
  <2>2. IsFiniteSet(0..j)
    BY <2>1, FS_Interval
  <2>3. QED
    BY <2>1, <2>2, FS_Subset, FS_CardinalityType
<1>2. ASSUME NEW i \in S, NEW j \in S, i < j
      PROVE  Cardinality(Below(i)) < Cardinality(Below(j))
  <2>1. i \notin Below(i) /\ (Below(i) \cup {i}) \in SUBSET Below(j)
    <3>1. i \in Nat /\ j \in Nat
      OBVIOUS
    <3>2. i \notin Below(i)
      BY <3>1
    <3>3. ASSUME NEW k \in Below(i) \cup {i} PROVE k \in Below(j)
      <4>1. k \in S /\ k \in Nat /\ (k < i \/ k = i)
        BY <3>1, <3>3
      <4>2. k < j
        BY <1>2, <3>1, <4>1
      <4>3. QED
        BY <4>1, <4>2
    <3>4. QED
      BY <3>2, <3>3
  <2>2. Cardinality(Below(i) \cup {i}) = Cardinality(Below(i)) + 1
    BY <1>1, <2>1, FS_AddElement
  <2>3. Cardinality(Below(i) \cup {i}) <= Cardinality(Below(j))
    BY <1>1, <2>1, FS_Subset
  <2>4. QED
    <3> HIDE DEF Below
    <3>1. QED
      BY <1>1, <2>2, <2>3
<1>3. \A j \in F : j \in S /\ Cardinality(Below(j)) \in 0..(n - 1)
  <2>1. \A j \in F : j \in S /\ Cardinality(Below(j)) < n
    BY DEF FirstOf
  <2> HIDE DEF F, Below
  <2>2. ASSUME NEW j \in F
        PROVE  j \in S /\ Cardinality(Below(j)) \in 0..(n - 1)
    <3>1. j \in S /\ Cardinality(Below(j)) < n /\ Cardinality(Below(j)) \in Nat
      BY <1>1, <2>1, <2>2
    <3>2. QED
      BY <3>1
  <2>3. QED
    BY <2>2
<1>4. place \in Injection(F, 0..(n - 1))
  <2> HIDE DEF F, Below
  <2>1. place \in [F -> 0..(n - 1)]
    BY <1>3
  <2>2. ASSUME NEW i \in F, NEW j \in F, place[i] = place[j]
        PROVE  i = j
    <3>1. i \in Nat /\ j \in Nat /\ Cardinality(Below(i)) = Cardinality(Below(j))
      BY <1>3, <2>2
    <3>2. ~(i < j) /\ ~(j < i)
      BY <1>1, <1>2, <1>3, <3>1
    <3>3. QED
      BY <3>1, <3>2
  <2> HIDE DEF place
  <2>3. QED
    BY <2>1, <2>2 DEF Injection, IsInjective
<1>5. IsFiniteSet(0..(n - 1)) /\ Cardinality(0..(n - 1)) = n
  BY FS_Interval
<1>6. IsFiniteSet(F) /\ Cardinality(F) <= Cardinality(0..(n - 1))
  <2> HIDE DEF F, place
  <2>1. QED
    BY <1>4, <1>5, FS_Injection
<1>7. QED
  BY <1>5, <1>6

\* Less is within the bounds as well.
LEMMA LessBounded ==
    ASSUME NEW s \in Sessions, Bounded(s), Loaded(s)' \subseteq Loaded(s),
           Batched(s)' \subseteq Batched(s),
           flusher'[s] = "collect" => flusher[s] = "collect" \/ Batched(s)' = {}
    PROVE  Bounded(s)'
<1> DEFINE L == Loaded(s)
           B == Batched(s)
<1>1. IsFiniteSet(L') /\ Cardinality(L') <= MaxInFlight
  <2>1. /\ IsFiniteSet(L) /\ IsFiniteSet(L') /\ Cardinality(L') <= Cardinality(L)
        /\ Cardinality(L) <= MaxInFlight
    BY FS_Subset DEF Bounded
  <2>2. Cardinality(L) \in Nat /\ Cardinality(L') \in Nat
    BY <2>1, FS_CardinalityType
  <2> HIDE DEF L
  <2>3. QED
    BY <2>1, <2>2, QronClientAssumption
<1>2. /\ IsFiniteSet(B') /\ Cardinality(B') <= MaxFlushSize
      /\ flusher'[s] = "collect" => Cardinality(B') < MaxFlushSize
  <2>1. /\ IsFiniteSet(B) /\ IsFiniteSet(B') /\ Cardinality(B') <= Cardinality(B)
        /\ Cardinality(B) <= MaxFlushSize
        /\ flusher[s] = "collect" => Cardinality(B) < MaxFlushSize
    BY FS_Subset DEF Bounded
  <2>2. Cardinality(B) \in Nat /\ Cardinality(B') \in Nat
    BY <2>1, FS_CardinalityType
  <2>3. B' = {} => Cardinality(B') = 0
    BY FS_EmptySet
  <2>4. flusher'[s] = "collect" => flusher[s] = "collect" \/ B' = {}
    OBVIOUS
  <2> HIDE DEF B
  <2>5. QED
    BY <2>1, <2>2, <2>3, <2>4, QronClientAssumption
<1>3. QED
  BY <1>1, <1>2 DEF Bounded

\* A claim that nobody takes: it goes on with its session, to a handler, or away.
Onward(c) ==
    \/ claim'[c].stage \in {"free", "running"}
    \/ /\ claim'[c].at = claim[c].at
       /\ \/ claim'[c].stage = claim[c].stage
          \/ claim[c].stage = "locked" /\ claim'[c].stage = "fetched"

LEMMA OnwardLess ==
    ASSUME \A c \in Claims : Onward(c), NEW s
    PROVE  Loaded(s)' \subseteq Loaded(s) /\ Batched(s)' \subseteq Batched(s)
BY DEF Onward, Loaded, Batched, At

\* The flushers that wait after a step waited before it, or have no answers.
Emptied(s) == flusher'[s] = "collect" => flusher[s] = "collect" \/ Batched(s)' = {}

LEMMA ReleaseOnward ==
    ASSUME TypeOK, NEW C, NEW J, Release(C) \/ ReleaseStale(C, J)
    PROVE  /\ \A c \in Claims : Onward(c)
           /\ \A c \in Claims : c \in C => claim'[c].stage = "free"
<1>1. CASE Release(C)
  BY <1>1 DEF Release, Onward, Free
<1>2. CASE ReleaseStale(C, J)
  <2>1. ASSUME NEW c \in Claims
        PROVE  \/ claim'[c] = Free
               \/ c \notin C /\ claim'[c] = claim[c]
               \/ /\ c \notin C /\ claim[c].stage # "free"
                  /\ claim'[c] = [claim[c] EXCEPT !.stale = TRUE]
    BY <1>2 DEF ReleaseStale
  <2>2. ASSUME NEW c \in Claims, claim[c].stage # "free",
               claim'[c] = [claim[c] EXCEPT !.stale = TRUE]
        PROVE  claim'[c].at = claim[c].at /\ claim'[c].stage = claim[c].stage
    BY <2>2, BusyClaim DEF Claim
  <2>3. ASSUME NEW c \in Claims
        PROVE  Onward(c) /\ (c \in C => claim'[c].stage = "free")
    <3>1. CASE claim'[c] = Free \/ (claim'[c] = claim[c] /\ c \notin C)
      BY <3>1 DEF Onward, Free
    <3>2. CASE /\ c \notin C /\ claim[c].stage # "free"
               /\ claim'[c] = [claim[c] EXCEPT !.stale = TRUE]
      BY <2>2, <3>2 DEF Onward
    <3>3. QED
      BY <2>1, <3>1, <3>2
  <2>4. QED
    BY <2>3
<1>3. QED
  BY <1>1, <1>2

LEMMA MoveOnward ==
    ASSUME TypeOK, NEW s, NEW C \in SUBSET Claims, NEW from, NEW to,
           \A c \in C : claim[c].stage = from,
           <<from, to>> \in {<<"locked", "fetched">>, <<"fetched", "running">>},
           Move(C, to)
    PROVE  \A c \in Claims : Onward(c)
<1>1. ASSUME NEW c \in C
      PROVE  claim'[c].stage = to /\ claim'[c].at = claim[c].at
  <2>1. claim[c] \in Claim /\ claim'[c] = [claim[c] EXCEPT !.stage = to]
    BY BusyClaim DEF Move
  <2>2. QED
    BY <2>1 DEF Claim
<1>2. \A c \in Claims \ C : claim'[c] = claim[c]
  BY DEF Move
<1>3. QED
  BY <1>1, <1>2 DEF Onward

\* A flusher that is through with its batches has emptied them.
LEMMA FlushBounded ==
    ASSUME TypeOK, NEW s \in Sessions, NEW kind \in Batches, EmptyBatch(kind, s),
           Write(kind, s) \/ Release(At(kind, s)), NEW t \in Sessions, Bounded(t)
    PROVE  Bounded(t)'
<1>1. /\ \A c \in Claims : Onward(c)
      /\ \A c \in Claims : c \in At(kind, s) => claim'[c].stage = "free"
  <2>1. \E J : Release(At(kind, s)) \/ ReleaseStale(At(kind, s), J)
    BY DEF Write
  <2>2. QED
    BY <2>1, ReleaseOnward
<1>2. Emptied(t)
  <2>1. CASE t = s /\ Batched(s) = At(kind, s)
    <3>1. ASSUME NEW c \in Batched(s)' PROVE FALSE
      <4>1. c \in Claims /\ claim'[c].stage \in Batches /\ c \in Batched(s)
        BY <1>1, <3>1, OnwardLess DEF Batched, At
      <4>2. claim'[c].stage = "free"
        BY <1>1, <2>1, <4>1
      <4>3. QED
        BY <4>1, <4>2
    <3>2. QED
      BY <2>1, <3>1 DEF Emptied
  <2>2. CASE t # s \/ Batched(s) # At(kind, s)
    BY <2>2 DEF EmptyBatch, Emptied, TypeOK
  <2>3. QED
    BY <2>1, <2>2
<1>3. QED
  BY <1>1, <1>2, OnwardLess, LessBounded DEF Emptied

\* What a crash leaves of a session is nothing.
LEMMA CrashBounded ==
    ASSUME TypeOK, NEW k \in Clients, Crash(k), NEW t \in Sessions, Bounded(t)
    PROVE  Bounded(t)'
<1> DEFINE S == {s \in Sessions : ClientOf[s] = k}
           C == {c \in Claims : claim[c].at \in S}
<1>1. /\ Release(C)
      /\ flusher' = [s \in Sessions |-> IF s \in S THEN "collect" ELSE flusher[s]]
  BY DEF Crash
<1>2. /\ \A c \in Claims : Onward(c)
      /\ \A c \in Claims : c \in C => claim'[c].stage = "free"
  BY <1>1, ReleaseOnward
<1>3. ASSUME t \in S, NEW c \in Batched(t)' PROVE FALSE
  <2>1. c \in Claims /\ claim'[c].stage \in Batches /\ c \in Batched(t)
    BY <1>2, <1>3, OnwardLess DEF Batched, At
  <2>2. claim[c].at = t
    BY <2>1 DEF Batched, At
  <2>3. QED
    BY <1>2, <1>3, <2>1, <2>2
<1>4. Emptied(t)
  BY <1>1, <1>3 DEF Emptied
<1>5. QED
  BY <1>2, <1>4, OnwardLess, LessBounded DEF Emptied

\* One poll takes one claim for each of its rows, and there are at most
\* MaxInFlight; its poller has handed over all of the poll before.
LEMMA PollBounded ==
    ASSUME TypeOK, NEW s \in Sessions, PollBegin(s), NEW t \in Sessions, Bounded(t)
    PROVE  Bounded(t)'
<1> DEFINE J == FirstOf(DueRows(ExecutorOf[s], Locked), MaxInFlight)
           First(c) == /\ FreeSlot(c[1], c[2])
                       /\ \A m \in Slots : m < c[2] => ~FreeSlot(c[1], m)
           taken == {c \in Claims : c[1] \in J /\ First(c)}
           new(j) == [stage |-> "locked", at |-> s, expr |-> job[j].expr,
                      bad |-> FALSE, stale |-> FALSE]
<1>1. /\ \A c \in Claims : claim'[c] = IF c \in taken THEN new(c[1]) ELSE claim[c]
      /\ flusher' = flusher /\ Loaded(s) = {}
  BY DEF PollBegin, Idle, Loaded
<1>2. IsFiniteSet(J) /\ Cardinality(J) <= MaxInFlight
  <2>1. DueRows(ExecutorOf[s], Locked) \in SUBSET Nat /\ MaxInFlight \in Nat
    BY JobStoreAssumption, QronClientAssumption DEF DueRows
  <2>2. QED
    BY <2>1, FirstFew
<1> HIDE DEF J
<1>3. \A c \in Claims : \/ claim'[c] = claim[c] /\ c \notin taken
                        \/ c \in taken /\ claim'[c].stage = "locked" /\ claim'[c].at = s
  <2>1. \A j : new(j).stage = "locked" /\ new(j).at = s
    OBVIOUS
  <2> HIDE DEF taken, new
  <2>2. QED
    BY <1>1, <2>1
<1>4. Batched(t)' \subseteq Batched(t)
  <2> HIDE DEF taken
  <2>1. QED
    BY <1>3 DEF Batched, At
<1>5. CASE t # s
  <2>1. Loaded(t)' \subseteq Loaded(t)
    <3> HIDE DEF taken
    <3>1. QED
      BY <1>5, <1>3 DEF Loaded, At
  <2>2. QED
    BY <1>1, <1>4, <2>1, LessBounded
<1>6. CASE t = s
  <2>1. Loaded(s)' \subseteq taken
    BY <1>1 DEF Loaded, At
  <2>2. ASSUME NEW c \in taken, NEW d \in taken, c[1] = d[1]
        PROVE  c = d
    <3>1. /\ c = <<c[1], c[2]>> /\ d = <<d[1], d[2]>> /\ c[2] \in Slots /\ d[2] \in Slots
          /\ First(c) /\ First(d)
      OBVIOUS
    <3>2. ~(c[2] < d[2]) /\ ~(d[2] < c[2])
      BY <2>2, <3>1
    <3>3. c[2] \in Nat /\ d[2] \in Nat
      BY <3>1, QronClientAssumption
    <3>4. QED
      BY <2>2, <3>1, <3>2, <3>3
  <2>3. [c \in taken |-> c[1]] \in Injection(taken, J)
    <3> DEFINE job1 == [c \in taken |-> c[1]]
    <3>1. job1 \in [taken -> J]
      OBVIOUS
    <3>2. ASSUME NEW c \in taken, NEW d \in taken, job1[c] = job1[d]
          PROVE  c = d
      <4> HIDE DEF taken
      <4>1. c[1] = d[1]
        BY <3>2
      <4>2. QED
        BY <2>2, <4>1
    <3> HIDE DEF taken, job1
    <3>3. job1 \in Injection(taken, J)
      BY <3>1, <3>2 DEF Injection, IsInjective
    <3>4. QED
      BY <3>3 DEF job1
  <2> HIDE DEF taken
  <2>4. IsFiniteSet(taken) /\ Cardinality(taken) <= Cardinality(J)
    BY <1>2, <2>3, FS_Injection
  <2>5. IsFiniteSet(Loaded(s)') /\ Cardinality(Loaded(s)') <= Cardinality(taken)
    BY <2>1, <2>4, FS_Subset
  <2>6. Cardinality(Loaded(s)') <= MaxInFlight
    <3>1. /\ Cardinality(Loaded(s)') \in Nat /\ Cardinality(taken) \in Nat
          /\ Cardinality(J) \in Nat
      BY <1>2, <2>4, <2>5, FS_CardinalityType
    <3>2. QED
      BY <1>2, <2>4, <2>5, <3>1, QronClientAssumption
  <2> DEFINE B == Batched(s)
  <2>7. /\ IsFiniteSet(B') /\ Cardinality(B') <= MaxFlushSize
        /\ flusher'[s] = "collect" => Cardinality(B') < MaxFlushSize
    <3>1. /\ IsFiniteSet(B) /\ IsFiniteSet(B') /\ Cardinality(B') <= Cardinality(B)
          /\ Cardinality(B) <= MaxFlushSize
          /\ flusher[s] = "collect" => Cardinality(B) < MaxFlushSize
      BY <1>4, <1>6, FS_Subset DEF Bounded
    <3>2. Cardinality(B) \in Nat /\ Cardinality(B') \in Nat
      BY <3>1, FS_CardinalityType
    <3> HIDE DEF B
    <3>3. QED
      BY <1>1, <3>1, <3>2, QronClientAssumption
  <2>8. QED
    BY <1>6, <2>5, <2>6, <2>7 DEF Bounded
<1>7. QED
  BY <1>5, <1>6

\* An answer goes to a flusher that has room for it, and fills it up or leaves
\* room for another.
LEMMA AnswerBounded ==
    ASSUME TypeOK, NEW c \in Claims, NEW s \in Sessions, Answer(c, s),
           NEW t \in Sessions, Bounded(t)
    PROVE  Bounded(t)'
<1>1. PICK kind \in Answers, e \in {claim[c].expr} \cup HandlerExprs, b \in BadAnswers :
          claim' = [claim EXCEPT ![c] = [@ EXCEPT !.stage = BatchFor(kind, e),
                                                  !.at = s, !.expr = e, !.bad = b]]
  BY DEF Answer
<1>2. /\ claim[c].stage = "running" /\ flusher[s] = "collect" /\ claim[c] \in Claim
      /\ flusher' = IF Cardinality(Batched(s)) + 1 >= MaxFlushSize
                    THEN [flusher EXCEPT ![s] = "flush"] ELSE flusher
  BY BusyClaim DEF Answer
<1>3. BatchFor(kind, e) \in Batches
  BY QronClientAssumption DEF BatchFor, AllAnswers
<1>4. /\ claim'[c].stage \in Batches /\ claim'[c].at = s
      /\ \A d \in Claims : d # c => claim'[d] = claim[d]
  BY <1>1, <1>2, <1>3 DEF Claim, TypeOK
<1>5. Loaded(t)' \subseteq Loaded(t)
  BY <1>4 DEF Loaded, At
<1>6. CASE t # s
  <2>1. Batched(t)' \subseteq Batched(t)
    BY <1>4, <1>6 DEF Batched, At
  <2>2. flusher'[t] = flusher[t]
    BY <1>2, <1>6 DEF TypeOK
  <2>3. QED
    BY <1>5, <2>1, <2>2, LessBounded
<1>7. CASE t = s
  <2> DEFINE B == Batched(s)
             L == Loaded(s)
  <2>1. B' = B \cup {c} /\ c \notin B
    BY <1>2, <1>4 DEF Batched, At
  <2>2. IsFiniteSet(B) /\ Cardinality(B) < MaxFlushSize
    BY <1>2, <1>7 DEF Bounded
  <2>3. IsFiniteSet(B') /\ Cardinality(B') = Cardinality(B) + 1 /\ Cardinality(B) \in Nat
    BY <2>1, <2>2, FS_AddElement, FS_CardinalityType
  <2>4. flusher'[s] = "collect" => Cardinality(B) + 1 < MaxFlushSize
    <3>1. flusher'[s] = "collect" => ~(Cardinality(B) + 1 >= MaxFlushSize)
      BY <1>2 DEF TypeOK
    <3> HIDE DEF B
    <3>2. QED
      BY <2>3, <3>1, QronClientAssumption
  <2>5. IsFiniteSet(L') /\ Cardinality(L') <= MaxInFlight
    <3>1. /\ IsFiniteSet(L) /\ IsFiniteSet(L') /\ Cardinality(L') <= Cardinality(L)
          /\ Cardinality(L) <= MaxInFlight
      BY <1>5, <1>7, FS_Subset DEF Bounded
    <3>2. Cardinality(L) \in Nat /\ Cardinality(L') \in Nat
      BY <3>1, FS_CardinalityType
    <3> HIDE DEF L
    <3>3. QED
      BY <3>1, <3>2, QronClientAssumption
  <2>6. Cardinality(B') <= MaxFlushSize
    <3> HIDE DEF B
    <3>1. QED
      BY <2>2, <2>3, QronClientAssumption
  <2>7. QED
    BY <1>7, <2>3, <2>4, <2>5, <2>6 DEF Bounded
<1>8. QED
  BY <1>6, <1>7

\* Nobody else takes anything, and a flusher that starts does not wait.
LEMMA OthersBounded ==
    ASSUME TypeOK, [Next]_vars,
           \A s \in Sessions : ~PollBegin(s) /\ ~FlushCommit(s) /\ ~FlushFail(s)
                               /\ ~FlushRetry(s) /\ ~FlushError(s),
           \A k \in Clients : ~Crash(k),
           \A c \in Claims, s \in Sessions : ~Answer(c, s),
           NEW t \in Sessions, Bounded(t)
    PROVE  Bounded(t)'
<1>1. flusher'[t] = "collect" => flusher[t] = "collect"
  BY DEF Next, Poller, Flusher, Fetch, Cancel, Leave, PollCommit, PollAbort, PollCommitLost,
         Deliver, FlushStart, Reset, Abandon, Create, Mutate, Tick, vars, TypeOK
<1>2. \A c \in Claims : Onward(c)
  <2>1. CASE claim' = claim
    BY <2>1 DEF Onward
  <2>2. ASSUME NEW s \in Sessions, PollCommit(s)
        PROVE  \A c \in Claims : Onward(c)
    <3>1. /\ At("locked", s) \in SUBSET Claims /\ Move(At("locked", s), "fetched")
          /\ \A c \in At("locked", s) : claim[c].stage = "locked"
      BY <2>2, AtType DEF PollCommit
    <3>2. QED
      BY <3>1, MoveOnward
  <2>3. ASSUME NEW s \in Sessions, PollAbort(s) \/ PollCommitLost(s)
        PROVE  \A c \in Claims : Onward(c)
    BY <2>3, ReleaseOnward DEF PollAbort, PollCommitLost
  <2>4. ASSUME NEW s \in Sessions, Deliver(s)
        PROVE  \A c \in Claims : Onward(c)
    <3>1. PICK c \in At("fetched", s) : Move({c}, "running")
      BY <2>4 DEF Deliver
    <3>2. {c} \in SUBSET Claims /\ \A d \in {c} : claim[d].stage = "fetched"
      BY AtType
    <3>3. QED
      BY <3>1, <3>2, MoveOnward
  <2>5. ASSUME NEW s \in Sessions, Reset(s)
        PROVE  \A c \in Claims : Onward(c)
    BY <2>5, ReleaseOnward DEF Reset
  <2>6. ASSUME NEW c \in Claims, Abandon(c)
        PROVE  \A d \in Claims : Onward(d)
    BY <2>6, ReleaseOnward DEF Abandon
  <2>7. QED
    BY <2>1, <2>2, <2>3, <2>4, <2>5, <2>6
       DEF Next, Poller, Flusher, Fetch, Cancel, Leave, FlushStart, Create, Mutate, Tick, vars
<1>3. QED
  BY <1>1, <1>2, OnwardLess, LessBounded

LEMMA StepBounded ==
    ASSUME TypeOK, [Next]_vars, NEW t \in Sessions, Bounded(t)
    PROVE  Bounded(t)'
<1>1. CASE \E s \in Sessions : PollBegin(s)
  BY <1>1, PollBounded
<1>2. CASE \E s \in Sessions : FlushCommit(s) \/ FlushFail(s) \/ FlushRetry(s)
  <2>1. PICK s \in Sessions, kind \in Batches :
            EmptyBatch(kind, s) /\ (Write(kind, s) \/ Release(At(kind, s)))
    BY <1>2, FlushIsBatch
  <2>2. QED
    BY <2>1, FlushBounded
<1>3. CASE \E s \in Sessions : FlushError(s)
  BY <1>3, FlushBounded DEF FlushError
<1>4. CASE \E k \in Clients : Crash(k)
  BY <1>4, CrashBounded
<1>5. CASE \E c \in Claims, s \in Sessions : Answer(c, s)
  BY <1>5, AnswerBounded
<1>6. QED
  BY <1>1, <1>2, <1>3, <1>4, <1>5, OthersBounded

\* For any limits and any number of handlers: a session has claimed no more
\* than one poll, and holds no more answers than one flush, at a time.
THEOREM MemoryStaysBounded == Spec => []MemoryBounded
<1> DEFINE AllBounded == \A s \in Sessions : Bounded(s)
<1>1. Init => AllBounded
  <2>1. ASSUME Init, NEW s \in Sessions
        PROVE  Bounded(s)
    <3>1. \A c \in Claims : claim[c].stage = "free"
      BY <2>1 DEF Init, Free
    <3>2. Loaded(s) = {} /\ Batched(s) = {}
      BY <3>1 DEF Loaded, Batched, At
    <3>3. QED
      BY <3>2, FS_EmptySet, QronClientAssumption DEF Bounded
  <2>2. QED
    BY <2>1
<1>2. TypeOK /\ AllBounded /\ [Next]_vars => AllBounded'
  BY StepBounded
<1>3. AllBounded => MemoryBounded
  BY DEF Bounded, Loaded, MemoryBounded
<1>4. QED
  BY TypeCorrect, <1>1, <1>2, <1>3, PTL DEF Spec
=============================================================================

--------------------------- MODULE HttpDevProofs ---------------------------
(***************************************************************************)
(* Proofs about HttpDev: the limiter bounds the requests and the zero jobs  *)
(* of a closed channel take none of its slots, for any number of runs, any  *)
(* capacity and any polls.                                                  *)
(***************************************************************************)
EXTENDS HttpDev, FiniteSetTheorems, TLAPS

USE DEF Stages, Answers

\* Only runs that have answered have failed a request.
FailedAnswered == \A r \in failed : run[r].stage \in {"Fail", "done"}

\* A zero job comes from a closed channel, and the channel is closed when its
\* poller has nothing more to send.
ZeroAfterClose ==
    /\ \A r \in Runs : run[r].zero => ch = "closed" /\ run[r].stage \in {"prepare", "Fail"}
    /\ ch = "closed" => ctx = "done" /\ left = 0

IInv == TypeOK /\ FailedAnswered /\ RequestsBounded /\ ZeroAfterClose

-----------------------------------------------------------------------------
\* A move changes the place of one run.
LEMMA MoveStage ==
    ASSUME ExecutorTypeOK, NEW r \in Runs, NEW from, NEW to \in Stages, Move(r, from, to)
    PROVE  /\ run' \in [Runs -> [stage : Stages, zero : BOOLEAN]]
           /\ run'[r].stage = to /\ run'[r].zero = run[r].zero
           /\ \A q \in Runs \ {r} : run'[q] = run[q]
BY DEF ExecutorTypeOK, Move

\* The set of the requests in progress changes with the run that moves.
LEMMA RequestsKept ==
    ASSUME ExecutorTypeOK, NEW r \in Runs, run[r].stage # "request",
           run'[r].stage # "request", \A q \in Runs \ {r} : run'[q] = run[q]
    PROVE  At("request")' = At("request")
BY DEF At

LEMMA RequestBegun ==
    ASSUME ExecutorTypeOK, NEW r \in Runs, run[r].stage # "request",
           run'[r].stage = "request", \A q \in Runs \ {r} : run'[q] = run[q]
    PROVE  /\ At("request")' = At("request") \cup {r}
           /\ Cardinality(At("request")') = Cardinality(At("request")) + 1
<1>1. At("request")' = At("request") \cup {r} /\ r \notin At("request")
  BY DEF At
<1>2. IsFiniteSet(At("request"))
  BY FS_Subset, HttpExecutorAssumption DEF At
<1>3. QED
  BY <1>1, <1>2, FS_AddElement

LEMMA RequestEnded ==
    ASSUME ExecutorTypeOK, NEW r \in Runs, run[r].stage = "request",
           run'[r].stage # "request", \A q \in Runs \ {r} : run'[q] = run[q]
    PROVE  /\ At("request")' = At("request") \ {r}
           /\ Cardinality(At("request")') = Cardinality(At("request")) - 1
<1>1. At("request")' = At("request") \ {r} /\ r \in At("request")
  BY DEF At
<1>2. IsFiniteSet(At("request"))
  BY FS_Subset, HttpExecutorAssumption DEF At
<1>3. QED
  BY <1>1, <1>2, FS_RemoveElement

\* Sets of runs are finite and have a cardinality.
LEMMA Counts ==
    ASSUME ExecutorTypeOK
    PROVE  /\ Cardinality(At("request")) \in Nat
           /\ Cardinality(failed) \in Nat /\ IsFiniteSet(failed)
<1>1. IsFiniteSet(At("request")) /\ IsFiniteSet(failed)
  BY FS_Subset, HttpExecutorAssumption DEF At, ExecutorTypeOK
<1>2. QED
  BY <1>1, FS_CardinalityType

-----------------------------------------------------------------------------
LEMMA InitInv == Init => IInv
<1> SUFFICES ASSUME Init PROVE IInv
  OBVIOUS
<1>1. TypeOK
  BY HttpExecutorAssumption, HttpDevAssumption DEF Init, ExecutorInit, TypeOK, ExecutorTypeOK
<1>2. At("request") = {} /\ failed = {}
  BY DEF Init, ExecutorInit, At
<1>3. RequestsBounded
  BY <1>2, FS_EmptySet, HttpExecutorAssumption DEF Init, ExecutorInit, RequestsBounded
<1>4. FailedAnswered /\ ZeroAfterClose
  BY DEF Init, ExecutorInit, FailedAnswered, ZeroAfterClose
<1>5. QED
  BY <1>1, <1>3, <1>4 DEF IInv

\* The steps of a run.
LEMMA RunStepInv ==
    ASSUME IInv, NEW r \in Runs, RunStep(r), UNCHANGED devVars
    PROVE  IInv'
<1> USE DEF IInv, TypeOK
<1>1. PICK from \in Stages, to \in Stages : Move(r, from, to)
  BY DEF RunStep, Prepare, Acquire, RequestFails, Respond, Decode, Taken
<1> DEFINE Rest == \A q \in Runs \ {r} : run'[q] = run[q]
<1>2. /\ run' \in [Runs -> [stage : Stages, zero : BOOLEAN]]
      /\ run'[r].stage = to /\ run'[r].zero = run[r].zero /\ Rest
  BY <1>1, MoveStage
<1>3. run[r].stage = from
  BY <1>1 DEF Move
<1>4. CASE Acquire(r)
  <2>1. from = "queue" /\ to = "request"
    BY <1>2, <1>3, <1>4 DEF Acquire, Move, ExecutorTypeOK
  <2>2. limiter < MaxConcurrency /\ limiter' = limiter + 1 /\ failed' = failed
    BY <1>4 DEF Acquire
  <2>3. Cardinality(At("request")') = Cardinality(At("request")) + 1
    BY <1>2, <1>3, <2>1, RequestBegun
  <2>4. RequestsBounded'
    BY <2>2, <2>3, Counts, HttpExecutorAssumption DEF RequestsBounded, ExecutorTypeOK
  <2>5. ExecutorTypeOK'
    BY <1>2, <2>2, HttpExecutorAssumption DEF ExecutorTypeOK
  <2>6. FailedAnswered'
    BY <1>2, <1>3, <2>1, <2>2 DEF FailedAnswered, ExecutorTypeOK
  <2>7. ZeroAfterClose'
    BY <1>2, <1>3, <2>1 DEF ZeroAfterClose, devVars
  <2>8. QED
    BY <2>4, <2>5, <2>6, <2>7 DEF devVars
<1>5. CASE RequestFails(r)
  <2>1. from = "request" /\ to = "Fail"
    BY <1>2, <1>3, <1>5 DEF RequestFails, Move, ExecutorTypeOK
  <2>2. limiter' = limiter /\ failed' = failed \cup {r}
    BY <1>5 DEF RequestFails
  <2>3. Cardinality(At("request")') = Cardinality(At("request")) - 1
    BY <1>2, <1>3, <2>1, RequestEnded
  <2>4. r \notin failed
    BY <1>3, <2>1 DEF FailedAnswered
  <2>5. Cardinality(failed') = Cardinality(failed) + 1
    BY <2>2, <2>4, Counts, FS_AddElement
  <2>6. RequestsBounded'
    BY <2>2, <2>3, <2>5, Counts DEF RequestsBounded, ExecutorTypeOK
  <2>7. ExecutorTypeOK'
    BY <1>2, <2>2 DEF ExecutorTypeOK
  <2>8. FailedAnswered'
    BY <1>2, <2>1, <2>2 DEF FailedAnswered, ExecutorTypeOK
  <2>9. ZeroAfterClose'
    BY <1>2, <1>3, <2>1 DEF ZeroAfterClose, devVars
  <2>10. QED
    BY <2>6, <2>7, <2>8, <2>9 DEF devVars
<1>6. CASE Respond(r)
  <2>1. from = "request" /\ to = "decode"
    BY <1>2, <1>3, <1>6 DEF Respond, Move, ExecutorTypeOK
  <2>2. limiter > 0 /\ limiter' = limiter - 1 /\ failed' = failed
    BY <1>6 DEF Respond
  <2>3. Cardinality(At("request")') = Cardinality(At("request")) - 1
    BY <1>2, <1>3, <2>1, RequestEnded
  <2>4. RequestsBounded'
    BY <2>2, <2>3, Counts, HttpExecutorAssumption DEF RequestsBounded, ExecutorTypeOK
  <2>5. ExecutorTypeOK'
    BY <1>2, <2>2, HttpExecutorAssumption DEF ExecutorTypeOK
  <2>6. FailedAnswered'
    BY <1>2, <1>3, <2>1, <2>2 DEF FailedAnswered, ExecutorTypeOK
  <2>7. ZeroAfterClose'
    BY <1>2, <1>3, <2>1 DEF ZeroAfterClose, devVars
  <2>8. QED
    BY <2>4, <2>5, <2>6, <2>7 DEF devVars
<1>7. CASE Prepare(r) \/ Decode(r) \/ Taken(r)
  <2>1. /\ from # "request" /\ to # "request"
        /\ from = "Fail" => to = "done"
        /\ from # "done"
        /\ run[r].zero => to = "Fail"
    BY <1>2, <1>3, <1>7 DEF Prepare, Decode, Taken, Move, ExecutorTypeOK, ZeroAfterClose
  <2>2. limiter' = limiter /\ failed' = failed
    BY <1>7 DEF Prepare, Decode, Taken
  <2>3. At("request")' = At("request")
    BY <1>2, <1>3, <2>1, RequestsKept
  <2>4. RequestsBounded'
    BY <2>2, <2>3 DEF RequestsBounded
  <2>5. ExecutorTypeOK'
    BY <1>2, <2>2 DEF ExecutorTypeOK
  <2>6. FailedAnswered'
    BY <1>2, <1>3, <2>1, <2>2 DEF FailedAnswered, ExecutorTypeOK
  <2>7. ZeroAfterClose'
    BY <1>2, <1>3, <2>1 DEF ZeroAfterClose, devVars
  <2>8. QED
    BY <2>4, <2>5, <2>6, <2>7 DEF devVars
<1>8. QED
  BY <1>4, <1>5, <1>6, <1>7 DEF RunStep

\* The loop spawns a run.
LEMMA DispatchInv ==
    ASSUME IInv, NEW r \in Runs, Dispatch(r) \/ DispatchZero(r)
    PROVE  IInv'
<1> USE DEF IInv, TypeOK
<1>1. PICK z \in BOOLEAN : Run(r, z) /\ (z => DispatchZero(r)) /\ (~z => Dispatch(r))
  BY DEF Dispatch, DispatchZero
<1>2. /\ run[r].stage = "none" /\ run'[r].stage = "prepare" /\ run'[r].zero = z
      /\ \A q \in Runs \ {r} : run'[q] = run[q]
  BY <1>1 DEF Run, ExecutorTypeOK
<1>3. limiter' = limiter /\ failed' = failed
  BY <1>1 DEF Run
<1>4. ExecutorTypeOK'
  BY <1>1, <1>3 DEF Run, ExecutorTypeOK
<1>5. At("request")' = At("request")
  BY <1>2, RequestsKept
<1>6. RequestsBounded'
  BY <1>3, <1>5 DEF RequestsBounded
<1>7. FailedAnswered'
  BY <1>2, <1>3 DEF FailedAnswered, ExecutorTypeOK
<1>8. CASE z
  <2>1. UNCHANGED devVars /\ ch = "closed"
    BY <1>1, <1>8 DEF DispatchZero
  <2>2. ZeroAfterClose'
    BY <1>2, <1>8, <2>1 DEF ZeroAfterClose, devVars
  <2>3. QED
    BY <1>4, <1>6, <1>7, <2>1, <2>2 DEF devVars
<1>9. CASE ~z
  <2>1. left > 0 /\ left' = left - 1 /\ UNCHANGED <<ctx, ch, sugared, relay, loop>>
    BY <1>1, <1>9 DEF Dispatch
  <2>2. ch # "closed"
    BY <2>1 DEF ZeroAfterClose
  <2>3. ZeroAfterClose'
    BY <1>2, <1>9, <2>1, <2>2 DEF ZeroAfterClose
  <2>4. left' \in 0..MaxInFlight
    BY <2>1, HttpDevAssumption
  <2>5. QED
    BY <1>4, <1>6, <1>7, <2>1, <2>3, <2>4
<1>10. QED
  BY <1>8, <1>9

\* What leaves the runs alone.
LEMMA ServerInv ==
    ASSUME IInv,
           \/ Poll \/ Close \/ RelayFetch \/ TakeSugared \/ CommitSugared \/ Return \/ Stop
           \/ UNCHANGED vars
    PROVE  IInv'
<1> USE DEF IInv
<1>1. UNCHANGED executorVars
  BY DEF Poll, Close, RelayFetch, TakeSugared, CommitSugared, Return, Stop, vars
<1>2. ExecutorTypeOK' /\ FailedAnswered' /\ RequestsBounded'
  BY <1>1 DEF executorVars, TypeOK, ExecutorTypeOK, FailedAnswered, RequestsBounded, At
<1>3. TypeOK'
  BY <1>2, HttpDevAssumption DEF TypeOK, Poll, Close, RelayFetch, TakeSugared, CommitSugared,
         Return, Stop, vars, devVars
<1>4. ZeroAfterClose'
  BY <1>1 DEF executorVars, ZeroAfterClose, TypeOK, Poll, Close, RelayFetch, TakeSugared,
         CommitSugared, Return, Stop, vars, devVars
<1>5. QED
  BY <1>2, <1>3, <1>4

\* The invariant holds in all states.
LEMMA Inductive == Spec => []IInv
<1>1. IInv /\ [Next]_vars => IInv'
  BY RunStepInv, DispatchInv, ServerInv DEF Next
<1>2. QED
  BY InitInv, <1>1, PTL DEF Spec

(***************************************************************************)
(* There are never more requests in progress than the executor was made     *)
(* for, and as many fewer as requests have failed.                          *)
(***************************************************************************)
THEOREM Limited == Spec => []RequestsBounded
BY Inductive, PTL DEF IInv

(***************************************************************************)
(* The goroutines of zero jobs block for ever, but never with a slot.       *)
(***************************************************************************)
THEOREM ZeroHarmless == Spec => []ZeroTakesNoSlot
<1>1. IInv => ZeroTakesNoSlot
  BY DEF IInv, ZeroAfterClose, ZeroTakesNoSlot
<1>2. QED
  BY <1>1, Inductive, PTL

(***************************************************************************)
(* Type correctness: the slots taken of the executor's limiter and the jobs *)
(* a poll has left to hand over stay within their bounds.                   *)
(***************************************************************************)
THEOREM DevType == Spec => []TypeOK
BY Inductive, PTL DEF IInv
=============================================================================

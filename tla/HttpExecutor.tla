---------------------------- MODULE HttpExecutor ----------------------------
(***************************************************************************)
(* The runs of one HttpExecutor, each in a goroutine of its own, and the    *)
(* channel that limits their requests.  A run is at                         *)
(*    prepare    reading the meta of its job, building and signing          *)
(*    queue      h.limiter <- 0                                             *)
(*    request    h.client.Do                                                *)
(*    decode     reading the body                                           *)
(*    Commit, Fail or Retry, which block on the channel of the job          *)
(* The slot is given back before the body is read, and only if there is a   *)
(* response.  A zero job is what a closed channel yields: it has no meta    *)
(* and its channel is nil.                                                  *)
(***************************************************************************)
EXTENDS Integers, FiniteSets

CONSTANTS
    Runs,            \* calls of Run
    MaxConcurrency   \* the capacity of the limiter

ASSUME HttpExecutorAssumption == IsFiniteSet(Runs) /\ MaxConcurrency \in Nat

VARIABLES
    run,       \* run[r]: where the call r is, and whether with a zero job
    limiter,   \* the number of slots taken
    failed     \* history: the calls that got an error for a response

executorVars == <<run, limiter, failed>>

Answers == {"Commit", "Fail", "Retry"}
Stages  == {"none", "prepare", "queue", "request", "decode", "done"} \cup Answers

ExecutorTypeOK ==
    /\ run \in [Runs -> [stage : Stages, zero : BOOLEAN]]
    /\ limiter \in 0..MaxConcurrency
    /\ failed \subseteq Runs

ExecutorInit ==
    /\ run = [r \in Runs |-> [stage |-> "none", zero |-> FALSE]]
    /\ limiter = 0
    /\ failed = {}

At(stage) == {r \in Runs : run[r].stage = stage}

Move(r, from, to) ==
    /\ run[r].stage = from
    /\ run' = [run EXCEPT ![r].stage = to]

-----------------------------------------------------------------------------
Run(r, zero) ==
    /\ run[r].stage = "none"
    /\ run' = [run EXCEPT ![r].stage = "prepare", ![r].zero = zero]
    /\ UNCHANGED <<limiter, failed>>

\* without looking at the error of json.Unmarshal
MutantPrepare(r) ==
    /\ Move(r, "prepare", "queue") \/ Move(r, "prepare", "Fail")
    /\ UNCHANGED <<limiter, failed>>

\* The meta may not be a configuration, nor the configuration a request, and
\* the signer may refuse.
Prepare(r) ==
    /\ \/ ~run[r].zero /\ Move(r, "prepare", "queue")
       \/ Move(r, "prepare", "Fail")
    /\ UNCHANGED <<limiter, failed>>

\* a limiter without capacity
MutantAcquire(r) ==
    /\ Move(r, "queue", "request")
    /\ limiter' = limiter + 1
    /\ UNCHANGED failed

Acquire(r) ==
    /\ limiter < MaxConcurrency
    /\ Move(r, "queue", "request")
    /\ limiter' = limiter + 1
    /\ UNCHANGED failed

\* The error path returns with the slot.
RequestFails(r) ==
    /\ Move(r, "request", "Fail")
    /\ failed' = failed \cup {r}
    /\ UNCHANGED limiter

\* a slot kept by a request that is answered
MutantRespond(r) ==
    /\ Move(r, "request", "decode")
    /\ UNCHANGED <<limiter, failed>>

\* The limiter holds a slot for each request, so that receiving never blocks.
Respond(r) ==
    /\ limiter > 0
    /\ Move(r, "request", "decode")
    /\ limiter' = limiter - 1
    /\ UNCHANGED failed

\* An invalid body fails the job; a status that is none of three commits it.
Decode(r) ==
    /\ \E answer \in Answers : Move(r, "decode", answer)
    /\ UNCHANGED <<limiter, failed>>

\* A flusher takes the answer; nobody takes one from a nil channel.
Taken(r) ==
    /\ ~run[r].zero
    /\ \E answer \in Answers : Move(r, answer, "done")
    /\ UNCHANGED <<limiter, failed>>

RunStep(r) ==
    Prepare(r) \/ Acquire(r) \/ RequestFails(r) \/ Respond(r) \/ Decode(r) \/ Taken(r)

\* Senders wait for a slot, and for a flusher, in turn; requests time out.
RunFairness(r) ==
    /\ WF_executorVars(Prepare(r)) /\ SF_executorVars(Acquire(r))
    /\ WF_executorVars(RequestFails(r) \/ Respond(r))
    /\ WF_executorVars(Decode(r)) /\ WF_executorVars(Taken(r))

-----------------------------------------------------------------------------
(***************************************************************************)
(* The executor has no more requests in progress than it was made for,      *)
(* however many jobs run and whatever became of earlier requests: each      *)
(* request in progress holds a slot, and each that failed holds one too.    *)
(***************************************************************************)
RequestsBounded ==
    /\ Cardinality(At("request")) + Cardinality(failed) = limiter
    /\ limiter <= MaxConcurrency

(***************************************************************************)
(* Every job that runs is answered, unless as many requests have failed as  *)
(* the limiter has slots: then all that come after wait for ever.           *)
(***************************************************************************)
AnsweredUnlessLeaked ==
    \A r \in Runs : run[r].stage # "none" /\ ~run[r].zero
                        ~> run[r].stage = "done" \/ Cardinality(failed) >= MaxConcurrency
=============================================================================

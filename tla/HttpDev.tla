------------------------------ MODULE HttpDev -------------------------------
(***************************************************************************)
(* The server of cmd/httpdev: one goroutine that serves the channel of an   *)
(* HTTP session and the channel of sugared jobs, spawns a run of the        *)
(* executor for each job of the former, and commits those of the latter     *)
(* itself.  Sugared jobs come through a relay (sugar.go).  Stop cancels the *)
(* context of the HTTP session; that of the sugared one is never cancelled. *)
(***************************************************************************)
EXTENDS HttpExecutor

CONSTANTS
    MaxInFlight,   \* the most jobs a poll of the HTTP session returns
    MaxSugared     \* bound on the sugared jobs of a behaviour

ASSUME HttpDevAssumption == MaxInFlight \in Nat /\ MaxSugared \in Nat

VARIABLES
    ctx,       \* of the HTTP session: "live" or "done"
    left,      \* what its poller has still to send of the last poll
    ch,        \* its channel: "open" or "closed"
    sugared,   \* jobs the sugared session has yet to fetch
    relay,     \* the goroutine of Scheduled.Fetch: "ready" or "sending"
    loop       \* the goroutine of main: "select", "commit" or "returned"

devVars == <<ctx, left, ch, sugared, relay, loop>>
vars == <<executorVars, devVars>>

TypeOK ==
    /\ ExecutorTypeOK
    /\ ctx \in {"live", "done"} /\ ch \in {"open", "closed"}
    /\ left \in 0..MaxInFlight /\ sugared \in 0..MaxSugared
    /\ relay \in {"ready", "sending"} /\ loop \in {"select", "commit", "returned"}

Init ==
    /\ ExecutorInit
    /\ ctx = "live" /\ ch = "open" /\ left = 0
    /\ sugared = MaxSugared /\ relay = "ready" /\ loop = "select"

-----------------------------------------------------------------------------
\* The poller.
Poll ==
    /\ ctx = "live" /\ left = 0
    /\ \E n \in 1..MaxInFlight :
          /\ n <= Cardinality(At("none"))
          /\ left' = n
    /\ UNCHANGED <<executorVars, ctx, ch, sugared, relay, loop>>

Close ==
    /\ ctx = "done" /\ left = 0 /\ ch = "open"
    /\ ch' = "closed"
    /\ UNCHANGED <<executorVars, ctx, left, sugared, relay, loop>>

\* The relay waits for the loop before it takes the next job.
RelayFetch ==
    /\ relay = "ready" /\ sugared > 0
    /\ sugared' = sugared - 1
    /\ relay' = "sending"
    /\ UNCHANGED <<executorVars, ctx, left, ch, loop>>

\* without go: the loop waits for the run before
MutantDispatch(r) ==
    /\ loop = "select" /\ left > 0
    /\ At("queue") \cup At("request") = {}
    /\ Run(r, FALSE)
    /\ left' = left - 1
    /\ UNCHANGED <<ctx, ch, sugared, relay, loop>>

\* The select of the loop.  It does not see that the channel is closed.
Dispatch(r) ==
    /\ loop = "select" /\ left > 0
    /\ Run(r, FALSE)
    /\ left' = left - 1
    /\ UNCHANGED <<ctx, ch, sugared, relay, loop>>

DispatchZero(r) ==
    /\ loop = "select" /\ ch = "closed"
    /\ Run(r, TRUE)
    /\ UNCHANGED devVars

TakeSugared ==
    /\ loop = "select" /\ relay = "sending"
    /\ loop' = "commit"
    /\ relay' = "ready"
    /\ UNCHANGED <<executorVars, ctx, left, ch, sugared>>

\* a client whose flushers end with the server
MutantCommitSugared ==
    /\ loop = "commit" /\ ctx = "live"
    /\ loop' = "select"
    /\ UNCHANGED <<executorVars, ctx, left, ch, sugared, relay>>

\* A flusher of the sugared client takes the answer.
CommitSugared ==
    /\ loop = "commit"
    /\ loop' = "select"
    /\ UNCHANGED <<executorVars, ctx, left, ch, sugared, relay>>

Return ==
    /\ loop = "select" /\ ctx = "done"
    /\ loop' = "returned"
    /\ UNCHANGED <<executorVars, ctx, left, ch, sugared, relay>>

Stop ==
    /\ ctx = "live"
    /\ ctx' = "done"
    /\ UNCHANGED <<executorVars, left, ch, sugared, relay, loop>>

-----------------------------------------------------------------------------
Next ==
    \/ \E r \in Runs : \/ Dispatch(r) \/ DispatchZero(r)
                       \/ RunStep(r) /\ UNCHANGED devVars
    \/ Poll \/ Close \/ RelayFetch \/ TakeSugared \/ CommitSugared \/ Return \/ Stop

\* A select that is entered again and again takes each of its cases in time.
Fairness ==
    /\ \A r \in Runs : RunFairness(r)
    /\ SF_vars(\E r \in Runs : Dispatch(r)) /\ SF_vars(TakeSugared) /\ SF_vars(Return)
    /\ WF_vars(CommitSugared) /\ WF_vars(RelayFetch) /\ WF_vars(Close)

Spec == Init /\ [][Next]_vars /\ Fairness

-----------------------------------------------------------------------------
(***************************************************************************)
(* The zero jobs that the loop takes from the closed channel hold up their  *)
(* goroutines, and no request: they never take a slot of the limiter.       *)
(***************************************************************************)
ZeroTakesNoSlot ==
    \A r \in Runs : run[r].zero => /\ run[r].stage \in {"prepare", "Fail"}
                                   /\ ctx = "done" /\ left = 0

(***************************************************************************)
(* What the poll of the HTTP session has claimed is run, sugared jobs are   *)
(* taken, while the server is up: also when no slot of the limiter is free  *)
(* and none ever will be.                                                   *)
(***************************************************************************)
KeepsServing ==
    /\ left > 0 ~> left = 0 \/ ctx = "done"
    /\ relay = "sending" ~> relay = "ready" \/ ctx = "done"

\* After the stop the loop returns, whatever its channels offer.
Returns == ctx = "done" ~> loop = "returned"
=============================================================================

------------------------------ MODULE JobLease ------------------------------
(***************************************************************************)
(* What a user of qron is promised about the executions of each job, with   *)
(* no word about polls, transactions, batches or time-outs.                 *)
(*                                                                          *)
(* An execution holds the lease of its job.  A lease is granted only to a   *)
(* job that waits, it never passes from one execution to another, and it    *)
(* ends when its holder answers, when it is revoked, or when an execution   *)
(* that lost an earlier lease of the job answers late.  Only such a late    *)
(* answer disturbs a job that is paused or has ended.                       *)
(***************************************************************************)
CONSTANTS Jobs, Executions, None

VARIABLES
    phase,      \* where job j is
    holder,     \* the execution holding its lease, if any still does
    forgotten   \* may an execution that lost the lease of j still answer?

vars == <<phase, holder, forgotten>>

Phases == {"absent", "waiting", "leased", "paused", "ended", "gone"}

Init ==
    /\ phase = [j \in Jobs |-> "absent"]
    /\ holder = [j \in Jobs |-> None]
    /\ forgotten = [j \in Jobs |-> FALSE]

Present(j) == phase[j] \in Phases \ {"absent", "gone"}

\* Job j moves to phase p; nobody holds its lease then.
Goes(j, p) == phase'[j] = p /\ holder'[j] = None

\* An execution that had lost the lease may end meanwhile; none appears.
Forgets(j) == forgotten'[j] => forgotten[j]

Create(j)  == phase[j] = "absent" /\ Goes(j, "waiting") /\ Forgets(j)
Remove(j)  == Present(j) /\ Goes(j, "gone") /\ Forgets(j)
Stop(j)    == phase[j] \in {"waiting", "paused"} /\ Goes(j, "paused") /\ Forgets(j)
Restart(j) == phase[j] = "paused" /\ Goes(j, "waiting") /\ Forgets(j)

\* The lease may be granted to an execution that never starts.
Grant(j) ==
    /\ phase[j] = "waiting"
    /\ phase'[j] = "leased" /\ holder'[j] \in Executions \cup {None}
    /\ Forgets(j)

\* The holder is gone, or its answer is: the lease stays until it is revoked.
Lose(j) ==
    /\ phase[j] = "leased" /\ phase'[j] = "leased" /\ holder'[j] = None
    /\ Forgets(j)

Settle(j) ==
    /\ phase[j] = "leased" /\ holder[j] # None
    /\ \E p \in {"waiting", "ended"} : Goes(j, p)
    /\ Forgets(j)

\* The lease is taken from its holder, who does not know.
Usurps(j) == forgotten'[j] => forgotten[j] \/ holder[j] # None

Revoke(j) ==
    /\ phase[j] = "leased" /\ Goes(j, "waiting")
    /\ Usurps(j)

AnswerLate(j) ==
    /\ Present(j) /\ forgotten[j]
    /\ \E p \in {"waiting", "ended"} : Goes(j, p)
    /\ Usurps(j)

Stay(j) == phase'[j] = phase[j] /\ holder'[j] = holder[j] /\ Forgets(j)

Step(j) ==
    \/ Create(j) \/ Remove(j) \/ Stop(j) \/ Restart(j)
    \/ Grant(j) \/ Lose(j) \/ Settle(j) \/ Revoke(j) \/ AnswerLate(j)

\* One statement settles or revokes several jobs.
Next ==
    /\ \A j \in Jobs : Step(j) \/ Stay(j)
    /\ DOMAIN phase' = Jobs /\ DOMAIN holder' = Jobs /\ DOMAIN forgotten' = Jobs

Spec == Init /\ [][Next]_vars
=============================================================================

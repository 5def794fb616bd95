---------------------------- MODULE LeaseProofs ----------------------------
(***************************************************************************)
(* The clients keep the promise of JobLease: every step of theirs is, for   *)
(* each job, a step of its lease, or leaves the lease alone.                *)
(***************************************************************************)
EXTENDS AnswerProofs

USE DEF Claims, Batches, Stages

Phase(j)     == phaseOf(job[j].status)
Forgotten(j) == Exists(j) /\ \E c \in UnderWay(j) : claim[c].stale

\* The steps of JobLease, in the terms of the clients.
LEMMA LeaseSteps ==
    ASSUME NEW j \in Jobs, Forgotten(j)' => Forgotten(j)
    PROVE  /\ Phase(j)' = Phase(j) /\ holderOf(j)' = holderOf(j) => Lease!Stay(j)
           /\ Phase(j) = "leased" /\ Phase(j)' = "leased" /\ holderOf(j)' = None
                 => Lease!Lose(j)
           /\ Phase(j) = "waiting" /\ Phase(j)' = "leased" /\ holderOf(j)' \in Claims \cup {None}
                 => Lease!Grant(j)
           /\ Phase(j) = "leased" /\ holderOf(j) # None
              /\ Phase(j)' \in {"waiting", "ended"} /\ holderOf(j)' = None
                 => Lease!Settle(j)
           /\ Phase(j) = "absent" /\ Phase(j)' = "waiting" /\ holderOf(j)' = None
                 => Lease!Create(j)
           /\ Phase(j) \in {"waiting", "leased", "paused", "ended"} /\ Phase(j)' = "gone"
              /\ holderOf(j)' = None => Lease!Remove(j)
           /\ Phase(j) \in {"waiting", "paused"} /\ Phase(j)' = "paused"
              /\ holderOf(j)' = None => Lease!Stop(j)
           /\ Phase(j) = "paused" /\ Phase(j)' = "waiting"
              /\ holderOf(j)' = None => Lease!Restart(j)
BY DEF Phase, Forgotten, Lease!Stay, Lease!Lose, Lease!Grant, Lease!Settle, Lease!Create,
       Lease!Remove, Lease!Stop, Lease!Restart, Lease!Forgets, Lease!Goes, Lease!Present,
       Lease!Phases

\* Those that take a lease from its holder.
LEMMA UsurpSteps ==
    ASSUME NEW j \in Jobs, Forgotten(j)' => Forgotten(j) \/ holderOf(j) # None,
           holderOf(j)' = None
    PROVE  /\ Phase(j) = "leased" /\ Phase(j)' = "waiting" => Lease!Revoke(j)
           /\ Phase(j) \in {"waiting", "leased", "paused", "ended"} /\ Forgotten(j)
              /\ Phase(j)' \in {"waiting", "ended"} => Lease!AnswerLate(j)
BY DEF Phase, Forgotten, Lease!Revoke, Lease!AnswerLate, Lease!Usurps, Lease!Goes,
       Lease!Present, Lease!Phases

-----------------------------------------------------------------------------
(* Phases and holders.                                                      *)

LEMMA PhaseOf ==
    ASSUME NEW j \in Jobs
    PROVE  /\ Phase(j) = "leased" <=> job[j].status = "PENDING"
           /\ Phase(j) = "waiting" <=> job[j].status = "READY"
           /\ Phase(j) = "paused" <=> job[j].status = "PAUSED"
           /\ Phase(j) = "absent" <=> job[j].status = "UNUSED"
           /\ Phase(j) = "gone" <=> job[j].status = "DELETED"
           /\ Phase(j) \in {"absent", "waiting", "leased", "paused", "ended", "gone"}
BY DEF Phase, phaseOf

LEMMA PhaseNext ==
    ASSUME NEW j \in Jobs
    PROVE  /\ Phase(j)' = "leased" <=> job'[j].status = "PENDING"
           /\ Phase(j)' = "waiting" <=> job'[j].status = "READY"
           /\ Phase(j)' = "paused" <=> job'[j].status = "PAUSED"
           /\ Phase(j)' = "absent" <=> job'[j].status = "UNUSED"
           /\ Phase(j)' = "gone" <=> job'[j].status = "DELETED"
           /\ Phase(j)' \in {"absent", "waiting", "leased", "paused", "ended", "gone"}
BY DEF Phase, phaseOf

\* The holder is the one claim that is current.
LEMMA HolderOf ==
    ASSUME NEW j \in Jobs, Exclusive(j)
    PROVE  /\ job[j].status # "PENDING" => holderOf(j) = None
           /\ (\A c \in {j} \X Slots : ~Current(c)) => holderOf(j) = None
           /\ \A c \in {j} \X Slots :
                 job[j].status = "PENDING" /\ Current(c) => holderOf(j) = c /\ c # None
<1>1. ASSUME NEW c \in {j} \X Slots, job[j].status = "PENDING", Current(c)
      PROVE  holderOf(j) = c
  <2>1. \A d \in {j} \X Slots : Current(d) <=> d = c
    BY <1>1 DEF Exclusive
  <2>2. QED
    BY <2>1, <1>1 DEF holderOf
<1>2. \A c \in {j} \X Slots : c # None
  BY QronClientAssumption
<1>3. QED
  BY <1>1, <1>2 DEF holderOf

LEMMA HolderNext ==
    ASSUME NEW j \in Jobs, Exclusive(j)'
    PROVE  /\ job'[j].status # "PENDING" => holderOf(j)' = None
           /\ (\A c \in {j} \X Slots : ~Current(c)') => holderOf(j)' = None
           /\ \A c \in {j} \X Slots :
                 job'[j].status = "PENDING" /\ Current(c)' => holderOf(j)' = c
           /\ holderOf(j)' \in Claims \cup {None}
<1>1. ASSUME NEW c \in {j} \X Slots, job'[j].status = "PENDING", Current(c)'
      PROVE  holderOf(j)' = c
  <2>1. \A d \in {j} \X Slots : Current(d)' <=> d = c
    BY <1>1 DEF Exclusive
  <2>2. QED
    BY <2>1, <1>1 DEF holderOf
<1>2. \A c \in {j} \X Slots : c \in Claims
  OBVIOUS
<1>3. QED
  BY <1>1, <1>2 DEF holderOf

-----------------------------------------------------------------------------
(* Steps.                                                                   *)

\* A claim that ends, or goes on as stale as it was.
Kept(c) ==
    claim'[c].stage # "free" =>
        claim[c].stage # "free" /\ claim'[c].stale = claim[c].stale

\* None of these is made stale, ...
LEMMA KeptForgotten ==
    ASSUME NEW j \in Jobs, \A c \in {j} \X Slots : Kept(c), Exists(j)' => Exists(j)
    PROVE  Forgotten(j)' => Forgotten(j)
BY DEF Forgotten, UnderWay, Kept

\* ... and the lease of a job whose status stays is held on to, or lost.
LEMMA LeaseStays ==
    ASSUME ExclusiveDelivery, ExclusiveDelivery', NEW j \in Jobs,
           job'[j].status = job[j].status, \A c \in {j} \X Slots : Kept(c)
    PROVE  Lease!Step(j) \/ Lease!Stay(j)
<1>1. Exclusive(j) /\ Exclusive(j)'
  BY DEF ExclusiveDelivery
<1>2. Forgotten(j)' => Forgotten(j)
  BY KeptForgotten DEF Exists
<1>3. Phase(j)' = Phase(j)
  BY DEF Phase
<1>4. CASE job[j].status # "PENDING"
  <2>1. holderOf(j) = None /\ holderOf(j)' = None
    BY <1>1, <1>4, HolderOf, HolderNext
  <2>2. QED
    BY <1>2, <1>3, <2>1, LeaseSteps
<1>5. CASE job[j].status = "PENDING"
  <2>1. CASE \A c \in {j} \X Slots : ~Current(c)'
    <3>1. holderOf(j)' = None
      BY <1>1, <2>1, HolderNext
    <3>2. Phase(j) = "leased"
      BY <1>5, PhaseOf
    <3>3. QED
      BY <1>2, <1>3, <3>1, <3>2, LeaseSteps DEF Lease!Step
  <2>2. ASSUME NEW c \in {j} \X Slots, Current(c)'
        PROVE  Lease!Step(j) \/ Lease!Stay(j)
    <3>1. Current(c)
      BY <2>2 DEF Kept, Current
    <3>2. holderOf(j) = c /\ holderOf(j)' = c
      BY <1>1, <1>5, <2>2, <3>1, HolderOf, HolderNext
    <3>3. QED
      BY <1>2, <1>3, <3>2, LeaseSteps
  <2>3. QED
    BY <2>1, <2>2
<1>6. QED
  BY <1>4, <1>5

\* Polls lock rows that wait, and grant their leases.
LEMMA PollBeginLease ==
    ASSUME IInv, ExclusiveDelivery', NEW s \in Sessions, PollBegin(s), NEW j \in Jobs
    PROVE  Lease!Step(j) \/ Lease!Stay(j)
<1> DEFINE J == FirstOf(DueRows(ExecutorOf[s], Locked), MaxInFlight)
<1> USE DEF IInv
<1>1. UNCHANGED job
  BY DEF PollBegin
<1>2. \A c \in {j} \X Slots : c \in Claims /\ c[1] = j
  OBVIOUS
<1>3. \A c \in {j} \X Slots : claim'[c] = claim[c] \/ (j \in J /\ ~claim'[c].stale)
  BY <1>2 DEF PollBegin
<1>4. CASE j \in J
  <2>1. job[j].status = "READY"
    BY <1>4 DEF FirstOf, DueRows
  <2>2. holderOf(j) = None /\ holderOf(j)' = None
    BY <1>1, <2>1, HolderOf, HolderNext DEF ExclusiveDelivery
  <2>3. Forgotten(j)' => Forgotten(j)
    BY <1>1, <1>3 DEF Forgotten, UnderWay, Exists
  <2>4. Phase(j)' = Phase(j)
    BY <1>1 DEF Phase
  <2>5. QED
    BY <2>2, <2>3, <2>4, LeaseSteps
<1>5. CASE j \notin J
  <2>1. \A c \in {j} \X Slots : Kept(c)
    BY <1>3, <1>5 DEF Kept
  <2>2. QED
    BY <1>1, <2>1, LeaseStays
<1>6. QED
  BY <1>4, <1>5

LEMMA MoveKept ==
    ASSUME TypeOK, NEW C \in SUBSET Claims, NEW stage, Move(C, stage),
           \A c \in C : claim[c].stage # "free", NEW c \in Claims
    PROVE  Kept(c)
<1>1. CASE c \in C
  <2>1. claim[c] \in Claim
    BY <1>1, BusyClaim
  <2>2. claim'[c] = [claim[c] EXCEPT !.stage = stage]
    BY <1>1 DEF Move
  <2>3. QED
    BY <1>1, <2>1, <2>2 DEF Kept, Claim
<1>2. CASE c \notin C
  BY <1>2 DEF Move, Kept
<1>3. QED
  BY <1>1, <1>2

LEMMA ReleaseKept ==
    ASSUME NEW C, Release(C), NEW c \in Claims
    PROVE  Kept(c)
BY DEF Release, Free, Kept

LEMMA PollCommitLease ==
    ASSUME IInv, ExclusiveDelivery', NEW s \in Sessions, PollCommit(s) \/ PollCommitLost(s),
           NEW j \in Jobs
    PROVE  Lease!Step(j) \/ Lease!Stay(j)
<1> USE DEF IInv
<1> DEFINE L == At("locked", s)
<1>1. L \subseteq Claims /\ \A c \in L : claim[c].stage # "free"
  BY AtType
<1>2. Move(L, "fetched") \/ Release(L)
  BY DEF PollCommit, PollCommitLost
<1>3. \A c \in Claims : Kept(c)
  BY <1>1, <1>2, MoveKept, ReleaseKept
<1>4. \A c \in {j} \X Slots : Kept(c)
  BY <1>3
<1>5. job'[j] = IF j \in JobsOf(L) THEN [job[j] EXCEPT !.status = "PENDING", !.late = FALSE]
                                   ELSE job[j]
  BY DEF PollCommit, PollCommitLost, MarkPending
<1>6. CASE j \in JobsOf(L)
  <2>1. job[j] \in Row
    BY DEF TypeOK, TableOK
  <2>2. job[j].status = "READY" /\ job'[j].status = "PENDING"
    BY <1>5, <1>6, <2>1, LockedReady DEF Row
  <2>3. Phase(j) = "waiting" /\ Phase(j)' = "leased"
    BY <2>2, PhaseOf, PhaseNext
  <2>4. holderOf(j)' \in Claims \cup {None}
    BY HolderNext DEF ExclusiveDelivery
  <2>5. Forgotten(j)' => Forgotten(j)
    BY <1>4, <2>2, KeptForgotten DEF Exists, Status
  <2>6. QED
    BY <2>3, <2>4, <2>5, LeaseSteps DEF Lease!Step
<1>7. CASE j \notin JobsOf(L)
  BY <1>4, <1>5, <1>7, LeaseStays
<1>8. QED
  BY <1>6, <1>7

\* What a batch or a reset does to the claims of the jobs it touches ...
LEMMA Outdated ==
    ASSUME TypeOK, NEW C, NEW J, ReleaseStale(C, J), NEW j \in Jobs, j \in J
    PROVE  \A c \in {j} \X Slots :
              /\ ~Current(c)'
              /\ claim'[c].stage # "free" => c \notin C /\ claim[c].stage # "free"
<1>1. SUFFICES ASSUME NEW c \in {j} \X Slots
               PROVE  /\ ~Current(c)'
                      /\ claim'[c].stage # "free" => c \notin C /\ claim[c].stage # "free"
  OBVIOUS
<1>2. c \in Claims /\ c[1] = j
  BY <1>1
<1>3. CASE c \in C \/ claim[c].stage = "free"
  BY <1>2, <1>3 DEF ReleaseStale, Free, Current
<1>4. CASE c \notin C /\ claim[c].stage # "free"
  <2>1. claim[c] \in Claim
    BY <1>2, <1>4, BusyClaim
  <2>2. claim'[c] = [claim[c] EXCEPT !.stale = TRUE]
    BY <1>2, <1>4 DEF ReleaseStale
  <2>3. QED
    BY <1>4, <2>1, <2>2 DEF Claim, Current
<1>5. QED
  BY <1>3, <1>4

\* ... and of the others.
LEMMA NotOutdated ==
    ASSUME NEW C, NEW J, ReleaseStale(C, J), NEW j \in Jobs, j \notin J
    PROVE  \A c \in {j} \X Slots : Kept(c)
<1>1. \A c \in {j} \X Slots : c \in Claims /\ c[1] = j
  OBVIOUS
<1>2. QED
  BY <1>1 DEF ReleaseStale, Free, Kept

\* A batch answers for the holder of a lease, or late.
LEMMA WriteLease ==
    ASSUME IInv, ExclusiveDelivery', NEW kind \in Batches, NEW s \in Sessions,
           Write(kind, s), NEW j \in Jobs
    PROVE  Lease!Step(j) \/ Lease!Stay(j)
<1> USE DEF IInv
<1> DEFINE B == At(kind, s)
           C == Matched(B, s)
           J == JobsOf(C)
<1>1. C \subseteq B /\ B \subseteq Claims /\ \A c \in B : claim[c].stage = kind
  BY AtType DEF Matched
<1>2. CASE Release(B) /\ UNCHANGED job
  <2>1. \A c \in {j} \X Slots : Kept(c)
    BY <1>2, ReleaseKept
  <2>2. QED
    BY <1>2, <2>1, LeaseStays
<1>3. CASE /\ ReleaseStale(B, J)
           /\ \A i \in Jobs \ J : job'[i] = job[i]
           /\ \A i \in J : Exists(i) /\ job'[i].status \in {"READY", "SUCCESS", "FAILURE"}
  <2>1. CASE j \notin J
    <3>1. \A c \in {j} \X Slots : Kept(c)
      BY <1>3, <2>1, NotOutdated
    <3>2. job'[j] = job[j]
      BY <1>3, <2>1
    <3>3. QED
      BY <3>1, <3>2, LeaseStays
  <2>2. CASE j \in J
    <3>1. PICK c \in C : c[1] = j
      BY <2>2 DEF JobsOf
    <3>2. /\ c \in {j} \X Slots /\ c \in B
          /\ claim[c].stage # "free" /\ claim[c].stage # "locked"
      BY <1>1, <3>1
    <3>3. \A d \in {j} \X Slots : /\ ~Current(d)'
                                  /\ claim'[d].stage # "free" => d \notin B /\ claim[d].stage # "free"
      BY <1>3, <2>2, Outdated
    <3>4. holderOf(j)' = None
      BY <3>3, HolderNext DEF ExclusiveDelivery
    <3>5. /\ Exists(j) /\ Phase(j)' \in {"waiting", "ended"}
          /\ Phase(j) \in {"waiting", "leased", "paused", "ended"}
      BY <1>3, <2>2 DEF Exists, Status, Terminal, Phase, phaseOf
    <3>6. CASE claim[c].stale
      <4>1. Forgotten(j)
        BY <3>2, <3>5, <3>6 DEF Forgotten, UnderWay
      <4>2. QED
        BY <3>4, <3>5, <4>1, UsurpSteps DEF Lease!Step
    <3>7. CASE ~claim[c].stale
      <4>1. Current(c)
        BY <3>2, <3>7 DEF Current
      <4>2. job[j].status = "PENDING"
        <5>1. job[j].status \in {"PENDING", "DELETED"}
          BY <3>2, <4>1 DEF ExclusiveDelivery, Exclusive
        <5>2. QED
          BY <5>1, <3>5 DEF Exists, Status, Terminal
      <4>3. holderOf(j) # None
        BY <3>2, <4>1, <4>2, HolderOf DEF ExclusiveDelivery
      <4>4. ASSUME Forgotten(j)' PROVE Forgotten(j)
        <5>1. PICK d \in {j} \X Slots : claim'[d].stage # "free"
          BY <4>4 DEF Forgotten, UnderWay
        <5>2. d # c /\ claim[d].stage # "free"
          BY <3>2, <3>3, <5>1
        <5>3. ~Current(d)
          BY <3>2, <4>1, <5>2 DEF ExclusiveDelivery, Exclusive
        <5>4. QED
          BY <3>5, <5>2, <5>3 DEF Current, Forgotten, UnderWay
      <4>5. Phase(j) = "leased"
        BY <4>2, PhaseOf
      <4>6. QED
        BY <3>4, <3>5, <4>3, <4>4, <4>5, LeaseSteps DEF Lease!Step
    <3>8. QED
      BY <3>6, <3>7
  <2>3. QED
    BY <2>1, <2>2
<1>4. QED
  BY <1>2, <1>3, WriteRows

\* The resetter revokes leases.
LEMMA ResetLease ==
    ASSUME IInv, ExclusiveDelivery', NEW s \in Sessions, Reset(s), NEW j \in Jobs
    PROVE  Lease!Step(j) \/ Lease!Stay(j)
<1> USE DEF IInv
<1> DEFINE J == LateRows(ExecutorOf[s])
<1>1. /\ ReleaseStale({}, J)
      /\ job'[j] = IF j \in J THEN [job[j] EXCEPT !.status = "READY", !.late = FALSE]
                              ELSE job[j]
  BY DEF Reset, ResetTimeoutJobs
<1>2. CASE j \notin J
  <2>1. \A c \in {j} \X Slots : Kept(c)
    BY <1>1, <1>2, NotOutdated
  <2>2. QED
    BY <1>1, <1>2, <2>1, LeaseStays
<1>3. CASE j \in J
  <2>1. job[j] \in Row
    BY DEF TypeOK, TableOK
  <2>2. job[j].status = "PENDING" /\ job'[j].status = "READY"
    BY <1>1, <1>3, <2>1 DEF Row, LateRows
  <2>3. Phase(j) = "leased" /\ Phase(j)' = "waiting"
    BY <2>2, PhaseOf, PhaseNext
  <2>4. \A d \in {j} \X Slots : /\ ~Current(d)'
                                /\ claim'[d].stage # "free" => claim[d].stage # "free"
    BY <1>1, <1>3, Outdated
  <2>5. holderOf(j)' = None
    BY <2>4, HolderNext DEF ExclusiveDelivery
  <2>6. ASSUME Forgotten(j)' PROVE Forgotten(j) \/ holderOf(j) # None
    <3>1. PICK d \in {j} \X Slots : claim'[d].stage # "free"
      BY <2>6 DEF Forgotten, UnderWay
    <3>2. claim[d].stage # "free"
      BY <2>4, <3>1
    <3>3. CASE Current(d)
      BY <2>2, <3>3, HolderOf DEF ExclusiveDelivery
    <3>4. CASE ~Current(d)
      BY <2>2, <3>2, <3>4 DEF Current, Forgotten, UnderWay, Exists, Status
    <3>5. QED
      BY <3>3, <3>4
  <2>7. QED
    BY <2>3, <2>5, <2>6, UsurpSteps DEF Lease!Step
<1>4. QED
  BY <1>2, <1>3

\* A claim is of a job that was created: else the insert of a job would make a
\* forgotten execution of it.
ClaimsHaveRows ==
    \A c \in Claims : claim[c].stage # "free" => job[c[1]].status # "UNUSED"

LEMMA StepHaveRows ==
    ASSUME IInv, ClaimsHaveRows, [Next]_vars
    PROVE  ClaimsHaveRows'
<1> USE DEF IInv
<1>1. SUFFICES ASSUME NEW c \in Claims, claim'[c].stage # "free"
               PROVE  job'[c[1]].status # "UNUSED"
  BY DEF ClaimsHaveRows
<1>2. RowKept(c[1])
  BY StepRows
<1>3. CASE claim[c].stage # "free"
  BY <1>2, <1>3 DEF ClaimsHaveRows, RowKept
<1>4. ASSUME NEW s \in Sessions, PollBegin(s), claim[c].stage = "free"
      PROVE  job'[c[1]].status # "UNUSED"
  <2>1. c[1] \in DueRows(ExecutorOf[s], Locked)
    BY <1>1, <1>4 DEF PollBegin, FirstOf
  <2>2. QED
    BY <1>4, <2>1 DEF DueRows, PollBegin
<1>5. ASSUME NEW d \in Claims, NEW s \in Sessions, Answer(d, s), claim[c].stage = "free"
      PROVE  FALSE
  <2>1. claim[d].stage = "running" /\ claim'[c] = claim[c]
    BY <1>5 DEF Answer, TypeOK
  <2>2. QED
    BY <1>1, <1>5, <2>1
<1>6. CASE \A d \in Claims : Follows(d)
  BY <1>1, <1>3, <1>6 DEF Follows
<1>7. QED
  BY <1>3, <1>4, <1>5, <1>6, StepFollows

\* Users create, stop, restart and delete; their updates leave the lease alone.
LEMMA MutateLease ==
    ASSUME IInv, ExclusiveDelivery', ClaimsHaveRows, NEW j \in Jobs,
           \/ \E x \in Executors, e \in Exprs : Create(x, e)
           \/ \E i \in Jobs : Mutate(i) \/ Tick(i)
    PROVE  Lease!Step(j) \/ Lease!Stay(j)
<1> USE DEF IInv
<1>0. job[j] \in Row
  BY DEF TypeOK, TableOK
<1>1. \A c \in {j} \X Slots : Kept(c)
  <2>1. UNCHANGED claim
    BY DEF Create, Mutate, Tick
  <2>2. QED
    BY <2>1 DEF Kept
<1>2. CASE job'[j].status = job[j].status
  BY <1>1, <1>2, LeaseStays
<1>3. ASSUME NEW x \in Executors, NEW e \in Exprs, Create(x, e), job'[j] # job[j]
      PROVE  Lease!Step(j)
  <2>1. PICK i \in Jobs : /\ job[i].status = "UNUSED"
                          /\ \E d, sp \in BOOLEAN :
                                job' = [job EXCEPT ![i] =
                                    [status |-> "READY", executor |-> x, expr |-> e,
                                     due |-> d, late |-> FALSE, spent |-> sp]]
    BY <1>3 DEF Create, CreateJob
  <2>2. job'[i].status = "READY" /\ \A k \in Jobs \ {i} : job'[k] = job[k]
    BY <2>1 DEF TypeOK, TableOK
  <2>3. job[j].status = "UNUSED" /\ job'[j].status = "READY"
    BY <1>3, <2>1, <2>2
  <2>4. Phase(j) = "absent" /\ Phase(j)' = "waiting"
    BY <2>3, PhaseOf, PhaseNext
  <2>5. holderOf(j)' = None
    BY <2>3, HolderNext DEF ExclusiveDelivery
  <2>6. \A c \in {j} \X Slots : c \in Claims /\ c[1] = j
    OBVIOUS
  <2>7. \A c \in {j} \X Slots : claim'[c].stage = "free"
    BY <2>3, <2>6, <1>1 DEF ClaimsHaveRows, Kept
  <2>8. ~Forgotten(j)'
    BY <2>7 DEF Forgotten, UnderWay
  <2>9. QED
    BY <2>4, <2>5, <2>8, LeaseSteps DEF Lease!Step
<1>4. ASSUME NEW i \in Jobs, Mutate(i), job'[j].status # job[j].status
      PROVE  Lease!Step(j)
  <2>1. j = i
    <3>1. \A k \in Jobs \ {i} : job'[k] = job[k]
      BY <1>4 DEF Mutate, UpdateJob, UpdateExprByID, StopJob, RestartJob, DeleteJob,
                  TypeOK, TableOK
    <3>2. QED
      BY <1>4, <3>1
  <2>2. ASSUME NEW e \in Exprs, UpdateJob(j, e)
        PROVE  FALSE
    <3>1. PICK d, l \in BOOLEAN : job' = [job EXCEPT ![j].expr = e, ![j].due = d, ![j].late = l]
      BY <2>2 DEF UpdateJob
    <3>2. job'[j] = [job[j] EXCEPT !.expr = e, !.due = d, !.late = l]
      BY <3>1 DEF TypeOK, TableOK
    <3>3. QED
      BY <1>0, <1>4, <3>2 DEF Row
  <2>3. ASSUME NEW e \in Exprs, UpdateExprByID(j, e)
        PROVE  FALSE
    BY <1>0, <1>4, <2>3 DEF UpdateExprByID, TypeOK, TableOK, Row
  <2>4. CASE StopJob(j)
    <3>1. job[j].status \in {"READY", "PAUSED"} /\ job'[j].status = "PAUSED"
      BY <1>0, <2>4 DEF StopJob, Status, Terminal, TypeOK, TableOK, Row
    <3>2. Phase(j) \in {"waiting", "paused"} /\ Phase(j)' = "paused"
      BY <3>1, PhaseOf, PhaseNext
    <3>3. holderOf(j)' = None
      BY <3>1, HolderNext DEF ExclusiveDelivery
    <3>4. Forgotten(j)' => Forgotten(j)
      BY <1>1, <3>1, KeptForgotten DEF Exists, Status
    <3>5. QED
      BY <3>2, <3>3, <3>4, LeaseSteps DEF Lease!Step
  <2>5. CASE RestartJob(j)
    <3>1. job[j].status = "PAUSED" /\ job'[j].status = "READY"
      BY <1>0, <2>5 DEF RestartJob, TypeOK, TableOK, Row
    <3>2. Phase(j) = "paused" /\ Phase(j)' = "waiting"
      BY <3>1, PhaseOf, PhaseNext
    <3>3. holderOf(j)' = None
      BY <3>1, HolderNext DEF ExclusiveDelivery
    <3>4. Forgotten(j)' => Forgotten(j)
      BY <1>1, <3>1, KeptForgotten DEF Exists, Status
    <3>5. QED
      BY <3>2, <3>3, <3>4, LeaseSteps DEF Lease!Step
  <2>6. CASE DeleteJob(j)
    <3>1. Exists(j) /\ job'[j].status = "DELETED"
      BY <2>6 DEF DeleteJob, Absent, TypeOK, TableOK
    <3>2. /\ Phase(j) \in {"waiting", "leased", "paused", "ended"}
          /\ Phase(j)' = "gone"
      BY <3>1, PhaseNext DEF Exists, Status, Terminal, Phase, phaseOf
    <3>3. holderOf(j)' = None
      BY <3>1, HolderNext DEF ExclusiveDelivery
    <3>4. Forgotten(j)' => Forgotten(j)
      BY <1>1, <3>1, KeptForgotten
    <3>5. QED
      BY <3>2, <3>3, <3>4, LeaseSteps DEF Lease!Step
  <2>7. QED
    BY <1>4, <2>1, <2>2, <2>3, <2>4, <2>5, <2>6 DEF Mutate
<1>5. ASSUME NEW i \in Jobs, Tick(i)
      PROVE  job'[j].status = job[j].status
  <2>1. \/ job'[j] = job[j]
        \/ job'[j] \in {[job[j] EXCEPT !.due = TRUE], [job[j] EXCEPT !.late = TRUE]}
    BY <1>5 DEF Tick, Elapse, Expire, TypeOK, TableOK
  <2>2. QED
    BY <1>0, <2>1 DEF Row
<1>6. QED
  BY <1>2, <1>3, <1>4, <1>5

LEMMA StepLease ==
    ASSUME IInv, ExclusiveDelivery', ClaimsHaveRows, [Next]_vars, NEW j \in Jobs
    PROVE  Lease!Step(j) \/ Lease!Stay(j)
<1> USE DEF IInv
\* Steps that leave the table alone and keep what claims there are.
<1>1. ASSUME UNCHANGED job, \A c \in Claims : Kept(c)
      PROVE  Lease!Step(j) \/ Lease!Stay(j)
  <2>1. \A c \in {j} \X Slots : Kept(c)
    BY <1>1
  <2>2. QED
    BY <1>1, <2>1, LeaseStays
<1>2. ASSUME NEW s \in Sessions,
             PollBegin(s) \/ PollCommit(s) \/ PollCommitLost(s) \/ Reset(s)
      PROVE  Lease!Step(j) \/ Lease!Stay(j)
  BY <1>2, PollBeginLease, PollCommitLease, ResetLease
<1>3. ASSUME NEW s \in Sessions, PollAbort(s) \/ FlushError(s)
      PROVE  Lease!Step(j) \/ Lease!Stay(j)
  BY <1>1, <1>3, ReleaseKept DEF PollAbort, FlushError
<1>4. ASSUME NEW s \in Sessions, Deliver(s)
      PROVE  Lease!Step(j) \/ Lease!Stay(j)
  <2>1. PICK d \in At("fetched", s) : Move({d}, "running") /\ UNCHANGED job
    BY <1>4 DEF Deliver
  <2>2. {d} \in SUBSET Claims /\ \A c \in {d} : claim[c].stage # "free"
    BY AtType
  <2>3. QED
    BY <1>1, <2>1, <2>2, MoveKept
<1>5. ASSUME NEW s \in Sessions, FlushCommit(s) \/ FlushFail(s) \/ FlushRetry(s)
      PROVE  Lease!Step(j) \/ Lease!Stay(j)
  <2>1. PICK kind \in Batches :
           Write(kind, s) \/ (Release(At(kind, s)) /\ UNCHANGED job)
    BY <1>5, FlushIsBatch
  <2>2. QED
    BY <1>1, <2>1, WriteLease, ReleaseKept
<1>6. ASSUME NEW c \in Claims, Abandon(c)
      PROVE  Lease!Step(j) \/ Lease!Stay(j)
  BY <1>1, <1>6, ReleaseKept DEF Abandon
<1>7. ASSUME NEW d \in Claims, NEW s \in Sessions, Answer(d, s)
      PROVE  Lease!Step(j) \/ Lease!Stay(j)
  <2>1. PICK kind \in Answers, e \in {claim[d].expr} \cup HandlerExprs, b \in BadAnswers :
           claim' = [claim EXCEPT ![d] = [@ EXCEPT !.stage = BatchFor(kind, e),
                                                   !.at = s, !.expr = e, !.bad = b]]
    BY <1>7 DEF Answer
  <2>2. UNCHANGED job /\ claim[d].stage = "running" /\ claim[d] \in Claim
    BY <1>7, BusyClaim DEF Answer
  <2>3. claim'[d] = [claim[d] EXCEPT !.stage = BatchFor(kind, e), !.at = s, !.expr = e, !.bad = b]
    BY <2>1 DEF TypeOK
  <2>4. claim'[d].stale = claim[d].stale
    BY <2>2, <2>3 DEF Claim
  <2>5. \A c \in Claims \ {d} : claim'[c] = claim[c]
    BY <2>1 DEF TypeOK
  <2>6. \A c \in Claims : Kept(c)
    BY <2>2, <2>4, <2>5 DEF Kept
  <2>7. QED
    BY <1>1, <2>2, <2>6
<1>8. ASSUME NEW k \in Clients, Crash(k)
      PROVE  Lease!Step(j) \/ Lease!Stay(j)
  BY <1>1, <1>8, ReleaseKept DEF Crash
<1>9. ASSUME \/ \E x \in Executors, e \in Exprs : Create(x, e)
             \/ \E i \in Jobs : Mutate(i) \/ Tick(i)
      PROVE  Lease!Step(j) \/ Lease!Stay(j)
  BY <1>9, MutateLease
<1>10. CASE UNCHANGED <<job, claim>>
  BY <1>1, <1>10 DEF Kept
<1>11. QED
  BY <1>2, <1>3, <1>4, <1>5, <1>6, <1>7, <1>8, <1>9, <1>10
     DEF Next, Poller, Flusher, Fetch, Cancel, Leave, FlushStart, vars

LEMMA InitLease == Init => ClaimsHaveRows /\ Lease!Init
<1> SUFFICES ASSUME Init PROVE ClaimsHaveRows /\ Lease!Init
  OBVIOUS
<1>1. \A j \in Jobs : job[j].status = "UNUSED"
  BY DEF Init, TableInit, Absent
<1>2. \A j \in Jobs : phaseOf(job[j].status) = "absent" /\ holderOf(j) = None /\ ~Exists(j)
  BY <1>1 DEF phaseOf, holderOf, Exists, Status, Terminal
<1>3. QED
  BY <1>2 DEF Init, Free, ClaimsHaveRows, Lease!Init

\* Clients, pollers, flushers, resetters, users and faults together implement
\* JobLease: a lease goes from job to execution and back in the ways listed there
\* and in no other.
THEOREM LeasesKept == Spec => KeepsLeases
<1> DEFINE LeaseInv == IInv /\ ClaimsHaveRows
<1>1. Init => LeaseInv /\ Lease!Init
  BY InitType, InitExclusive, InitLease DEF IInv
<1>2. LeaseInv /\ [Next]_vars => LeaseInv' /\ Lease!Next
  <2>1. SUFFICES ASSUME LeaseInv, [Next]_vars
                 PROVE  LeaseInv' /\ Lease!Next
    OBVIOUS
  <2>2. IInv'
    BY <2>1, StepType, StepExclusive DEF IInv
  <2>3. ClaimsHaveRows'
    BY <2>1, StepHaveRows
  <2>4. \A j \in Jobs : Lease!Step(j) \/ Lease!Stay(j)
    BY <2>1, <2>2, StepLease DEF IInv
  <2>5. Lease!Next
    BY <2>4 DEF Lease!Next
  <2>6. QED
    BY <2>2, <2>3, <2>5
<1>3. QED
  BY <1>1, <1>2, PTL DEF Spec, KeepsLeases, Lease!Spec
=============================================================================

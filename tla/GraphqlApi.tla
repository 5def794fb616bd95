----------------------------- MODULE GraphqlApi -----------------------------
(***************************************************************************)
(* The GraphQL API that Client.Handler serves, over the pool of OwnerPool:  *)
(* requests, the calls of their fields, and the statements and transactions *)
(* by which the resolvers of job_resolvers.go carry the calls out.          *)
(*                                                                          *)
(* An operation is a record: its kind, the owner its header names, and its  *)
(* selection, a sequence of fields with their raw arguments.  The calls of  *)
(* a mutation run one after the other, those of a query concurrently.  A    *)
(* call borrows a connection, runs its statements, and returns it; what a   *)
(* transaction has written and not committed is its draft, and the rows of  *)
(* the draft are the ones it has locked.                                    *)
(*                                                                          *)
(* An operator whose name starts with "Mutant" is the definition after it   *)
(* with a bug.                                                              *)
(***************************************************************************)
EXTENDS OwnedTable, Sequences

CONSTANTS
    Requests,    \* numbered in the order in which they arrive
    MaxFields,   \* the longest selection
    Traffic,     \* Traffic[r]: the operations the r-th request may be, in a sequence
    Tables,      \* what the table may hold when the server starts
    MaxSearch,   \* the limit that SearchJobs refuses to exceed, 1000
    MaxFaults    \* bound: connections that break and clients that leave

ASSUME GraphqlApiAssumption ==
    /\ Requests \subseteq Nat /\ MaxFields \in Nat /\ MaxFaults \in Nat
    /\ \A r \in Requests : \A n \in DOMAIN Traffic[r] :
          /\ Traffic[r][n].owner \in Owners
          /\ DOMAIN Traffic[r][n].sel \subseteq 1..MaxFields

VARIABLES
    req,         \* req[r]: the r-th request
    call,        \* call[<<r, i>>]: the call of its i-th field
    faults

vars == <<job, tag, conn, up, req, call, faults>>

Calls == Requests \X (1..MaxFields)

Op(r)    == req[r].op
Field(c) == Op(c[1]).sel[c[2]].f
Arg(c)   == Op(c[1]).sel[c[2]].a
Owner(c) == Op(c[1]).owner

Selected(r) == DOMAIN Op(r).sel

NoOp == [kind |-> "none", owner |-> Nobody, sel |-> <<>>]
Operations == {NoOp} \cup UNION {{Traffic[r][n] : n \in DOMAIN Traffic[r]} : r \in Requests}

NoDraft == [j \in Jobs |-> Absent("UNUSED")]

\* A call is waiting until the pool has lent it a connection, cut when the
\* client leaves while the pool is at it, open while it has the connection.
\* `pos' statements of its batch are done, `out' is the list it answers with.
\* `applied' is a history: what it was asked to do has been done.
Waiting == [st |-> "waiting", conn |-> 0, draft |-> NoDraft, pos |-> 0,
            ok |-> FALSE, out |-> {}, applied |-> FALSE]

\* The table is one that keeps to its constraints.
Init == /\ \E t \in Tables : job = t.job /\ tag = t.tag
        /\ TableOK /\ TagsOK /\ UniqueOK
        /\ PoolInit
        /\ req = [r \in Requests |-> [st |-> "none", gone |-> FALSE, op |-> NoOp]]
        /\ call = [c \in Calls |-> Waiting]
        /\ faults = 0

-----------------------------------------------------------------------------
(* The arguments that decode.  A string always does, an ID and an Int when  *)
(* they are numbers.  "" stands for a null or an empty string, which the    *)
(* statements take for no argument, and "wrong" for a text they refuse.     *)

Text == Exprs \cup {"", "wrong"}

unmarshalInputCreateJobArgs    == [expr : Text, name : Names, key : Keys \cup {NoKey}]
unmarshalInputUpdateJobArgs    == [expr : Text]
unmarshalInputCommitArgs       == [id : Jobs, expr : Text]
unmarshalInputQueryJobsArgs    == [limit : Int, skip : Int, filter : SUBSET Names]
unmarshalInputQueryJobsMetaArgs ==
    [limit : Int, skip : Int, filter : SUBSET Names, statuses : SUBSET Status,
     isOneShot : BOOLEAN]

field_Mutation_validateExprFormat_args == [expr : Text]
field_Mutation_createJob_args ==
    [executor : Executors, args : unmarshalInputCreateJobArgs]
field_Mutation_batchCreateJobs_args ==
    [executor : Executors, batch : Seq(unmarshalInputCreateJobArgs)]
field_Mutation_updateJobByName_args ==
    [executor : Executors, name : Names, args : unmarshalInputUpdateJobArgs]
field_Mutation_updateJobById_args ==
    [executor : Executors, id : Jobs, args : unmarshalInputUpdateJobArgs]
field_Mutation_updateStateByID_args == [executor : Executors, id : Jobs, state : Text]
field_Mutation_updateExprByID_args  == [executor : Executors, id : Jobs, expr : Text]
field_Mutation_deleteJobByName_args == [executor : Executors, name : Names]
field_Mutation_deleteJobByID_args   == [executor : Executors, id : Jobs]
field_Mutation_stopJob_args         == [executor : Executors, id : Jobs]
field_Mutation_restartJob_args      == [executor : Executors, id : Jobs]
field_Mutation_fetchForProcessing_args == [executor : Executors, limit : Int]
field_Mutation_commitJobs_args ==
    [executor : Executors, commits : Seq(unmarshalInputCommitArgs)]
field_Mutation_failJobs_args ==
    [executor : Executors, commits : Seq(unmarshalInputCommitArgs)]
field_Mutation_retryJobs_args ==
    [executor : Executors, commits : Seq(unmarshalInputCommitArgs)]
field_Query_searchJobs_args ==
    [executor : Executors, args : unmarshalInputQueryJobsArgs]
field_Query_searchJobsByMeta_args ==
    [executor : Executors, args : unmarshalInputQueryJobsMetaArgs]
field_Query_queryJobByName_args == [executor : Executors, name : Names]
field_Query_queryJobByID_args   == [executor : Executors, id : Jobs]
field_Query_lastUpdate_args     == [executor : Executors]

Decodes(f, a) ==
    CASE f = "validateExprFormat" -> a \in field_Mutation_validateExprFormat_args
      [] f = "createJob"          -> a \in field_Mutation_createJob_args
      [] f = "batchCreateJobs"    -> a \in field_Mutation_batchCreateJobs_args
      [] f = "updateJobByName"    -> a \in field_Mutation_updateJobByName_args
      [] f = "updateJobById"      -> a \in field_Mutation_updateJobById_args
      [] f = "updateStateByID"    -> a \in field_Mutation_updateStateByID_args
      [] f = "updateExprByID"     -> a \in field_Mutation_updateExprByID_args
      [] f = "deleteJobByName"    -> a \in field_Mutation_deleteJobByName_args
      [] f = "deleteJobByID"      -> a \in field_Mutation_deleteJobByID_args
      [] f = "stopJob"            -> a \in field_Mutation_stopJob_args
      [] f = "restartJob"         -> a \in field_Mutation_restartJob_args
      [] f = "fetchForProcessing" -> a \in field_Mutation_fetchForProcessing_args
      [] f = "commitJobs"         -> a \in field_Mutation_commitJobs_args
      [] f = "failJobs"           -> a \in field_Mutation_failJobs_args
      [] f = "retryJobs"          -> a \in field_Mutation_retryJobs_args
      [] f = "searchJobs"         -> a \in field_Query_searchJobs_args
      [] f = "searchJobsByMeta"   -> a \in field_Query_searchJobsByMeta_args
      [] f = "queryJobByName"     -> a \in field_Query_queryJobByName_args
      [] f = "queryJobByID"       -> a \in field_Query_queryJobByID_args
      [] f = "lastUpdate"         -> a \in field_Query_lastUpdate_args

-----------------------------------------------------------------------------
(* Requests.                                                                *)

\* The middleware of OwnerSetter puts the owner of the header, or "default",
\* into the context of the request.
Receive(r) ==
    /\ up /\ req[r].st = "none"
    /\ \A q \in Requests : q < r => req[q].st # "none"
    /\ \E n \in DOMAIN Traffic[r] :
          req' = [req EXCEPT ![r] = [st |-> "running", gone |-> FALSE, op |-> Traffic[r][n]]]
    /\ UNCHANGED <<job, tag, poolVars, call, faults>>

\* Exec runs a query's fields at once (_Query), and those of a mutation in
\* their order, each after the one before it, whatever came of it (_Mutation).
QueryFields(c) == Op(c[1]).kind = "query"

\* a field that failed holds up the ones after it
MutantMutationFields(c) ==
    /\ Op(c[1]).kind = "mutation"
    /\ \A i \in 1..(c[2] - 1) : call[<<c[1], i>>].st = "done" /\ call[<<c[1], i>>].ok

MutationFields(c) ==
    /\ Op(c[1]).kind = "mutation"
    /\ \A i \in 1..(c[2] - 1) : call[<<c[1], i>>].st = "done"

Turn(c) == /\ up /\ req[c[1]].st = "running" /\ c[2] \in Selected(c[1])
           /\ (QueryFields(c) \/ MutationFields(c))

\* Answered before there is a connection: the arguments do not decode, or
\* SearchJobs is asked for too many jobs.
Refused(c) == \/ ~Decodes(Field(c), Arg(c))
              \/ Field(c) = "searchJobs" /\ Arg(c).args.limit > MaxSearch

Begins(c) == Turn(c) /\ call[c].st = "waiting" /\ ~Refused(c)

\* RetryJobs does as CommitJobs and FailJobs do
MutantBackground(c) == Field(c) \in {"commitJobs", "failJobs", "retryJobs"}

\* CommitJobs and FailJobs send their batches with context.Background().
Background(c) == Field(c) \in {"commitJobs", "failJobs"}

\* The client's connection closes, and its context is done: at once for the
\* calls that the pool is about to serve.
Leave(r) ==
    /\ up /\ req[r].st = "running" /\ ~req[r].gone /\ faults < MaxFaults
    /\ req' = [req EXCEPT ![r].gone = TRUE]
    /\ call' = [c \in Calls |-> IF c[1] = r /\ Begins(c) /\ ~Background(c)
                                THEN [call[c] EXCEPT !.st = "cut"] ELSE call[c]]
    /\ faults' = faults + 1
    /\ UNCHANGED <<job, tag, poolVars>>

\* The response has data only if every field that must not be null is there,
\* though others may have taken effect.
HasData(r) ==
    \A i \in Selected(r) : call[<<r, i>>].ok \/ Field(<<r, i>>) = "lastUpdate"

Respond(r) ==
    /\ up /\ req[r].st = "running"
    /\ \A i \in Selected(r) : call[<<r, i>>].st = "done"
    /\ req' = [req EXCEPT ![r] = [st |-> IF HasData(r) THEN "data" ELSE "null",
                                  gone |-> FALSE, op |-> NoOp]]
    /\ call' = [c \in Calls |-> IF c[1] = r THEN Waiting ELSE call[c]]
    /\ UNCHANGED <<job, tag, poolVars, faults>>

-----------------------------------------------------------------------------
(* The end of a call.                                                       *)

Settle(c, ok, out, applied) ==
    call' = [call EXCEPT ![c] = [Waiting EXCEPT !.st = "done", !.ok = ok, !.out = out,
                                                !.applied = applied]]

\* RetryJobs logs the errors, and reports nothing
MutantUnapplied(c, read) ==
    CASE Field(c) = "retryJobs" -> Settle(c, TRUE, {}, FALSE)
      [] Field(c) = "fetchForProcessing" -> Settle(c, call[c].pos = 1, {}, FALSE)
      [] OTHER -> Settle(c, FALSE, {}, FALSE)

\* Nothing took effect, although `read' results of the batch had arrived.
\* RetryJobs, like CommitJobs and FailJobs, reports the ids of the others as
\* failed, and no error;
\* FetchForProcessing returns the error of FetchDueJobs, nil, when its commit
\* fails; any other resolver returns the error.
Unapplied(c, read) ==
    CASE Field(c) \in {"commitJobs", "failJobs", "retryJobs"} ->
            Settle(c, TRUE, {Arg(c).commits[i].id : i \in (read + 1)..Len(Arg(c).commits)}, FALSE)
      [] Field(c) = "fetchForProcessing" -> Settle(c, call[c].pos = 1, {}, FALSE)
      [] OTHER -> Settle(c, FALSE, {}, FALSE)

\* A statement fails, the transaction is rolled back.
Errors(c) ==
    /\ Unapplied(c, call[c].pos)
    /\ Release(call[c].conn, TRUE)
    /\ UNCHANGED <<job, tag, faults>>

\* The connection of a call breaks, or its context is done, which closes the
\* connection as well.
Drops(c) == \/ req[c[1]].gone /\ UNCHANGED faults
            \/ faults < MaxFaults /\ faults' = faults + 1

\* The answer of a statement that read, and of one that wrote, where it may
\* be lost.
Reads(c, out) ==
    /\ Settle(c, TRUE, out, TRUE)
    /\ Release(call[c].conn, TRUE)
    /\ UNCHANGED <<job, tag, faults>>

Returns(c, out) ==
    \/ Settle(c, TRUE, out, TRUE) /\ Release(call[c].conn, TRUE) /\ UNCHANGED faults
    \/ Settle(c, FALSE, {}, TRUE) /\ Release(call[c].conn, FALSE) /\ Drops(c)

\* The connection breaks in a statement, or the commit does not arrive: the
\* transaction is rolled back.  The results of a batch arrive in order, those
\* of a batch that is not committed never all of them.
Lost(c) ==
    /\ up /\ call[c].st = "open"
    /\ \E read \in 0..call[c].pos :
          /\ Field(c) = "retryJobs" => read < Len(Arg(c).commits)
          /\ Unapplied(c, read)
    /\ Release(call[c].conn, FALSE)
    /\ Drops(c)
    /\ UNCHANGED <<job, tag, req>>

-----------------------------------------------------------------------------
(* Before the statements: arguments and connection.                         *)

Refuse(c) ==
    /\ Turn(c) /\ call[c].st = "waiting" /\ Refused(c)
    /\ Settle(c, FALSE, {}, FALSE)
    /\ UNCHANGED <<job, tag, poolVars, req, faults>>

Acquire(c) ==
    /\ Begins(c) /\ ~req[c[1]].gone
    /\ \E k \in Conns :
          /\ BeforeAcquire(k, FromCtx(~Background(c), Owner(c)))
          /\ call' = [call EXCEPT ![c].st = "open", ![c].conn = k]
    /\ UNCHANGED <<job, tag, req, faults>>

\* The pool returns an error: the context is done, or the server does not
\* accept another connection.
AcquireFails(c) ==
    /\ \/ Turn(c) /\ call[c].st = "cut" /\ UNCHANGED faults
       \/ Begins(c) /\ req[c[1]].gone /\ ~Background(c) /\ UNCHANGED faults
       \/ /\ Begins(c) /\ faults < MaxFaults /\ faults' = faults + 1
          /\ \E k \in Conns : Available(k) /\ conn[k].st = "closed"
    /\ Unapplied(c, 0)
    /\ UNCHANGED <<job, tag, poolVars, req>>

\* log.Fatal: no deferred call runs, the server rolls back what is open.
Fatal(c) ==
    /\ Turn(c) /\ call[c].st \in {"waiting", "cut"} /\ ~Refused(c)
    /\ AcquireFatal(FromCtx(~Background(c), Owner(c)), call[c].st = "cut")
    /\ call' = [d \in Calls |-> Waiting]
    /\ UNCHANGED <<job, tag, req, faults>>

Exits(c) == Fatal(c) /\ Field(c) \notin {"commitJobs", "failJobs"}

-----------------------------------------------------------------------------
(* Statements.                                                              *)

Setting(c) == conn[call[c].conn].owner
Executor(c) == Arg(c).executor

\* The rows that the transaction of c has written, and that it finds locked.
Drafted(c) == {j \in Jobs : call[c].draft[j].status # "UNUSED"}
Locked(c)  == UNION {Drafted(d) : d \in Calls \ {c}}

\* What the next statement of a batch is about.
InsertArgs(c) == IF Field(c) = "createJob" THEN Arg(c).args ELSE Arg(c).batch[call[c].pos + 1]
Commit(c)     == Arg(c).commits[call[c].pos + 1]

Conflicting(c) == {j \in Jobs : Conflicts(tag[j], Tagged(Owner(c), InsertArgs(c)))}

\* The rows whose locks the next statement waits for, if others have them:
\* those it writes, or those with a name or key that it inserts.
Needs(c) ==
    CASE Field(c) = "createJob" -> Conflicting(c)
      [] Field(c) = "batchCreateJobs" ->
            IF call[c].pos < Len(Arg(c).batch) THEN Conflicting(c) ELSE {}
      [] Field(c) = "retryJobs" ->
            IF call[c].pos < Len(Arg(c).commits)
            THEN ById(Setting(c), Executor(c), Commit(c).id) ELSE {}
      [] Field(c) \in {"updateJobByName", "deleteJobByName"} ->
            ByName(Setting(c), Executor(c), Arg(c).name)
      [] Field(c) \in {"updateJobById", "updateStateByID", "updateExprByID",
                       "deleteJobByID", "stopJob", "restartJob"} ->
            ById(Setting(c), Executor(c), Arg(c).id)
      [] OTHER -> {}

Runs(c, f) == /\ up /\ call[c].st = "open" /\ Field(c) = f
              /\ Needs(c) \cap Locked(c) = {}
              /\ UNCHANGED req

\* Postgres aborts a transaction of a cycle of transactions that wait for
\* each other's locks.
Waits(c, d) == c # d /\ Needs(c) \cap Drafted(d) # {}

Deadlock(c) ==
    /\ up
    /\ \E S \in SUBSET {d \in Calls : call[d].st = "open"} :
          c \in S /\ \A d \in S : \E e \in S : Waits(d, e)
    /\ Errors(c)
    /\ UNCHANGED req

\* The schedule that a statement leaves in row j, if it gets the argument e.
Given(row, e) == IF e = "" THEN row.expr ELSE e

\* The transaction of c goes on, with row w for j in its draft.
Draft(c, j, w) ==
    call' = [call EXCEPT ![c].pos = call[c].pos + 1,
                         ![c].draft = [call[c].draft EXCEPT ![j] = w]]

\* commit
Publish(c) == job' = [j \in Jobs |-> IF j \in Drafted(c)
                                     THEN call[c].draft[j] ELSE job[j]]

\* there is no constraint on keys
MutantInsertRefused(c) ==
    \/ ~Insertable(InsertArgs(c))
    \/ Owner(c) # Setting(c)
    \/ Unused = {}
    \/ \E j \in Conflicting(c) : Exists(j) /\ tag[j].owner = Owner(c)

\* An insert is refused by a check, by the policy, at the end of the
\* sequence, or for a name or key that is taken.
InsertRefused(c) ==
    \/ ~Insertable(InsertArgs(c))
    \/ Owner(c) # Setting(c)
    \/ Unused = {}
    \/ \E j \in Conflicting(c) : Exists(j) \/ j \in Drafted(c)

-----------------------------------------------------------------------------
(* The resolvers and their statements, once the call has its connection.    *)
(* First those of a single statement on at most one row.                    *)

\* What is wrong is answered with false, or is not even an interval or a date
\* and fails in the cast.
mutationResolver_ValidateExprFormat(c) ==
    \/ Reads(c, {})
    \/ Arg(c).expr = "wrong" /\ Errors(c)

mutationResolver_CreateJob(c) ==
    \/ /\ ~InsertRefused(c)
       /\ \E j \in Jobs, w \in Inserted(Executor(c), InsertArgs(c)) :
             /\ NextId(j)
             /\ job' = [job EXCEPT ![j] = w]
             /\ tag' = [tag EXCEPT ![j] = Tagged(Owner(c), InsertArgs(c))]
             /\ Returns(c, {j})
    \/ InsertRefused(c) /\ Errors(c)

\* An update of rows S at most one of which is there, with schedule e: a
\* wrong one is refused only if there is a row to write it to.
UpdateRefused(S, e) == S = {} \/ e = "wrong"

mutationResolver_UpdateJobByName(c) ==
    LET S == ByName(Setting(c), Executor(c), Arg(c).name)
        e == Arg(c).args.expr
    IN  \/ /\ ~UpdateRefused(S, e)
           /\ \E j \in S : UpdateJob(j, Given(job[j], e)) /\ Returns(c, {j})
           /\ UNCHANGED tag
        \/ UpdateRefused(S, e) /\ Errors(c)

mutationResolver_UpdateJobByID(c) ==
    LET S == ById(Setting(c), Executor(c), Arg(c).id)
        e == Arg(c).args.expr
    IN  \/ /\ ~UpdateRefused(S, e)
           /\ \E j \in S : UpdateJob(j, Given(job[j], e)) /\ Returns(c, {j})
           /\ UNCHANGED tag
        \/ UpdateRefused(S, e) /\ Errors(c)

\* The text of the state is not in the model: its length may be wrong.
mutationResolver_UpdateStateByID(c) ==
    LET S == ById(Setting(c), Executor(c), Arg(c).id)
    IN  \/ ~UpdateRefused(S, Arg(c).state) /\ Returns(c, S) /\ UNCHANGED <<job, tag>>
        \/ UpdateRefused(S, Arg(c).state) /\ Errors(c)

mutationResolver_UpdateExprByID(c) ==
    LET S == ById(Setting(c), Executor(c), Arg(c).id)
        e == Arg(c).expr
    IN  \/ /\ ~UpdateRefused(S, e)
           /\ \E j \in S : UpdateExprByID(j, Given(job[j], e)) /\ Returns(c, {j})
           /\ UNCHANGED tag
        \/ UpdateRefused(S, e) /\ Errors(c)

mutationResolver_DeleteJobByName(c) ==
    LET S == ByName(Setting(c), Executor(c), Arg(c).name)
    IN  \/ \E j \in S : DeleteJob(j) /\ Returns(c, {j}) /\ UNCHANGED tag
        \/ S = {} /\ Errors(c)

mutationResolver_DeleteJobByID(c) ==
    LET S == ById(Setting(c), Executor(c), Arg(c).id)
    IN  \/ \E j \in S : DeleteJob(j) /\ Returns(c, {j}) /\ UNCHANGED tag
        \/ S = {} /\ Errors(c)

mutationResolver_StopJob(c) ==
    LET S == {j \in ById(Setting(c), Executor(c), Arg(c).id) :
                 job[j].status \notin {"FAILURE", "SUCCESS", "PENDING"}}
    IN  \/ \E j \in S : StopJob(j) /\ Returns(c, {j}) /\ UNCHANGED tag
        \/ S = {} /\ Errors(c)

mutationResolver_RestartJob(c) ==
    LET S == {j \in ById(Setting(c), Executor(c), Arg(c).id) : job[j].status = "PAUSED"}
    IN  \/ \E j \in S : RestartJob(j) /\ Returns(c, {j}) /\ UNCHANGED tag
        \/ S = {} /\ Errors(c)

(* Then those of a transaction.                                             *)

\* Every insert of the batch in a transaction of its own, rolled back when
\* one of them fails.  The list that it answers with counts the inserts.
mutationResolver_BatchCreateJobs(c) ==
    LET n == Len(Arg(c).batch)
    IN  \/ /\ call[c].pos < n /\ ~InsertRefused(c)
           /\ \E j \in Jobs, w \in Inserted(Executor(c), InsertArgs(c)) :
                 NextId(j) /\ Draft(c, j, w)
                           /\ tag' = [tag EXCEPT ![j] = Tagged(Owner(c), InsertArgs(c))]
           /\ UNCHANGED <<job, poolVars, faults>>
        \/ call[c].pos < n /\ InsertRefused(c) /\ Errors(c)
        \/ call[c].pos = n /\ Publish(c) /\ Returns(c, 0..(n - 1)) /\ UNCHANGED tag

\* The rows that run_at < now() may hold of when the statement runs: those
\* of DueRows, and READY rows whose time has come by then.
DueByNow(c) ==
    LET mine == Visible(Setting(c)) \ Locked(c)
        due  == mine \cap DueRows(Executor(c), Locked(c))
    IN  {D \in SUBSET {j \in mine : job[j].status = "READY" /\ job[j].executor = Executor(c)} :
            due \subseteq D}

\* FetchDueJobs and the commit, whose failure is answered with no jobs and no
\* error.
mutationResolver_FetchForProcessing(c) ==
    LET limit == Int32(Arg(c).limit)
    IN  \/ call[c].pos = 0 /\ limit < 0 /\ Errors(c)
        \/ /\ call[c].pos = 0 /\ limit >= 0
           /\ \E D \in DueByNow(c) :
                 call' = [call EXCEPT ![c].pos = 1, ![c].draft =
                     [j \in Jobs |-> IF j \in FirstOf(D, limit)
                                     THEN [job[j] EXCEPT !.status = "PENDING", !.due = TRUE]
                                     ELSE Absent("UNUSED")]]
           /\ UNCHANGED <<job, tag, poolVars, faults>>
        \/ /\ call[c].pos = 1 /\ Publish(c)
           /\ \/ /\ Settle(c, TRUE, Drafted(c), TRUE)
                 /\ Release(call[c].conn, TRUE) /\ UNCHANGED faults
              \/ /\ Settle(c, TRUE, {}, TRUE)
                 /\ Release(call[c].conn, FALSE) /\ Drops(c)
           /\ UNCHANGED tag

\* The pool has no owner to set for the batch of context.Background().
mutationResolver_CommitJobs(c) == Fatal(c)
mutationResolver_FailJobs(c) == Fatal(c)

\* One implicit transaction.  A statement that finds no row is no error.
mutationResolver_RetryJobs(c) ==
    LET n == Len(Arg(c).commits)
        S == ById(Setting(c), Executor(c), Commit(c).id)
        Now(j) == IF j \in Drafted(c) THEN call[c].draft[j] ELSE job[j]
    IN  \/ /\ call[c].pos < n /\ S = {}
           /\ call' = [call EXCEPT ![c].pos = call[c].pos + 1]
           /\ UNCHANGED <<job, tag, poolVars, faults>>
        \/ /\ call[c].pos < n /\ ~UpdateRefused(S, Commit(c).expr)
           /\ \E j \in S : \E w \in Updated(Now(j), "READY", Given(Now(j), Commit(c).expr)) :
                 Draft(c, j, w)
           /\ UNCHANGED <<job, tag, poolVars, faults>>
        \/ call[c].pos < n /\ S # {} /\ Commit(c).expr = "wrong" /\ Errors(c)
        \/ /\ call[c].pos = n /\ Publish(c)
           /\ \/ Settle(c, TRUE, {}, TRUE) /\ Release(call[c].conn, TRUE) /\ UNCHANGED faults
              \/ /\ \E read \in 0..n : Settle(c, TRUE,
                          {Arg(c).commits[i].id : i \in (read + 1)..n}, TRUE)
                 /\ Release(call[c].conn, FALSE) /\ Drops(c)
           /\ UNCHANGED tag

(* The queries.                                                             *)

queryResolver_SearchJobs(c) ==
    LET a == Arg(c).args
    IN  \/ /\ Int32(a.skip) >= 0 /\ Int32(a.limit) >= 0
           /\ \E J \in SearchJobs(Setting(c), Executor(c), a.filter, Int32(a.skip),
                                  Int32(a.limit)) : Reads(c, J)
        \/ (Int32(a.skip) < 0 \/ Int32(a.limit) < 0) /\ Errors(c)

queryResolver_SearchJobsByMeta(c) ==
    LET a == Arg(c).args
    IN  \/ /\ Int32(a.skip) >= 0 /\ Int32(a.limit) >= 0
           /\ \E J \in SearchJobsByMeta(Setting(c), Executor(c), a, Int32(a.skip),
                                        Int32(a.limit)) : Reads(c, J)
        \/ (Int32(a.skip) < 0 \/ Int32(a.limit) < 0) /\ Errors(c)

queryResolver_QueryJobByName(c) ==
    LET found == GetJobByName(Setting(c), Executor(c), Arg(c).name)
    IN  \/ \E J \in found : Reads(c, J)
        \/ found = {} /\ Errors(c)

queryResolver_QueryJobByID(c) ==
    LET found == GetJobByID(Setting(c), Executor(c), Arg(c).id)
    IN  \/ \E J \in found : Reads(c, J)
        \/ found = {} /\ Errors(c)

\* Null when there are no rows, which is no error.
queryResolver_LastUpdate(c) == Reads(c, {})

(* The fields: a call with decoded arguments and a connection is handed to  *)
(* its resolver, whose error becomes the field's.                           *)

Mutation_validateExprFormat(c) ==
    Runs(c, "validateExprFormat") /\ mutationResolver_ValidateExprFormat(c)
Mutation_createJob(c) == Runs(c, "createJob") /\ mutationResolver_CreateJob(c)
Mutation_batchCreateJobs(c) ==
    Runs(c, "batchCreateJobs") /\ mutationResolver_BatchCreateJobs(c)
Mutation_updateJobByName(c) ==
    Runs(c, "updateJobByName") /\ mutationResolver_UpdateJobByName(c)
Mutation_updateJobById(c) == Runs(c, "updateJobById") /\ mutationResolver_UpdateJobByID(c)
Mutation_updateStateByID(c) ==
    Runs(c, "updateStateByID") /\ mutationResolver_UpdateStateByID(c)
Mutation_updateExprByID(c) ==
    Runs(c, "updateExprByID") /\ mutationResolver_UpdateExprByID(c)
Mutation_deleteJobByName(c) ==
    Runs(c, "deleteJobByName") /\ mutationResolver_DeleteJobByName(c)
Mutation_deleteJobByID(c) == Runs(c, "deleteJobByID") /\ mutationResolver_DeleteJobByID(c)
Mutation_stopJob(c) == Runs(c, "stopJob") /\ mutationResolver_StopJob(c)
Mutation_restartJob(c) == Runs(c, "restartJob") /\ mutationResolver_RestartJob(c)
Mutation_fetchForProcessing(c) ==
    Runs(c, "fetchForProcessing") /\ mutationResolver_FetchForProcessing(c)
Mutation_commitJobs(c) ==
    Turn(c) /\ Field(c) = "commitJobs" /\ mutationResolver_CommitJobs(c)
Mutation_failJobs(c) == Turn(c) /\ Field(c) = "failJobs" /\ mutationResolver_FailJobs(c)
Mutation_retryJobs(c) == Runs(c, "retryJobs") /\ mutationResolver_RetryJobs(c)
Query_searchJobs(c) == Runs(c, "searchJobs") /\ queryResolver_SearchJobs(c)
Query_searchJobsByMeta(c) ==
    Runs(c, "searchJobsByMeta") /\ queryResolver_SearchJobsByMeta(c)
Query_queryJobByName(c) == Runs(c, "queryJobByName") /\ queryResolver_QueryJobByName(c)
Query_queryJobByID(c) == Runs(c, "queryJobByID") /\ queryResolver_QueryJobByID(c)
Query_lastUpdate(c) == Runs(c, "lastUpdate") /\ queryResolver_LastUpdate(c)

-----------------------------------------------------------------------------
PoolStep(k) == /\ AfterRelease(k)
               /\ UNCHANGED <<job, tag, req, call, faults>>

PoolFault(k) ==
    /\ \/ Break(k) /\ faults < MaxFaults /\ faults' = faults + 1
       \/ Discard(k) /\ UNCHANGED faults
    /\ UNCHANGED <<job, tag, req, call>>

MutationStep(c) ==
    \/ Mutation_validateExprFormat(c) \/ Mutation_createJob(c)
    \/ Mutation_batchCreateJobs(c)    \/ Mutation_updateJobByName(c)
    \/ Mutation_updateJobById(c)      \/ Mutation_updateStateByID(c)
    \/ Mutation_updateExprByID(c)     \/ Mutation_deleteJobByName(c)
    \/ Mutation_deleteJobByID(c)      \/ Mutation_stopJob(c)
    \/ Mutation_restartJob(c)         \/ Mutation_fetchForProcessing(c)
    \/ Mutation_commitJobs(c)         \/ Mutation_failJobs(c)
    \/ Mutation_retryJobs(c)

QueryStep(c) ==
    \/ Query_searchJobs(c)   \/ Query_searchJobsByMeta(c) \/ Query_queryJobByName(c)
    \/ Query_queryJobByID(c) \/ Query_lastUpdate(c)

CallStep(c) ==
    \/ Refuse(c) \/ Acquire(c) \/ AcquireFails(c) \/ Exits(c) \/ Deadlock(c)
    \/ MutationStep(c) \/ QueryStep(c)

Progress ==
    \/ \E r \in Requests : Respond(r)
    \/ \E c \in Calls : CallStep(c)
    \/ \E k \in Conns : PoolStep(k)

Next ==
    \/ Progress
    \/ \E r \in Requests : Receive(r) \/ Leave(r)
    \/ \E c \in Calls : Lost(c)
    \/ \E k \in Conns : PoolFault(k)

\* Goroutines, the server of the database and its detector of deadlocks do
\* not all stop while one of them can go on.  Nobody has to send a request,
\* to leave, or to break a connection.
Fairness == WF_vars(Progress)

Spec     == Init /\ [][Next]_vars
FairSpec == Spec /\ Fairness

-----------------------------------------------------------------------------
\* Every variable has its type, rows keep to the constraints of the table,
\* and only open calls have a connection or a draft.
TypeOK ==
    /\ TableOK /\ TagsOK /\ UniqueOK /\ PoolOK
    /\ req \in [Requests -> [st : {"none", "running", "data", "null"}, gone : BOOLEAN,
                             op : Operations]]
    /\ call \in [Calls -> [st : {"waiting", "cut", "open", "done"},
                           conn : Conns \cup {0}, draft : [Jobs -> Row], pos : Nat,
                           ok : BOOLEAN, out : SUBSET Nat, applied : BOOLEAN]]
    /\ \A c \in Calls : call[c].st # "open" => call[c].conn = 0 /\ call[c].draft = NoDraft
    /\ faults \in 0..MaxFaults

\* Every connection on loan is with exactly one call, which has its owner in
\* its setting, and a connection that waits in the pool has nobody's, however
\* a call ended and whatever became of the reset (owner.go:62-69).
LoansAccounted ==
    /\ \A k \in Conns : conn[k].st = "lent" =>
          \E c \in Calls : /\ call[c].st = "open" /\ call[c].conn = k
                           /\ conn[k].owner = Owner(c)
                           /\ \A d \in Calls \ {c} : call[d].conn # k
    /\ \A k \in Conns : conn[k].st = "idle" => conn[k].owner = Nobody

\* A row is created, changed and deleted only by a call of a request of its
\* owner, through whatever connection (client_test.go TestClientOwner).
OwnRowsOnly ==
    [][\A j \in Jobs : job[j] # job'[j] =>
          \E c \in Calls : /\ call[c].st = "open" /\ call'[c].st = "done"
                           /\ Owner(c) = tag'[j].owner]_vars

ReturnsJobs(c) == Field(c) \notin {"batchCreateJobs", "commitJobs", "failJobs", "retryJobs"}

\* No answer shows a job of another owner, while other requests use the same
\* connections before and after.
ShowsOwnRows ==
    \A c \in Calls : call[c].st = "done" /\ ReturnsJobs(c) =>
        \A j \in call[c].out : tag[j].owner = Owner(c)

\* A field without an error did what it was asked to do, unless it is a batch
\* of commits that reports ids or was given none, or FetchForProcessing with
\* an empty answer.  While no connection breaks and no client leaves, a field
\* that has an error, and a RetryJobs that reports ids, did nothing, whatever
\* statements of the batch went well before (job_resolvers.go:119-131, 335-344).
AnswersTrue ==
    \A c \in Calls : call[c].st = "done" =>
        /\ call[c].ok /\ ~call[c].applied =>
              \/ /\ Field(c) \in {"commitJobs", "failJobs", "retryJobs"}
                 /\ call[c].out # {} \/ Arg(c).commits = <<>>
              \/ Field(c) = "fetchForProcessing" /\ call[c].out = {}
        /\ faults = 0 /\ call[c].applied =>
              call[c].ok /\ (Field(c) = "retryJobs" => call[c].out = {})

\* The process survives its requests: only CommitJobs and FailJobs, whose
\* context has no owner, end it when no connection breaks and no client
\* leaves (owner.go:44-46, 53-56).
StaysUp ==
    faults = 0 /\ (\A r \in Requests : req[r].st # "none" =>
                      \A i \in Selected(r) : Field(<<r, i>>) \notin {"commitJobs", "failJobs"})
        => up

\* Every request is answered, whatever it waits for: a connection of the
\* pool, rows that another batch has locked, even in a circle.  The exit of
\* the process ends them all.  (A number is received once: as long as one is
\* running, there is a time when none is.)
Running == {r \in Requests : req[r].st = "running"}
EveryRequestEnds == (up /\ Running # {}) ~> (~up \/ Running = {})
=============================================================================

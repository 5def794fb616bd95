------------------------------ MODULE OwnerPool ------------------------------
(***************************************************************************)
(* The pool of connections that NewScopedPgx makes (sqlc/owner.go): every   *)
(* connection has the role tinyrole, which row level security binds, and    *)
(* carries the owner of its borrower in the setting tiny.owner.  The hooks  *)
(* of the pool set it and reset it.  log.Fatal in a hook ends the process:  *)
(* `up' becomes FALSE, and with it every connection is gone.                *)
(*                                                                          *)
(* The pool itself (pgxpool) is external.  It lends an idle connection      *)
(* before it opens another; hooks run on the borrower's goroutine before it *)
(* is lent, and on a goroutine of their own after it is returned.           *)
(*                                                                          *)
(* An operator whose name starts with "Mutant" is the definition after it   *)
(* with a bug: no specification uses it, it serves to see that a property   *)
(* notices the bug.                                                         *)
(***************************************************************************)
EXTENDS Naturals

CONSTANTS
    Conns,      \* as many numbers as the pool may open connections
    Owners,     \* what a context may carry as its owner
    Nobody      \* a context without an owner, a connection without the setting

ASSUME OwnerPoolAssumption == Conns \subseteq Nat \ {0} /\ Nobody \notin Owners

VARIABLES
    conn,       \* conn[k]: the k-th connection
    up          \* the process has not exited

poolVars == <<conn, up>>

\* A connection that is not sound has broken, or holds a transaction that
\* failed: its next statement fails.
Connection == [st : {"closed", "idle", "lent", "returned"},
               owner : Owners \cup {Nobody}, sound : BOOLEAN]

Closed == [st |-> "closed", owner |-> Nobody, sound |-> TRUE]

PoolOK == conn \in [Conns -> Connection] /\ up \in BOOLEAN

PoolInit == conn = [k \in Conns |-> Closed] /\ up = TRUE

-----------------------------------------------------------------------------
\* NewCtx and FromCtx: the owner travels in the context, and a context that
\* nobody gave one, such as context.Background(), has none.
FromCtx(hasOwner, o) == IF hasOwner THEN o ELSE Nobody

\* What the pool lends next; a new connection gets the first number free.
Available(k) ==
    \/ conn[k].st = "idle"
    \/ /\ conn[k].st = "closed"
       /\ \A i \in Conns : conn[i].st # "idle" /\ (conn[i].st = "closed" => k <= i)

\* AfterConnect, when the connection is new, and BeforeAcquire: the setting
\* is the borrower's before it has the connection.
BeforeAcquire(k, o) ==
    /\ up /\ Available(k) /\ o # Nobody /\ conn[k].sound
    /\ conn' = [conn EXCEPT ![k] = [st |-> "lent", owner |-> o, sound |-> TRUE]]
    /\ UNCHANGED up

\* log.Fatal: there is no owner to set, or the statement that sets it fails,
\* because the connection is broken or the context is `done' by now.
AcquireFatal(o, done) ==
    /\ up
    /\ \E k \in Conns : Available(k) /\ (o = Nobody \/ done \/ ~conn[k].sound)
    /\ up' = FALSE
    /\ conn' = [k \in Conns |-> Closed]

\* Release, by the borrower of the connection.
Release(k, sound) ==
    /\ conn' = [conn EXCEPT ![k].st = "returned", ![k].sound = sound]
    /\ UNCHANGED up

\* the hook says yes whatever became of `reset tiny.owner'
MutantAfterRelease(k) ==
    /\ up /\ conn[k].st = "returned"
    /\ conn' = [conn EXCEPT ![k].st = "idle",
                            ![k].owner = IF conn[k].sound THEN Nobody ELSE conn[k].owner]
    /\ UNCHANGED up

\* AfterRelease: idle and without an owner, or destroyed.
AfterRelease(k) ==
    /\ up /\ conn[k].st = "returned"
    /\ conn' = [conn EXCEPT ![k] =
                   IF conn[k].sound THEN [Closed EXCEPT !.st = "idle"] ELSE Closed]
    /\ UNCHANGED up

\* The server, or the network, drops an idle connection.
Break(k) ==
    /\ up /\ conn[k].st = "idle" /\ conn[k].sound
    /\ conn' = [conn EXCEPT ![k].sound = FALSE]
    /\ UNCHANGED up

\* The pool pings what was idle for long, and finds out first.
Discard(k) ==
    /\ up /\ conn[k].st = "idle" /\ ~conn[k].sound
    /\ conn' = [conn EXCEPT ![k] = Closed]
    /\ UNCHANGED up
=============================================================================

----------------------------- MODULE OwnedTable -----------------------------
(***************************************************************************)
(* The table of JobStore with what its owners see of it: the columns owner, *)
(* name and deduplication_key, their unique constraints, the row level      *)
(* security policy, and the statements that insert and read.                *)
(*                                                                          *)
(* An operator whose name starts with "Mutant" is the definition after it   *)
(* with a bug.                                                              *)
(***************************************************************************)
EXTENDS JobStore, OwnerPool

CONSTANTS
    Names,          \* the names in use
    Keys, NoKey,    \* deduplication keys; null
    Half            \* 2^31: an int32 is at least -Half and less than Half

ASSUME OwnedTableAssumption ==
    /\ NoKey \notin Keys
    /\ Half \in Nat \ {0}

VARIABLE tag     \* tag[j]: the columns of row j that never change.  It stays
                 \* when the row is deleted, and is there before the insert
                 \* commits: nobody gets an id twice.

NoTag == [owner |-> Nobody, name |-> "none", key |-> NoKey]

TagsOK ==
    /\ tag \in [Jobs -> [owner : Owners, name : Names, key : Keys \cup {NoKey}] \cup {NoTag}]
    /\ \A j \in Jobs : job[j].status # "UNUSED" => tag[j] # NoTag

-----------------------------------------------------------------------------
\* The constraints job_name_owner_key and job_deduplication_key_constraint:
\* the latter knows no owner.
Conflicts(a, b) == \/ a.name = b.name /\ a.owner = b.owner
                   \/ a.key = b.key /\ a.key # NoKey

UniqueOK == \A i, j \in Jobs :
                Exists(i) /\ Exists(j) /\ i # j => ~Conflicts(tag[i], tag[j])

\* The ids nextval has not given out, and the one it gives next.
Unused == {j \in Jobs : tag[j] = NoTag}
NextId(j) == j \in Unused /\ \A i \in Unused : j <= i

MutantVisible(o) == {j \in Jobs : Exists(j)}

\* job_policy, for a connection whose tiny.owner is o.
Visible(o) == {j \in Jobs : Exists(j) /\ tag[j].owner = o}

\* The rows a statement with `id = i and executor = x' finds, or one with
\* `name = n and executor = x'.
ById(o, x, i)   == {j \in Visible(o) : j = i /\ job[j].executor = x}
ByName(o, x, n) == {j \in Visible(o) : tag[j].name = n /\ job[j].executor = x}

\* int32(n), the conversion of an int.
Int32(n) == ((n + Half) % (2 * Half)) - Half

\* What offset and limit may leave of the rows of S, in an order that the
\* statement does not say, or that the model does not keep.  Postgres refuses
\* negative numbers.
Page(S, offset, limit) ==
    {J \in SUBSET S : LET n == Cardinality(S) - offset IN
                      Cardinality(J) = IF n <= 0 THEN 0 ELSE IF n <= limit THEN n ELSE limit}

-----------------------------------------------------------------------------
\* The row that the insert of CreateJob and BatchCreateJobs makes.  `wrong'
\* stands for whatever a check constraint, tiny.next or a cast refuses.
Insertable(a) == a.expr \in Exprs

Tagged(o, a) == [owner |-> o, name |-> a.name, key |-> a.key]

Inserted(x, a) ==
    {[status |-> "READY", executor |-> x, expr |-> a.expr, due |-> d, late |-> FALSE,
      spent |-> FALSE] : d \in BOOLEAN}

\* GetJobByID, GetJobByName: `limit 1' of the rows that match.
GetJobByID(o, x, i)   == {{j} : j \in ById(o, x, i)}
GetJobByName(o, x, n) == {{j} : j \in ByName(o, x, n)}

\* SearchJobs; `filter' is the set of names that the pattern matches.
SearchJobs(o, x, filter, offset, limit) ==
    Page({j \in Visible(o) : tag[j].name \in filter /\ job[j].executor = x}, offset, limit)

\* SearchJobsByMeta.  The conditions on created_at and meta are about data
\* the model does not have: they hold of any of the rows.
SearchJobsByMeta(o, x, a, offset, limit) ==
    UNION {Page(S, offset, limit) :
              S \in SUBSET {j \in Visible(o) : /\ tag[j].name \in a.filter
                                               /\ job[j].executor = x
                                               /\ job[j].status \in a.statuses
                                               /\ is_one_shot(job[j].expr) = a.isOneShot}}
=============================================================================

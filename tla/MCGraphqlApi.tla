---------------------------- MODULE MCGraphqlApi ----------------------------
EXTENDS GraphqlApi, TLC

CONSTANTS o1, o2, x1, Malformed

SomeExprs == {"after", "every"}
F(f, a) == [f |-> f, a |-> a]
M(sel) == [kind |-> "mutation", owner |-> o1, sel |-> sel]
Q(sel) == [kind |-> "query", owner |-> o1, sel |-> sel]
By(o, op) == [op EXCEPT !.owner = o]

New(n, k, e) == [name |-> n, key |-> k, expr |-> e]
Id(i)        == [executor |-> x1, id |-> i]
Name(n)      == [executor |-> x1, name |-> n]
Args(a)      == [executor |-> x1, args |-> a]
Batch(as)    == [executor |-> x1, batch |-> as]
Commits(cs)  == [executor |-> x1, commits |-> cs]
Meta(l, s)   == Args([limit |-> l, skip |-> s, filter |-> Names, statuses |-> Status,
                      isOneShot |-> TRUE])
Done(i)      == [id |-> i, expr |-> ""]

\* Crossing batches of one owner, a key that another owner has, ids of other
\* owners' rows, arguments that do not decode and that the table refuses,
\* limits beyond an int32 and beyond what SearchJobs allows.
Batches == <<
    M(<<F("batchCreateJobs", Batch(<<New("c", NoKey, "every"), New("d", "key", "after")>>))>>),
    M(<<F("retryJobs", Commits(<<Done(1), Done(2)>>))>>) >>

Changes == <<
    M(<<F("deleteJobByName", Name("a"))>>),
    By(o2, M(<<F("createJob", Args(New("c", "key", "after")))>>)),
    M(<<F("fetchForProcessing", [executor |-> x1, limit |-> 9])>>),
    By(o2, M(<<F("deleteJobByID", Id(3))>>)) >>

Others == <<
    M(<<F("batchCreateJobs", Batch(<<New("d", NoKey, "every"), New("c", NoKey, "after")>>))>>),
    M(<<F("updateJobById", [executor |-> x1, id |-> 1, args |-> [expr |-> ""]])>>),
    M(<<F("stopJob", Id(1)), F("restartJob", Id(1))>>),
    M(<<F("updateExprByID", [executor |-> x1, id |-> 1, expr |-> "every"])>>),
    M(<<F("updateStateByID", [executor |-> x1, id |-> 1, state |-> ""])>>),
    M(<<F("updateJobByName", [executor |-> x1, name |-> "a", args |-> [expr |-> ""]])>>),
    M(<<F("retryJobs", Commits(<<>>))>>),
    M(<<F("retryJobs", Commits(<<Done(3), Done(2), [id |-> 1, expr |-> "wrong"]>>))>>),
    By(o2, M(<<F("fetchForProcessing", [executor |-> x1, limit |-> 4])>>)),
    M(<<F("validateExprFormat", [expr |-> "wrong"]), F("commitJobs", Commits(<<Done(1)>>))>>),
    M(<<F("validateExprFormat", [expr |-> "every"]), F("failJobs", Commits(<<Done(1)>>))>>),
    Q(<<F("searchJobs", Args([limit |-> 2, skip |-> 0, filter |-> {"a", "b"}])),
        F("searchJobs", Args([limit |-> 2, skip |-> 4, filter |-> {"a"}]))>>),
    Q(<<F("searchJobs", Args([limit |-> 3, skip |-> 0, filter |-> {"a"}])),
        F("lastUpdate", [executor |-> x1])>>),
    Q(<<F("queryJobByID", Id(Malformed)), F("searchJobsByMeta", Meta(2, 4))>>),
    By(o2, Q(<<F("searchJobsByMeta", Meta(9, 0))>>)),
    By(o2, Q(<<F("queryJobByID", Id(3))>>)),
    By(o2, Q(<<F("queryJobByName", Name("a"))>>)) >>

\* The first request writes, and ends before the second one or meets it.
SomeTraffic == <<Batches \o Changes, Changes \o Others>>

Whole(s, e, d) == [status |-> s, executor |-> x1, expr |-> e, due |-> d, late |-> FALSE, spent |-> FALSE]
Tag(o, n, k) == [owner |-> o, name |-> n, key |-> k]

\* A due job and a claimed one of o1, a due job of o2.
SomeTables == {
    [job |-> [j \in Jobs |-> CASE j = 1 -> Whole("READY", "after", TRUE)
                               [] j = 2 -> Whole("PENDING", "every", TRUE)
                               [] j = 3 -> Whole("READY", "after", TRUE)
                               [] OTHER -> Absent("UNUSED")],
     tag |-> [j \in Jobs |-> CASE j = 1 -> Tag(o1, "a", NoKey)
                               [] j = 2 -> Tag(o1, "b", NoKey)
                               [] j = 3 -> Tag(o2, "a", NoKey)
                               [] OTHER -> NoTag]]}
=============================================================================

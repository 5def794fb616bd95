-------------------------- MODULE GraphqlApiProofs --------------------------
(***************************************************************************)
(* Proofs about GraphqlApi, for any traffic, any number of requests and     *)
(* connections, and any order of the calls, the hooks and the faults.       *)
(*                                                                          *)
(* Every step of a call is one of four kinds, whatever its field: it gets a *)
(* connection, it goes on with its transaction, it ends, or it ends the     *)
(* process.  The lemmas about the kinds show that they keep the invariant,  *)
(* those about the fields, which kinds a field's steps are of.              *)
(***************************************************************************)
EXTENDS GraphqlApi, TLAPS

-----------------------------------------------------------------------------
(* The invariant.                                                           *)

\* A row, or the place of one, as TableOK wants it.
WholeRow == {w \in Row : /\ w.late => w.status = "PENDING"
                         /\ w.status \in Status => w.expr \in Exprs}

CallRecord == [st : {"waiting", "cut", "open", "done"},
               conn : Conns \cup {0}, draft : [Jobs -> Row], pos : Nat,
               ok : BOOLEAN, out : SUBSET Nat, applied : BOOLEAN]

Tag == [owner : Owners, name : Names, key : Keys \cup {NoKey}]

\* Only the calls of running requests are served, with arguments that decode.
Served ==
    /\ \A r \in Requests : req[r].st = "running" => Op(r).owner \in Owners
    /\ \A c \in Calls : call[c].st # "waiting" =>
          req[c[1]].st = "running" /\ c[2] \in Selected(c[1])
    /\ \A c \in Calls : call[c].st \in {"cut", "open"} => Decodes(Field(c), Arg(c))

\* Open calls and connections on loan go together, with the owner's setting.
Loans ==
    /\ \A c \in Calls : call[c].st = "open" =>
          /\ call[c].conn \in Conns
          /\ conn[call[c].conn].st = "lent" /\ conn[call[c].conn].owner = Owner(c)
    /\ \A c, d \in Calls : call[c].st = "open" /\ call[d].st = "open" /\ c # d
                               => call[c].conn # call[d].conn
    /\ \A k \in Conns : conn[k].st = "lent" =>
          \E c \in Calls : call[c].st = "open" /\ call[c].conn = k
    /\ \A k \in Conns : conn[k].st = "idle" => conn[k].owner = Nobody

\* What a transaction has written is rows of its owner.
Drafts ==
    \A c \in Calls : \A j \in Drafted(c) :
        /\ call[c].draft[j] \in WholeRow /\ call[c].draft[j].status \in Status
        /\ tag[j].owner = Owner(c)

\* The rows that are there for the constraints: committed or not.
Present(j) == Exists(j) \/ \E c \in Calls : j \in Drafted(c)

Unique == \A i, j \in Jobs : Present(i) /\ Present(j) /\ i # j => ~Conflicts(tag[i], tag[j])

Shown ==
    \A c \in Calls : call[c].st = "done" /\ ReturnsJobs(c) =>
        \A j \in call[c].out : j \in Jobs /\ tag[j].owner = Owner(c)

\* A request that ends the process.
Doomed(r) == /\ req[r].st # "none"
             /\ \E i \in Selected(r) : Field(<<r, i>>) \in {"commitJobs", "failJobs"}

Standing ==
    faults = 0 =>
        /\ up \/ \E r \in Requests : Doomed(r)
        /\ \A r \in Requests : ~req[r].gone
        /\ \A c \in Calls : call[c].st # "cut"
        /\ \A k \in Conns : conn[k].st \in {"idle", "closed"} => conn[k].sound

IInv == TypeOK /\ Served /\ Loans /\ Drafts /\ Unique /\ Shown /\ Standing

-----------------------------------------------------------------------------
(* Data.                                                                    *)

\* The table is a function to whole rows.
LEMMA WholeTable == TableOK <=> job \in [Jobs -> WholeRow]
BY DEF TableOK, WholeRow

LEMMA WholeTableNext == TableOK' <=> job' \in [Jobs -> WholeRow]
BY DEF TableOK, WholeRow

\* Where no row is.
LEMMA AbsentWhole == Absent("UNUSED") \in WholeRow /\ Absent("DELETED") \in WholeRow
BY DEF Absent, WholeRow, Row, Status, NoRow, Terminal

LEMMA NoneDrafted == \A j \in Jobs : NoDraft[j].status = "UNUSED"
BY DEF NoDraft, Absent

\* The arguments of the fields whose type matters.
LEMMA ArgTypes ==
    ASSUME NEW f, NEW a, Decodes(f, a)
    PROVE  /\ f = "createJob" => a \in field_Mutation_createJob_args
           /\ f = "batchCreateJobs" => a \in field_Mutation_batchCreateJobs_args
           /\ f = "updateJobByName" => a \in field_Mutation_updateJobByName_args
           /\ f = "updateJobById" => a \in field_Mutation_updateJobById_args
           /\ f = "updateExprByID" => a \in field_Mutation_updateExprByID_args
           /\ f = "commitJobs" => a \in field_Mutation_commitJobs_args
           /\ f = "failJobs" => a \in field_Mutation_failJobs_args
           /\ f = "retryJobs" => a \in field_Mutation_retryJobs_args
BY DEF Decodes

\* An open call has a connection with its owner's setting.
LEMMA Lent ==
    ASSUME IInv, NEW c \in Calls, call[c].st = "open"
    PROVE  /\ call[c].conn \in Conns /\ Setting(c) = Owner(c) /\ Owner(c) \in Owners
           /\ Decodes(Field(c), Arg(c))
<1>1. c[1] \in Requests
  BY DEF Calls
<1>2. QED
  BY <1>1 DEF IInv, Loans, Served, Setting, Owner

\* What a statement sees through it is rows of that owner.
LEMMA Own ==
    ASSUME IInv, NEW c \in Calls, call[c].st = "open", NEW j \in Visible(Setting(c))
    PROVE  j \in Jobs /\ Exists(j) /\ tag[j].owner = Owner(c)
BY Lent DEF Visible

-----------------------------------------------------------------------------
(* The kinds of steps.                                                      *)

\* Tags are never changed.  A new row has a tag of its owner that does not
\* conflict with any row that is present.
TagStep(c) ==
    \/ /\ tag' = tag
       /\ \A j \in Jobs : Present(j)' => Present(j)
    \/ \E i \in Jobs, t \in Tag :
          /\ tag[i] = NoTag /\ t.owner = Owner(c) /\ tag' = [tag EXCEPT ![i] = t]
          /\ \A j \in Jobs : Present(j) => ~Conflicts(tag[j], t)
          /\ \A j \in Jobs : Present(j)' => Present(j) \/ j = i

TableStep(c) ==
    /\ TableOK'
    /\ \A j \in Jobs : job'[j] = job[j] \/ tag'[j].owner = Owner(c)

Answers(c) ==
    \E v \in CallRecord :
        /\ call' = [call EXCEPT ![c] = v]
        /\ v.st = "done" /\ v.conn = 0 /\ v.draft = NoDraft
        /\ ReturnsJobs(c) => \A j \in v.out : j \in Jobs /\ tag'[j].owner = Owner(c)

\* A call with a connection ends.
Ends(c) ==
    /\ up /\ call[c].st = "open" /\ req' = req
    /\ Answers(c) /\ \E s \in BOOLEAN : Release(call[c].conn, s)
    /\ faults' \in faults..MaxFaults
    /\ TagStep(c) /\ TableStep(c)

\* A transaction goes on.
GoesOn(c) ==
    /\ up /\ call[c].st = "open" /\ req' = req /\ UNCHANGED <<poolVars, faults, job>>
    /\ \E p \in Nat, d \in [Jobs -> Row] :
          /\ call' = [call EXCEPT ![c].pos = p, ![c].draft = d]
          /\ \A j \in Jobs : d[j].status # "UNUSED" =>
                d[j] \in WholeRow /\ d[j].status \in Status /\ tag'[j].owner = Owner(c)
    /\ TagStep(c)

\* A call without a connection ends.
EndsEarly(c) ==
    /\ up /\ req[c[1]].st = "running" /\ c[2] \in Selected(c[1])
    /\ call[c].st \in {"waiting", "cut"} /\ req' = req
    /\ Answers(c) /\ faults' \in faults..MaxFaults
    /\ UNCHANGED <<job, tag, poolVars>>

-----------------------------------------------------------------------------
(* What the kinds of steps keep.                                            *)

\* Only open calls have written something.
LEMMA DraftedOpen ==
    ASSUME IInv, NEW c \in Calls, NEW j \in Drafted(c)
    PROVE  j \in Jobs /\ call[c].st = "open" /\ Owner(c) \in Owners /\ tag[j].owner = Owner(c)
<1>1. j \in Jobs /\ call[c].draft[j].status # "UNUSED"
  BY DEF Drafted
<1>2. call[c].st = "open"
  BY <1>1, NoneDrafted DEF IInv, TypeOK
<1>3. QED
  BY <1>1, <1>2, Lent DEF IInv, Drafts

\* A row that is present has a tag.
LEMMA PresentTagged ==
    ASSUME IInv, NEW j \in Jobs, Present(j)
    PROVE  tag[j] # NoTag
<1>1. CASE Exists(j)
  BY <1>1 DEF IInv, TypeOK, TagsOK, Exists, Status, Terminal
<1>2. CASE \E c \in Calls : j \in Drafted(c)
  BY <1>2, DraftedOpen, OwnerPoolAssumption DEF NoTag
<1>3. QED
  BY <1>1, <1>2 DEF Present

\* Tags are never changed, and stay free of conflicts.
LEMMA TagsKept ==
    ASSUME IInv, NEW c \in Calls, TagStep(c)
    PROVE  /\ tag' \in [Jobs -> Tag \cup {NoTag}]
           /\ \A j \in Jobs : tag[j] # NoTag => tag'[j] = tag[j]
           /\ Unique'
<1>1. tag \in [Jobs -> Tag \cup {NoTag}]
  BY DEF IInv, TypeOK, TagsOK, Tag
<1>2. CASE tag' = tag /\ \A j \in Jobs : Present(j)' => Present(j)
  BY <1>1, <1>2 DEF IInv, Unique
<1>3. CASE \E i \in Jobs, t \in Tag :
              /\ tag[i] = NoTag /\ t.owner = Owner(c) /\ tag' = [tag EXCEPT ![i] = t]
              /\ \A j \in Jobs : Present(j) => ~Conflicts(tag[j], t)
              /\ \A j \in Jobs : Present(j)' => Present(j) \/ j = i
  <2>1. PICK i \in Jobs, t \in Tag :
              /\ tag[i] = NoTag /\ t.owner = Owner(c) /\ tag' = [tag EXCEPT ![i] = t]
              /\ \A j \in Jobs : Present(j) => ~Conflicts(tag[j], t)
              /\ \A j \in Jobs : Present(j)' => Present(j) \/ j = i
    BY <1>3
  <2>2. ~Present(i)
    BY <2>1, PresentTagged
  <2>3. tag'[i] = t /\ \A j \in Jobs : j # i => tag'[j] = tag[j]
    BY <1>1, <2>1
  <2>4. ASSUME NEW j \in Jobs, NEW k \in Jobs, Present(j)', Present(k)', j # k
        PROVE  ~Conflicts(tag'[j], tag'[k])
    <3>1. CASE j # i /\ k # i
      <4>1. Present(j) /\ Present(k) /\ tag'[j] = tag[j] /\ tag'[k] = tag[k]
        BY <2>1, <2>3, <2>4, <3>1
      <4>2. QED
        BY <2>4, <4>1 DEF IInv, Unique
    <3>2. CASE j # i /\ k = i
      <4>1. Present(j) /\ tag'[j] = tag[j] /\ tag'[k] = t
        BY <2>1, <2>3, <2>4, <3>2
      <4>2. QED
        BY <2>1, <4>1
    <3>3. CASE j = i
      <4>1. Present(k) /\ tag'[k] = tag[k] /\ tag'[j] = t
        BY <2>1, <2>3, <2>4, <3>3
      <4>2. ~Conflicts(tag[k], t)
        BY <2>1, <4>1
      <4>3. QED
        BY <4>1, <4>2 DEF Conflicts
    <3>4. QED
      BY <3>1, <3>2, <3>3
  <2>5. Unique'
    BY <2>4 DEF Unique
  <2>6. QED
    BY <1>1, <2>1, <2>3, <2>5
<1>4. QED
  BY <1>2, <1>3 DEF TagStep

\* Fields, arguments and owners are those of the request.
LEMMA SameRequests ==
    ASSUME req' = req, NEW c \in Calls
    PROVE  /\ Op(c[1])' = Op(c[1]) /\ Selected(c[1])' = Selected(c[1])
           /\ Field(c)' = Field(c) /\ Arg(c)' = Arg(c) /\ Owner(c)' = Owner(c)
           /\ ReturnsJobs(c)' <=> ReturnsJobs(c)
BY DEF Op, Selected, Field, Arg, Owner, ReturnsJobs

\* Served, while a call of the running requests moves.
LEMMA ServedKept ==
    ASSUME IInv, req' = req, NEW c \in Calls,
           \A d \in Calls : d # c => call'[d].st = call[d].st,
           req[c[1]].st = "running", c[2] \in Selected(c[1]),
           call'[c].st \in {"cut", "open"} => Decodes(Field(c), Arg(c))
    PROVE  Served'
<1>1. \A r \in Requests : req'[r].st = "running" => Op(r)'.owner \in Owners
  BY DEF IInv, Served, Op
<1>2. ASSUME NEW d \in Calls, call'[d].st # "waiting"
      PROVE  req'[d[1]].st = "running" /\ d[2] \in Selected(d[1])'
  BY <1>2, SameRequests DEF IInv, Served
<1>3. ASSUME NEW d \in Calls, call'[d].st \in {"cut", "open"}
      PROVE  Decodes(Field(d), Arg(d))'
  <2>1. Decodes(Field(d), Arg(d))
    BY <1>3 DEF IInv, Served
  <2>2. QED
    BY <2>1, SameRequests
<1>4. QED
  BY <1>1, <1>2, <1>3 DEF Served

\* What an answer leaves of the calls.
LEMMA AnswerLeaves ==
    ASSUME IInv, NEW c \in Calls, Answers(c)
    PROVE  /\ call' \in [Calls -> CallRecord]
           /\ \A d \in Calls : d # c => call'[d] = call[d]
           /\ call'[c].st = "done" /\ call'[c].conn = 0 /\ call'[c].draft = NoDraft
           /\ ReturnsJobs(c) => \A j \in call'[c].out : j \in Jobs /\ tag'[j].owner = Owner(c)
<1>1. call \in [Calls -> CallRecord]
  BY DEF IInv, TypeOK, CallRecord
<1>2. QED
  BY <1>1 DEF Answers

\* What Settle leaves is an answer, if what it shows is the owner's.
LEMMA SettleAnswers ==
    ASSUME NEW c \in Calls, NEW ok \in BOOLEAN, NEW applied \in BOOLEAN, NEW out \in SUBSET Nat,
           Settle(c, ok, out, applied),
           ReturnsJobs(c) => \A j \in out : j \in Jobs /\ tag'[j].owner = Owner(c)
    PROVE  Answers(c)
<1> DEFINE v == [Waiting EXCEPT !.st = "done", !.ok = ok, !.out = out, !.applied = applied]
<1>1. NoDraft \in [Jobs -> Row]
  BY AbsentWhole DEF NoDraft, WholeRow
<1>2. Waiting \in CallRecord /\ Waiting.conn = 0 /\ Waiting.draft = NoDraft
  BY <1>1 DEF CallRecord, Waiting
<1>3. v \in CallRecord /\ v.st = "done" /\ v.conn = 0 /\ v.draft = NoDraft /\ v.out = out
  BY <1>2 DEF CallRecord
<1>4. call' = [call EXCEPT ![c] = v]
  BY DEF Settle
<1> HIDE DEF v
<1>5. QED
  BY <1>3, <1>4 DEF Answers

\* Nobody's tag changes under a row of an owner.
LEMMA TagStays ==
    ASSUME IInv, NEW c \in Calls, TagStep(c), NEW j \in Jobs, NEW o \in Owners, tag[j].owner = o
    PROVE  tag'[j] = tag[j]
BY TagsKept, OwnerPoolAssumption DEF NoTag

\* Drafts and answers of the other calls are what they were.
LEMMA OthersKept ==
    ASSUME IInv, NEW c \in Calls, TagStep(c), req' = req,
           \A d \in Calls : d # c => call'[d] = call[d]
    PROVE  /\ \A d \in Calls : d # c => \A j \in Drafted(d)' :
                  /\ call'[d].draft[j] \in WholeRow /\ call'[d].draft[j].status \in Status
                  /\ tag'[j].owner = Owner(d)'
           /\ \A d \in Calls : d # c /\ call'[d].st = "done" /\ ReturnsJobs(d)' =>
                  \A j \in call'[d].out : j \in Jobs /\ tag'[j].owner = Owner(d)'
<1>1. ASSUME NEW d \in Calls, d # c, NEW j \in Drafted(d)'
      PROVE  /\ call'[d].draft[j] \in WholeRow /\ call'[d].draft[j].status \in Status
             /\ tag'[j].owner = Owner(d)'
  <2>1. call'[d] = call[d] /\ j \in Drafted(d)
    BY <1>1 DEF Drafted
  <2>2. j \in Jobs /\ Owner(d) \in Owners /\ tag[j].owner = Owner(d)
    BY <2>1, DraftedOpen
  <2>3. tag'[j] = tag[j]
    BY <2>2, TagStays
  <2>4. QED
    BY <2>1, <2>2, <2>3, SameRequests DEF IInv, Drafts
<1>2. ASSUME NEW d \in Calls, d # c, call'[d].st = "done", ReturnsJobs(d)', NEW j \in call'[d].out
      PROVE  j \in Jobs /\ tag'[j].owner = Owner(d)'
  <2>1. call[d].st = "done" /\ ReturnsJobs(d) /\ j \in call[d].out
    BY <1>2, SameRequests
  <2>2. j \in Jobs /\ tag[j].owner = Owner(d)
    BY <2>1 DEF IInv, Shown
  <2>3. Owner(d) \in Owners
    BY <2>1 DEF IInv, Served, Owner, Calls
  <2>4. tag'[j] = tag[j]
    BY <2>2, <2>3, TagStays
  <2>5. QED
    BY <2>2, <2>4, SameRequests
<1>3. QED
  BY <1>1, <1>2

\* TypeOK, from its parts.
LEMMA TypeFrom ==
    ASSUME IInv, req' = req, TableOK', TagsOK', UniqueOK', PoolOK',
           call' \in [Calls -> CallRecord],
           \A d \in Calls : call'[d].st # "open" => call'[d].conn = 0 /\ call'[d].draft = NoDraft,
           faults' \in 0..MaxFaults
    PROVE  TypeOK'
BY DEF IInv, TypeOK, CallRecord

\* The constraints hold of committed rows.
LEMMA UniqueCommitted == Unique => UniqueOK
BY DEF Unique, UniqueOK, Present

LEMMA UniqueCommittedNext == Unique' => UniqueOK'
BY DEF Unique, UniqueOK, Present

\* Nothing gets worse for the process.
LEMMA StandingKept ==
    ASSUME IInv, req' = req, up' = up, up, faults' \in faults..MaxFaults,
           \A c \in Calls : call'[c].st = "cut" => call[c].st = "cut",
           \A k \in Conns : conn'[k].st \in {"idle", "closed"}
                              => conn'[k].sound \/ conn'[k] = conn[k]
    PROVE  Standing'
<1>1. faults \in Nat /\ (faults' = 0 => faults = 0)
  BY GraphqlApiAssumption DEF IInv, TypeOK
<1>2. QED
  BY <1>1 DEF IInv, Standing

\* Every row that is there has a tag.
LEMMA TagsFrom ==
    ASSUME IInv, NEW c \in Calls, TagStep(c), TableStep(c), Owner(c) \in Owners
    PROVE  TagsOK'
<1>1. ASSUME NEW j \in Jobs, job'[j].status # "UNUSED"
      PROVE  tag'[j] # NoTag
  <2>1. CASE job'[j] = job[j]
    <3>1. tag[j] # NoTag
      BY <1>1, <2>1 DEF IInv, TypeOK, TagsOK
    <3>2. QED
      BY <3>1, TagsKept
  <2>2. CASE tag'[j].owner = Owner(c)
    BY <2>2, OwnerPoolAssumption DEF NoTag
  <2>3. QED
    BY <2>1, <2>2 DEF TableStep
<1>2. tag' \in [Jobs -> Tag \cup {NoTag}]
  BY TagsKept
<1>3. QED
  BY <1>1, <1>2 DEF TagsOK, Tag

LEMMA EndsInv ==
    ASSUME IInv, NEW c \in Calls, Ends(c)
    PROVE  IInv'
<1> DEFINE k == call[c].conn
<1>1. /\ up /\ call[c].st = "open" /\ req' = req /\ Answers(c)
      /\ faults' \in faults..MaxFaults /\ TagStep(c) /\ TableStep(c)
  BY DEF Ends
<1>2. PICK s \in BOOLEAN : Release(k, s)
  BY DEF Ends
<1>3. k \in Conns /\ Owner(c) \in Owners
  BY <1>1, Lent
<1>4. /\ conn' \in [Conns -> Connection] /\ up' = up
      /\ conn'[k].st = "returned"
      /\ \A i \in Conns : i # k => conn'[i] = conn[i]
  <2>1. conn \in [Conns -> Connection]
    BY DEF IInv, TypeOK, PoolOK
  <2>2. conn' = [conn EXCEPT ![k] = [conn[k] EXCEPT !.st = "returned", !.sound = s]] /\ up' = up
    BY <1>2 DEF Release
  <2> HIDE DEF k
  <2>3. [conn[k] EXCEPT !.st = "returned", !.sound = s] \in Connection
    BY <1>3, <2>1 DEF Connection
  <2>4. [conn[k] EXCEPT !.st = "returned", !.sound = s].st = "returned"
    BY <1>3, <2>1 DEF Connection
  <2>5. QED
    BY <1>3, <2>1, <2>2, <2>3, <2>4
<1>5. /\ call' \in [Calls -> CallRecord]
      /\ \A d \in Calls : d # c => call'[d] = call[d]
      /\ call'[c].st = "done" /\ call'[c].conn = 0 /\ call'[c].draft = NoDraft
      /\ ReturnsJobs(c) => \A j \in call'[c].out : j \in Jobs /\ tag'[j].owner = Owner(c)
  BY <1>1, AnswerLeaves
<1>6. TypeOK'
  <2>1. TableOK' /\ TagsOK' /\ UniqueOK'
    BY <1>1, <1>3, TagsFrom, TagsKept, UniqueCommittedNext DEF TableStep
  <2>2. PoolOK'
    BY <1>1, <1>4 DEF PoolOK
  <2>3. \A d \in Calls : call'[d].st # "open" => call'[d].conn = 0 /\ call'[d].draft = NoDraft
    BY <1>5 DEF IInv, TypeOK
  <2>4. faults' \in 0..MaxFaults
    BY <1>1, GraphqlApiAssumption DEF IInv, TypeOK
  <2>5. QED
    BY <1>1, <1>5, <2>1, <2>2, <2>3, <2>4, TypeFrom
<1>7. Served'
  <2>1. req[c[1]].st = "running" /\ c[2] \in Selected(c[1])
    BY <1>1 DEF IInv, Served
  <2>2. QED
    BY <1>1, <1>5, <2>1, ServedKept
<1>8. Loans'
  <2>1. ASSUME NEW d \in Calls, call'[d].st = "open"
        PROVE  /\ d # c /\ call'[d] = call[d] /\ call[d].st = "open" /\ call[d].conn # k
               /\ call[d].conn \in Conns /\ conn'[call[d].conn] = conn[call[d].conn]
    <3>1. d # c
      BY <1>5, <2>1
    <3>2. call'[d] = call[d] /\ call[d].st = "open"
      BY <1>5, <2>1, <3>1
    <3>3. call[d].conn # k /\ call[d].conn \in Conns
      BY <1>1, <3>1, <3>2 DEF IInv, Loans
    <3>4. QED
      BY <1>4, <3>1, <3>2, <3>3
  <2>2. ASSUME NEW d \in Calls, call'[d].st = "open"
        PROVE  /\ call'[d].conn \in Conns /\ conn'[call'[d].conn].st = "lent"
               /\ conn'[call'[d].conn].owner = Owner(d)'
    BY <1>1, <2>1, <2>2, SameRequests DEF IInv, Loans
  <2>3. \A d, e \in Calls : call'[d].st = "open" /\ call'[e].st = "open" /\ d # e
                                 => call'[d].conn # call'[e].conn
    BY <2>1 DEF IInv, Loans
  <2>4. ASSUME NEW i \in Conns, conn'[i].st = "lent"
        PROVE  \E d \in Calls : call'[d].st = "open" /\ call'[d].conn = i
    <3>1. i # k /\ conn[i].st = "lent"
      BY <1>4, <2>4
    <3>2. PICK d \in Calls : call[d].st = "open" /\ call[d].conn = i
      BY <3>1 DEF IInv, Loans
    <3>3. QED
      BY <1>5, <3>1, <3>2
  <2>5. \A i \in Conns : conn'[i].st = "idle" => conn'[i].owner = Nobody
    BY <1>4 DEF IInv, Loans
  <2>6. QED
    BY <2>2, <2>3, <2>4, <2>5 DEF Loans
<1>9. Drafts' /\ Shown'
  <2>1. Drafted(c)' = {}
    BY <1>5, NoneDrafted DEF Drafted
  <2>2. Drafts'
    BY <1>1, <1>5, <2>1, OthersKept DEF Drafts
  <2>3. Shown'
    BY <1>1, <1>5, OthersKept, SameRequests DEF Shown
  <2>4. QED
    BY <2>2, <2>3
<1>10. Unique'
  BY <1>1, TagsKept
<1>11. Standing'
  BY <1>1, <1>4, <1>5, StandingKept
<1>12. QED
  BY <1>6, <1>7, <1>8, <1>9, <1>10, <1>11 DEF IInv

LEMMA GoesOnInv ==
    ASSUME IInv, NEW c \in Calls, GoesOn(c)
    PROVE  IInv'
<1>1. /\ up /\ call[c].st = "open" /\ req' = req /\ TagStep(c)
      /\ conn' = conn /\ up' = up /\ faults' = faults /\ job' = job
  BY DEF GoesOn, poolVars
<1>2. PICK p \in Nat, d \in [Jobs -> Row] :
          /\ call' = [call EXCEPT ![c].pos = p, ![c].draft = d]
          /\ \A j \in Jobs : d[j].status # "UNUSED" =>
                d[j] \in WholeRow /\ d[j].status \in Status /\ tag'[j].owner = Owner(c)
  BY DEF GoesOn
<1>3. call \in [Calls -> CallRecord]
  BY DEF IInv, TypeOK, CallRecord
<1> DEFINE v == [call[c] EXCEPT !.pos = p, !.draft = d]
<1>4. /\ v \in CallRecord /\ v.st = "open" /\ v.conn = call[c].conn /\ v.draft = d
      /\ call' = [call EXCEPT ![c] = v]
  BY <1>1, <1>2, <1>3 DEF CallRecord
<1> HIDE DEF v
<1>5. /\ call' \in [Calls -> CallRecord]
      /\ \A e \in Calls : e # c => call'[e] = call[e]
      /\ \A e \in Calls : call'[e].st = call[e].st /\ call'[e].conn = call[e].conn
      /\ call'[c].draft = d
  BY <1>1, <1>3, <1>4
<1>6. Owner(c) \in Owners /\ Decodes(Field(c), Arg(c))
  BY <1>1, Lent
<1>7. TypeOK'
  <2>1. TableOK' /\ TableStep(c)
    BY <1>1 DEF IInv, TypeOK, TableOK, TableStep
  <2>2. TagsOK' /\ UniqueOK'
    BY <1>1, <1>6, <2>1, TagsFrom, TagsKept, UniqueCommittedNext
  <2>3. PoolOK' /\ faults' \in 0..MaxFaults
    BY <1>1 DEF IInv, TypeOK, PoolOK
  <2>4. \A e \in Calls : call'[e].st # "open" => call'[e].conn = 0 /\ call'[e].draft = NoDraft
    BY <1>1, <1>5 DEF IInv, TypeOK
  <2>5. QED
    BY <1>1, <1>5, <2>1, <2>2, <2>3, <2>4, TypeFrom
<1>8. Served'
  <2>1. req[c[1]].st = "running" /\ c[2] \in Selected(c[1])
    BY <1>1 DEF IInv, Served
  <2>2. QED
    BY <1>1, <1>5, <1>6, <2>1, ServedKept
<1>9. Loans'
  BY <1>1, <1>5, SameRequests DEF IInv, Loans
<1>10. Drafts'
  <2>1. ASSUME NEW j \in Drafted(c)'
        PROVE  /\ call'[c].draft[j] \in WholeRow /\ call'[c].draft[j].status \in Status
               /\ tag'[j].owner = Owner(c)'
    BY <1>1, <1>2, <1>5, SameRequests DEF Drafted
  <2>2. QED
    BY <1>1, <1>5, <2>1, OthersKept DEF Drafts
<1>11. Shown'
  BY <1>1, <1>5, OthersKept, SameRequests DEF Shown
<1>12. Unique'
  BY <1>1, TagsKept
<1>13. Standing'
  <2>1. faults' \in faults..MaxFaults
    BY <1>1, GraphqlApiAssumption DEF IInv, TypeOK
  <2>2. QED
    BY <1>1, <1>5, <2>1, StandingKept
<1>14. QED
  BY <1>7, <1>8, <1>9, <1>10, <1>11, <1>12, <1>13 DEF IInv

\* Without a change of the table, tags step by staying.
LEMMA TagsStay ==
    ASSUME IInv, NEW c \in Calls, job' = job, tag' = tag,
           \A d \in Calls : call'[d].draft = call[d].draft \/ call'[d].draft = NoDraft
    PROVE  TagStep(c)
<1>1. ASSUME NEW j \in Jobs, Present(j)'
      PROVE  Present(j)
  <2>1. CASE Exists(j)'
    BY <2>1 DEF Exists, Present
  <2>2. CASE \E d \in Calls : j \in Drafted(d)'
    <3>1. PICK d \in Calls : j \in Drafted(d)'
      BY <2>2
    <3>2. call'[d].draft = call[d].draft
      BY <3>1, NoneDrafted DEF Drafted
    <3>3. QED
      BY <3>1, <3>2 DEF Drafted, Present
  <2>3. QED
    BY <1>1, <2>1, <2>2 DEF Present
<1>2. QED
  BY <1>1 DEF TagStep

LEMMA EndsEarlyInv ==
    ASSUME IInv, NEW c \in Calls, EndsEarly(c)
    PROVE  IInv'
<1>1. /\ up /\ req[c[1]].st = "running" /\ c[2] \in Selected(c[1])
      /\ call[c].st \in {"waiting", "cut"} /\ req' = req
      /\ Answers(c) /\ faults' \in faults..MaxFaults
      /\ job' = job /\ tag' = tag /\ conn' = conn /\ up' = up
  BY DEF EndsEarly, poolVars
<1>2. /\ call' \in [Calls -> CallRecord]
      /\ \A d \in Calls : d # c => call'[d] = call[d]
      /\ call'[c].st = "done" /\ call'[c].conn = 0 /\ call'[c].draft = NoDraft
      /\ ReturnsJobs(c) => \A j \in call'[c].out : j \in Jobs /\ tag'[j].owner = Owner(c)
  BY <1>1, AnswerLeaves
<1>3. TagStep(c)
  BY <1>1, <1>2, TagsStay
<1>4. TypeOK'
  <2>1. TableOK' /\ TagsOK' /\ PoolOK'
    BY <1>1 DEF IInv, TypeOK, TableOK, TagsOK, PoolOK
  <2>2. UniqueOK'
    BY <1>3, TagsKept, UniqueCommittedNext
  <2>3. \A d \in Calls : call'[d].st # "open" => call'[d].conn = 0 /\ call'[d].draft = NoDraft
    BY <1>2 DEF IInv, TypeOK
  <2>4. faults' \in 0..MaxFaults
    BY <1>1, GraphqlApiAssumption DEF IInv, TypeOK
  <2>5. QED
    BY <1>1, <1>2, <2>1, <2>2, <2>3, <2>4, TypeFrom
<1>5. Served'
  BY <1>1, <1>2, ServedKept
<1>6. Loans'
  <2>1. \A d \in Calls : \/ call'[d].st = "open" \/ call[d].st = "open"
                         => d # c /\ call'[d] = call[d] /\ Owner(d)' = Owner(d)
    BY <1>1, <1>2, SameRequests
  <2>2. QED
    BY <1>1, <2>1 DEF IInv, Loans
<1>7. Drafts' /\ Shown'
  <2>1. Drafted(c)' = {}
    BY <1>2, NoneDrafted DEF Drafted
  <2>2. Drafts'
    BY <1>1, <1>2, <1>3, <2>1, OthersKept DEF Drafts
  <2>3. Shown'
    BY <1>1, <1>2, <1>3, OthersKept, SameRequests DEF Shown
  <2>4. QED
    BY <2>2, <2>3
<1>8. Unique'
  BY <1>3, TagsKept
<1>9. Standing'
  BY <1>1, <1>2, StandingKept
<1>10. QED
  BY <1>4, <1>5, <1>6, <1>7, <1>8, <1>9 DEF IInv

LEMMA AcquireInv ==
    ASSUME IInv, NEW c \in Calls, Acquire(c), req' = req
    PROVE  IInv'
<1>1. PICK k \in Conns :
          /\ BeforeAcquire(k, FromCtx(~Background(c), Owner(c)))
          /\ call' = [call EXCEPT ![c].st = "open", ![c].conn = k]
  BY DEF Acquire
<1>2. /\ up /\ req[c[1]].st = "running" /\ c[2] \in Selected(c[1])
      /\ call[c].st = "waiting" /\ Decodes(Field(c), Arg(c))
      /\ job' = job /\ tag' = tag /\ faults' = faults
  BY DEF Acquire, Begins, Turn, Refused
<1>3. conn \in [Conns -> Connection] /\ call \in [Calls -> CallRecord]
  BY DEF IInv, TypeOK, PoolOK, CallRecord
<1>4. c[1] \in Requests /\ Owner(c) \in Owners
  BY <1>2 DEF IInv, Served, Owner, Calls
<1>5. /\ conn[k].st \in {"idle", "closed"} /\ up' = up
      /\ conn' = [conn EXCEPT ![k] = [st |-> "lent", owner |-> Owner(c), sound |-> TRUE]]
  BY <1>1 DEF BeforeAcquire, FromCtx, Available
<1>6. /\ conn' \in [Conns -> Connection] /\ conn'[k].st = "lent" /\ conn'[k].owner = Owner(c)
      /\ \A i \in Conns : i # k => conn'[i] = conn[i]
  <2>1. [st |-> "lent", owner |-> Owner(c), sound |-> TRUE] \in Connection
    BY <1>4 DEF Connection
  <2>2. QED
    BY <1>3, <1>5, <2>1
<1> DEFINE v == [call[c] EXCEPT !.st = "open", !.conn = k]
<1>7. /\ v \in CallRecord /\ v.st = "open" /\ v.conn = k /\ v.draft = call[c].draft
      /\ call' = [call EXCEPT ![c] = v]
  BY <1>1, <1>3 DEF CallRecord
<1> HIDE DEF v
<1>8. /\ call' \in [Calls -> CallRecord]
      /\ \A d \in Calls : d # c => call'[d] = call[d]
      /\ \A d \in Calls : call'[d].draft = call[d].draft
      /\ call'[c].st = "open" /\ call'[c].conn = k
  BY <1>3, <1>7
<1>9. TagStep(c)
  BY <1>2, <1>8, TagsStay
<1>10. TypeOK'
  <2>1. TableOK' /\ TagsOK' /\ PoolOK' /\ faults' \in 0..MaxFaults
    BY <1>2, <1>5, <1>6 DEF IInv, TypeOK, TableOK, TagsOK, PoolOK
  <2>2. UniqueOK'
    BY <1>9, TagsKept, UniqueCommittedNext
  <2>3. \A d \in Calls : call'[d].st # "open" => call'[d].conn = 0 /\ call'[d].draft = NoDraft
    BY <1>8 DEF IInv, TypeOK
  <2>4. QED
    BY <1>8, <2>1, <2>2, <2>3, TypeFrom
<1>11. Served'
  BY <1>2, <1>8, ServedKept
<1>12. Loans'
  <2>1. ASSUME NEW d \in Calls, d # c, call[d].st = "open"
        PROVE  call[d].conn # k
    BY <1>5, <2>1 DEF IInv, Loans
  <2>2. ASSUME NEW d \in Calls, call'[d].st = "open"
        PROVE  /\ call'[d].conn \in Conns /\ conn'[call'[d].conn].st = "lent"
               /\ conn'[call'[d].conn].owner = Owner(d)'
    <3>1. CASE d = c
      BY <1>6, <1>8, <3>1, SameRequests
    <3>2. CASE d # c
      BY <1>6, <1>8, <2>1, <2>2, <3>2, SameRequests DEF IInv, Loans
    <3>3. QED
      BY <3>1, <3>2
  <2>3. \A d, e \in Calls : call'[d].st = "open" /\ call'[e].st = "open" /\ d # e
                                 => call'[d].conn # call'[e].conn
    BY <1>8, <2>1 DEF IInv, Loans
  <2>4. ASSUME NEW i \in Conns, conn'[i].st = "lent"
        PROVE  \E d \in Calls : call'[d].st = "open" /\ call'[d].conn = i
    <3>1. CASE i = k
      BY <1>8, <3>1
    <3>2. CASE i # k
      <4>1. PICK d \in Calls : call[d].st = "open" /\ call[d].conn = i
        BY <1>6, <2>4, <3>2 DEF IInv, Loans
      <4>2. QED
        BY <1>2, <1>8, <4>1
    <3>3. QED
      BY <3>1, <3>2
  <2>5. \A i \in Conns : conn'[i].st = "idle" => conn'[i].owner = Nobody
    BY <1>6 DEF IInv, Loans
  <2>6. QED
    BY <2>2, <2>3, <2>4, <2>5 DEF Loans
<1>13. Drafts' /\ Shown'
  <2>1. Drafted(c)' = {}
    <3>1. call'[c].draft = NoDraft
      BY <1>2, <1>8 DEF IInv, TypeOK
    <3>2. QED
      BY <3>1, NoneDrafted DEF Drafted
  <2>2. Drafts'
    BY <1>8, <1>9, <2>1, OthersKept DEF Drafts
  <2>3. Shown'
    BY <1>8, <1>9, OthersKept, SameRequests DEF Shown
  <2>4. QED
    BY <2>2, <2>3
<1>14. Unique'
  BY <1>9, TagsKept
<1>15. Standing'
  <2>1. faults' \in faults..MaxFaults
    BY <1>2, GraphqlApiAssumption DEF IInv, TypeOK
  <2>2. QED
    BY <1>2, <1>5, <1>6, <1>8, <2>1, StandingKept
<1>16. QED
  BY <1>10, <1>11, <1>12, <1>13, <1>14, <1>15 DEF IInv

\* The process ends.  Without faults, only a call without an owner does it.
LEMMA FatalInv ==
    ASSUME IInv, NEW c \in Calls, Fatal(c), req' = req
    PROVE  IInv'
<1>1. /\ up /\ req[c[1]].st = "running" /\ c[2] \in Selected(c[1])
      /\ job' = job /\ tag' = tag /\ faults' = faults
      /\ AcquireFatal(FromCtx(~Background(c), Owner(c)), call[c].st = "cut")
      /\ call' = [d \in Calls |-> Waiting]
  BY DEF Fatal, Turn
<1>2. /\ up' = FALSE /\ conn' = [k \in Conns |-> Closed]
      /\ \E k \in Conns : /\ Available(k)
                         /\ \/ FromCtx(~Background(c), Owner(c)) = Nobody
                            \/ call[c].st = "cut" \/ ~conn[k].sound
  BY <1>1 DEF AcquireFatal
<1>3. NoDraft \in [Jobs -> Row]
  BY AbsentWhole DEF NoDraft, WholeRow
<1>4. /\ Waiting \in CallRecord /\ Waiting.st = "waiting"
      /\ Waiting.conn = 0 /\ Waiting.draft = NoDraft
  BY <1>3 DEF CallRecord, Waiting
<1>5. /\ call' \in [Calls -> CallRecord]
      /\ \A d \in Calls : /\ call'[d].st = "waiting" /\ call'[d].conn = 0
                         /\ call'[d].draft = NoDraft
  BY <1>1, <1>4
<1>6. /\ conn' \in [Conns -> Connection]
      /\ \A k \in Conns : conn'[k].st = "closed" /\ conn'[k].sound
  <2>1. Closed \in Connection /\ Closed.st = "closed" /\ Closed.sound
    BY DEF Closed, Connection
  <2>2. QED
    BY <1>2, <2>1
<1>7. TagStep(c)
  BY <1>1, <1>5, TagsStay
<1>8. TypeOK'
  <2>1. TableOK' /\ TagsOK' /\ PoolOK' /\ faults' \in 0..MaxFaults
    BY <1>1, <1>2, <1>6 DEF IInv, TypeOK, TableOK, TagsOK, PoolOK
  <2>2. UniqueOK'
    BY <1>7, TagsKept, UniqueCommittedNext
  <2>3. QED
    BY <1>5, <2>1, <2>2, TypeFrom
<1>9. Served' /\ Loans' /\ Shown'
  BY <1>5, <1>6 DEF IInv, Served, Loans, Shown, Op
<1>10. Drafts' /\ Unique'
  <2>1. \A d \in Calls : Drafted(d)' = {}
    BY <1>5, NoneDrafted DEF Drafted
  <2>2. QED
    BY <1>7, <2>1, TagsKept DEF Drafts
<1>11. Standing'
  <2>1. SUFFICES ASSUME faults = 0
                 PROVE  /\ \E r \in Requests : Doomed(r)'
                        /\ \A r \in Requests : ~req'[r].gone
    BY <1>1, <1>5, <1>6 DEF Standing
  <2>2. c[1] \in Requests /\ c = <<c[1], c[2]>>
    BY DEF Calls
  <2>3. Owner(c) # Nobody
    BY <1>1, <2>2, OwnerPoolAssumption DEF IInv, Served, Owner
  <2>4. FromCtx(~Background(c), Owner(c)) = Nobody
    BY <1>2, <2>1 DEF IInv, Standing, Available
  <2>5. Background(c)
    BY <2>3, <2>4 DEF FromCtx
  <2>6. Doomed(c[1])
    BY <1>1, <2>2, <2>5 DEF Doomed, Background
  <2>7. Doomed(c[1])'
    BY <2>6 DEF Doomed, Selected, Field, Op
  <2>8. QED
    BY <2>1, <2>2, <2>7 DEF IInv, Standing
<1>12. QED
  BY <1>8, <1>9, <1>10, <1>11 DEF IInv

-----------------------------------------------------------------------------
(* Requests come, are left and are answered.                                *)

\* The calls of other requests are untouched by what happens to request r.
LEMMA OtherRequests ==
    ASSUME IInv, NEW r \in Requests, NEW v, req' = [req EXCEPT ![r] = v],
           NEW c \in Calls, c[1] # r
    PROVE  /\ c[1] \in Requests /\ req'[c[1]] = req[c[1]] /\ Selected(c[1])' = Selected(c[1])
           /\ Field(c)' = Field(c) /\ Arg(c)' = Arg(c) /\ Owner(c)' = Owner(c)
           /\ ReturnsJobs(c)' <=> ReturnsJobs(c)
<1>1. c[1] \in Requests
  BY DEF Calls
<1>2. req'[c[1]] = req[c[1]]
  BY <1>1 DEF IInv, TypeOK
<1>3. QED
  BY <1>1, <1>2 DEF Op, Selected, Field, Arg, Owner, ReturnsJobs

LEMMA ReceiveInv ==
    ASSUME IInv, NEW r \in Requests, Receive(r)
    PROVE  IInv'
<1>1. PICK n \in DOMAIN Traffic[r] :
          req' = [req EXCEPT ![r] = [st |-> "running", gone |-> FALSE, op |-> Traffic[r][n]]]
  BY DEF Receive
<1>2. /\ up /\ req[r].st = "none"
      /\ UNCHANGED <<job, tag, conn, up, call, faults>>
  BY DEF Receive, poolVars
<1> DEFINE v == [st |-> "running", gone |-> FALSE, op |-> Traffic[r][n]]
<1>3. /\ v.st = "running" /\ ~v.gone /\ v.op = Traffic[r][n]
      /\ v \in [st : {"none", "running", "data", "null"}, gone : BOOLEAN, op : Operations]
  <2>1. Traffic[r][n] \in Operations
    BY DEF Operations
  <2>2. QED
    BY <2>1
<1>4. req' = [req EXCEPT ![r] = v]
  BY <1>1
<1> HIDE DEF v
<1>5. /\ req' \in [Requests -> [st : {"none", "running", "data", "null"}, gone : BOOLEAN,
                               op : Operations]]
      /\ req'[r] = v /\ \A q \in Requests : q # r => req'[q] = req[q]
  BY <1>3, <1>4 DEF IInv, TypeOK
<1>6. \A c \in Calls : c[1] = r => call[c].st = "waiting"
  BY <1>2 DEF IInv, Served
<1>7. TypeOK'
  BY <1>2, <1>5 DEF IInv, TypeOK, TableOK, TagsOK, UniqueOK, PoolOK, Exists
<1>8. Served'
  <2>1. ASSUME NEW q \in Requests, req'[q].st = "running"
        PROVE  Op(q)'.owner \in Owners
    <3>1. CASE q = r
      BY <1>3, <1>5, <3>1, GraphqlApiAssumption DEF Op
    <3>2. CASE q # r
      BY <1>5, <2>1, <3>2 DEF IInv, Served, Op
    <3>3. QED
      BY <3>1, <3>2
  <2>2. ASSUME NEW c \in Calls, call'[c].st # "waiting"
        PROVE  req'[c[1]].st = "running" /\ c[2] \in Selected(c[1])'
    <3>1. c[1] # r /\ call[c].st # "waiting"
      BY <1>2, <1>6, <2>2
    <3>2. req[c[1]].st = "running" /\ c[2] \in Selected(c[1])
      BY <3>1 DEF IInv, Served
    <3>3. c[1] \in Requests /\ req'[c[1]] = req[c[1]]
      BY <1>4, <3>1, OtherRequests
    <3>4. QED
      BY <3>2, <3>3 DEF Selected, Op
  <2>3. ASSUME NEW c \in Calls, call'[c].st \in {"cut", "open"}
        PROVE  Decodes(Field(c), Arg(c))'
    <3>1. c[1] # r /\ Decodes(Field(c), Arg(c))
      BY <1>2, <1>6, <2>3 DEF IInv, Served
    <3>2. QED
      BY <1>4, <3>1, OtherRequests
  <2>4. QED
    BY <2>1, <2>2, <2>3 DEF Served
<1>9. \A c \in Calls : call[c].st # "waiting" =>
          Owner(c)' = Owner(c) /\ (ReturnsJobs(c)' <=> ReturnsJobs(c))
  BY <1>4, <1>6, OtherRequests
<1>10. Loans'
  BY <1>2, <1>9 DEF IInv, Loans
<1>11. Drafts'
  <2>1. ASSUME NEW c \in Calls, NEW j \in Drafted(c)'
        PROVE  /\ call'[c].draft[j] \in WholeRow /\ call'[c].draft[j].status \in Status
               /\ tag'[j].owner = Owner(c)'
    <3>1. j \in Drafted(c)
      BY <1>2, <2>1 DEF Drafted
    <3>2. QED
      BY <1>2, <1>9, <3>1, DraftedOpen DEF IInv, Drafts
  <2>2. QED
    BY <2>1 DEF Drafts
<1>12. Shown'
  BY <1>2, <1>9 DEF IInv, Shown
<1>13. Unique'
  BY <1>2 DEF IInv, Unique, Present, Exists, Drafted
<1>14. Standing'
  BY <1>2, <1>3, <1>5 DEF IInv, Standing
<1>15. QED
  BY <1>7, <1>8, <1>10, <1>11, <1>12, <1>13, <1>14 DEF IInv

LEMMA LeaveInv ==
    ASSUME IInv, NEW r \in Requests, Leave(r)
    PROVE  IInv'
<1>1. /\ up /\ req[r].st = "running" /\ faults < MaxFaults /\ faults' = faults + 1
      /\ req' = [req EXCEPT ![r].gone = TRUE]
      /\ UNCHANGED <<job, tag, conn, up>>
      /\ call' = [c \in Calls |-> IF c[1] = r /\ Begins(c) /\ ~Background(c)
                                  THEN [call[c] EXCEPT !.st = "cut"] ELSE call[c]]
  BY DEF Leave, poolVars
<1>2. /\ req' \in [Requests -> [st : {"none", "running", "data", "null"}, gone : BOOLEAN,
                               op : Operations]]
      /\ \A q \in Requests : req'[q].st = req[q].st /\ req'[q].op = req[q].op
  BY <1>1 DEF IInv, TypeOK
<1>3. ASSUME NEW c \in Calls
      PROVE  /\ Op(c[1])' = Op(c[1]) /\ Selected(c[1])' = Selected(c[1])
             /\ Field(c)' = Field(c) /\ Arg(c)' = Arg(c) /\ Owner(c)' = Owner(c)
             /\ (ReturnsJobs(c)' <=> ReturnsJobs(c)) /\ req'[c[1]].st = req[c[1]].st
  BY <1>2 DEF Calls, Op, Selected, Field, Arg, Owner, ReturnsJobs
<1>4. ASSUME NEW c \in Calls
      PROVE  /\ call'[c] \in CallRecord
             /\ call'[c].conn = call[c].conn /\ call'[c].draft = call[c].draft
             /\ call'[c].out = call[c].out
             /\ \/ call'[c].st = call[c].st
                \/ call[c].st = "waiting" /\ call'[c].st = "cut" /\ Begins(c)
  <2>1. call[c] \in CallRecord
    BY DEF IInv, TypeOK, CallRecord
  <2>2. CASE c[1] = r /\ Begins(c) /\ ~Background(c)
    <3>1. call'[c] = [call[c] EXCEPT !.st = "cut"]
      BY <1>1, <2>2
    <3>2. QED
      BY <2>1, <2>2, <3>1 DEF CallRecord, Begins
  <2>3. CASE ~(c[1] = r /\ Begins(c) /\ ~Background(c))
    <3>1. call'[c] = call[c]
      BY <1>1, <2>3
    <3>2. QED
      BY <2>1, <3>1
  <2>4. QED
    BY <2>2, <2>3
<1>5. call' \in [Calls -> CallRecord]
  BY <1>1, <1>4
<1>6. TypeOK'
  <2>1. \A c \in Calls : call'[c].st # "open" => call'[c].conn = 0 /\ call'[c].draft = NoDraft
    BY <1>4 DEF IInv, TypeOK
  <2>2. faults' \in 0..MaxFaults
    BY <1>1, GraphqlApiAssumption DEF IInv, TypeOK
  <2>3. TableOK' /\ TagsOK' /\ UniqueOK' /\ PoolOK'
    BY <1>1 DEF IInv, TypeOK, TableOK, TagsOK, UniqueOK, PoolOK, Exists
  <2>4. QED
    BY <1>2, <1>5, <2>1, <2>2, <2>3 DEF TypeOK, CallRecord
<1>7. Served'
  <2>1. \A q \in Requests : req'[q].st = "running" => Op(q)'.owner \in Owners
    BY <1>2 DEF IInv, Served, Op
  <2>2. ASSUME NEW c \in Calls, call'[c].st # "waiting"
        PROVE  req'[c[1]].st = "running" /\ c[2] \in Selected(c[1])'
    <3>1. req[c[1]].st = "running" /\ c[2] \in Selected(c[1])
      BY <1>4, <2>2 DEF IInv, Served, Begins, Turn
    <3>2. QED
      BY <1>3, <3>1
  <2>3. ASSUME NEW c \in Calls, call'[c].st \in {"cut", "open"}
        PROVE  Decodes(Field(c), Arg(c))'
    <3>1. Decodes(Field(c), Arg(c))
      BY <1>4, <2>3 DEF IInv, Served, Begins, Refused
    <3>2. QED
      BY <1>3, <3>1
  <2>4. QED
    BY <2>1, <2>2, <2>3 DEF Served
<1>8. \A c \in Calls : call'[c].st = "open" <=> call[c].st = "open"
  BY <1>4
<1>9. Loans'
  BY <1>1, <1>3, <1>4, <1>8 DEF IInv, Loans
<1>10. Drafts' /\ Unique'
  <2>1. \A c \in Calls : Drafted(c)' = Drafted(c)
    BY <1>4 DEF Drafted
  <2>2. Drafts'
    BY <1>1, <1>3, <1>4, <2>1 DEF IInv, Drafts
  <2>3. Unique'
    BY <1>1, <2>1 DEF IInv, Unique, Present, Exists
  <2>4. QED
    BY <2>2, <2>3
<1>11. Shown'
  BY <1>1, <1>3, <1>4 DEF IInv, Shown
<1>12. Standing'
  BY <1>1 DEF Standing, IInv, TypeOK
<1>13. QED
  BY <1>6, <1>7, <1>9, <1>10, <1>11, <1>12 DEF IInv

\* The selected calls of the request are done, and it has no others.
LEMMA RespondInv ==
    ASSUME IInv, NEW r \in Requests, Respond(r)
    PROVE  IInv'
<1> DEFINE v == [st |-> IF HasData(r) THEN "data" ELSE "null", gone |-> FALSE, op |-> NoOp]
<1>1. /\ up /\ \A i \in Selected(r) : call[<<r, i>>].st = "done"
      /\ req' = [req EXCEPT ![r] = v]
      /\ call' = [c \in Calls |-> IF c[1] = r THEN Waiting ELSE call[c]]
      /\ UNCHANGED <<job, tag, conn, up, faults>>
  BY DEF Respond, poolVars
<1>2. /\ v \in [st : {"none", "running", "data", "null"}, gone : BOOLEAN, op : Operations]
      /\ v.st # "running" /\ ~v.gone
  BY DEF Operations
<1> HIDE DEF v
<1>3. /\ req' \in [Requests -> [st : {"none", "running", "data", "null"}, gone : BOOLEAN,
                               op : Operations]]
      /\ req'[r] = v /\ \A q \in Requests : q # r => req'[q] = req[q]
  BY <1>1, <1>2 DEF IInv, TypeOK
<1>4. NoDraft \in [Jobs -> Row]
  BY AbsentWhole DEF NoDraft, WholeRow
<1>5. /\ Waiting \in CallRecord /\ Waiting.st = "waiting"
      /\ Waiting.conn = 0 /\ Waiting.draft = NoDraft
  BY <1>4 DEF CallRecord, Waiting
<1>6. ASSUME NEW c \in Calls
      PROVE  /\ call'[c] \in CallRecord
             /\ \/ call'[c] = call[c]
                \/ call'[c].st = "waiting" /\ call'[c].conn = 0 /\ call'[c].draft = NoDraft
             /\ call'[c].st # "waiting" => c[1] # r /\ call'[c] = call[c]
             /\ call[c].st = "open" => call'[c] = call[c]
  <2>1. call[c] \in CallRecord
    BY DEF IInv, TypeOK, CallRecord
  <2>2. call[c].st = "open" => c[1] # r
    <3>1. c = <<c[1], c[2]>>
      BY DEF Calls
    <3>2. call[c].st = "open" => c[2] \in Selected(c[1])
      BY DEF IInv, Served
    <3>3. QED
      BY <1>1, <3>1, <3>2
  <2>3. CASE c[1] = r
    <3>1. call'[c] = Waiting
      BY <1>1, <2>3
    <3>2. QED
      BY <1>5, <2>2, <2>3, <3>1
  <2>4. CASE c[1] # r
    <3>1. call'[c] = call[c]
      BY <1>1, <2>4
    <3>2. QED
      BY <2>1, <2>4, <3>1
  <2>5. QED
    BY <2>3, <2>4
<1>7. call' \in [Calls -> CallRecord]
  BY <1>1, <1>6
<1>8. ASSUME NEW c \in Calls, call'[c].st # "waiting"
      PROVE  /\ c[1] \in Requests /\ req'[c[1]] = req[c[1]] /\ Selected(c[1])' = Selected(c[1])
             /\ Field(c)' = Field(c) /\ Arg(c)' = Arg(c) /\ Owner(c)' = Owner(c)
             /\ (ReturnsJobs(c)' <=> ReturnsJobs(c)) /\ call'[c] = call[c]
  BY <1>1, <1>6, <1>8, OtherRequests
<1>9. TypeOK'
  <2>1. \A c \in Calls : call'[c].st # "open" => call'[c].conn = 0 /\ call'[c].draft = NoDraft
    BY <1>6 DEF IInv, TypeOK
  <2>2. TableOK' /\ TagsOK' /\ UniqueOK' /\ PoolOK' /\ faults' \in 0..MaxFaults
    BY <1>1 DEF IInv, TypeOK, TableOK, TagsOK, UniqueOK, PoolOK, Exists
  <2>3. QED
    BY <1>3, <1>7, <2>1, <2>2 DEF TypeOK, CallRecord
<1>10. Served'
  <2>1. \A q \in Requests : req'[q].st = "running" => Op(q)'.owner \in Owners
    BY <1>2, <1>3 DEF IInv, Served, Op
  <2>2. ASSUME NEW c \in Calls, call'[c].st # "waiting"
        PROVE  req'[c[1]].st = "running" /\ c[2] \in Selected(c[1])'
    <3>1. req[c[1]].st = "running" /\ c[2] \in Selected(c[1])
      BY <1>8, <2>2 DEF IInv, Served
    <3>2. req'[c[1]] = req[c[1]]
      BY <1>8, <2>2
    <3>3. QED
      BY <3>1, <3>2 DEF Selected, Op
  <2>3. ASSUME NEW c \in Calls, call'[c].st \in {"cut", "open"}
        PROVE  Decodes(Field(c), Arg(c))'
    <3>1. Field(c)' = Field(c) /\ Arg(c)' = Arg(c) /\ call'[c] = call[c]
      BY <1>8, <2>3
    <3>2. Decodes(Field(c), Arg(c))
      BY <2>3, <3>1 DEF IInv, Served
    <3>3. QED
      BY <3>1, <3>2
  <2>4. QED
    BY <2>1, <2>2, <2>3 DEF Served
<1>11. \A c \in Calls : call'[c].st = "open" <=> call[c].st = "open"
  BY <1>6, <1>8
<1>12. \A c \in Calls : call[c].st = "open" => call'[c] = call[c] /\ Owner(c)' = Owner(c)
  BY <1>6, <1>8
<1>13. Loans'
  BY <1>1, <1>11, <1>12 DEF IInv, Loans
<1>14. Drafts' /\ Unique'
  <2>1. \A c \in Calls : Drafted(c)' = Drafted(c)
    <3>1. SUFFICES ASSUME NEW c \in Calls PROVE Drafted(c)' = Drafted(c)
      OBVIOUS
    <3>2. CASE call[c].st = "open"
      BY <1>12, <3>2 DEF Drafted
    <3>3. CASE call[c].st # "open"
      <4>1. call[c].draft = NoDraft /\ call'[c].draft = NoDraft
        BY <1>6, <3>3 DEF IInv, TypeOK
      <4>2. QED
        BY <4>1 DEF Drafted
    <3>4. QED
      BY <3>2, <3>3
  <2>2. Drafts'
    <3>1. ASSUME NEW c \in Calls, NEW j \in Drafted(c)'
          PROVE  /\ call'[c].draft[j] \in WholeRow /\ call'[c].draft[j].status \in Status
                 /\ tag'[j].owner = Owner(c)'
      <4>1. j \in Drafted(c) /\ call[c].st = "open"
        BY <2>1, <3>1, DraftedOpen
      <4>2. QED
        BY <1>1, <1>12, <4>1 DEF IInv, Drafts
    <3>2. QED
      BY <3>1 DEF Drafts
  <2>3. Unique'
    BY <1>1, <2>1 DEF IInv, Unique, Present, Exists
  <2>4. QED
    BY <2>2, <2>3
<1>15. Shown'
  <2>1. \A c \in Calls : call'[c].st = "done" =>
            /\ call'[c] = call[c] /\ Owner(c)' = Owner(c)
            /\ (ReturnsJobs(c)' <=> ReturnsJobs(c))
    BY <1>8
  <2>2. QED
    BY <1>1, <2>1 DEF IInv, Shown
<1>16. Standing'
  <2>1. \A c \in Calls : call'[c].st = "cut" => call[c].st = "cut"
    BY <1>8
  <2>2. \A q \in Requests : req'[q].gone => req[q].gone
    BY <1>2, <1>3
  <2>3. QED
    BY <1>1, <2>1, <2>2 DEF IInv, Standing
<1>17. QED
  BY <1>9, <1>10, <1>13, <1>14, <1>15, <1>16 DEF IInv

-----------------------------------------------------------------------------
(* The pool, with the connections that nobody has.                          *)

LEMMA PoolInv ==
    ASSUME IInv, NEW k \in Conns, conn[k].st # "lent", up, up' = up,
           UNCHANGED <<job, tag, req, call>>, faults' \in faults..MaxFaults,
           NEW v \in Connection, conn' = [conn EXCEPT ![k] = v],
           v.st # "lent", v.st = "idle" => v.owner = Nobody,
           faults' = 0 => v.sound
    PROVE  IInv'
<1>1. conn \in [Conns -> Connection]
  BY DEF IInv, TypeOK, PoolOK
<1>2. /\ conn' \in [Conns -> Connection] /\ conn'[k] = v
      /\ \A i \in Conns : i # k => conn'[i] = conn[i]
  BY <1>1
<1>3. TypeOK'
  <2>1. faults' \in 0..MaxFaults
    BY GraphqlApiAssumption DEF IInv, TypeOK
  <2>2. PoolOK'
    BY <1>2 DEF IInv, TypeOK, PoolOK
  <2>3. TableOK' /\ TagsOK' /\ UniqueOK'
    BY DEF IInv, TypeOK, TableOK, TagsOK, UniqueOK, Exists
  <2>4. QED
    BY <2>1, <2>2, <2>3, TypeFrom DEF IInv, TypeOK, CallRecord
<1>4. Served' /\ Drafts' /\ Unique' /\ Shown'
  BY DEF IInv, Served, Drafts, Unique, Shown, Present, Exists, Drafted, Op, Selected, Field, Arg,
         Owner, ReturnsJobs
<1>5. Loans'
  <2>1. \A c \in Calls : call[c].st = "open" => call[c].conn # k
    BY DEF IInv, Loans
  <2>2. QED
    BY <1>2, <2>1 DEF IInv, Loans, Owner, Op
<1>6. Standing'
  <2>1. \A r \in Requests : Doomed(r)' <=> Doomed(r)
    BY DEF Doomed, Selected, Field, Op
  <2>2. faults' = 0 => faults = 0
    BY GraphqlApiAssumption DEF IInv, TypeOK
  <2>3. QED
    BY <1>2, <2>1, <2>2 DEF IInv, Standing
<1>7. QED
  BY <1>3, <1>4, <1>5, <1>6 DEF IInv

LEMMA PoolStepInv ==
    ASSUME IInv, NEW k \in Conns, PoolStep(k) \/ PoolFault(k)
    PROVE  IInv'
<1>1. conn[k] \in Connection /\ faults \in 0..MaxFaults /\ MaxFaults \in Nat
  BY GraphqlApiAssumption DEF IInv, TypeOK, PoolOK
<1>2. Closed \in Connection /\ Closed.st = "closed" /\ Closed.owner = Nobody /\ Closed.sound
  BY DEF Closed, Connection
<1>3. CASE PoolStep(k)
  <2> DEFINE v == IF conn[k].sound THEN [Closed EXCEPT !.st = "idle"] ELSE Closed
  <2>1. /\ up /\ up' = up /\ conn[k].st = "returned" /\ UNCHANGED <<job, tag, req, call, faults>>
        /\ conn' = [conn EXCEPT ![k] = v]
    BY <1>3 DEF PoolStep, AfterRelease
  <2>2. [Closed EXCEPT !.st = "idle"] \in [st : {"idle"}, owner : {Nobody}, sound : {TRUE}]
    BY DEF Closed
  <2>3. v \in Connection /\ v.st # "lent" /\ v.owner = Nobody /\ v.sound
    BY <1>2, <2>2 DEF Connection
  <2> HIDE DEF v
  <2>4. faults' \in faults..MaxFaults /\ conn[k].st # "lent"
    BY <1>1, <2>1
  <2>5. QED
    BY <2>1, <2>3, <2>4, PoolInv
<1>4. CASE PoolFault(k)
  <2>1. CASE Break(k) /\ faults < MaxFaults /\ faults' = faults + 1
    <3> DEFINE v == [conn[k] EXCEPT !.sound = FALSE]
    <3>1. /\ up /\ up' = up /\ conn[k].st = "idle" /\ UNCHANGED <<job, tag, req, call>>
          /\ conn' = [conn EXCEPT ![k] = v]
      BY <1>4, <2>1 DEF PoolFault, Break
    <3>2. v \in Connection /\ v.st = "idle" /\ v.owner = conn[k].owner
      BY <1>1, <3>1 DEF Connection
    <3>3. conn[k].owner = Nobody
      BY <3>1 DEF IInv, Loans
    <3> HIDE DEF v
    <3>4. /\ faults' \in faults..MaxFaults /\ faults' # 0
          /\ conn[k].st # "lent" /\ v.st # "lent" /\ v.owner = Nobody
      BY <1>1, <2>1, <3>1, <3>2, <3>3
    <3>5. QED
      BY <3>1, <3>2, <3>4, PoolInv
  <2>2. CASE Discard(k) /\ UNCHANGED faults
    <3>1. /\ up /\ up' = up /\ conn[k].st = "idle" /\ UNCHANGED <<job, tag, req, call, faults>>
          /\ conn' = [conn EXCEPT ![k] = Closed]
      BY <1>4, <2>2 DEF PoolFault, Discard
    <3>2. /\ faults' \in faults..MaxFaults /\ conn[k].st # "lent" /\ Closed.st # "lent"
          /\ Closed.owner = Nobody
      BY <1>1, <1>2, <3>1
    <3>3. QED
      BY <1>2, <3>1, <3>2, PoolInv
  <2>3. QED
    BY <1>4, <2>1, <2>2 DEF PoolFault
<1>5. QED
  BY <1>3, <1>4

-----------------------------------------------------------------------------
(* How calls end.                                                           *)

\* The ids of a batch of commits are numbers.
LEMMA CommitIds ==
    ASSUME NEW cs \in Seq(unmarshalInputCommitArgs), NEW i \in 1..Len(cs)
    PROVE  cs[i].id \in Jobs /\ cs[i].expr \in Text
<1>1. cs[i] \in unmarshalInputCommitArgs
  OBVIOUS
<1>2. QED
  BY <1>1 DEF unmarshalInputCommitArgs

LEMMA UnappliedAnswers ==
    ASSUME IInv, NEW c \in Calls, NEW read \in Nat, Unapplied(c, read), Decodes(Field(c), Arg(c))
    PROVE  Answers(c)
<1>1. CASE Field(c) \in {"commitJobs", "failJobs", "retryJobs"}
  <2> DEFINE cs  == Arg(c).commits
             out == {cs[i].id : i \in (read + 1)..Len(cs)}
  <2>1. Settle(c, TRUE, out, FALSE)
    BY <1>1 DEF Unapplied
  <2>2. cs \in Seq(unmarshalInputCommitArgs)
    BY <1>1, ArgTypes DEF field_Mutation_commitJobs_args, field_Mutation_failJobs_args,
                          field_Mutation_retryJobs_args
  <2>3. out \in SUBSET Nat
    <3> HIDE DEF cs
    <3>1. \A i \in (read + 1)..Len(cs) : cs[i].id \in Jobs
      BY <2>2, CommitIds
    <3>2. QED
      BY <3>1, JobStoreAssumption
  <2>4. ~ReturnsJobs(c)
    BY <1>1 DEF ReturnsJobs
  <2> HIDE DEF out
  <2>5. QED
    BY <2>1, <2>3, <2>4, SettleAnswers
<1>2. CASE Field(c) = "fetchForProcessing"
  <2>1. Settle(c, call[c].pos = 1, {}, FALSE)
    BY <1>2 DEF Unapplied
  <2>2. (call[c].pos = 1) \in BOOLEAN /\ {} \in SUBSET Nat
    OBVIOUS
  <2>3. QED
    BY <2>1, <2>2, SettleAnswers
<1>3. CASE Field(c) \notin {"commitJobs", "failJobs", "retryJobs", "fetchForProcessing"}
  <2>1. Settle(c, FALSE, {}, FALSE)
    BY <1>3 DEF Unapplied
  <2>2. {} \in SUBSET Nat
    OBVIOUS
  <2>3. QED
    BY <2>1, <2>2, SettleAnswers
<1>4. QED
  BY <1>1, <1>2, <1>3

\* A step that leaves the table as it is.
LEMMA TableStays ==
    ASSUME IInv, NEW c \in Calls, job' = job, tag' = tag, Answers(c)
    PROVE  TagStep(c) /\ TableStep(c)
<1>1. \A d \in Calls : call'[d].draft = call[d].draft \/ call'[d].draft = NoDraft
  BY AnswerLeaves
<1>2. TagStep(c)
  BY <1>1, TagsStay
<1>3. TableStep(c)
  BY DEF IInv, TypeOK, TableOK, TableStep
<1>4. QED
  BY <1>2, <1>3

\* The count of faults, whatever became of the connection.
LEMMA FaultsGrow ==
    ASSUME IInv, NEW c \in Calls, faults' = faults \/ Drops(c)
    PROVE  faults' \in faults..MaxFaults
BY GraphqlApiAssumption DEF IInv, TypeOK, Drops

LEMMA ErrorsEnds ==
    ASSUME IInv, NEW c \in Calls, up, call[c].st = "open", req' = req, Errors(c)
    PROVE  Ends(c)
<1>1. /\ Unapplied(c, call[c].pos) /\ Release(call[c].conn, TRUE)
      /\ job' = job /\ tag' = tag /\ faults' = faults
  BY DEF Errors
<1>2. call[c].pos \in Nat
  BY DEF IInv, TypeOK
<1>3. Answers(c)
  BY <1>1, <1>2, Lent, UnappliedAnswers
<1>4. QED
  BY <1>1, <1>3, TableStays, FaultsGrow DEF Ends

LEMMA LostEnds ==
    ASSUME IInv, NEW c \in Calls, Lost(c)
    PROVE  Ends(c)
<1>1. PICK read \in 0..call[c].pos : Unapplied(c, read)
  BY DEF Lost
<1>2. /\ up /\ call[c].st = "open" /\ Release(call[c].conn, FALSE) /\ Drops(c)
      /\ job' = job /\ tag' = tag /\ req' = req
  BY DEF Lost
<1>3. read \in Nat
  BY <1>1 DEF IInv, TypeOK
<1>4. Answers(c)
  BY <1>1, <1>2, <1>3, Lent, UnappliedAnswers
<1>5. QED
  BY <1>2, <1>4, TableStays, FaultsGrow DEF Ends

LEMMA DeadlockEnds ==
    ASSUME IInv, NEW c \in Calls, Deadlock(c)
    PROVE  Ends(c)
BY ErrorsEnds DEF Deadlock

\* A read that shows what the connection lets it see.
LEMMA ReadsEnds ==
    ASSUME IInv, NEW c \in Calls, up, call[c].st = "open", req' = req,
           NEW out \in SUBSET Visible(Setting(c)), Reads(c, out)
    PROVE  Ends(c)
<1>1. /\ Settle(c, TRUE, out, TRUE) /\ Release(call[c].conn, TRUE)
      /\ job' = job /\ tag' = tag /\ faults' = faults
  BY DEF Reads
<1>2. \A j \in out : j \in Jobs /\ tag'[j].owner = Owner(c)
  BY <1>1, Own
<1>3. out \in SUBSET Nat
  BY <1>2, JobStoreAssumption
<1>4. Answers(c)
  BY <1>1, <1>2, <1>3, SettleAnswers
<1>5. QED
  BY <1>1, <1>4, TableStays, FaultsGrow DEF Ends

\* A write whose answer arrives or is lost.
LEMMA ReturnsAnswers ==
    ASSUME IInv, NEW c \in Calls, NEW out \in SUBSET Nat, Returns(c, out),
           ReturnsJobs(c) => \A j \in out : j \in Jobs /\ tag'[j].owner = Owner(c)
    PROVE  /\ Answers(c) /\ faults' \in faults..MaxFaults
           /\ \E s \in BOOLEAN : Release(call[c].conn, s)
<1>1. CASE Settle(c, TRUE, out, TRUE) /\ Release(call[c].conn, TRUE) /\ UNCHANGED faults
  BY <1>1, SettleAnswers, FaultsGrow
<1>2. CASE Settle(c, FALSE, {}, TRUE) /\ Release(call[c].conn, FALSE) /\ Drops(c)
  <2>1. {} \in SUBSET Nat
    OBVIOUS
  <2>2. Answers(c)
    BY <1>2, <2>1, SettleAnswers
  <2>3. QED
    BY <1>2, <2>2, FaultsGrow
<1>3. QED
  BY <1>1, <1>2 DEF Returns

\* A statement on one row of the owner.
LEMMA RowEnds ==
    ASSUME IInv, NEW c \in Calls, up, call[c].st = "open", req' = req,
           NEW j \in Visible(Setting(c)), NEW w \in WholeRow,
           job' = [job EXCEPT ![j] = w], tag' = tag, Returns(c, {j})
    PROVE  Ends(c)
<1>1. j \in Jobs /\ Exists(j) /\ tag'[j].owner = Owner(c) /\ {j} \in SUBSET Nat
  BY Own, JobStoreAssumption
<1>2. /\ Answers(c) /\ faults' \in faults..MaxFaults
      /\ \E s \in BOOLEAN : Release(call[c].conn, s)
  BY <1>1, ReturnsAnswers
<1>3. job \in [Jobs -> WholeRow]
  BY WholeTable DEF IInv, TypeOK
<1>4. job' \in [Jobs -> WholeRow] /\ \A i \in Jobs : i # j => job'[i] = job[i]
  BY <1>1, <1>3
<1>5. TableStep(c)
  BY <1>1, <1>4, WholeTableNext DEF TableStep
<1>6. ASSUME NEW i \in Jobs, Present(i)'
      PROVE  Present(i)
  <2>1. CASE Exists(i)'
    BY <1>1, <1>4, <2>1 DEF Exists, Present
  <2>2. CASE \E d \in Calls : i \in Drafted(d)'
    <3>1. PICK d \in Calls : i \in Drafted(d)'
      BY <2>2
    <3>2. call'[d].draft = call[d].draft \/ call'[d].draft = NoDraft
      BY <1>2, AnswerLeaves
    <3>3. QED
      BY <3>1, <3>2, NoneDrafted DEF Drafted, Present
  <2>3. QED
    BY <1>6, <2>1, <2>2 DEF Present
<1>7. TagStep(c)
  BY <1>6 DEF TagStep
<1>8. QED
  BY <1>2, <1>5, <1>7 DEF Ends

-----------------------------------------------------------------------------
(* The fields of a single statement.                                        *)

\* A row that is there is whole, and has a schedule.
LEMMA RowThere ==
    ASSUME IInv, NEW j \in Jobs, Exists(j)
    PROVE  job[j] \in WholeRow /\ job[j] \in Row /\ job[j].expr \in Exprs
<1>1. job[j] \in WholeRow
  BY WholeTable DEF IInv, TypeOK
<1>2. QED
  BY <1>1 DEF WholeRow, Exists

\* An argument that is not refused leaves a schedule in the row.
LEMMA GivenSchedule ==
    ASSUME NEW row, row.expr \in Exprs, NEW e \in Text, e # "wrong"
    PROVE  Given(row, e) \in Exprs
BY DEF Given, Text

LEMMA UpdateEnds ==
    ASSUME IInv, NEW c \in Calls, up, call[c].st = "open", req' = req,
           NEW j \in Visible(Setting(c)), NEW e \in Text, e # "wrong",
           \/ UpdateJob(j, Given(job[j], e))
           \/ UpdateExprByID(j, Given(job[j], e)),
           tag' = tag, Returns(c, {j})
    PROVE  Ends(c)
<1> DEFINE g == Given(job[j], e)
<1>1. j \in Jobs /\ Exists(j)
  BY Own
<1>2. job[j] \in WholeRow /\ job[j] \in Row /\ job[j].expr \in Exprs
  BY <1>1, RowThere
<1>3. g \in Exprs
  BY <1>2, GivenSchedule
<1>4. job \in [Jobs -> WholeRow]
  BY WholeTable DEF IInv, TypeOK
<1>5. UpdateJob(j, g) \/ UpdateExprByID(j, g)
  OBVIOUS
<1> HIDE DEF g
<1>6. \E w \in WholeRow : job' = [job EXCEPT ![j] = w]
  <2>1. CASE UpdateJob(j, g)
    <3>1. PICK d \in BOOLEAN, l \in BOOLEAN :
              /\ l => job[j].status = "PENDING"
              /\ job' = [job EXCEPT ![j].expr = g, ![j].due = d, ![j].late = l]
      BY <2>1 DEF UpdateJob
    <3> DEFINE w == [job[j] EXCEPT !.expr = g, !.due = d, !.late = l]
    <3>2. w \in WholeRow
      BY <1>2, <1>3, <3>1 DEF WholeRow, Row
    <3>3. job' = [job EXCEPT ![j] = w]
      BY <1>1, <1>4, <3>1
    <3>4. QED
      BY <3>2, <3>3
  <2>2. CASE UpdateExprByID(j, g)
    <3> DEFINE w == [job[j] EXCEPT !.expr = g]
    <3>1. w \in WholeRow
      BY <1>2, <1>3 DEF WholeRow, Row
    <3>2. job' = [job EXCEPT ![j] = w]
      BY <2>2 DEF UpdateExprByID
    <3>3. QED
      BY <3>1, <3>2
  <2>3. QED
    BY <1>5, <2>1, <2>2
<1>7. QED
  BY <1>6, RowEnds

\* The statements that need no argument.
LEMMA StatusEnds ==
    ASSUME IInv, NEW c \in Calls, up, call[c].st = "open", req' = req,
           NEW j \in Visible(Setting(c)),
           StopJob(j) \/ RestartJob(j) \/ DeleteJob(j),
           job[j].status # "PENDING" \/ DeleteJob(j),
           tag' = tag, Returns(c, {j})
    PROVE  Ends(c)
<1>1. j \in Jobs /\ Exists(j)
  BY Own
<1>2. job[j] \in WholeRow /\ job[j] \in Row /\ job[j].expr \in Exprs
  BY <1>1, RowThere
<1>3. \E w \in WholeRow : job' = [job EXCEPT ![j] = w]
  <2>1. CASE job[j].status # "PENDING" /\ (StopJob(j) \/ RestartJob(j))
    <3>1. PICK s \in {"PAUSED", "READY"} : job' = [job EXCEPT ![j].status = s]
      BY <2>1 DEF StopJob, RestartJob
    <3> DEFINE w == [job[j] EXCEPT !.status = s]
    <3>2. w \in WholeRow
      BY <1>2, <2>1 DEF WholeRow, Row, Status
    <3>3. QED
      BY <3>1, <3>2
  <2>2. CASE DeleteJob(j)
    BY <2>2, AbsentWhole DEF DeleteJob
  <2>3. QED
    BY <2>1, <2>2
<1>4. QED
  BY <1>3, RowEnds

\* What every field starts from.
LEMMA Started ==
    ASSUME IInv, NEW c \in Calls, NEW f, Runs(c, f)
    PROVE  /\ up /\ call[c].st = "open" /\ req' = req /\ Field(c) = f
           /\ Decodes(f, Arg(c)) /\ Setting(c) = Owner(c)
           /\ \A x, i : ById(Setting(c), x, i) \subseteq Visible(Setting(c))
           /\ \A x, n : ByName(Setting(c), x, n) \subseteq Visible(Setting(c))
BY Lent DEF Runs, ById, ByName

LEMMA ValidateKind ==
    ASSUME IInv, NEW c \in Calls, Mutation_validateExprFormat(c)
    PROVE  Ends(c)
<1>1. Runs(c, "validateExprFormat") /\ (Reads(c, {}) \/ Errors(c))
  BY DEF Mutation_validateExprFormat, mutationResolver_ValidateExprFormat
<1>2. up /\ call[c].st = "open" /\ req' = req
  BY <1>1, Started
<1>3. {} \in SUBSET Visible(Setting(c))
  OBVIOUS
<1>4. QED
  BY <1>1, <1>2, <1>3, ReadsEnds, ErrorsEnds

LEMMA UpdateByNameKind ==
    ASSUME IInv, NEW c \in Calls, Mutation_updateJobByName(c)
    PROVE  Ends(c)
<1> DEFINE S == ByName(Setting(c), Executor(c), Arg(c).name)
           e == Arg(c).args.expr
<1>1. /\ Runs(c, "updateJobByName")
      /\ \/ /\ ~UpdateRefused(S, e)
            /\ \E j \in S : UpdateJob(j, Given(job[j], e)) /\ Returns(c, {j})
            /\ UNCHANGED tag
         \/ UpdateRefused(S, e) /\ Errors(c)
  BY DEF Mutation_updateJobByName, mutationResolver_UpdateJobByName
<1>2. /\ up /\ call[c].st = "open" /\ req' = req /\ S \subseteq Visible(Setting(c))
      /\ Decodes("updateJobByName", Arg(c))
  BY <1>1, Started
<1>3. e \in Text
  BY <1>2, ArgTypes DEF field_Mutation_updateJobByName_args, unmarshalInputUpdateJobArgs
<1> HIDE DEF S, e
<1>4. CASE ~UpdateRefused(S, e)
  <2>1. PICK j \in S : UpdateJob(j, Given(job[j], e)) /\ Returns(c, {j}) /\ tag' = tag
    BY <1>1, <1>4
  <2>2. j \in Visible(Setting(c)) /\ e # "wrong"
    BY <1>2, <1>4, <2>1 DEF UpdateRefused
  <2>3. QED
    BY <1>2, <1>3, <2>1, <2>2, UpdateEnds
<1>5. QED
  BY <1>1, <1>2, <1>4, ErrorsEnds

LEMMA UpdateByIdKind ==
    ASSUME IInv, NEW c \in Calls, Mutation_updateJobById(c)
    PROVE  Ends(c)
<1> DEFINE S == ById(Setting(c), Executor(c), Arg(c).id)
           e == Arg(c).args.expr
<1>1. /\ Runs(c, "updateJobById")
      /\ \/ /\ ~UpdateRefused(S, e)
            /\ \E j \in S : UpdateJob(j, Given(job[j], e)) /\ Returns(c, {j})
            /\ UNCHANGED tag
         \/ UpdateRefused(S, e) /\ Errors(c)
  BY DEF Mutation_updateJobById, mutationResolver_UpdateJobByID
<1>2. /\ up /\ call[c].st = "open" /\ req' = req /\ S \subseteq Visible(Setting(c))
      /\ Decodes("updateJobById", Arg(c))
  BY <1>1, Started
<1>3. e \in Text
  BY <1>2, ArgTypes DEF field_Mutation_updateJobById_args, unmarshalInputUpdateJobArgs
<1> HIDE DEF S, e
<1>4. CASE ~UpdateRefused(S, e)
  <2>1. PICK j \in S : UpdateJob(j, Given(job[j], e)) /\ Returns(c, {j}) /\ tag' = tag
    BY <1>1, <1>4
  <2>2. j \in Visible(Setting(c)) /\ e # "wrong"
    BY <1>2, <1>4, <2>1 DEF UpdateRefused
  <2>3. QED
    BY <1>2, <1>3, <2>1, <2>2, UpdateEnds
<1>5. QED
  BY <1>1, <1>2, <1>4, ErrorsEnds

LEMMA UpdateExprKind ==
    ASSUME IInv, NEW c \in Calls, Mutation_updateExprByID(c)
    PROVE  Ends(c)
<1> DEFINE S == ById(Setting(c), Executor(c), Arg(c).id)
           e == Arg(c).expr
<1>1. /\ Runs(c, "updateExprByID")
      /\ \/ /\ ~UpdateRefused(S, e)
            /\ \E j \in S : UpdateExprByID(j, Given(job[j], e)) /\ Returns(c, {j})
            /\ UNCHANGED tag
         \/ UpdateRefused(S, e) /\ Errors(c)
  BY DEF Mutation_updateExprByID, mutationResolver_UpdateExprByID
<1>2. /\ up /\ call[c].st = "open" /\ req' = req /\ S \subseteq Visible(Setting(c))
      /\ Decodes("updateExprByID", Arg(c))
  BY <1>1, Started
<1>3. e \in Text
  BY <1>2, ArgTypes DEF field_Mutation_updateExprByID_args
<1> HIDE DEF S, e
<1>4. CASE ~UpdateRefused(S, e)
  <2>1. PICK j \in S : UpdateExprByID(j, Given(job[j], e)) /\ Returns(c, {j}) /\ tag' = tag
    BY <1>1, <1>4
  <2>2. j \in Visible(Setting(c)) /\ e # "wrong"
    BY <1>2, <1>4, <2>1 DEF UpdateRefused
  <2>3. QED
    BY <1>2, <1>3, <2>1, <2>2, UpdateEnds
<1>5. QED
  BY <1>1, <1>2, <1>4, ErrorsEnds

\* The state is not in the model, but the answer shows the row.
LEMMA UpdateStateKind ==
    ASSUME IInv, NEW c \in Calls, Mutation_updateStateByID(c)
    PROVE  Ends(c)
<1> DEFINE S == ById(Setting(c), Executor(c), Arg(c).id)
<1>1. /\ Runs(c, "updateStateByID")
      /\ (Returns(c, S) /\ UNCHANGED <<job, tag>>) \/ Errors(c)
  BY DEF Mutation_updateStateByID, mutationResolver_UpdateStateByID
<1>2. up /\ call[c].st = "open" /\ req' = req /\ S \subseteq Visible(Setting(c))
  BY <1>1, Started
<1> HIDE DEF S
<1>3. CASE Returns(c, S) /\ UNCHANGED <<job, tag>>
  <2>1. S \in SUBSET Nat /\ \A j \in S : j \in Jobs /\ tag'[j].owner = Owner(c)
    BY <1>2, <1>3, Own, JobStoreAssumption
  <2>2. /\ Answers(c) /\ faults' \in faults..MaxFaults
        /\ \E s \in BOOLEAN : Release(call[c].conn, s)
    BY <1>3, <2>1, ReturnsAnswers
  <2>3. QED
    BY <1>2, <1>3, <2>2, TableStays DEF Ends
<1>4. QED
  BY <1>1, <1>2, <1>3, ErrorsEnds

LEMMA StatusKinds ==
    ASSUME IInv, NEW c \in Calls,
           \/ Mutation_deleteJobByName(c) \/ Mutation_deleteJobByID(c)
           \/ Mutation_stopJob(c) \/ Mutation_restartJob(c)
    PROVE  Ends(c)
<1>1. CASE Mutation_deleteJobByName(c)
  <2> DEFINE S == ByName(Setting(c), Executor(c), Arg(c).name)
  <2>1. /\ Runs(c, "deleteJobByName")
        /\ (\E j \in S : DeleteJob(j) /\ Returns(c, {j}) /\ tag' = tag) \/ Errors(c)
    BY <1>1 DEF Mutation_deleteJobByName, mutationResolver_DeleteJobByName
  <2>2. up /\ call[c].st = "open" /\ req' = req /\ S \subseteq Visible(Setting(c))
    BY <2>1, Started
  <2> HIDE DEF S
  <2>3. QED
    BY <2>1, <2>2, StatusEnds, ErrorsEnds
<1>2. CASE Mutation_deleteJobByID(c)
  <2> DEFINE S == ById(Setting(c), Executor(c), Arg(c).id)
  <2>1. /\ Runs(c, "deleteJobByID")
        /\ (\E j \in S : DeleteJob(j) /\ Returns(c, {j}) /\ tag' = tag) \/ Errors(c)
    BY <1>2 DEF Mutation_deleteJobByID, mutationResolver_DeleteJobByID
  <2>2. up /\ call[c].st = "open" /\ req' = req /\ S \subseteq Visible(Setting(c))
    BY <2>1, Started
  <2> HIDE DEF S
  <2>3. QED
    BY <2>1, <2>2, StatusEnds, ErrorsEnds
<1>3. CASE Mutation_stopJob(c)
  <2> DEFINE S == ById(Setting(c), Executor(c), Arg(c).id)
  <2>1. /\ Runs(c, "stopJob")
        /\ \/ \E j \in S : /\ StopJob(j) /\ job[j].status # "PENDING"
                           /\ Returns(c, {j}) /\ tag' = tag
           \/ Errors(c)
    BY <1>3 DEF Mutation_stopJob, mutationResolver_StopJob
  <2>2. up /\ call[c].st = "open" /\ req' = req /\ S \subseteq Visible(Setting(c))
    BY <2>1, Started
  <2> HIDE DEF S
  <2>3. QED
    BY <2>1, <2>2, StatusEnds, ErrorsEnds
<1>4. CASE Mutation_restartJob(c)
  <2> DEFINE S == ById(Setting(c), Executor(c), Arg(c).id)
  <2>1. /\ Runs(c, "restartJob")
        /\ \/ \E j \in S : /\ RestartJob(j) /\ job[j].status # "PENDING"
                           /\ Returns(c, {j}) /\ tag' = tag
           \/ Errors(c)
    BY <1>4 DEF Mutation_restartJob, mutationResolver_RestartJob
  <2>2. up /\ call[c].st = "open" /\ req' = req /\ S \subseteq Visible(Setting(c))
    BY <2>1, Started
  <2> HIDE DEF S
  <2>3. QED
    BY <2>1, <2>2, StatusEnds, ErrorsEnds
<1>5. QED
  BY <1>1, <1>2, <1>3, <1>4

-----------------------------------------------------------------------------
(* The queries.                                                             *)

LEMMA QueryKind ==
    ASSUME IInv, NEW c \in Calls, QueryStep(c)
    PROVE  Ends(c)
<1> DEFINE V == Visible(Setting(c))
<1>1. ASSUME NEW S \in SUBSET V, NEW s, NEW l, NEW J \in Page(S, s, l)
      PROVE  J \in SUBSET V
  BY <1>1 DEF Page
<1>2. CASE Query_searchJobs(c)
  <2>1. PICK f, s, l : /\ Runs(c, "searchJobs")
                       /\ \/ \E J \in SearchJobs(Setting(c), Executor(c), f, s, l) : Reads(c, J)
                          \/ Errors(c)
    BY <1>2 DEF Query_searchJobs, queryResolver_SearchJobs
  <2>2. SearchJobs(Setting(c), Executor(c), f, s, l) \subseteq SUBSET V
    BY <1>1 DEF SearchJobs
  <2>3. QED
    BY <2>1, <2>2, Started, ReadsEnds, ErrorsEnds
<1>3. CASE Query_searchJobsByMeta(c)
  <2>1. PICK a, s, l : /\ Runs(c, "searchJobsByMeta")
                       /\ \/ \E J \in SearchJobsByMeta(Setting(c), Executor(c), a, s, l) : Reads(c, J)
                          \/ Errors(c)
    BY <1>3 DEF Query_searchJobsByMeta, queryResolver_SearchJobsByMeta
  <2>2. SearchJobsByMeta(Setting(c), Executor(c), a, s, l) \subseteq SUBSET V
    <3>1. SUFFICES ASSUME NEW J \in SearchJobsByMeta(Setting(c), Executor(c), a, s, l)
                   PROVE  J \in SUBSET V
      OBVIOUS
    <3>2. PICK S \in SUBSET V : J \in Page(S, s, l)
      BY <3>1 DEF SearchJobsByMeta
    <3>3. QED
      BY <1>1, <3>2
  <2>3. QED
    BY <2>1, <2>2, Started, ReadsEnds, ErrorsEnds
<1>4. CASE Query_queryJobByName(c)
  <2>1. /\ Runs(c, "queryJobByName")
        /\ \/ \E J \in GetJobByName(Setting(c), Executor(c), Arg(c).name) : Reads(c, J)
           \/ Errors(c)
    BY <1>4 DEF Query_queryJobByName, queryResolver_QueryJobByName
  <2>2. GetJobByName(Setting(c), Executor(c), Arg(c).name) \subseteq SUBSET V
    BY <2>1, Started DEF GetJobByName
  <2>3. QED
    BY <2>1, <2>2, Started, ReadsEnds, ErrorsEnds
<1>5. CASE Query_queryJobByID(c)
  <2>1. /\ Runs(c, "queryJobByID")
        /\ \/ \E J \in GetJobByID(Setting(c), Executor(c), Arg(c).id) : Reads(c, J)
           \/ Errors(c)
    BY <1>5 DEF Query_queryJobByID, queryResolver_QueryJobByID
  <2>2. GetJobByID(Setting(c), Executor(c), Arg(c).id) \subseteq SUBSET V
    BY <2>1, Started DEF GetJobByID
  <2>3. QED
    BY <2>1, <2>2, Started, ReadsEnds, ErrorsEnds
<1>6. CASE Query_lastUpdate(c)
  <2>1. Runs(c, "lastUpdate") /\ Reads(c, {}) /\ {} \in SUBSET V
    BY <1>6 DEF Query_lastUpdate, queryResolver_LastUpdate
  <2>2. QED
    BY <2>1, Started, ReadsEnds
<1>7. QED
  BY <1>2, <1>3, <1>4, <1>5, <1>6 DEF QueryStep

-----------------------------------------------------------------------------
(* The inserts.                                                             *)

\* The row that is inserted is whole, and a job.
LEMMA InsertedRow ==
    ASSUME NEW x \in Executors, NEW a \in unmarshalInputCreateJobArgs, Insertable(a),
           NEW w \in Inserted(x, a)
    PROVE  w \in WholeRow /\ w.status \in Status
<1>1. PICK d \in BOOLEAN :
          w = [status |-> "READY", executor |-> x, expr |-> a.expr, due |-> d, late |-> FALSE,
               spent |-> FALSE]
  BY DEF Inserted
<1>2. QED
  BY <1>1 DEF Insertable, WholeRow, Row, Status

\* The tag that is inserted conflicts with nothing: committed rows are
\* refused, and those of other transactions are waited for.
LEMMA InsertTags ==
    ASSUME IInv, NEW c \in Calls, call[c].st = "open",
           Needs(c) = Conflicting(c), Needs(c) \cap Locked(c) = {}, ~InsertRefused(c),
           InsertArgs(c) \in unmarshalInputCreateJobArgs, NEW j \in Jobs, NextId(j),
           tag' = [tag EXCEPT ![j] = Tagged(Owner(c), InsertArgs(c))],
           \A i \in Jobs : Present(i)' => Present(i) \/ i = j
    PROVE  /\ TagStep(c) /\ tag'[j].owner = Owner(c)
           /\ \A i \in Jobs : i # j => tag'[i] = tag[i]
<1> DEFINE t == Tagged(Owner(c), InsertArgs(c))
<1>1. tag[j] = NoTag /\ tag \in [Jobs -> Tag \cup {NoTag}]
  BY DEF NextId, Unused, IInv, TypeOK, TagsOK, Tag
<1>2. t \in Tag /\ t.owner = Owner(c)
  BY Lent DEF Tag, Tagged, unmarshalInputCreateJobArgs
<1>3. ASSUME NEW i \in Jobs, Present(i)
      PROVE  ~Conflicts(tag[i], t)
  <2>1. i \in Conflicting(c) => ~Exists(i) /\ i \notin Drafted(c) /\ i \notin Locked(c)
    BY DEF InsertRefused
  <2>2. i \notin Conflicting(c)
    BY <1>3, <2>1 DEF Present, Locked
  <2>3. QED
    BY <2>2 DEF Conflicting
<1> HIDE DEF t
<1>4. tag' = [tag EXCEPT ![j] = t]
  BY DEF t
<1>5. QED
  BY <1>1, <1>2, <1>3, <1>4 DEF TagStep

LEMMA CreateKind ==
    ASSUME IInv, NEW c \in Calls, Mutation_createJob(c)
    PROVE  Ends(c)
<1> DEFINE a == InsertArgs(c)
<1>1. /\ up /\ call[c].st = "open" /\ req' = req /\ Field(c) = "createJob"
      /\ Decodes("createJob", Arg(c)) /\ Needs(c) \cap Locked(c) = {}
  BY Started DEF Mutation_createJob, mutationResolver_CreateJob, Runs
<1>2. a \in unmarshalInputCreateJobArgs /\ Executor(c) \in Executors
  BY <1>1, ArgTypes DEF field_Mutation_createJob_args, InsertArgs, Executor
<1>3. Needs(c) = Conflicting(c)
  BY <1>1 DEF Needs
<1>4. CASE ~InsertRefused(c) /\ ~Errors(c)
  <2>1. PICK j \in Jobs, w \in Inserted(Executor(c), a) :
            /\ NextId(j) /\ job' = [job EXCEPT ![j] = w]
            /\ tag' = [tag EXCEPT ![j] = Tagged(Owner(c), a)] /\ Returns(c, {j})
    BY <1>4 DEF Mutation_createJob, mutationResolver_CreateJob
  <2>2. w \in WholeRow /\ w.status \in Status
    BY <1>2, <1>4, InsertedRow DEF InsertRefused
  <2>3. job \in [Jobs -> WholeRow]
    BY WholeTable DEF IInv, TypeOK
  <2>4. job' \in [Jobs -> WholeRow] /\ \A i \in Jobs : i # j => job'[i] = job[i]
    BY <2>1, <2>2, <2>3
  <2>5. tag'[j].owner = Owner(c)
    BY <2>1 DEF IInv, TypeOK, TagsOK, Tagged
  <2>6. {j} \in SUBSET Nat
    BY JobStoreAssumption
  <2>7. /\ Answers(c) /\ faults' \in faults..MaxFaults
        /\ \E s \in BOOLEAN : Release(call[c].conn, s)
    BY <2>1, <2>5, <2>6, ReturnsAnswers
  <2>8. ASSUME NEW i \in Jobs, Present(i)'
        PROVE  Present(i) \/ i = j
    <3>1. CASE Exists(i)'
      BY <2>4, <3>1 DEF Exists, Present
    <3>2. CASE \E d \in Calls : i \in Drafted(d)'
      <4>1. PICK d \in Calls : i \in Drafted(d)'
        BY <3>2
      <4>2. call'[d].draft = call[d].draft \/ call'[d].draft = NoDraft
        BY <2>7, AnswerLeaves
      <4>3. QED
        BY <4>1, <4>2, NoneDrafted DEF Drafted, Present
    <3>3. QED
      BY <2>8, <3>1, <3>2 DEF Present
  <2> HIDE DEF a
  <2>9. TagStep(c)
    BY <1>1, <1>2, <1>3, <1>4, <2>1, <2>8, InsertTags DEF a
  <2>10. TableStep(c)
    BY <2>4, <2>5, WholeTableNext DEF TableStep
  <2>11. QED
    BY <1>1, <2>7, <2>9, <2>10 DEF Ends
<1>5. CASE Errors(c)
  BY <1>1, <1>5, ErrorsEnds
<1>6. QED
  BY <1>4, <1>5 DEF Mutation_createJob, mutationResolver_CreateJob

\* A commit ends the call.
LEMMA PublishEnds ==
    ASSUME IInv, NEW c \in Calls, up, call[c].st = "open", req' = req,
           Publish(c), tag' = tag, Answers(c), faults' \in faults..MaxFaults,
           \E s \in BOOLEAN : Release(call[c].conn, s)
    PROVE  Ends(c)
<1>1. job' = [j \in Jobs |-> IF j \in Drafted(c) THEN call[c].draft[j] ELSE job[j]]
  BY DEF Publish
<1>2. job \in [Jobs -> WholeRow]
  BY WholeTable DEF IInv, TypeOK
<1>3. \A j \in Drafted(c) : call[c].draft[j] \in WholeRow /\ tag[j].owner = Owner(c)
  BY DEF IInv, Drafts
<1>4. job' \in [Jobs -> WholeRow]
  BY <1>1, <1>2, <1>3
<1>5. TableStep(c)
  BY <1>1, <1>3, <1>4, WholeTableNext DEF TableStep
<1>6. ASSUME NEW j \in Jobs, Present(j)'
      PROVE  Present(j)
  <2>1. CASE Exists(j)'
    BY <1>1, <2>1 DEF Exists, Present
  <2>2. CASE \E d \in Calls : j \in Drafted(d)'
    <3>1. PICK d \in Calls : j \in Drafted(d)'
      BY <2>2
    <3>2. call'[d].draft = call[d].draft \/ call'[d].draft = NoDraft
      BY AnswerLeaves
    <3>3. QED
      BY <3>1, <3>2, NoneDrafted DEF Drafted, Present
  <2>3. QED
    BY <1>6, <2>1, <2>2 DEF Present
<1>7. TagStep(c)
  BY <1>6 DEF TagStep
<1>8. QED
  BY <1>5, <1>7 DEF Ends

LEMMA BatchKind ==
    ASSUME IInv, NEW c \in Calls, Mutation_batchCreateJobs(c)
    PROVE  Ends(c) \/ GoesOn(c)
<1> DEFINE a == InsertArgs(c)
           n == Len(Arg(c).batch)
<1>1. /\ up /\ call[c].st = "open" /\ req' = req /\ Field(c) = "batchCreateJobs"
      /\ Decodes("batchCreateJobs", Arg(c)) /\ Needs(c) \cap Locked(c) = {}
  BY Started DEF Mutation_batchCreateJobs, mutationResolver_BatchCreateJobs, Runs
<1>2. /\ Arg(c).batch \in Seq(unmarshalInputCreateJobArgs) /\ Executor(c) \in Executors
  BY <1>1, ArgTypes DEF field_Mutation_batchCreateJobs_args, Executor
<1>3. call[c] \in CallRecord /\ call[c].pos \in Nat /\ n \in Nat
  BY <1>2 DEF IInv, TypeOK, CallRecord
<1>4. ASSUME call[c].pos < n, ~InsertRefused(c),
             NEW j \in Jobs, NEW w \in Inserted(Executor(c), a), NextId(j), Draft(c, j, w),
             tag' = [tag EXCEPT ![j] = Tagged(Owner(c), a)],
             UNCHANGED <<job, poolVars, faults>>
      PROVE  GoesOn(c)
  <2> DEFINE p == call[c].pos + 1
             d == [call[c].draft EXCEPT ![j] = w]
  <2>1. a \in unmarshalInputCreateJobArgs
    BY <1>1, <1>2, <1>3, <1>4 DEF InsertArgs
  <2>2. w \in WholeRow /\ w.status \in Status /\ w \in Row
    BY <1>2, <1>4, <2>1, InsertedRow DEF InsertRefused, WholeRow
  <2>3. Needs(c) = Conflicting(c)
    BY <1>1, <1>4 DEF Needs
  <2>4. call[c].draft \in [Jobs -> Row]
    BY <1>3 DEF CallRecord
  <2>5. /\ p \in Nat /\ d \in [Jobs -> Row] /\ d[j] = w
        /\ \A i \in Jobs : i # j => d[i] = call[c].draft[i]
    BY <1>3, <2>2, <2>4
  <2>6. call' = [call EXCEPT ![c].pos = p, ![c].draft = d]
    BY <1>4 DEF Draft
  <2> HIDE DEF a, p, d
  <2>7. call \in [Calls -> CallRecord]
    BY DEF IInv, TypeOK, CallRecord
  <2>8. \A e \in Calls : call'[e].draft = IF e = c THEN d ELSE call[e].draft
    BY <2>6, <2>7 DEF CallRecord
  <2>9. \A i \in Jobs : Present(i)' => Present(i) \/ i = j
    BY <1>4, <2>5, <2>8 DEF Present, Exists, Drafted
  <2>10. /\ TagStep(c) /\ tag'[j].owner = Owner(c)
         /\ \A i \in Jobs : i # j => tag'[i] = tag[i]
    BY <1>1, <1>4, <2>1, <2>3, <2>9, InsertTags DEF a
  <2>11. ASSUME NEW i \in Jobs, d[i].status # "UNUSED"
         PROVE  d[i] \in WholeRow /\ d[i].status \in Status /\ tag'[i].owner = Owner(c)
    <3>1. CASE i = j
      BY <2>2, <2>5, <2>10, <3>1
    <3>2. CASE i # j
      <4>1. i \in Drafted(c) /\ d[i] = call[c].draft[i]
        BY <2>5, <2>11, <3>2 DEF Drafted
      <4>2. QED
        BY <2>10, <3>2, <4>1 DEF IInv, Drafts
    <3>3. QED
      BY <3>1, <3>2
  <2>12. QED
    BY <1>1, <1>4, <2>5, <2>6, <2>10, <2>11 DEF GoesOn
<1>5. CASE Errors(c)
  BY <1>1, <1>5, ErrorsEnds
<1>6. CASE Publish(c) /\ Returns(c, 0..(n - 1)) /\ UNCHANGED tag
  <2>1. 0..(n - 1) \in SUBSET Nat /\ ~ReturnsJobs(c)
    BY <1>1, <1>3 DEF ReturnsJobs
  <2>2. /\ Answers(c) /\ faults' \in faults..MaxFaults
        /\ \E s \in BOOLEAN : Release(call[c].conn, s)
    BY <1>6, <2>1, ReturnsAnswers
  <2>3. QED
    BY <1>1, <1>6, <2>2, PublishEnds
<1>7. CASE /\ call[c].pos < n /\ ~InsertRefused(c)
           /\ \E j \in Jobs, w \in Inserted(Executor(c), a) :
                 NextId(j) /\ Draft(c, j, w) /\ tag' = [tag EXCEPT ![j] = Tagged(Owner(c), a)]
           /\ UNCHANGED <<job, poolVars, faults>>
  <2> HIDE DEF a, n
  <2>1. PICK j \in Jobs, w \in Inserted(Executor(c), a) :
            NextId(j) /\ Draft(c, j, w) /\ tag' = [tag EXCEPT ![j] = Tagged(Owner(c), a)]
    BY <1>7
  <2>2. QED
    BY <1>4, <1>7, <2>1
<1>8. QED
  BY <1>5, <1>6, <1>7 DEF Mutation_batchCreateJobs, mutationResolver_BatchCreateJobs

-----------------------------------------------------------------------------
(* The transactions on rows that are there.                                 *)

\* A transaction goes on with a draft of visible rows.
LEMMA DraftGoesOn ==
    ASSUME IInv, NEW c \in Calls, up, call[c].st = "open", req' = req,
           UNCHANGED <<job, tag, poolVars, faults>>,
           NEW p \in Nat, NEW d \in [Jobs -> Row],
           call' = [call EXCEPT ![c].pos = p, ![c].draft = d],
           \A j \in Jobs : d[j].status # "UNUSED" =>
               \/ d[j] = call[c].draft[j]
               \/ j \in Visible(Setting(c)) /\ d[j] \in WholeRow /\ d[j].status \in Status
    PROVE  GoesOn(c)
<1>1. call \in [Calls -> CallRecord]
  BY DEF IInv, TypeOK, CallRecord
<1>2. \A e \in Calls : call'[e].draft = IF e = c THEN d ELSE call[e].draft
  BY <1>1 DEF CallRecord
<1>3. ASSUME NEW j \in Jobs, d[j].status # "UNUSED"
      PROVE  /\ d[j] \in WholeRow /\ d[j].status \in Status /\ tag'[j].owner = Owner(c)
             /\ Present(j)
  <2>1. CASE d[j] = call[c].draft[j]
    <3>1. j \in Drafted(c)
      BY <1>3, <2>1 DEF Drafted
    <3>2. QED
      BY <2>1, <3>1 DEF IInv, Drafts, Present
  <2>2. CASE j \in Visible(Setting(c)) /\ d[j] \in WholeRow /\ d[j].status \in Status
    BY <2>2, Own DEF Present
  <2>3. QED
    BY <1>3, <2>1, <2>2
<1>4. ASSUME NEW j \in Jobs, Present(j)'
      PROVE  Present(j)
  <2>1. CASE Exists(j)'
    BY <2>1 DEF Exists, Present
  <2>2. CASE \E e \in Calls : j \in Drafted(e)'
    <3>1. PICK e \in Calls : j \in Drafted(e)'
      BY <2>2
    <3>2. CASE e = c
      BY <1>2, <1>3, <3>1, <3>2 DEF Drafted
    <3>3. CASE e # c
      BY <1>2, <3>1, <3>3 DEF Drafted, Present
    <3>4. QED
      BY <3>2, <3>3
  <2>3. QED
    BY <1>4, <2>1, <2>2 DEF Present
<1>5. TagStep(c)
  BY <1>4 DEF TagStep
<1>6. QED
  BY <1>3, <1>5 DEF GoesOn

LEMMA FetchKind ==
    ASSUME IInv, NEW c \in Calls, Mutation_fetchForProcessing(c)
    PROVE  Ends(c) \/ GoesOn(c)
<1> DEFINE limit == Int32(Arg(c).limit)
           d(D)  == [j \in Jobs |-> IF j \in FirstOf(D, limit)
                                    THEN [job[j] EXCEPT !.status = "PENDING", !.due = TRUE]
                                    ELSE Absent("UNUSED")]
<1>1. /\ up /\ call[c].st = "open" /\ req' = req /\ Field(c) = "fetchForProcessing"
  BY Started DEF Mutation_fetchForProcessing, mutationResolver_FetchForProcessing
<1>2. ASSUME NEW D \in DueByNow(c), call' = [call EXCEPT ![c].pos = 1, ![c].draft = d(D)],
             UNCHANGED <<job, tag, poolVars, faults>>
      PROVE  GoesOn(c)
  <2>1. D \subseteq Visible(Setting(c)) /\ FirstOf(D, limit) \subseteq D
    BY DEF DueByNow, FirstOf
  <2>2. ASSUME NEW j \in FirstOf(D, limit)
        PROVE  /\ j \in Visible(Setting(c))
               /\ [job[j] EXCEPT !.status = "PENDING", !.due = TRUE] \in WholeRow
               /\ [job[j] EXCEPT !.status = "PENDING", !.due = TRUE].status \in Status
    <3>1. j \in Visible(Setting(c)) /\ j \in Jobs /\ Exists(j)
      BY <1>1, <2>1, Own
    <3>2. job[j] \in WholeRow /\ job[j] \in Row /\ job[j].expr \in Exprs
      BY <3>1, RowThere
    <3>3. QED
      BY <3>1, <3>2 DEF WholeRow, Row, Status
  <2>3. \A j \in Jobs : IF j \in FirstOf(D, limit)
                        THEN d(D)[j] = [job[j] EXCEPT !.status = "PENDING", !.due = TRUE]
                        ELSE d(D)[j] = Absent("UNUSED")
    OBVIOUS
  <2>4. \A j \in Jobs : j \notin FirstOf(D, limit) => d(D)[j].status = "UNUSED"
    BY <2>3 DEF Absent
  <2>5. d(D) \in [Jobs -> Row]
    BY <2>2, AbsentWhole DEF WholeRow
  <2>6. \A j \in Jobs : d(D)[j].status # "UNUSED" =>
            j \in Visible(Setting(c)) /\ d(D)[j] \in WholeRow /\ d(D)[j].status \in Status
    BY <2>2, <2>3, <2>4
  <2> DEFINE e == d(D)
  <2>7. call' = [call EXCEPT ![c].pos = 1, ![c].draft = e] /\ 1 \in Nat
    BY <1>2
  <2>8. /\ e \in [Jobs -> Row]
        /\ \A j \in Jobs : e[j].status # "UNUSED" =>
              j \in Visible(Setting(c)) /\ e[j] \in WholeRow /\ e[j].status \in Status
    BY <2>5, <2>6
  <2> HIDE DEF d, e
  <2>9. QED
    BY <1>1, <1>2, <2>7, <2>8, DraftGoesOn
<1>3. CASE Errors(c)
  BY <1>1, <1>3, ErrorsEnds
<1>4. CASE /\ Publish(c) /\ UNCHANGED tag
           /\ \/ /\ Settle(c, TRUE, Drafted(c), TRUE)
                 /\ Release(call[c].conn, TRUE) /\ UNCHANGED faults
              \/ /\ Settle(c, TRUE, {}, TRUE)
                 /\ Release(call[c].conn, FALSE) /\ Drops(c)
  <2>1. /\ Drafted(c) \in SUBSET Nat /\ {} \in SUBSET Nat
        /\ \A j \in Drafted(c) : j \in Jobs /\ tag'[j].owner = Owner(c)
    BY <1>4, DraftedOpen, JobStoreAssumption
  <2>2. Answers(c) /\ faults' \in faults..MaxFaults
        /\ \E s \in BOOLEAN : Release(call[c].conn, s)
    BY <1>4, <2>1, SettleAnswers, FaultsGrow
  <2>3. QED
    BY <1>1, <1>4, <2>2, PublishEnds
<1>5. CASE /\ \E D \in DueByNow(c) : call' = [call EXCEPT ![c].pos = 1, ![c].draft = d(D)]
           /\ UNCHANGED <<job, tag, poolVars, faults>>
  BY <1>2, <1>5
<1>6. QED
  BY <1>3, <1>4, <1>5 DEF Mutation_fetchForProcessing, mutationResolver_FetchForProcessing

LEMMA RetryKind ==
    ASSUME IInv, NEW c \in Calls, Mutation_retryJobs(c)
    PROVE  Ends(c) \/ GoesOn(c)
<1> DEFINE cs == Arg(c).commits
           n == Len(cs)
           S == ById(Setting(c), Executor(c), Commit(c).id)
           Now(j) == IF j \in Drafted(c) THEN call[c].draft[j] ELSE job[j]
<1>1. /\ up /\ call[c].st = "open" /\ req' = req /\ Field(c) = "retryJobs"
      /\ Decodes("retryJobs", Arg(c)) /\ S \subseteq Visible(Setting(c))
  BY Started DEF Mutation_retryJobs, mutationResolver_RetryJobs
<1>2. cs \in Seq(unmarshalInputCommitArgs) /\ n \in Nat
  BY <1>1, ArgTypes DEF field_Mutation_retryJobs_args
<1>3. /\ call \in [Calls -> CallRecord] /\ call[c] \in CallRecord
      /\ call[c].pos \in Nat /\ call[c].draft \in [Jobs -> Row]
  BY DEF IInv, TypeOK, CallRecord
<1>4. ASSUME call[c].pos < n, call' = [call EXCEPT ![c].pos = call[c].pos + 1],
             UNCHANGED <<job, tag, poolVars, faults>>
      PROVE  GoesOn(c)
  <2> DEFINE p == call[c].pos + 1
             d == call[c].draft
  <2>1. call' = [call EXCEPT ![c].pos = p, ![c].draft = d]
    BY <1>3, <1>4 DEF CallRecord
  <2>2. p \in Nat /\ d \in [Jobs -> Row]
    BY <1>3
  <2>3. \A j \in Jobs : d[j].status # "UNUSED" =>
               \/ d[j] = call[c].draft[j]
               \/ j \in Visible(Setting(c)) /\ d[j] \in WholeRow /\ d[j].status \in Status
    OBVIOUS
  <2> HIDE DEF p, d
  <2>4. QED
    BY <1>1, <1>4, <2>1, <2>2, <2>3, DraftGoesOn
<1>5. ASSUME call[c].pos < n, ~UpdateRefused(S, Commit(c).expr), NEW j \in S,
             NEW w \in Updated(Now(j), "READY", Given(Now(j), Commit(c).expr)), Draft(c, j, w),
             UNCHANGED <<job, tag, poolVars, faults>>
      PROVE  GoesOn(c)
  <2> DEFINE e == Commit(c).expr
             row == Now(j)
             g == Given(row, e)
             p == call[c].pos + 1
             d == [call[c].draft EXCEPT ![j] = w]
  <2>1. j \in Visible(Setting(c)) /\ j \in Jobs /\ Exists(j)
    BY <1>1, <1>5, Own
  <2>2. e \in Text /\ e # "wrong"
    <3>1. call[c].pos + 1 \in 1..Len(cs)
      BY <1>2, <1>3, <1>5
    <3>2. cs[call[c].pos + 1].expr \in Text
      BY <1>2, <3>1, CommitIds
    <3>3. QED
      BY <1>5, <3>2 DEF Commit, UpdateRefused
  <2>3. row \in Row /\ row.expr \in Exprs
    <3>1. CASE j \in Drafted(c)
      BY <3>1 DEF IInv, Drafts, WholeRow
    <3>2. CASE j \notin Drafted(c)
      BY <2>1, <3>2, RowThere
    <3>3. QED
      BY <3>1, <3>2
  <2>4. w \in Updated(row, "READY", g) /\ call' = [call EXCEPT ![c].pos = p, ![c].draft = d]
    BY <1>5 DEF Draft
  <2> HIDE DEF row, Now, e
  <2>5. g \in Exprs
    BY <2>2, <2>3, GivenSchedule
  <2> HIDE DEF g
  <2>6. w \in WholeRow /\ w.status \in Status
    <3>1. PICK t \in BOOLEAN :
              w = [row EXCEPT !.status = "READY", !.expr = g, !.due = t, !.late = FALSE,
                              !.spent = TRUE]
      BY <2>4 DEF Updated, Written
    <3>2. QED
      BY <2>3, <2>5, <3>1 DEF WholeRow, Row, Status
  <2>7. /\ p \in Nat /\ d \in [Jobs -> Row] /\ d[j] = w
        /\ \A i \in Jobs : i # j => d[i] = call[c].draft[i]
    BY <1>3, <2>1, <2>6 DEF WholeRow
  <2>8. \A i \in Jobs : d[i].status # "UNUSED" =>
               \/ d[i] = call[c].draft[i]
               \/ i \in Visible(Setting(c)) /\ d[i] \in WholeRow /\ d[i].status \in Status
    BY <2>1, <2>6, <2>7
  <2> HIDE DEF p, d
  <2>9. QED
    BY <1>1, <1>5, <2>4, <2>7, <2>8, DraftGoesOn
<1>6. CASE Errors(c)
  BY <1>1, <1>6, ErrorsEnds
<1>7. CASE /\ Publish(c) /\ UNCHANGED tag
           /\ \/ Settle(c, TRUE, {}, TRUE) /\ Release(call[c].conn, TRUE) /\ UNCHANGED faults
              \/ /\ \E read \in 0..n : Settle(c, TRUE, {cs[i].id : i \in (read + 1)..n}, TRUE)
                 /\ Release(call[c].conn, FALSE) /\ Drops(c)
  <2>1. ~ReturnsJobs(c) /\ {} \in SUBSET Nat
    BY <1>1 DEF ReturnsJobs
  <2>2. ASSUME NEW read \in 0..n
        PROVE  {cs[i].id : i \in (read + 1)..n} \in SUBSET Nat
    <3> HIDE DEF cs
    <3>1. \A i \in (read + 1)..n : cs[i].id \in Jobs
      BY <1>2, CommitIds
    <3>2. QED
      BY <3>1, JobStoreAssumption
  <2>3. Answers(c)
    <3> HIDE DEF cs, n
    <3>1. QED
      BY <1>7, <2>1, <2>2, SettleAnswers
  <2>4. faults' \in faults..MaxFaults /\ \E s \in BOOLEAN : Release(call[c].conn, s)
    BY <1>7, FaultsGrow
  <2>5. QED
    BY <1>1, <1>7, <2>3, <2>4, PublishEnds
<1>8. CASE /\ call[c].pos < n /\ ~UpdateRefused(S, Commit(c).expr)
           /\ \E j \in S : \E w \in Updated(Now(j), "READY", Given(Now(j), Commit(c).expr)) :
                 Draft(c, j, w)
           /\ UNCHANGED <<job, tag, poolVars, faults>>
  <2> HIDE DEF cs, n, S, Now
  <2>1. QED
    BY <1>5, <1>8
<1>9. QED
  BY <1>4, <1>6, <1>7, <1>8 DEF Mutation_retryJobs, mutationResolver_RetryJobs

-----------------------------------------------------------------------------
(* All the steps.                                                           *)

LEMMA RefuseKind ==
    ASSUME IInv, NEW c \in Calls, Refuse(c)
    PROVE  EndsEarly(c)
<1>1. /\ up /\ req[c[1]].st = "running" /\ c[2] \in Selected(c[1]) /\ call[c].st = "waiting"
      /\ Settle(c, FALSE, {}, FALSE) /\ UNCHANGED <<job, tag, poolVars, req, faults>>
  BY DEF Refuse, Turn
<1>2. {} \in SUBSET Nat
  OBVIOUS
<1>3. Answers(c)
  BY <1>1, <1>2, SettleAnswers
<1>4. QED
  BY <1>1, <1>3, FaultsGrow DEF EndsEarly

LEMMA AcquireFailsKind ==
    ASSUME IInv, NEW c \in Calls, AcquireFails(c)
    PROVE  EndsEarly(c)
<1>1. /\ Unapplied(c, 0) /\ UNCHANGED <<job, tag, poolVars, req>>
      /\ up /\ req[c[1]].st = "running" /\ c[2] \in Selected(c[1])
      /\ call[c].st \in {"waiting", "cut"} /\ Decodes(Field(c), Arg(c))
  BY DEF AcquireFails, Begins, Turn, Refused, IInv, Served
<1>2. faults' \in faults..MaxFaults
  BY GraphqlApiAssumption DEF AcquireFails, IInv, TypeOK
<1>3. Answers(c)
  BY <1>1, UnappliedAnswers
<1>4. QED
  BY <1>1, <1>2, <1>3 DEF EndsEarly

\* Every step of a call is of one of the kinds.
LEMMA Kinds ==
    ASSUME IInv, NEW c \in Calls, CallStep(c) \/ Lost(c)
    PROVE  \/ Ends(c) \/ GoesOn(c) \/ EndsEarly(c)
           \/ Acquire(c) /\ req' = req
           \/ Fatal(c) /\ req' = req
<1>1. CASE Refuse(c) \/ AcquireFails(c)
  BY <1>1, RefuseKind, AcquireFailsKind
<1>2. CASE Acquire(c)
  BY <1>2 DEF Acquire
<1>3. CASE Exits(c) \/ Mutation_commitJobs(c) \/ Mutation_failJobs(c)
  BY <1>3 DEF Exits, Mutation_commitJobs, mutationResolver_CommitJobs,
              Mutation_failJobs, mutationResolver_FailJobs, Fatal
<1>4. CASE Deadlock(c) \/ Lost(c) \/ QueryStep(c)
  BY <1>4, DeadlockEnds, LostEnds, QueryKind
<1>5. CASE \/ Mutation_validateExprFormat(c) \/ Mutation_createJob(c)
           \/ Mutation_updateJobByName(c) \/ Mutation_updateJobById(c)
           \/ Mutation_updateStateByID(c) \/ Mutation_updateExprByID(c)
           \/ Mutation_deleteJobByName(c) \/ Mutation_deleteJobByID(c)
           \/ Mutation_stopJob(c) \/ Mutation_restartJob(c)
  BY <1>5, ValidateKind, CreateKind, UpdateByNameKind, UpdateByIdKind, UpdateStateKind,
     UpdateExprKind, StatusKinds
<1>6. CASE \/ Mutation_batchCreateJobs(c) \/ Mutation_fetchForProcessing(c)
           \/ Mutation_retryJobs(c)
  BY <1>6, BatchKind, FetchKind, RetryKind
<1>7. QED
  BY <1>1, <1>2, <1>3, <1>4, <1>5, <1>6 DEF CallStep, MutationStep

LEMMA InitInv == Init => IInv
<1> SUFFICES ASSUME Init PROVE IInv
  OBVIOUS
<1>1. /\ TableOK /\ TagsOK /\ UniqueOK /\ conn = [k \in Conns |-> Closed] /\ up = TRUE
      /\ req = [r \in Requests |-> [st |-> "none", gone |-> FALSE, op |-> NoOp]]
      /\ call = [c \in Calls |-> Waiting] /\ faults = 0
  BY DEF Init, PoolInit
<1>2. NoDraft \in [Jobs -> Row]
  BY AbsentWhole DEF NoDraft, WholeRow
<1>3. /\ Waiting \in CallRecord /\ Waiting.st = "waiting"
      /\ Waiting.conn = 0 /\ Waiting.draft = NoDraft
  BY <1>2 DEF CallRecord, Waiting
<1>4. /\ call \in [Calls -> CallRecord]
      /\ \A c \in Calls : /\ call[c].st = "waiting" /\ call[c].conn = 0
                         /\ call[c].draft = NoDraft
  BY <1>1, <1>3
<1>5. /\ conn \in [Conns -> Connection]
      /\ \A k \in Conns : conn[k].st = "closed" /\ conn[k].sound
  <2>1. Closed \in Connection /\ Closed.st = "closed" /\ Closed.sound
    BY DEF Closed, Connection
  <2>2. QED
    BY <1>1, <2>1
<1>6. /\ req \in [Requests -> [st : {"none", "running", "data", "null"}, gone : BOOLEAN,
                              op : Operations]]
      /\ \A r \in Requests : req[r].st = "none" /\ ~req[r].gone
  BY <1>1 DEF Operations
<1>7. TypeOK
  BY <1>1, <1>4, <1>5, <1>6, GraphqlApiAssumption DEF TypeOK, PoolOK, CallRecord
<1>8. Served /\ Loans /\ Shown /\ Standing
  BY <1>1, <1>4, <1>5, <1>6 DEF Served, Loans, Shown, Standing
<1>9. \A c \in Calls : Drafted(c) = {}
  BY <1>4, NoneDrafted DEF Drafted
<1>10. Drafts /\ Unique
  BY <1>1, <1>9 DEF Drafts, Unique, UniqueOK, Present
<1>11. QED
  BY <1>7, <1>8, <1>10 DEF IInv

LEMMA StutterInv == IInv /\ UNCHANGED vars => IInv'
<1> SUFFICES ASSUME IInv, UNCHANGED vars PROVE IInv'
  OBVIOUS
<1>1. UNCHANGED <<job, tag, conn, up, req, call, faults>>
  BY DEF vars
<1>2. TypeOK' /\ Served'
  BY <1>1 DEF IInv, TypeOK, TableOK, TagsOK, UniqueOK, PoolOK, Exists, Served, Op, Selected,
              Field, Arg
<1>3. Loans' /\ Drafts'
  BY <1>1 DEF IInv, Loans, Drafts, Drafted, Owner, Op
<1>4. Unique' /\ Shown'
  BY <1>1 DEF IInv, Unique, Present, Exists, Drafted, Shown, ReturnsJobs, Field, Owner, Op
<1>5. Standing'
  BY <1>1 DEF IInv, Standing, Doomed, Selected, Field, Op
<1>6. QED
  BY <1>2, <1>3, <1>4, <1>5 DEF IInv

LEMMA StepInv == IInv /\ Next => IInv'
<1> SUFFICES ASSUME IInv, Next PROVE IInv'
  OBVIOUS
<1>1. CASE \E r \in Requests : Respond(r) \/ Receive(r) \/ Leave(r)
  BY <1>1, RespondInv, ReceiveInv, LeaveInv
<1>2. CASE \E c \in Calls : CallStep(c) \/ Lost(c)
  BY <1>2, Kinds, EndsInv, GoesOnInv, EndsEarlyInv, AcquireInv, FatalInv
<1>3. CASE \E k \in Conns : PoolStep(k) \/ PoolFault(k)
  BY <1>3, PoolStepInv
<1>4. QED
  BY <1>1, <1>2, <1>3 DEF Next, Progress

LEMMA Inductive == Spec => []IInv
<1>1. IInv /\ [Next]_vars => IInv'
  BY StepInv, StutterInv
<1>2. QED
  BY InitInv, <1>1, PTL DEF Spec

-----------------------------------------------------------------------------
(* The theorems.                                                            *)

\* Variables have their types, the constraints of the table hold, and a call
\* that is not open has neither a connection nor a draft.
THEOREM ApiType == Spec => []TypeOK
<1>1. IInv => TypeOK
  BY DEF IInv
<1>2. QED
  BY Inductive, <1>1, PTL

\* No connection leaks or is shared, and none keeps its borrower's owner,
\* however calls end, clients leave and connections break (owner.go:37-69).
THEOREM LoansSafe == Spec => []LoansAccounted
<1>1. ASSUME IInv PROVE LoansAccounted
  <2>1. ASSUME NEW k \in Conns, conn[k].st = "lent"
        PROVE  \E c \in Calls : /\ call[c].st = "open" /\ call[c].conn = k
                                /\ conn[k].owner = Owner(c)
                                /\ \A d \in Calls \ {c} : call[d].conn # k
    <3>1. PICK c \in Calls : call[c].st = "open" /\ call[c].conn = k
      BY <1>1, <2>1 DEF IInv, Loans
    <3>2. \A d \in Calls \ {c} : call[d].conn # k
      BY <1>1, <3>1, OwnerPoolAssumption DEF IInv, Loans, TypeOK
    <3>3. QED
      BY <1>1, <3>1, <3>2 DEF IInv, Loans
  <2>2. QED
    BY <1>1, <2>1 DEF LoansAccounted, IInv, Loans
<1>2. QED
  BY Inductive, <1>1, PTL

\* No answer shows a job of another owner, whatever connections the calls
\* have had before (owner.go:37-69, the policy of the table).
THEOREM AnswersOwn == Spec => []ShowsOwnRows
<1>1. IInv => ShowsOwnRows
  BY DEF IInv, Shown, ShowsOwnRows
<1>2. QED
  BY Inductive, <1>1, PTL

\* Without a fault, nothing but a commitJobs or a failJobs ends the process.
THEOREM ProcessStays == Spec => []StaysUp
<1>1. IInv => StaysUp
  BY DEF IInv, Standing, StaysUp, Doomed
<1>2. QED
  BY Inductive, <1>1, PTL

\* Only a call of its owner changes what a row contains, at the end of its
\* statement or of its transaction.
THEOREM RowsOwned == Spec => OwnRowsOnly
<1> DEFINE A == \A j \in Jobs : job[j] # job'[j] =>
                   \E c \in Calls : /\ call[c].st = "open" /\ call'[c].st = "done"
                                    /\ Owner(c) = tag'[j].owner
<1>1. ASSUME IInv, Next PROVE A
  <2>1. CASE job' = job
    BY <2>1
  <2>2. CASE \E c \in Calls : Ends(c)
    <3>1. PICK c \in Calls : Ends(c)
      BY <2>2
    <3>2. call[c].st = "open" /\ call'[c].st = "done" /\ TableStep(c)
      BY <1>1, <3>1, AnswerLeaves DEF Ends
    <3>3. QED
      BY <3>2 DEF TableStep
  <2>3. job' = job \/ \E c \in Calls : Ends(c)
    <3>1. CASE \E r \in Requests : Respond(r) \/ Receive(r) \/ Leave(r)
      BY <3>1 DEF Respond, Receive, Leave
    <3>2. CASE \E c \in Calls : CallStep(c) \/ Lost(c)
      BY <1>1, <3>2, Kinds DEF GoesOn, EndsEarly, Acquire, Fatal
    <3>3. CASE \E k \in Conns : PoolStep(k) \/ PoolFault(k)
      BY <3>3 DEF PoolStep, PoolFault
    <3>4. QED
      BY <1>1, <3>1, <3>2, <3>3 DEF Next, Progress
  <2>4. QED
    BY <2>1, <2>2, <2>3
<1>2. IInv /\ [Next]_vars => [A]_vars
  BY <1>1
<1>3. Spec => [][A]_vars
  BY Inductive, <1>2, PTL DEF Spec
<1>4. QED
  BY <1>3 DEF OwnRowsOnly
-----------------------------------------------------------------------------
(* What an answer says of what was done.                                    *)

\* Whether v is an honest answer of c when `broken' faults have happened.
Honest(c, v, broken) ==
    /\ v.ok /\ ~v.applied =>
          \/ /\ Field(c) \in {"commitJobs", "failJobs", "retryJobs"}
             /\ v.out # {} \/ Arg(c).commits = <<>>
          \/ Field(c) = "fetchForProcessing" /\ v.out = {}
    /\ broken = 0 /\ v.applied =>
          v.ok /\ (Field(c) = "retryJobs" => v.out = {})

\* AnswersTrue is inductive with this: no batch of context.Background() is
\* ever given a connection.
Owned == \A c \in Calls : call[c].st = "open" => ~Background(c)

Truth == AnswersTrue /\ Owned

LEMMA TrueIsHonest ==
    AnswersTrue <=> \A c \in Calls : call[c].st = "done" => Honest(c, call[c], faults)
BY DEF AnswersTrue, Honest

\* A call that settles has what it settles with.
LEMMA Settled ==
    ASSUME IInv, NEW c \in Calls, NEW ok, NEW out, NEW applied, Settle(c, ok, out, applied)
    PROVE  call'[c].ok = ok /\ call'[c].out = out /\ call'[c].applied = applied
<1>1. call \in [Calls -> CallRecord]
  BY DEF IInv, TypeOK, CallRecord
<1>2. QED
  BY <1>1 DEF Settle, Waiting

\* A fault has happened when a call drops its connection.
LEMMA DropsCount ==
    ASSUME IInv, NEW c \in Calls, Drops(c)
    PROVE  faults' # 0
<1>1. c[1] \in Requests
  BY DEF Calls
<1>2. faults \in Nat
  BY GraphqlApiAssumption DEF IInv, TypeOK
<1>3. QED
  BY <1>1, <1>2 DEF Drops, IInv, Standing

\* Nothing was applied, and a batch of commits has ids that it reports, or
\* had none.
LEMMA UnappliedHonest ==
    ASSUME IInv, NEW c \in Calls, NEW read \in Nat, Unapplied(c, read),
           Decodes(Field(c), Arg(c)),
           Field(c) \in {"commitJobs", "failJobs", "retryJobs"} =>
               read < Len(Arg(c).commits) \/ Arg(c).commits = <<>>
    PROVE  Honest(c, call'[c], faults')
<1>1. CASE Field(c) \in {"commitJobs", "failJobs", "retryJobs"}
  <2> DEFINE cs  == Arg(c).commits
             out == {cs[i].id : i \in (read + 1)..Len(cs)}
  <2>1. Settle(c, TRUE, out, FALSE)
    BY <1>1 DEF Unapplied
  <2>2. call'[c].ok /\ call'[c].out = out /\ ~call'[c].applied
    <3> HIDE DEF out
    <3>1. QED
      BY <2>1, Settled
  <2>3. cs \in Seq(unmarshalInputCommitArgs)
    BY <1>1, ArgTypes DEF field_Mutation_commitJobs_args, field_Mutation_failJobs_args,
                          field_Mutation_retryJobs_args
  <2>4. out # {} \/ cs = <<>>
    <3>1. CASE read < Len(cs)
      <4>1. read + 1 \in (read + 1)..Len(cs)
        <5> HIDE DEF cs
        <5>1. QED
          BY <2>3, <3>1
      <4>2. QED
        BY <4>1
    <3>2. QED
      BY <1>1, <3>1
  <2>5. QED
    <3> HIDE DEF out
    <3>1. QED
      BY <1>1, <2>2, <2>4 DEF Honest
<1>2. CASE Field(c) = "fetchForProcessing"
  <2>1. Settle(c, call[c].pos = 1, {}, FALSE)
    BY <1>2 DEF Unapplied
  <2>2. QED
    BY <1>2, <2>1, Settled DEF Honest
<1>3. CASE Field(c) \notin {"commitJobs", "failJobs", "retryJobs", "fetchForProcessing"}
  <2>1. Settle(c, FALSE, {}, FALSE)
    BY <1>3 DEF Unapplied
  <2>2. QED
    BY <2>1, Settled DEF Honest
<1>4. QED
  BY <1>1, <1>2, <1>3

\* A statement of a batch that fails is one of its commits.
LEMMA ErrorsHonest ==
    ASSUME IInv, NEW c \in Calls, call[c].st = "open", Errors(c), ~Background(c),
           Field(c) = "retryJobs" => call[c].pos < Len(Arg(c).commits)
    PROVE  Honest(c, call'[c], faults')
<1>1. Unapplied(c, call[c].pos) /\ call[c].pos \in Nat /\ Decodes(Field(c), Arg(c))
  BY Lent DEF Errors, IInv, TypeOK
<1>2. QED
  BY <1>1, UnappliedHonest DEF Background

LEMMA ReadsHonest ==
    ASSUME IInv, NEW c \in Calls, NEW out, Reads(c, out), Field(c) # "retryJobs"
    PROVE  Honest(c, call'[c], faults')
<1>1. Settle(c, TRUE, out, TRUE)
  BY DEF Reads
<1>2. QED
  BY <1>1, Settled DEF Honest

\* An answer of what was done that does not arrive is an error, and a fault.
LEMMA ReturnsHonest ==
    ASSUME IInv, NEW c \in Calls, NEW out, Returns(c, out), Field(c) # "retryJobs"
    PROVE  Honest(c, call'[c], faults')
<1>1. CASE Settle(c, TRUE, out, TRUE)
  BY <1>1, Settled DEF Honest
<1>2. CASE Settle(c, FALSE, {}, TRUE) /\ Drops(c)
  <2>1. ~call'[c].ok /\ call'[c].applied /\ faults' # 0
    BY <1>2, Settled, DropsCount
  <2>2. QED
    BY <2>1 DEF Honest
<1>3. QED
  BY <1>1, <1>2 DEF Returns

\* A connection lost: of a batch of commits, before the last result.
LEMMA LostHonest ==
    ASSUME IInv, Owned, NEW c \in Calls, Lost(c)
    PROVE  Honest(c, call'[c], faults')
<1>1. PICK read \in 0..call[c].pos :
          /\ Field(c) = "retryJobs" => read < Len(Arg(c).commits)
          /\ Unapplied(c, read)
  BY DEF Lost
<1>2. call[c].st = "open" /\ read \in Nat /\ Decodes(Field(c), Arg(c))
  BY <1>1, Lent DEF Lost, IInv, TypeOK
<1>3. ~Background(c)
  BY <1>2 DEF Owned
<1>4. QED
  BY <1>1, <1>2, <1>3, UnappliedHonest DEF Background

\* Only a statement that is about rows waits, and a retryJobs has one as long
\* as there are commits.
LEMMA DeadlockHonest ==
    ASSUME IInv, NEW c \in Calls, Deadlock(c)
    PROVE  Honest(c, call'[c], faults')
<1>1. /\ call[c].st = "open" /\ Errors(c) /\ \E e \in Calls : Waits(c, e)
  BY DEF Deadlock
<1>2. Needs(c) # {}
  BY <1>1 DEF Waits
<1>3. ~Background(c)
  BY <1>2 DEF Needs, Background
<1>4. Field(c) = "retryJobs" => call[c].pos < Len(Arg(c).commits)
  BY <1>2 DEF Needs
<1>5. QED
  BY <1>1, <1>3, <1>4, ErrorsHonest

\* What fails before it has a connection has read no result.
LEMMA EarlyHonest ==
    ASSUME IInv, NEW c \in Calls, Refuse(c) \/ AcquireFails(c)
    PROVE  Honest(c, call'[c], faults')
<1>1. CASE Refuse(c)
  <2>1. Settle(c, FALSE, {}, FALSE)
    BY <1>1 DEF Refuse
  <2>2. QED
    BY <2>1, Settled DEF Honest
<1>2. CASE AcquireFails(c)
  <2>1. Unapplied(c, 0) /\ Decodes(Field(c), Arg(c))
    BY <1>2 DEF AcquireFails, Begins, Refused, IInv, Served
  <2>2. ASSUME Field(c) \in {"commitJobs", "failJobs", "retryJobs"}
        PROVE  0 < Len(Arg(c).commits) \/ Arg(c).commits = <<>>
    <3>1. Arg(c).commits \in Seq(unmarshalInputCommitArgs)
      BY <2>1, <2>2, ArgTypes DEF field_Mutation_commitJobs_args,
         field_Mutation_failJobs_args, field_Mutation_retryJobs_args
    <3>2. QED
      BY <3>1
  <2>3. QED
    BY <2>1, <2>2, UnappliedHonest
<1>3. QED
  BY <1>1, <1>2

\* The fields of a single statement read, return or fail.
LEMMA SingleHonest ==
    ASSUME IInv, NEW c \in Calls, NEW f, Runs(c, f),
           f \notin {"commitJobs", "failJobs", "retryJobs"},
           \/ Errors(c)
           \/ \E out : Reads(c, out)
           \/ \E out : Returns(c, out)
    PROVE  Honest(c, call'[c], faults')
<1>1. call[c].st = "open" /\ Field(c) = f
  BY DEF Runs
<1>2. CASE Errors(c)
  BY <1>1, <1>2, ErrorsHonest DEF Background
<1>3. CASE \E out : Reads(c, out)
  BY <1>1, <1>3, ReadsHonest
<1>4. CASE \E out : Returns(c, out)
  BY <1>1, <1>4, ReturnsHonest
<1>5. QED
  BY <1>2, <1>3, <1>4

LEMMA StatementHonest ==
    ASSUME IInv, NEW c \in Calls,
           \/ Mutation_validateExprFormat(c) \/ Mutation_createJob(c)
           \/ Mutation_updateJobByName(c) \/ Mutation_updateJobById(c)
           \/ Mutation_updateStateByID(c) \/ Mutation_updateExprByID(c)
           \/ Mutation_deleteJobByName(c) \/ Mutation_deleteJobByID(c)
           \/ Mutation_stopJob(c) \/ Mutation_restartJob(c)
           \/ QueryStep(c)
    PROVE  Honest(c, call'[c], faults')
<1>1. CASE Mutation_validateExprFormat(c)
  BY <1>1, SingleHonest DEF Mutation_validateExprFormat, mutationResolver_ValidateExprFormat
<1>2. CASE Mutation_createJob(c)
  BY <1>2, SingleHonest DEF Mutation_createJob, mutationResolver_CreateJob
<1>3. CASE Mutation_updateJobByName(c)
  BY <1>3, SingleHonest DEF Mutation_updateJobByName, mutationResolver_UpdateJobByName
<1>4. CASE Mutation_updateJobById(c)
  BY <1>4, SingleHonest DEF Mutation_updateJobById, mutationResolver_UpdateJobByID
<1>5. CASE Mutation_updateStateByID(c)
  BY <1>5, SingleHonest DEF Mutation_updateStateByID, mutationResolver_UpdateStateByID
<1>6. CASE Mutation_updateExprByID(c)
  BY <1>6, SingleHonest DEF Mutation_updateExprByID, mutationResolver_UpdateExprByID
<1>7. CASE Mutation_deleteJobByName(c)
  BY <1>7, SingleHonest DEF Mutation_deleteJobByName, mutationResolver_DeleteJobByName
<1>8. CASE Mutation_deleteJobByID(c)
  BY <1>8, SingleHonest DEF Mutation_deleteJobByID, mutationResolver_DeleteJobByID
<1>9. CASE Mutation_stopJob(c)
  BY <1>9, SingleHonest DEF Mutation_stopJob, mutationResolver_StopJob
<1>10. CASE Mutation_restartJob(c)
  BY <1>10, SingleHonest DEF Mutation_restartJob, mutationResolver_RestartJob
<1>11. CASE Query_searchJobs(c)
  BY <1>11, SingleHonest DEF Query_searchJobs, queryResolver_SearchJobs
<1>12. CASE Query_searchJobsByMeta(c)
  BY <1>12, SingleHonest DEF Query_searchJobsByMeta, queryResolver_SearchJobsByMeta
<1>13. CASE Query_queryJobByName(c)
  BY <1>13, SingleHonest DEF Query_queryJobByName, queryResolver_QueryJobByName
<1>14. CASE Query_queryJobByID(c)
  BY <1>14, SingleHonest DEF Query_queryJobByID, queryResolver_QueryJobByID
<1>15. CASE Query_lastUpdate(c)
  BY <1>15, SingleHonest DEF Query_lastUpdate, queryResolver_LastUpdate
<1>16. QED
  BY <1>1, <1>2, <1>3, <1>4, <1>5, <1>6, <1>7, <1>8, <1>9, <1>10, <1>11, <1>12, <1>13, <1>14,
     <1>15 DEF QueryStep

\* A call that goes on with its transaction is not done.
LEMMA OnwardOpen ==
    ASSUME IInv, NEW c \in Calls, NEW p, call[c].st = "open",
           \/ call' = [call EXCEPT ![c].pos = p]
           \/ \E d : call' = [call EXCEPT ![c].pos = p, ![c].draft = d]
    PROVE  call'[c].st # "done"
<1>1. call \in [Calls -> CallRecord]
  BY DEF IInv, TypeOK, CallRecord
<1>2. QED
  BY <1>1 DEF CallRecord

\* A transaction answers with what it has committed, or has failed.
LEMMA BatchHonest ==
    ASSUME IInv, NEW c \in Calls, Mutation_batchCreateJobs(c), call'[c].st = "done"
    PROVE  Honest(c, call'[c], faults')
<1>1. Runs(c, "batchCreateJobs") /\ call[c].st = "open"
  BY Started DEF Mutation_batchCreateJobs, mutationResolver_BatchCreateJobs
<1>2. CASE Errors(c) \/ \E out : Returns(c, out)
  BY <1>1, <1>2, SingleHonest
<1>3. CASE \E j, w : Draft(c, j, w)
  <2>1. \E p, d : call' = [call EXCEPT ![c].pos = p, ![c].draft = d]
    BY <1>3 DEF Draft
  <2>2. QED
    BY <1>1, <2>1, OnwardOpen
<1>4. QED
  BY <1>2, <1>3 DEF Mutation_batchCreateJobs, mutationResolver_BatchCreateJobs

LEMMA FetchHonest ==
    ASSUME IInv, NEW c \in Calls, Mutation_fetchForProcessing(c), call'[c].st = "done"
    PROVE  Honest(c, call'[c], faults')
<1>1. Runs(c, "fetchForProcessing") /\ call[c].st = "open" /\ Field(c) = "fetchForProcessing"
  BY Started DEF Mutation_fetchForProcessing, mutationResolver_FetchForProcessing
<1>2. CASE Errors(c)
  BY <1>1, <1>2, SingleHonest
<1>3. CASE \E d : call' = [call EXCEPT ![c].pos = 1, ![c].draft = d]
  BY <1>1, <1>3, OnwardOpen
<1>4. CASE \E out : Settle(c, TRUE, out, TRUE)
  BY <1>1, <1>4, Settled DEF Honest
<1>5. QED
  BY <1>2, <1>3, <1>4 DEF Mutation_fetchForProcessing, mutationResolver_FetchForProcessing

\* A batch that is committed reports ids only when results are lost.
LEMMA RetryHonest ==
    ASSUME IInv, NEW c \in Calls, Mutation_retryJobs(c), call'[c].st = "done"
    PROVE  Honest(c, call'[c], faults')
<1> DEFINE n == Len(Arg(c).commits)
<1>1. Runs(c, "retryJobs") /\ call[c].st = "open" /\ Field(c) = "retryJobs"
  BY Started DEF Mutation_retryJobs, mutationResolver_RetryJobs
<1>2. CASE call[c].pos < n /\ Errors(c)
  BY <1>1, <1>2, ErrorsHonest DEF Background
<1>3. CASE \/ call' = [call EXCEPT ![c].pos = call[c].pos + 1]
           \/ \E j, w : Draft(c, j, w)
  <2>1. \E p : \/ call' = [call EXCEPT ![c].pos = p]
               \/ \E d : call' = [call EXCEPT ![c].pos = p, ![c].draft = d]
    BY <1>3 DEF Draft
  <2>2. QED
    BY <1>1, <2>1, OnwardOpen
<1>4. CASE Settle(c, TRUE, {}, TRUE)
  BY <1>1, <1>4, Settled DEF Honest
<1>5. CASE (\E out : Settle(c, TRUE, out, TRUE)) /\ Drops(c)
  BY <1>1, <1>5, Settled, DropsCount DEF Honest
<1>6. QED
  BY <1>2, <1>3, <1>4, <1>5 DEF Mutation_retryJobs, mutationResolver_RetryJobs

\* Whatever a call does, an answer it ends with is honest.
LEMMA CallHonest ==
    ASSUME IInv, Owned, NEW c \in Calls, CallStep(c) \/ Lost(c), ~Fatal(c), ~Acquire(c),
           call'[c].st = "done"
    PROVE  Honest(c, call'[c], faults')
BY EarlyHonest, DeadlockHonest, LostHonest, StatementHonest, BatchHonest, FetchHonest,
   RetryHonest
   DEF CallStep, MutationStep, Exits, Mutation_commitJobs, mutationResolver_CommitJobs,
       Mutation_failJobs, mutationResolver_FailJobs

\* Faults are counted up.
LEMMA HonestLater ==
    ASSUME IInv, NEW c \in Calls, NEW v, Honest(c, v, faults), faults' \in faults..MaxFaults
    PROVE  Honest(c, v, faults')
<1>1. faults \in Nat /\ (faults' = 0 => faults = 0)
  BY GraphqlApiAssumption DEF IInv, TypeOK
<1>2. QED
  BY <1>1 DEF Honest

LEMMA SameHonest ==
    ASSUME NEW c \in Calls, Field(c)' = Field(c), Arg(c)' = Arg(c)
    PROVE  /\ Honest(c, call[c], faults)' <=> Honest(c, call'[c], faults')
           /\ Background(c)' <=> Background(c)
BY DEF Honest, Background

\* The connections are given in the owner's name.
LEMMA AcquireOwned ==
    ASSUME NEW c \in Calls, Acquire(c)
    PROVE  ~Background(c)
BY DEF Acquire, BeforeAcquire, FromCtx

\* Truth, call by call: what does not stay as it is is honest, or its owner's.
LEMMA TruthFrom ==
    ASSUME IInv, Truth, faults' \in faults..MaxFaults,
           \A d \in Calls : call'[d].st \in {"done", "open"} =>
               /\ Field(d)' = Field(d) /\ Arg(d)' = Arg(d)
               /\ \/ call'[d] = call[d]
                  \/ call'[d].st = "done" /\ Honest(d, call'[d], faults')
                  \/ call'[d].st = "open" /\ ~Background(d)
    PROVE  Truth'
<1>1. ASSUME NEW d \in Calls, call'[d].st = "done"
      PROVE  Honest(d, call[d], faults)'
  <2>1. CASE call'[d] = call[d]
    <3>1. Honest(d, call[d], faults)
      BY <1>1, <2>1, TrueIsHonest DEF Truth
    <3>2. Honest(d, call'[d], faults')
      BY <2>1, <3>1, HonestLater
    <3>3. QED
      BY <1>1, <3>2, SameHonest
  <2>2. CASE Honest(d, call'[d], faults')
    BY <1>1, <2>2, SameHonest
  <2>3. QED
    BY <1>1, <2>1, <2>2
<1>2. ASSUME NEW d \in Calls, call'[d].st = "open"
      PROVE  ~Background(d)'
  <2>1. ~Background(d)
    BY <1>2 DEF Truth, Owned
  <2>2. QED
    BY <1>2, <2>1, SameHonest
<1>3. (AnswersTrue <=> \A c \in Calls : call[c].st = "done" => Honest(c, call[c], faults))'
  BY TrueIsHonest, PTL
<1>4. QED
  BY <1>1, <1>2, <1>3 DEF Truth, Owned

\* Every other call stays as it is.
LEMMA CallTruth ==
    ASSUME IInv, Truth, NEW c \in Calls, CallStep(c) \/ Lost(c)
    PROVE  Truth'
<1>1. call \in [Calls -> CallRecord] /\ faults \in faults..MaxFaults
  BY GraphqlApiAssumption DEF IInv, TypeOK, CallRecord
<1>2. CASE Fatal(c)
  <2>1. \A d \in Calls : call'[d].st = "waiting"
    BY <1>2 DEF Fatal, Waiting
  <2>2. faults' = faults
    BY <1>2 DEF Fatal
  <2>3. QED
    BY <1>1, <2>1, <2>2, TruthFrom
<1>3. CASE Acquire(c)
  <2>1. req' = req /\ faults' = faults /\ \E k : call' = [call EXCEPT ![c].st = "open", ![c].conn = k]
    BY <1>3, Kinds DEF Acquire, BeforeAcquire, Begins, Fatal
  <2>2. call'[c].st = "open" /\ \A d \in Calls : d # c => call'[d] = call[d]
    BY <1>1, <2>1 DEF CallRecord
  <2>3. QED
    BY <1>1, <1>3, <2>1, <2>2, SameRequests, AcquireOwned, TruthFrom
<1>4. CASE ~Fatal(c) /\ ~Acquire(c)
  <2>1. Ends(c) \/ GoesOn(c) \/ EndsEarly(c)
    BY <1>4, Kinds
  <2>2. req' = req /\ faults' \in faults..MaxFaults
    BY <1>1, <2>1 DEF Ends, GoesOn, EndsEarly
  <2>3. \A d \in Calls : d # c => call'[d] = call[d]
    BY <1>1, <2>1, AnswerLeaves DEF Ends, GoesOn, EndsEarly
  <2>4. call'[c].st = "open" => call[c].st = "open"
    BY <2>1, AnswerLeaves DEF Ends, GoesOn, EndsEarly
  <2>5. call'[c].st = "done" => Honest(c, call'[c], faults')
    BY <1>4, CallHonest DEF Truth
  <2>6. call'[c].st = "open" => ~Background(c)
    BY <2>4 DEF Truth, Owned
  <2>7. QED
    BY <2>2, <2>3, <2>5, <2>6, SameRequests, TruthFrom
<1>5. QED
  BY <1>2, <1>3, <1>4

\* Requests that come and go take their calls with them.
LEMMA RequestTruth ==
    ASSUME IInv, Truth, NEW r \in Requests, Respond(r) \/ Receive(r) \/ Leave(r)
    PROVE  Truth'
<1>1. call \in [Calls -> CallRecord] /\ faults \in Nat /\ faults \in faults..MaxFaults
  BY GraphqlApiAssumption DEF IInv, TypeOK, CallRecord
<1>2. CASE Respond(r)
  <2>1. /\ faults' = faults /\ \E v : req' = [req EXCEPT ![r] = v]
        /\ call' = [c \in Calls |-> IF c[1] = r THEN Waiting ELSE call[c]]
    BY <1>2 DEF Respond
  <2>2. ASSUME NEW d \in Calls, call'[d].st # "waiting"
        PROVE  d[1] # r /\ call'[d] = call[d]
    BY <2>1, <2>2 DEF Waiting
  <2>3. QED
    BY <1>1, <2>1, <2>2, OtherRequests, TruthFrom
<1>3. CASE Receive(r)
  <2>1. /\ call' = call /\ faults' = faults /\ req[r].st = "none"
        /\ \E v : req' = [req EXCEPT ![r] = v]
    BY <1>3 DEF Receive
  <2>2. ASSUME NEW d \in Calls, call'[d].st # "waiting"
        PROVE  d[1] # r /\ call'[d] = call[d]
    BY <2>1, <2>2 DEF IInv, Served
  <2>3. QED
    BY <1>1, <2>1, <2>2, OtherRequests, TruthFrom
<1>4. CASE Leave(r)
  <2>1. faults < MaxFaults /\ faults' = faults + 1 /\ req' = [req EXCEPT ![r].gone = TRUE]
    BY <1>4 DEF Leave
  <2>2. ASSUME NEW d \in Calls, call'[d].st \in {"done", "open"}
        PROVE  call'[d] = call[d]
    BY <1>1, <1>4, <2>2 DEF Leave, CallRecord
  <2>3. ASSUME NEW d \in Calls
        PROVE  Field(d)' = Field(d) /\ Arg(d)' = Arg(d)
    <3>1. d[1] \in Requests
      BY DEF Calls
    <3>2. req'[d[1]].op = req[d[1]].op
      BY <2>1, <3>1 DEF IInv, TypeOK
    <3>3. QED
      BY <3>2 DEF Field, Arg, Op
  <2>4. faults' \in faults..MaxFaults
    BY <1>1, <2>1, GraphqlApiAssumption
  <2>5. QED
    BY <2>2, <2>3, <2>4, TruthFrom
<1>5. QED
  BY <1>2, <1>3, <1>4

LEMMA StepTruth == IInv /\ Truth /\ [Next]_vars => Truth'
<1> SUFFICES ASSUME IInv, Truth, [Next]_vars PROVE Truth'
  OBVIOUS
<1>1. CASE \E r \in Requests : Respond(r) \/ Receive(r) \/ Leave(r)
  BY <1>1, RequestTruth
<1>2. CASE \E c \in Calls : CallStep(c) \/ Lost(c)
  BY <1>2, CallTruth
<1>3. CASE (\E k \in Conns : PoolStep(k) \/ PoolFault(k)) \/ UNCHANGED vars
  <2>1. /\ req' = req /\ call' = call
        /\ faults' = faults \/ (faults' = faults + 1 /\ faults < MaxFaults)
    <3>1. CASE \E k \in Conns : PoolStep(k)
      BY <3>1 DEF PoolStep
    <3>2. CASE \E k \in Conns : PoolFault(k)
      BY <3>2 DEF PoolFault
    <3>3. CASE UNCHANGED vars
      BY <3>3 DEF vars
    <3>4. QED
      BY <1>3, <3>1, <3>2, <3>3
  <2>2. faults' \in faults..MaxFaults
    BY <2>1, GraphqlApiAssumption DEF IInv, TypeOK
  <2>3. QED
    BY <2>1, <2>2, SameRequests, TruthFrom
<1>4. QED
  BY <1>1, <1>2, <1>3 DEF Next, Progress

\* An answer without an error was applied, or says what was not; and without
\* a fault, what has an error, or is reported by a RetryJobs, was not applied
\* (job_resolvers.go:101-131, 221-345).
THEOREM AnswersHonest == Spec => []AnswersTrue
<1>1. Init => Truth
  <2>1. ASSUME Init PROVE \A c \in Calls : call[c].st = "waiting"
    BY <2>1 DEF Init, Waiting
  <2>2. QED
    BY <2>1 DEF Truth, Owned, AnswersTrue
<1>2. Truth => AnswersTrue
  BY DEF Truth
<1>3. QED
  BY Inductive, StepTruth, <1>1, <1>2, PTL DEF Spec
=============================================================================

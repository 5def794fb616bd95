---------------------------- MODULE StoreProofs ----------------------------
(***************************************************************************)
(* The table with its dates and counters implements JobStore: for any       *)
(* schedules, negative intervals included, any arguments and any order of   *)
(* the statements.                                                          *)
(***************************************************************************)
EXTENDS JobTableProofs

USE DEF Status, NoRow, Kinds

\* All the rows, as the sessions see them.
Table == [j \in Jobs |-> Seen(j)]

LEMMA SchedulesType ==
    ASSUME NEW e \in Exprs
    PROVE  /\ StoreKind(e) \in {StoreKind(d) : d \in Exprs}
           /\ StoreKind(e) \in {"at", "after", "every"}
           /\ Store!is_one_shot(StoreKind(e)) <=> is_one_shot(e)
BY DEF StoreKind, is_one_shot, kind, Store!is_one_shot

\* A statement on one row replaces what is seen of it.
LEMMA OneSeen ==
    ASSUME NEW j \in Jobs, now' = now, \A k \in Jobs \ {j} : row'[k] = row[k]
    PROVE  Table' = [Table EXCEPT ![j] = Seen(j)']
<1>1. \A k \in Jobs \ {j} : Seen(k)' = Seen(k)
  BY DEF Seen, Exists
<1>2. QED
  BY <1>1 DEF Table

\* What is seen of a row that exists.
LEMMA SeenRow ==
    ASSUME TypeOK, NEW j \in Jobs, Exists(j)
    PROVE  /\ Seen(j) = [status |-> row[j].status, executor |-> row[j].executor,
                         expr |-> StoreKind(row[j].expr), due |-> row[j].run_at < now,
                         late |-> /\ row[j].status = "PENDING"
                                  /\ now - row[j].last_run_at > row[j].timeout,
                         spent |-> row[j].retries - 1 <= 0]
           /\ Table[j] = Seen(j)
           /\ row[j].expr \in Exprs
<1>1. row[j] \in Row
  BY ExistsRow
<1>2. QED
  BY <1>1 DEF Seen, Table, Row

LEMMA SeenNext ==
    ASSUME TypeOK', NEW j \in Jobs, Exists(j)'
    PROVE  Seen(j)' = [status |-> row'[j].status, executor |-> row'[j].executor,
                       expr |-> StoreKind(row'[j].expr), due |-> row'[j].run_at < now',
                       late |-> /\ row'[j].status = "PENDING"
                                /\ now' - row'[j].last_run_at > row'[j].timeout,
                       spent |-> row'[j].retries - 1 <= 0]
<1>1. row'[j] \in Row
  <2>1. row'[j] \in {Absent(s) : s \in NoRow} => row'[j].status \in NoRow
    BY DEF Absent
  <2>2. QED
    BY <2>1 DEF TypeOK, Exists
<1>2. StoreKind(row[j].expr)' = StoreKind(row'[j].expr)
  BY DEF StoreKind, is_one_shot, kind
<1>3. QED
  BY <1>1, <1>2 DEF Seen, Row

LEMMA CreateSeen ==
    ASSUME TypeOK, TypeOK', NEW j \in Jobs, NEW x \in Executors, NEW e \in Exprs,
           NEW s \in Starts, NEW t \in Timeouts, NEW r \in Attempts,
           CreateJob(j, x, e, s, t, r)
    PROVE  Store!CreateJob(x, StoreKind(e))
<1> DEFINE tt == OrDefault(t, DefaultTimeout)
           rr == OrDefault(r, DefaultRetries)
           from == greatest(now + s, now)
           at == next(from, e)
           new == [status |-> "READY", executor |-> x, expr |-> e,
                   run_at |-> at, last_run_at |-> now,
                   timeout |-> tt, retries |-> rr, execution_amount |-> 0]
<1>1. /\ row' = [row EXCEPT ![j] = new] /\ now' = now /\ NotNull(at)
      /\ row[j].status = "UNUSED" /\ \A i \in Jobs : i < j => row[i].status # "UNUSED"
  BY DEF CreateJob
<1> HIDE DEF at, tt, rr, from
<1>2. row'[j] = new /\ \A k \in Jobs \ {j} : row'[k] = row[k]
  BY <1>1 DEF TypeOK
<1>3. Seen(j)' = [status |-> "READY", executor |-> x, expr |-> StoreKind(e),
                  due |-> at < now, late |-> FALSE, spent |-> rr - 1 <= 0]
  BY <1>1, <1>2, SeenNext DEF Exists
<1>4. Table' = [Table EXCEPT ![j] = Seen(j)']
  BY <1>1, <1>2, OneSeen
<1>5. \A i \in Jobs : Table[i].status = row[i].status
  BY DEF Table, Seen
<1> DEFINE d  == at < now
           sp == rr - 1 <= 0
<1>6. d \in BOOLEAN /\ sp \in BOOLEAN
  OBVIOUS
<1>7. Table' = [Table EXCEPT ![j] = [status |-> "READY", executor |-> x, expr |-> StoreKind(e),
                                     due |-> d, late |-> FALSE, spent |-> sp]]
  BY <1>3, <1>4
<1> HIDE DEF d, sp, new
<1>8. \E i \in Jobs :
           /\ Table[i].status = "UNUSED"
           /\ \A k \in Jobs : k < i => Table[k].status # "UNUSED"
           /\ \E d1, sp1 \in BOOLEAN :
                 Table' = [Table EXCEPT ![i] =
                     [status |-> "READY", executor |-> x, expr |-> StoreKind(e),
                      due |-> d1, late |-> FALSE, spent |-> sp1]]
  <2>1. Table[j].status = "UNUSED" /\ \A k \in Jobs : k < j => Table[k].status # "UNUSED"
    BY <1>1, <1>5
  <2>2. QED
    BY <1>6, <1>7, <2>1
<1>9. QED
  BY <1>8 DEF Store!CreateJob, Table

\* The row that a statement leaves, as it is seen.
LEMMA RowSeen ==
    ASSUME TypeOK, TypeOK', NEW j \in Jobs, NEW r, now' = now, r.status \in Status,
           row' = [row EXCEPT ![j] = r]
    PROVE  \E d, l, sp \in BOOLEAN :
              /\ d <=> r.run_at < now
              /\ l <=> r.status = "PENDING" /\ now - r.last_run_at > r.timeout
              /\ sp <=> r.retries - 1 <= 0
              /\ Table' = [Table EXCEPT ![j] =
                     [status |-> r.status, executor |-> r.executor, expr |-> StoreKind(r.expr),
                      due |-> d, late |-> l, spent |-> sp]]
<1> DEFINE d  == r.run_at < now
           l  == r.status = "PENDING" /\ now - r.last_run_at > r.timeout
           sp == r.retries - 1 <= 0
<1>1. row'[j] = r /\ \A k \in Jobs \ {j} : row'[k] = row[k]
  BY DEF TypeOK
<1>2. Exists(j)'
  BY <1>1 DEF Exists
<1>3. Seen(j)' = [status |-> r.status, executor |-> r.executor, expr |-> StoreKind(r.expr),
                  due |-> d, late |-> l, spent |-> sp]
  BY <1>1, <1>2, SeenNext
<1>4. Table' = [Table EXCEPT ![j] =
          [status |-> r.status, executor |-> r.executor, expr |-> StoreKind(r.expr),
           due |-> d, late |-> l, spent |-> sp]]
  BY <1>1, <1>3, OneSeen
<1>5. d \in BOOLEAN /\ l \in BOOLEAN /\ sp \in BOOLEAN
  OBVIOUS
<1>6. /\ d <=> r.run_at < now
      /\ l <=> r.status = "PENDING" /\ now - r.last_run_at > r.timeout
      /\ sp <=> r.retries - 1 <= 0
  OBVIOUS
<1> HIDE DEF d, l, sp
<1>7. QED
  BY <1>4, <1>5, <1>6

\* The row that it finds.
LEMMA TableRow ==
    ASSUME TypeOK, NEW j \in Jobs, Exists(j)
    PROVE  \E d, l, sp \in BOOLEAN :
              /\ d <=> row[j].run_at < now
              /\ l <=> row[j].status = "PENDING" /\ now - row[j].last_run_at > row[j].timeout
              /\ sp <=> row[j].retries - 1 <= 0
              /\ Table[j] = [status |-> row[j].status, executor |-> row[j].executor,
                             expr |-> StoreKind(row[j].expr),
                             due |-> d, late |-> l, spent |-> sp]
<1> DEFINE d  == row[j].run_at < now
           l  == row[j].status = "PENDING" /\ now - row[j].last_run_at > row[j].timeout
           sp == row[j].retries - 1 <= 0
<1>1. Table[j] = [status |-> row[j].status, executor |-> row[j].executor,
                  expr |-> StoreKind(row[j].expr), due |-> d, late |-> l, spent |-> sp]
  BY SeenRow
<1>2. d \in BOOLEAN /\ l \in BOOLEAN /\ sp \in BOOLEAN
  OBVIOUS
<1>3. /\ d <=> row[j].run_at < now
      /\ l <=> row[j].status = "PENDING" /\ now - row[j].last_run_at > row[j].timeout
      /\ sp <=> row[j].retries - 1 <= 0
  OBVIOUS
<1> HIDE DEF d, l, sp
<1>4. QED
  BY <1>1, <1>2, <1>3

LEMMA StatusSeen ==
    ASSUME NEW j \in Jobs
    PROVE  /\ Table[j].status = row[j].status
           /\ Store!Exists(j) <=> Exists(j)
           /\ Exists(j) => Table[j].executor = row[j].executor
BY DEF Table, Seen, Exists, Store!Exists, Store!Status, Store!Terminal

LEMMA UpdateSeen ==
    ASSUME TypeOK, TypeOK', NEW j \in Jobs, NEW x \in Executors, NEW e \in Exprs,
           NEW t \in Timeouts, UpdateJob(j, x, e, t)
    PROVE  Store!UpdateJob(j, StoreKind(e))
<1> DEFINE tt == OrDefault(t, row[j].timeout)
           at == next(row[j].last_run_at, e)
           new == [row[j] EXCEPT !.expr = e, !.timeout = tt, !.run_at = at]
<1>1. /\ Exists(j) /\ now' = now
      /\ row' = [row EXCEPT ![j].expr = e, ![j].timeout = tt, ![j].run_at = at]
  BY DEF UpdateJob, Found
<1>2. row[j] \in Row
  BY <1>1, ExistsRow
<1> HIDE DEF tt, at
<1>3. /\ new.status = row[j].status /\ new.executor = row[j].executor /\ new.expr = e
      /\ new.retries = row[j].retries /\ row' = [row EXCEPT ![j] = new]
  BY <1>1, <1>2 DEF Row, TypeOK
<1> HIDE DEF new
<1>4. PICK d0, l0, sp0 \in BOOLEAN :
         /\ sp0 <=> row[j].retries - 1 <= 0
         /\ Table[j] = [status |-> row[j].status, executor |-> row[j].executor,
                        expr |-> StoreKind(row[j].expr),
                        due |-> d0, late |-> l0, spent |-> sp0]
  BY <1>1, TableRow
<1>5. new.status \in Status
  BY <1>1, <1>3 DEF Exists
<1>6. PICK d, l, sp \in BOOLEAN :
         /\ d <=> new.run_at < now
         /\ l <=> new.status = "PENDING" /\ now - new.last_run_at > new.timeout
         /\ sp <=> new.retries - 1 <= 0
         /\ Table' = [Table EXCEPT ![j] =
                [status |-> new.status, executor |-> new.executor, expr |-> StoreKind(new.expr),
                 due |-> d, late |-> l, spent |-> sp]]
  BY <1>1, <1>3, <1>5, RowSeen
<1>7. sp = sp0
  BY <1>3, <1>4, <1>6
<1>8. [Table[j] EXCEPT !.expr = StoreKind(e), !.due = d, !.late = l] =
         [status |-> new.status, executor |-> new.executor, expr |-> StoreKind(new.expr),
          due |-> d, late |-> l, spent |-> sp]
  <2> DEFINE st == row[j].status
             x0 == row[j].executor
             e0 == StoreKind(row[j].expr)
             e1 == StoreKind(e)
             d1 == d
             l1 == l
             d2 == d0
             l2 == l0
             s2 == sp0
  <2>1. [status |-> new.status, executor |-> new.executor, expr |-> StoreKind(new.expr),
         due |-> d, late |-> l, spent |-> sp] =
        [status |-> st, executor |-> x0, expr |-> e1, due |-> d1, late |-> l1, spent |-> s2]
    BY <1>3, <1>7
  <2>2. Table[j] = [status |-> st, executor |-> x0, expr |-> e0,
                    due |-> d2, late |-> l2, spent |-> s2]
    BY <1>4
  <2> HIDE DEF st, x0, e0, e1, d1, l1, d2, l2, s2
  <2> DEFINE r == Table[j]
  <2>3. r = [status |-> st, executor |-> x0, expr |-> e0,
             due |-> d2, late |-> l2, spent |-> s2]
    BY <2>2
  <2> DEFINE r1 == [r EXCEPT !.expr = e1]
             r2 == [r1 EXCEPT !.due = d1]
             r3 == [r2 EXCEPT !.late = l1]
  <2>4. [Table[j] EXCEPT !.expr = e1, !.due = d1, !.late = l1] = r3
    OBVIOUS
  <2> HIDE DEF r
  <2>5. r1 = [status |-> st, executor |-> x0, expr |-> e1, due |-> d2, late |-> l2, spent |-> s2]
    BY <2>3
  <2> HIDE DEF r1
  <2>6. r2 = [status |-> st, executor |-> x0, expr |-> e1, due |-> d1, late |-> l2, spent |-> s2]
    BY <2>5
  <2> HIDE DEF r2
  <2>7. r3 = [status |-> st, executor |-> x0, expr |-> e1, due |-> d1, late |-> l1, spent |-> s2]
    BY <2>6
  <2> HIDE DEF r3
  <2>8. QED
    BY <2>1, <2>4, <2>7 DEF e1, d1, l1
<1>9. Table' = [Table EXCEPT ![j] =
                   [Table[j] EXCEPT !.expr = StoreKind(e), !.due = d, !.late = l]]
  BY <1>6, <1>8
<1>10. Table' = [Table EXCEPT ![j].expr = StoreKind(e), ![j].due = d, ![j].late = l]
  BY <1>9 DEF Table
<1>11. /\ Store!Exists(j)
       /\ \E d1, l1 \in BOOLEAN :
            /\ l1 => Table[j].status = "PENDING"
            /\ Table' = [Table EXCEPT ![j].expr = StoreKind(e), ![j].due = d1, ![j].late = l1]
  BY <1>1, <1>3, <1>6, <1>10, StatusSeen
<1>12. QED
  BY <1>11 DEF Store!UpdateJob, Table

LEMMA ExprSeen ==
    ASSUME TypeOK, TypeOK', NEW j \in Jobs, NEW x \in Executors, NEW e \in Exprs,
           UpdateExprByID(j, x, e)
    PROVE  Store!UpdateExprByID(j, StoreKind(e))
<1> DEFINE new == [row[j] EXCEPT !.expr = e]
<1>1. Exists(j) /\ now' = now /\ row' = [row EXCEPT ![j] = new]
  BY DEF UpdateExprByID, Found, TypeOK
<1>2. row[j] \in Row
  BY <1>1, ExistsRow
<1>3. /\ new.status = row[j].status /\ new.executor = row[j].executor /\ new.expr = e
      /\ new.run_at = row[j].run_at /\ new.last_run_at = row[j].last_run_at
      /\ new.timeout = row[j].timeout /\ new.retries = row[j].retries
  BY <1>2 DEF Row
<1> HIDE DEF new
<1>4. PICK d0, l0, sp0 \in BOOLEAN :
         /\ d0 <=> row[j].run_at < now
         /\ l0 <=> row[j].status = "PENDING" /\ now - row[j].last_run_at > row[j].timeout
         /\ sp0 <=> row[j].retries - 1 <= 0
         /\ Table[j] = [status |-> row[j].status, executor |-> row[j].executor,
                        expr |-> StoreKind(row[j].expr),
                        due |-> d0, late |-> l0, spent |-> sp0]
  BY <1>1, TableRow
<1>5. new.status \in Status
  BY <1>1, <1>3 DEF Exists
<1>6. PICK d, l, sp \in BOOLEAN :
         /\ d <=> new.run_at < now
         /\ l <=> new.status = "PENDING" /\ now - new.last_run_at > new.timeout
         /\ sp <=> new.retries - 1 <= 0
         /\ Table' = [Table EXCEPT ![j] =
                [status |-> new.status, executor |-> new.executor, expr |-> StoreKind(new.expr),
                 due |-> d, late |-> l, spent |-> sp]]
  BY <1>1, <1>5, RowSeen
<1>7. d = d0 /\ l = l0 /\ sp = sp0
  BY <1>3, <1>4, <1>6
<1>8. [Table[j] EXCEPT !.expr = StoreKind(e)] =
         [status |-> new.status, executor |-> new.executor, expr |-> StoreKind(new.expr),
          due |-> d, late |-> l, spent |-> sp]
  BY <1>3, <1>4, <1>7
<1>9. Table' = [Table EXCEPT ![j].expr = StoreKind(e)]
  BY <1>6, <1>8
<1>10. QED
  BY <1>1, <1>9, StatusSeen DEF Store!UpdateExprByID, Table

\* A row without a lease may have its status changed, and nothing else of it.
LEMMA StatusSet ==
    ASSUME TypeOK, TypeOK', NEW j \in Jobs, Exists(j), row[j].status # "PENDING", now' = now,
           NEW st \in Status \ {"PENDING"}, row' = [row EXCEPT ![j].status = st]
    PROVE  Table' = [Table EXCEPT ![j].status = st]
<1> DEFINE new == [row[j] EXCEPT !.status = st]
<1>1. row[j] \in Row /\ row' = [row EXCEPT ![j] = new]
  BY ExistsRow DEF TypeOK
<1>2. /\ new.status = st /\ new.executor = row[j].executor /\ new.expr = row[j].expr
      /\ new.run_at = row[j].run_at /\ new.retries = row[j].retries
  BY <1>1 DEF Row
<1> HIDE DEF new
<1>3. PICK d0, l0, sp0 \in BOOLEAN :
         /\ d0 <=> row[j].run_at < now
         /\ l0 => row[j].status = "PENDING"
         /\ sp0 <=> row[j].retries - 1 <= 0
         /\ Table[j] = [status |-> row[j].status, executor |-> row[j].executor,
                        expr |-> StoreKind(row[j].expr),
                        due |-> d0, late |-> l0, spent |-> sp0]
  BY TableRow
<1>4. new.status \in Status
  BY <1>2
<1>5. PICK d, l, sp \in BOOLEAN :
         /\ d <=> new.run_at < now
         /\ l <=> new.status = "PENDING" /\ now - new.last_run_at > new.timeout
         /\ sp <=> new.retries - 1 <= 0
         /\ Table' = [Table EXCEPT ![j] =
                [status |-> new.status, executor |-> new.executor, expr |-> StoreKind(new.expr),
                 due |-> d, late |-> l, spent |-> sp]]
  BY <1>1, <1>4, RowSeen
<1>6. d = d0 /\ l = l0 /\ sp = sp0
  BY <1>2, <1>3, <1>5
<1>7. [Table[j] EXCEPT !.status = st] =
         [status |-> new.status, executor |-> new.executor, expr |-> StoreKind(new.expr),
          due |-> d, late |-> l, spent |-> sp]
  BY <1>2, <1>3, <1>6
<1>8. QED
  BY <1>5, <1>7

LEMMA StopSeen ==
    ASSUME TypeOK, TypeOK', NEW j \in Jobs, NEW x \in Executors,
           StopJob(j, x) \/ RestartJob(j, x)
    PROVE  Store!StopJob(j) \/ Store!RestartJob(j)
<1>1. CASE StopJob(j, x)
  <2>1. /\ Exists(j) /\ row[j].status \notin {"FAILURE", "SUCCESS", "PENDING"}
        /\ now' = now /\ row' = [row EXCEPT ![j].status = "PAUSED"]
    BY <1>1 DEF StopJob, Found
  <2>2. Table' = [Table EXCEPT ![j].status = "PAUSED"]
    BY <2>1, StatusSet
  <2>3. Table[j].status \in {"READY", "PAUSED"}
    BY <2>1, StatusSeen DEF Exists
  <2>4. QED
    BY <2>2, <2>3 DEF Store!StopJob, Store!Status, Store!Terminal, Table
<1>2. CASE RestartJob(j, x)
  <2>1. /\ Exists(j) /\ row[j].status = "PAUSED"
        /\ now' = now /\ row' = [row EXCEPT ![j].status = "READY"]
    BY <1>2 DEF RestartJob, Found
  <2>2. Table' = [Table EXCEPT ![j].status = "READY"]
    BY <2>1, StatusSet
  <2>3. Table[j].status = "PAUSED"
    BY <2>1, StatusSeen
  <2>4. QED
    BY <2>2, <2>3 DEF Store!RestartJob, Table
<1>3. QED
  BY <1>1, <1>2

LEMMA DeleteSeen ==
    ASSUME TypeOK, NEW j \in Jobs, NEW x \in Executors, DeleteJob(j, x)
    PROVE  Store!DeleteJob(j)
<1>1. Exists(j) /\ now' = now /\ row' = [row EXCEPT ![j] = Absent("DELETED")]
  BY DEF DeleteJob, Found
<1>2. row'[j].status = "DELETED" /\ \A k \in Jobs \ {j} : row'[k] = row[k]
  BY <1>1 DEF Absent, TypeOK
<1>3. Seen(j)' = Store!Absent("DELETED")
  BY <1>2 DEF Seen, Exists, Store!Absent
<1>4. Table' = [Table EXCEPT ![j] = Store!Absent("DELETED")]
  BY <1>1, <1>2, <1>3, OneSeen
<1>5. QED
  BY <1>1, <1>4, StatusSeen DEF Store!DeleteJob, Table

\* A statement that starts a lease now, or ends one, and changes nothing else.
LEMMA LeaseSeen ==
    ASSUME TypeOK, TypeOK', NEW j \in Jobs, Exists(j), now' = now, NEW st \in {"PENDING", "READY"},
           row'[j].status = st, row'[j].executor = row[j].executor,
           row'[j].expr = row[j].expr, row'[j].run_at = row[j].run_at,
           row'[j].timeout = row[j].timeout, row'[j].retries = row[j].retries,
           st = "PENDING" => row'[j].last_run_at = now
    PROVE  Seen(j)' = [Table[j] EXCEPT !.status = st, !.late = FALSE]
<1>1. row[j] \in Row /\ now \in Nat
  BY ExistsRow DEF TypeOK
<1>2. PICK d, l, sp \in BOOLEAN :
         /\ d <=> row[j].run_at < now
         /\ sp <=> row[j].retries - 1 <= 0
         /\ Table[j] = [status |-> row[j].status, executor |-> row[j].executor,
                        expr |-> StoreKind(row[j].expr),
                        due |-> d, late |-> l, spent |-> sp]
  BY TableRow
<1>3. Exists(j)'
  BY DEF Exists
<1>4. ~(row'[j].status = "PENDING" /\ now' - row'[j].last_run_at > row'[j].timeout)
  <2>1. row[j].timeout \in Nat \ {0}
    BY <1>1 DEF Row
  <2>2. QED
    BY <1>1, <2>1
<1>5. Seen(j)' = [status |-> st, executor |-> row[j].executor, expr |-> StoreKind(row[j].expr),
                  due |-> d, late |-> FALSE, spent |-> sp]
  BY <1>2, <1>3, <1>4, SeenNext
<1> DEFINE r  == Table[j]
           no == FALSE
           r1 == [r EXCEPT !.status = st]
           r2 == [r1 EXCEPT !.late = no]
           x  == row[j].executor
           e  == StoreKind(row[j].expr)
<1>6. [Table[j] EXCEPT !.status = st, !.late = FALSE] = r2
  OBVIOUS
<1>7. r = [status |-> row[j].status, executor |-> x, expr |-> e, due |-> d, late |-> l,
           spent |-> sp]
  BY <1>2
<1> HIDE DEF r
<1>8. r1 = [status |-> st, executor |-> x, expr |-> e, due |-> d, late |-> l, spent |-> sp]
  BY <1>7
<1> HIDE DEF r1, no
<1>9. r2 = [status |-> st, executor |-> x, expr |-> e, due |-> d, late |-> no, spent |-> sp]
  BY <1>8
<1> HIDE DEF r2
<1>10. QED
  BY <1>5, <1>6, <1>9 DEF no

LEMMA FetchSeen ==
    ASSUME TypeOK, TypeOK', NEW x \in Executors, FetchDueJobs(x)
    PROVE  Store!Fetched(x)
<1>1. PICK J \in SUBSET Due(x) :
         /\ row' = [j \in Jobs |->
                IF j \in J THEN [row[j] EXCEPT !.status = "PENDING", !.last_run_at = now]
                           ELSE row[j]]
         /\ now' = now
  BY DEF FetchDueJobs
<1>2. \A j \in J : /\ j \in Jobs /\ Exists(j) /\ row[j].executor = x
                   /\ row[j].status = "READY" /\ row[j].run_at < now
  BY DEF Due, Found
<1>3. J \in SUBSET Store!DueRows(x, {})
  <2>1. \A j \in J : Table[j].status = "READY" /\ Table[j].due /\ Table[j].executor = x
    BY <1>2 DEF Table, Seen
  <2>2. QED
    BY <1>2, <2>1 DEF Store!DueRows, Table
<1>4. ASSUME NEW j \in J
      PROVE  Seen(j)' = [Table[j] EXCEPT !.status = "PENDING", !.late = FALSE]
  <2>1. row[j] \in Row
    BY <1>2, ExistsRow
  <2>2. row'[j] = [row[j] EXCEPT !.status = "PENDING", !.last_run_at = now]
    BY <1>1, <1>2
  <2>3. /\ row'[j].status = "PENDING" /\ row'[j].executor = row[j].executor
        /\ row'[j].expr = row[j].expr /\ row'[j].run_at = row[j].run_at
        /\ row'[j].timeout = row[j].timeout /\ row'[j].retries = row[j].retries
        /\ row'[j].last_run_at = now
    BY <2>1, <2>2 DEF Row
  <2>4. QED
    BY <1>1, <1>2, <2>3, LeaseSeen
<1>5. ASSUME NEW j \in Jobs \ J
      PROVE  Seen(j)' = Table[j]
  BY <1>1 DEF Seen, Exists, Table
<1>6. Table' = [j \in Jobs |-> IF j \in J
                               THEN [Table[j] EXCEPT !.status = "PENDING", !.late = FALSE]
                               ELSE Table[j]]
  BY <1>4, <1>5 DEF Table
<1>7. \E K \in SUBSET Store!DueRows(x, {}) :
         Table' = [j \in Jobs |-> IF j \in K
                                  THEN [Table[j] EXCEPT !.status = "PENDING", !.late = FALSE]
                                  ELSE Table[j]]
  BY <1>3, <1>6
<1>8. QED
  BY <1>7 DEF Store!Fetched, Store!MarkPending, Table

LEMMA ResetSeen ==
    ASSUME TypeOK, TypeOK', NEW x \in Executors, ResetTimeoutJobs(x)
    PROVE  Store!ResetTimeoutJobs(x)
<1> DEFINE J == TimedOut(x)
<1>1. /\ J # {} /\ now' = now
      /\ row' = [j \in Jobs |-> IF j \in J THEN [row[j] EXCEPT !.status = "READY"] ELSE row[j]]
  BY DEF ResetTimeoutJobs
<1>2. \A j \in J : j \in Jobs /\ Exists(j)
  BY DEF TimedOut, Found
<1>3. J = Store!LateRows(x)
  <2>1. ASSUME NEW j \in Jobs
        PROVE  j \in J <=> /\ Table[j].status = "PENDING" /\ Table[j].late
                           /\ Table[j].executor = x
    <3>1. CASE Exists(j)
      <4>1. row[j].timeout > 0
        BY <3>1, ExistsRow DEF Row
      <4>2. QED
        BY <3>1, <4>1 DEF TimedOut, Found, Table, Seen
    <3>2. CASE ~Exists(j)
      BY <3>2 DEF TimedOut, Found, Table, Seen, Exists
    <3>3. QED
      BY <3>1, <3>2
  <2>2. QED
    BY <1>2, <2>1 DEF Store!LateRows, Table
<1> HIDE DEF J
<1>4. ASSUME NEW j \in J
      PROVE  Seen(j)' = [Table[j] EXCEPT !.status = "READY", !.late = FALSE]
  <2>1. row[j] \in Row
    BY <1>2, ExistsRow
  <2>2. row'[j] = [row[j] EXCEPT !.status = "READY"]
    BY <1>1, <1>2
  <2>3. /\ row'[j].status = "READY" /\ row'[j].executor = row[j].executor
        /\ row'[j].expr = row[j].expr /\ row'[j].run_at = row[j].run_at
        /\ row'[j].timeout = row[j].timeout /\ row'[j].retries = row[j].retries
    BY <2>1, <2>2 DEF Row
  <2>4. QED
    BY <1>1, <1>2, <2>3, LeaseSeen
<1>5. ASSUME NEW j \in Jobs \ J
      PROVE  Seen(j)' = Table[j]
  BY <1>1 DEF Seen, Exists, Table
<1>6. Table' = [j \in Jobs |-> IF j \in J
                               THEN [Table[j] EXCEPT !.status = "READY", !.late = FALSE]
                               ELSE Table[j]]
  BY <1>4, <1>5 DEF Table
<1>7. QED
  BY <1>1, <1>3, <1>6 DEF Store!ResetTimeoutJobs, Table

\* What both batch statements write of a row.
LEMMA WrittenSeen ==
    ASSUME TypeOK, TypeOK', NEW j \in Jobs, Exists(j), now' = now, NEW r,
           r.status \in Status \ {"PENDING"}, r.executor = row[j].executor,
           row' = [row EXCEPT ![j] = r]
    PROVE  \E d, sp \in BOOLEAN :
              /\ d <=> r.run_at < now
              /\ sp <=> r.retries - 1 <= 0
              /\ Table' = [Table EXCEPT ![j] =
                     Store!Written(Table[j], r.status, StoreKind(r.expr), d, sp)]
<1>1. PICK d, l, sp \in BOOLEAN :
         /\ d <=> r.run_at < now
         /\ l <=> r.status = "PENDING" /\ now - r.last_run_at > r.timeout
         /\ sp <=> r.retries - 1 <= 0
         /\ Table' = [Table EXCEPT ![j] =
                [status |-> r.status, executor |-> r.executor, expr |-> StoreKind(r.expr),
                 due |-> d, late |-> l, spent |-> sp]]
  BY RowSeen
<1>2. l = FALSE
  BY <1>1
<1>3. PICK d0, l0, sp0 \in BOOLEAN :
         Table[j] = [status |-> row[j].status, executor |-> row[j].executor,
                     expr |-> StoreKind(row[j].expr),
                     due |-> d0, late |-> l0, spent |-> sp0]
  BY TableRow
<1>4. Store!Written(Table[j], r.status, StoreKind(r.expr), d, sp) =
         [status |-> r.status, executor |-> r.executor, expr |-> StoreKind(r.expr),
          due |-> d, late |-> l, spent |-> sp]
  <2> DEFINE q  == Table[j]
             st == r.status
             x  == r.executor
             e  == StoreKind(r.expr)
             d1 == d
             s1 == sp
             no == FALSE
             q1 == [q EXCEPT !.status = st]
             q2 == [q1 EXCEPT !.expr = e]
             q3 == [q2 EXCEPT !.due = d1]
             q4 == [q3 EXCEPT !.late = no]
             q5 == [q4 EXCEPT !.spent = s1]
             st0 == row[j].status
             e0 == StoreKind(row[j].expr)
             d2 == d0
             l2 == l0
             s2 == sp0
  <2>1. Store!Written(Table[j], r.status, StoreKind(r.expr), d, sp) = q5
    BY DEF Store!Written, Table
  <2>2. q = [status |-> st0, executor |-> x, expr |-> e0, due |-> d2, late |-> l2, spent |-> s2]
    BY <1>3
  <2> HIDE DEF q, st, x, e, d1, s1, no, st0, e0, d2, l2, s2
  <2>3. q1 = [status |-> st, executor |-> x, expr |-> e0, due |-> d2, late |-> l2, spent |-> s2]
    BY <2>2
  <2> HIDE DEF q1
  <2>4. q2 = [status |-> st, executor |-> x, expr |-> e, due |-> d2, late |-> l2, spent |-> s2]
    BY <2>3
  <2> HIDE DEF q2
  <2>5. q3 = [status |-> st, executor |-> x, expr |-> e, due |-> d1, late |-> l2, spent |-> s2]
    BY <2>4
  <2> HIDE DEF q3
  <2>6. q4 = [status |-> st, executor |-> x, expr |-> e, due |-> d1, late |-> no, spent |-> s2]
    BY <2>5
  <2> HIDE DEF q4
  <2>7. q5 = [status |-> st, executor |-> x, expr |-> e, due |-> d1, late |-> no, spent |-> s1]
    BY <2>6
  <2> HIDE DEF q5
  <2>8. QED
    BY <1>2, <2>1, <2>7 DEF st, x, e, d1, no, s1
<1>5. QED
  BY <1>1, <1>4

LEMMA CommitSeen ==
    ASSUME TypeOK, TypeOK', NEW j \in Jobs, NEW x \in Executors,
           NEW st \in {"SUCCESS", "READY"}, NEW e \in Exprs, BatchUpdateJobs(j, x, st, e)
    PROVE  Store!Answered(j)
<1> DEFINE at == next(now, e)
           new == [row[j] EXCEPT !.last_run_at = now, !.expr = e, !.status = st, !.retries = 0,
                                 !.execution_amount = @ + 1, !.run_at = at]
<1>1. Exists(j) /\ NotNull(at) /\ now' = now /\ row' = [row EXCEPT ![j] = new]
  BY DEF BatchUpdateJobs, Found
<1>2. row[j] \in Row
  BY <1>1, ExistsRow
<1> HIDE DEF at
<1>3. /\ new.status = st /\ new.executor = row[j].executor /\ new.expr = e
      /\ new.retries = 0 /\ new.run_at = at
  BY <1>2 DEF Row
<1> HIDE DEF new
<1>4. new.status \in Status \ {"PENDING"}
  BY <1>3
<1>5. PICK d, sp \in BOOLEAN :
         /\ d <=> new.run_at < now
         /\ sp <=> new.retries - 1 <= 0
         /\ Table' = [Table EXCEPT ![j] =
                Store!Written(Table[j], new.status, StoreKind(new.expr), d, sp)]
  BY <1>1, <1>3, <1>4, WrittenSeen
<1>6. sp = TRUE
  BY <1>3, <1>5
<1> DEFINE r == Store!Written(Table[j], st, StoreKind(e), d, TRUE)
<1>7. Table' = [Table EXCEPT ![j] = r]
  BY <1>3, <1>5, <1>6
<1>8. r \in Store!Updated(Table[j], st, StoreKind(e))
  BY DEF Store!Updated
<1>9. Store!Exists(j) /\ StoreKind(e) \in {StoreKind(c) : c \in Exprs}
  BY <1>1, StatusSeen
<1> HIDE DEF r
<1>10. QED
  BY <1>7, <1>8, <1>9 DEF Store!Answered, Table

LEMMA FailSeen ==
    ASSUME TypeOK, TypeOK', NEW j \in Jobs, NEW x \in Executors, NEW e \in Exprs,
           BatchUpdateFailedJobs(j, x, e)
    PROVE  Store!Answered(j)
<1> DEFINE at == IF is_one_shot(row[j].expr) THEN now + 2 ^ row[j].execution_amount
                                             ELSE next(now, e)
           st == IF IsLast(j) THEN "FAILURE" ELSE "READY"
           new == [row[j] EXCEPT !.last_run_at = now, !.expr = e, !.status = st,
                                 !.retries = @ - 1, !.execution_amount = @ + 1, !.run_at = at]
<1>1. /\ Exists(j) /\ now' = now /\ row' = [row EXCEPT ![j] = new]
      /\ IF is_one_shot(row[j].expr) THEN row[j].execution_amount <= MaxBackoff
                                     ELSE NotNull(next(now, e))
  BY DEF BatchUpdateFailedJobs, Found
<1>2. row[j] \in Row
  BY <1>1, ExistsRow
<1> HIDE DEF at, st
<1>3. /\ new.status = st /\ new.executor = row[j].executor /\ new.expr = e
      /\ new.retries = row[j].retries - 1 /\ new.run_at = at
  BY <1>2 DEF Row
<1> HIDE DEF new
<1>4. new.status \in Status \ {"PENDING"}
  BY <1>3 DEF st
<1>5. PICK d, sp \in BOOLEAN :
         /\ d <=> new.run_at < now
         /\ sp <=> new.retries - 1 <= 0
         /\ Table' = [Table EXCEPT ![j] =
                Store!Written(Table[j], new.status, StoreKind(new.expr), d, sp)]
  BY <1>1, <1>3, <1>4, WrittenSeen
<1>6. PICK d0, l0, sp0 \in BOOLEAN :
         /\ sp0 <=> row[j].retries - 1 <= 0
         /\ Table[j] = [status |-> row[j].status, executor |-> row[j].executor,
                        expr |-> StoreKind(row[j].expr),
                        due |-> d0, late |-> l0, spent |-> sp0]
  BY <1>1, TableRow
<1>7. row[j].expr \in Exprs /\ Table[j].expr = StoreKind(row[j].expr) /\ Table[j].spent = sp0
  BY <1>2, <1>6 DEF Row
<1>8. Store!is_one_shot(Table[j].expr) <=> is_one_shot(row[j].expr)
  BY <1>7, SchedulesType
<1>9. sp \in {TRUE, Table[j].spent}
  <2>1. row[j].retries \in Int
    BY <1>2 DEF Row
  <2>2. sp = TRUE \/ sp = sp0
    BY <1>3, <1>5, <1>6, <2>1
  <2>3. QED
    BY <1>7, <2>2
<1>10. st = Store!StatusFailed(Table[j])
  BY <1>6, <1>7, <1>8 DEF st, IsLast, Store!StatusFailed
<1>11. d \in Store!PastFailed(Table[j])
  <2>1. CASE is_one_shot(row[j].expr)
    <3>1. row[j].execution_amount \in 0..MaxBackoff
      BY <1>1, <1>2, <2>1, JobTableAssumption DEF Row
    <3>2. 2 ^ row[j].execution_amount \in Nat \ {0}
      BY <3>1, BackoffAssumption
    <3>3. d = FALSE
      <4> DEFINE b == 2 ^ row[j].execution_amount
      <4>1. at = now + b
        BY <2>1 DEF at
      <4>2. b \in Nat
        BY <3>2
      <4> HIDE DEF b
      <4>3. QED
        BY <1>3, <1>5, <4>1, <4>2 DEF TypeOK
    <3>4. QED
      BY <1>8, <2>1, <3>3 DEF Store!PastFailed
  <2>2. CASE ~is_one_shot(row[j].expr)
    BY <1>8, <2>2 DEF Store!PastFailed
  <2>3. QED
    BY <2>1, <2>2
<1> DEFINE r == Store!Written(Table[j], Store!StatusFailed(Table[j]), StoreKind(e), d, sp)
<1>12. Table' = [Table EXCEPT ![j] = r]
  BY <1>3, <1>5, <1>10
<1>13. r \in Store!UpdatedFailed(Table[j], StoreKind(e))
  BY <1>9, <1>11 DEF Store!UpdatedFailed
<1>14. Store!Exists(j) /\ StoreKind(e) \in {StoreKind(c) : c \in Exprs}
  BY <1>1, StatusSeen
<1> HIDE DEF r
<1>15. QED
  BY <1>12, <1>13, <1>14 DEF Store!Answered, Table

\* The clock passes the dates and the time-outs that it passes.
LEMMA TickSeen ==
    ASSUME TypeOK, TypeOK', Tick
    PROVE  Store!Pass
<1> DEFINE D == {j \in Jobs : Exists(j) /\ row[j].run_at < now'}
           L == {j \in Jobs : /\ row[j].status = "PENDING"
                              /\ now' - row[j].last_run_at > row[j].timeout}
<1>1. now' = now + 1 /\ row' = row /\ now \in Nat
  BY DEF Tick, TypeOK
<1>2. ASSUME NEW j \in Jobs, Exists(j)
      PROVE  Seen(j)' = [Table[j] EXCEPT !.due = @ \/ j \in D, !.late = @ \/ j \in L]
  <2>1. row[j] \in Row
    BY <1>2, ExistsRow
  <2>2. PICK d, l, sp \in BOOLEAN :
           /\ d <=> row[j].run_at < now
           /\ l <=> row[j].status = "PENDING" /\ now - row[j].last_run_at > row[j].timeout
           /\ sp <=> row[j].retries - 1 <= 0
           /\ Table[j] = [status |-> row[j].status, executor |-> row[j].executor,
                          expr |-> StoreKind(row[j].expr),
                          due |-> d, late |-> l, spent |-> sp]
    BY <1>2, TableRow
  <2> DEFINE d1 == d \/ j \in D
             l1 == l \/ j \in L
  <2>3. Exists(j)'
    BY <1>1, <1>2 DEF Exists
  <2>4. d1 <=> row[j].run_at < now'
    BY <1>1, <1>2, <2>1, <2>2 DEF Row
  <2>5. l1 <=> row[j].status = "PENDING" /\ now' - row[j].last_run_at > row[j].timeout
    BY <1>1, <1>2, <2>1, <2>2 DEF Row
  <2>6. Seen(j)' = [status |-> row[j].status, executor |-> row[j].executor,
                    expr |-> StoreKind(row[j].expr), due |-> d1, late |-> l1, spent |-> sp]
    <3> DEFINE d3 == row[j].run_at < now'
               l3 == /\ row[j].status = "PENDING"
                     /\ now' - row[j].last_run_at > row[j].timeout
    <3>1. Seen(j)' = [status |-> row[j].status, executor |-> row[j].executor,
                      expr |-> StoreKind(row[j].expr), due |-> d3, late |-> l3, spent |-> sp]
      BY <1>1, <2>2, <2>3, SeenNext
    <3>2. /\ {d3, l3, d1, l1} \subseteq BOOLEAN
          /\ d3 <=> d1
          /\ l3 <=> l1
      BY <2>4, <2>5
    <3> HIDE DEF d3, l3, d1, l1
    <3>3. d3 = d1 /\ l3 = l1
      BY <3>2
    <3>4. QED
      BY <3>1, <3>3
  <2> DEFINE q  == Table[j]
             st == row[j].status
             x  == row[j].executor
             e  == StoreKind(row[j].expr)
             d2 == d
             l2 == l
             s2 == sp
             q1 == [q EXCEPT !.due = d1]
             q2 == [q1 EXCEPT !.late = l1]
  <2>7. q = [status |-> st, executor |-> x, expr |-> e, due |-> d2, late |-> l2, spent |-> s2]
    BY <2>2
  <2>8. q.due = d /\ q.late = l
    BY <2>7
  <2>9. [q EXCEPT !.due = @ \/ j \in D, !.late = @ \/ j \in L] = q2
    BY <2>8
  <2> HIDE DEF q, st, x, e, d1, l1, d2, l2, s2
  <2>10. q1 = [status |-> st, executor |-> x, expr |-> e, due |-> d1, late |-> l2, spent |-> s2]
    BY <2>7
  <2> HIDE DEF q1
  <2>11. q2 = [status |-> st, executor |-> x, expr |-> e, due |-> d1, late |-> l1, spent |-> s2]
    BY <2>10
  <2> HIDE DEF q2
  <2>12. QED
    BY <2>6, <2>9, <2>11 DEF st, x, e, s2, q
<1>3. ASSUME NEW j \in Jobs, ~Exists(j)
      PROVE  Seen(j)' = [Table[j] EXCEPT !.due = @ \/ j \in D, !.late = @ \/ j \in L]
  <2>1. row[j].status # "PENDING" /\ ~Exists(j)'
    BY <1>1, <1>3 DEF Exists
  <2>2. Table[j] = Store!Absent(row[j].status) /\ Seen(j)' = Store!Absent(row[j].status)
    BY <1>1, <1>3, <2>1 DEF Table, Seen, Store!Absent
  <2>3. j \notin D /\ j \notin L
    BY <1>3, <2>1
  <2> DEFINE st == row[j].status
             q  == Table[j]
             no == FALSE
             q1 == [q EXCEPT !.due = no]
             q2 == [q1 EXCEPT !.late = no]
  <2>4. q = [status |-> st, executor |-> "none", expr |-> "none",
             due |-> no, late |-> no, spent |-> no]
    BY <2>2 DEF Store!Absent
  <2>5. [q EXCEPT !.due = @ \/ j \in D, !.late = @ \/ j \in L] = q2
    <3>1. (q.due \/ j \in D) = no /\ (q.late \/ j \in L) = no
      BY <2>3, <2>4
    <3>2. QED
      BY <3>1
  <2> HIDE DEF D, L, st, q, no
  <2>6. q1 = q
    BY <2>4
  <2> HIDE DEF q1
  <2>7. q2 = q
    BY <2>4, <2>6
  <2> HIDE DEF q2
  <2>8. QED
    BY <2>2, <2>5, <2>7 DEF q
<1>4. D \in SUBSET {j \in Jobs : Store!Exists(j)}
      /\ L \in SUBSET {j \in Jobs : Table[j].status = "PENDING"}
  BY StatusSeen
<1> HIDE DEF D, L
<1>5. Table' = [j \in Jobs |->
                   [Table[j] EXCEPT !.due = @ \/ j \in D, !.late = @ \/ j \in L]]
  BY <1>2, <1>3 DEF Table
<1>6. QED
  BY <1>4, <1>5 DEF Store!Pass, Table

LEMMA InitSeen == Init => Store!TableInit
<1> SUFFICES ASSUME Init
             PROVE  Table = [j \in Jobs |-> Store!Absent("UNUSED")]
  BY DEF Store!TableInit, Table
<1>1. \A j \in Jobs : row[j].status = "UNUSED"
  BY DEF Init, Absent
<1>2. \A j \in Jobs : Seen(j) = Store!Absent("UNUSED")
  BY <1>1 DEF Seen, Exists, Store!Absent
<1>3. QED
  BY <1>2 DEF Table

LEMMA StepSeen ==
    ASSUME TypeOK, TypeOK', Next
    PROVE  Store!TableNext
<1> DEFINE Kept == {StoreKind(e) : e \in Exprs}
<1>1. ASSUME NEW x \in Executors, FetchDueJobs(x) \/ ResetTimeoutJobs(x)
      PROVE  Store!TableNext
  <2>1. CASE FetchDueJobs(x)
    <3>1. \E y \in Executors : Store!Fetched(y)
      BY <2>1, FetchSeen
    <3>2. QED
      BY <3>1 DEF Store!TableNext
  <2>2. CASE ResetTimeoutJobs(x)
    <3>1. \E y \in Executors : Store!ResetTimeoutJobs(y)
      BY <2>2, ResetSeen
    <3>2. QED
      BY <3>1 DEF Store!TableNext
  <2>3. QED
    BY <1>1, <2>1, <2>2
<1>2. ASSUME NEW x \in Executors, NEW j \in Jobs, User(j, x)
      PROVE  Store!TableNext
  <2>1. CASE \E e \in Exprs, s \in Starts, t \in Timeouts, r \in Attempts :
                CreateJob(j, x, e, s, t, r)
    <3>1. \E e \in Exprs : Store!CreateJob(x, StoreKind(e))
      BY <2>1, CreateSeen
    <3>2. \E k \in Kept : Store!CreateJob(x, k)
      BY <3>1
    <3>3. QED
      BY <3>2 DEF Store!TableNext
  <2>2. CASE \E e \in Exprs, t \in Timeouts : UpdateJob(j, x, e, t)
    <3>1. \E e \in Exprs : Store!UpdateJob(j, StoreKind(e))
      BY <2>2, UpdateSeen
    <3>2. \E k \in Kept : Store!UpdateJob(j, k)
      BY <3>1
    <3>3. QED
      BY <3>2 DEF Store!TableNext
  <2>3. CASE \E e \in Exprs : UpdateExprByID(j, x, e)
    <3>1. \E e \in Exprs : Store!UpdateExprByID(j, StoreKind(e))
      BY <2>3, ExprSeen
    <3>2. \E k \in Kept : Store!UpdateExprByID(j, k)
      BY <3>1
    <3>3. QED
      BY <3>2 DEF Store!TableNext
  <2>4. CASE StopJob(j, x) \/ RestartJob(j, x) \/ DeleteJob(j, x)
    <3>1. Store!StopJob(j) \/ Store!RestartJob(j) \/ Store!DeleteJob(j)
      BY <2>4, StopSeen, DeleteSeen
    <3>2. QED
      BY <3>1 DEF Store!TableNext
  <2>5. QED
    BY <1>2, <2>1, <2>2, <2>3, <2>4 DEF User
<1>3. ASSUME NEW x \in Executors, NEW j \in Jobs, Answer(j, x)
      PROVE  Store!TableNext
  <2>1. Store!Answered(j)
    BY <1>3, CommitSeen, FailSeen DEF Answer
  <2>2. QED
    BY <2>1 DEF Store!TableNext
<1>4. CASE Tick
  BY <1>4, TickSeen DEF Store!TableNext
<1>5. QED
  BY <1>1, <1>2, <1>3, <1>4 DEF Next

-----------------------------------------------------------------------------
(***************************************************************************)
(* Every step of the real table is a step of the table that the sessions    *)
(* see: when a row is due, late or spent after a statement, JobStore allows *)
(* it (queries.sql, init.sql:36-159).                                       *)
(***************************************************************************)
THEOREM StoreKept == Spec => KeepsStore
<1>1. TypeOK /\ TypeOK' /\ [Next]_vars => [Store!TableNext]_Table
  <2> SUFFICES ASSUME TypeOK, TypeOK', [Next]_vars
               PROVE  Store!TableNext \/ Table' = Table
    OBVIOUS
  <2>1. CASE Next
    BY <2>1, StepSeen
  <2>2. CASE UNCHANGED vars
    <3>1. \A j \in Jobs : Seen(j)' = Seen(j)
      BY <2>2 DEF vars, Seen, Exists, StoreKind, is_one_shot, kind
    <3>2. QED
      BY <3>1 DEF Table
  <2>3. QED
    BY <2>1, <2>2
<1>2. TypeOK /\ TypeOK' /\ [Next]_vars => [Store!TableNext]_[j \in Jobs |-> Seen(j)]
  BY <1>1 DEF Table
<1>3. QED
  BY <1>2, InitSeen, TableType, PTL DEF Spec, KeepsStore, Store!TableSpec
=============================================================================

--------------------------- MODULE BooksSync_proofs ---------------------------
(***************************************************************************)
(* Theorems about BooksSync for every set of bills, versions, periods,     *)
(* jobs and workers and any number of edits and disconnections.            *)
(***************************************************************************)
EXTENDS BooksSync, FiniteSetTheorems, TLAPS

Objects == [snapshot : Snapshots \cup {<<>>}, active : BOOLEAN, deleted : BOOLEAN,
            verified : BOOLEAN]
Rows == [period : Periods \cup {NoPeriod}, active : BOOLEAN]
JobRecords == [status : {"NONE", "QUEUED", "RUNNING", "SUCCEEDED", "FAILED"},
               period : Periods \cup {NoPeriod}, page : Nat, seen : SUBSET Bills]

(* What a worker holds at each of its steps.                               *)
ClaimedJob == [step : {"claimed"}, job : Jobs, page : Nat, seen : SUBSET Bills]
ReadPage == [step : {"listed", "read"}, job : Jobs, page : Nat, seen : SUBSET Bills,
             more : BOOLEAN, items : SUBSET (Bills \X Snapshots)]
WorkerStates == {Idle} \cup ClaimedJob \cup ReadPage

SyncTypes ==
  /\ provider \in [Bills -> Versions \cup {Gone}]
  /\ object \in [Bills -> Objects]
  /\ row \in [Bills -> [Snapshots -> Rows]]
  /\ window \in [Periods -> {"NONE", "COMPLETE", "MISMATCH"}]
  /\ job \in [Jobs -> JobRecords]
  /\ worker \in [Workers -> WorkerStates]

(* What a commit reads from its worker's page.                             *)
LEMMA ReadSnapshots ==
  ASSUME NEW items \in SUBSET (Bills \X Snapshots), NEW b \in Bills,
         b \in {i[1] : i \in items}
  PROVE  (CHOOSE i \in items : i[1] = b)[2] \in Snapshots
<1>1. PICK i \in items : i[1] = b
  OBVIOUS
<1>2. (CHOOSE k \in items : k[1] = b) \in items
  BY <1>1
<1>. QED BY <1>2

(* Projecting a snapshot leaves at most its own row active.                *)
LEMMA ProjectFacts ==
  ASSUME NEW rows \in [Snapshots -> Rows], NEW s \in Snapshots,
         NEW p \in Periods \cup {NoPeriod}, NEW live \in BOOLEAN
  PROVE  /\ Project(rows, s, p, live) \in [Snapshots -> Rows]
         /\ \A t \in Snapshots : Project(rows, s, p, live)[t].active => t = s
BY DEF Project, Superseded, Rows

(* Withdrawing leaves none.                                                *)
LEMMA WithdrawFacts ==
  ASSUME NEW rows \in [Snapshots -> Rows]
  PROVE  /\ WithdrawRows(rows) \in [Snapshots -> Rows]
         /\ \A t \in Snapshots : ~ WithdrawRows(rows)[t].active
BY DEF WithdrawRows, Rows

(* The register counts a bill at most once, as it was last seen.           *)
BillFollows(b) ==
  /\ \A s, t \in Snapshots : row[b][s].active /\ row[b][t].active => s = t
  /\ \A s \in Snapshots : row[b][s].active =>
       /\ ~ object[b].deleted
       /\ object[b].snapshot = s \/ object[b].verified
RowsInv == SyncTypes /\ \A b \in Bills : BillFollows(b)

(* The commit of a page: a bill on the page has one row, that of its new   *)
(* snapshot; one that has disappeared has none; any other keeps its own.   *)
LEMMA CommitKeepsRows ==
  ASSUME RowsInv, NEW w \in Workers, Commit(w)
  PROVE  RowsInv'
<1>. USE SyncAssumption
<1>. DEFINE got == worker[w]
            j == got.job
            p == job[j].period
            read == {i[1] : i \in got.items}
            of(b) == (CHOOSE i \in got.items : i[1] = b)[2]
            seen == got.seen \cup read
            synced(b) == IF b \in read THEN UpsertSnapshot(of(b), Void(of(b))) ELSE object[b]
            projected(b) == IF b \in read THEN Project(row[b], of(b), p, ~ Void(of(b))) ELSE row[b]
<1>1. /\ got.items \in SUBSET (Bills \X Snapshots) /\ got.more \in BOOLEAN
      /\ j \in Jobs /\ got.page \in Nat /\ got.seen \subseteq Bills
  BY DEF RowsInv, SyncTypes, WorkerStates, ClaimedJob, ReadPage, Idle, Commit
<1>2. read \subseteq Bills /\ seen \subseteq Bills
  BY <1>1
<1>3. p \in Periods \cup {NoPeriod} /\ job[j] \in JobRecords
  BY <1>1 DEF RowsInv, SyncTypes, JobRecords
<1>4. \A b \in read : of(b) \in Snapshots /\ Void(of(b)) \in BOOLEAN
  BY <1>1, <1>2, ReadSnapshots DEF Void
<1>5. /\ object' = [b \in Bills |->
              IF got.more THEN synced(b) ELSE MarkDisappeared(synced(b), b, seen)]
      /\ row' = [b \in Bills |->
              IF ~ got.more /\ object'[b].deleted THEN WithdrawRows(projected(b)) ELSE projected(b)]
  BY DEF Commit
<1>6. /\ job' = [job EXCEPT ![j] =
              [status |-> IF got.more THEN "QUEUED" ELSE "SUCCEEDED", period |-> p,
               page |-> IF got.more THEN got.page + 1 ELSE 1, seen |-> seen]]
      /\ window' = IF got.more THEN window ELSE [window EXCEPT ![p] = RecordWindow(p, seen)]
      /\ worker' = [worker EXCEPT ![w] = Idle]
      /\ provider' = provider
  BY DEF Commit
<1>. HIDE DEF of
<1>7. ASSUME NEW b \in Bills
      PROVE  /\ object'[b] \in Objects
             /\ row'[b] \in [Snapshots -> Rows]
             /\ BillFollows(b)'
  <2>1. /\ object[b] \in Objects /\ row[b] \in [Snapshots -> Rows] /\ BillFollows(b)
    BY DEF RowsInv, SyncTypes
  <2>2. CASE b \in read
    <3>1. object'[b] = UpsertSnapshot(of(b), Void(of(b)))
      BY <1>5, <2>2 DEF MarkDisappeared
    <3>2. row'[b] = Project(row[b], of(b), p, ~ Void(of(b)))
      BY <1>5, <2>2, <3>1 DEF UpsertSnapshot
    <3>3. object'[b] \in Objects /\ object'[b].snapshot = of(b) /\ ~ object'[b].deleted
      BY <1>4, <2>2, <3>1 DEF UpsertSnapshot, Objects
    <3>4. row'[b] \in [Snapshots -> Rows] /\ \A t \in Snapshots : row'[b][t].active => t = of(b)
      <4>. DEFINE live == ~ Void(of(b))
      <4>1. of(b) \in Snapshots /\ live \in BOOLEAN /\ row'[b] = Project(row[b], of(b), p, live)
        BY <1>4, <2>2, <3>2
      <4>. HIDE DEF p, live
      <4>. QED BY <1>3, <2>1, <4>1, ProjectFacts
    <3>. QED BY <3>3, <3>4 DEF BillFollows
  <2>3. CASE b \notin read
    <3>1. projected(b) = row[b] /\ synced(b) = object[b]
      BY <2>3
    <3>2. CASE got.more
      BY <1>5, <2>1, <3>1, <3>2 DEF BillFollows
    <3>3. CASE ~ got.more
      <4>1. object'[b] = MarkDisappeared(object[b], b, seen)
        BY <1>5, <3>1, <3>3
      <4>2. object'[b] \in Objects /\ (object'[b] = object[b] \/ object'[b].deleted)
        BY <2>1, <4>1 DEF MarkDisappeared, Objects
      <4>3. CASE object'[b].deleted
        <5>1. row'[b] = WithdrawRows(row[b])
          BY <1>5, <3>1, <3>3, <4>3
        <5>. QED BY <2>1, <4>2, <5>1, WithdrawFacts DEF BillFollows
      <4>4. CASE ~ object'[b].deleted
        <5>1. row'[b] = row[b]
          BY <1>5, <3>1, <3>3, <4>4
        <5>. QED BY <2>1, <4>2, <4>4, <5>1 DEF BillFollows
      <4>. QED BY <4>3, <4>4
    <3>. QED BY <3>2, <3>3
  <2>. QED BY <2>2, <2>3
<1>8. object' \in [Bills -> Objects] /\ row' \in [Bills -> [Snapshots -> Rows]]
  BY <1>5, <1>7
<1>9. job' \in [Jobs -> JobRecords]
  BY <1>1, <1>2, <1>3, <1>6 DEF RowsInv, SyncTypes, JobRecords
<1>10. window' \in [Periods -> {"NONE", "COMPLETE", "MISMATCH"}]
  BY <1>6 DEF RowsInv, SyncTypes, RecordWindow
<1>11. worker' \in [Workers -> WorkerStates]
  BY <1>6 DEF RowsInv, SyncTypes, WorkerStates
<1>. QED BY <1>6, <1>7, <1>8, <1>9, <1>10, <1>11 DEF RowsInv, SyncTypes

(* A read-back is flagged on the object, and leaves the rows.             *)
LEMMA VerificationKeepsRows ==
  ASSUME RowsInv, NEW c \in Bills, RecordVerification(c)
  PROVE  RowsInv'
<1>. DEFINE s == <<provider[c], "detailed">>
<1>1. s \in Snapshots
  BY DEF RowsInv, SyncTypes, RecordVerification, Snapshots
<1>2. /\ object' = [object EXCEPT ![c] = [UpsertSnapshot(s, FALSE) EXCEPT !.verified = TRUE]]
      /\ UNCHANGED <<provider, row, window, job, worker>>
  BY DEF RecordVerification
<1>3. object \in [Bills -> Objects]
  BY DEF RowsInv, SyncTypes
<1>4. object'[c] \in Objects /\ ~ object'[c].deleted /\ object'[c].verified
  BY <1>1, <1>2, <1>3 DEF UpsertSnapshot, Objects
<1>5. \A b \in Bills : b # c => object'[b] = object[b]
  BY <1>2, <1>3
<1>6. object' \in [Bills -> Objects]
  BY <1>2, <1>3, <1>4
<1>7. ASSUME NEW b \in Bills PROVE BillFollows(b)'
  BY <1>2, <1>4, <1>5 DEF BillFollows, RowsInv
<1>. QED BY <1>2, <1>6, <1>7 DEF RowsInv, SyncTypes

(* What the provider lists fits what a worker may hold.                    *)
LEMMA ListedItems ==
  ASSUME SyncTypes, NEW p, NEW n
  PROVE  {<<b, <<provider[b], "listed">>>> : b \in Page(p, n)} \subseteq Bills \X Snapshots
BY DEF SyncTypes, Page, Listing, Snapshots

(* So does what it answers for single bills.                               *)
LEMMA DetailedItems ==
  ASSUME SyncTypes, NEW items \in SUBSET (Bills \X Snapshots),
         NEW detailed \in SUBSET {i \in items : provider[i[1]] # Gone}
  PROVE  (items \ detailed) \cup {<<i[1], <<provider[i[1]], "detailed">>>> : i \in detailed}
           \subseteq Bills \X Snapshots
<1>1. \A i \in detailed : i[1] \in Bills /\ provider[i[1]] \in Versions
  BY DEF SyncTypes
<1>. QED BY <1>1 DEF Snapshots

(* A step that leaves the stored bills alone keeps their rows in step.     *)
LEMMA QueueStepsKeepRows ==
  ASSUME RowsInv, UNCHANGED <<object, row, window>>,
         provider' \in [Bills -> Versions \cup {Gone}],
         job' \in [Jobs -> JobRecords],
         worker' \in [Workers -> WorkerStates]
  PROVE  RowsInv'
BY DEF RowsInv, SyncTypes, BillFollows

(* Every operation keeps the types and the rows in step.                   *)
LEMMA RowsInvariant == Spec => []RowsInv
<1>. USE SyncAssumption
<1>1. Init => RowsInv
  BY DEF Init, RowsInv, SyncTypes, BillFollows, Objects, Rows, JobRecords, NoRow,
     WorkerStates
<1>2. RowsInv /\ [Next]_vars => RowsInv'
  <2>. SUFFICES ASSUME RowsInv, [Next]_vars PROVE RowsInv'
    OBVIOUS
  <2>0. /\ provider \in [Bills -> Versions \cup {Gone}]
        /\ job \in [Jobs -> JobRecords]
        /\ worker \in [Workers -> WorkerStates]
    BY DEF RowsInv, SyncTypes
  <2>a. ASSUME NEW w \in Workers, NEW k \in WorkerStates, worker' = [worker EXCEPT ![w] = k]
        PROVE  worker' \in [Workers -> WorkerStates]
    BY <2>0, <2>a
  <2>b. Idle \in WorkerStates
    BY DEF WorkerStates
  <2>c. ASSUME NEW j \in Jobs, NEW st \in {"NONE", "QUEUED", "RUNNING", "SUCCEEDED", "FAILED"},
               job' = [job EXCEPT ![j].status = st]
        PROVE  job' \in [Jobs -> JobRecords]
    BY <2>0, <2>c DEF JobRecords
  <2>1. ASSUME NEW b \in Bills, EditBill(b) PROVE RowsInv'
    <3>1. provider' \in [Bills -> Versions \cup {Gone}]
      BY <2>0, <2>1 DEF EditBill
    <3>. QED BY <2>0, <2>1, <3>1, QueueStepsKeepRows DEF EditBill, stored
  <2>2. ASSUME NEW b \in Bills, SetItcEligibility(b) PROVE RowsInv'
    BY <2>0, <2>2, QueueStepsKeepRows DEF SetItcEligibility
  <2>3. ASSUME NEW b \in Bills, RecordVerification(b) PROVE RowsInv'
    BY <2>3, VerificationKeepsRows
  <2>4. CASE Disconnect \/ Reconnect
    <3>1. \A j \in Jobs : [job[j] EXCEPT !.status = "FAILED"] \in JobRecords
      BY <2>0 DEF JobRecords
    <3>2. job' \in [Jobs -> JobRecords]
      BY <2>0, <2>4, <3>1 DEF Disconnect, Reconnect
    <3>. QED BY <2>0, <2>4, <3>2, QueueStepsKeepRows DEF Disconnect, Reconnect, stored
  <2>5. ASSUME NEW j \in Jobs, NEW p \in Periods, SyncRegisters(j, p) PROVE RowsInv'
    <3>1. job' = [job EXCEPT ![j] = [@ EXCEPT !.status = "QUEUED", !.period = p]]
      BY <2>0, <2>5 DEF SyncRegisters
    <3>2. [job[j] EXCEPT !.status = "QUEUED", !.period = p] \in JobRecords
      BY <2>0 DEF JobRecords
    <3>3. job' \in [Jobs -> JobRecords]
      BY <2>0, <3>1, <3>2
    <3>. QED BY <2>0, <2>5, <3>3, QueueStepsKeepRows DEF SyncRegisters, stored
  <2>6. ASSUME NEW j \in Jobs, RetrySyncJob(j) PROVE RowsInv'
    BY <2>0, <2>6, <2>c, QueueStepsKeepRows DEF RetrySyncJob, stored
  <2>7. ASSUME NEW w \in Workers, NEW j \in Jobs, ClaimSyncJob(w, j) PROVE RowsInv'
    <3>1. job' \in [Jobs -> JobRecords]
      BY <2>7, <2>c DEF ClaimSyncJob
    <3>2. job[j].page \in Nat /\ job[j].seen \subseteq Bills
      BY <2>0 DEF JobRecords
    <3>3. [step |-> "claimed", job |-> j, page |-> job[j].page, seen |-> job[j].seen]
            \in WorkerStates
      BY <3>2 DEF WorkerStates, ClaimedJob
    <3>4. worker' \in [Workers -> WorkerStates]
      BY <2>7, <2>a, <3>3 DEF ClaimSyncJob
    <3>. QED BY <2>0, <2>7, <3>1, <3>4, QueueStepsKeepRows DEF ClaimSyncJob, stored
  <2>8. ASSUME NEW w \in Workers, FetchPage(w) PROVE RowsInv'
    <3>. DEFINE p == job[worker[w].job].period
                n == worker[w].page
                items == {<<b, <<provider[b], "listed">>>> : b \in Page(p, n)}
    <3>1. items \subseteq Bills \X Snapshots /\ HasMore(p, n) \in BOOLEAN
      BY ListedItems DEF RowsInv, HasMore
    <3>2. worker' = [worker EXCEPT ![w] =
            [step |-> "listed", job |-> worker[w].job, page |-> n, seen |-> worker[w].seen,
             more |-> HasMore(p, n), items |-> items]]
      BY <2>0, <2>8 DEF FetchPage
    <3>. HIDE DEF items, p
    <3>3. worker[w].job \in Jobs /\ n \in Nat /\ worker[w].seen \subseteq Bills
      BY <2>0, <2>8 DEF FetchPage, WorkerStates, ClaimedJob, ReadPage, Idle
    <3>4. [step |-> "listed", job |-> worker[w].job, page |-> n, seen |-> worker[w].seen,
           more |-> HasMore(p, n), items |-> items] \in WorkerStates
      BY <3>1, <3>3 DEF WorkerStates, ReadPage
    <3>5. worker' \in [Workers -> WorkerStates]
      BY <2>a, <3>2, <3>4
    <3>. QED BY <2>0, <2>8, <3>5, QueueStepsKeepRows DEF FetchPage, stored
  <2>9. ASSUME NEW w \in Workers, GetObjects(w) PROVE RowsInv'
    <3>1. PICK detailed \in SUBSET {i \in worker[w].items : provider[i[1]] # Gone} :
            worker' = [worker EXCEPT ![w].step = "read", ![w].items = (@ \ detailed)
              \cup {<<i[1], <<provider[i[1]], "detailed">>>> : i \in detailed}]
      BY <2>9 DEF GetObjects
    <3>. DEFINE items == (worker[w].items \ detailed)
              \cup {<<i[1], <<provider[i[1]], "detailed">>>> : i \in detailed}
    <3>2. worker[w] \in ReadPage
      BY <2>0, <2>9 DEF GetObjects, WorkerStates, ClaimedJob, Idle
    <3>3. items \subseteq Bills \X Snapshots
      BY <3>1, <3>2, DetailedItems DEF RowsInv, ReadPage
    <3>4. worker' = [worker EXCEPT ![w] = [@ EXCEPT !.step = "read", !.items = items]]
      BY <2>0, <3>1
    <3>. HIDE DEF items
    <3>5. [worker[w] EXCEPT !.step = "read", !.items = items] \in WorkerStates
      BY <3>2, <3>3 DEF ReadPage, WorkerStates
    <3>6. worker' \in [Workers -> WorkerStates]
      BY <2>a, <3>4, <3>5
    <3>. QED BY <2>0, <2>9, <3>6, QueueStepsKeepRows DEF GetObjects, stored
  <2>10. ASSUME NEW w \in Workers, SyncFails(w) PROVE RowsInv'
    <3>1. worker[w].job \in Jobs
      BY <2>0, <2>10 DEF SyncFails, WorkerStates, ClaimedJob, ReadPage, Idle
    <3>. QED BY <2>0, <2>10, <2>a, <2>b, <2>c, <3>1, QueueStepsKeepRows DEF SyncFails, stored
  <2>11. ASSUME NEW w \in Workers, WorkerDies(w) PROVE RowsInv'
    BY <2>0, <2>11, <2>a, <2>b, QueueStepsKeepRows DEF WorkerDies, stored
  <2>12. ASSUME NEW w \in Workers, Commit(w) PROVE RowsInv'
    BY <2>12, CommitKeepsRows
  <2>13. CASE UNCHANGED vars
    BY <2>0, <2>13, QueueStepsKeepRows DEF vars, stored
  <2>. QED BY <2>1, <2>2, <2>3, <2>4, <2>5, <2>6, <2>7, <2>8, <2>9, <2>10, <2>11, <2>12,
              <2>13 DEF Next
<1>. QED BY <1>1, <1>2, PTL DEF Spec

(* The types, through every operation of the queue, the worker and the     *)
(* provider.                                                               *)
THEOREM SyncTypeCorrect == Spec => []TypeOK
<1>1. RowsInv => TypeOK
  BY DEF RowsInv, SyncTypes, TypeOK, Objects, Rows, JobRecords
<1>. QED BY <1>1, RowsInvariant, PTL

(* However pages, edits, deletions and read-backs interleave, the register *)
(* counts a bill at most once, never one that has disappeared, and as its  *)
(* last sync saw it (sync_worker.py, provider_objects.py).                 *)
THEOREM RegisterFollowsSnapshots == Spec => []RowsFollowSnapshots
<1>1. RowsInv => RowsFollowSnapshots
  <2>. SUFFICES ASSUME RowsInv, NEW b \in Bills
                PROVE  /\ Cardinality(ActiveRows(b)) <= 1
                       /\ \A s \in ActiveRows(b) :
                            /\ ~ object[b].deleted
                            /\ object[b].snapshot = s \/ object[b].verified
    BY DEF RowsFollowSnapshots
  <2>1. BillFollows(b)
    BY DEF RowsInv
  <2>2. Cardinality(ActiveRows(b)) <= 1
    <3>1. CASE ActiveRows(b) = {}
      BY <3>1, FS_EmptySet
    <3>2. CASE ActiveRows(b) # {}
      <4>1. PICK s : s \in ActiveRows(b)
        BY <3>2
      <4>2. ActiveRows(b) = {s}
        BY <2>1, <4>1 DEF ActiveRows, BillFollows
      <4>. QED BY <4>2, FS_Singleton
    <3>. QED BY <3>1, <3>2
  <2>. QED BY <2>1, <2>2 DEF ActiveRows, BillFollows
<1>. QED BY <1>1, RowsInvariant, PTL

-----------------------------------------------------------------------------
(* One worker runs a RUNNING job and holds the page its cursor is at; until *)
(* the job is done, its cursor is the page after those it committed.       *)
HoldsCursor(w) ==
  worker[w] # Idle =>
    /\ job[worker[w].job].status = "RUNNING"
    /\ worker[w].page = job[worker[w].job].page
    /\ \A v \in Workers : worker[v] # Idle /\ worker[v].job = worker[w].job => v = w
CursorFollows(j) ==
  /\ committed[j] \in Seq(Nat)
  /\ \A n \in 1..Len(committed[j]) : committed[j][n] = n
  /\ job[j].status # "SUCCEEDED" => job[j].page = Len(committed[j]) + 1
PageInv ==
  /\ \A w \in Workers : HoldsCursor(w)
  /\ DOMAIN committed = Jobs
  /\ \A j \in Jobs : CursorFollows(j)

(* The step that puts a worker to rest and sets the status of its job.     *)
LEMMA LettingGo ==
  ASSUME RowsInv, PageInv, NEW w \in Workers, worker' = [worker EXCEPT ![w] = Idle],
         committed' = committed,
         \A j \in Jobs : /\ job'[j].page = job[j].page
                         /\ job'[j].status # job[j].status =>
                              /\ worker[w] # Idle /\ worker[w].job = j
                              /\ job[j].status # "SUCCEEDED"
  PROVE  PageInv'
<1>1. worker \in [Workers -> WorkerStates]
  BY DEF RowsInv, SyncTypes
<1>2. \A v \in Workers : worker'[v] # Idle => v # w /\ worker'[v] = worker[v] /\ worker[v] # Idle
  BY <1>1
<1>3. \A v \in Workers : worker[v] # Idle => worker[v].job \in Jobs
  BY <1>1 DEF WorkerStates, ClaimedJob, ReadPage
<1>4. \A v \in Workers : HoldsCursor(v)'
  BY <1>2, <1>3 DEF PageInv, HoldsCursor
<1>5. \A j \in Jobs : CursorFollows(j)'
  BY DEF PageInv, CursorFollows
<1>. QED BY <1>4, <1>5 DEF PageInv

(* A worker that reads goes on holding its job and its page.               *)
LEMMA Reading ==
  ASSUME RowsInv, PageInv, NEW w \in Workers, worker[w] # Idle,
         \E k \in WorkerStates : /\ worker' = [worker EXCEPT ![w] = k]
                                 /\ k.job = worker[w].job /\ k.page = worker[w].page,
         UNCHANGED <<job, committed>>
  PROVE  PageInv'
<1>1. worker \in [Workers -> WorkerStates]
  BY DEF RowsInv, SyncTypes
<1>2. /\ worker'[w].job = worker[w].job /\ worker'[w].page = worker[w].page
      /\ \A v \in Workers : v # w => worker'[v] = worker[v]
  BY <1>1
<1>3. \A v \in Workers : HoldsCursor(v)'
  BY <1>2 DEF PageInv, HoldsCursor
<1>. QED BY <1>3 DEF PageInv, CursorFollows

(* The commit appends the page the cursor was at and moves the cursor.     *)
LEMMA CommitInOrder ==
  ASSUME RowsInv, PageInv, NEW w \in Workers, Commit(w)
  PROVE  PageInv'
<1>. DEFINE j == worker[w].job
            n == worker[w].page
            more == worker[w].more
<1>1. worker[w] \in ReadPage /\ j \in Jobs /\ worker[w] # Idle
  BY DEF RowsInv, SyncTypes, Commit, WorkerStates, ClaimedJob, ReadPage, Idle
<1>2. /\ worker' = [worker EXCEPT ![w] = Idle]
      /\ committed' = [committed EXCEPT ![j] = Append(@, n)]
      /\ \E q, seen : job' = [job EXCEPT ![j] =
              [status |-> IF more THEN "QUEUED" ELSE "SUCCEEDED", period |-> q,
               page |-> IF more THEN n + 1 ELSE 1, seen |-> seen]]
  BY DEF Commit
<1>3. /\ worker \in [Workers -> WorkerStates] /\ job \in [Jobs -> JobRecords]
  BY DEF RowsInv, SyncTypes
<1>4. \A v \in Workers : worker'[v] # Idle =>
        /\ worker'[v] = worker[v] /\ worker[v] # Idle
        /\ worker[v].job \in Jobs /\ worker[v].job # j
  BY <1>1, <1>2, <1>3 DEF PageInv, HoldsCursor, WorkerStates, ClaimedJob, ReadPage
<1>5. /\ \A i \in Jobs : i # j => job'[i] = job[i] /\ committed'[i] = committed[i]
      /\ job'[j].status = IF more THEN "QUEUED" ELSE "SUCCEEDED"
      /\ more => job'[j].page = n + 1
      /\ committed'[j] = Append(committed[j], n)
  BY <1>1, <1>2, <1>3 DEF PageInv
<1>6. \A v \in Workers : HoldsCursor(v)'
  BY <1>4, <1>5 DEF PageInv, HoldsCursor
<1>7. ASSUME NEW i \in Jobs, i = j PROVE CursorFollows(i)'
  <2>1. committed[j] \in Seq(Nat) /\ n = Len(committed[j]) + 1 /\ n \in Nat
    BY <1>1 DEF PageInv, HoldsCursor, CursorFollows, ReadPage
  <2>2. /\ committed'[j] \in Seq(Nat) /\ Len(committed'[j]) = n
        /\ \A m \in 1..n : committed'[j][m] = IF m = n THEN n ELSE committed[j][m]
    BY <1>5, <2>1
  <2>3. \A m \in 1..n : committed'[j][m] = m
    <3>1. \A m \in 1..Len(committed[j]) : committed[j][m] = m
      BY <1>1 DEF PageInv, CursorFollows
    <3>2. \A m \in 1..n : m # n => m \in 1..Len(committed[j])
      BY <2>1
    <3>. QED BY <2>2, <3>1, <3>2
  <2>. QED BY <1>5, <1>7, <2>2, <2>3 DEF CursorFollows
<1>8. \A i \in Jobs : CursorFollows(i)'
  BY <1>5, <1>7 DEF PageInv, CursorFollows
<1>. QED BY <1>2, <1>6, <1>8 DEF PageInv

(* Through failures, deaths of the worker, disconnections and retries by   *)
(* hand, a job commits its pages in order, each once (sync_worker.py, the  *)
(* claim of connector_sync_jobs and its cursor).                           *)
THEOREM PagesCommitInOrder == Spec => []PagesInOrder
<1>1. Init => PageInv
  BY DEF Init, PageInv, HoldsCursor, CursorFollows
<1>2. RowsInv /\ PageInv /\ [Next]_vars => PageInv'
  <2>. SUFFICES ASSUME RowsInv, PageInv, [Next]_vars PROVE PageInv'
    OBVIOUS
  <2>0. worker \in [Workers -> WorkerStates] /\ job \in [Jobs -> JobRecords]
    BY DEF RowsInv, SyncTypes
  <2>1. ASSUME UNCHANGED <<job, worker, committed>> PROVE PageInv'
    BY <2>1 DEF PageInv, HoldsCursor, CursorFollows
  <2>2. ASSUME NEW b \in Bills,
               EditBill(b) \/ SetItcEligibility(b) \/ RecordVerification(b)
        PROVE  PageInv'
    BY <2>1, <2>2 DEF EditBill, SetItcEligibility, RecordVerification
  <2>3. CASE Reconnect \/ UNCHANGED vars
    BY <2>1, <2>3 DEF Reconnect, vars
  <2>4. ASSUME UNCHANGED <<worker, committed>>,
               \A j \in Jobs : /\ job'[j].page = job[j].page
                               /\ job'[j].status # job[j].status =>
                                    job[j].status \notin {"RUNNING", "SUCCEEDED"}
        PROVE  PageInv'
    <3>1. \A v \in Workers : worker[v] # Idle => worker[v].job \in Jobs
      BY <2>0 DEF WorkerStates, ClaimedJob, ReadPage
    <3>2. \A v \in Workers : HoldsCursor(v)'
      BY <2>4, <3>1 DEF PageInv, HoldsCursor
    <3>3. \A j \in Jobs : CursorFollows(j)'
      BY <2>4 DEF PageInv, CursorFollows
    <3>. QED BY <2>4, <3>2, <3>3 DEF PageInv
  <2>5. CASE Disconnect
    BY <2>0, <2>4, <2>5 DEF Disconnect, JobRecords
  <2>6. ASSUME NEW j \in Jobs, RetrySyncJob(j) \/ \E p \in Periods : SyncRegisters(j, p)
        PROVE  PageInv'
    BY <2>0, <2>4, <2>6 DEF RetrySyncJob, SyncRegisters, JobRecords
  <2>7. ASSUME NEW w \in Workers, NEW j \in Jobs, ClaimSyncJob(w, j) PROVE PageInv'
    <3>. DEFINE k == [step |-> "claimed", job |-> j, page |-> job[j].page, seen |-> job[j].seen]
    <3>1. worker[w] = Idle /\ worker' = [worker EXCEPT ![w] = k] /\ committed' = committed
      BY <2>7 DEF ClaimSyncJob
    <3>2. job[j].status = "QUEUED" /\ job' = [job EXCEPT ![j].status = "RUNNING"]
      BY <2>7 DEF ClaimSyncJob, Claimable
    <3>3. \A i \in Jobs : /\ job'[i].page = job[i].page
                          /\ job'[i].status = IF i = j THEN "RUNNING" ELSE job[i].status
      BY <2>0, <3>2 DEF JobRecords
    <3>4. \A v \in Workers : worker[v] # Idle => worker[v].job \in Jobs \ {j}
      BY <2>0, <3>2 DEF WorkerStates, ClaimedJob, ReadPage, PageInv, HoldsCursor
    <3>5. \A v \in Workers : worker'[v] = IF v = w THEN k ELSE worker[v]
      BY <2>0, <3>1
    <3>6. k.job = j /\ k.page = job[j].page
      OBVIOUS
    <3>. HIDE DEF k
    <3>7. \A v \in Workers : HoldsCursor(v)'
      BY <3>1, <3>3, <3>4, <3>5, <3>6 DEF PageInv, HoldsCursor
    <3>8. \A i \in Jobs : CursorFollows(i)'
      BY <3>1, <3>2, <3>3 DEF PageInv, CursorFollows
    <3>. QED BY <3>1, <3>7, <3>8 DEF PageInv
  <2>8. ASSUME NEW w \in Workers, FetchPage(w) PROVE PageInv'
    <3>. DEFINE p == job[worker[w].job].period
                n == worker[w].page
                items == {<<b, <<provider[b], "listed">>>> : b \in Page(p, n)}
                k == [step |-> "listed", job |-> worker[w].job, page |-> n,
                      seen |-> worker[w].seen, more |-> HasMore(p, n), items |-> items]
    <3>1. items \subseteq Bills \X Snapshots /\ HasMore(p, n) \in BOOLEAN
      BY ListedItems DEF RowsInv, HasMore
    <3>2. worker' = [worker EXCEPT ![w] = k] /\ worker[w] # Idle
      BY <2>0, <2>8 DEF FetchPage, Idle
    <3>3. worker[w].job \in Jobs /\ n \in Nat /\ worker[w].seen \subseteq Bills
      BY <2>0, <3>2 DEF WorkerStates, ClaimedJob, ReadPage
    <3>4. k \in WorkerStates /\ k.job = worker[w].job /\ k.page = worker[w].page
      <4>. HIDE DEF items, p
      <4>. QED BY <3>1, <3>3 DEF WorkerStates, ReadPage
    <3>. HIDE DEF k
    <3>5. UNCHANGED <<job, committed>>
      BY <2>8 DEF FetchPage
    <3>. QED BY <3>2, <3>4, <3>5, Reading
  <2>9. ASSUME NEW w \in Workers, GetObjects(w) PROVE PageInv'
    <3>1. PICK detailed \in SUBSET {i \in worker[w].items : provider[i[1]] # Gone} :
            worker' = [worker EXCEPT ![w].step = "read", ![w].items = (@ \ detailed)
              \cup {<<i[1], <<provider[i[1]], "detailed">>>> : i \in detailed}]
      BY <2>9 DEF GetObjects
    <3>. DEFINE items == (worker[w].items \ detailed)
              \cup {<<i[1], <<provider[i[1]], "detailed">>>> : i \in detailed}
                k == [worker[w] EXCEPT !.step = "read", !.items = items]
    <3>2. worker[w] \in ReadPage
      BY <2>0, <2>9 DEF GetObjects, WorkerStates, ClaimedJob, Idle
    <3>3. items \subseteq Bills \X Snapshots
      BY <3>1, <3>2, DetailedItems DEF RowsInv, ReadPage
    <3>4. worker' = [worker EXCEPT ![w] = k]
      BY <2>0, <3>1
    <3>5. k \in WorkerStates /\ k.job = worker[w].job /\ k.page = worker[w].page
      <4>. HIDE DEF items
      <4>. QED BY <3>2, <3>3 DEF ReadPage, WorkerStates
    <3>. HIDE DEF k
    <3>6. worker[w] # Idle
      BY <2>9 DEF GetObjects, Idle
    <3>. QED BY <2>9, <3>4, <3>5, <3>6, Reading DEF GetObjects
  <2>10. ASSUME NEW w \in Workers, SyncFails(w) PROVE PageInv'
    <3>1. worker[w] # Idle /\ worker[w].job \in Jobs
      BY <2>0, <2>10 DEF SyncFails, WorkerStates, ClaimedJob, ReadPage, Idle
    <3>2. job[worker[w].job].status = "RUNNING"
      BY <3>1 DEF PageInv, HoldsCursor
    <3>3. \A j \in Jobs : /\ job'[j].page = job[j].page
                          /\ j # worker[w].job => job'[j] = job[j]
      BY <2>0, <2>10 DEF SyncFails, JobRecords
    <3>. QED BY <2>10, <3>1, <3>2, <3>3, LettingGo DEF SyncFails
  <2>11. ASSUME NEW w \in Workers, WorkerDies(w) PROVE PageInv'
    BY <2>11, LettingGo DEF WorkerDies
  <2>12. ASSUME NEW w \in Workers, Commit(w) PROVE PageInv'
    BY <2>12, CommitInOrder
  <2>. QED BY <2>2, <2>3, <2>5, <2>6, <2>7, <2>8, <2>9, <2>10, <2>11, <2>12 DEF Next
<1>3. PageInv => PagesInOrder
  BY DEF PageInv, CursorFollows, PagesInOrder
<1>. QED BY <1>1, <1>2, <1>3, RowsInvariant, PTL DEF Spec
=============================================================================

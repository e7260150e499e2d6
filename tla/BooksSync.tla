------------------------------ MODULE BooksSync ------------------------------
(***************************************************************************)
(* The jobs that copy an accounting provider's bills into provider_objects,*)
(* purchase_register and gst_tax_components, a page at a time.  A worker   *)
(* claims a job, reads a page and its details from the provider, and       *)
(* commits them in one transaction with the job's cursor.  Invoices go the *)
(* same way into sales_register, and masters stop at provider_objects.     *)
(* Commits of one bill are ordered by the lock of its provider_objects row.*)
(***************************************************************************)
EXTENDS FiniteSets, Naturals, Sequences

CONSTANTS
  Bills,       \* numbers, in the order in which the provider lists them
  Versions,    \* what a bill may say
  Periods,
  PeriodOf,    \* [Versions -> Periods], by the bill's date
  VoidVersions,
  Posted,      \* the bills that an approved action created
  Jobs, Workers,
  MaxEdits,    \* bound of the model: changes at the provider
  MaxToggles,  \* bound of the model: disconnections and reconnections
  Gone, NoPeriod

ASSUME SyncAssumption ==
  /\ Bills \subseteq Nat
  /\ PeriodOf \in [Versions -> Periods]
  /\ VoidVersions \subseteq Versions
  /\ Posted \subseteq Bills
  /\ MaxEdits \in Nat /\ MaxToggles \in Nat
  /\ Gone \notin Versions /\ NoPeriod \notin Periods

(* The listing shows a bill without its lines: another snapshot hash.      *)
Snapshots == Versions \X {"listed", "detailed"}
Void(s) == s[1] \in VoidVersions

VARIABLES
  provider,  \* the provider's books
  available, \* connector_installations.status = 'AVAILABLE'
  object,    \* provider_objects
  row,       \* purchase_register, a row per bill and snapshot
  component, \* gst_tax_components
  job,       \* connector_sync_jobs
  window,    \* register_sync_windows
  worker,    \* what each worker has read
  committed, \* history: the pages that each job committed
  edits, toggles

stored == <<object, row, component, window>>
vars == <<provider, available, stored, job, worker, committed, edits, toggles>>

Idle == [step |-> "idle"]
NoRow == [period |-> NoPeriod, active |-> FALSE]
NoComponent == [period |-> NoPeriod, snapshot |-> <<>>, decided |-> FALSE]

Init ==
  /\ provider \in [Bills -> Versions \ VoidVersions]
  /\ available = TRUE
  /\ object = [b \in Bills |-> [snapshot |-> <<>>, active |-> FALSE, deleted |-> FALSE, verified |-> FALSE]]
  /\ row = [b \in Bills |-> [s \in Snapshots |-> NoRow]]
  /\ component = [b \in Bills |-> NoComponent]
  /\ window = [p \in Periods |-> "NONE"]
  /\ job = [j \in Jobs |-> [status |-> "NONE", period |-> NoPeriod, page |-> 1, seen |-> {}]]
  /\ worker = [w \in Workers |-> Idle]
  /\ committed = [j \in Jobs |-> <<>>]
  /\ edits = 0 /\ toggles = 0
-----------------------------------------------------------------------------
(* A person edits, voids, moves, deletes or restores a bill in the books.  *)
EditBill(b) ==
  /\ edits < MaxEdits
  /\ \E v \in (Versions \cup {Gone}) \ {provider[b]} : provider' = [provider EXCEPT ![b] = v]
  /\ edits' = edits + 1
  /\ UNCHANGED <<available, stored, job, worker, committed, toggles>>

Disconnect ==
  /\ toggles < MaxToggles /\ available
  /\ available' = FALSE
  /\ job' = [j \in Jobs |-> IF job[j].status = "QUEUED" THEN [job[j] EXCEPT !.status = "FAILED"] ELSE job[j]]
  /\ toggles' = toggles + 1
  /\ UNCHANGED <<provider, stored, worker, committed, edits>>

Reconnect ==
  /\ toggles < MaxToggles /\ ~ available
  /\ available' = TRUE
  /\ toggles' = toggles + 1
  /\ UNCHANGED <<provider, stored, job, worker, committed, edits>>

SyncRegisters(j, p) ==
  /\ available
  /\ job[j].status = "NONE"
  /\ job' = [job EXCEPT ![j].status = "QUEUED", ![j].period = p]
  /\ UNCHANGED <<provider, available, stored, worker, committed, edits, toggles>>

(* A failed job resumes from its cursor with the bills it has seen.        *)
RetrySyncJob(j) ==
  /\ job[j].status = "FAILED"
  /\ job' = [job EXCEPT ![j].status = "QUEUED"]
  /\ UNCHANGED <<provider, available, stored, worker, committed, edits, toggles>>

(* FOR UPDATE SKIP LOCKED: one worker finds the job QUEUED.  No statement  *)
(* looks at the lease of a RUNNING job; ClaimExpired is the slip that takes *)
(* such a job over.                                                        *)
ClaimExpired(j) == job[j].status \in {"QUEUED", "RUNNING"}
Claimable(j) == job[j].status = "QUEUED"

ClaimSyncJob(w, j) ==
  /\ worker[w] = Idle
  /\ available /\ Claimable(j)
  /\ job' = [job EXCEPT ![j].status = "RUNNING"]
  /\ worker' = [worker EXCEPT ![w] =
       [step |-> "claimed", job |-> j, page |-> job[j].page, seen |-> job[j].seen]]
  /\ UNCHANGED <<provider, available, stored, committed, edits, toggles>>
-----------------------------------------------------------------------------
Listing(p) == {b \in Bills : provider[b] \in Versions /\ PeriodOf[provider[b]] = p}
Before(p, b) == {c \in Listing(p) : c <= b}
Page(p, n) == {b \in Listing(p) : Cardinality(Before(p, b)) = n}
HasMore(p, n) == n < Cardinality(Listing(p))

FetchPage(w) ==
  /\ worker[w].step = "claimed"
  /\ LET p == job[worker[w].job].period
         n == worker[w].page
     IN worker' = [worker EXCEPT ![w] =
          [step |-> "listed", job |-> @.job, page |-> n, seen |-> @.seen, more |-> HasMore(p, n),
           items |-> {<<b, <<provider[b], "listed">>>> : b \in Page(p, n)}]]
  /\ UNCHANGED <<provider, available, stored, job, committed, edits, toggles>>

(* A bill whose details cannot be read is taken as it was listed.          *)
GetObjects(w) ==
  /\ worker[w].step = "listed"
  /\ \E detailed \in SUBSET {i \in worker[w].items : provider[i[1]] # Gone} :
       worker' = [worker EXCEPT ![w].step = "read",
         ![w].items = (@ \ detailed) \cup {<<i[1], <<provider[i[1]], "detailed">>>> : i \in detailed}]
  /\ UNCHANGED <<provider, available, stored, job, committed, edits, toggles>>

SyncFails(w) ==
  /\ worker[w].step = "claimed"
  /\ job' = [job EXCEPT ![worker[w].job].status = "FAILED"]
  /\ worker' = [worker EXCEPT ![w] = Idle]
  /\ UNCHANGED <<provider, available, stored, committed, edits, toggles>>

(* An exception, such as a revoked credential, or a crash: the job keeps   *)
(* its status and stays RUNNING.                                           *)
WorkerDies(w) ==
  /\ worker[w] # Idle
  /\ worker' = [worker EXCEPT ![w] = Idle]
  /\ UNCHANGED <<provider, available, stored, job, committed, edits, toggles>>
-----------------------------------------------------------------------------
UpsertSnapshot(s, void) == [snapshot |-> s, active |-> ~ void, deleted |-> FALSE, verified |-> FALSE]

(* Other snapshots of the bill step down.  A row that exists already keeps *)
(* its period, whatever period the job is for.  A slip leaves them.         *)
LeftActive(r, s) == r
Superseded(r, s) == [r EXCEPT !.active = FALSE]
Project(rows, s, p, live) ==
  [t \in Snapshots |->
     IF t # s THEN Superseded(rows[t], s)
     ELSE [period |-> IF rows[s].period = NoPeriod THEN p ELSE rows[s].period, active |-> live]]
WithdrawRows(rows) == [t \in Snapshots |-> [rows[t] EXCEPT !.active = FALSE]]

(* An accountant's decision on the input credit outlives the snapshot.     *)
ProjectTax(c, s, p) == [c EXCEPT !.period = p, !.snapshot = s]

MarkDisappeared(o, b, seen) ==
  IF o.snapshot # <<>> /\ ~ o.deleted /\ b \notin seen
  THEN [o EXCEPT !.active = FALSE, !.deleted = TRUE]
  ELSE o

(* The window compares how many of the seen bills are active with how many *)
(* rows the period has; the sums that it also compares are left out.       *)
RecordWindow(p, seen) ==
  IF Cardinality({b \in seen : object'[b].active})
       = Cardinality({r \in Bills \X Snapshots : row'[r[1]][r[2]] = [period |-> p, active |-> TRUE]})
  THEN "COMPLETE" ELSE "MISMATCH"

Commit(w) ==
  /\ worker[w].step = "read"
  /\ LET got == worker[w]
         j == got.job
         p == job[j].period
         read == {i[1] : i \in got.items}
         of(b) == (CHOOSE i \in got.items : i[1] = b)[2]
         seen == got.seen \cup read
         synced(b) == IF b \in read THEN UpsertSnapshot(of(b), Void(of(b))) ELSE object[b]
         projected(b) == IF b \in read THEN Project(row[b], of(b), p, ~ Void(of(b))) ELSE row[b]
     IN /\ object' = [b \in Bills |->
             IF got.more THEN synced(b) ELSE MarkDisappeared(synced(b), b, seen)]
        /\ row' = [b \in Bills |->
             IF ~ got.more /\ object'[b].deleted THEN WithdrawRows(projected(b)) ELSE projected(b)]
        /\ component' = [b \in Bills |->
             IF b \in read THEN ProjectTax(component[b], of(b), p) ELSE component[b]]
        /\ job' = [job EXCEPT ![j] =
             [status |-> IF got.more THEN "QUEUED" ELSE "SUCCEEDED", period |-> p,
              page |-> IF got.more THEN got.page + 1 ELSE 1, seen |-> seen]]
        /\ window' = IF got.more THEN window ELSE [window EXCEPT ![p] = RecordWindow(p, seen)]
        /\ committed' = [committed EXCEPT ![j] = Append(@, got.page)]
  /\ worker' = [worker EXCEPT ![w] = Idle]
  /\ UNCHANGED <<provider, available, edits, toggles>>

(* The read-back of a bill that an approved action created, matched or not.*)
(* It is stored as not void.  An action for Zoho has no draft, so nothing  *)
(* is projected and the rows stay as they are.                             *)
RecordVerification(b) ==
  /\ b \in Posted /\ provider[b] # Gone
  /\ object' = [object EXCEPT ![b] =
       [UpsertSnapshot(<<provider[b], "detailed">>, FALSE) EXCEPT !.verified = TRUE]]
  /\ UNCHANGED <<provider, available, row, component, window, job, worker, committed, edits, toggles>>

SetItcEligibility(b) ==
  /\ component[b].period # NoPeriod
  /\ component' = [component EXCEPT ![b].decided = TRUE]
  /\ UNCHANGED <<provider, available, object, row, window, job, worker, committed, edits, toggles>>
-----------------------------------------------------------------------------
Next ==
  \/ \E b \in Bills : EditBill(b) \/ SetItcEligibility(b) \/ RecordVerification(b)
  \/ Disconnect \/ Reconnect
  \/ \E j \in Jobs, p \in Periods : SyncRegisters(j, p)
  \/ \E j \in Jobs : RetrySyncJob(j)
  \/ \E w \in Workers, j \in Jobs : ClaimSyncJob(w, j)
  \/ \E w \in Workers :
       FetchPage(w) \/ GetObjects(w) \/ SyncFails(w) \/ WorkerDies(w) \/ Commit(w)

Spec == Init /\ [][Next]_vars
-----------------------------------------------------------------------------
TypeOK ==
  /\ provider \in [Bills -> Versions \cup {Gone}]
  /\ \A b \in Bills : object[b].snapshot \in Snapshots \cup {<<>>}
  /\ \A b \in Bills, s \in Snapshots :
       row[b][s] \in [period : Periods \cup {NoPeriod}, active : BOOLEAN]
  /\ \A j \in Jobs : job[j].status \in {"NONE", "QUEUED", "RUNNING", "SUCCEEDED", "FAILED"}
  /\ window \in [Periods -> {"NONE", "COMPLETE", "MISMATCH"}]

ActiveRows(b) == {s \in Snapshots : row[b][s].active}

(* However commits, edits, deletions and verifications interleave, the     *)
(* register counts a bill at most once, never a bill that has disappeared, *)
(* and as the last sync of the bill saw it: a verification since then      *)
(* replaces the object's snapshot and leaves the row behind.               *)
RowsFollowSnapshots ==
  \A b \in Bills :
    /\ Cardinality(ActiveRows(b)) <= 1
    /\ \A s \in ActiveRows(b) :
         /\ ~ object[b].deleted
         /\ object[b].snapshot = s \/ object[b].verified

(* Through failures, crashes, disconnections and retries by hand, a job    *)
(* commits its pages in order, each once.                                  *)
PagesInOrder ==
  \A j \in Jobs : \A n \in DOMAIN committed[j] : committed[j][n] = n
=============================================================================

# FirmOS: a verification development in TLA+

FirmOS is a practice platform for Indian accounting firms: documents are read,
reviewed, approved by a person and then posted to a provider's books (Zoho Books
over HTTP, TallyPrime through a desktop agent), with registers, reconciliations,
tax computations and workpapers beside them. This directory models the part of
it that decides what is posted, when, and what the firm is told about it.

Paths below are relative to the repository; `be/` stands for
`firmos-backend/`.

## 1. Inventory

| component | state it keeps | operations | hard behaviours |
|---|---|---|---|
| finance-action engine `be/core/finance_actions/engine.py`, `supabase/migrations/20260714000005_trust_spine.sql` | `finance_actions`, `automation_jobs`, `action_approvals`, `action_timeline` | propose, approve, cancel; trigger over status changes | status and job are two rows written by five writers |
| automation worker `be/automation/worker.py` | `automation_jobs`, `automation_attempts`, `dead_letters`, `verification_results`; a claimed job in memory | claim, checks, execute, verify, finish, restart | commits statement by statement, crash between any two, two workers, retries |
| retry scheduler `be/automation/scheduler.py` | none of its own | tick | releases job and action by two statements |
| Zoho connector `be/connectors/zoho_books/` | none; Zoho's books are the environment | preflight lookup, create, recovery, read-back | lost answers, late effects, refusals, credentials revoked in the middle |
| provider-write controls `be/core/feature_flags.py` | `provider_write_controls`, environment | scoped block reason | may change between the check and the write |
| Tally cloud routes `be/api/routes/tally_agent_actions.py` | `finance_actions` with leases | claim, renew, report | expired leases, late and repeated reports |
| Tally desktop agent `apps/firmos-agent/src-tauri/src/` | SQLite claims, results, identities | poll, process, resume, report | crash between the create in Tally and the local record; lost HTTP answers; a second running program |
| device authentication `be/api/routes/tally_agent_auth.py`, `be/core/device_signing.py` | pairing codes, nonces, devices | pair, sign, revoke | replay, expiry races |
| Tally snapshot `be/api/routes/tally_agent_sync.py`, `be/connectors/tally/ingest.py` | snapshot runs, mirrored objects | begin, batch, complete | repeated, missing and reordered batches |
| connector sync `be/connectors/zoho_books/sync_worker.py`, `be/api/routes/connector_operations.py` | sync jobs, windows, provider objects | claim, page, window, project, fail, retry | rate limits, stale projections, an object that disappears |
| Zoho connection `be/api/routes/connector_zoho_oauth.py`, `be/connectors/zoho_books/credentials.py` | OAuth attempts, sealed tokens | start, callback, refresh, disconnect | refresh by two workers, revocation in the middle of a call |
| document review `be/api/routes/document_review.py`, `be/core/purchase_invoices/`, `be/core/sales_invoices/` | documents, drafts, revisions, register rows | upload, edit, prepare, approve, cancel, project | a version that moves under an approval, requests that overlap |
| GST returns `be/api/routes/gst_workpapers.py`, `gstr2b_runs.py`, `gst_rules.py` | import runs, match decisions, claims, workpapers | import, decide, prepare, approve, pack, file, acknowledge | registers that change under an approved paper, late packs |
| income tax returns `be/api/routes/itr_workspaces.py` | workspace, sources, reconciliation items, filing events | add a source, reconcile, draft, approve, pack, record | sources that arrive under an approval |
| bank reconciliation `be/api/routes/bank_reconciliation.py` | statements, candidates, decisions, proofs | upload, score, decide, propose a posting, prove | two decisions on one transaction |
| voucher contract `be/connectors/tally/canonical.py`, `be/connectors/zoho_books/mappers.py` | none: pure | draft, validate, import, read back, compare | what validation and comparison each do not see |
| engines `be/engines/`, `be/core/gst_workpapers/calculation.py`, `be/core/itr_drafting.py`, invoice validation | none: pure | GST and set-off, income tax, interest, TDS, 2B and bank matching | rounding, limits, ties, order |
| idempotency and request transactions `be/api/deps.py`, `be/core/idempotency.py` | idempotency keys | one transaction for each API request | repeated requests |
| workflows, administration, extraction, chat, messaging, GST filing client, web application | single rows, none, or plumbing | requests to other services, presentation | not modelled, see section 7 |

`PROJECT.json` lists every component with its sources and what is modelled of
it.

How they interact. Every API request runs in one PostgreSQL transaction
(`be/api/deps.py:77-93`). An approval writes an action and a job; the worker
process polls the jobs, the scheduler loop beside it (`be/automation/service.py`)
releases scheduled retries; the worker calls the connector, which calls Zoho.
Tally actions are instead claimed over HTTP by a paired device. All writers meet
in the rows of `finance_actions`, where the database trigger
`finance_action_transition` refuses transitions that are not listed.

What makes the parts correct:

- posting: one document per reference, only after an approval, never after a
  cancellation or a hand-over, success only for a document that was read back;
- queue: exclusive claims, action and job in step, attempts numbered and closed,
  a dead letter exactly after the last attempt, every queued action settles;
- Tally: the agent never creates a voucher twice, an accepted report is about
  the device's own lease, every queued action settles;
- sync: pages are committed once and in order, and a register counts a bill once at
  most, and none that is gone;
- connection: a client's credential is the grant last chosen for it, a token is
  refreshed once, a consent is used once;
- Tally's books: one computer serves a company, a snapshot speaks only for the
  days it read;
- review: what is approved is the version that was prepared, after the last edit;
- returns: what is filed was approved after the last change of what it rests on;
- engines: laws of the numbers that hold at every limit and in every order.

The hazards, each at its line, are in `PROJECT.json` under `hazards`.

## 2. Plan

1. **done** `ActionStatus`, `FinanceActionQueue`, `PostingContract`: the queue
   from proposal to verified document, its refinement of the contract, proofs.
2. **done** `ActionEngine`, shared by both providers; `TallyCloud`, the routes
   and leases; `TallyAgent`, which composes the desktop agent and Tally with
   them: local records, restarts, lost answers; its refinement of `TallyCloud`
   and of `PostingContract`; proofs of both.
3. **done** `DocumentReview`: drafts and versions, proposal under an idempotency
   key, approval of a version, edits beside overlapping requests.
4. **done** `BooksSync`: sync jobs, pages, windows, projection, disconnection.
   `ZohoConnection`: consents, refresh under the locks, revocation.
5. **done** `TallyBooks`: pairing, admission, heartbeat and snapshots of the desktop
   agent and the older bridge.
6. **done** `GstEngine` on `CreditLedger`, `DirectTaxEngine`, `Matching`,
   `InvoiceValidation` and `VoucherContract`, as operators that `Calculations`
   calls as the routes do; proof of the set-off.
7. **done** `GstReturn`, `ItrWorkspace`, `BankReconciliation`: the papers that rest
   on the registers; `MCWorkspaces` runs the last two.
8. **done** proofs of `DocumentReview`, `ZohoConnection` and `GstReturn`.
9. **done** proofs of `BooksSync`, `TallyBooks`, `BankReconciliation`, `ItrWorkspace`
   and of all laws of `Calculations`. What is left to TLC alone is in section 6.

Recursive operators are not used. Sums are folds of the community modules; loops
that carry more than a sum, which the proofs follow turn by turn, are recursive
functions of the number of turns.

## 3. Modules

| module | models |
|---|---|
| `ActionStatus` | statuses of an action and the transition relation of the trigger |
| `ActionEngine` | propose, approve and cancel, on which both providers build |
| `FinanceActionQueue` | engine, worker, scheduler, Zoho connector, Zoho |
| `TallyCloud` | engine, the Tally routes, the installation's device and permission to write |
| `TallyAgent` | the desktop agent, its local database and Tally, composed with `TallyCloud` |
| `PostingContract` | abstract: what is promised about a document |
| `DocumentReview` | an invoice from upload to register, with overlapping requests |
| `BooksSync` | Zoho's bills, the sync worker's jobs, provider objects, registers and tax components |
| `ZohoConnection` | consents, credentials, token refresh, disconnection |
| `TallyBooks` | devices and their installation, snapshots of Tally's vouchers, registers |
| `GstReturn` | GSTR-2B imports, decisions and claims; GST workpapers from preparation to acknowledgement |
| `ItrWorkspace` | one income tax return from its sources to its filing |
| `BankReconciliation` | statements, candidates, decisions under row locks, proofs |
| `CreditLedger`, `GstEngine` | GST amounts, set-off of credits, GSTR-3B tables, workpaper rows |
| `DirectTaxEngine` | both income tax engines, interest under 234B and 234C, TDS |
| `Matching` | `reconcile`, `match_gstr2b`, bank candidates |
| `InvoiceValidation` | findings of an invoice; readers of bank statements and GSTR-2B files |
| `VoucherContract` | payloads for Tally and Zoho, the document in the books, read-back and comparison |
| `Subsequences` | what a loop keeps of a list |
| `Calculations` | the routes that call the engines, one action each |
| `MC...` | constants, small inputs and symmetry for TLC |
| `FinanceActionQueue_proofs`, `TallyAgent_proofs` (with the routes of `TallyCloud`), `DocumentReview_proofs`, `BooksSync_proofs`, `ZohoConnection_proofs`, `TallyBooks_proofs`, `GstReturn_proofs`, `Figures_proofs` (the engines, the bank, the return) | theorems |

The definitions named as faulty variants, each before the definition it varies,
belong to no specification: each one is a plausible bug that some property of
the runs rejects when it takes the place of the definition.

### FinanceActionQueue

State and code. `status`, `approved` are columns of `finance_actions`; `job`,
`attempts` are `automation_jobs.status` and `.attempt_count`; `finished` holds
the attempt numbers with `finished_at`; `dead` the rows of `dead_letters`;
`verdicts` those of `verification_results`. `ready` stands for everything
`_write_precondition` asks of the installation, `writes` for
`scoped_write_block_reason`. `pc`, `claim`, `result` are a worker process's
position in `run_finance_action` and what it holds there. `bills` and `inflight`
are the provider's.

Grain. An API request is a step. A worker has no surrounding transaction, so
each statement or `async with conn.transaction()` block that it commits is a
step, and so is each request to Zoho:

| action | code |
|---|---|
| `Propose`, `Approve`, `Cancel` | `engine.py` `propose_action`, `approve_action`, `cancel_action` |
| `Tick` | `scheduler.py` `tick` |
| `Claim` | `worker.py` `claim` |
| `CheckPrecondition`, `CheckWriteBlock` | `_write_precondition`, `scoped_write_block_reason` |
| `BeginExecuting`, `RecordAcceptance`, `BeginVerifying`, `RecordMismatch`, `Complete` | the updates of `run_finance_action` |
| `ConnectorMissing`, `Preflight`, `CreateAnswered`, `CreateRefused`, `CreateLost`, `Recover`, `ReadBack` | `registry.create`, `execute_write`, `_recover_ambiguous`, `verify_write` |
| `ConnectorRaises` | the handler `except Exception` |
| `Finish` | `_finish` with `_complete_attempt` |
| `Crash`, `StatementFails`, `Restart` | a killed process, a statement without a connection, the platform's restart |
| `LateEffect`, `ToggleReady`, `ToggleWrites` | the environment |

What is abstracted. Time: `available_at` may pass at any moment, since nothing
else depends on how long a retry waits; jobs are taken in any order instead of
by `created_at`. A job that is queued has a NULL lease, so the claim's lease test
is always true and leases are left out. A payload is its reference; a comparison
of a document with a payload has either outcome. The actions here are the ones
the agent tool proposes, which have no accounting draft: the updates of drafts
and registers select no row, and the two `actions.py` of purchase and sales
invoices cannot queue a Zoho action because their import of `_zoho_plugin`
(`be/core/purchase_invoices/actions.py:40`, `be/core/sales_invoices/actions.py:14`)
names nothing the package defines. A statement that fails has not taken effect:
a lost acknowledgement of a commit is not modelled. Row locks, and the
deadlocks that PostgreSQL resolves by aborting a statement, are not modelled.
The outbox and the heartbeat rows are written and never read.

### TallyCloud and TallyAgent

State and code. `lease`, `tries` are `finance_actions.lease_device_id` and
`.attempt_number`; `lapsed` says that `lease_expires_at` is past. `device` is
the installation's ACTIVE device, `permitted` stands for everything
`_precondition` asks. `config`, `claimed`, `unsent` are the agent's tables
`configuration`, `claimed_actions` and `unsent_results`; `pc`, `using`, `held`,
`result` are where a running `poll_now` is, the configuration it loaded, the
action and the result it has in hand; `vouchers` counts Tally's vouchers with an
action's REMOTEID.

| action | code |
|---|---|
| `Decide` | `engine.py`, as in the queue |
| `PairDevice`, `DisconnectDevice`, `TogglePermission` | `tally_agent_auth.py` `pair_device`, `disconnect_device`; whatever `_precondition` reads |
| `ClaimAction`, `ClaimNothing`, `ClaimRefused` | `tally_agent_actions.py` `claim_action` with its sweep of lapsed leases and retries |
| `RenewLease`, `ReportResult`, `LeaseRefused` | `renew_lease`, `report_result`, their 409 |
| `Pair`, `Disconnect` | `lib.rs` `pair_agent`, `disconnect`: the cloud's part and the local one |
| `Poll`, `Claim`, `SaveClaim` | `poll_now` |
| `Renew`, `Resume`, `Record`, `Report`, `Complete` | `process_pending` |
| `LookUp`, `Import`, `ReadBack` | `tally_write.rs` `create_voucher`, `action_result` |
| `Interrupt`, `LoseAnswer` | an error at an await, a restart, an answer that does not arrive |

`TallyCloud` by itself lets the device call the routes in any order and report
anything: what holds there does not depend on the agent. `TallyAgent` uses the
same actions from the agent's control flow, and refines it (`AgentUsesRoutes`).

What is abstracted. A request is carried out while its sender waits for it, or
not at all: a request that overtakes a later one is not modelled. Tally serves
one request at a time. One installation is modelled, whose devices are numbered
as they are paired, with one company (several are in `TallyBooks`). `created_at` is `Order`; in `claimed_actions` it counts
seconds, so the agent takes any recorded claim. A company or ledger that the
snapshot lacks belongs to the action (`Misfits`); all other reasons to refuse
are `permitted`. A comparison of a voucher with the payload has either outcome.
Nobody deletes or alters vouchers in Tally by hand (in `TallyBooks` they do), and
the register lists a voucher with the REMOTEID it was imported with. The window
never calls the command `poll_now`; the one loop of `background` does. Snapshots, heartbeats,
codes and nonces are in `TallyBooks`.

### PostingContract

Three facts about each action (what people decided, what the system announced,
how many documents the books have) and the five steps that may change them.
`KeepsContract` of `FinanceActionQueue` and of `TallyAgent` maps the rows onto
it: an action is decided by `approved` and `CANCELLED`, announced by its settled
status, and posted by what the provider's books have.

### DocumentReview

State and code. `document` is a row of `documents` with its fields, the invoice
identity it was read with and whether it looks like a duplicate; `draft` is the
row of `accounting_drafts` for a document and a provider; `revision` holds the
rows of `accounting_draft_revisions`; `action` the finance actions, named by
their payload, because the idempotency key is made of it; `register` the active
rows of the two registers. `request` is what a request has read and still has to
act on. `retired` is history, proposals whose document was edited afterwards, and so is
`overtaken`, drafts that were relinked while they were projected.

| action | code |
|---|---|
| `Upload`, `RejectUpload`, `StoreUpload` | `ingestion.py` `ingest_document`: lookup by content, refusal, insertion with the duplicate check |
| `ReadForEdit`, `UpdateField` | `document_review.py` `update_field` with the drafts and actions it retires |
| `SetStatus` | `reject`, `needs_info` |
| `ReadForProposal`, `ReadVersion`, `NeedsMapping`, `ProposeAction` | `actions.py` of purchase and sales, with `save_draft` and `propose_action` |
| `ReadForApproval`, `ApproveAction` | `agent_tools.py` `approve`: version check, then `approve_action` |
| `CancelAction`, `Execute` | cancellation, the outcome a connector reports |
| `ReadVerified`, `ProjectVerified` | `project_verified_purchase` and `_sale`: the linked draft is read without a lock and posted by its id later |

A request is a READ COMMITTED transaction: its reads and its writes are separate
steps and other requests commit in between. What a payload contains is in
`VoucherContract`; here it is its document, provider, fields and mapping. The
execution of an action is one step with three outcomes; the queue and the agent
have it in detail.

### BooksSync and ZohoConnection

`BooksSync`. `provider` is what Zoho has; `object`, `row`, `component`, `window`,
`job` are `provider_objects`, `purchase_register` (a row for each bill and
snapshot), `gst_tax_components`, `register_sync_windows` and
`connector_sync_jobs`; `object` also says whether a verification wrote it last. `worker` is what a sync worker has read; `committed` is
history.

| action | code |
|---|---|
| `SyncRegisters`, `RetrySyncJob` | `connector_operations.py`: a job for a month, a failed job queued again |
| `ClaimSyncJob` | `sync_worker.py` `claim_sync_job` |
| `FetchPage`, `GetObjects` | a page of the list, then the details of its bills |
| `Commit` | the transaction of a page: objects, registers, components, and after the last page disappearances and the window |
| `SyncFails`, `WorkerDies` | an error, which is recorded; a killed process, which is not |
| `RecordVerification`, `SetItcEligibility` | the read-back of a posted bill, which writes no row: a Zoho action has no draft to project; the reviewer's decision |
| `EditBill`, `Disconnect`, `Reconnect` | the provider's users; the connection |

Bills are listed one to a page. Invoices go the same way; master records stop at
`provider_objects` and are left out. Amounts are left out.

`ZohoConnection`. `attempt`, `credential`, `status` are
`oauth_connection_attempts`, `connector_credentials` and
`connector_installations.status`; `browser`, `caller`, `request` are callbacks,
users of a token and the requests that disconnect, several of which may overlap.
`live` and `granted` belong to Zoho; `crossed` is history.

| action | code |
|---|---|
| `StartZohoOauth`, `AttemptExpires`, `ReadAttempt`, `ExchangeCode`, `ExchangeFails`, `SaveAttempt`, `SelectZohoOrganization` | `connector_zoho_oauth.py` |
| `LoadClient`, `DrawToken`, `RefreshToken`, `RefreshFails`, `TokenExpires` | `credentials.py`, `auth.py`: a token is refreshed under the row's lock |
| `DisconnectConnector`, `RevokeGrant`, `RevokeCredentials`, `WriteDisconnection`, `CommitDisconnection`, `DisconnectFails` | `connector_disconnect.py`: for each installation revoke at the provider, revoke the credential, which locks its row unless it was revoked already, and set the status; all local writes in one transaction |

A locked row stops the steps that want it. The deadlock of a choice of a client
with a disconnection, which take two locks in opposite order, is left out: a
choice is one step.

### TallyBooks

State and code. `books` is Tally, with the vouchers of every company that is
open in it; `status`, `code`, `device` are the installation, `tally_pairing_codes` and `tally_devices`; `synced` the keys of
`tally_sync_logs`; `voucher`, `row`, `verified`, `window` are `tally_vouchers`,
the registers' rows from snapshots, those from verified actions, and
`register_sync_windows`. `request` holds the requests that were admitted and
still have to act.

| action | code |
|---|---|
| `CreatePairingCode`, `PairDevice`, `DisconnectDevice` | `tally_agent_auth.py` |
| `RequireDevice`, `Heartbeat` | `require_device`, then `heartbeat`, which makes device and installation usable again |
| `SendSnapshot`, `PushSnapshot` | the agent reads a range of days of its company and sends it; `push_snapshot` with `ingest.py`, one transaction |
| `SendBridge`, `PushTallyData` | `bridge_daemon.py` and `tally_routes.py` |
| `SendResult`, `ProjectVerified` | the result of an approved action with its read-back; the row that `report_result` makes of it |
| `EditBooks`, `RequestEnds` | Tally's users; a request that fails |

Ranges are those of `App.tsx:24-27`: from what UTC makes of the first of the month to
today, so they overlap. Ledgers follow the vouchers' pattern without periods. A
signature is its verdict, a nonce means that a request is admitted once. A pairing is
one step: two that overlap are taken one after the other.

### GstReturn, ItrWorkspace and BankReconciliation

`GstReturn` has, for each GSTR-2B file, its import run and what it found and
decided on each document (`runs`, `results`), the claims (`claims`, rows of the
claim history, with the number of runs there were), and for each workpaper its
status, its source hash, whether that hash was approved, and whether it is stale.
Registers are counted changes (`register`), so a source hash is a record of
counts. Actions: `CreateRun`, `Decide`, `BulkAccept` (`gstr2b_runs.py`);
`Prepare`, `Approve`, `ReadForPack` and `MakePack`, `FileExternally`,
`Acknowledge` (`gst_workpapers.py`); `ActivateRules` (`gst_rules.py`);
`ChangeRegister` and `RewriteRegister`, what syncs and ingestion do to the rows,
with the trigger that marks papers stale. A handler is one step, except the pack,
which reads without a lock.

`ItrWorkspace` has the workspace's row, its sources, reconciliation items and
schedule lines; a hash is the set of sources it was made of. Requests that lock
the workspace are one step (`AddSource`, `DraftReturn`, `RecordEvent`);
reconciliation, approval, pack and schedules take no lock, read first and write later
(`DeleteLines` removes what it saw, `EnterSchedules` commits). `filed` is history:
which event first set FILED_EXTERNALLY since the latest approval.

`BankReconciliation` has the statement, its candidates and the decisions on them.
Accepting a candidate updates it and then its rivals, each under its row lock; a
step that waits for a lock held by someone who waits in turn is the victim of
PostgreSQL's deadlock detection. A posting is keyed by its transaction and type. Proofs are made of
totals read before.

### Calculations and its operators

The engines keep no state. Each is an operator (`GstEngine` on `CreditLedger`,
`DirectTaxEngine`, `Matching`, `InvoiceValidation`, `VoucherContract`), and
`Calculations` has an action for each computing route: it takes inputs from the
constants, and the answer is computed in the same step. Loops are folds, or
recursive functions of the turns taken. Money is an integer of paise, and rounding is the one that
each place of the code has. Rates are whole percents, tenths
for TDS, as the tables have them. `Lakh`, `RoundTo` and `Hundred` scale slabs and
thresholds together, so that all limits lie within the small numbers TLC takes.

Names of parties are compared by `Similar`, a function of pairs, in place of
rapidfuzz's scores. A GSTIN is its state and the verdict of its checksum. A row of
a statement or of a GSTR-2B file is its cells after the column names were found.
`VoucherContract` has both payloads (Tally's and Zoho's), what each provider's
books make of them, what is read back and which differences the comparison sees;
provider behaviour is external and taken from how the code and its tests use it.

## 4. Runs

| run | instance | question |
|---|---|---|
| `two_workers` | 2 actions, 2 references, 2 workers, 2 attempts, 1 failure | queue and posting are safe, and implement `PostingContract` |
| `liveness` | 2 actions, 1 worker, 2 attempts, late effects, no failure, `FairSpec` | every queued action settles; documents never exceed attempts |
| `tally_one_agent` | 2 actions, 1 program, 2 tries, 2 pairings, 2 faults | routes and agent are safe, and implement `PostingContract` |
| `tally_liveness` | 3 actions, the youngest a misfit, one that may be cancelled, 3 tries, 2 pairings, 2 faults, `FairSpec` | every queued action before a misfit settles once no claim is left over |
| `review` | 1 document, 2 field contents, 1 mapping, 2 requests, 4 versions | `EditsRetireProposals`: nothing proposed before an edit is approved by a request that began after it; `RevisionsNameOnePayload`: a version is one payload; `DraftsFollowActions`: a draft shows what became of its action, and a posted one has its row |
| `books_sync` | 2 bills, 3 contents, 2 months, 2 jobs, 2 workers, 1 edit, 2 toggles | `RowsFollowSnapshots`: a bill counts at most once, as last seen or as before its verification; `PagesInOrder`: no page twice or before its predecessor |
| `zoho_connection` | 2 clients, 2 attempts, 2 callbacks, 2 callers, 2 disconnecting requests, 3 grants, 2 expiries | `CredentialsAgree`: usable exactly while available (but for `crossed`), and the grant last chosen; `RefreshedOnce`; `ConsumedForGood` |
| `tally_books` | 2 companies, 1 voucher, 4 contents, 3 days, 2 overlapping ranges, 2 registers, 3 devices, 2 codes, 2 requests, 1 edit, 3 pushes | `AvailableForOne`: one active device of a company, and one at all while available; `RowsFollowVouchers`: an active row stands for an active voucher of its date; `PeriodsStayApart`: a snapshot withdraws only rows of its range or of vouchers it lists |
| `gst_return` | 2 months, 1 return, 1 document, 2 files, 2 packers, 2 versions | `ApprovalsHold`: what stands ready was approved after its last change; `ClaimsStand`: a claim is never moved or made twice by a match |
| `workspaces` | bank: 2 transactions, 3 candidates, 2 reviewers, 1 proof; return: 6 sources, 2 requests | `AcceptedOnce`: a transaction is accepted against one entry and proofs count it once; `FilingsStand`: what is approved, filed or completed rests on the present sources, and a completion on an acknowledgement and an event that filed |
| `calculations` | inputs at and beside every limit | seven laws of the engines, from the set-off to vouchers read back |
| `counted_twice` | as `tally_books` | violated: one register row for a voucher |

Bounds of the queue. Two workers are the least that race for a job, and two
actions the least that can be confused. `MAX_ATTEMPTS` is 5 in the code; two
attempts already give a first, a retried and a last one. One failure reaches the
error path and the retry after it. Workers are symmetric; no run with symmetry
checks liveness. Deadlock is checked: the environment can always toggle a switch,
so the check says little and liveness is stated separately.

Bounds of Tally. Two pairings give a device that is replaced in the middle of its work.
The limit of attempts is 3 in the code and in `tally_liveness`; `tally_one_agent` has 2,
so that its two faults use it up, which is what `TriesExact` is about. In
`tally_liveness` they do not: with a third lost answer to a claim the action would stay
unsettled (section 5), so liveness is checked for at most two. Two faults are a fault
and one on the way back from it. The third action of `tally_liveness` is the one that
blocks the line; one of the three can be cancelled, which keeps the run within minutes.
Its two pairings leave a claim behind, which `Operating` then excludes. Deadlock is not checked: once every pairing is used and the device
disconnected, nothing remains to be done.

Bounds of the requests. Two are under way in every module of requests: each race
noted in the code is between two. Four versions of a draft are a proposal, its
edit, its return and a proposal that overlaps them. Bills need two for a page
after the first, a second one that was posted by an action, and contents that move
a bill to the next month and void it. One edit at the provider suffices, since
each worker may have read before or after it. The voucher of `tally_books` has a
content for either register, either month, and a cancelled one. Its three days are
the last of April and of May and the first of June; the ranges of May and June share
the second. Two devices belong to the company of the voucher, the third to another. Two GSTR-2B files report one document in
two months, which is what `ClaimsStand` is about; two packers are a second pack of
a paper that the first has changed. The bank's three candidates share both a
transaction and an entry. The six sources match, differ, replace one another and
belong to another taxpayer. Bank and return share no row, so a behaviour of
`workspaces` works on one of them. These runs do not check deadlock: their bounded
environments come to an end.

Bounds of the engines. Operators are evaluated on all combinations of inputs
around each limit (below, at, above), with `Lakh` at 10,000 paise and `RoundTo` and
`Hundred` at 10. Lists have at most `Longest` = 2 members, and ledgers are named by
`Names`. All seven laws are besides proved for all amounts, lists and names.

Fairness of the queue. `be/automation/service.py:10-18` runs the worker and the
scheduler loop together and both poll for ever; `render.yaml` has the platform
restart the process; requests to Zoho end by their timeouts. So each worker's own
step, its restart and the scheduler's tick are weakly fair. Nobody is obliged to
propose, approve or cancel, and failures are never obliged to happen.
`QueuedActionsSettle` is checked without infrastructure failures, because with a
crash it is false (section 5); a worker that ends itself on a refused
transition is included.

Fairness of Tally. `background` (`lib.rs:178-191`) polls every minute while the
program runs, its requests end by their timeouts, and ninety seconds pass: each
poller's step and each lapse is weakly fair. Pairing, permission and decisions
are not. `QueuedActionsSettle` asks that the installation in the end stays paired
and permitted and that no claim of an earlier device is left over (`Operating`,
`LeftOver`), and in `tally_liveness` the faults spare the two points of
`ReportsAnswered`, since with either it is false (section 5).

The other modules state no liveness. Their requests are made by people, and the
one loop among them, the sync worker's, leaves the job of a dead worker RUNNING
for good.

Premises. `AtMostOneBill` and the queue's contract hold where `PromptProvider` (a
create that was reported lost is not carried out later) and `ReferencesSeparate`
(two actions share a reference only where one worker runs) hold: looking up
before creating is not atomic, and no lookup sees a document that is still to
come. `BillsBoundedByAttempts` in `liveness` is what remains without the first
premise. `AtMostOneVoucher`, `VouchersUnderLease` and Tally's
contract hold under `OnePoller`: one running program. Nothing in the code keeps a
second one from being started, on the same computer or on one that was replaced
by a new pairing; `SuccessIsReal` and all that is said of the routes holds for
any number.

## 5. What the models show of the code

`counted_twice` is a run: a voucher that an approved action created gets a
register row from its verification, keyed by the verification's provider object,
and another from the next snapshot, keyed by its GUID. What follows was met while
modelling; the modules have these steps, and the properties above are stated so
that they hold with them.
No run of the present set checks the points listed below: they are readings of
the code and of traces, not results of TLC that the configurations here
reproduce. To see one, state its opposite as a property of the module named.

Queue and agent.
- `claim()` takes QUEUED jobs only: a job whose worker died stays CLAIMED,
  although a lease is written at the claim.
- Cancelling in RETRY_SCHEDULED leaves the job alive, and an earlier attempt may
  have posted; the worker that claims it dies on the trigger outside its `try`.
- An exception in the recovery lookup turns an uncertain create into a retry.
- Kill switches are read once per attempt, Tally's permission once per claim.
- The agent renews its lease before it looks for a recorded result, so a report
  that was carried out unheard blocks it for good. Attempts are counted by claims:
  three lost answers leave an action in RETRY_SCHEDULED unsettled. A refused
  read-back after the import is FAILED. A poll saves the configuration it loaded
  before a disconnection.
- No fault is needed to stop the agent for good: `delete_config` (`state.rs`) leaves
  `claimed_actions`, so a claim recorded before a disconnection is taken up after the
  next pairing (`lib.rs:144`), and its renewal by the new device is refused at every
  poll (`tally_agent_actions.py:130-137`).

Registers.
- Synchronising one month of Zoho's bills withdraws the rows of the other months.
- Every Zoho action comes from the agent tool without a draft
  (`agent_tools.py:217-227`), so its verification moves the provider object's snapshot on
  and projects nothing (`projection.py:22-34`): the older row stays active.
- A sync job whose worker dies, or finds its stored credential unreadable, stays
  RUNNING. The list and the details of a bill may disagree about its month, and the
  conflict clause never corrects it. Tax components outlive a void bill.
- A choice of a Zoho client and a disconnection lock installation and credential in
  opposite order. A reconnection never revokes the grant it replaces.
- Of two disconnections that overlap the second finds the credential revoked and locks
  no row (`platform/credentials.py:56-63`); a reconnection that commits before its next
  statement (`connector.py:237`) ends as DISCONNECTED beside a usable credential.
- Preparing a draft for Zoho raises ImportError: the routes import `_zoho_plugin`
  from `agent_tools`, which has no such name.
- A heartbeat that was admitted before a revocation makes the device active again,
  where the index on active devices allows it. The index is of an installation and a
  company, and pairing does not compare companies: after a pairing with another company
  both devices can be active, and two pairings that overlap can leave the same. The late
  disconnection of an old device locks out the new one.
- The agent's range begins with the first of the month in local time written as UTC, and
  is fixed when the window opens (`App.tsx:11,24-27`). In India it begins on the last day of
  the month before, and `_record_windows` then files the month's completeness under
  that month (`ingest.py:206`).
- A snapshot that was read before a voucher was entered or moved into its range, and
  arrives after the newer one that brought it, withdraws its row (`ingest.py:188-195`).
  A snapshot of another company withdraws all rows of its range: rows are found by
  client and date. Keys in `tally_sync_logs` last for ever: a month
  that returns to an earlier content is not ingested again.

Review and returns.
- Preparing an unchanged document twice makes its action unapprovable, and two
  concurrent preparations have the same end. A document whose action was approved
  can be prepared and approved again with another mapping.
- Fields that were read before an edit can still become the first proposal after it, and
  be approved: there is no earlier proposal for the edit to cancel.
- The projection reads the linked draft without a lock and posts it by its id
  (`projection.py:22-31,74`; `sales_invoices/projection.py:60`): relinked in between, it
  stands POSTED under an action nobody approved yet, which can then be approved and
  posted too.
- A second `make_pack` that read a paper before it was filed reopens it.
- After the approval of an income tax return, a new source leaves the old MATCHED
  items: it can be drafted and approved without another reconciliation. Schedules
  and reconciliation reopen a filed workspace. PAYMENT_RECORDED and E_VERIFIED set
  FILED_EXTERNALLY whatever the status was (`itr_workspaces.py:207,211`), so a return can be
  completed that has no filing on record; a pack that was read before another approval
  may be written after it.
- A bank candidate that is inserted between the two updates of an acceptance can be
  accepted as well (`late`); one register entry may be accepted for two
  transactions.

Engines.
- `reconcile.py:45-49` says that keyed pairs take priority, but the greedy order at
  line 86 takes a higher score first; and a target that one source takes may have fitted
  a later one better.
- Of two documents of one GSTR-2B file with one key, the second is in no result once the
  first was matched (`gstr2b_matcher.py:80-81`).
- Validation tolerates a rupee which both payload builders then refuse; a sale with
  rounding or other charges is built for Zoho and can never verify.
- A bill line of quantity 0 can be proposed (`be/connectors/zoho_books/purchase_bill.py:24`)
  but is read back as one (`mappers.py:21`): such a bill never verifies. For the same
  reason a free line whose quantity becomes 0 in Zoho passes the comparison.
- A tax of one paisa within a state fails validation, and so does every interstate invoice
  without tax (`IGST_REQUIRED`, `validation.py:149`). A comment in `gst.py:80` calls
  the order of allocation neutral, which it is not for the cash paid.

## 6. Proofs

`FinanceActionQueue_proofs` proves for all constants that satisfy
`ConstantsAssumption`:

| theorem | statement | besides |
|---|---|---|
| `TypeCorrect` | `Spec => []TypeOK` | |
| `ClaimsExclusive` | `Spec => []ExclusiveClaims` | |
| `JobsStayInStep` | `Spec => []JobsAgree` | |
| `WorkersStayInStep` | `Spec => []WorkersInStep` | |
| `AttemptsAreAccounted` | `Spec => []AttemptsAccounted` | |
| `DeadLettersAreExact` | `Spec => []DeadLettersExact` | |
| `SuccessIsAlwaysReal` | `Spec => []SuccessIsReal` | |
| `AtMostOneBillPerReference` | `Spec => []AtMostOneBill` | `PromptProvider`, `ReferencesSeparate` |
| `BillsWithinAttempts` | `Spec => []BillsBoundedByAttempts` | |
| `BillsOnlyWhileExecuting` | `Spec => BillOnlyWhileExecuting` | `PromptProvider` |
| `QueueKeepsContract` | `Spec => KeepsContract` | both premises |

`TallyAgent_proofs` proves, of the routes for all constants that satisfy
`TallyCloudAssumption` and of the agent for those that also satisfy
`TallyAgentAssumption` and `FaultsAssumption`:

| theorem | statement | besides |
|---|---|---|
| `LeasesAreExact` | `CloudSpec => []LeasesExact` | |
| `TriesAreExact` | `CloudSpec => []TriesExact` | |
| `JobsOfTallyAgree` | `CloudSpec => []TallyJobsAgree` | |
| `ClosedActionsStayClosed` | `CloudSpec => ClosedForGood` | |
| `AgentTypesCorrect` | `Spec => []TypeOK` | |
| `AgentUsesRoutes` | `Spec => CloudSpec` | |
| `TallySuccessIsReal` | `Spec => []SuccessIsReal` | |
| `OneAgentInStep` | `Spec => []AgentInStep` | `OnePoller` |
| `OneVoucherPerAction` | `Spec => []AtMostOneVoucher` | `OnePoller` |
| `VouchersOnlyUnderLease` | `Spec => VouchersUnderLease` | `OnePoller` |
| `TallyKeepsContract` | `Spec => KeepsContract` | `OnePoller` |

The modules of requests have proofs for all constants that satisfy
`ReviewAssumption` and `PayloadAssumption`, `SyncAssumption`,
`ConnectionAssumption`, `BooksAssumption`, or `GstReturnAssumption`:

| module | theorem | statement |
|---|---|---|
| `DocumentReview_proofs` | `TypesHold` | `Spec => []TypeOK` |
| | `RevisionsAlwaysNameOnePayload` | `Spec => []RevisionsNameOnePayload` |
| | `DraftsAlwaysFollowActions` | `Spec => []DraftsFollowActions` |
| | `EditsAlwaysRetireProposals` | `Spec => []EditsRetireProposals` |
| `BooksSync_proofs` | `SyncTypeCorrect` | `Spec => []TypeOK` |
| | `RegisterFollowsSnapshots` | `Spec => []RowsFollowSnapshots` |
| | `PagesCommitInOrder` | `Spec => []PagesInOrder` |
| `ZohoConnection_proofs` | `TypesHold` | `Spec => []TypeOK` |
| | `ConsumedIsFinal` | `Spec => ConsumedForGood` |
| | `CredentialsAlwaysAgree` | `Spec => []CredentialsAgree` |
| | `OneRefreshPerExpiry` | `Spec => []RefreshedOnce` |
| `TallyBooks_proofs` | `BooksTypeCorrect` | `Spec => []TypeOK` |
| | `InstallationAvailableForOne` | `Spec => []AvailableForOne` |
| | `SnapshotsStayInTheirPeriod` | `Spec => PeriodsStayApart` |
| | `RegistersFollowVouchers` | `Spec => []RowsFollowVouchers` |
| `GstReturn_proofs` | `TypesHold` | `Spec => []TypeOK` |
| | `ApprovalsAlwaysHold` | `Spec => []ApprovalsHold` |
| | `ClaimsAlwaysStand` | `Spec => ClaimsStand` |

`Figures_proofs` has what is said of figures: the laws of the engines, where `Spec`
is that of `Calculations`, and the two workspaces. The assumptions are those that
the modules named state of their constants:

| theorem | statement | assumptions used |
|---|---|---|
| `SetOffsAreLawful` | `Spec => []SetOffLawful` | `AmountsAssumption` |
| `SplitPurchasesTaxedAlike` | `Spec => []SplitTaxedAlike` | `AmountsAssumption`, `DirectTaxAssumption` |
| `TaxesNeverJump` | `Spec => []TaxNeverJumps` | `AmountsAssumption`, `DirectTaxAssumption` |
| `EarlierPaymentNeverCostsMore` | `Spec => []EarlierPaymentCostsNoMore` | `AmountsAssumption`, `HundredAssumption` |
| `ComputedTaxAlwaysPasses` | `Spec => []ComputedTaxPasses` | `AmountsAssumption` |
| `LinesAlwaysAccounted` | `Spec => []LinesAccountedOnce` | `MatchingAssumption` |
| `VouchersStayFaithful` | `Spec => []VouchersFaithful` | `VoucherAssumption` |
| `TransactionsAcceptedOnce` | `BankSpec => []AcceptedOnce` | `BankAssumption` |
| `ReturnsStandOnTheirSources` | `ItrSpec => []FilingsStand` | none |

The assumptions say what the code takes for granted: that sets of rows are finite,
that amounts are numbers and scores percentages, that payloads have the shape their
builders give them. `DirectTaxAssumption` alone asks for more, that a lakh is a
multiple of 200 (it is 10,000,000 paise), so that every limit is a whole amount.

The argument for the queue. No invariant above is inductive alone. The proof
climbs in layers, each using the ones below it: types; exclusive claims (whatever a worker holds
is CLAIMED and held once); rows in step (the action's status fits the job's, and
a holder's position fits the status, which says that only the holder moves it);
attempts (the open attempt is the last one and belongs to the holder, finished
ones are numbered without gaps, dead letters sit at the limit); documents
(whoever records an acceptance has a document in the books). For the last
theorems the layer `OneBillKept` adds that nobody is about to create under a
reference that already has a document: with separate references only the holder
could, and it looked the reference up in its previous step. The refinement maps each
step: an approval, a cancellation, a create that takes effect, a success and a
hand-over are the contract's five steps, and every other action leaves the
mapped state alone (`Invisible`).

`AttemptsCover` is about an action with a reference of its own: documents and
creates under way are no more than attempts begun, and fewer while the holder has
yet to create. It needs no promise of the provider, since a late create was counted
when it was sent.

The argument for Tally. The rows of the cloud are one inductive invariant
(`CloudInv`: leases, attempts, jobs, and that whatever waits was approved), whose
one intricate step is a claim, which sweeps every other row (`SweepFacts`). Every
step of the composition is a step of the routes because a busy poller uses a
device that was paired (`Hands`); so `CloudInv` carries over. With one program,
`StepInv` says that what is recorded locally is what is worked on, under its
lease, and that a new claim is made only into an empty table: nothing the cloud
does alone takes a claim from its holder (`ClaimsSurvive`), since a sweep happens
only inside a claim, and the only one who claims is at work. The refinement then
follows as for the queue.

The argument for drafts. A draft's version only grows, and what is recorded with it
is never later (`RevisionInv`). A linked draft belongs to its action's document and
shows a status that fits the action's (`Agrees`): a proposal that awaits approval is
shown as proposed, so an edit reopens exactly the rows whose actions it cancels. For
the approvals (`EditInv`), a proposal an edit has followed is cancelled, or linked to
no draft, or linked to one of a later version than the proposal was made for
(`ProposalInv`); an approval reads a linked draft of exactly that version, and the
payload it read can leave the stage it was in but never return to it (`RequestInv`).
A projection under way keeps its action QUEUED by the lock it holds (`Held`), and the row it
will write is of its own draft; so a posted draft has a row, and is linked to its action
unless it was relinked in between (`EnteredKept`, `ProjectionsKept`).

The argument for the registers. A bill has a row for each snapshot, and at most one is
active: that of the snapshot its object has, unless a verification wrote the object last;
and a deleted object has none (`BillFollows` in `RowsInv`). The intricate step is the commit of a
page (`CommitKeepsRows`), which gives each bill on it the row of its new snapshot and,
after the last page, takes the rows of those that have disappeared. The order of pages
(`PageInv`) is the job's cursor: one worker holds a running job and is at its cursor,
and what is committed of it are the pages before it. In Tally's books, `OneActive` says
that one device of a company at most is active, and that some device is while the
installation is available.
Only a snapshot touches the registers' rows (`OnlySnapshotsProject`), and it treats each
voucher by its item or by its date (`PushedVoucher`); so an active row stands for a
voucher that the books once showed, and for an active one where the bridge has not
written (`RowsInStep`).

The argument for the connection. `LockInv` says what the lock of a credential's row is
worth: the caller that refreshes has it to itself and still holds what it read, so it
cannot bring back a grant that was replaced. A disconnection that revoked a row keeps it
locked until it ends (`RequestHolds`); one that found none to revoke holds nothing, and a
choice that falls there is recorded in `crossed`. For the count of refreshes, each expired
credential that is still usable is paid for by an expiry that no refresh has answered
(`CountInv`); two callers cannot use the same one.

The argument for the returns. A change of a return leaves `approved_source_hash` where
it was and makes the paper stale; the constraint wants approved papers that are not
stale. `PaperInv` says that a paper that was overtaken and is not stale was filed, which
is the case where a late pack reopens it. A claim is numbered by the runs there were
(`ClaimInv`), and a run warns of the claims it finds, so an unwarned exact match is
no later than the claim of its document.

The argument for the set-off. `apply_itc_utilization` is a sequence of moves of
credit to liability. `SpendBalanced` says what a move keeps: what a liability has left and
what paid for it add up to the output, what a credit has left and what it was used for to
the credit, and a credit that was offered a liability either is spent or leaves
nothing to pay. The sequence is then followed move by move; a later move disturbs
nothing that an earlier one settled (`Uncrossed` for CGST and SGST).

The argument for direct taxes. A purchase that is split is taxed at one rate, and
rounding its two parts down loses a paisa at most (`PurchaseRate`, `Bears`). Between two
thresholds the tax with its surcharge grows with the income and by no more than the
income does and a paisa of rounding; at a threshold the surcharge would jump, and
marginal relief holds the total to the height of the step and what the income is above
it (`OnStep`). A step begins at the height at which the one below it ends (`Height`), so
the whole stair has no jump (`StepsNeverJump`), for both engines and both regimes. The
rebate only lowers the ground, and the limit on the rise is stated above it. Interest is
a sum of charges, each of which falls when a payment comes earlier, while months only
grow with the dates.

The argument for computed taxes. The two halves of a tax within a state differ by
a paisa at most, and only a tax of one paisa leaves one of them missing, which the law
excepts with the interstate tax of nothing; what else the engine computes is within every
tolerance of the validation.

The argument for matching. Both loops are followed turn by turn. `Fair` says after each
turn of `reconcile` that nobody was taken twice and that a source without a target could
have none of those still open; `Sorted` says of `match_gstr2b` that each purchase so far
has one result, that no document's key is used twice and that every key used is in a
result. What is then listed of the rest is what `InOrder` keeps of their positions
(`UploadAccounts` for a file).

The argument for vouchers. The comparison is of bags: equal counts of equal entries
give a bijection between two lists, and sums do not change under it (`Moves`,
`Rearranges`, `SumRearranged`). A voucher whose entries net to
zero and whose comparison was clean has therefore the approved totals under each tax. For
bills, an edit of one line that leaves the subtotal must have left the amount of that
line, and since no line that was read has quantity 0, what is left is the free line
of section 5.

The argument for the workspaces. A request that accepts a candidate rejects each rival
it read under its own lock (`Deciders`), so of two acceptances one is the other's rival
or came after it was read, which is the exception of section 5 (`OnlyOneAccepted`); a
proof's totals were true when they were read (`TotalsRead`). In the return's row,
the hash is of its sources (`Backed`), and behind a status that shows a filing or a
completion an event that sets it is on record (`Recorded`).

Sums and loops. The library's induction theorems take an operator, which the provers cannot
instantiate, so none of them is used. Induction is instead stated of a set:
`SubsetInduction` for the subsets of a finite set, by its smallest member outside, and
`CountUp` for the numbers, by the least. From the first follow the sums of folds
(independence of the order, sums of parts, of sums and of terms that are zero), from the
second the loops, which is why these are recursive functions of the turns taken.

Proved and not among the runs' properties are WorkersInStep, AttemptsAccounted,
BillOnlyWhileExecuting, LeasesExact, AgentInStep and the type invariants of the modules
of requests.

Model-checked only: the two `QueuedActionsSettle`. They are liveness under fairness,
which is beyond this prover; the run `counted_twice` shows a violation and has nothing to
prove. Every other property of the runs is stated by a theorem above.

## 7. Not modelled

- The workflow graphs pause between three steps and post nothing; which of two
  overlapping resumptions wins is decided inside a library.
- `be/core/hardening.py` is called by its tests only.
- Extraction, chat, classification, messaging, the GST filing client and the web
  application keep no state that an interleaving could spoil.
- Administration routes, decision records and rule versions are single-row reads
  and writes.
- Of modelled components: the Zoho bank feed and its match cases, master records
  of the sync, ledgers of the snapshot, the older connections table, signatures,
  file storage, and the wording by which columns, labels and names are recognised.

`PROJECT.json` names the status of each component.

# A TLA+ verification of EasyCounting's e-CF platform

EasyCounting is a FastAPI application with which tenants in the Dominican
Republic issue electronic fiscal documents (e-CF): it numbers, signs and sends
them to DGII, follows their status, bills the tenant and posts them to Odoo.
The TLA+ modules of this directory model the parts of it where requests,
background workers, DGII, Odoo and crashes meet. TLC checks small instances;
the TLA+ proof system proves the main invariants of the core for every instance.

All source paths are relative to `src/`.

## How the program runs

`gunicorn` runs several worker processes. Each one has an asyncio event loop
with the request handlers, and its own background parts: a DGII status
dispatcher, a recurring-invoice runner, a certificate-workflow runner, and
in-memory caches. PostgreSQL (READ COMMITTED) and the storage directory are
shared. Most handlers are `async def` but use a *blocking* database session
(`app/shared/database.py`): one transaction per request, committed when the
handler returns, rolled back on any exception; it does not flush before a
query. Three consequences shape the models:

* between `SELECT` and flush, other transactions commit; a session writes only
  the attributes whose values differ from those it *loaded*;
* a handler that waits for a row lock stops the event loop of its worker, which
  the holder of that lock may need to go on, until gunicorn's timeout kills it;
* files, messages to DGII and records in Odoo do not roll back.

## Inventory

| part | state | operations | interacts with | what makes it correct |
|---|---|---|---|---|
| e-CF submission, `app/application/ecf_submission.py`, `fiscal_operations.py` | `fiscal_operations`, `invoices`, `usage_records`, `xml/{encf}.xml` | `submit_ecf`, `start_operation`, `transition` | DGII, dispatcher, billing, numbers | one writer per document; a committed operation has its track id and its charge; the signed file stays, or two workers raced for its number |
| status dispatcher, `app/dgii/jobs.py` | queue in memory | enqueue, `_consume`, `_persist_status_and_sync` | DGII, Odoo sync, the row | final states come from DGII and reach the right invoice; every document gets one |
| operator retry, `app/routers/operations.py`, `admin_portal.py` | the row, RETRYING events | `retry_operation` | DGII, Odoo sync | does not disturb the others |
| Odoo sync, `app/application/accounting_sync.py` | `odoo_sync_state`; moves in Odoo | `sync_operation` | Odoo | synchronised means there is a move; only accepted documents |
| number allocation, `app/routers/ecf.py`, `odoo.py`, `app/application/tenant_api.py` | `sequences.next_number`, payload and XML files | generate, create, transmit | billing quota, submission | no number twice where one worker or a lock gives them; no gaps; a foreign file only after a race |
| recurring invoices, `app/application/recurring_invoices.py`, `app/jobs/recurring_invoices.py` | schedules, executions, payload files | create, pause, resume, update, run due | plans, onboarding, storage | each occurrence once, none passed over by a commit, pauses stick |
| billing, `app/billing/services.py` | plan, usage | `assert_ecf_allowed`, `record_usage` | submission | quotas and free documents under concurrency |
| DGII client, `app/dgii/client.py` | token, idempotency cache, breaker, of one request each | `bearer`, `_submit`, `_request` | DGII | a resend does not deliver a document twice |
| idempotency of received e-CF, `app/services/idempotency.py` | records in the memory of each worker | get, set | reception endpoints | one effect per key |
| certificate workflow, `app/certificate_workflow/`, `app/routers/certificate_workflow.py` | cases, events, reminders, validations; executions and steps of manual runs | transitions, mail intake, test documents, track poll, reminders | DGII, IMAP, mail | DGII's answers move a case only for an accepted document that is its own or was named for it; every due reminder and accepted case is seen to |
| portal authentication, `app/services/portal_auth.py` | challenges, tickets, tokens, sessions | create, verify, consume, revoke | portals | each used once, sessions end with the password |
| browser service, `automation/browser-mcp/src` | jobs, kept windows, listeners | `runSync`, `enqueue`, release, events | Chromium, DGII portal | a job that runs ends and says so; a window left open can be closed |
| portal automation, `app/services/browser_mcp/` | the context file, summaries | `run_postulacion_emisor_flow` | browser service, operator | the summary says which windows are open |
| certificates and signing, portals, administration, Odoo mirror and addons, reception, assistant, printed representation, observability, web portals | | | | see "Not modelled" |

`PROJECT.json` lists the same parts with their files, and the hazards of each
at the line where they bite.

## What is modelled

### FiscalOperation

`FiscalOperation.tla` is the pipeline of one document: POST, status checks,
operator retry and Odoo sync, on the row of `fiscal_operations` with its
invoice. A transaction `t` (a submission, a retry, or the status check of a
submission) goes through the steps between which others can run:

    submission   idle -SubmitBegin-> blocked -SubmitSign-> signing -SubmitStore-> sending -SubmitSend-> answered -SubmitRegister-> commit -> done
    retry        idle -RetryBegin-> blocked -RetryMark-> sending -RetryQuery-> answered -RetryApply-> [odoo] -> commit -> done
    check        queued -PollTake-> fetching -PollFetch-> fetched -PollRead-> blocked -PollApply-> [odoo] -> commit -> done

`seen[t]` is the row as the session loaded it at the SELECT, `work[t]` the row
as the transaction has written it, `db` the committed row; `Set` is
SQLAlchemy's rule that an unchanged attribute is not written. The row lock is
not a variable: a transaction in `signing`, `sending`, `answered`, `odoo` or `commit` holds
it. `usage`, `retryEvents` and `db` are what a commit makes durable; `xml`,
`received` (DGII) and `moves` (Odoo) are what no rollback undoes. The states a
submission passes through before TRACKID_REGISTERED are never committed, so the
model has only the one it has at the await. `SignedXmlRepository.persist` looks for
the file and then writes it: `SubmitSign` ends with the look and `SubmitStore` writes.
There is no await in between, so no other handler of this event loop comes there
(`LoopFree`), but another worker may; the history variable `raced` has the numbers that
a submission looked for while another one had looked and not written. A write is
whole or not done. A stopped event loop is `LoopFree`,
`Kill` is gunicorn's timeout, `Crash` any other death of a worker; both lose the
queue. `SubmitSend` chooses whether the document arrives and whether the answer
does, which stands for the retries, the breaker and the timeouts of the client.
Validation, plan limits, certificates and XSD are one failure before the send,
everything that can fail after it another.

### FiscalLedger

`FiscalLedger.tla` is what the pipeline promises of the documents, without locks,
sessions, queues and workers: DGII's register (`dgii`), the platform's `ledger`,
the `billed` submissions and the `books`. A submission is received, decided,
and registered and charged in one step; an update leaves a document open or
gives it a state DGII gave to a submission of it, keeps its invoice with the
submission it was billed for, and calls it synchronised only with a move; only
registered documents are booked. `FiscalOperation.tla` instantiates it as
`Ledger` with a refinement mapping: `dgii` from `received` and `target`, a ledger
entry for each committed row with its state or "open", `billed` from `usage`,
`books` from `moves`. Then `SubmitSend` is Receive, `Decide` is Decide, the commit
of a submission is Register, the commits of retries and checks are Update, the sync
is Book, and every other step, a crash included, is a stutter. An update may leave the
answer of the entry's invoice only as it was or as DGII's register has it.

### RecurringInvoices

`RecurringInvoices.tla` has the schedules with their committed row, the batch of
`run_due_schedules` as the code runs it (`Select`, `Take` one schedule after
another, `Turn` by turn, `Store`, `Insert` with its flush, `Finish` with the commit) and
the tenant's requests, each of which reads the row (`Asks`) and writes the
attributes it changed (`Writes`) in a second step. An edit (`update_schedule`) may change
status, range and the interval (`frequency` and `custom_interval_days`); it never moves a
`next_run_at` it finds. A batch works on `mem`, what
its session holds; `pend` and `flushed` are executions added and flushed,
`locked` the rows it has written. `Waits` and `Conflicts` are PostgreSQL's row
locks and the unique keys of executions and invoices: a flush waits for an uncommitted
key, fails on a committed one, and one of two batches that wait for each other
is rolled back, which is PostgreSQL's detection of lock cycles and assumed. A payload is looked
for at the end of `Turn` and written by `Store`, so two batches may both write it; any exception
of `_materialize_invoice` before the flush (the payload exists, the disk, the permission, the hash)
is the disjuncts with `Failed`: the occurrence is recorded as failed and the schedule moves on, with or
without a file. The content of a payload is not told apart: which batch wrote it, and from the row
before or after an edit. Times are whole periods. `can` is the set of tenants whose plan
and onboarding allow schedules; it changes under the batch.

### RecurringLedger

`RecurringLedger.tla` is what that comes to for a reader of the tables: the `status` of
each schedule, the occurrences `done`, the stored `payloads` and the clock. Batches,
sessions, locks and flushes are gone. A tenant creates a schedule and edits it; a payload appears
for a due occurrence, and stays; and `Bill` is a batch that commits: it records due occurrences of
distinct keys that were not recorded, a generated one with its payload, and pauses or completes
schedules, never revives one, and never pauses one without a failed occurrence that tells of it.
`RecurringInvoices.tla` instantiates it as `Ledger`: `create_schedule` is Create, the
writes of requests are Edit, `Store` is Store where the file is new, `Finish` is Bill, and
everything else, batches that fail or die included, is a stutter.

### NcfSequence

`NcfSequence.tla` has the three ways to a document number. `POST /ecf/generate`
reads and writes `next_number` without a lock (`GenRead`, `GenWrite`) and
without an await in between, so that only requests of other worker processes
come between the two. The tenant API and the Odoo router lock the row
(`Allocate`, or `InsertRow` for the first number) and hold it until the commit
that registers the invoice; or the client names the number (`Name`). The
payload file of the tenant API and the signed file of the Odoo route stay when
the transaction rolls back. `store_bytes` and `persist` look for the file and then write it:
`CheckStored` and `WriteStored` are two steps of a request in the thread pool, which any other
request comes between; `CheckSigned`, `WriteSigned` and `LookUp` are steps of an `async def`
without an await, which only requests of other workers come between (`LoopFree`). The
history variable `overlaps` has the pairs of requests that looked for one file before either
had written it. A transmit that meets `odoo_transmit_mock` ends after its number
(`MockReceived`); the setting is off by default and `Mockable` are the requests
that may find it on. A number is an integer: `generate` formats it with
8 digits and the other two with 10, so equality is only spoken of within
one of the two kinds, and the runs keep them on different sequences.

### NumberBook

`NumberBook.tla` is the book of numbers that NcfSequence amounts to: `next`, the numbers
`given` to generate requests and the `invoices`. An invoice is registered under the
number its client named, or under the next one in the same step that moves the sequence on; an
invoice of the tenant API is the first of its number, and two documents that Odoo
transmits share one only if two workers handled them: both look for the signed file, both
write it, and the second finds the invoice of the first and updates it. A transmit may also go over
an invoice the tenant API registered. A generate takes the next number and may or
may not return it; on a sequence whose generates have a rival (`Rivalled`: a generate on another
worker, or a locked allocation) nothing is said of the number. In mock mode a number is
skipped. `NcfSequence.tla` instantiates it as `Book`: `GenWrite` is Take, `GenUsage` is
Return, `Commit` is Register, `MockReceived` is Skip.

### CertificateWorkflow

`CertificateWorkflow.tla` is the workflow in which a tenant gets its signing
certificate. The runner of a worker goes round through three parts, each a
transaction of its own, and a request of an operator is one endpoint or one of
these parts:

    reminders    idle -due_reminders-> notify -notify_reminder_due-> mark -MarkNotified-> notify ... -NotifyCommits->
    mail         mails -SearchUnseen-> fetch -Fetch-> intake -MailCommits-> fetch ... -MailDone->
    track poll   poll -list_requests_by_status-> next -_extract_track_id-> polling -PollAnswered-> [blocked -transition_status->] next ... -Commit->
    a write      idle -Load-> loaded -Write-> done
    asking DGII  idle -Ask-> asking -Checked, Submitted, Tracked-> [blocked -transition_status->] next -Commit-> done

Any of them may fail where the code calls out (`NotifyFails`, `MailFails`,
`PollFailed`, `AskFails`), be killed with its worker (`Kill`, `Crash`) and, for the
runner, begin again. `loaded` is the row the session read, `held` the rows it has
flushed, `told` the events it has added. Reminders and mail run in threads; the track
poll and the requests that ask DGII are coroutines with a blocking session, so one
that waits for a row stops the loop of its worker (`LoopFree`), as in
FiscalOperation. `older` is what the poll needs of `updated_at`, the order of the
ready cases: a commit makes the rows it wrote the newest. `track` is the latest
event with a track id; of two events added concurrently either may be the later.
Every endpoint that asks DGII has a simulated mode, its default: a submission stores a
`Simulated` (SIM-) track id that DGII never saw, as does a live one whose answer has none, and the
last attempt of a simulated poll is ACEPTADO and moves the case (`Tracked`). The runner polls as
`Live` says. An operator may give track-status and its poll any track id, of another case or of none
(`named`): nobody checks it, and the case is followed by it from then on. That a
reminder was notified means here that `notify_reminder_due` went through without an exception
(`tried`): it passes over a webhook that fails, and without webhook, address or mail server
nothing leaves. `Refused` are reminders whose message the mail server never takes.
The status written after an await is decided from the row read before it, which is
what the code does; only `POST /{case_id}/status` and the two moves after DGII
consult `ALLOWED_TRANSITIONS` at all.

### CaseBook

`CaseBook.tla` is what CertificateWorkflow comes to for a reader who asks about documents: the
cases whose certificate is `stored`, the case each track id was `filed` for, DGII's `verdict`, the
track id each case is followed by (`latest`) and the moves to production (`accepted`). A
certificate is stored for good; a document of a case with one gets track ids that were nobody's;
an operator names track ids for a case (`named`); DGII decides once; and a transaction that commits
lets cases follow track ids of theirs, their own or named, and simulated ones, and moves them for
those of theirs that DGII accepted, or in simulation. `CertificateWorkflow.tla`
instantiates it as `Book`: `MailCommits` and `Write` are Secure where they store a certificate,
`Submitted` and an `AskFails` after which the document has arrived are File, `Ask` with a track id is
Name, `Commit` is Record, and
the rest, killed and crashed workers included, is a stutter. The status column is not in
it: an operator may move a case by hand.

### BrowserJobs and Postulacion

`BrowserJobs.tla` is the Node sidecar. One call of `runSync` is a run:

    idle -runSync-> launch -createRuntime-> scenario -ScenarioDone-> saving -Completed-> [closing -Closed->] over
                      '-LaunchFails-.          '-ScenarioFails-.        '-.
                                    '--------------------------'----------'-> failing -Failed-> [closing -Closed->] over

Each arrow is what the event loop runs between two awaits. Clients choose job ids,
so one id may be given to several runs: `jobs` and `retained` are keyed by id,
everything else by run, and an entry keeps the run whose emitter it has and the run
whose response it has. A launch may leave Chromium open with no handle to it
(`leaked`); a window may be kept (`retains`), closed by a release, across whose await
the id may come to name another run, or closed by hand. `Crash` is the exit of Node
on a rejection nobody handles, of which Express 4 and the `void` promise of
`enqueue` make several.

`Postulacion.tla` EXTENDS it with the script that uses it,
`run_postulacion_emisor_flow`: the jobs it asks for, with two contracts tried one
after the other, the stops for the operator, the context file shared with other
executions (each save writes the whole of it), the release of its window and the
summary it leaves. Other clients of the same sidecar run beside it. A script acts
with the sidecar in one step only where it makes a call or gets the answer that ends
it. `PostulacionProofs` proves that the composition implements `JobsSpec`, that is,
scripts use the sidecar only as some client may.

## Runs

| run | instance | question and answer |
|---|---|---|
| FiscalOperation_safety | 2 documents with one number, 2 submissions, 1 retry, 2 workers, 1 crash, DGII accepts or rejects | invariants below hold; an invoice keeps the final answer to its submission |
| FiscalOperation_liveness | 2 documents with one number, 2 submissions, 1 retry, 1 worker, DGII accepts or rejects | the pipeline implements FiscalLedger; blocked requests finish |
| FiscalOperation_resend | 1 document, 2 submissions | F018 of `docs/certificacion-dgii/matriz-casos.md` promises no second document: violated |
| FiscalOperation_lost | 1 submission | DEC-002 persists the track id of every operation: violated by a rollback after the send |
| FiscalOperation_final | checks and a retry that overlap | F028 promises one final state: violated by a write of an older answer |
| RecurringInvoices_safety | 2 schedules of 2 tenants, 2 batches, 1 user, intervals 1 and 2, 1 plan change, storage error or batch that dies | invariants below hold; no commit passes an occurrence over; pauses stick; schedules, executions and payloads implement RecurringLedger |
| RecurringInvoices_completes | 1 schedule, 2 batches, edits, fair | guide 21 says a schedule whose range ends passes to completed: violated, a resume that overlaps the batch which completes it makes it active for ever |
| RecurringInvoices_poison | 2 schedules of 2 tenants, 1 batch, plan changes, fair | guide 21 says due schedules run: violated, one schedule that was blocked twice rolls back every batch |
| NcfSequence_safety | 3 tenants, 2 generates on 1 worker, 3 creates, 2 transmits on 2 workers, one of which may meet the mock mode, 1 named number | invariants below hold; sequences and invoices implement NumberBook |
| NcfSequence_generate | 3 generates on 2 workers | a number is given twice: violated |
| CertificateWorkflow_safety | 3 cases, two of them ready and one of these with a document filed, 2 track ids of DGII and a simulated one, 2 reminders, one of which the mail server never takes, 2 messages, the runner of 1 worker, any 1 request, 1 fault, fair | properties below hold; documents implement CaseBook |
| Postulacion_safety | two scripts, a script and a job, or two jobs of one id, on one profile, 3 releases, 1 listener, 1 fault, fair | properties below hold |

*FiscalOperation.* `OneInFlight`: a document is never with DGII or Odoo from two
transactions. `NoDoubleCreate`: of two concurrent first POSTs one fails before
anything is sent. `RegisteredIsBilled`, `BilledIsReceived`: operation,
reception and charge come together. `FinalStateIsDgiis`, `InvoiceIsDgiis`: what
operation and invoice say is what DGII said of this document, and for the
invoice of its last submission, although answers arrive late. `SyncedHasMove`,
`OnlyAcceptedInBooks`: the books. The second is for documents nobody retries: the
retry endpoint syncs whatever DGII answered, and no document says it should not.
`SignedFileKept`: a submission that comes later, fails or is rolled back does not replace the file of
a registered document. Two that overlap on two workers may: both find no file, both write, and the
later write stays, whichever of the two is registered; on one worker that cannot happen. The
repository's docstring ("immutable signed XML files") does not say so.
`InvoiceVerdictStands`, of steps: an invoice moves only to a submission that is charged in the
same step, and while it stays with its submission the final answer on it stays, although
checks and retries with older answers commit late.

*RecurringInvoices.* `OneExecutionEach`, `Accounted`, `GeneratedHasFile`.
`PauseSticks`, of steps: a schedule that was paused, cancelled or completed becomes active only by
a request of a tenant that had read it in that state; a batch that loaded it while it was
active and commits afterwards does not revive it. The batch does go on to invoice what it
loaded: the guide says a paused schedule generates nothing, and that is not so for a batch under way.
`Accounted` is of steps too: when a commit of a batch moves `next_run_at`, every occurrence of the row
the batch loaded, by the interval it loaded, that lies before the new date, or within the range if
the schedule is completed, has its execution, generated or failed. An edit that overlaps the batch may
change start, range or interval under it; what the batch writes over it is still backed by
executions of the row it saw. What the tenant's own edits skip (a later start, a shorter range)
is the tenant's decision.
`Completes` is what the guide says of ranges, with a tenant who pauses or cancels excepted. The code
does it for every schedule a batch meets, and the run shows the way out: a request to resume reads the
row with its date, the batch completes it and clears the date, and the request writes the status alone.

*NcfSequence.* `AllocatedOnce`: on a sequence that only locked allocations use, or only the
generates of one worker, no number is given twice; without that restriction it is `NumberedOnce`,
which the second run refutes. `NoGaps` for the sequences that neither generates nor the mock mode use.
`FilesKept`: the file of a registered invoice is its own, except that two requests which look for it
before either has written both write, and the later write stays although its request may be the one
that fails at the unique key. Two automatic creates of a sequence never do that, since the lock
keeps them apart until they end, nor two transmits of one worker; a create whose client names the
number, and transmits of two workers (of any tenants: the name of the file has none), do. The
docstrings of `app/shared/storage.py` and `signed_xml_repository.py` call both stores immutable
without this exception. `ImplementsBook`. A client that names a number ahead of the sequence blocks it
when the sequence gets there: the allocation fails, rolls back and meets the same number again.
The model does that and no property forbids it, as no document says what should happen.

*CertificateWorkflow.* `ProductionIsAccepted`: a move to production on an answer of DGII is backed
by DGII's acceptance of a document filed for this very case, signed with a stored certificate, or
of one whose track id an operator named for it, although the poll writes what it
decided before an await. Moves of the simulated poll, which has no document, are not
meant, nor what an operator does by hand. `OverdueIsTried`: a batch that fails marks nothing;
what is marked was due and gone through. (The converse is false: a batch that fails after a message
left sends it again; and that anybody got a message is nothing the code knows.) `DueIsHandled`: every
due reminder is marked or resolved, whatever fails once, as long as no reminder is due that the mail
server will never take: that one rolls back every batch, since one `session_scope` has them all,
and the others wait until somebody resolves it. No document promises otherwise.
`ImplementsBook`: what an actor reads of a document before it waits for DGII, for a row or for its
event loop still holds when it commits, and is of the case it commits it for.
`AcceptedMovesOn`: a ready case that is followed by an accepted document leaves that state, or is
followed by another one: a track-status request with another id makes it so, and the
document accepted first is then no longer polled.
It is stated for a live poll (the setting is off by default: a simulated one moves nothing), and it
holds because `Limit` is as large as the number of cases: with `Limit = 1` the model violates it,
as the oldest ready case has no track id, is never written and so stays the oldest. The hazards
list has it.

*BrowserJobs, Postulacion.* `OpenIsReleasable`: a browser that runs on after its job
is registered under its id. It is for ids of one run: a second run of an id may
take the registration of the first. And it excepts, in so many words, a browser whose
launch failed after it had started (`createRuntime` throws between
`launchPersistentContext` and its return): it is in no map, holds its profile until an
operator or the end of the process closes it, and all that can be said of it is that its job was
answered as failed. `RunningIsUnderWay` and `ListenersAreTold` hold
for shared ids too: the entry an old run writes over that of a new one says
that it ended, and each emitter fires. `NothingLeftOpen`: what the summary says of the
window holds for the windows of *all* jobs of the script, although it names only the
last: a kept window of the first contract holds the profile, so the second one fails
and reports a window as well. The browser of a failed launch is excepted here too, but only for a
summary that is itself failed: one that is completed or waits for a person leaves none.

### Bounds

The instances are as small as the hazards allow. Two submissions and a retry
give three concurrent writers of a row and two generations of track ids and
checks; a third submission repeats the second. Two documents of one number are what it takes
for one file to be wanted by two operations; with both submissions on one of them the same run has all
interleavings of one document. Two workers separate a stopped
event loop from a free one, and let two submissions race for a file. One crash is enough for any single loss, and a
second one has nothing left to lose that the first had not. FiscalOperation_safety has 1.4 million
distinct states, RecurringInvoices_safety 1.6 million. Two batches are all
that the unique key can tell apart; two schedules let them lock in opposite
orders; `MaxTime` 1 or 2 gives a catch-up over two or three occurrences; two edits are a creation and
an edit under way, or two creations, and intervals 1 and 2 let an edit change the one a batch works with; one upset
is any one plan change, storage error or batch that dies. Three
creates on a sequence let one roll back, one reuse its number and one name it, and a transmit
is the third automatic allocation, which waits for a lock; `g1`, `g2` and `c1`, `c2` are alike
(symmetry).
In CertificateWorkflow one request beside the runner gives every pair of writers
the code has with one worker; a third case that is not known yet lets `create_intake`
and mail meet; two track ids of DGII let an operator file a second document while the
first is polled, and each of the three may be named for either case; one fault is any one failed call or crash, after which the runner has
to recover. The proofs cover more workers and requests. `Scheduled` reminders and the
`Start` of the cases are states the endpoints lead to. In Postulacion two scripts
of one profile differ in all their settings that matter (contracts, what is kept
open), and `Mixes` gives each the company of a script or of a job; two jobs of one id
are a mix of their own. The limit of 50 due reminders in a batch is not modelled.
The named bounds `MaxCrashes`, `MaxEdits`, `MaxUpsets`, `MaxTime`, `MaxFaults` stand in guards;
everything else is finite because a request is made once. Deadlock checking is
off: when every request is done nothing is left to happen. Symmetry is used
in safety runs only, on names that are alike: workers, submissions and the documents of one number;
batches, and schedules together with their tenants; generates and creates. No liveness property is
checked under it.

### Fairness

Weak fairness on the steps of a request under way (event loop, threads and
database go on), on DGII's decision, on gunicorn's arbiter, on the runners'
selection and on the clock. None on POSTs, retries, edits, crashes or plan
changes: nobody has to make them. A step with an early and a late failure is one
fair action with its success, so fairness never forces success.
In CertificateWorkflow `Step` is all an actor that has begun may do, failure
included; the runner's loop sleeps and begins again for ever. In Postulacion only the runs of
the sidecar are fair: Playwright's timeouts and those of the scenarios end each.
Scripts, releases and operators owe nothing.

## Proofs

`FiscalOperationProofs.tla` proves, for any sets of documents, workers, requests
and any DGII verdicts, from the assumptions in `FiscalOperation.tla`
(the key sets are disjoint and `EncfOf` is a function):
`TypeOK`, `OneInFlight`, `NoDoubleCreate`, `RegisteredIsBilled`,
`BilledIsReceived`, `FinalStateIsDgiis`, `SignedFileKept` and `SyncedHasMove`.

None of them but the first is inductive. The invariant proved is

    SafetyInv == TypeInv /\ OneInFlight /\ DataInv

`TypeInv` is `TypeOK` with the types of a transaction's step: one under way has
a worker and a target. `OneInFlight` carries the lock. `DataInv` says of
*uncommitted* rows what the properties say of committed ones: the `work` of
a transaction at its commit already has a track id that DGII gave to a
submission of this document, its answer is one DGII gave, the row it works on
exists unless it is the submission that creates it, a row marked synchronised has a move. `OneInFlight` is what lets `work` replace
`db` without losing what another transaction committed: a row
held by one transaction does not change under it. The proof has one lemma per
action, and the theorems follow from it by the usual temporal step.

`SignedFileKept` has an invariant of its own on top of it, `FileInv`: the file of a registered
document, and of a submission that has written it, is its own unless its number was raced for; a
submission that is about to write has found its own file or none, unless the number was raced
for since; and of two that are about to write one number the second has found the first
under way, which is what `raced` remembers. So no write replaces another document's file but where
it says so, and at a commit the file is there because the submission wrote it or the
operation was registered before.

`FiscalLedgerProofs.tla` builds on it: `InvoiceIsDgiis`, `OnlyAcceptedInBooks`, and
that the pipeline implements `FiscalLedger` (`ImplementsLedger`). It needs more of
the transactions under way, `LedgerInv`: a charge is the end of its submission; a
check was told what DGII says of its own submission, and syncs only what DGII
accepted; a retry that has not begun has no target; and a retry or check that
holds a row writes it with the invoice it found there, saying what DGII said of
that one (`Keeps`). `StepImplements` then maps every step, one lemma per group of actions.
`InvoiceVerdictStands` is the work of the queues: a check in a queue is there once, in the queue of
the worker that submitted, and only while it waits (`QueueInv`), so each check is made at most
once. A final answer therefore comes to an invoice by the one check of its submission, which is
over when it is committed, and any other retry or check that holds the row writes the
answer it found (`VerdictInv`). That a check which is over is never queued again is a
theorem of its own, `CheckedOnceHolds`.

`NcfSequenceProofs.tla` proves `TypeOK`, `AllocatedOnce`, `NoGaps`, `FilesKept` and the
refinement `ImplementsBook` for any requests, workers, sequences and named numbers, and without a
hypothesis about the deployment: what needs one worker or a sequence without rivals
says so in the property. `LockInv` says that an automatic number in a transaction is covered by the
lock of its row and is the number the committed row stands at. `StoreInv` and `SignInv` are about files:
whoever has written one finds its own there or that of a request it raced with, and so does
whoever is about to write; the lock makes one of two racing creates a named one, and the event loop
puts two racing transmits on two workers. `Moves` lists what a step may do to
its own request and leaves alone of the others, so that both are proved for the few actions that touch
a file and for all others at once. `GenerateInv` and `AutomaticInv` say that a number taken on a
sequence without rivals is below `next_number` and nobody else's. The refinement adds `BookInv`: two
transactions have never flushed invoices of one number, since a flush waits for the other
(`Pending`), and one that the tenant API has flushed is the first of its number, since it
fails where there is one it did not look up.

`RecurringInvoicesProofs.tla` proves `TypeOK`, `OneExecutionEach`, `GeneratedHasFile`
and `Accounted` for any schedules, batches, users and edits, whatever the storage, the plans and the
processes do, without a hypothesis. `KeyInv` says that
flushed keys belong to one batch until it ends, `AddedInv` that what a batch has
added was due and, if generated, has a payload on disk. `Accounted` rests on `PassedInv`, which
compares each row a batch has with the row it loaded: the `next` it has now is reached from the loaded one in
steps of the loaded interval, and each occurrence in between is executed, by somebody who committed
or by what this batch has added (`Reached`). A commit writes `next` only if the batch has
changed it, so what the batch reached is what the commit shows, whatever edits have
written meanwhile.

`RecurringLedgerProofs.tla` proves `PauseSticks` and the refinement `ImplementsLedger`, for
any constants. `LiveInv` says what a batch may do to rows it does
not have: it works only on rows that it loaded as active and that exist, leaves the others
as it loaded them (so its commit writes nothing of them), and gives its rows no status but
paused and completed (`RowLive`), paused only with a failed occurrence of that schedule among what it
has added (`Tells`). `FinishWrites` and `UserWrites` say what the two kinds of
transactions write into the status column, with SQLAlchemy's rule that an unchanged attribute is
not written; both results rest on them.

`CertificateWorkflowProofs.tla` proves `TypeOK`, `ProductionIsAccepted`, `OverdueIsTried` and
the refinement `ImplementsBook` for any cases, runners, workers, requests and menus. The invariant
for production says of transactions under way what the property says of committed
moves: the track ids of a case, committed or in an event not committed yet, were filed for this
case, named for it or simulated (`Has`); what an actor asks DGII about is such a track id; an event
that tells of acceptance has a document DGII accepted, which a simulated track id never is, and
verdicts do not change; and a case with a document has a stored certificate, which nothing takes
away. For reminders, what an actor has flushed was due and gone through, and so was the one it is
about to mark. The refinement needs the
invariant for production at two steps: the case a document is filed for still has its stored certificate
although other requests have written the row since, and what an event says when it is committed is
what DGII says by then.

`BrowserJobsProofs.tla` proves the type invariant, `RunningIsUnderWay` and
`OpenIsReleasable` for any runs, ids, releases and listeners. An entry that says "running"
is the one of the last run of its id that began, because every other write of an
entry ends it; a run that may end with its window open has registered it, and for an
id of one run nobody else touches the registration but a release, which has closed the window
when it forgets it. A browser without an owner is one of a run that failed at its launch
(`Answers`).

`PostulacionProofs.tla` proves the refinement `ImplementsJobs`, from which the
promises of the sidecar follow for the scripts (`SidecarKeepsItsPromises`), and
`NothingIsLeftOpen`. Its invariant `Flow` follows a script: which jobs it may have
asked for at each point (`Asked`, `NotBegun`, `InTurn`), that the answer it goes on
with is there (`HasAnswer`), that its jobs run one after the other and a later one gets a
browser only while the windows of the earlier ones are closed, as all use one profile
(`OneByOne`, `OneWindow`; a browser without an owner holds the profile as well), and that what it releases is the window of its upload
(`OwnWindow`).

Only model-checked: the liveness properties `RequestsFinish`, `DueIsHandled`,
`AcceptedMovesOn` and `ListenersAreTold`, which are out of reach of the prover. The proofs use no recursion and no induction over data.

## Not modelled

* Content: XML, XSD, signatures, totals, DGII's formats, PDF, addresses. A
  document is the operation it belongs to.
* Certificates, portals, administration, Odoo mirror and addons, received e-CF,
  assistant and chat memory, rendering, observability, web
  clients: forms, pure conversions, or scripts against pages outside the repository.
* The executions, steps and checkpoints of a manual run of the certificate workflow:
  a log that only the client which writes it reads. Two executions started together
  take the same attempt number, which nothing else reads.
* The sidecar's stored sessions, scenarios, network policy and MCP proxy, and the
  portal scripts other than the application: what they do depends on DGII's pages.
* Checks after the first. A status check that finds a document in process, or fails, is the last one, and
  a restart forgets those in the queue. The model has it (`PollDrops`, `Crash`) and no action that
  would ask again, because no code does. F015 ("reconsulta") and F029 ("Reanudar tras reinicio") of
  `docs/certificacion-dgii/matriz-casos.md` ask for both: the code lacks them, which reading `jobs.py`
  shows without a run.
* A second account.move of one operation, by a sync that failed after it had created one or by a retry
  beside a check: it happens in the model, `moves` counts it, and no property forbids it.
* Monthly schedules drift to the end of a short month; times here are periods.
* Within the modelled parts: two submissions of one document in *different*
  environments or with different payloads are different operations and share
  here the file alone.

## Plan

In this order; each module is to be written so that it can be proved about.

1. `Billing`: quotas and free documents of concurrent submissions.
2. `PortalTokens`: challenges, tickets, action tokens and sessions.
3. The resends of the DGII client within one submission, and the store of
   received e-CF in two workers.

-------------------------- MODULE FiscalOperation --------------------------
(***************************************************************************)
(* The electronic-invoice pipeline: POST of an e-CF (submit_ecf), the      *)
(* in-process status dispatcher (DGIIJobDispatcher), the operator's retry  *)
(* endpoint and the Odoo accounting sync, all working on one row of        *)
(* fiscal_operations per document.                                         *)
(*                                                                         *)
(* A request is one database transaction on one gunicorn worker.  It reads *)
(* the row (SELECT), takes the row lock at its first flush, then awaits    *)
(* DGII or Odoo with the lock held, and commits when the handler returns;  *)
(* any exception rolls everything back.  The handlers are `async def` over *)
(* a blocking database driver: while one waits for a row lock, the event   *)
(* loop of its worker is stopped.  Status polls run their database part in *)
(* a thread and stop nothing.                                              *)
(***************************************************************************)
EXTENDS Naturals, Sequences, FiniteSets

CONSTANTS
  Ops,          \* operation keys: one per tenant, document, environment, payload
  Encfs,        \* document numbers (eNCF)
  EncfOf,       \* EncfOf[o]: the document number of operation o
  Workers,      \* gunicorn worker processes
  Submits,      \* POST requests of an e-CF; also the track id DGII gives each
  Retries,      \* POST .../retry requests
  Verdicts,     \* the final answers DGII may give
  OdooEnabled,  \* TenantSettings enable and configure the Odoo sync
  Watchdog,     \* gunicorn kills a worker whose event loop is stopped
  MaxCrashes,   \* bound on worker crashes and restarts
  None          \* absent value

Jobs     == {"poll"} \X Submits       \* status checks, one per submission
Job(s)   == <<"poll", s>>
Requests == Submits \cup Retries
Tx       == Requests \cup Jobs

FinalAnswers == {"ACEPTADO", "ACEPTADO_CONDICIONAL", "RECHAZADO"}
Answers      == FinalAnswers \cup {"EN_PROCESO"}

ASSUME OpsAssumption == EncfOf \in [Ops -> Encfs] /\ OdooEnabled \in BOOLEAN
                          /\ Watchdog \in BOOLEAN /\ MaxCrashes \in Nat
ASSUME VerdictsAssumption == Verdicts \subseteq FinalAnswers
ASSUME TxAssumption == /\ Submits \cap Retries = {} /\ Requests \cap Jobs = {}
                       /\ None \notin Tx \cup Ops \cup Workers \cup Answers

AcceptedStates == {"ACCEPTED", "ACCEPTED_CONDITIONAL"}
FINAL_OPERATION_STATES == AcceptedStates \cup {"REJECTED"}

\* The committed values of FiscalOperation.state.  The states a submission
\* passes through before TRACKID_REGISTERED only exist inside its transaction.
States == FINAL_OPERATION_STATES \cup
  {"QUEUED", "SENDING_TO_DGII", "TRACKID_REGISTERED", "QUERYING_TRACK_STATUS",
   "RETRYING", "SYNCING_TO_ODOO", "SYNCED_TO_ODOO"}
OdooStates == {"PENDING", "SKIPPED", "FAILED", "SYNCED_DRAFT", "SYNCED_TO_ODOO"}

StatusStoredRaw(answer) == IF answer \in FinalAnswers THEN "ACCEPTED" ELSE answer
InProcessAccepted(answer) == IF answer = "RECHAZADO" THEN "REJECTED" ELSE "ACCEPTED"

map_remote_status(answer) ==
  CASE answer = "ACEPTADO"             -> "ACCEPTED"
    [] answer = "ACEPTADO_CONDICIONAL" -> "ACCEPTED_CONDITIONAL"
    [] answer = "RECHAZADO"            -> "REJECTED"
    [] OTHER                           -> "QUERYING_TRACK_STATUS"

\* A fiscal_operations row with the invoice it is linked to.  Its operation_id
\* is fresh: the submission that created it.
Row == [operation_id : Submits \cup {None}, state : States, track : Submits \cup {None},
        odoo : OdooStates, retries : Nat,
        invTrack : Submits \cup {None}, invEstado : Answers \cup {None}]
NoRow == [operation_id |-> None, state |-> "QUEUED", track |-> None,
          odoo |-> "PENDING", retries |-> 0, invTrack |-> None, invEstado |-> None]

VARIABLES
  db,           \* committed rows
  usage,        \* committed UsageRecords, by track id
  retryEvents,  \* committed RETRYING events of each operation
  xml,          \* signed XML file of each document number: the operation it is of
  raced,        \* history: numbers two submissions looked up before either wrote its file
  received,     \* DGII: status of each submission it received
  moves,        \* Odoo: account.move records created for each operation
  queue,        \* dispatcher queue of each worker
  pc, at, target, \* where each transaction is, on which worker, on which row
  seen,         \* the row as the transaction's session loaded it
  work,         \* the row as the transaction has written it
  answer,       \* what DGII answered the transaction
  crashes

durable == <<db, usage, retryEvents>>
outside == <<xml, raced, received, moves>>
local   == <<seen, work, answer>>
vars == <<durable, outside, queue, pc, at, target, local, crashes>>

Locking == {"signing", "sending", "answered", "odoo", "commit"}
Running == Locking \cup {"blocked", "fetching", "fetched"}

Init ==
  /\ db = [o \in Ops |-> NoRow] /\ usage = {} /\ retryEvents = [o \in Ops |-> 0]
  /\ xml = [e \in Encfs |-> None] /\ raced = {} /\ received = [s \in Submits |-> None]
  /\ moves = [o \in Ops |-> 0]
  /\ queue = [w \in Workers |-> <<>>]
  /\ pc = [t \in Tx |-> "idle"] /\ at = [t \in Tx |-> None]
  /\ target = [t \in Tx |-> None]
  /\ seen = [t \in Tx |-> NoRow] /\ work = [t \in Tx |-> NoRow]
  /\ answer = [t \in Tx |-> None]
  /\ crashes = 0

----------------------------------------------------------------------------
\* The database and the event loops.

Exists(row) == row.operation_id # None

Holds(t)   == pc[t] \in Locking
RowFree(o) == \A t \in Tx : target[t] = o => ~Holds(t)

\* A handler that waits for a row lock stops the event loop of its worker; so does one
\* that handles its file.
Stops(t, w) == pc[t] \in {"blocked", "signing"} /\ at[t] = w
LoopFree(w) == \A t \in Requests : ~Stops(t, w)

\* SQLAlchemy writes an attribute only when it differs from the loaded value.
Set(loaded, stored, value) == IF loaded = value THEN stored ELSE value

\* Transactions T end: their locks go with them.
End(T) ==
  /\ pc' = [t \in Tx |-> IF t \in T THEN "done" ELSE pc[t]]
  /\ seen' = [t \in Tx |-> IF t \in T THEN NoRow ELSE seen[t]]
  /\ work' = [t \in Tx |-> IF t \in T THEN NoRow ELSE work[t]]
  /\ answer' = [t \in Tx |-> IF t \in T THEN None ELSE answer[t]]
  /\ UNCHANGED <<at, target>>

\* session_scope: an exception rolls back whatever the handler wrote.
Rollback(t) == End({t}) /\ UNCHANGED <<durable, outside, queue, crashes>>

CommitBillingOnce(t) ==
  /\ pc[t] = "commit" /\ (t \in Requests => LoopFree(at[t]))
  /\ db' = [db EXCEPT ![target[t]] = work[t]]
  /\ usage' = IF t \in Submits /\ ~Exists(db[target[t]]) THEN usage \cup {t} ELSE usage
  /\ End({t}) /\ UNCHANGED <<retryEvents, outside, queue, crashes>>

\* session_scope: commit once the handler has returned.
Commit(t) ==
  /\ pc[t] = "commit"
  /\ t \in Requests => LoopFree(at[t])
  /\ \/ /\ db' = [db EXCEPT ![target[t]] = work[t]]
        /\ usage' = IF t \in Submits THEN usage \cup {t} ELSE usage
        /\ retryEvents' = IF t \in Retries
                          THEN [retryEvents EXCEPT ![target[t]] = @ + 1]
                          ELSE retryEvents
        /\ End({t}) /\ UNCHANGED <<outside, queue, crashes>>
     \/ Rollback(t)

----------------------------------------------------------------------------
\* submit_ecf.

\* start_operation's SELECT; the INSERT or UPDATE that follows wants the lock.
SubmitBegin(s, o, w) ==
  /\ pc[s] = "idle" /\ LoopFree(w)
  /\ pc' = [pc EXCEPT ![s] = "blocked"]
  /\ at' = [at EXCEPT ![s] = w] /\ target' = [target EXCEPT ![s] = o]
  /\ seen' = [seen EXCEPT ![s] = db[o]]
  /\ UNCHANGED <<durable, outside, queue, work, answer, crashes>>

\* Another submission has looked for the file of number e and not written it yet.
Storing(e) == \E u \in Submits : pc[u] = "signing" /\ EncfOf[target[u]] = e

\* Submission s gets the row, with row, and goes on to write its file.
Signs(s, row) ==
  LET e == EncfOf[target[s]] IN
  /\ work' = [work EXCEPT ![s] = [row EXCEPT !.state = "SENDING_TO_DGII"]]
  /\ raced' = IF Storing(e) THEN raced \cup {e} ELSE raced
  /\ pc' = [pc EXCEPT ![s] = "signing"]
  /\ UNCHANGED <<durable, xml, received, moves, queue, at, target, seen, answer, crashes>>

\* The row of operation o as its submission s has it.
Mine(s, o) == [db[o] EXCEPT !.operation_id = IF Exists(db[o]) THEN @ ELSE s]

SubmitSignKeyNotUnique(s) ==
  LET o == target[s] IN
  /\ pc[s] = "blocked" /\ RowFree(o) /\ xml[EncfOf[o]] \in {None, o}
  /\ Signs(s, [db[o] EXCEPT !.operation_id = s])

SubmitSignOverwriting(s) ==
  LET o == target[s] IN
  /\ pc[s] = "blocked" /\ RowFree(o) /\ (Exists(db[o]) => Exists(seen[s]))
  /\ Signs(s, Mine(s, o))

\* Validated and signed, up to the look for the file, which may not be that of
\* another payload.  An INSERT fails when the key exists by now.
SubmitSign(s) ==
  LET o == target[s] IN
  /\ pc[s] = "blocked" /\ RowFree(o)
  /\ Exists(db[o]) => Exists(seen[s])
  /\ xml[EncfOf[o]] \in {None, o}
  /\ Signs(s, Mine(s, o))

\* The signed file is written, over whatever another worker has written since the
\* look, and the attempt registered: everything up to the await of client.send_ecf.
SubmitStore(s) ==
  /\ pc[s] = "signing"
  /\ xml' = [xml EXCEPT ![EncfOf[target[s]]] = target[s]]
  /\ pc' = [pc EXCEPT ![s] = "sending"]
  /\ UNCHANGED <<durable, raced, received, moves, queue, at, target, local, crashes>>

\* Billing, XSD, certificate, file or unique-key failure before the send.
SubmitFailsEarly(s) ==
  /\ pc[s] = "signing" \/ (pc[s] = "blocked" /\ RowFree(target[s]))
  /\ Rollback(s)

\* client.send_ecf: DGII may have received a document whose answer is lost.
SubmitSend(s) ==
  /\ pc[s] = "sending"
  /\ \E arrives, answered \in BOOLEAN :
       /\ answered => arrives
       /\ received' = IF arrives THEN [received EXCEPT ![s] = "EN_PROCESO"] ELSE received
       /\ answer' = [answer EXCEPT ![s] = IF answered THEN "EN_PROCESO" ELSE None]
  /\ pc' = [pc EXCEPT ![s] = "answered"]
  /\ UNCHANGED <<durable, xml, raced, moves, queue, at, target, seen, work, crashes>>

SubmitRegisterUnanswered(s) ==
  /\ pc[s] = "answered" /\ LoopFree(at[s])
  /\ work' = [work EXCEPT ![s].state = "TRACKID_REGISTERED", ![s].track = s,
                          ![s].invTrack = s, ![s].invEstado = answer[s]]
  /\ pc' = [pc EXCEPT ![s] = "commit"]
  /\ UNCHANGED <<durable, outside, queue, at, target, seen, answer, crashes>>

\* The track id is registered, the usage recorded, and the status check queued
\* before the transaction commits.
SubmitRegister(s) ==
  /\ pc[s] = "answered" /\ answer[s] # None /\ LoopFree(at[s])
  /\ work' = [work EXCEPT ![s].state = "TRACKID_REGISTERED", ![s].track = s,
                          ![s].invTrack = s, ![s].invEstado = answer[s]]
  /\ pc' = [pc EXCEPT ![s] = "commit", ![Job(s)] = "queued"]
  /\ at' = [at EXCEPT ![Job(s)] = at[s]]
  /\ target' = [target EXCEPT ![Job(s)] = target[s]]
  /\ seen' = [seen EXCEPT ![Job(s)].operation_id = work[s].operation_id]
  /\ queue' = [queue EXCEPT ![at[s]] = Append(@, s)]
  /\ UNCHANGED <<durable, outside, answer, crashes>>

\* The send failed, or something after it: an answer without track id, the
\* response artifact, the usage record.  FAILED_TECHNICAL is written and rolled
\* back by the exception raised after it.
SubmitFailsLate(s) == pc[s] = "answered" /\ LoopFree(at[s]) /\ Rollback(s)

----------------------------------------------------------------------------
\* retry_operation of the operations router.

RetryBegin(r, o, w) ==
  /\ pc[r] = "idle" /\ LoopFree(w) /\ Exists(db[o])
  /\ pc' = [pc EXCEPT ![r] = "blocked"]
  /\ at' = [at EXCEPT ![r] = w] /\ target' = [target EXCEPT ![r] = o]
  /\ seen' = [seen EXCEPT ![r] = db[o]]
  /\ UNCHANGED <<durable, outside, queue, work, answer, crashes>>

RetryMarkNotFlushed(r) ==
  /\ pc[r] = "blocked"
  /\ work' = [work EXCEPT ![r] = [db[target[r]] EXCEPT !.state = "RETRYING", !.retries = @ + 1]]
  /\ pc' = [pc EXCEPT ![r] = "sending"]
  /\ UNCHANGED <<durable, outside, queue, at, target, seen, answer, crashes>>

RetryMarkWholeRow(r) ==
  /\ pc[r] = "blocked" /\ RowFree(target[r])
  /\ work' = [work EXCEPT ![r] = [seen[r] EXCEPT !.state = "RETRYING", !.retries = @ + 1]]
  /\ pc' = [pc EXCEPT ![r] = "sending"]
  /\ UNCHANGED <<durable, outside, queue, at, target, seen, answer, crashes>>

RetryMark(r) ==
  LET o == target[r] IN
  /\ pc[r] = "blocked" /\ RowFree(o)
  /\ work' = [work EXCEPT ![r] =
       [db[o] EXCEPT !.state = Set(seen[r].state, @, "RETRYING"),
                     !.retries = seen[r].retries + 1]]
  /\ pc' = [pc EXCEPT ![r] = "sending"]
  /\ UNCHANGED <<durable, outside, queue, at, target, seen, answer, crashes>>

\* get_status of the track id the session loaded.
RetryQuery(r) ==
  /\ pc[r] = "sending" /\ seen[r].track # None
  /\ \E a \in {received[seen[r].track], None} : answer' = [answer EXCEPT ![r] = a]
  /\ pc' = [pc EXCEPT ![r] = "answered"]
  /\ UNCHANGED <<durable, outside, queue, at, target, seen, work, crashes>>

RetryFails(r) == pc[r] = "answered" /\ answer[r] = None /\ LoopFree(at[r]) /\ Rollback(r)

\* update_remote_status, then the sync unless the loaded row says it was done.
RetryApply(r) ==
  /\ pc[r] = "answered" /\ answer[r] # None /\ LoopFree(at[r])
  /\ LET syncs == OdooEnabled /\ seen[r].odoo # "SYNCED_TO_ODOO" IN
     /\ work' = [work EXCEPT ![r].state =
                   IF syncs THEN "SYNCING_TO_ODOO" ELSE map_remote_status(answer[r])]
     /\ pc' = [pc EXCEPT ![r] = IF syncs THEN "odoo" ELSE "commit"]
  /\ UNCHANGED <<durable, outside, queue, at, target, seen, answer, crashes>>

----------------------------------------------------------------------------
\* DGIIJobDispatcher: one consumer per worker.

Consuming(w) == \E j \in Jobs : at[j] = w /\ pc[j] \in Running

PollTake(w) ==
  /\ queue[w] # <<>> /\ ~Consuming(w) /\ LoopFree(w)
  /\ pc' = [pc EXCEPT ![Job(Head(queue[w]))] = "fetching"]
  /\ queue' = [queue EXCEPT ![w] = Tail(@)]
  /\ UNCHANGED <<durable, outside, at, target, local, crashes>>

\* get_status, before the row is read.
PollFetch(s) ==
  /\ pc[Job(s)] = "fetching"
  /\ \E a \in {received[s], None} : answer' = [answer EXCEPT ![Job(s)] = a]
  /\ pc' = [pc EXCEPT ![Job(s)] = "fetched"]
  /\ UNCHANGED <<durable, outside, queue, at, target, seen, work, crashes>>

\* The row with the operation id the check was queued with is there.
Finds(j) == Exists(db[target[j]]) /\ db[target[j]].operation_id = seen[j].operation_id

\* The consumer swallows the error, and an operation id that is not committed
\* is skipped: either way the check is gone.
PollDrops(s) ==
  /\ pc[Job(s)] = "fetched" /\ LoopFree(at[Job(s)])
  /\ answer[Job(s)] = None \/ ~Finds(Job(s))
  /\ Rollback(Job(s))

PollRead(s) ==
  /\ pc[Job(s)] = "fetched" /\ LoopFree(at[Job(s)])
  /\ answer[Job(s)] # None /\ Finds(Job(s))
  /\ seen' = [seen EXCEPT ![Job(s)] = db[target[Job(s)]]]
  /\ pc' = [pc EXCEPT ![Job(s)] = "blocked"]
  /\ UNCHANGED <<durable, outside, queue, at, target, work, answer, crashes>>

PollApplySyncingAlways(s) ==
  /\ pc[Job(s)] = "blocked" /\ RowFree(target[Job(s)]) /\ OdooEnabled
  /\ work' = [work EXCEPT ![Job(s)] = [db[target[Job(s)]] EXCEPT !.state = "SYNCING_TO_ODOO",
                                                                !.invEstado = answer[Job(s)]]]
  /\ pc' = [pc EXCEPT ![Job(s)] = "odoo"]
  /\ UNCHANGED <<durable, outside, queue, at, target, seen, answer, crashes>>

PollApplyToAnyInvoice(s) ==
  /\ pc[Job(s)] = "blocked" /\ RowFree(target[Job(s)])
  /\ work' = [work EXCEPT ![Job(s)] =
       [db[target[Job(s)]] EXCEPT !.state = map_remote_status(answer[Job(s)]),
                                  !.invEstado = answer[Job(s)]]]
  /\ pc' = [pc EXCEPT ![Job(s)] = "commit"]
  /\ UNCHANGED <<durable, outside, queue, at, target, seen, answer, crashes>>

\* _persist_status_and_sync: transition to QUERYING_TRACK_STATUS, then to what
\* DGII answered; the invoices with this track id follow.
PollApply(s) ==
  LET j == Job(s)
      mapped == map_remote_status(answer[j])
      row == db[target[j]]
      syncs == OdooEnabled /\ mapped \in AcceptedStates
      state == IF mapped = "QUERYING_TRACK_STATUS"
               THEN Set(seen[j].state, row.state, mapped) ELSE mapped
  IN
  /\ pc[j] = "blocked" /\ RowFree(target[j])
  /\ work' = [work EXCEPT ![j] =
       [row EXCEPT !.state = IF syncs THEN "SYNCING_TO_ODOO" ELSE state,
                   !.track = Set(seen[j].track, @, s),
                   !.invEstado = IF row.invTrack = s THEN answer[j] ELSE @,
                   !.odoo = IF mapped = "REJECTED" THEN Set(seen[j].odoo, @, "SKIPPED") ELSE @]]
  /\ pc' = [pc EXCEPT ![j] = IF syncs THEN "odoo" ELSE "commit"]
  /\ UNCHANGED <<durable, outside, queue, at, target, seen, answer, crashes>>

----------------------------------------------------------------------------
\* OdooAccountingSyncService.sync_operation, from the partner lookup on: every
\* sync creates an account.move; it is posted, stays a draft, or fails before or
\* after the creation.  After a success a poll restores the DGII state; a retry
\* leaves SYNCED_TO_ODOO, a failure SYNCING_TO_ODOO.

OdooSyncMarkedBefore(t) ==
  /\ pc[t] = "odoo"
  /\ \E created \in BOOLEAN : moves' = [moves EXCEPT ![target[t]] = IF created THEN @ + 1 ELSE @]
  /\ work' = [work EXCEPT ![t].odoo = "SYNCED_DRAFT", ![t].state = "SYNCED_TO_ODOO"]
  /\ pc' = [pc EXCEPT ![t] = "commit"]
  /\ UNCHANGED <<durable, xml, raced, received, queue, at, target, seen, answer, crashes>>

OdooSync(t) ==
  /\ pc[t] = "odoo"
  /\ \E created \in BOOLEAN, result \in {"FAILED", "SYNCED_DRAFT", "SYNCED_TO_ODOO"} :
       /\ result # "FAILED" => created
       /\ moves' = IF created THEN [moves EXCEPT ![target[t]] = @ + 1] ELSE moves
       /\ work' = [work EXCEPT
            ![t].odoo = Set(seen[t].odoo, @, result),
            ![t].state = IF result = "FAILED" THEN @
                         ELSE IF t \in Jobs THEN map_remote_status(answer[t])
                         ELSE "SYNCED_TO_ODOO"]
  /\ pc' = [pc EXCEPT ![t] = "commit"]
  /\ UNCHANGED <<durable, xml, raced, received, queue, at, target, seen, answer, crashes>>

----------------------------------------------------------------------------
\* DGII and the processes.

DgiiDecides(s) ==
  /\ received[s] = "EN_PROCESO"
  /\ \E v \in Verdicts : received' = [received EXCEPT ![s] = v]
  /\ UNCHANGED <<durable, xml, raced, moves, queue, pc, at, target, local, crashes>>

\* A worker process dies: its transactions roll back, its queue was in memory.
Dies(w) ==
  /\ End({t \in Tx : at[t] = w /\ pc[t] \in Running \cup {"queued"}})
  /\ queue' = [queue EXCEPT ![w] = <<>>]
  /\ UNCHANGED <<durable, outside>>

Crash(w) == crashes < MaxCrashes /\ Dies(w) /\ crashes' = crashes + 1

KillNever(w) == FALSE

\* gunicorn's timeout: the event loop of w has been stopped for too long.
Kill(w) ==
  /\ Watchdog
  /\ \E t \in Requests : pc[t] = "blocked" /\ at[t] = w /\ ~RowFree(target[t])
  /\ Dies(w) /\ UNCHANGED crashes

SubmitStep(s) == \/ SubmitSign(s) \/ SubmitStore(s) \/ SubmitFailsEarly(s)
                 \/ SubmitSend(s) \/ SubmitRegister(s) \/ SubmitFailsLate(s)
RetryStep(r)  == \/ RetryMark(r) \/ RetryQuery(r) \/ RetryApply(r) \/ RetryFails(r)
PollStep(s)   == \/ PollFetch(s) \/ PollDrops(s) \/ PollRead(s) \/ PollApply(s)

Next ==
  \/ \E s \in Submits : \/ SubmitStep(s) \/ PollStep(s) \/ DgiiDecides(s)
                        \/ \E o \in Ops, w \in Workers : SubmitBegin(s, o, w)
  \/ \E r \in Retries : \/ RetryStep(r)
                        \/ \E o \in Ops, w \in Workers : RetryBegin(r, o, w)
  \/ \E t \in Tx : Commit(t) \/ OdooSync(t)
  \/ \E w \in Workers : PollTake(w) \/ Crash(w) \/ Kill(w)

\* The event loops, the database and the remote services make progress, and
\* gunicorn's arbiter runs; nobody is obliged to POST.
Fairness ==
  /\ \A s \in Submits : /\ WF_vars(SubmitStep(s)) /\ WF_vars(PollStep(s))
                        /\ WF_vars(DgiiDecides(s))
  /\ \A r \in Retries : WF_vars(RetryStep(r))
  /\ \A t \in Tx : WF_vars(Commit(t)) /\ WF_vars(OdooSync(t))
  /\ \A w \in Workers : WF_vars(PollTake(w)) /\ WF_vars(Kill(w))

Spec     == Init /\ [][Next]_vars
FairSpec == Spec /\ Fairness

----------------------------------------------------------------------------
\* Properties.

\* Every variable holds a value of its kind.
TypeOK ==
  /\ db \in [Ops -> Row] /\ usage \subseteq Submits
  /\ retryEvents \in [Ops -> Nat] /\ moves \in [Ops -> Nat] /\ crashes \in Nat
  /\ xml \in [Encfs -> Ops \cup {None}] /\ raced \subseteq Encfs
  /\ received \in [Submits -> Answers \cup {None}]
  /\ queue \in [Workers -> Seq(Submits)]
  /\ pc \in [Tx -> Running \cup {"idle", "queued", "done"}]
  /\ at \in [Tx -> Workers \cup {None}] /\ target \in [Tx -> Ops \cup {None}]
  /\ seen \in [Tx -> Row] /\ work \in [Tx -> Row]
  /\ answer \in [Tx -> Answers \cup {None}]

\* A row has one writer at a time: the same document is never in flight to DGII
\* or to Odoo from two transactions at once, whatever was POSTed concurrently.
OneInFlight ==
  \A t, u \in Tx : Holds(t) /\ Holds(u) /\ target[t] = target[u] => t = u

\* Two POSTs of a document that is not there yet cannot both create it: the one
\* that loses the unique key fails before its document reaches DGII.
NoDoubleCreate ==
  \A s \in Submits : Holds(s) /\ ~Exists(seen[s]) => ~Exists(db[target[s]])

\* A committed operation is complete: its track id is of a submission of this
\* very document that DGII received, and its invoice's track id is billed.
RegisteredIsBilled ==
  \A o \in Ops : Exists(db[o]) =>
    /\ db[o].track # None /\ received[db[o].track] # None /\ target[db[o].track] = o
    /\ db[o].invTrack \in usage /\ target[db[o].invTrack] = o

\* Nobody is charged for a document DGII did not get, nor without an operation.
BilledIsReceived ==
  \A s \in usage : received[s] # None /\ Exists(db[target[s]])

\* A final state is one DGII gave to some submission of the document.
FinalStateIsDgiis ==
  \A o \in Ops : Exists(db[o]) /\ db[o].state \in FINAL_OPERATION_STATES =>
    \E s \in Submits : target[s] = o /\ map_remote_status(received[s]) = db[o].state

\* What DGII said of an earlier submission never lands on the invoice, which
\* carries the track id of the last one.
InvoiceIsDgiis ==
  \A o \in Ops : Exists(db[o]) =>
    db[o].invEstado \in {"EN_PROCESO", received[db[o].invTrack]}

\* The invoice of a document moves on only: to a submission that is charged in the
\* same commit, never back to an earlier one, and once it has the final answer of
\* its submission no check or retry takes that from it.
InvoiceVerdictStands ==
  [][\A o \in Ops : Exists(db[o]) =>
       IF db'[o].invTrack = db[o].invTrack
       THEN db[o].invEstado \in FinalAnswers => db'[o].invEstado = db[o].invEstado
       ELSE db'[o].invTrack \in usage' \ usage]_vars

\* The signed XML on disk is that of the document the operation was sent with, whatever
\* other documents with its number are submitted, fail or are rolled back.  The exception
\* is a number of which two workers have looked for the file before either wrote it.
SignedFileKept == \A o \in Ops : Exists(db[o]) => xml[EncfOf[o]] = o \/ EncfOf[o] \in raced

\* The books say synchronised only when Odoo holds a move of the operation.
SyncedHasMove ==
  \A o \in Ops : db[o].odoo \in {"SYNCED_DRAFT", "SYNCED_TO_ODOO"} => moves[o] > 0

\* As long as nobody retries it, only a document DGII accepted reaches the accounts.
OnlyAcceptedInBooks ==
  \A o \in Ops : moves[o] > 0 /\ (\A r \in Retries : target[r] # o) =>
    \E s \in Submits : target[s] = o /\ map_remote_status(received[s]) \in AcceptedStates

\* Every request ends, even when handlers of one worker stop its event loop
\* waiting for a row whose holder needs that loop to go on.
RequestsFinish == \A t \in Requests : (pc[t] = "blocked") ~> (pc[t] = "done")

----------------------------------------------------------------------------
\* The pipeline implements FiscalLedger: DGII's register, the committed rows,
\* the charges and Odoo's moves change together only as the ledger allows, and
\* nothing else the transactions do can be seen there.
Ledger == INSTANCE FiscalLedger WITH
  Documents <- Ops, Submissions <- Submits,
  dgii   <- [s \in {q \in Submits : received[q] # None} |->
              [document |-> target[s], answer |-> received[s]]],
  ledger <- [o \in {p \in Ops : Exists(db[p])} |->
              [state   |-> IF db[o].state \in FINAL_OPERATION_STATES THEN db[o].state ELSE "open",
               track   |-> db[o].track, invoice |-> db[o].invTrack, estado |-> db[o].invEstado,
               synced  |-> db[o].odoo \in {"SYNCED_DRAFT", "SYNCED_TO_ODOO"}]],
  billed <- usage,
  books  <- {o \in Ops : moves[o] > 0}

ImplementsLedger == Ledger!Spec

----------------------------------------------------------------------------
\* What the documents say of the pipeline and the code does not do.

\* A document that was sent and registered is not sent again.
SentOnce == \A s, u \in usage : target[s] = target[u] => s = u

\* An operation with a final state keeps one: concurrent checks do not undo it.
FinalStateKept ==
  [][\A o \in Ops : db[o].state \in FINAL_OPERATION_STATES
                      => db'[o].state \in FINAL_OPERATION_STATES]_vars

\* A document DGII received has its track id in the database in the end.
TrackIdPersisted ==
  \A s \in Submits : pc[s] = "done" /\ received[s] # None => s \in usage
=============================================================================

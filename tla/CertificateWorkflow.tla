------------------------ MODULE CertificateWorkflow ------------------------
(***************************************************************************)
(* The workflow in which a tenant obtains its signing certificate: the     *)
(* status of each case, the test document it files with DGII, the mailbox  *)
(* in which certificates arrive, and the reminders of human tasks.         *)
(*                                                                         *)
(* An actor is the background runner of a worker process, which goes       *)
(* through due reminders, mail and track ids for ever, or one request of   *)
(* an operator.  Every actor works in a database transaction of its own:   *)
(* `loaded` is the row as its session read it, `held` the rows it has      *)
(* flushed and therefore locks, `told` the events with a track id it has   *)
(* added.  Reminders, mail and plain requests run in threads; the track    *)
(* poll and the requests that ask DGII are coroutines, and one that waits  *)
(* for a row lock stops the event loop of its worker.                      *)
(***************************************************************************)
EXTENDS Naturals, Sequences, FiniteSets

CONSTANTS
  Cases,        \* case ids
  Tracks,       \* track ids: those DGII gives to test documents, SIM- ids, and any other
  Simulated,    \* the SIM- ids, which DGII does not know
  Reminders,
  Refused,      \* those whose message the mail server never takes
  Mails,        \* numbers of the messages in the mailbox
  CaseOf,       \* the case a message names
  Workers,      \* gunicorn worker processes
  Runners,      \* those whose reminder job is enabled
  Requests,     \* requests of operators; each is made once
  Menu,         \* what each request may ask for
  HostOf,       \* the worker that serves a request
  Start,        \* the cases, with the track ids they have, when the model starts
  Queue,        \* those of them that are ready, the oldest first
  Scheduled,    \* the reminders there are when the model starts
  Live,         \* CERTIFICATE_WORKFLOW_TRACK_POLL_LIVE
  Limit,        \* CERTIFICATE_WORKFLOW_TRACK_POLL_LIMIT
  MaxFaults,    \* bound on failed calls and crashed workers
  None          \* absent value

Actors == Runners \cup Requests
At(p)  == IF p \in Runners THEN p ELSE HostOf[p]

\* The endpoints: those that write to a case, those that ask DGII first, and those
\* that do one part of the runner's round; the others are one step.
Direct == {"status", "validate", "store", "smoke"}
Asking == {"check", "submit", "track"}
Parts  == {"due", "mails", "poll"}
Kinds  == Direct \cup Asking \cup Parts \cup {"intake", "schedule", "resolve"}

ALLOWED_TRANSITIONS ==
  [absent                        |-> {},
   PRECHECK_FAILED               |-> {"PRECHECK_OK"},
   PRECHECK_OK                   |-> {"PSC_SELECTED", "HUMAN_SUBMISSION_PENDING"},
   PSC_SELECTED                  |-> {"HUMAN_SUBMISSION_PENDING"},
   HUMAN_SUBMISSION_PENDING      |-> {"HUMAN_SUBMISSION_DONE", "PSC_UNDER_REVIEW"},
   HUMAN_SUBMISSION_DONE         |-> {"PSC_UNDER_REVIEW"},
   PSC_UNDER_REVIEW              |-> {"PSC_APPROVED", "PSC_NEEDS_CORRECTION"},
   PSC_NEEDS_CORRECTION          |-> {"HUMAN_SUBMISSION_PENDING", "PSC_UNDER_REVIEW"},
   PSC_APPROVED                  |-> {"CERTIFICATE_RECEIVED"},
   CERTIFICATE_RECEIVED          |-> {"CERTIFICATE_VALIDATED", "CERTIFICATE_VALIDATION_FAILED"},
   CERTIFICATE_VALIDATION_FAILED |-> {"CERTIFICATE_RECEIVED"},
   CERTIFICATE_VALIDATED         |-> {"SECRET_STORED", "SMOKE_TEST_FAILED"},
   SECRET_STORED                 |-> {"READY_FOR_DGII", "SMOKE_TEST_FAILED"},
   SMOKE_TEST_FAILED             |-> {"CERTIFICATE_VALIDATED", "SECRET_STORED"},
   READY_FOR_DGII                |-> {"IN_PRODUCTION_USE"},
   IN_PRODUCTION_USE             |-> {"RENEWAL_PENDING"},
   RENEWAL_PENDING               |-> {"RENEWED"},
   RENEWED                       |-> {"IN_PRODUCTION_USE"}]

WorkflowStatus == DOMAIN ALLOWED_TRANSITIONS

\* A row of psc_requests; no row is the status "absent".
PscRequest == [status : WorkflowStatus, secret_ref : {"none", "stored"}]
NoRow      == [status |-> "absent", secret_ref |-> "none"]

\* An event with a track id: of which case, after which latest one, and whether DGII
\* accepted the document or the simulation says so.
Event == [case : Cases, after : Tracks \cup {None}, track : Tracks,
          dgii_status : {"ACEPTADO", "SIMULATED", "OTHER"}]

ASSUME CasesAssumption ==
  /\ Start \in [Cases -> [row : PscRequest, track : Tracks \cup {None}]]
  /\ \A c \in Cases : Start[c].track # None =>
       Start[c].row.secret_ref = "stored" /\ Start[c].track \notin Simulated
  /\ \A c, d \in Cases : Start[c].track = Start[d].track /\ Start[c].track # None => c = d
  /\ Queue \in Seq(Cases) /\ \A i, j \in DOMAIN Queue : Queue[i] = Queue[j] => i = j
  /\ \A c \in Cases : (\E i \in DOMAIN Queue : Queue[i] = c) <=> Start[c].row.status = "READY_FOR_DGII"
  /\ IsFiniteSet(Cases) /\ IsFiniteSet(Reminders) /\ IsFiniteSet(Mails)
  /\ Mails \subseteq Nat /\ CaseOf \in [Mails -> Cases \cup {None}]
  /\ Simulated \subseteq Tracks /\ Scheduled \subseteq Reminders
  /\ Live \in BOOLEAN /\ Limit \in Nat /\ MaxFaults \in Nat
ASSUME ActorsAssumption ==
  /\ Runners \subseteq Workers /\ Runners \cap Requests = {}
  /\ Menu \in [Requests -> SUBSET Kinds] /\ HostOf \in [Requests -> Workers]
  /\ None \notin Cases \cup Tracks \cup Workers /\ Cases \cap Reminders = {}

VARIABLES
  db,           \* committed rows of psc_requests
  older,        \* updated_at: the pairs of ready cases of which the first is older
  track,        \* track id of the latest committed event of each case that has one
  accepted,     \* committed moves to production because of a track id, and who accepted
  named,        \* the track ids operators have named for a case
  filed,        \* DGII: the case each track id was given to
  verdict,      \* DGII: "pending", "ACEPTADO" or "RECHAZADO"
  reminder,     \* committed status of each reminder
  due,          \* reminders whose time has come, in the order of due_at
  tried,        \* reminders whose notification was gone through without an error
  inbox,        \* unseen messages
  pc, kind,     \* where each actor is, and what it does
  todo,         \* reminders, messages or cases an actor has yet to work on
  asked,        \* the track id it asks DGII for
  loaded,       \* the row its session read
  held,         \* rows it has flushed and not committed
  told,         \* events with a track id it has added and not committed
  faults

rows    == <<db, older, track, accepted, named>>
dgii    == <<filed, verdict>>
reminds == <<reminder, due, tried>>
local   == <<todo, asked, loaded, held, told>>
vars    == <<rows, dgii, reminds, inbox, pc, kind, local, faults>>

\* The members of S in the order R.
Sorted(S, R) ==
  {s \in [1..Cardinality(S) -> S] : \A i, j \in DOMAIN s : i < j => <<s[i], s[j]>> \in R}

ReadyIn(table) == {c \in Cases : table[c].status = "READY_FOR_DGII"}

Init ==
  /\ db = [c \in Cases |-> Start[c].row]
  /\ older = {e \in Cases \X Cases : \E i, j \in DOMAIN Queue : i < j /\ e = <<Queue[i], Queue[j]>>}
  /\ track = [c \in Cases |-> Start[c].track] /\ accepted = {} /\ named = {}
  /\ filed = [t \in Tracks |-> IF \E c \in Cases : Start[c].track = t
                                 THEN CHOOSE c \in Cases : Start[c].track = t ELSE None]
  /\ verdict = [t \in Tracks |-> "pending"]
  /\ reminder = [r \in Reminders |-> IF r \in Scheduled THEN "PENDING" ELSE "absent"]
  /\ due = <<>> /\ tried = {}
  /\ inbox = Mails
  /\ pc = [p \in Actors |-> "idle"] /\ kind = [p \in Actors |-> "runner"]
  /\ todo = [p \in Actors |-> <<>>] /\ asked = [p \in Actors |-> None]
  /\ loaded = [p \in Actors |-> NoRow]
  /\ held = [p \in Actors |-> {}] /\ told = [p \in Actors |-> {}]
  /\ faults = 0

----------------------------------------------------------------------------
\* Transactions and event loops.

RowFree(p, x) == \A q \in Actors \ {p} : x \notin held[q]
LoopFree(w)   == \A p \in Actors : ~(pc[p] = "blocked" /\ At(p) = w)
Awake(p)      == LoopFree(At(p))

\* The rows of `table` are committed; those of S were written and are the newest now.
Writes(table, S) ==
  LET ready == ReadyIn(table) IN
    /\ db' = table
    /\ older' = {e \in older : {e[1], e[2]} \subseteq ready \ S} \cup ((ready \ S) \X (ready \cap S))

\* The actors P have finished a piece of work and go on at `next`.
Ends(P, next) ==
  /\ pc'    = [p \in Actors |-> IF p \in P THEN next[p] ELSE pc[p]]
  /\ todo'  = [p \in Actors |-> IF p \in P THEN <<>> ELSE todo[p]]
  /\ asked' = [p \in Actors |-> IF p \in P THEN None ELSE asked[p]]
  /\ loaded' = [p \in Actors |-> IF p \in P THEN NoRow ELSE loaded[p]]
  /\ held'  = [p \in Actors |-> IF p \in P THEN {} ELSE held[p]]
  /\ told'  = [p \in Actors |-> IF p \in P THEN {} ELSE told[p]]
  /\ UNCHANGED kind

\* A request is over; a runner goes on with the next part of its round.
End(p, next) == Ends({p}, [q \in Actors |-> IF q \in Runners THEN next ELSE "done"])

Fault == faults < MaxFaults /\ faults' = faults + 1

\* An operator makes request p, of kind k.
Asked(p, k) == p \in Requests /\ pc[p] = "idle" /\ k \in Menu[p]

Goes(p, from, to) == pc[p] = from /\ pc' = [pc EXCEPT ![p] = to]

----------------------------------------------------------------------------
\* Reminders: process_due_reminders of the runner, and its endpoint.

\* The runner starts a round every poll interval.
due_reminders(p) ==
  /\ Goes(p, IF p \in Runners THEN "idle" ELSE "due", "notify")
  /\ \E batch \in Sorted({r \in Reminders : reminder[r] = "PENDING" /\ \E i \in DOMAIN due : due[i] = r},
                        {e \in Reminders \X Reminders :
                           \E i, j \in DOMAIN due : i < j /\ e = <<due[i], due[j]>>}) :
       todo' = [todo EXCEPT ![p] = batch]
  /\ UNCHANGED <<rows, dgii, reminds, inbox, kind, asked, loaded, held, told, faults>>

\* Whether anything leaves is not known: a webhook that fails is passed over, and
\* without webhook, address or mail server there is nothing to send.
notify_reminder_due(p) ==
  /\ todo[p] # <<>> /\ Head(todo[p]) \notin Refused /\ Goes(p, "notify", "mark")
  /\ tried' = tried \cup {Head(todo[p])}
  /\ UNCHANGED <<rows, dgii, reminder, due, inbox, kind, local, faults>>

SkipsFailure(p) ==
  /\ todo[p] # <<>> /\ Goes(p, "notify", "mark") /\ Fault
  /\ UNCHANGED <<rows, dgii, reminds, inbox, kind, local>>

\* The mail server refuses the message: the whole batch rolls back, messages of
\* which have left.
NotifyFails(p) ==
  /\ pc[p] = "notify" /\ todo[p] # <<>>
  /\ (Head(todo[p]) \in Refused /\ UNCHANGED faults) \/ Fault
  /\ End(p, "mails") /\ UNCHANGED <<rows, dgii, reminds, inbox>>

MarkForgotten(p) ==
  /\ Goes(p, "mark", "notify") /\ RowFree(p, Head(todo[p]))
  /\ todo' = [todo EXCEPT ![p] = Tail(@)]
  /\ UNCHANGED <<rows, dgii, reminds, inbox, kind, asked, loaded, held, told, faults>>

MarkNotified(p) ==
  /\ Goes(p, "mark", "notify") /\ RowFree(p, Head(todo[p]))
  /\ held' = [held EXCEPT ![p] = @ \cup {Head(todo[p])}]
  /\ todo' = [todo EXCEPT ![p] = Tail(@)]
  /\ UNCHANGED <<rows, dgii, reminds, inbox, kind, asked, loaded, told, faults>>

NotifyCommits(p) ==
  /\ pc[p] = "notify" /\ todo[p] = <<>>
  /\ reminder' = [r \in Reminders |-> IF r \in held[p] THEN "OVERDUE_NOTIFIED" ELSE reminder[r]]
  /\ End(p, "mails") /\ UNCHANGED <<rows, dgii, due, tried, inbox, faults>>

schedule_reminder(p, r) ==
  /\ Asked(p, "schedule") /\ reminder[r] = "absent"
  /\ reminder' = [reminder EXCEPT ![r] = "PENDING"]
  /\ End(p, "done") /\ UNCHANGED <<rows, dgii, due, tried, inbox, faults>>

ResolveAsDone(p, r) ==
  /\ Asked(p, "resolve") /\ reminder[r] # "absent" /\ RowFree(p, r)
  /\ reminder' = [reminder EXCEPT ![r] = "DONE"]
  /\ End(p, "done") /\ UNCHANGED <<rows, dgii, due, tried, inbox, faults>>

resolve_reminder(p, r) ==
  /\ Asked(p, "resolve") /\ reminder[r] # "absent" /\ RowFree(p, r)
  /\ reminder' = [reminder EXCEPT ![r] = "RESOLVED"]
  /\ End(p, "done") /\ UNCHANGED <<rows, dgii, due, tried, inbox, faults>>

----------------------------------------------------------------------------
\* Mail intake: process_certificate_mail_intake of the runner, and its endpoint.

\* The newest message comes first.
SearchUnseen(p) ==
  /\ inbox # {} /\ Goes(p, "mails", "fetch")
  /\ \E batch \in Sorted(inbox, {e \in Mails \X Mails : e[1] > e[2]}) :
       todo' = [todo EXCEPT ![p] = batch]
  /\ UNCHANGED <<rows, dgii, reminds, inbox, kind, asked, loaded, held, told, faults>>

\* Fetching a message marks it as seen.  One that names no case is passed over.
Fetch(p) ==
  /\ pc[p] = "fetch" /\ todo[p] # <<>>
  /\ LET c == CaseOf[Head(todo[p])] IN
       IF c \in Cases /\ db[c].status # "absent"
         THEN /\ pc' = [pc EXCEPT ![p] = "intake"]
              /\ loaded' = [loaded EXCEPT ![p] = db[c]] /\ UNCHANGED todo
         ELSE todo' = [todo EXCEPT ![p] = Tail(@)] /\ UNCHANGED <<pc, loaded>>
  /\ inbox' = inbox \ {Head(todo[p])}
  /\ UNCHANGED <<rows, dgii, reminds, kind, asked, held, told, faults>>

\* Received without password, invalid, valid but not stored, or stored.  A status
\* like the one the session read is not written.
MailCommits(p) ==
  /\ Goes(p, "intake", "fetch")
  /\ LET c == CaseOf[Head(todo[p])] IN
       /\ RowFree(p, c)
       /\ \E s \in {"CERTIFICATE_RECEIVED", "CERTIFICATE_VALIDATION_FAILED",
                    "CERTIFICATE_VALIDATED", "SECRET_STORED"} :
            LET kept == s = "CERTIFICATE_RECEIVED" /\ loaded[p].status = s
            IN Writes([db EXCEPT ![c] =
                 [status     |-> IF kept THEN @.status ELSE s,
                  secret_ref |-> IF s = "SECRET_STORED" THEN "stored" ELSE @.secret_ref]],
                 IF kept THEN {} ELSE {c})
  /\ todo' = [todo EXCEPT ![p] = Tail(@)]
  /\ UNCHANGED <<track, accepted, named, dgii, reminds, inbox, kind, asked, loaded, held, told, faults>>

\* An exception ends the intake; the message it was at stays seen.
MailFails(p) ==
  /\ pc[p] = "intake" /\ Fault
  /\ End(p, "poll") /\ UNCHANGED <<rows, dgii, reminds, inbox>>

MailDone(p) ==
  /\ \/ pc[p] = "fetch" /\ todo[p] = <<>>
     \/ pc[p] = "mails" /\ inbox = {}
  /\ End(p, "poll") /\ UNCHANGED <<rows, dgii, reminds, inbox, faults>>

----------------------------------------------------------------------------
\* Track poll: process_ready_cases_track_poll of the runner, and its endpoint.

\* The runner polls as the setting says, a request as it asks.
list_requests_by_status(p) ==
  /\ Goes(p, "poll", "next") /\ Awake(p)
  /\ \E live \in IF p \in Runners THEN {Live} ELSE BOOLEAN :
       kind' = [kind EXCEPT ![p] = IF live THEN "live" ELSE "simulated"]
  /\ \E batch \in Sorted({c \in ReadyIn(db) : Cardinality({d \in ReadyIn(db) : <<d, c>> \in older}) < Limit},
                        older) :
       todo' = [todo EXCEPT ![p] = batch]
  /\ UNCHANGED <<rows, dgii, reminds, inbox, asked, loaded, held, told, faults>>

UntrackedStops(p) ==
  /\ pc[p] = "next" /\ todo[p] # <<>> /\ Awake(p)
  /\ LET t == track[Head(todo[p])] IN
       IF t = None
         THEN todo' = [todo EXCEPT ![p] = <<>>] /\ UNCHANGED <<pc, asked>>
         ELSE /\ pc' = [pc EXCEPT ![p] = "polling"]
              /\ asked' = [asked EXCEPT ![p] = t] /\ UNCHANGED todo
  /\ UNCHANGED <<rows, dgii, reminds, inbox, kind, loaded, held, told, faults>>

LatestOfAny(p) ==
  /\ pc[p] = "next" /\ todo[p] # <<>> /\ Awake(p)
  /\ \E c \in Cases : LET t == track[c] IN
       IF t = None
         THEN todo' = [todo EXCEPT ![p] = Tail(@)] /\ UNCHANGED <<pc, asked>>
         ELSE /\ pc' = [pc EXCEPT ![p] = "polling"]
              /\ asked' = [asked EXCEPT ![p] = t] /\ UNCHANGED todo
  /\ UNCHANGED <<rows, dgii, reminds, inbox, kind, loaded, held, told, faults>>

\* A case without a track id is passed over.
_extract_track_id(p) ==
  /\ pc[p] = "next" /\ todo[p] # <<>> /\ Awake(p)
  /\ LET t == track[Head(todo[p])] IN
       IF t = None
         THEN todo' = [todo EXCEPT ![p] = Tail(@)] /\ UNCHANGED <<pc, asked>>
         ELSE /\ pc' = [pc EXCEPT ![p] = "polling"]
              /\ asked' = [asked EXCEPT ![p] = t] /\ UNCHANGED todo
  /\ UNCHANGED <<rows, dgii, reminds, inbox, kind, loaded, held, told, faults>>

\* The actor adds an event of case c.
Tells(p, c, t, said) ==
  told' = [told EXCEPT ![p] =
    @ \cup {[case |-> c, after |-> track[c], track |-> t, dgii_status |-> said]}]

VerdictUnlessRejected(t) == IF verdict[t] # "RECHAZADO" THEN "ACEPTADO" ELSE "OTHER"

\* What DGII says of a track id, also of one it does not know.
Verdict(t) == IF verdict[t] = "ACEPTADO" THEN "ACEPTADO" ELSE "OTHER"

\* get_status answers, or is not called.  ACEPTADO moves the case, whatever its
\* status is by now.
PollAnswered(p) ==
  /\ pc[p] = "polling" /\ Awake(p)
  /\ LET said == IF kind[p] = "live" THEN Verdict(asked[p]) ELSE "OTHER"
         yes  == said = "ACEPTADO" IN
       /\ Tells(p, Head(todo[p]), asked[p], said)
       /\ pc' = [pc EXCEPT ![p] = IF yes THEN "blocked" ELSE "next"]
       /\ todo' = [todo EXCEPT ![p] = IF yes THEN @ ELSE Tail(@)]
  /\ UNCHANGED <<rows, dgii, reminds, inbox, kind, asked, loaded, held, faults>>

PollFailed(p) ==
  /\ kind[p] = "live" /\ Goes(p, "polling", "next") /\ Awake(p) /\ Fault
  /\ Tells(p, Head(todo[p]), asked[p], "OTHER")
  /\ todo' = [todo EXCEPT ![p] = Tail(@)]
  /\ UNCHANGED <<rows, dgii, reminds, inbox, kind, asked, loaded, held>>

\* The UPDATE of a coroutine: the loop of its worker stands until it has the row.
transition_status(p) ==
  /\ pc[p] = "blocked" /\ RowFree(p, Head(todo[p]))
  /\ held' = [held EXCEPT ![p] = @ \cup {Head(todo[p])}]
  /\ todo' = [todo EXCEPT ![p] = Tail(@)]
  /\ pc' = [pc EXCEPT ![p] = "next"]
  /\ UNCHANGED <<rows, dgii, reminds, inbox, kind, asked, loaded, told, faults>>

\* session_scope.  An event added after the latest one is the latest now; if another
\* transaction committed one meanwhile, either may have the higher id.
Commit(p) ==
  /\ pc[p] = "next" /\ todo[p] = <<>> /\ Awake(p)
  /\ Writes([c \in Cases |-> IF c \in held[p] THEN [db[c] EXCEPT !.status = "IN_PRODUCTION_USE"]
                             ELSE db[c]], held[p])
  /\ \E keep \in SUBSET {e.case : e \in {x \in told[p] : track[x.case] # x.after}} :
       track' = [c \in Cases |->
         IF c \notin keep /\ \E e \in told[p] : e.case = c
           THEN (CHOOSE e \in told[p] : e.case = c).track ELSE track[c]]
  /\ accepted' = accepted \cup
       {<<e.case, e.track, e.dgii_status>> :
          e \in {x \in told[p] : x.dgii_status # "OTHER" /\ x.case \in held[p]}}
  /\ End(p, "idle") /\ UNCHANGED <<named, dgii, reminds, inbox, faults>>

----------------------------------------------------------------------------
\* Requests that write a status without asking DGII.

create_intake(p, c) ==
  /\ Asked(p, "intake") /\ db[c].status = "absent"
  /\ \E s \in {"PRECHECK_OK", "PRECHECK_FAILED"} : Writes([db EXCEPT ![c].status = s], {c})
  /\ End(p, "done") /\ UNCHANGED <<track, accepted, named, dgii, reminds, inbox, faults>>

\* The request k of an operator reads the case.
Load(p, k, c) ==
  /\ Asked(p, k) /\ Goes(p, "idle", "loaded") /\ db[c].status # "absent"
  /\ kind' = [kind EXCEPT ![p] = k] /\ todo' = [todo EXCEPT ![p] = <<c>>]
  /\ loaded' = [loaded EXCEPT ![p] = db[c]]
  /\ UNCHANGED <<rows, dgii, reminds, inbox, asked, held, told, faults>>

\* The status a request may give to a case it has read as row.
Targets(k, row) ==
  CASE k = "status"   -> ALLOWED_TRANSITIONS[row.status]
    [] k = "validate" -> {"CERTIFICATE_VALIDATED", "CERTIFICATE_VALIDATION_FAILED"}
    [] k = "store"    -> {"SECRET_STORED"}
    [] k = "smoke"    -> IF row.secret_ref = "stored" THEN {"READY_FOR_DGII", "SMOKE_TEST_FAILED"} ELSE {}

\* SQLAlchemy writes only a status unlike the one the session read.
Write(p) ==
  /\ pc[p] = "loaded"
  /\ LET c == Head(todo[p]) IN
       /\ RowFree(p, c)
       /\ \E s \in Targets(kind[p], loaded[p]) :
            LET row == [status     |-> IF s = loaded[p].status THEN db[c].status ELSE s,
                        secret_ref |-> IF kind[p] = "store" THEN "stored" ELSE db[c].secret_ref]
            IN Writes([db EXCEPT ![c] = row],
                      IF s = loaded[p].status /\ row = db[c] THEN {} ELSE {c})
  /\ End(p, "done") /\ UNCHANGED <<track, accepted, named, dgii, reminds, inbox, faults>>

\* 409, a certificate or secret that cannot be read, a store that does not answer.
Reject(p) ==
  /\ pc[p] = "loaded"
  /\ End(p, "done") /\ UNCHANGED <<rows, dgii, reminds, inbox, faults>>

----------------------------------------------------------------------------
\* Requests that ask DGII: dgii-certification-check, submit-test-ecf, track-status
\* and its poll.  Each has a simulated mode, its default, that goes on without DGII.

MayAsk(k, row, t) ==
  CASE k = "check"  -> row.status \in {"READY_FOR_DGII", "SECRET_STORED", "IN_PRODUCTION_USE"}
    [] k = "submit" -> row.status \in {"READY_FOR_DGII", "IN_PRODUCTION_USE"} /\ row.secret_ref = "stored"
    [] k = "track"  -> t # None

\* The latest track id of the case is taken, unless the operator names one: any.
Ask(p, k, c) ==
  /\ Asked(p, k) /\ Goes(p, "idle", "asking") /\ Awake(p)
  /\ \/ /\ MayAsk(k, db[c], track[c]) /\ UNCHANGED named
        /\ asked' = [asked EXCEPT ![p] = IF k = "track" THEN track[c] ELSE None]
     \/ \E t \in Tracks :
          /\ k = "track" /\ named' = named \cup {<<c, t>>}
          /\ asked' = [asked EXCEPT ![p] = t]
  /\ db[c].status # "absent"
  /\ kind' = [kind EXCEPT ![p] = k]
  /\ todo' = [todo EXCEPT ![p] = <<c>>] /\ loaded' = [loaded EXCEPT ![p] = db[c]]
  /\ UNCHANGED <<db, older, track, accepted, dgii, reminds, inbox, held, told, faults>>

\* The handler goes on with the row it read before it asked DGII.
Moves(p, wanted) ==
  LET moves == wanted /\ "IN_PRODUCTION_USE" \in ALLOWED_TRANSITIONS[loaded[p].status]
  IN /\ pc' = [pc EXCEPT ![p] = IF moves THEN "blocked" ELSE "next"]
     /\ todo' = [todo EXCEPT ![p] = IF moves THEN @ ELSE <<>>]

Checked(p) ==
  /\ pc[p] = "asking" /\ kind[p] = "check" /\ Awake(p)
  /\ \E transition_to_in_production \in BOOLEAN : Moves(p, transition_to_in_production)
  /\ UNCHANGED <<rows, dgii, reminds, inbox, kind, asked, loaded, held, told, faults>>

\* DGII takes a document of case c.  The client repeats a call that gets no answer, so
\* it may have it under several track ids.
Files(c, new) ==
  /\ \A t \in new : filed[t] = None /\ t \notin Simulated
  /\ filed' = [t \in Tracks |-> IF t \in new THEN c ELSE filed[t]]

\* Simulated, or if the answer has no track id, the SIM- id is stored.
Submitted(p) ==
  /\ pc[p] = "asking" /\ kind[p] = "submit" /\ Awake(p)
  /\ \E new \in SUBSET Tracks, transition_to_in_production \in BOOLEAN :
       /\ Files(Head(todo[p]), new)
       /\ \E t \in new \cup Simulated : Tells(p, Head(todo[p]), t, "OTHER")
       /\ Moves(p, transition_to_in_production)
  /\ UNCHANGED <<rows, verdict, reminds, inbox, kind, asked, loaded, held, faults>>

\* track-status stops here; its poll moves an accepted case.  The simulated poll gives
\* ACEPTADO at the last of several attempts, and nothing but EN_PROCESO before.
Tracked(p) ==
  /\ pc[p] = "asking" /\ kind[p] = "track" /\ Awake(p)
  /\ \E poll \in BOOLEAN, said \in {Verdict(asked[p]), "SIMULATED", "OTHER"} :
       /\ said = "SIMULATED" => poll
       /\ Tells(p, Head(todo[p]), asked[p], said)
       /\ Moves(p, poll /\ said # "OTHER")
  /\ UNCHANGED <<rows, dgii, reminds, inbox, kind, asked, loaded, held, faults>>

\* DGII cannot be reached: 502, and the event of it is rolled back too.  A document
\* that was submitted may have arrived.
AskFails(p) ==
  /\ pc[p] = "asking" /\ Awake(p) /\ Fault
  /\ \/ UNCHANGED filed
     \/ /\ kind[p] = "submit"
        /\ \E new \in SUBSET Tracks : Files(Head(todo[p]), new)
  /\ End(p, "done") /\ UNCHANGED <<rows, verdict, reminds, inbox>>

\* process-due, mail-intake/process and track-status/process-ready: a request does
\* one part of the runner's round.
Process(p, part) ==
  /\ Asked(p, part) /\ Goes(p, "idle", part)
  /\ UNCHANGED <<rows, dgii, reminds, inbox, kind, local, faults>>

----------------------------------------------------------------------------
\* The surroundings.

\* The time of a reminder comes.
Tick(r) ==
  /\ reminder[r] # "absent" /\ \A i \in DOMAIN due : due[i] # r
  /\ due' = Append(due, r)
  /\ UNCHANGED <<rows, dgii, reminder, tried, inbox, pc, kind, local, faults>>

\* DGII decides on a test document it was sent.
Decide(t) ==
  /\ filed[t] # None /\ verdict[t] = "pending"
  /\ \E v \in {"ACEPTADO", "RECHAZADO"} : verdict' = [verdict EXCEPT ![t] = v]
  /\ UNCHANGED <<rows, filed, reminds, inbox, pc, kind, local, faults>>

\* The actors of worker w are gone, with their transactions.
Restart(w) ==
  /\ Ends({p \in Actors : At(p) = w /\ pc[p] \notin {"idle", "done"}},
          [p \in Actors |-> IF p \in Runners THEN "idle" ELSE "done"])
  /\ UNCHANGED <<rows, dgii, reminds, inbox>>

\* gunicorn's arbiter kills a worker whose event loop stands.
Kill(w) ==
  /\ \E p \in Actors : At(p) = w /\ pc[p] = "blocked" /\ ~RowFree(p, Head(todo[p]))
  /\ Restart(w) /\ UNCHANGED faults

Crash(w) ==
  /\ \E p \in Actors : At(p) = w /\ pc[p] \notin {"idle", "done"}
  /\ Fault /\ Restart(w)
----------------------------------------------------------------------------
\* The steps of an actor that has begun something, whatever way they end.
Step(p) ==
  \/ due_reminders(p) \/ notify_reminder_due(p) \/ NotifyFails(p) \/ MarkNotified(p) \/ NotifyCommits(p)
  \/ SearchUnseen(p) \/ Fetch(p) \/ MailCommits(p) \/ MailFails(p) \/ MailDone(p)
  \/ list_requests_by_status(p) \/ _extract_track_id(p) \/ PollAnswered(p) \/ PollFailed(p)
  \/ transition_status(p) \/ Commit(p)
  \/ Write(p) \/ Reject(p)
  \/ Checked(p) \/ Submitted(p) \/ Tracked(p) \/ AskFails(p)

\* What an operator may ask for.
Request(p) ==
  \/ \E r \in Reminders : schedule_reminder(p, r) \/ resolve_reminder(p, r)
  \/ \E c \in Cases : create_intake(p, c)
  \/ \E c \in Cases, k \in Direct : Load(p, k, c)
  \/ \E c \in Cases, k \in Asking : Ask(p, k, c)
  \/ \E part \in Parts : Process(p, part)

Next ==
  \/ \E p \in Actors : Step(p) \/ Request(p)
  \/ \E r \in Reminders : Tick(r)
  \/ \E t \in Tracks : Decide(t)
  \/ \E w \in Workers : Kill(w) \/ Crash(w)

Spec == Init /\ [][Next]_vars

\* What has begun goes on, runners wake and the arbiter does its work.
Fairness ==
  /\ \A p \in Actors : WF_vars(Step(p))
  /\ \A w \in Workers : WF_vars(Kill(w))
FairSpec == Spec /\ Fairness

----------------------------------------------------------------------------
\* Properties.

\* Every variable holds a value of its kind.
TypeOK ==
  /\ db \in [Cases -> PscRequest] /\ older \subseteq Cases \X Cases
  /\ track \in [Cases -> Tracks \cup {None}] /\ named \subseteq Cases \X Tracks
  /\ accepted \subseteq Cases \X Tracks \X {"ACEPTADO", "SIMULATED"}
  /\ filed \in [Tracks -> Cases \cup {None}]
  /\ verdict \in [Tracks -> {"pending", "ACEPTADO", "RECHAZADO"}]
  /\ reminder \in [Reminders -> {"absent", "PENDING", "OVERDUE_NOTIFIED", "RESOLVED"}]
  /\ due \in Seq(Reminders) /\ tried \subseteq Reminders /\ inbox \subseteq Mails
  /\ pc \in [Actors -> {"idle", "due", "notify", "mark", "mails", "fetch", "intake", "poll", "next",
                        "polling", "blocked", "loaded", "asking", "done"}]
  /\ kind \in [Actors -> {"runner"} \cup Direct \cup Asking \cup {"live", "simulated"}]
  /\ todo \in [Actors -> Seq(Cases \cup Reminders \cup Mails)]
  /\ asked \in [Actors -> Tracks \cup {None}] /\ loaded \in [Actors -> PscRequest]
  /\ held \in [Actors -> SUBSET (Cases \cup Reminders)] /\ told \in [Actors -> SUBSET Event]
  /\ faults \in 0..MaxFaults

\* A case that goes to production on an answer of DGII does so for a document DGII
\* accepted: one filed for this very case and signed with a stored certificate, or one
\* whose track id an operator named for it, which nobody checks.  The poll an operator asks
\* for in simulated mode needs no document, and is not meant.
ProductionIsAccepted ==
  \A c \in Cases, t \in Tracks : <<c, t, "ACEPTADO">> \in accepted =>
    /\ verdict[t] = "ACEPTADO"
    /\ <<c, t>> \in named \/ (filed[t] = c /\ db[c].secret_ref = "stored")

\* A reminder is marked as notified only when its time has come and its notification was
\* gone through without an error, also when batches overlap, roll back or race with its
\* resolution.  Whether a message reached anyone is not known to the code.
OverdueIsTried ==
  \A r \in Reminders : reminder[r] = "OVERDUE_NOTIFIED" =>
    r \in tried /\ \E i \in DOMAIN due : due[i] = r

\* The actors keep the book of documents as CaseBook describes it: what one reads of
\* a document before it waits for DGII, a row or its loop still holds at its commit.
Book == INSTANCE CaseBook
          WITH stored <- {c \in Cases : db[c].secret_ref = "stored"}, latest <- track
ImplementsBook == Book!Spec

IsDue(r) == reminder[r] = "PENDING" /\ \E i \in DOMAIN due : due[i] = r

\* The runner sees to every due reminder, though calls fail and workers die now and then,
\* unless one is due that the mail server will never take: its batch, which is every
\* batch, rolls back each time, until somebody resolves it.
DueIsHandled ==
  \A r \in Reminders \ Refused : IsDue(r) ~> ~IsDue(r) \/ \E x \in Refused : IsDue(x)

\* The runner polls the track ids of the cases that are ready, if it is live: one that is
\* followed by an accepted document does not stay ready, although faults, mail and other
\* polls come between.  A status request of an operator may make it follow another id.
AcceptedMovesOn ==
  \A c \in Cases :
    LET waits == /\ db[c].status = "READY_FOR_DGII" /\ track[c] # None
                 /\ verdict[track[c]] = "ACEPTADO"
    IN waits ~> ~waits
=============================================================================

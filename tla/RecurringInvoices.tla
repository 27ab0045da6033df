------------------------- MODULE RecurringInvoices -------------------------
(***************************************************************************)
(* Recurring invoice schedules: RecurringInvoiceService, its runner (one   *)
(* RecurringInvoiceRunner in every worker process, plus the run-due        *)
(* endpoint) and the tenant's requests that pause, resume and edit.        *)
(*                                                                         *)
(* A batch is one database transaction over every due schedule.  It works  *)
(* on the rows it loaded, flushes with each invoice, and commits once at   *)
(* the end; any flush that fails rolls the whole batch back, but not the   *)
(* payload files it stored.  Storing a payload looks for the file and then *)
(* writes it, and may fail at any point.  Times are whole periods.         *)
(***************************************************************************)
EXTENDS Integers, FiniteSets

CONSTANTS
  Schedules, Tenants,
  TenantOf,   \* TenantOf[s]: the tenant of schedule s
  Starts,     \* values a user gives start_at
  Ends,       \* values a user gives end_at, with None for an open range
  Intervals,  \* periods between two occurrences, by the frequencies a user gives
  Statuses,   \* statuses a user gives in an edit, with None for an edit without one
  Batches,    \* runners and run-due requests that may overlap
  Users,      \* tenant requests that may overlap
  MaxTime,    \* bound on the clock
  MaxEdits,   \* bound on tenant requests
  MaxUpsets,  \* bound on changes of a tenant's plan or onboarding, batches that die and
              \* errors of the storage
  None

ASSUME SchedulesAssumption ==
  /\ TenantOf \in [Schedules -> Tenants] /\ Intervals \subseteq Nat \ {0}
  /\ Starts \subseteq Nat /\ Ends \subseteq Nat \cup {None} /\ None \notin Nat
  /\ Statuses \subseteq {"active", "paused", "completed", "cancelled", None}
  /\ MaxTime \in Nat /\ MaxEdits \in Nat /\ MaxUpsets \in Nat

Time == Nat \cup {None}
Row  == [status : {"absent", "active", "paused", "completed", "cancelled"},
         interval : Nat \ {0}, start : Time, end : Time, next : Time, last : Time]
Absent == [status |-> "absent", interval |-> 1,
           start |-> None, end |-> None, next |-> None, last |-> None]

\* A RecurringInvoiceExecution; a generated one has its Invoice.
Execution == [schedule : Schedules, at : Nat, status : {"generated", "failed"}]
Keys(X)   == {<<x.schedule, x.at>> : x \in X}

VARIABLES
  sched,    \* committed schedules
  execs,    \* committed executions
  files,    \* the payloads rec-{schedule}-{time}.json that exist
  can,      \* tenants that may schedule: onboarding completed and plan with recurrence
  now,
  pc, todo, cur, asOf,  \* a batch: its step, the schedules left, the one at hand, its clock
  loaded, mem,          \* the rows a batch loaded, and as it has changed them
  pend, flushed,        \* executions a batch has added; those it has flushed
  locked,               \* rows a batch has flushed
  ask, row,             \* a tenant's request, and the row it loaded
  edits, upsets

committed == <<sched, execs>>
session == <<todo, cur, asOf, loaded, mem, pend, flushed, locked>>
user    == <<ask, row>>
bounds  == <<edits, upsets>>
vars == <<committed, files, can, now, pc, session, user, bounds>>

Quiet == [kind |-> "none", schedule |-> None]

Init ==
  /\ sched = [s \in Schedules |-> Absent] /\ execs = {} /\ files = {}
  /\ can = Tenants /\ now = 0
  /\ pc = [b \in Batches |-> "idle"] /\ todo = [b \in Batches |-> {}]
  /\ cur = [b \in Batches |-> None] /\ asOf = [b \in Batches |-> 0]
  /\ loaded = [b \in Batches |-> [s \in Schedules |-> Absent]] /\ mem = loaded
  /\ pend = [b \in Batches |-> {}] /\ flushed = [b \in Batches |-> {}]
  /\ locked = [b \in Batches |-> {}]
  /\ ask = [u \in Users |-> Quiet] /\ row = [u \in Users |-> Absent]
  /\ edits = 0 /\ upsets = 0

Upset == upsets < MaxUpsets /\ upsets' = upsets + 1

Set(old, stored, new) == IF new = old THEN stored ELSE new

----------------------------------------------------------------------------
\* The tenant's requests: each reads the row and writes it in its transaction.

create_schedule(s, interval, start, end) ==
  /\ edits < MaxEdits /\ sched[s] = Absent /\ TenantOf[s] \in can
  /\ end # None => end >= start
  /\ sched' = [sched EXCEPT ![s] = [status |-> "active", interval |-> interval,
                                    start |-> start, end |-> end, next |-> start, last |-> None]]
  /\ edits' = edits + 1
  /\ UNCHANGED <<execs, files, can, now, pc, session, user, upsets>>

Asks(u, s, request) ==
  /\ edits < MaxEdits /\ ask[u] = Quiet /\ sched[s] # Absent
  /\ request.kind # "pause" => TenantOf[s] \in can
  /\ ask' = [ask EXCEPT ![u] = request] /\ row' = [row EXCEPT ![u] = sched[s]]
  /\ edits' = edits + 1
  /\ UNCHANGED <<committed, files, can, now, pc, session, upsets>>

\* The row of s is not waiting for a batch to commit.
RowFree(s) == \A b \in Batches : s \notin locked[b]

\* The attributes of the new row that differ from the loaded one are written.
Writes(u, new) ==
  LET s == ask[u].schedule IN
  /\ RowFree(s)
  /\ sched' = [sched EXCEPT ![s] = [f \in DOMAIN @ |-> Set(row[u][f], @[f], new[f])]]
  /\ ask' = [ask EXCEPT ![u] = Quiet] /\ row' = [row EXCEPT ![u] = Absent]
  /\ UNCHANGED <<execs, files, can, now, pc, session, bounds>>

PauseWritesRequest(u) ==
  /\ ask[u].kind = "pause"
  /\ Writes(u, [row[u] EXCEPT !.status = ask[u].kind])

pause_schedule(u) ==
  /\ ask[u].kind = "pause"
  /\ Writes(u, [row[u] EXCEPT !.status = "paused"])

resume_schedule(u) ==
  /\ ask[u].kind = "resume"
  /\ Writes(u, [row[u] EXCEPT !.status = "active",
       !.next = IF @ # None THEN @
                ELSE IF row[u].last = None THEN row[u].start
                ELSE row[u].last + row[u].interval])

\* An edit also moves the interval and the range, but never a date it finds.
update_schedule(u) ==
  LET status == IF ask[u].status = None THEN row[u].status ELSE ask[u].status IN
  /\ ask[u].kind = "update"
  /\ Writes(u, [row[u] EXCEPT !.status = status, !.interval = ask[u].interval,
       !.start = ask[u].start, !.end = ask[u].end,
       !.next = CASE status = "active" -> IF @ # None THEN @ ELSE ask[u].start
                  [] status \in {"completed", "cancelled"} -> None
                  [] OTHER -> @])

Requests(s) ==
  {[kind |-> k, schedule |-> s] : k \in {"pause", "resume"}} \cup
  {r \in [kind : {"update"}, schedule : {s}, status : Statuses, interval : Intervals,
          start : Starts, end : Ends] : r.end # None => r.end >= r.start}

----------------------------------------------------------------------------
\* run_due_schedules.

DueEarly(s) == sched[s].status = "active" /\ sched[s].next # None /\ sched[s].next <= now + 1

Due(s) == sched[s].status = "active" /\ sched[s].next # None /\ sched[s].next <= now

\* The SELECT: T is every tenant for the runner, one for the endpoint, which is
\* refused to a tenant that may not schedule.
Select(b, T) ==
  LET S == {s \in Schedules : TenantOf[s] \in T /\ Due(s)} IN
  /\ pc[b] = "idle" /\ S # {}
  /\ T = Tenants \/ \E t \in can : T = {t}
  /\ todo' = [todo EXCEPT ![b] = S] /\ asOf' = [asOf EXCEPT ![b] = now]
  /\ loaded' = [loaded EXCEPT ![b] = [s \in Schedules |-> IF s \in S THEN sched[s] ELSE Absent]]
  /\ mem' = [mem EXCEPT ![b] = loaded'[b]]
  /\ pc' = [pc EXCEPT ![b] = "next"]
  /\ UNCHANGED <<committed, files, can, now, cur, pend, flushed, locked, user, bounds>>

TakeSilent(b) ==
  \E s \in todo[b] :
    /\ pc[b] = "next" /\ \A o \in todo[b] : loaded[b][s].next <= loaded[b][o].next
    /\ todo' = [todo EXCEPT ![b] = @ \ {s}]
    /\ IF TenantOf[s] \in can
       THEN cur' = [cur EXCEPT ![b] = s] /\ pc' = [pc EXCEPT ![b] = "loop"] /\ UNCHANGED mem
       ELSE mem' = [mem EXCEPT ![b][s].status = "paused"] /\ UNCHANGED <<cur, pc>>
    /\ UNCHANGED <<committed, files, can, now, asOf, loaded, pend, flushed, locked, user, bounds>>

\* The next schedule, by next_run_at; that of a tenant that may not schedule is
\* paused, with a failed execution for the occurrence it does not run.
Take(b) ==
  \E s \in todo[b] :
    /\ pc[b] = "next" /\ \A o \in todo[b] : loaded[b][s].next <= loaded[b][o].next
    /\ todo' = [todo EXCEPT ![b] = @ \ {s}]
    /\ \/ /\ TenantOf[s] \in can
          /\ cur' = [cur EXCEPT ![b] = s] /\ pc' = [pc EXCEPT ![b] = "loop"]
          /\ UNCHANGED <<mem, pend>>
       \/ /\ TenantOf[s] \notin can
          /\ mem' = [mem EXCEPT ![b][s].status = "paused"]
          /\ pend' = [pend EXCEPT ![b] = @ \cup
               {[schedule |-> s, at |-> loaded[b][s].next, status |-> "failed"]}]
          /\ UNCHANGED <<cur, pc>>
    /\ UNCHANGED <<committed, files, can, now, asOf, loaded, flushed, locked, user, bounds>>

AdvancedTwice(m, t) == [m EXCEPT !.last = t, !.next = t + 2 * m.interval]

\* last_run_at, then _compute_next_or_finish.
Advanced(m, t) ==
  LET n == t + m.interval IN
  IF m.end # None /\ n > m.end
  THEN [m EXCEPT !.last = t, !.status = "completed", !.next = None]
  ELSE [m EXCEPT !.last = t, !.next = n]

\* Any exception of _materialize_invoice: the occurrence is recorded as failed.
Failed(b) ==
  LET s == cur[b]
      t == mem[b][s].next IN
  /\ pend' = [pend EXCEPT ![b] = @ \cup {[schedule |-> s, at |-> t, status |-> "failed"]}]
  /\ mem' = [mem EXCEPT ![b][s] = Advanced(mem[b][s], t)]

\* One turn of _run_schedule_due_occurrences, up to the look for the payload: it exists,
\* the storage fails, or it may be written.
Turn(b) ==
  LET s == cur[b]
      m == mem[b][s]
      t == m.next
      ran == <<s, t>> \in Keys(execs \cup flushed[b])
      due == t # None /\ t <= asOf[b] /\ m.status = "active"
      over == m.end # None /\ t > m.end
  IN
  /\ pc[b] = "loop"
  /\ \/ /\ ~due
        /\ pc' = [pc EXCEPT ![b] = "next"]
        /\ UNCHANGED <<mem, pend, upsets>>
     \/ /\ due /\ over
        /\ mem' = [mem EXCEPT ![b][s].status = "completed", ![b][s].next = None]
        /\ UNCHANGED <<pc, pend, upsets>>
     \/ /\ due /\ ~over /\ ran
        /\ mem' = [mem EXCEPT ![b][s] = Advanced(m, t)]
        /\ UNCHANGED <<pc, pend, upsets>>
     \/ /\ due /\ ~over /\ ~ran /\ <<s, t>> \in files
        /\ Failed(b) /\ UNCHANGED <<pc, upsets>>
     \/ /\ due /\ ~over /\ ~ran
        /\ Failed(b) /\ Upset /\ UNCHANGED pc
     \/ /\ due /\ ~over /\ ~ran /\ <<s, t>> \notin files
        /\ pc' = [pc EXCEPT ![b] = "store"]
        /\ UNCHANGED <<mem, pend, upsets>>
  /\ UNCHANGED <<committed, files, can, now, todo, cur, asOf, loaded, flushed, locked, user, edits>>

\* The write and the hash, over whatever another batch has written since the look.
\* One that fails leaves a file or none.
Store(b) ==
  LET stored == files \cup {<<cur[b], mem[b][cur[b]].next>>} IN
  /\ pc[b] = "store"
  /\ \/ /\ files' = stored
        /\ pc' = [pc EXCEPT ![b] = "insert"] /\ UNCHANGED <<mem, pend, upsets>>
     \/ /\ files' \in {files, stored}
        /\ pc' = [pc EXCEPT ![b] = "loop"] /\ Failed(b) /\ Upset
  /\ UNCHANGED <<committed, can, now, todo, cur, asOf, loaded, flushed, locked, user, edits>>

----------------------------------------------------------------------------
\* Flushes and the end of the transaction.

Dirty(b) == {s \in Schedules : mem[b][s] # loaded[b][s]}

\* The keys of the executions X that have an invoice.
Invoices(X) == Keys({x \in X : x.status = "generated"})

\* The key of the invoice that a flush of b inserts, if any.
Inserted(b) == IF pc[b] = "insert" THEN {<<cur[b], mem[b][cur[b]].next>>} ELSE {}

\* A flush waits for rows and keys another transaction has not committed yet,
\* and fails on a key that is committed: of an execution, or of an invoice.
WaitsFor(b, c) ==
  /\ c # b /\ (pc[b] = "insert" \/ (pc[b] = "next" /\ todo[b] = {}))
  /\ \/ Dirty(b) \cap locked[c] # {}
     \/ Keys(pend[b]) \cap Keys(flushed[c]) # {}
     \/ Inserted(b) \cap Invoices(pend[c] \cup flushed[c]) # {}
Waits(b)     == \E c \in Batches : WaitsFor(b, c)
KeyNotUnique(b) == FALSE
Conflicts(b) == Keys(pend[b]) \cap Keys(execs) # {} \/ Inserted(b) \cap Invoices(execs) # {}

Leave(b) ==
  /\ pc' = [pc EXCEPT ![b] = "idle"] /\ todo' = [todo EXCEPT ![b] = {}]
  /\ cur' = [cur EXCEPT ![b] = None] /\ asOf' = [asOf EXCEPT ![b] = 0]
  /\ loaded' = [loaded EXCEPT ![b] = [s \in Schedules |-> Absent]]
  /\ mem' = [mem EXCEPT ![b] = [s \in Schedules |-> Absent]]
  /\ pend' = [pend EXCEPT ![b] = {}] /\ flushed' = [flushed EXCEPT ![b] = {}]
  /\ locked' = [locked EXCEPT ![b] = {}]
  /\ UNCHANGED <<files, can, now, user>>

\* The invoice is flushed with all that was pending; its execution is added.
Insert(b) ==
  LET s == cur[b]
      t == mem[b][s].next IN
  /\ pc[b] = "insert" /\ ~Waits(b) /\ ~Conflicts(b)
  /\ flushed' = [flushed EXCEPT ![b] = @ \cup pend[b]]
  /\ locked' = [locked EXCEPT ![b] = @ \cup Dirty(b)]
  /\ pend' = [pend EXCEPT ![b] = {[schedule |-> s, at |-> t, status |-> "generated"]}]
  /\ mem' = [mem EXCEPT ![b][s] = Advanced(mem[b][s], t)]
  /\ pc' = [pc EXCEPT ![b] = "loop"]
  /\ UNCHANGED <<committed, files, can, now, todo, cur, asOf, loaded, user, bounds>>

FinishWholeRows(b) ==
  /\ pc[b] = "next" /\ todo[b] = {} /\ ~Waits(b) /\ ~Conflicts(b)
  /\ sched' = [s \in Schedules |-> IF loaded[b][s] = Absent THEN sched[s] ELSE mem[b][s]]
  /\ execs' = execs \cup flushed[b] \cup pend[b]
  /\ Leave(b) /\ UNCHANGED bounds

\* The last flush and the commit.
Finish(b) ==
  /\ pc[b] = "next" /\ todo[b] = {} /\ ~Waits(b) /\ ~Conflicts(b)
  /\ sched' = [s \in Schedules |->
       [f \in DOMAIN Absent |-> Set(loaded[b][s][f], sched[s][f], mem[b][s][f])]]
  /\ execs' = execs \cup flushed[b] \cup pend[b]
  /\ Leave(b) /\ UNCHANGED bounds

\* IntegrityError on a flush, or this batch is the victim of a lock cycle: the
\* transaction rolls back and the runner swallows the error.
Fails(b) ==
  /\ \/ /\ pc[b] = "insert" \/ (pc[b] = "next" /\ todo[b] = {})
        /\ ~Waits(b) /\ Conflicts(b)
     \/ \E c \in Batches : WaitsFor(b, c) /\ WaitsFor(c, b)
  /\ Leave(b) /\ UNCHANGED <<committed, bounds>>

----------------------------------------------------------------------------
\* The environment.

\* The process dies or loses the database.
Crash(b) ==
  /\ pc[b] # "idle" /\ Upset
  /\ Leave(b) /\ UNCHANGED <<committed, edits>>

\* A plan change, or its end; the onboarding reopened or completed.
Flip(t) ==
  /\ Upset
  /\ can' = IF t \in can THEN can \ {t} ELSE can \cup {t}
  /\ UNCHANGED <<committed, files, now, pc, session, user, edits>>

Tick ==
  /\ now < MaxTime /\ now' = now + 1
  /\ UNCHANGED <<committed, files, can, pc, session, user, bounds>>

UserStep(u)  == pause_schedule(u) \/ resume_schedule(u) \/ update_schedule(u)
BatchStep(b) == Take(b) \/ Turn(b) \/ Store(b) \/ Insert(b) \/ Finish(b) \/ Fails(b)

Next ==
  \/ \E s \in Schedules, interval \in Intervals, start \in Starts, end \in Ends :
       create_schedule(s, interval, start, end)
  \/ \E u \in Users : UserStep(u) \/ \E s \in Schedules : \E r \in Requests(s) : Asks(u, s, r)
  \/ \E b \in Batches : \/ BatchStep(b) \/ Crash(b) \/ Select(b, Tenants)
                        \/ \E t \in Tenants : Select(b, {t})
  \/ \E t \in Tenants : Flip(t)
  \/ Tick

\* The runners poll for ever, threads and database make progress, time passes.
\* Nobody is obliged to press a button.
Fairness ==
  /\ \A b \in Batches : WF_vars(BatchStep(b)) /\ WF_vars(Select(b, Tenants))
  /\ \A u \in Users : WF_vars(UserStep(u))
  /\ WF_vars(Tick)

Spec     == Init /\ [][Next]_vars
FairSpec == Spec /\ Fairness

----------------------------------------------------------------------------
\* Properties.

\* Every variable holds a value of its kind.
TypeOK ==
  /\ sched \in [Schedules -> Row] /\ execs \subseteq Execution
  /\ files \subseteq Schedules \X Nat /\ can \subseteq Tenants /\ now \in Nat
  /\ pc \in [Batches -> {"idle", "next", "loop", "store", "insert"}]
  /\ todo \in [Batches -> SUBSET Schedules] /\ cur \in [Batches -> Schedules \cup {None}]
  /\ asOf \in [Batches -> Nat]
  /\ loaded \in [Batches -> [Schedules -> Row]] /\ mem \in [Batches -> [Schedules -> Row]]
  /\ pend \in [Batches -> SUBSET Execution] /\ flushed \in [Batches -> SUBSET Execution]
  /\ locked \in [Batches -> SUBSET Schedules]
  /\ ask \in [Users -> {Quiet} \cup UNION {Requests(s) : s \in Schedules}]
  /\ row \in [Users -> Row]
  /\ edits \in Nat /\ upsets \in Nat

\* However runners and run-due requests overlap, an occurrence is executed once.
OneExecutionEach ==
  \A x, y \in execs : x.schedule = y.schedule /\ x.at = y.at => x = y

\* No batch passes an occurrence over, however batches overlap, fail or die: when one
\* moves a schedule's next_run_at, every occurrence of the row it loaded up to the new
\* date, or to the end of the range if the schedule is completed, has its execution.
Accounted ==
  [][\A b \in Batches, s \in Schedules :
       pc'[b] # pc[b] /\ sched'[s].next # sched[s].next =>
         \A k \in 0..MaxTime :
           LET r == loaded[b][s]
               t == r.next + k * r.interval
           IN  (IF sched'[s].next = None THEN t <= r.end ELSE t < sched'[s].next)
                 => <<s, t>> \in Keys(execs')]_vars

\* An invoice has a payload at its path, whoever stored it, and nothing runs before
\* its time.
GeneratedHasFile ==
  \A x \in execs : x.at <= now /\ (x.status = "generated" => <<x.schedule, x.at>> \in files)

\* A schedule that somebody paused, cancelled or completed stays so until a tenant's
\* request, made when it was no longer active, makes it active again: a batch that
\* loaded the row before and commits after does not revive it.
PauseSticks ==
  [][\A s \in Schedules :
       sched[s].status \in {"paused", "completed", "cancelled"} /\ sched'[s].status = "active" =>
         \E u \in Users :
           /\ ask[u].kind \in {"resume", "update"} /\ ask[u].schedule = s
           /\ row[u].status # "active" /\ ask'[u] = Quiet]_vars

----------------------------------------------------------------------------
\* Schedules, executions and payloads change together only as RecurringLedger
\* allows, and nothing else batches and requests do can be seen there.
Ledger == INSTANCE RecurringLedger WITH
  status <- [s \in Schedules |-> sched[s].status],
  done <- execs, payloads <- files, clock <- now

ImplementsLedger == Ledger!Spec

----------------------------------------------------------------------------
\* What the guide says of schedules and the code does not do.

\* When the range of a schedule ends, the schedule passes to completed, unless its
\* tenant pauses or cancels it.  A resume that read the row before the batch which
\* completes it makes it active, without a date, for ever.
Completes ==
  \A s \in Schedules :
    (sched[s].status = "active" /\ sched[s].end # None /\ sched[s].end < now)
      ~> sched[s].status # "active"

\* The runner processes the due schedules of a tenant that may schedule.
DueIsRun == \A s \in Schedules : []<>~(Due(s) /\ TenantOf[s] \in can)
=============================================================================

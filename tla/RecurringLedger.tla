--------------------------- MODULE RecurringLedger ---------------------------
(***************************************************************************)
(* What RecurringInvoices promises, however batches, tenants' requests and *)
(* crashes overlap.  Sessions, flushes and locks are gone: a batch shows   *)
(* as one step that records occurrences and ends schedules, and a payload  *)
(* as stored for good, whatever becomes of its batch.                      *)
(***************************************************************************)
EXTENDS Naturals

CONSTANTS Schedules

VARIABLES
  status,    \* status[s]: of each schedule, "absent" before it is created
  done,      \* recorded occurrences: schedule, time, and generated or failed
  payloads,  \* schedule and time of the stored payloads
  clock

vars == <<status, done, payloads, clock>>

Chosen == {"active", "paused", "completed", "cancelled"}

KeyOf(x)   == <<x.schedule, x.at>>
KeysOf(X)  == {KeyOf(x) : x \in X}

Init ==
  /\ status = [s \in Schedules |-> "absent"] /\ done = {} /\ payloads = {}
  /\ clock = 0

\* The schedules with s at status v.
Becomes(s, v) == status' = [x \in Schedules |-> IF x = s THEN v ELSE status[x]]

\* Only the tenant creates a schedule, and only the tenant makes one active again.
Create(s) == status[s] = "absent" /\ Becomes(s, "active") /\ UNCHANGED <<done, payloads, clock>>
Edit(s) ==
  /\ status[s] # "absent" /\ \E v \in Chosen : Becomes(s, v)
  /\ UNCHANGED <<done, payloads, clock>>

\* A payload appears for an occurrence that is due, and stays.
Store(s, t) ==
  /\ status[s] # "absent" /\ t <= clock /\ <<s, t>> \notin payloads
  /\ payloads' = payloads \cup {<<s, t>>}
  /\ UNCHANGED <<status, done, clock>>

\* The occurrences X are recorded: due ones, each once and for good, a generated one
\* with its payload.  With them schedules are paused or completed, none of them made
\* active, and a pause always comes with a failed occurrence that tells of it.
Bill(X) ==
  /\ done' = done \cup X /\ KeysOf(X) \cap KeysOf(done) = {}
  /\ \A x, y \in X : KeyOf(x) = KeyOf(y) => x = y
  /\ \A x \in X :
       /\ status[x.schedule] # "absent" /\ x.at <= clock
       /\ x.status = "generated" => KeyOf(x) \in payloads
  /\ \A s \in Schedules : status'[s] # status[s] =>
       /\ status[s] # "absent" /\ status'[s] \in {"paused", "completed"}
       /\ status'[s] = "paused" => \E x \in X : x.schedule = s /\ x.status = "failed"
  /\ UNCHANGED <<payloads, clock>>

Tick == clock' = clock + 1 /\ UNCHANGED <<status, done, payloads>>

Next ==
  \/ \E s \in Schedules : Create(s) \/ Edit(s) \/ \E t \in 0..clock : Store(s, t)
  \/ Bill(done' \ done)
  \/ Tick

Spec == Init /\ [][Next]_vars
=============================================================================

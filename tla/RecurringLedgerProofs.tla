----------------------- MODULE RecurringLedgerProofs -----------------------
(* RecurringInvoices implements RecurringLedger, for every value of its    *)
(* constants.                                                              *)
EXTENDS RecurringInvoicesProofs

\* A failed occurrence of the schedule s, that batch b has added.
Tells(b, s) == \E x \in Added(b) : x.schedule = s /\ x.status = "failed"

\* A batch works on rows it loaded as active, and leaves any other as it is.  Of a
\* schedule it has paused it has added a failed occurrence.
RowLive(b, s) ==
  IF loaded[b][s].status = "active"
  THEN /\ sched[s].status # "absent" /\ mem[b][s].status \in {"active", "paused", "completed"}
       /\ mem[b][s].status = "paused" => Tells(b, s)
  ELSE mem[b][s] = loaded[b][s]
LiveOK(b) ==
  /\ \A s \in Schedules : RowLive(b, s)
  /\ \A s \in todo[b] : loaded[b][s].status = "active"
  /\ pc[b] \in {"loop", "store", "insert"} => loaded[b][cur[b]].status = "active"
  /\ \A x \in Added(b) : loaded[b][x.schedule].status = "active"

\* A schedule exists for good, and requests are about schedules that exist.
SchedLive(s) == sched[s].status = "absent" => sched[s] = Absent
AskLive(u)   == ask[u] # Quiet => sched[ask[u].schedule].status # "absent"

LiveInv ==
  /\ \A s \in Schedules : SchedLive(s)
  /\ \A u \in Users : AskLive(u)
  /\ \A b \in Batches : LiveOK(b)

\* Schedules that exist are not forgotten, and payloads are not lost.
Remains ==
  /\ \A s \in Schedules : sched[s].status # "absent" => sched'[s].status # "absent"
  /\ files \subseteq files'

----------------------------------------------------------------------------
\* What a step leaves alone.

\* A batch whose session does not change stays as it is.
LEMMA LiveKept ==
  ASSUME NEW c \in Batches, LiveOK(c), Remains,
         UNCHANGED <<pc[c], todo[c], cur[c], loaded[c], mem[c], pend[c], flushed[c]>>
  PROVE  LiveOK(c)'
<1>1. Added(c)' = Added(c)
  BY DEF Added
<1> QED BY <1>1 DEF LiveOK, RowLive, Tells, Remains

\* A request that does not change stays about a schedule that exists.
LEMMA AskKept ==
  ASSUME TypeOK, NEW u \in Users, AskLive(u), Remains, ask'[u] = ask[u]
  PROVE  AskLive(u)'
<1>1. ask[u] # Quiet => ask[u].schedule \in Schedules
  BY AskOf
<1> QED BY <1>1 DEF AskLive, Remains

\* A step that changes no session, and no schedule to an absent one.
LEMMA SessionsLive ==
  ASSUME TypeOK, LiveInv, Remains, UNCHANGED <<pc, session>>,
         \A s \in Schedules : SchedLive(s)',
         \A u \in Users : ask'[u] = ask[u] \/ AskLive(u)'
  PROVE  LiveInv'
<1>1. ASSUME NEW u \in Users PROVE AskLive(u)'
  BY AskKept DEF LiveInv
<1>2. ASSUME NEW c \in Batches PROVE LiveOK(c)'
  <2>1. UNCHANGED <<pc[c], todo[c], cur[c], loaded[c], mem[c], pend[c], flushed[c]>>
    BY DEF session
  <2> QED BY <2>1, LiveKept DEF LiveInv
<1> QED BY <1>1, <1>2 DEF LiveInv

\* A step of batch b that writes no schedule.
LEMMA BatchLive ==
  ASSUME TypeOK, LiveInv, NEW b \in Batches, UNCHANGED <<sched, ask>>, files \subseteq files',
         BatchStep(b) \/ Crash(b) \/ \E T \in SUBSET Tenants : Select(b, T),
         LiveOK(b)'
  PROVE  LiveInv'
<1>1. Remains
  BY DEF Remains
<1>2. ASSUME NEW c \in Batches, c # b PROVE LiveOK(c)'
  BY <1>1, <1>2, OthersKept, LiveKept DEF LiveInv
<1>3. ASSUME NEW u \in Users PROVE AskLive(u)'
  BY <1>1, AskKept DEF LiveInv
<1> QED BY <1>2, <1>3 DEF LiveInv, SchedLive

\* A batch that ends has nothing.
LEMMA LeaveLive ==
  ASSUME TypeOK, NEW b \in Batches, Leave(b)
  PROVE  LiveOK(b)'
<1>1. /\ pc'[b] = "idle" /\ todo'[b] = {} /\ Added(b)' = {}
      /\ \A s \in Schedules : loaded'[b][s] = Absent /\ mem'[b][s] = Absent
  BY DEF Leave, TypeOK, Added
<1> QED BY <1>1 DEF LiveOK, RowLive, Absent

----------------------------------------------------------------------------
\* Each action keeps the invariant.

\* What a tenant's request writes on the schedule it is about: a status of the tenant's
\* choice, unless that is the one it had loaded, or none.
LEMMA UserWrites ==
  ASSUME TypeOK, NEW u \in Users, UserStep(u)
  PROVE  \E s \in Schedules, v \in {"active", "paused", "completed", "cancelled"} :
           /\ ask[u].schedule = s /\ ask[u] # Quiet
           /\ \A x \in Schedules : x # s => sched'[x] = sched[x]
           /\ sched'[s].status = sched[s].status \/ (sched'[s].status = v /\ row[u].status # v)
           /\ v = "active" => ask[u].kind \in {"resume", "update"}
           /\ ask' = [ask EXCEPT ![u] = Quiet]
           /\ UNCHANGED <<execs, files, now, pc, session>>
<1>1. ask[u] # Quiet
  BY DEF UserStep, pause_schedule, resume_schedule, update_schedule, Quiet
<1>2. PICK s \in Schedules : ask[u] \in Requests(s) /\ ask[u].schedule = s
  BY <1>1, AskOf
<1>3. row[u] \in Row /\ sched \in [Schedules -> Row] /\ DOMAIN sched[s] = DOMAIN Absent
  <2>1. sched[s] \in Row
    BY DEF TypeOK
  <2> QED BY <2>1, FieldsTyped DEF TypeOK
<1>4. ASSUME NEW new, Writes(u, new),
             NEW v \in {"active", "paused", "completed", "cancelled"},
             new.status \in {v, row[u].status},
             v = "active" => ask[u].kind \in {"resume", "update"}
      PROVE  \E q \in Schedules, w \in {"active", "paused", "completed", "cancelled"} :
               /\ ask[u].schedule = q /\ ask[u] # Quiet
               /\ \A x \in Schedules : x # q => sched'[x] = sched[x]
               /\ sched'[q].status = sched[q].status \/ (sched'[q].status = w /\ row[u].status # w)
               /\ w = "active" => ask[u].kind \in {"resume", "update"}
               /\ ask' = [ask EXCEPT ![u] = Quiet]
               /\ UNCHANGED <<execs, files, now, pc, session>>
  <2>1. sched' = [sched EXCEPT ![s] = [f \in DOMAIN sched[s] |-> Set(row[u][f], sched[s][f], new[f])]]
        /\ ask' = [ask EXCEPT ![u] = Quiet] /\ UNCHANGED <<execs, files, now, pc, session>>
    BY <1>2, <1>4 DEF Writes
  <2>2. "status" \in DOMAIN sched[s]
    BY <1>3 DEF Absent
  <2>3. /\ \A x \in Schedules : x # s => sched'[x] = sched[x]
        /\ sched'[s].status = Set(row[u].status, sched[s].status, new.status)
    BY <1>3, <1>4, <2>1, <2>2
  <2>4. sched'[s].status = sched[s].status \/ (sched'[s].status = v /\ row[u].status # v)
    BY <1>4, <2>3 DEF Set
  <2> QED BY <1>1, <1>2, <1>4, <2>1, <2>3, <2>4
<1>5. CASE pause_schedule(u)
  <2>1. [row[u] EXCEPT !.status = "paused"].status = "paused"
    BY <1>3 DEF Row
  <2> QED BY <1>4, <1>5, <2>1 DEF pause_schedule
<1>6. CASE resume_schedule(u)
  <2>1. \A t : [row[u] EXCEPT !.status = "active", !.next = t].status = "active"
    BY <1>3 DEF Row
  <2> QED BY <1>4, <1>6, <2>1 DEF resume_schedule
<1>7. CASE update_schedule(u)
  <2> DEFINE status == IF ask[u].status = None THEN row[u].status ELSE ask[u].status
             next   == CASE status = "active" -> IF row[u].next # None THEN row[u].next ELSE ask[u].start
                         [] status \in {"completed", "cancelled"} -> None
                         [] OTHER -> row[u].next
             new    == [row[u] EXCEPT !.status = status, !.interval = ask[u].interval,
                                      !.start = ask[u].start, !.end = ask[u].end, !.next = next]
  <2>1. Writes(u, new) /\ ask[u].kind = "update"
    BY <1>7 DEF update_schedule
  <2>2. \A v, i, a, e, t : [row[u] EXCEPT !.status = v, !.interval = i, !.start = a, !.end = e,
                                          !.next = t].status = v
    BY <1>3 DEF Row
  <2>3. new.status = status
    BY <2>2
  <2>4. ask[u].status \in {"active", "paused", "completed", "cancelled", None}
    BY <1>2, <2>1, SchedulesAssumption DEF Requests
  <2>5. PICK v \in {"active", "paused", "completed", "cancelled"} : status \in {v, row[u].status}
    BY <2>4
  <2> HIDE DEF new, Writes, status
  <2> QED BY <1>4, <2>1, <2>3, <2>5
<1> QED BY <1>5, <1>6, <1>7 DEF UserStep

\* What tenants do keeps the invariant.
LEMMA UserLive ==
  ASSUME TypeOK, LiveInv, NEW u \in Users
  PROVE  /\ \A s \in Schedules : \A r \in Requests(s) : Asks(u, s, r) => LiveInv'
         /\ UserStep(u) => LiveInv'
<1>1. ASSUME NEW s \in Schedules, NEW r \in Requests(s), Asks(u, s, r)
      PROVE  LiveInv'
  <2>1. /\ UNCHANGED <<sched, files, pc, session>> /\ ask' = [ask EXCEPT ![u] = r]
        /\ sched[s].status # "absent" /\ r.schedule = s
    BY <1>1 DEF Asks, committed, LiveInv, SchedLive, Requests
  <2>2. \A v \in Users : ask'[v] = ask[v] \/ AskLive(v)'
    BY <2>1 DEF AskLive, TypeOK
  <2>3. Remains /\ \A x \in Schedules : SchedLive(x)'
    BY <2>1 DEF Remains, LiveInv, SchedLive
  <2> QED BY <2>1, <2>2, <2>3, SessionsLive
<1>2. CASE UserStep(u)
  <2>1. PICK s \in Schedules, v \in {"active", "paused", "completed", "cancelled"} :
           /\ ask[u].schedule = s /\ ask[u] # Quiet
           /\ \A x \in Schedules : x # s => sched'[x] = sched[x]
           /\ sched'[s].status = sched[s].status \/ (sched'[s].status = v /\ row[u].status # v)
           /\ ask' = [ask EXCEPT ![u] = Quiet]
           /\ UNCHANGED <<execs, files, now, pc, session>>
    BY <1>2, UserWrites
  <2>2. sched[s].status # "absent" /\ sched'[s].status # "absent"
    BY <2>1 DEF LiveInv, AskLive
  <2>3. Remains /\ \A x \in Schedules : SchedLive(x)'
    BY <2>1, <2>2 DEF Remains, LiveInv, SchedLive
  <2>4. \A w \in Users : ask'[w] = ask[w] \/ AskLive(w)'
    BY <2>1 DEF AskLive, TypeOK
  <2> QED BY <2>1, <2>3, <2>4, SessionsLive
<1> QED BY <1>1, <1>2

\* A new schedule keeps the invariant.
LEMMA CreateLive ==
  ASSUME TypeOK, LiveInv, NEW s \in Schedules, NEW i, NEW start, NEW end,
         create_schedule(s, i, start, end)
  PROVE  LiveInv' /\ sched[s].status = "absent" /\ sched'[s].status = "active"
         /\ \A x \in Schedules : x # s => sched'[x] = sched[x]
<1>1. /\ sched[s].status = "absent" /\ sched'[s].status = "active"
      /\ \A x \in Schedules : x # s => sched'[x] = sched[x]
      /\ UNCHANGED <<files, pc, session, ask>>
  BY DEF create_schedule, TypeOK, Absent, user
<1>2. Remains /\ \A x \in Schedules : SchedLive(x)'
  BY <1>1 DEF Remains, LiveInv, SchedLive
<1> QED BY <1>1, <1>2, SessionsLive

\* The SELECT keeps the invariant: it loads active schedules.
LEMMA SelectLive ==
  ASSUME TypeOK, BatchInv, LiveInv, NEW b \in Batches, NEW T \in SUBSET Tenants, Select(b, T)
  PROVE  LiveInv'
<1> DEFINE S == {s \in Schedules : TenantOf[s] \in T /\ Due(s)}
<1>1. /\ pc'[b] = "next" /\ todo'[b] = S /\ UNCHANGED <<sched, ask, files, pend, flushed>>
      /\ pc[b] = "idle" /\ mem'[b] = loaded'[b]
      /\ loaded'[b] = [s \in Schedules |-> IF s \in S THEN sched[s] ELSE Absent]
  BY DEF Select, TypeOK, committed, user
<1>2. \A s \in S : s \in Schedules /\ sched[s].status = "active"
  BY DEF Due
<1>3. Added(b)' = {}
  BY <1>1 DEF BatchInv, BatchOK, Added
<1>4. \A s \in S : loaded'[b][s].status = "active"
  BY <1>1, <1>2
<1>5. \A s \in Schedules : RowLive(b, s)'
  BY <1>1, <1>2 DEF RowLive, Absent
<1> HIDE DEF S
<1>6. LiveOK(b)'
  BY <1>1, <1>3, <1>4, <1>5 DEF LiveOK
<1> QED BY <1>1, <1>6, BatchLive

\* A schedule taken keeps the invariant: it was due, and if it may not run it is
\* paused with its failure.
LEMMA TakeLive ==
  ASSUME TypeOK, BatchInv, AddedInv, LiveInv, NEW b \in Batches, Take(b)
  PROVE  LiveInv'
<1>0. /\ mem \in [Batches -> [Schedules -> Row]] /\ mem[b] \in [Schedules -> Row]
      /\ \A x \in Added(b) : x \in Execution
  BY DEF TypeOK, Added
<1>1. PICK s \in todo[b] :
        /\ pc[b] = "next" /\ todo'[b] = todo[b] \ {s}
        /\ \/ cur'[b] = s /\ pc'[b] = "loop" /\ UNCHANGED <<mem, pend>>
           \/ /\ mem' = [mem EXCEPT ![b][s].status = "paused"]
              /\ pend'[b] = pend[b] \cup {[schedule |-> s, at |-> loaded[b][s].next, status |-> "failed"]}
              /\ UNCHANGED <<cur, pc>>
        /\ UNCHANGED <<sched, ask, loaded, flushed, files>>
  BY DEF Take, TypeOK, committed, user
<1>2. s \in Schedules /\ loaded[b][s].status = "active" /\ LiveOK(b)
      /\ \A x \in Added(b) : x.schedule # s /\ x.schedule \in Schedules
  <2>1. s \in Schedules
    BY <1>1 DEF TypeOK
  <2>2. LiveOK(b) /\ loaded[b][s].status = "active"
    BY <1>1 DEF LiveInv, LiveOK
  <2>3. \A x \in Added(b) : x.schedule # s /\ x.schedule \in Schedules
    BY <1>0, <1>1 DEF AddedInv, AddedOK, Execution
  <2> QED BY <2>1, <2>2, <2>3
<1>3. CASE cur'[b] = s /\ pc'[b] = "loop" /\ UNCHANGED <<mem, pend>>
  <2>1. Added(b)' = Added(b)
    BY <1>1, <1>3 DEF Added
  <2>2. LiveOK(b)'
    BY <1>1, <1>2, <1>3, <2>1 DEF LiveOK, RowLive, Tells
  <2> QED BY <1>1, <2>2, BatchLive DEF BatchStep
<1>4. CASE /\ mem' = [mem EXCEPT ![b][s].status = "paused"]
           /\ pend'[b] = pend[b] \cup {[schedule |-> s, at |-> loaded[b][s].next, status |-> "failed"]}
           /\ UNCHANGED <<cur, pc>>
  <2>0. PICK y : y = [schedule |-> s, at |-> loaded[b][s].next, status |-> "failed"]
    OBVIOUS
  <2>1. /\ Added(b)' = Added(b) \cup {y} /\ y.schedule = s /\ y.status = "failed"
        /\ UNCHANGED <<cur, pc, loaded, sched, files>> /\ pc[b] = "next" /\ todo'[b] \subseteq todo[b]
    BY <1>1, <1>4, <2>0 DEF Added
  <2>2. mem'[b][s].status = "paused"
    <3>1. mem[b][s] \in Row
      BY <1>0, <1>2
    <3> QED BY <1>0, <1>2, <1>4, <3>1 DEF Row
  <2>3. \A x \in Schedules : x # s => mem'[b][x] = mem[b][x]
    BY <1>0, <1>2, <1>4
  <2>4. \A x \in Schedules : RowLive(b, x)'
    BY <2>1, <1>2, <2>2, <2>3 DEF LiveOK, RowLive, Tells
  <2>5. LiveOK(b)'
    BY <1>2, <2>1, <2>4 DEF LiveOK
  <2> QED BY <1>1, <2>5, BatchLive DEF BatchStep
<1> QED BY <1>1, <1>3, <1>4

\* A batch that leaves the status of the row at hand or completes it, and may add
\* occurrences of it.
LEMMA WorkLive ==
  ASSUME NEW b \in Batches, LiveOK(b), pc[b] \in {"loop", "store", "insert"}, cur[b] \in Schedules,
         NEW X, Added(b)' = Added(b) \cup X, \A x \in X : x.schedule = cur[b],
         mem'[b][cur[b]].status \in {mem[b][cur[b]].status, "completed"},
         \A s \in Schedules : s # cur[b] => mem'[b][s] = mem[b][s],
         UNCHANGED <<sched, loaded[b], todo[b], cur[b]>>
  PROVE  LiveOK(b)'
<1>1. loaded[b][cur[b]].status = "active" /\ \A s \in Schedules : RowLive(b, s)
  BY DEF LiveOK
<1>2. \A s \in Schedules : Tells(b, s) => Tells(b, s)'
  BY DEF Tells
<1>3. ASSUME NEW s \in Schedules PROVE RowLive(b, s)'
  <2>1. CASE s = cur[b]
    BY <1>1, <1>2, <2>1 DEF RowLive
  <2>2. CASE s # cur[b]
    BY <1>1, <1>2, <2>2 DEF RowLive
  <2> QED BY <2>1, <2>2
<1> QED BY <1>1, <1>3 DEF LiveOK

\* An advanced row keeps its status or is completed.
LEMMA AdvancedLive ==
  ASSUME NEW m \in Row, NEW t
  PROVE  Advanced(m, t).status \in {m.status, "completed"}
<1>1. \A n : /\ [m EXCEPT !.last = t, !.status = "completed", !.next = None].status = "completed"
             /\ [m EXCEPT !.last = t, !.next = n].status = m.status
  BY DEF Row
<1> QED BY <1>1 DEF Advanced

\* A turn and a write of a payload keep the invariant.
LEMMA TurnLive ==
  ASSUME TypeOK, BatchInv, LiveInv, NEW b \in Batches, Turn(b) \/ Store(b)
  PROVE  LiveInv'
<1>0. PICK s \in Schedules : s = cur[b]
  BY WorkShape
<1> DEFINE m == mem[b][s]
           t == m.next
           x == [schedule |-> s, at |-> t, status |-> "failed"]
<1>1. /\ pc[b] \in {"loop", "store"} /\ m \in Row /\ files \subseteq files'
      /\ UNCHANGED <<sched, ask, loaded, todo, cur, flushed>>
      /\ \/ UNCHANGED <<mem, pend>>
         \/ /\ UNCHANGED pend
            /\ mem' = [mem EXCEPT ![b][s].status = "completed", ![b][s].next = None]
         \/ mem' = [mem EXCEPT ![b][s] = Advanced(m, t)] /\ UNCHANGED pend
         \/ Failed(b)
  BY <1>0, WorkShape
<1>2. LiveOK(b) /\ mem \in [Batches -> [Schedules -> Row]] /\ mem[b] \in [Schedules -> Row]
      /\ pend \in [Batches -> SUBSET Execution]
  BY DEF LiveInv, TypeOK
<1>3. /\ \/ mem'[b][s] = m
         \/ mem'[b][s] = [m EXCEPT !.status = "completed", !.next = None]
         \/ mem'[b][s] = Advanced(m, t)
      /\ \A q \in Schedules : q # s => mem'[b][q] = mem[b][q]
  <2>1. CASE UNCHANGED mem
    BY <2>1
  <2>2. CASE mem' = [mem EXCEPT ![b][s].status = "completed", ![b][s].next = None]
    <3>1. mem' = [mem EXCEPT ![b] = [mem[b] EXCEPT ![s] =
                    [m EXCEPT !.status = "completed", !.next = None]]]
      BY <1>1, <1>2, <2>2
    <3> QED BY <1>2, <3>1
  <2>3. CASE mem' = [mem EXCEPT ![b][s] = Advanced(m, t)]
    BY <1>2, <2>3
  <2>4. CASE Failed(b)
    BY <1>0, <1>2, <2>3, <2>4 DEF Failed
  <2> QED BY <1>1, <2>1, <2>2, <2>3, <2>4
<1>4. mem'[b][s].status \in {m.status, "completed"}
  <2>1. [m EXCEPT !.status = "completed", !.next = None].status = "completed"
    BY <1>1 DEF Row
  <2> QED BY <1>1, <1>3, <2>1, AdvancedLive
<1>5. x.schedule = s
  OBVIOUS
<1>6. pend'[b] = pend[b] \/ pend'[b] = pend[b] \cup {x}
  BY <1>0, <1>1, <1>2 DEF Failed
<1> HIDE DEF x
<1>7. PICK X : X = IF pend'[b] = pend[b] THEN {} ELSE {x}
  OBVIOUS
<1>8. Added(b)' = Added(b) \cup X /\ \A y \in X : y.schedule = s
  BY <1>1, <1>5, <1>6, <1>7 DEF Added
<1>9. LiveOK(b)'
  BY <1>0, <1>1, <1>2, <1>3, <1>4, <1>8, WorkLive
<1> QED BY <1>1, <1>9, BatchLive DEF BatchStep

\* An insert keeps the invariant.
LEMMA InsertLive ==
  ASSUME TypeOK, BatchInv, LiveInv, NEW b \in Batches, Insert(b)
  PROVE  LiveInv'
<1> DEFINE s == cur[b]
           m == mem[b][s]
           t == m.next
           x == [schedule |-> s, at |-> t, status |-> "generated"]
<1>1. /\ pc[b] = "insert" /\ s \in Schedules /\ LiveOK(b)
      /\ mem \in [Batches -> [Schedules -> Row]] /\ m \in Row
      /\ pc'[b] = "loop" /\ UNCHANGED <<sched, ask, loaded, todo, cur, files>>
  <2>1. pc[b] = "insert" /\ UNCHANGED <<sched, ask, loaded, todo, cur, files>>
    BY DEF Insert, committed, user
  <2>2. s \in Schedules /\ LiveOK(b)
    BY <2>1 DEF BatchInv, BatchOK, LiveInv
  <2>3. mem \in [Batches -> [Schedules -> Row]] /\ m \in Row
    BY <2>2 DEF TypeOK
  <2>4. pc'[b] = "loop"
    BY DEF Insert, TypeOK
  <2> QED BY <2>1, <2>2, <2>3, <2>4
<1>2. /\ mem'[b][s] = Advanced(m, t)
      /\ \A q \in Schedules : q # s => mem'[b][q] = mem[b][q]
      /\ flushed'[b] = flushed[b] \cup pend[b] /\ pend'[b] = {x}
  BY <1>1 DEF Insert, TypeOK
<1>3. x.schedule = s
  OBVIOUS
<1>4. mem'[b][s].status \in {m.status, "completed"}
  BY <1>1, <1>2, AdvancedLive
<1> HIDE DEF x
<1>5. Added(b)' = Added(b) \cup {x}
  BY <1>2 DEF Added
<1>6. LiveOK(b)'
  BY <1>1, <1>2, <1>3, <1>4, <1>5, WorkLive
<1> QED BY <1>1, <1>6, BatchLive DEF BatchStep

\* What the commit of a batch writes of a schedule: the status it gave it, if it
\* changed that of an active one, and nothing if it did not load it.
LEMMA FinishWrites ==
  ASSUME TypeOK, LiveInv, NEW b \in Batches, Finish(b), NEW s \in Schedules
  PROVE  /\ loaded[b][s].status # "active" => sched'[s] = sched[s]
         /\ loaded[b][s].status = "active" =>
              /\ sched[s].status # "absent"
              /\ sched'[s].status = IF mem[b][s].status = "active" THEN sched[s].status
                                    ELSE mem[b][s].status
              /\ mem[b][s].status \in {"active", "paused", "completed"}
<1>1. mem[b][s] \in Row /\ loaded[b][s] \in Row /\ sched[s] \in Row
  BY DEF TypeOK
<1>2. sched'[s] = [f \in DOMAIN Absent |-> Set(loaded[b][s][f], sched[s][f], mem[b][s][f])]
  BY DEF Finish
<1>3. RowLive(b, s)
  BY DEF LiveInv, LiveOK
<1>4. CASE loaded[b][s].status # "active"
  <2>1. mem[b][s] = loaded[b][s]
    BY <1>3, <1>4 DEF RowLive
  <2>2. sched'[s] = [f \in DOMAIN Absent |-> sched[s][f]]
    BY <1>2, <2>1 DEF Set
  <2>3. sched[s] = [f \in DOMAIN Absent |-> sched[s][f]]
    BY <1>1 DEF Row, Absent
  <2> QED BY <1>4, <2>2, <2>3
<1>5. CASE loaded[b][s].status = "active"
  <2>1. sched'[s].status = Set(loaded[b][s].status, sched[s].status, mem[b][s].status)
    BY <1>2 DEF Absent
  <2> QED BY <1>3, <1>5, <2>1 DEF RowLive, Set
<1> QED BY <1>4, <1>5

\* A commit keeps the invariant.
LEMMA FinishLive ==
  ASSUME TypeOK, LiveInv, NEW b \in Batches, Finish(b)
  PROVE  LiveInv'
<1>1. Leave(b) /\ UNCHANGED <<files, ask>>
  BY DEF Finish, Leave, user
<1>2. ASSUME NEW s \in Schedules
      PROVE  SchedLive(s)' /\ (sched[s].status # "absent" => sched'[s].status # "absent")
  BY FinishWrites DEF LiveInv, SchedLive
<1>3. Remains
  BY <1>1, <1>2 DEF Remains
<1>4. ASSUME NEW u \in Users PROVE AskLive(u)'
  BY <1>1, <1>3, AskKept DEF LiveInv
<1>5. ASSUME NEW c \in Batches PROVE LiveOK(c)'
  BY <1>1, <1>3, LeaveLive, LiveKept, OthersKept DEF BatchStep, LiveInv
<1> QED BY <1>2, <1>4, <1>5 DEF LiveInv

\* Every step keeps the invariant.
LEMMA LiveNext ==
  ASSUME SafeInv, LiveInv, [Next]_vars
  PROVE  LiveInv'
<1> USE DEF SafeInv
<1>1. ASSUME UNCHANGED <<sched, ask, files, pc, session>> PROVE LiveInv'
  BY <1>1, SessionsLive DEF Remains, LiveInv, SchedLive
<1>2. ASSUME NEW t \in Tenants, Flip(t) PROVE LiveInv'
  BY <1>1, <1>2 DEF Flip, committed, user
<1>3. CASE Tick
  BY <1>1, <1>3 DEF Tick, committed, user
<1>4. CASE UNCHANGED vars
  BY <1>1, <1>4 DEF vars, committed, user
<1>5. Tenants \in SUBSET Tenants /\ \A t \in Tenants : {t} \in SUBSET Tenants
  OBVIOUS
<1>6. ASSUME NEW b \in Batches, Fails(b) \/ Crash(b) PROVE LiveInv'
  <2>1. Leave(b) /\ UNCHANGED <<sched, ask, files>>
    BY <1>6 DEF Fails, Crash, Leave, committed, user
  <2> QED BY <1>6, <2>1, LeaveLive, BatchLive DEF BatchStep
<1>7. ASSUME NEW b \in Batches,
             BatchStep(b) \/ Crash(b) \/ Select(b, Tenants) \/ \E t \in Tenants : Select(b, {t})
      PROVE  LiveInv'
  BY <1>5, <1>6, <1>7, SelectLive, TakeLive, TurnLive, InsertLive, FinishLive DEF BatchStep
<1> QED BY <1>2, <1>3, <1>4, <1>7, CreateLive, UserLive DEF Next

\* Both inductive invariants hold of every behaviour.
LEMMA LiveHolds == Spec => [](SafeInv /\ LiveInv)
<1>1. Init => LiveInv
  BY DEF Init, LiveInv, SchedLive, AskLive, LiveOK, RowLive, Added, Absent
<1>2. SafeInv /\ LiveInv /\ [Next]_vars => LiveInv'
  BY LiveNext
<1> QED BY <1>1, <1>2, SafeInvariant, PTL DEF Spec

----------------------------------------------------------------------------
\* Who may make a schedule active again.

\* A step that revives a schedule answers a tenant's request that found it at rest.
LEMMA OnlyUsersRevive ==
  ASSUME SafeInv, LiveInv, Next, NEW s \in Schedules,
         sched[s].status \in {"paused", "completed", "cancelled"}, sched'[s].status = "active"
  PROVE  \E u \in Users :
           /\ ask[u].kind \in {"resume", "update"} /\ ask[u].schedule = s
           /\ row[u].status # "active" /\ ask'[u] = Quiet
<1> USE DEF SafeInv
<1>1. ASSUME NEW q \in Schedules, NEW i, NEW start, NEW end,
             create_schedule(q, i, start, end)
      PROVE  FALSE
  BY <1>1, CreateLive
<1>2. ASSUME UNCHANGED sched PROVE FALSE
  BY <1>2
<1>3. ASSUME NEW b \in Batches, Finish(b) PROVE FALSE
  BY <1>3, FinishWrites
<1>4. ASSUME NEW u \in Users, UserStep(u)
      PROVE  /\ ask[u].kind \in {"resume", "update"} /\ ask[u].schedule = s
             /\ row[u].status # "active" /\ ask'[u] = Quiet
  <2>1. PICK q \in Schedules, v \in {"active", "paused", "completed", "cancelled"} :
           /\ ask[u].schedule = q
           /\ \A x \in Schedules : x # q => sched'[x] = sched[x]
           /\ sched'[q].status = sched[q].status \/ (sched'[q].status = v /\ row[u].status # v)
           /\ v = "active" => ask[u].kind \in {"resume", "update"}
           /\ ask' = [ask EXCEPT ![u] = Quiet]
    BY <1>4, UserWrites
  <2>2. q = s /\ v = "active" /\ row[u].status # "active"
    BY <2>1
  <2>3. ask'[u] = Quiet
    BY <2>1 DEF TypeOK
  <2> QED BY <2>1, <2>2, <2>3
<1>5. ASSUME NEW b \in Batches,
             \/ Take(b) \/ Turn(b) \/ Store(b) \/ Insert(b) \/ Fails(b) \/ Crash(b)
             \/ Select(b, Tenants) \/ \E t \in Tenants : Select(b, {t})
      PROVE  UNCHANGED sched
  BY <1>5 DEF Take, Turn, Store, Insert, Fails, Crash, Select, committed
<1>6. ASSUME NEW t \in Tenants, Flip(t) PROVE UNCHANGED sched
  BY <1>6 DEF Flip, committed
<1>7. Tick => UNCHANGED sched
  BY DEF Tick, committed
<1>8. ASSUME NEW u \in Users, NEW q \in Schedules, NEW r \in Requests(q), Asks(u, q, r)
      PROVE  UNCHANGED sched
  BY <1>8 DEF Asks, committed
<1> HIDE DEF SafeInv
<1> QED BY <1>1, <1>2, <1>3, <1>4, <1>5, <1>6, <1>7, <1>8 DEF Next, BatchStep

\* However many batches are under way with rows they loaded before, a schedule that was
\* paused, cancelled or completed runs again only because a tenant who saw that asked.
THEOREM PauseSticksHolds == Spec => PauseSticks
<1>1. SafeInv /\ LiveInv /\ [Next]_vars =>
        [\A s \in Schedules :
           sched[s].status \in {"paused", "completed", "cancelled"} /\ sched'[s].status = "active" =>
             \E u \in Users :
               /\ ask[u].kind \in {"resume", "update"} /\ ask[u].schedule = s
               /\ row[u].status # "active" /\ ask'[u] = Quiet]_vars
  BY OnlyUsersRevive
<1> QED BY <1>1, LiveHolds, PTL DEF Spec, PauseSticks

----------------------------------------------------------------------------
\* Every step is a step of the ledger, or none.

\* What the ledger does not see.
LEMMA LedgerStutters ==
  ASSUME UNCHANGED <<sched, execs, files, now>>
  PROVE  UNCHANGED Ledger!vars
BY DEF Ledger!vars

\* What a tenant creates and writes.
LEMMA UserImplements ==
  ASSUME SafeInv, LiveInv
  PROVE  /\ \A s \in Schedules, i \in Intervals, start \in Starts, end \in Ends :
              create_schedule(s, i, start, end) => Ledger!Create(s)
         /\ \A u \in Users : UserStep(u) => \E s \in Schedules : Ledger!Edit(s)
<1> USE DEF SafeInv
<1>1. ASSUME NEW s \in Schedules, NEW i \in Intervals, NEW start \in Starts, NEW end \in Ends,
             create_schedule(s, i, start, end)
      PROVE  Ledger!Create(s)
  <2>1. /\ sched[s].status = "absent" /\ sched'[s].status = "active"
        /\ \A x \in Schedules : x # s => sched'[x] = sched[x]
    BY <1>1, CreateLive
  <2>2. UNCHANGED <<execs, files, now>>
    BY <1>1 DEF create_schedule
  <2> QED BY <2>1, <2>2 DEF Ledger!Create, Ledger!Becomes
<1>2. ASSUME NEW u \in Users, UserStep(u)
      PROVE  \E s \in Schedules : Ledger!Edit(s)
  <2>1. PICK s \in Schedules, v \in {"active", "paused", "completed", "cancelled"} :
           /\ ask[u].schedule = s /\ ask[u] # Quiet
           /\ \A x \in Schedules : x # s => sched'[x] = sched[x]
           /\ sched'[s].status \in {sched[s].status, v}
           /\ UNCHANGED <<execs, files, now>>
    BY <1>2, UserWrites
  <2>2. sched[s].status # "absent" /\ sched[s] \in Row
    BY <2>1 DEF LiveInv, AskLive, TypeOK
  <2>3. PICK w \in Ledger!Chosen : sched'[s].status = w
    BY <2>1, <2>2 DEF Row, Ledger!Chosen
  <2>4. Ledger!Becomes(s, w)
    BY <2>1, <2>3 DEF Ledger!Becomes
  <2>5. Ledger!Edit(s)
    BY <2>1, <2>2, <2>4 DEF Ledger!Edit
  <2> QED BY <2>5
<1> QED BY <1>1, <1>2

\* A turn and a write of a payload show a payload of an occurrence that is due, or
\* nothing.
LEMMA TurnImplements ==
  ASSUME SafeInv, LiveInv, NEW b \in Batches, Turn(b) \/ Store(b)
  PROVE  [Ledger!Next]_(Ledger!vars)
<1> USE DEF SafeInv
<1>1. PICK s, t : s = cur[b] /\ t = mem[b][s].next
  OBVIOUS
<1>2. /\ pc[b] \in {"loop", "store"} /\ s \in Schedules /\ UNCHANGED <<sched, execs, now>>
      /\ UNCHANGED files \/ (t \in Nat /\ t <= asOf[b] /\ files' = files \cup {<<s, t>>})
  BY <1>1, WorkShape
<1>3. sched[s].status # "absent" /\ asOf[b] \in Nat /\ now \in Nat /\ asOf[b] <= now
  <2>1. loaded[b][s].status = "active" /\ RowLive(b, s)
    BY <1>1, <1>2 DEF LiveInv, LiveOK
  <2>2. asOf[b] \in Nat /\ now \in Nat /\ asOf[b] <= now
    BY DEF TypeOK, BatchInv, BatchOK
  <2> QED BY <2>1, <2>2 DEF RowLive
<1>4. CASE files' = files
  BY <1>2, <1>4, LedgerStutters
<1>5. CASE files' # files
  <2>1. t \in 0..now /\ <<s, t>> \notin files /\ files' = files \cup {<<s, t>>}
    BY <1>2, <1>3, <1>5
  <2>2. Ledger!Store(s, t)
    BY <1>2, <1>3, <2>1 DEF Ledger!Store
  <2> QED BY <1>2, <2>1, <2>2 DEF Ledger!Next
<1> QED BY <1>4, <1>5

\* What a commit adds: occurrences that are not recorded, due, of schedules that
\* exist, the generated ones with their payload.
LEMMA CommitAdds ==
  ASSUME SafeInv, LiveInv, NEW b \in Batches, Finish(b), NEW x \in Added(b)
  PROVE  /\ \A y \in execs : ~SameKey(x, y)
         /\ x.schedule \in Schedules /\ sched[x.schedule].status # "absent" /\ x.at <= now
         /\ x.status = "generated" => <<x.schedule, x.at>> \in files
<1> USE DEF SafeInv
<1>1. pc[b] = "next" /\ todo[b] = {} /\ ~Waits(b) /\ ~Conflicts(b)
  BY DEF Finish
<1>2. x \in Execution /\ x.schedule \in Schedules /\ x.at \in Nat
  BY DEF TypeOK, Added, Execution
<1>3. \A y \in execs : ~SameKey(x, y)
  <2>1. CASE x \in flushed[b]
    BY <2>1 DEF KeyInv
  <2>2. CASE x \in pend[b]
    BY <1>1, <2>2 DEF Conflicts, Keys, SameKey
  <2> QED BY <2>1, <2>2 DEF Added
<1>4. x.at <= now
  <2>1. x.at <= asOf[b] /\ asOf[b] <= now /\ asOf[b] \in Nat /\ now \in Nat
    BY DEF AddedInv, AddedOK, BatchInv, BatchOK, TypeOK
  <2> QED BY <1>2, <2>1
<1>5. loaded[b][x.schedule].status = "active"
  BY DEF LiveInv, LiveOK
<1>6. sched[x.schedule].status # "absent"
  BY <1>2, <1>5, FinishWrites
<1>7. x.status = "generated" => <<x.schedule, x.at>> \in files
  BY DEF AddedInv, AddedOK
<1> QED BY <1>2, <1>3, <1>4, <1>6, <1>7

\* A commit records what it adds, and a pause with a failed occurrence.
LEMMA FinishImplements ==
  ASSUME SafeInv, LiveInv, NEW b \in Batches, Finish(b)
  PROVE  Ledger!Bill(execs' \ execs)
<1> USE DEF SafeInv
<1>1. PICK X : X = execs' \ execs
  OBVIOUS
<1>2. execs' = execs \cup X /\ UNCHANGED <<files, now>>
  BY <1>1 DEF Finish, Leave
<1>3. X = Added(b)
  <2>1. \A x \in Added(b) : x \notin execs
    BY CommitAdds DEF SameKey
  <2> QED BY <1>1, <2>1 DEF Finish, Added
<1>4. Ledger!KeysOf(X) \cap Ledger!KeysOf(execs) = {}
  BY <1>3, CommitAdds DEF Ledger!KeysOf, Ledger!KeyOf, SameKey
<1>5. \A x, y \in X : Ledger!KeyOf(x) = Ledger!KeyOf(y) => x = y
  BY <1>3 DEF AddedInv, AddedOK, SameKey, Ledger!KeyOf
<1>6. ASSUME NEW x \in X
      PROVE  /\ [s \in Schedules |-> sched[s].status][x.schedule] # "absent" /\ x.at <= now
             /\ x.status = "generated" => Ledger!KeyOf(x) \in files
  BY <1>3, <1>6, CommitAdds DEF Ledger!KeyOf
<1>7. ASSUME NEW s \in Schedules, sched'[s].status # sched[s].status
      PROVE  /\ sched[s].status # "absent" /\ sched'[s].status \in {"paused", "completed"}
             /\ sched'[s].status = "paused" => \E x \in X : x.schedule = s /\ x.status = "failed"
  <2>1. loaded[b][s].status = "active" /\ RowLive(b, s)
    BY <1>7, FinishWrites DEF LiveInv, LiveOK
  <2>2. sched[s].status # "absent" /\ sched'[s].status = mem[b][s].status
        /\ mem[b][s].status \in {"paused", "completed"}
    BY <1>7, <2>1, FinishWrites
  <2> QED BY <1>3, <2>1, <2>2 DEF RowLive, Tells
<1> QED BY <1>1, <1>2, <1>4, <1>5, <1>6, <1>7 DEF Ledger!Bill

\* Every step is a step of the ledger, or none.
LEMMA StepImplements ==
  ASSUME SafeInv, LiveInv, [Next]_vars
  PROVE  [Ledger!Next]_(Ledger!vars)
<1>1. ASSUME UNCHANGED <<sched, execs, files, now>> PROVE [Ledger!Next]_(Ledger!vars)
  BY <1>1, LedgerStutters
<1>2. ASSUME NEW s \in Schedules, NEW i \in Intervals, NEW start \in Starts, NEW end \in Ends,
             create_schedule(s, i, start, end)
      PROVE  Ledger!Next
  BY <1>2, UserImplements DEF Ledger!Next
<1>3. ASSUME NEW u \in Users, UserStep(u) PROVE Ledger!Next
  BY <1>3, UserImplements DEF Ledger!Next
<1>4. ASSUME NEW b \in Batches, Finish(b) PROVE Ledger!Next
  BY <1>4, FinishImplements DEF Ledger!Next
<1>5. ASSUME NEW b \in Batches,
             \/ Take(b) \/ Insert(b) \/ Fails(b) \/ Crash(b)
             \/ Select(b, Tenants) \/ \E t \in Tenants : Select(b, {t})
      PROVE  UNCHANGED <<sched, execs, files, now>>
  BY <1>5 DEF Take, Insert, Fails, Crash, Select, Leave, committed
<1>6. ASSUME NEW t \in Tenants, Flip(t) PROVE UNCHANGED <<sched, execs, files, now>>
  BY <1>6 DEF Flip, committed
<1>7. CASE Tick
  BY <1>7 DEF Tick, committed, Ledger!Tick, Ledger!Next
<1>8. ASSUME NEW u \in Users, NEW q \in Schedules, NEW r \in Requests(q), Asks(u, q, r)
      PROVE  UNCHANGED <<sched, execs, files, now>>
  BY <1>8 DEF Asks, committed
<1>9. CASE UNCHANGED vars
  BY <1>1, <1>9 DEF vars, committed
<1> QED BY <1>1, <1>2, <1>3, <1>4, <1>5, <1>6, <1>7, <1>8, <1>9, TurnImplements DEF Next, BatchStep

\* Batches, requests and crashes, however they overlap, do to schedules, executions and
\* payloads only what the ledger allows, for any schedules, tenants, batches and users.
THEOREM ImplementsLedgerHolds == Spec => ImplementsLedger
<1>1. Init => Ledger!Init
  BY DEF Init, Ledger!Init, Absent
<1>2. SafeInv /\ LiveInv /\ [Next]_vars => [Ledger!Next]_(Ledger!vars)
  BY StepImplements
<1> QED BY <1>1, <1>2, LiveHolds, PTL DEF Spec, ImplementsLedger, Ledger!Spec
=============================================================================

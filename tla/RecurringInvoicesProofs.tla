---------------------- MODULE RecurringInvoicesProofs ----------------------
(* Theorems of RecurringInvoices, for every value of its constants. *)
EXTENDS RecurringInvoices, TLAPS

\* Two executions of one occurrence.
SameKey(x, y) == x.schedule = y.schedule /\ x.at = y.at

\* What batch b has added, flushed or not.
Added(b) == pend[b] \cup flushed[b]

\* A batch at rest has nothing; one under way works on a schedule it has taken
\* from its list, and on an occurrence that is due.
BatchOK(b) ==
  /\ pc[b] = "idle" => todo[b] = {} /\ Added(b) = {}
  /\ pc[b] \in {"loop", "store", "insert"} => cur[b] \in Schedules \ todo[b]
  /\ asOf[b] <= now
  /\ \A s \in todo[b] : loaded[b][s].next \in Nat /\ loaded[b][s].next <= asOf[b]
  /\ pc[b] \in {"store", "insert"} =>
       LET t == mem[b][cur[b]].next IN t \in Nat /\ t <= asOf[b]
  /\ pc[b] = "insert" => <<cur[b], mem[b][cur[b]].next>> \in files

\* What a batch has added is due, of schedules it has taken, before the
\* occurrence at hand, and of distinct keys; a generated one has its file.
AddedOK(b) ==
  /\ \A x \in Added(b) :
       /\ x.schedule \notin todo[b] /\ x.at <= asOf[b]
       /\ pc[b] \in {"loop", "store", "insert"} /\ cur[b] = x.schedule =>
            mem[b][x.schedule].next = None \/ x.at < mem[b][x.schedule].next
       /\ x.status = "generated" => <<x.schedule, x.at>> \in files
  /\ \A x, y \in Added(b) : SameKey(x, y) => x = y

BatchInv == \A b \in Batches : BatchOK(b)
AddedInv == \A b \in Batches : AddedOK(b)

\* The keys a batch has flushed are its own, until it ends.
KeyInv ==
  /\ \A b \in Batches : \A x \in flushed[b], y \in execs : ~SameKey(x, y)
  /\ \A b, c \in Batches : b # c => \A x \in flushed[b], y \in flushed[c] : ~SameKey(x, y)

\* The inductive invariant.
SafeInv == TypeOK /\ BatchInv /\ AddedInv /\ KeyInv /\ OneExecutionEach /\ GeneratedHasFile

----------------------------------------------------------------------------
\* Facts about the operators of the model.

\* A row written attribute by attribute is a row.
LEMMA MergeTyped ==
  ASSUME NEW a \in Row, NEW b \in Row, NEW c \in Row
  PROVE  [f \in DOMAIN b |-> Set(a[f], b[f], c[f])] \in Row
<1>1. DOMAIN b = {"status", "interval", "start", "end", "next", "last"}
  BY DEF Row
<1>2. \A d \in Row : /\ d.status \in {"absent", "active", "paused", "completed", "cancelled"}
                     /\ d.interval \in Nat \ {0}
                     /\ d.start \in Time /\ d.end \in Time /\ d.next \in Time /\ d.last \in Time
  BY DEF Row
<1> DEFINE m == [f \in DOMAIN b |-> Set(a[f], b[f], c[f])]
<1>3. m = [status |-> m.status, interval |-> m.interval, start |-> m.start, end |-> m.end, next |-> m.next, last |-> m.last]
  BY <1>1
<1>4. /\ m.status \in {"absent", "active", "paused", "completed", "cancelled"}
      /\ m.interval \in Nat \ {0}
      /\ m.start \in Time /\ m.end \in Time /\ m.next \in Time /\ m.last \in Time
  BY <1>1, <1>2 DEF Set
<1> HIDE DEF m
<1>5. m \in Row
  BY <1>3, <1>4 DEF Row
<1> QED BY <1>5 DEF m

\* The row of a schedule nobody created is a row.
LEMMA AbsentTyped == Absent \in Row
BY DEF Absent, Row, Time

\* A schedule advances beyond the occurrence it has run.
LEMMA AdvancedTyped ==
  ASSUME NEW m \in Row, NEW t \in Nat
  PROVE  /\ Advanced(m, t) \in Row
         /\ Advanced(m, t).next = None \/ Advanced(m, t).next > t
<1>1. t + m.interval \in Nat /\ t + m.interval > t
  BY DEF Row
<1>2. ASSUME NEW n \in Nat, n > t
      PROVE  /\ [m EXCEPT !.last = t, !.status = "completed", !.next = None] \in Row
             /\ [m EXCEPT !.last = t, !.status = "completed", !.next = None].next = None
             /\ [m EXCEPT !.last = t, !.next = n] \in Row
             /\ [m EXCEPT !.last = t, !.next = n].next = n
  BY DEF Row, Time
<1> QED BY <1>1, <1>2 DEF Advanced

\* The rows that users and batches make of a row.
LEMMA StatusTyped ==
  ASSUME NEW r \in Row, NEW status \in {"absent", "active", "paused", "completed", "cancelled"}
  PROVE  [r EXCEPT !.status = status] \in Row
BY DEF Row

LEMMA DatedTyped ==
  ASSUME NEW r \in Row, NEW status \in {"absent", "active", "paused", "completed", "cancelled"},
         NEW t \in Time
  PROVE  [r EXCEPT !.status = status, !.next = t] \in Row
BY DEF Row

LEMMA EditsTyped ==
  ASSUME NEW r \in Row, NEW t \in Time, NEW start \in Time, NEW end \in Time,
         NEW i \in Nat \ {0},
         NEW status \in {"absent", "active", "paused", "completed", "cancelled"}
  PROVE  [r EXCEPT !.status = status, !.interval = i, !.start = start, !.end = end, !.next = t]
           \in Row
BY DEF Row

\* The fields of a row are times.
LEMMA FieldsTyped ==
  ASSUME NEW r \in Row
  PROVE  /\ r.start \in Time /\ r.end \in Time /\ r.next \in Time /\ r.last \in Time
         /\ r.interval \in Nat \ {0}
         /\ r.status \in {"absent", "active", "paused", "completed", "cancelled"}
         /\ DOMAIN r = DOMAIN Absent
BY DEF Row, Absent

\* A request under way is about a schedule.
LEMMA AskOf ==
  ASSUME TypeOK, NEW u \in Users, ask[u] # Quiet
  PROVE  \E s \in Schedules : ask[u] \in Requests(s) /\ ask[u].schedule = s
<1>1. PICK s \in Schedules : ask[u] \in Requests(s)
  BY DEF TypeOK
<1> QED BY <1>1 DEF Requests

\* A batch that ends keeps the types.
LEMMA LeaveTyped ==
  ASSUME TypeOK, NEW b \in Batches, Leave(b),
         sched' \in [Schedules -> Row], execs' \subseteq Execution,
         edits' \in Nat, upsets' \in Nat
  PROVE  TypeOK'
BY AbsentTyped DEF TypeOK, Leave, user

----------------------------------------------------------------------------
\* Types.

\* A tenant's request keeps the types.
LEMMA UserTyped ==
  ASSUME TypeOK, NEW u \in Users
  PROVE  /\ \A s \in Schedules : \A r \in Requests(s) : Asks(u, s, r) => TypeOK'
         /\ UserStep(u) => TypeOK'
<1> USE SchedulesAssumption DEF TypeOK, committed, session, user, bounds
<1>0. row[u] \in Row
  OBVIOUS
<1>1. ASSUME NEW s \in Schedules, NEW r \in Requests(s), Asks(u, s, r)
      PROVE  TypeOK'
  BY <1>1 DEF Asks
<1>2. ASSUME NEW new \in Row, ask[u].schedule \in Schedules, Writes(u, new)
      PROVE  TypeOK'
  <2> DEFINE s == ask[u].schedule
  <2>1. [f \in DOMAIN sched[s] |-> Set(row[u][f], sched[s][f], new[f])] \in Row
    BY <1>2, MergeTyped
  <2>2. sched' \in [Schedules -> Row]
    BY <1>2, <2>1 DEF Writes
  <2> QED BY <1>2, <2>2, AbsentTyped DEF Writes
<1>3. ask[u] # Quiet => \E s \in Schedules : ask[u] \in Requests(s)
  OBVIOUS
<1>4. \A s \in Schedules : \A r \in Requests(s) : r.schedule = s
  BY DEF Requests
<1>5. CASE pause_schedule(u)
  <2>1. ask[u].schedule \in Schedules
    BY <1>3, <1>4, <1>5 DEF pause_schedule, Quiet
  <2>2. [row[u] EXCEPT !.status = "paused"] \in Row
    BY <1>0, StatusTyped
  <2> QED BY <1>2, <1>5, <2>1, <2>2 DEF pause_schedule
<1>6. CASE resume_schedule(u)
  <2>1. ask[u].schedule \in Schedules
    BY <1>3, <1>4, <1>6 DEF resume_schedule, Quiet
  <2>2. ASSUME NEW t \in Time
        PROVE  [row[u] EXCEPT !.status = "active", !.next = t] \in Row
    BY <1>0, DatedTyped
  <2>3. (IF row[u].next # None THEN row[u].next
         ELSE IF row[u].last = None THEN row[u].start
         ELSE row[u].last + row[u].interval) \in Time
    BY <1>0, FieldsTyped DEF Time
  <2> QED BY <1>2, <1>6, <2>1, <2>2, <2>3 DEF resume_schedule
<1>7. CASE update_schedule(u)
  <2> DEFINE status == IF ask[u].status = None THEN row[u].status ELSE ask[u].status
             next   == CASE status = "active" -> IF row[u].next # None THEN row[u].next ELSE ask[u].start
                         [] status \in {"completed", "cancelled"} -> None
                         [] OTHER -> row[u].next
             new    == [row[u] EXCEPT !.status = status, !.interval = ask[u].interval,
                                      !.start = ask[u].start, !.end = ask[u].end, !.next = next]
  <2>1. PICK s \in Schedules : ask[u] \in Requests(s)
    BY <1>3, <1>7 DEF update_schedule, Quiet
  <2>2. /\ ask[u].schedule = s /\ ask[u].start \in Time /\ ask[u].end \in Time
        /\ ask[u].interval \in Nat \ {0} /\ ask[u].status \in Statuses
    BY <1>7, <2>1 DEF update_schedule, Requests, Time
  <2>3. status \in {"absent", "active", "paused", "completed", "cancelled"}
    BY <1>0, <2>2, FieldsTyped
  <2>4. Writes(u, new)
    BY <1>7 DEF update_schedule
  <2> HIDE DEF status
  <2>5. next \in Time
    BY <1>0, <2>2, FieldsTyped DEF Time
  <2> HIDE DEF next
  <2>6. new \in Row
    BY <1>0, <2>2, <2>3, <2>5, EditsTyped
  <2> HIDE DEF new
  <2> QED BY <1>2, <2>2, <2>4, <2>6
<1> QED BY <1>1, <1>5, <1>6, <1>7 DEF UserStep

\* What a turn, or a write of a payload, does of all that a batch and the storage hold.
LEMMA WorkShape ==
  ASSUME TypeOK, BatchInv, NEW b \in Batches, Turn(b) \/ Store(b)
  PROVE  LET s == cur[b]
             m == mem[b][s]
             t == m.next
             stored == files \cup {<<s, t>>}
         IN
         /\ pc[b] \in {"loop", "store"} /\ s \in Schedules \ todo[b] /\ m \in Row
         /\ t \in Time /\ asOf[b] \in Nat /\ upsets' \in Nat
         /\ UNCHANGED <<sched, execs, can, now, todo, cur, asOf, loaded, flushed, locked,
                        ask, row, edits>>
         /\ \/ pc' = [pc EXCEPT ![b] = "next"] /\ UNCHANGED <<mem, pend, files>>
            \/ /\ pc[b] = "loop" /\ UNCHANGED <<pc, pend, files>>
               /\ m.end # None /\ t \in Nat /\ t > m.end
               /\ mem' = [mem EXCEPT ![b][s].status = "completed", ![b][s].next = None]
            \/ /\ pc[b] = "loop" /\ t \in Nat /\ <<s, t>> \in Keys(execs \cup flushed[b])
               /\ mem' = [mem EXCEPT ![b][s] = Advanced(m, t)] /\ UNCHANGED <<pc, pend, files>>
            \/ /\ t \in Nat /\ t <= asOf[b] /\ Failed(b)
               /\ pc' = [pc EXCEPT ![b] = "loop"] /\ files' \in {files, stored}
            \/ /\ t \in Nat /\ t <= asOf[b] /\ UNCHANGED <<mem, pend>>
               /\ \/ pc' = [pc EXCEPT ![b] = "store"] /\ files' = files
                  \/ pc' = [pc EXCEPT ![b] = "insert"] /\ files' = stored
<1>1. pc[b] \in {"loop", "store"} /\ pc \in [Batches -> {"idle", "next", "loop", "store", "insert"}]
  BY DEF Turn, Store, TypeOK
<1>2. cur[b] \in Schedules \ todo[b]
  BY <1>1 DEF BatchInv, BatchOK
<1>3. mem[b][cur[b]] \in Row
  BY <1>2 DEF TypeOK
<1>4. mem[b][cur[b]].next \in Time /\ asOf[b] \in Nat /\ upsets \in Nat
  BY <1>3, FieldsTyped DEF TypeOK
<1>5. upsets' = upsets \/ upsets' = upsets + 1
  BY DEF Turn, Store, Upset
<1>6. UNCHANGED <<sched, execs, can, now, todo, cur, asOf, loaded, flushed, locked, ask, row, edits>>
  BY DEF Turn, Store, committed, user
<1>7. pc[b] = "loop" => pc = [pc EXCEPT ![b] = "loop"]
  BY <1>1
<1> HIDE DEF Failed
<1>8. CASE Turn(b)
  <2> DEFINE s == cur[b]
             m == mem[b][s]
             t == m.next
             stored == files \cup {<<s, t>>}
  <2>1. t # None => t \in Nat
    BY <1>4 DEF Time
  <2>2. \/ pc' = [pc EXCEPT ![b] = "next"] /\ UNCHANGED <<mem, pend, files>>
        \/ /\ UNCHANGED <<pc, pend, files>> /\ m.end # None /\ t # None /\ t > m.end
           /\ mem' = [mem EXCEPT ![b][s].status = "completed", ![b][s].next = None]
        \/ /\ t # None /\ <<s, t>> \in Keys(execs \cup flushed[b])
           /\ mem' = [mem EXCEPT ![b][s] = Advanced(m, t)] /\ UNCHANGED <<pc, pend, files>>
        \/ t # None /\ t <= asOf[b] /\ Failed(b) /\ UNCHANGED <<pc, files>>
        \/ /\ t # None /\ t <= asOf[b] /\ UNCHANGED <<mem, pend>>
           /\ pc' = [pc EXCEPT ![b] = "store"] /\ files' = files
    BY <1>8 DEF Turn
  <2>3. pc[b] = "loop"
    BY <1>8 DEF Turn
  <2> HIDE DEF s, m, t, stored
  <2>4. \/ pc' = [pc EXCEPT ![b] = "next"] /\ UNCHANGED <<mem, pend, files>>
        \/ /\ pc[b] = "loop" /\ UNCHANGED <<pc, pend, files>>
           /\ m.end # None /\ t \in Nat /\ t > m.end
           /\ mem' = [mem EXCEPT ![b][s].status = "completed", ![b][s].next = None]
        \/ /\ pc[b] = "loop" /\ t \in Nat /\ <<s, t>> \in Keys(execs \cup flushed[b])
           /\ mem' = [mem EXCEPT ![b][s] = Advanced(m, t)] /\ UNCHANGED <<pc, pend, files>>
        \/ /\ t \in Nat /\ t <= asOf[b] /\ Failed(b)
           /\ pc' = [pc EXCEPT ![b] = "loop"] /\ files' \in {files, stored}
        \/ /\ t \in Nat /\ t <= asOf[b] /\ UNCHANGED <<mem, pend>>
           /\ \/ pc' = [pc EXCEPT ![b] = "store"] /\ files' = files
              \/ pc' = [pc EXCEPT ![b] = "insert"] /\ files' = stored
    BY <1>7, <2>1, <2>2, <2>3
  <2> QED BY <1>1, <1>2, <1>3, <1>4, <1>5, <1>6, <2>4 DEF s, m, t, stored
<1>9. CASE Store(b)
  <2>1. mem[b][cur[b]].next \in Nat /\ mem[b][cur[b]].next <= asOf[b]
    BY <1>9 DEF Store, BatchInv, BatchOK
  <2> QED BY <1>1, <1>2, <1>3, <1>4, <1>5, <1>6, <1>9, <2>1 DEF Store
<1> QED BY <1>8, <1>9

\* A step of a batch keeps the types.
LEMMA BatchTyped ==
  ASSUME TypeOK, BatchInv, NEW b \in Batches
  PROVE  /\ \A T \in SUBSET Tenants : Select(b, T) => TypeOK'
         /\ BatchStep(b) \/ Crash(b) => TypeOK'
<1> USE SchedulesAssumption DEF TypeOK, committed, session, user, bounds
<1>1. ASSUME NEW T \in SUBSET Tenants, Select(b, T)
      PROVE  TypeOK'
  BY <1>1, AbsentTyped DEF Select
<1>2. CASE Take(b)
  <2>1. PICK s \in todo[b] :
          /\ todo' = [todo EXCEPT ![b] = @ \ {s}]
          /\ \/ /\ cur' = [cur EXCEPT ![b] = s] /\ pc' = [pc EXCEPT ![b] = "loop"]
                /\ UNCHANGED <<mem, pend>>
             \/ /\ mem' = [mem EXCEPT ![b][s].status = "paused"]
                /\ pend' = [pend EXCEPT ![b] = @ \cup
                     {[schedule |-> s, at |-> loaded[b][s].next, status |-> "failed"]}]
                /\ UNCHANGED <<cur, pc>>
          /\ UNCHANGED <<committed, files, can, now, asOf, loaded, flushed, locked, user, bounds>>
    BY <1>2 DEF Take
  <2>2. s \in Schedules /\ loaded[b][s].next \in Nat
    BY <2>1 DEF BatchInv, BatchOK
  <2>3. [mem[b][s] EXCEPT !.status = "paused"] \in Row
    <3>1. mem[b][s] \in Row
      BY <2>2
    <3> QED BY <3>1, StatusTyped
  <2>4. [schedule |-> s, at |-> loaded[b][s].next, status |-> "failed"] \in Execution
    BY <2>2 DEF Execution
  <2>5. mem' \in [Batches -> [Schedules -> Row]]
    <3>1. mem[b] \in [Schedules -> Row]
      OBVIOUS
    <3>2. [mem[b] EXCEPT ![s] = [@ EXCEPT !.status = "paused"]] \in [Schedules -> Row]
      BY <2>2, <2>3, <3>1
    <3>3. mem' = mem \/ mem' = [mem EXCEPT ![b] = [mem[b] EXCEPT ![s] = [@ EXCEPT !.status = "paused"]]]
      BY <2>1
    <3> QED BY <3>2, <3>3
  <2>6. pend' \in [Batches -> SUBSET Execution]
    <3>1. pend[b] \cup {[schedule |-> s, at |-> loaded[b][s].next, status |-> "failed"]}
            \in SUBSET Execution
      BY <2>4
    <3> HIDE DEF TypeOK
    <3>2. pend \in [Batches -> SUBSET Execution]
      BY DEF TypeOK
    <3> QED BY <2>1, <3>1, <3>2
  <2>7. /\ todo' \in [Batches -> SUBSET Schedules] /\ cur' \in [Batches -> Schedules \cup {None}]
        /\ pc' \in [Batches -> {"idle", "next", "loop", "store", "insert"}]
    <3>1. /\ todo' = [todo EXCEPT ![b] = todo[b] \ {s}]
          /\ cur' = cur \/ cur' = [cur EXCEPT ![b] = s]
          /\ pc' = pc \/ pc' = [pc EXCEPT ![b] = "loop"]
      BY <2>1
    <3>2. /\ todo \in [Batches -> SUBSET Schedules] /\ cur \in [Batches -> Schedules \cup {None}]
          /\ pc \in [Batches -> {"idle", "next", "loop", "store", "insert"}]
      OBVIOUS
    <3> HIDE DEF TypeOK
    <3> QED BY <3>1, <3>2, <2>2
  <2>8. UNCHANGED <<sched, execs, files, can, now, asOf, loaded, flushed, locked, ask, row,
                    edits, upsets>>
    BY <2>1
  <2> HIDE DEF committed, session, user, bounds
  <2> QED BY <2>5, <2>6, <2>7, <2>8
<1>3. CASE Turn(b) \/ Store(b)
  <2> DEFINE s == cur[b]
             t == mem[b][s].next
  <2>1. s \in Schedules /\ mem[b][s] \in Row /\ t \in Time
    BY <1>3, WorkShape
  <2>2. t \in Nat => /\ Advanced(mem[b][s], t) \in Row
                     /\ [schedule |-> s, at |-> t, status |-> "failed"] \in Execution
    BY <2>1, AdvancedTyped DEF Execution
  <2>3. [mem[b][s] EXCEPT !.status = "completed", !.next = None] \in Row
    BY <2>1, DatedTyped DEF Time
  <2>4. mem' \in [Batches -> [Schedules -> Row]]
    <3>1. \/ mem' = mem
          \/ mem' = [mem EXCEPT ![b][s].status = "completed", ![b][s].next = None]
          \/ t \in Nat /\ mem' = [mem EXCEPT ![b][s] = Advanced(mem[b][s], t)]
      BY <1>3, WorkShape DEF Failed
    <3>2. mem[b] \in [Schedules -> Row] /\ mem \in [Batches -> [Schedules -> Row]]
      OBVIOUS
    <3> HIDE DEF TypeOK
    <3>3. ASSUME NEW m \in Row
          PROVE  [mem EXCEPT ![b] = [mem[b] EXCEPT ![s] = m]] \in [Batches -> [Schedules -> Row]]
      BY <2>1, <3>2
    <3>4. CASE mem' = [mem EXCEPT ![b][s].status = "completed", ![b][s].next = None]
      <4> DEFINE m == [mem[b][s] EXCEPT !.status = "completed", !.next = None]
      <4>1. mem' = [mem EXCEPT ![b] = [mem[b] EXCEPT ![s] = m]]
        BY <3>4, <3>2, <2>1
      <4>2. m \in Row
        BY <2>3
      <4> HIDE DEF m
      <4> QED BY <4>1, <4>2, <3>3
    <3>5. CASE t \in Nat /\ mem' = [mem EXCEPT ![b][s] = Advanced(mem[b][s], t)]
      BY <3>3, <3>5, <2>2
    <3> QED BY <3>1, <3>2, <3>4, <3>5
  <2>5. pend' \in [Batches -> SUBSET Execution]
    <3>1. pend \in [Batches -> SUBSET Execution]
      OBVIOUS
    <3> DEFINE x == [schedule |-> s, at |-> t, status |-> "failed"]
    <3>2. pend' = pend \/ (t \in Nat /\ pend' = [pend EXCEPT ![b] = @ \cup {x}])
      BY <1>3, WorkShape DEF Failed
    <3>3. t \in Nat => x \in Execution
      BY <2>2
    <3> HIDE DEF x, TypeOK
    <3> QED BY <3>1, <3>2, <3>3
  <2>6. /\ pc' \in [Batches -> {"idle", "next", "loop", "store", "insert"}]
        /\ files' \subseteq Schedules \X Nat
    <3>1. /\ pc' = pc \/ \E p \in {"next", "loop", "store", "insert"} : pc' = [pc EXCEPT ![b] = p]
          /\ files' = files \/ (t \in Nat /\ files' = files \cup {<<s, t>>})
      BY <1>3, WorkShape
    <3>2. /\ pc \in [Batches -> {"idle", "next", "loop", "store", "insert"}]
          /\ files \subseteq Schedules \X Nat
      OBVIOUS
    <3> HIDE DEF TypeOK, t
    <3> QED BY <3>1, <3>2, <2>1
  <2>7. /\ upsets' \in Nat
        /\ UNCHANGED <<sched, execs, can, now, todo, cur, asOf, loaded, flushed, locked, ask, row, edits>>
    BY <1>3, WorkShape
  <2> HIDE DEF committed, session, user, bounds
  <2> QED BY <2>4, <2>5, <2>6, <2>7
<1>4. CASE Insert(b)
  <2> DEFINE s == cur[b]
             t == mem[b][s].next
  <2>1. s \in Schedules /\ mem[b][s] \in Row /\ t \in Nat
    <3>1. pc[b] = "insert"
      BY <1>4 DEF Insert
    <3> HIDE DEF TypeOK
    <3>2. s \in Schedules /\ t \in Nat
      BY <3>1 DEF BatchInv, BatchOK
    <3> USE DEF TypeOK
    <3> QED BY <3>2
  <2>2. /\ Advanced(mem[b][s], t) \in Row
        /\ [schedule |-> s, at |-> t, status |-> "generated"] \in Execution
    BY <2>1, AdvancedTyped DEF Execution
  <2> QED BY <1>4, <2>1, <2>2 DEF Insert, Dirty
<1>5. CASE Finish(b)
  <2>1. \A s \in Schedules :
          [f \in DOMAIN Absent |-> Set(loaded[b][s][f], sched[s][f], mem[b][s][f])] \in Row
    <3> TAKE s \in Schedules
    <3>1. loaded[b][s] \in Row /\ sched[s] \in Row /\ mem[b][s] \in Row
      OBVIOUS
    <3> QED BY <3>1, FieldsTyped, MergeTyped
  <2>2. sched' \in [Schedules -> Row]
    BY <1>5, <2>1 DEF Finish
  <2>3. execs' \subseteq Execution
    BY <1>5 DEF Finish
  <2>4. Leave(b)
    BY <1>5 DEF Finish
  <2> QED BY <1>5, <2>2, <2>3, <2>4, LeaveTyped DEF Finish
<1>6. CASE Fails(b)
  <2>1. Leave(b)
    BY <1>6 DEF Fails
  <2> QED BY <1>6, <2>1, LeaveTyped DEF Fails
<1>7. CASE Crash(b)
  <2>1. Leave(b)
    BY <1>7 DEF Crash
  <2>2. upsets' \in Nat
    BY <1>7 DEF Crash, Upset
  <2> QED BY <1>7, <2>1, <2>2, LeaveTyped DEF Crash
<1> QED BY <1>1, <1>2, <1>3, <1>4, <1>5, <1>6, <1>7 DEF BatchStep

\* Every step keeps the types.
LEMMA TypeStep ==
  ASSUME TypeOK, BatchInv, Next
  PROVE  TypeOK'
<1>1. ASSUME NEW s \in Schedules, NEW i \in Intervals, NEW start \in Starts, NEW end \in Ends,
             create_schedule(s, i, start, end)
      PROVE  TypeOK'
  <2>1. [status |-> "active", interval |-> i, start |-> start, end |-> end, next |-> start,
         last |-> None] \in Row
    BY SchedulesAssumption DEF Row, Time
  <2> QED BY <1>1, <2>1 DEF create_schedule, TypeOK, session, user
<1>2. ASSUME NEW t \in Tenants, Flip(t)
      PROVE  TypeOK'
  BY <1>2 DEF Flip, Upset, TypeOK, committed, session, user
<1>3. CASE Tick
  BY <1>3 DEF Tick, TypeOK, committed, session, user, bounds
<1>4. \A t \in Tenants : {t} \in SUBSET Tenants
  OBVIOUS
<1> QED BY <1>1, <1>2, <1>3, <1>4, UserTyped, BatchTyped DEF Next

----------------------------------------------------------------------------
\* What a batch has in hand.

\* A batch whose session does not change is undisturbed.
LEMMA Undisturbed ==
  ASSUME TypeOK, NEW c \in Batches, BatchOK(c), AddedOK(c),
         UNCHANGED <<pc[c], todo[c], cur[c], asOf[c], loaded[c], mem[c], pend[c], flushed[c]>>,
         now' \in Nat, now' >= now, files \subseteq files'
  PROVE  BatchOK(c)' /\ AddedOK(c)'
<1>1. asOf[c] \in Nat /\ now \in Nat
  BY DEF TypeOK
<1>2. Added(c)' = Added(c)
  BY DEF Added
<1>3. BatchOK(c)'
  BY <1>1, <1>2 DEF BatchOK
<1>4. AddedOK(c)'
  BY <1>2 DEF AddedOK
<1> QED BY <1>3, <1>4

\* A batch that ends has nothing.
LEMMA LeaveOK ==
  ASSUME TypeOK, NEW b \in Batches, Leave(b)
  PROVE  BatchOK(b)' /\ AddedOK(b)'
<1>1. /\ pc'[b] = "idle" /\ todo'[b] = {} /\ asOf'[b] = 0 /\ pend'[b] = {} /\ flushed'[b] = {}
      /\ now' = now
  BY DEF Leave, TypeOK
<1>2. Added(b)' = {}
  BY <1>1 DEF Added
<1>3. now \in Nat
  BY DEF TypeOK
<1> QED BY <1>1, <1>2, <1>3 DEF BatchOK, AddedOK

\* The SELECT loads due schedules only.
LEMMA SelectOK ==
  ASSUME TypeOK, NEW b \in Batches, BatchOK(b), NEW T, Select(b, T)
  PROVE  BatchOK(b)' /\ AddedOK(b)'
<1> DEFINE S == {s \in Schedules : TenantOf[s] \in T /\ Due(s)}
<1>1. /\ pc'[b] = "next" /\ todo'[b] = S /\ asOf'[b] = now /\ now' = now /\ now \in Nat
      /\ pend' = pend /\ flushed' = flushed /\ pc[b] = "idle"
      /\ \A s \in S : loaded'[b][s] = sched[s]
  BY DEF Select, TypeOK
<1>2. Added(b)' = {}
  BY <1>1 DEF BatchOK, Added
<1>3. \A s \in S : sched[s].next \in Nat /\ sched[s].next <= now
  <2> TAKE s \in S
  <2>1. sched[s] \in Row
    BY DEF TypeOK
  <2> QED BY <2>1, FieldsTyped DEF Due, Time
<1> HIDE DEF S
<1> QED BY <1>1, <1>2, <1>3 DEF BatchOK, AddedOK

\* A schedule taken from the list has nothing added yet.
LEMMA TakeOK ==
  ASSUME TypeOK, NEW b \in Batches, BatchOK(b), AddedOK(b), Take(b)
  PROVE  BatchOK(b)' /\ AddedOK(b)'
<1>1. PICK s \in todo[b] :
        /\ pc[b] = "next" /\ todo'[b] = todo[b] \ {s}
        /\ \/ cur'[b] = s /\ pc'[b] = "loop" /\ pend' = pend
           \/ /\ pend'[b] = pend[b] \cup {[schedule |-> s, at |-> loaded[b][s].next, status |-> "failed"]}
              /\ pc' = pc
        /\ UNCHANGED <<now, asOf, loaded, flushed, files>>
  BY DEF Take, TypeOK
<1>2. s \in Schedules /\ loaded[b][s].next \in Nat /\ loaded[b][s].next <= asOf[b]
  BY <1>1 DEF BatchOK, TypeOK
<1> DEFINE x == [schedule |-> s, at |-> loaded[b][s].next, status |-> "failed"]
<1>3. x.schedule = s /\ x.at = loaded[b][s].next /\ x.status = "failed"
  OBVIOUS
<1> HIDE DEF x
<1>4. CASE cur'[b] = s /\ pc'[b] = "loop" /\ pend' = pend
  <2>1. Added(b)' = Added(b)
    BY <1>1, <1>4 DEF Added
  <2>2. BatchOK(b)'
    BY <1>1, <1>2, <1>4 DEF BatchOK
  <2>3. AddedOK(b)'
    BY <1>1, <1>4, <2>1 DEF AddedOK
  <2> QED BY <2>2, <2>3
<1>5. CASE pend'[b] = pend[b] \cup {x} /\ pc' = pc
  <2>1. Added(b)' = Added(b) \cup {x}
    BY <1>1, <1>5 DEF Added
  <2>2. BatchOK(b)'
    BY <1>1, <1>2, <1>5 DEF BatchOK
  <2>3. AddedOK(b)'
    BY <1>1, <1>2, <1>3, <1>5, <2>1 DEF AddedOK, SameKey
  <2> QED BY <2>2, <2>3
<1> QED BY <1>1, <1>4, <1>5 DEF x

\* An execution added for the occurrence at hand, before the schedule advances.
LEMMA AddOne ==
  ASSUME TypeOK, NEW b \in Batches, AddedOK(b), pc[b] \in {"loop", "store", "insert"},
         cur[b] \in Schedules \ todo[b], mem[b][cur[b]].next \in Nat,
         mem[b][cur[b]].next <= asOf[b],
         NEW x \in Execution, x.schedule = cur[b], x.at = mem[b][cur[b]].next,
         x.status = "generated" => <<x.schedule, x.at>> \in files, files \subseteq files',
         Added(b)' = Added(b) \cup {x},
         mem'[b][cur[b]].next = None \/ mem'[b][cur[b]].next > mem[b][cur[b]].next,
         mem'[b][cur[b]].next \in Time,
         UNCHANGED <<todo, cur, asOf>>
  PROVE  AddedOK(b)'
<1> DEFINE t == mem[b][cur[b]].next
           n == mem'[b][cur[b]].next
<1>1. \A y \in Added(b) : y \in Execution
  BY DEF TypeOK, Added
<1>2. \A y \in Added(b) : y.at \in Nat
  BY <1>1 DEF Execution
<1>3. \A y \in Added(b) : y.schedule = cur[b] => y.at < t
  BY SchedulesAssumption DEF AddedOK
<1>4. \A y \in Added(b) \cup {x} : y.schedule = cur[b] => n = None \/ y.at < n
  BY <1>2, <1>3, SchedulesAssumption DEF Time
<1>5. \A y \in Added(b) : ~SameKey(x, y) /\ ~SameKey(y, x)
  BY <1>2, <1>3 DEF SameKey
<1>6. \A y, z \in Added(b) \cup {x} : SameKey(y, z) => y = z
  BY <1>5 DEF AddedOK
<1>7. \A y \in Added(b) \cup {x} : /\ y.schedule \notin todo[b] /\ y.at <= asOf[b]
                                   /\ y.status = "generated" => <<y.schedule, y.at>> \in files'
  BY DEF AddedOK
<1> QED BY <1>4, <1>6, <1>7 DEF AddedOK

\* A turn, or a write of a payload, adds nothing but the occurrence at hand, and advances
\* beyond it.
LEMMA WorkOK ==
  ASSUME TypeOK, BatchInv, NEW b \in Batches, AddedOK(b), Turn(b) \/ Store(b)
  PROVE  BatchOK(b)' /\ AddedOK(b)' /\ files \subseteq files'
<1> DEFINE s == cur[b]
           m == mem[b][s]
           t == m.next
           x == [schedule |-> s, at |-> t, status |-> "failed"]
           stored == files \cup {<<s, t>>}
<1>1. /\ pc[b] \in {"loop", "store"} /\ s \in Schedules \ todo[b] /\ m \in Row
      /\ t \in Time /\ asOf[b] \in Nat
      /\ \/ pc' = [pc EXCEPT ![b] = "next"] /\ UNCHANGED <<mem, pend, files>>
         \/ /\ mem' = [mem EXCEPT ![b][s].status = "completed", ![b][s].next = None]
            /\ pc[b] = "loop" /\ UNCHANGED <<pc, pend, files>>
         \/ /\ t \in Nat /\ mem' = [mem EXCEPT ![b][s] = Advanced(m, t)]
            /\ pc[b] = "loop" /\ UNCHANGED <<pc, pend, files>>
         \/ /\ t \in Nat /\ t <= asOf[b] /\ Failed(b)
            /\ pc' = [pc EXCEPT ![b] = "loop"] /\ files' \in {files, stored}
         \/ /\ t \in Nat /\ t <= asOf[b] /\ UNCHANGED <<mem, pend>>
            /\ \/ pc' = [pc EXCEPT ![b] = "store"] /\ files' = files
               \/ pc' = [pc EXCEPT ![b] = "insert"] /\ files' = stored
  BY WorkShape
<1>2. /\ pend \in [Batches -> SUBSET Execution] /\ mem \in [Batches -> [Schedules -> Row]]
      /\ pc \in [Batches -> {"idle", "next", "loop", "store", "insert"}]
  BY DEF TypeOK
<1>3. UNCHANGED <<now, todo, cur, asOf, loaded, flushed>> /\ BatchOK(b)
  BY WorkShape DEF BatchInv
<1>4. files \subseteq files'
  BY <1>1
<1>5. t \in Nat => /\ Advanced(m, t).next \in Time
                   /\ Advanced(m, t).next = None \/ Advanced(m, t).next > t
  BY <1>1, AdvancedTyped, FieldsTyped
<1>6. CASE pc' = [pc EXCEPT ![b] = "next"] /\ UNCHANGED <<mem, pend, files>>
  <2>1. Added(b)' = Added(b) /\ pc'[b] = "next"
    BY <1>2, <1>3, <1>6 DEF Added
  <2> QED BY <1>1, <1>3, <1>6, <2>1 DEF BatchOK, AddedOK
<1>7. CASE /\ mem' = [mem EXCEPT ![b][s].status = "completed", ![b][s].next = None]
           /\ pc[b] = "loop" /\ UNCHANGED <<pc, pend, files>>
  <2>1. mem'[b][s].next = None
    BY <1>1, <1>2, <1>7 DEF Row
  <2>2. Added(b)' = Added(b)
    BY <1>3, <1>7 DEF Added
  <2> QED BY <1>1, <1>3, <1>7, <2>1, <2>2 DEF BatchOK, AddedOK
<1>8. CASE /\ t \in Nat /\ mem' = [mem EXCEPT ![b][s] = Advanced(m, t)]
           /\ pc[b] = "loop" /\ UNCHANGED <<pc, pend, files>>
  <2>1. mem'[b][s] = Advanced(m, t)
    BY <1>1, <1>2, <1>8
  <2>2. Added(b)' = Added(b)
    BY <1>3, <1>8 DEF Added
  <2> DEFINE n == mem'[b][s].next
  <2>3. n \in Time /\ (n = None \/ n > t)
    BY <1>5, <1>8, <2>1
  <2>4. \A y \in Added(b) : y.schedule = s => n = None \/ y.at < n
    <3> TAKE y \in Added(b)
    <3>1. y \in Execution
      BY DEF TypeOK, Added
    <3>2. y.at \in Nat
      BY <3>1 DEF Execution
    <3>3. y.schedule = s => y.at < t
      BY <1>1, <1>8, SchedulesAssumption DEF AddedOK
    <3> HIDE DEF n, s, t
    <3> QED BY <2>3, <3>2, <3>3, <1>8 DEF Time
  <2>5. BatchOK(b)'
    BY <1>1, <1>3, <1>8, <2>2 DEF BatchOK
  <2> QED BY <1>1, <1>3, <1>4, <1>8, <2>2, <2>4, <2>5 DEF AddedOK
<1>9. CASE /\ t \in Nat /\ t <= asOf[b] /\ Failed(b)
           /\ pc' = [pc EXCEPT ![b] = "loop"] /\ files' \in {files, stored}
  <2>1. mem'[b][s] = Advanced(m, t) /\ pend'[b] = pend[b] \cup {x} /\ pc'[b] = "loop"
    BY <1>1, <1>2, <1>9 DEF Failed
  <2>2. x \in Execution /\ x.schedule = s /\ x.at = t /\ x.status # "generated"
    BY <1>1, <1>9 DEF Execution
  <2> HIDE DEF x
  <2>3. Added(b)' = Added(b) \cup {x}
    BY <1>3, <2>1 DEF Added
  <2>4. BatchOK(b)'
    BY <1>1, <1>3, <1>9, <2>1, <2>3 DEF BatchOK
  <2>5. mem'[b][s].next \in Time /\ (mem'[b][s].next = None \/ mem'[b][s].next > t)
    BY <1>5, <1>9, <2>1
  <2>6. AddedOK(b)'
    BY <1>1, <1>3, <1>4, <1>9, <2>2, <2>3, <2>5, AddOne
  <2> QED BY <1>4, <2>4, <2>6
<1>10. CASE /\ t \in Nat /\ t <= asOf[b] /\ UNCHANGED <<mem, pend>>
            /\ \/ pc' = [pc EXCEPT ![b] = "store"] /\ files' = files
               \/ pc' = [pc EXCEPT ![b] = "insert"] /\ files' = stored
  <2>1. /\ Added(b)' = Added(b)
        /\ pc'[b] = "store" \/ (pc'[b] = "insert" /\ <<s, t>> \in files')
    BY <1>2, <1>3, <1>10 DEF Added
  <2>2. BatchOK(b)'
    BY <1>1, <1>3, <1>10, <2>1 DEF BatchOK
  <2>3. AddedOK(b)'
    BY <1>1, <1>3, <1>4, <1>10, <2>1 DEF AddedOK
  <2> QED BY <1>4, <2>2, <2>3
<1> QED BY <1>1, <1>6, <1>7, <1>8, <1>9, <1>10

\* An insert adds the occurrence at hand, whose payload is stored.
LEMMA InsertOK ==
  ASSUME TypeOK, NEW b \in Batches, BatchOK(b), AddedOK(b), Insert(b)
  PROVE  BatchOK(b)' /\ AddedOK(b)'
<1> DEFINE s == cur[b]
           m == mem[b][s]
           t == m.next
           x == [schedule |-> s, at |-> t, status |-> "generated"]
<1>1. /\ pc[b] = "insert" /\ s \in Schedules \ todo[b]
      /\ t \in Nat /\ t <= asOf[b] /\ <<s, t>> \in files
  BY DEF Insert, BatchOK
<1>2. UNCHANGED <<now, files, todo, cur, asOf, loaded>> /\ pc'[b] = "loop"
  BY DEF Insert, TypeOK
<1>3. /\ x \in Execution /\ x.schedule = s /\ x.at = t
  BY <1>1 DEF Execution
<1>4. Advanced(m, t).next \in Time /\ (Advanced(m, t).next = None \/ Advanced(m, t).next > t)
  <2>1. m \in Row
    BY <1>1 DEF TypeOK
  <2> QED BY <1>1, <2>1, AdvancedTyped, FieldsTyped
<1>5. mem'[b][s] = Advanced(m, t)
  BY <1>1 DEF Insert, TypeOK
<1>6. flushed'[b] = flushed[b] \cup pend[b] /\ pend'[b] = {x}
  BY DEF Insert, TypeOK
<1> HIDE DEF x
<1>7. Added(b)' = Added(b) \cup {x}
  BY <1>6 DEF Added
<1>8. BatchOK(b)'
  BY <1>1, <1>2 DEF BatchOK
<1>9. AddedOK(b)'
  BY <1>1, <1>2, <1>3, <1>4, <1>5, <1>7, AddOne
<1> QED BY <1>8, <1>9

\* A step of batch b leaves the sessions of the others alone.
LEMMA OthersKept ==
  ASSUME TypeOK, NEW b \in Batches, NEW c \in Batches, c # b,
         BatchStep(b) \/ Crash(b) \/ \E T \in SUBSET Tenants : Select(b, T)
  PROVE  /\ UNCHANGED <<pc[c], todo[c], cur[c], asOf[c], loaded[c], mem[c], pend[c], flushed[c]>>
         /\ now' = now
<1> USE DEF TypeOK
<1>1. CASE Take(b)
  BY <1>1 DEF Take
<1>2. CASE Turn(b) \/ Store(b)
  BY <1>2 DEF Turn, Store, Failed
<1>3. CASE Insert(b)
  BY <1>3 DEF Insert
<1>4. CASE Leave(b)
  BY <1>4 DEF Leave
<1>5. CASE \E T \in SUBSET Tenants : Select(b, T)
  BY <1>5 DEF Select
<1> HIDE DEF TypeOK
<1> QED BY <1>1, <1>2, <1>3, <1>4, <1>5 DEF BatchStep, Finish, Fails, Crash

\* A step that is not of a batch leaves every session, execution and payload alone.
LEMMA NotOfABatch ==
  ASSUME TypeOK, Next
  PROVE  \/ \E b \in Batches : BatchStep(b) \/ Crash(b) \/ \E T \in SUBSET Tenants : Select(b, T)
         \/ /\ UNCHANGED <<pc, session, execs, files>>
            /\ now' \in Nat /\ now' >= now
<1>1. now \in Nat
  BY DEF TypeOK
<1>2. ASSUME NEW u \in Users, UserStep(u)
      PROVE  UNCHANGED <<pc, session, execs, files, now>>
  BY <1>2 DEF UserStep, pause_schedule, resume_schedule, update_schedule, Writes
<1>3. ASSUME NEW u \in Users, NEW s \in Schedules, NEW r \in Requests(s), Asks(u, s, r)
      PROVE  UNCHANGED <<pc, session, execs, files, now>>
  BY <1>3 DEF Asks, committed
<1>4. ASSUME NEW s \in Schedules, NEW i \in Intervals, NEW start \in Starts, NEW end \in Ends,
             create_schedule(s, i, start, end)
      PROVE  UNCHANGED <<pc, session, execs, files, now>>
  BY <1>4 DEF create_schedule
<1>5. ASSUME NEW t \in Tenants, Flip(t)
      PROVE  UNCHANGED <<pc, session, execs, files, now>>
  BY <1>5 DEF Flip, committed
<1>6. CASE Tick
  BY <1>1, <1>6 DEF Tick, committed
<1>7. ASSUME NEW b \in Batches, Select(b, Tenants) \/ \E t \in Tenants : Select(b, {t})
      PROVE  \E T \in SUBSET Tenants : Select(b, T)
  <2>1. Tenants \in SUBSET Tenants /\ \A t \in Tenants : {t} \in SUBSET Tenants
    OBVIOUS
  <2> QED BY <1>7, <2>1
<1>8. CASE UNCHANGED <<pc, session, execs, files, now>>
  BY <1>1, <1>8
<1>9. CASE \E u \in Users : UserStep(u) \/ \E s \in Schedules : \E r \in Requests(s) : Asks(u, s, r)
  BY <1>2, <1>3, <1>8, <1>9
<1>10. CASE \E b \in Batches : \/ BatchStep(b) \/ Crash(b) \/ Select(b, Tenants)
                              \/ \E t \in Tenants : Select(b, {t})
  BY <1>7, <1>10
<1> QED BY <1>4, <1>5, <1>6, <1>8, <1>9, <1>10 DEF Next

\* Every step keeps what holds of the batches.
LEMMA SessionsStep ==
  ASSUME TypeOK, BatchInv, AddedInv, Next
  PROVE  BatchInv' /\ AddedInv'
<1>1. ASSUME NEW b \in Batches,
             BatchStep(b) \/ Crash(b) \/ \E T \in SUBSET Tenants : Select(b, T)
      PROVE  BatchInv' /\ AddedInv'
  <2>1. now \in Nat /\ BatchOK(b) /\ AddedOK(b)
    BY DEF TypeOK, BatchInv, AddedInv
  <2>2. BatchOK(b)' /\ AddedOK(b)' /\ files \subseteq files'
    <3>1. CASE Take(b)
      BY <2>1, <3>1, TakeOK DEF Take
    <3>2. CASE Turn(b) \/ Store(b)
      BY <2>1, <3>2, WorkOK
    <3>3. CASE Insert(b)
      BY <2>1, <3>3, InsertOK DEF Insert
    <3>4. CASE Leave(b)
      BY <3>4, LeaveOK DEF Leave
    <3>5. CASE \E T \in SUBSET Tenants : Select(b, T)
      <4>1. PICK T \in SUBSET Tenants : Select(b, T)
        BY <3>5
      <4>2. BatchOK(b)' /\ AddedOK(b)'
        BY <2>1, <4>1, SelectOK
      <4> QED BY <4>1, <4>2 DEF Select
    <3> QED BY <1>1, <3>1, <3>2, <3>3, <3>4, <3>5 DEF BatchStep, Finish, Fails, Crash
  <2>3. ASSUME NEW c \in Batches, c # b
        PROVE  BatchOK(c)' /\ AddedOK(c)'
    <3>1. /\ UNCHANGED <<pc[c], todo[c], cur[c], asOf[c], loaded[c], mem[c], pend[c], flushed[c]>>
          /\ now' = now
      BY <1>1, <2>3, OthersKept
    <3>2. BatchOK(c) /\ AddedOK(c) /\ now' \in Nat /\ now' >= now
      BY <2>1, <3>1 DEF BatchInv, AddedInv
    <3> QED BY <2>2, <3>1, <3>2, Undisturbed
  <2> QED BY <2>2, <2>3 DEF BatchInv, AddedInv
<1>2. ASSUME UNCHANGED <<pc, session, execs, files>>, now' \in Nat, now' >= now
      PROVE  BatchInv' /\ AddedInv'
  <2> SUFFICES ASSUME NEW c \in Batches
               PROVE  BatchOK(c)' /\ AddedOK(c)'
    BY DEF BatchInv, AddedInv
  <2>1. BatchOK(c) /\ AddedOK(c)
    BY DEF BatchInv, AddedInv
  <2>2. UNCHANGED <<pc[c], todo[c], cur[c], asOf[c], loaded[c], mem[c], pend[c], flushed[c]>>
    BY <1>2 DEF session
  <2> QED BY <1>2, <2>1, <2>2, Undisturbed
<1> QED BY <1>1, <1>2, NotOfABatch

----------------------------------------------------------------------------
\* Executions.

\* A batch whose flush does not wait or fail has only new keys, and its own.
LEMMA NoWaitNoConflict ==
  ASSUME NEW b \in Batches, NEW c \in Batches, c # b,
         pc[b] = "insert" \/ (pc[b] = "next" /\ todo[b] = {}), ~Waits(b), ~Conflicts(b),
         NEW x \in pend[b]
  PROVE  /\ \A y \in execs : ~SameKey(x, y)
         /\ \A y \in flushed[c] : ~SameKey(x, y)
<1>1. \A X, Y : \A y \in Y : x \in X /\ SameKey(x, y) => Keys(X) \cap Keys(Y) # {}
  <2> TAKE X, Y
  <2> TAKE y \in Y
  <2>1. x \in X => <<x.schedule, x.at>> \in Keys(X)
    BY DEF Keys
  <2>2. <<y.schedule, y.at>> \in Keys(Y)
    BY DEF Keys
  <2> QED BY <2>1, <2>2 DEF SameKey
<1>2. Keys(pend[b]) \cap Keys(execs) = {}
  BY DEF Conflicts
<1>3. Keys(pend[b]) \cap Keys(flushed[c]) = {}
  BY DEF Waits, WaitsFor
<1> QED BY <1>1, <1>2, <1>3

\* Every step keeps the keys distinct.
LEMMA KeysStep ==
  ASSUME SafeInv, Next
  PROVE  KeyInv' /\ OneExecutionEach'
<1> USE DEF SafeInv
<1>1. \A b \in Batches : \A x, y \in pend[b] \cup flushed[b] : SameKey(x, y) => x = y
  BY DEF AddedInv, AddedOK, Added
<1>2. \A x, y : SameKey(x, y) => SameKey(y, x)
  BY DEF SameKey
<1>3. \A x, y \in execs : SameKey(x, y) => x = y
  BY DEF OneExecutionEach, SameKey
<1>4. flushed \in [Batches -> SUBSET Execution] /\ pend \in [Batches -> SUBSET Execution]
  BY DEF TypeOK
<1> HIDE DEF SafeInv
<1>5. KeyInv
  BY DEF SafeInv
<1>6. ASSUME execs' = execs, \A c \in Batches : flushed'[c] \subseteq flushed[c]
      PROVE  KeyInv' /\ OneExecutionEach'
  <2>1. KeyInv'
    BY <1>5, <1>6 DEF KeyInv
  <2>2. OneExecutionEach'
    BY <1>3, <1>6 DEF OneExecutionEach, SameKey
  <2> QED BY <2>1, <2>2
<1>7. ASSUME NEW b \in Batches, Insert(b)
      PROVE  KeyInv' /\ OneExecutionEach'
  <2>1. /\ execs' = execs /\ flushed' = [flushed EXCEPT ![b] = @ \cup pend[b]]
        /\ pc[b] = "insert" /\ ~Waits(b) /\ ~Conflicts(b)
    BY <1>7 DEF Insert, committed
  <2>2. \A x \in pend[b] : \A y \in execs : ~SameKey(x, y)
    BY <2>1 DEF Conflicts, Keys, SameKey
  <2>3. \A c \in Batches : c # b => \A x \in pend[b] : \A y \in flushed[c] : ~SameKey(x, y)
    BY <2>1, NoWaitNoConflict
  <2>4. KeyInv'
    BY <1>2, <1>4, <1>5, <2>1, <2>2, <2>3 DEF KeyInv
  <2>5. OneExecutionEach'
    BY <1>3, <2>1 DEF OneExecutionEach, SameKey
  <2> QED BY <2>4, <2>5
<1>8. ASSUME NEW b \in Batches, Finish(b)
      PROVE  KeyInv' /\ OneExecutionEach'
  <2>1. /\ execs' = execs \cup flushed[b] \cup pend[b] /\ flushed' = [flushed EXCEPT ![b] = {}]
        /\ pc[b] = "next" /\ todo[b] = {} /\ ~Waits(b) /\ ~Conflicts(b)
    BY <1>8 DEF Finish, Leave
  <2>2. \A x \in pend[b] : \A y \in execs : ~SameKey(x, y)
    BY <2>1 DEF Conflicts, Keys, SameKey
  <2>3. \A c \in Batches : c # b => \A x \in pend[b] : \A y \in flushed[c] : ~SameKey(x, y)
    BY <2>1, NoWaitNoConflict
  <2>4. KeyInv'
    BY <1>2, <1>4, <1>5, <2>1, <2>3 DEF KeyInv
  <2>5. \A x \in flushed[b] : \A y \in execs : ~SameKey(x, y)
    BY <1>5 DEF KeyInv
  <2>6. \A x, y \in execs' : SameKey(x, y) => x = y
    BY <1>1, <1>2, <1>3, <2>1, <2>2, <2>5
  <2> QED BY <2>4, <2>6 DEF OneExecutionEach, SameKey
<1>9. ASSUME NEW b \in Batches,
             Take(b) \/ Turn(b) \/ Store(b) \/ Fails(b) \/ Crash(b) \/ \E T \in SUBSET Tenants : Select(b, T)
      PROVE  execs' = execs /\ \A c \in Batches : flushed'[c] \subseteq flushed[c]
  <2>1. execs' = execs /\ (flushed' = flushed \/ flushed' = [flushed EXCEPT ![b] = {}])
    BY <1>9 DEF Take, Turn, Store, Fails, Crash, Select, Leave, committed
  <2> QED BY <1>4, <2>1
<1>10. TypeOK
  BY DEF SafeInv
<1> QED BY <1>6, <1>7, <1>8, <1>9, <1>10, NotOfABatch DEF BatchStep, session

\* Every step keeps executions due and their payloads stored.
LEMMA PayloadsStep ==
  ASSUME TypeOK, BatchInv, AddedInv, GeneratedHasFile, Next
  PROVE  GeneratedHasFile'
<1>1. now \in Nat /\ execs \subseteq Execution
  BY DEF TypeOK
<1>2. ASSUME execs' = execs, now' \in Nat, now' >= now, files \subseteq files'
      PROVE  GeneratedHasFile'
  <2>1. \A x \in execs : x.at <= now'
    <3> TAKE x \in execs
    <3>1. x.at \in Nat /\ x.at <= now
      BY <1>1 DEF Execution, GeneratedHasFile
    <3> QED BY <1>1, <1>2, <3>1
  <2> QED BY <1>2, <2>1 DEF GeneratedHasFile
<1>3. ASSUME NEW b \in Batches, Finish(b)
      PROVE  GeneratedHasFile'
  <2>1. /\ execs' = execs \cup Added(b) /\ now' = now /\ files' = files
    BY <1>3 DEF Finish, Leave, Added
  <2>2. asOf[b] \in Nat /\ asOf[b] <= now /\ \A x \in Added(b) : x \in Execution
    BY DEF BatchInv, BatchOK, TypeOK, Added
  <2>3. \A x \in Added(b) : x.at \in Nat
    BY <2>2 DEF Execution
  <2>4. \A x \in Added(b) : x.at <= asOf[b] /\ (x.status = "generated" => <<x.schedule, x.at>> \in files)
    BY DEF AddedInv, AddedOK
  <2>5. \A x \in Added(b) : x.at <= now
    <3> TAKE x \in Added(b)
    <3>1. x.at \in Nat /\ x.at <= asOf[b]
      BY <2>3, <2>4
    <3> QED BY <1>1, <2>2, <3>1
  <2> QED BY <2>1, <2>4, <2>5 DEF GeneratedHasFile
<1>4. ASSUME NEW b \in Batches,
             \/ Take(b) \/ Turn(b) \/ Store(b) \/ Insert(b) \/ Fails(b) \/ Crash(b)
             \/ \E T \in SUBSET Tenants : Select(b, T)
      PROVE  execs' = execs /\ now' = now /\ files \subseteq files'
  BY <1>4 DEF Take, Turn, Store, Insert, Fails, Crash, Select, Leave, committed
<1> QED BY <1>1, <1>2, <1>3, <1>4, NotOfABatch DEF BatchStep

----------------------------------------------------------------------------
\* No batch passes an occurrence over.

\* Every occurrence of the row r of s that is not beyond its new next run n, or not
\* beyond its range if n is None, is among the keys X.
At(r, k) == r.next + k * r.interval
Reached(s, X, r, n) ==
  \A k \in Nat :
    (IF n = None THEN At(r, k) <= r.end ELSE At(r, k) < n) => <<s, At(r, k)>> \in X

\* A batch that loaded a schedule with a next run has moved it from one occurrence of
\* that row to another, or completed it; the rest of the row that counts is as loaded.
MemOK(b, s) ==
  LET r == loaded[b][s]
      m == mem[b][s] IN
  /\ m.interval = r.interval /\ m.end = r.end
  /\ r.next = None => m.next = None
  /\ r.next # None =>
       /\ \/ m.next = None /\ r.end # None
          \/ \E j \in Nat : m.next = At(r, j)
       /\ Reached(s, Keys(execs \cup Added(b)), r, m.next)

PassedInv == \A b \in Batches, s \in Schedules : MemOK(b, s)

\* Between two occurrences of a schedule there is none.
LEMMA NoneBetween ==
  ASSUME NEW i \in Nat \ {0}, NEW a \in Nat, NEW j \in Nat, NEW k \in Nat,
         a + k * i < (a + j * i) + i
  PROVE  k = j \/ a + k * i < a + j * i
<1>1. CASE k < j
  <2>1. k * i < j * i
    BY <1>1
  <2> QED BY <2>1
<1>2. CASE k > j
  <2>1. PICK d \in Nat : k = j + 1 + d
    BY <1>2
  <2>2. k * i = j * i + i + d * i /\ d * i \in Nat /\ j * i \in Nat
    BY <2>1
  <2> QED BY <2>2
<1> QED BY <1>1, <1>2

\* The occurrence that follows another.
LEMMA OneMore ==
  ASSUME NEW i \in Nat, NEW a \in Nat, NEW j \in Nat
  PROVE  (a + j * i) + i = a + (j + 1) * i /\ a + j * i \in Nat
<1>1. (j + 1) * i = j * i + i /\ j * i \in Nat
  OBVIOUS
<1> QED BY <1>1

\* A session that adds executions and leaves its rows alone keeps it.
LEMMA MemKept ==
  ASSUME NEW b \in Batches, NEW s \in Schedules, MemOK(b, s), UNCHANGED <<loaded[b][s]>>,
         mem'[b][s].next = mem[b][s].next, mem'[b][s].interval = mem[b][s].interval,
         mem'[b][s].end = mem[b][s].end,
         Keys(execs \cup Added(b)) \subseteq Keys(execs' \cup Added(b)')
  PROVE  MemOK(b, s)'
BY DEF MemOK, Reached, At

\* A row that advances beyond an occurrence that has run keeps it.
LEMMA MemAdvanced ==
  ASSUME TypeOK, NEW b \in Batches, NEW s \in Schedules, MemOK(b, s), UNCHANGED <<loaded[b][s]>>,
         mem[b][s].next \in Nat, mem'[b][s] = Advanced(mem[b][s], mem[b][s].next),
         Keys(execs \cup Added(b)) \subseteq Keys(execs' \cup Added(b)'),
         <<s, mem[b][s].next>> \in Keys(execs' \cup Added(b)')
  PROVE  MemOK(b, s)'
<1> DEFINE r == loaded[b][s]
           m == mem[b][s]
           t == m.next
           X == Keys(execs' \cup Added(b)')
<1>1. r \in Row /\ m \in Row /\ None \notin Nat
  BY SchedulesAssumption DEF TypeOK
<1>2. m.interval = r.interval /\ m.end = r.end /\ r.interval \in Nat \ {0} /\ r.end \in Time
  BY <1>1, FieldsTyped DEF MemOK
<1>3. r.next \in Nat /\ \E j \in Nat : t = At(r, j)
  BY <1>1, FieldsTyped DEF MemOK, Time
<1>4. PICK j \in Nat : t = At(r, j)
  BY <1>3
<1>5. /\ \A k \in Nat : At(r, k) < t => <<s, At(r, k)>> \in X
      /\ <<s, t>> \in X /\ \A k \in Nat : At(r, k) \in Nat
  BY <1>1, <1>2, <1>3, OneMore DEF MemOK, Reached, At
<1>6. \A k \in Nat : At(r, k) < t + r.interval => <<s, At(r, k)>> \in X
  <2> TAKE k \in Nat
  <2>1. At(r, k) < t + r.interval => k = j \/ At(r, k) < t
    BY <1>2, <1>3, <1>4, NoneBetween DEF At
  <2> QED BY <1>4, <1>5, <2>1
<1>7. t + r.interval = At(r, j + 1) /\ t + r.interval \in Nat
  <2>1. (r.next + j * r.interval) + r.interval = r.next + (j + 1) * r.interval
    BY <1>2, <1>3, OneMore
  <2>2. t = r.next + j * r.interval
    BY <1>4 DEF At
  <2> HIDE DEF t, r
  <2>3. t + r.interval = r.next + (j + 1) * r.interval
    BY <2>1, <2>2
  <2>4. t \in Nat /\ r.interval \in Nat
    BY <1>2 DEF t
  <2> QED BY <2>3, <2>4 DEF At
<1> DEFINE n == t + r.interval
           m2 == mem'[b][s]
<1>8. /\ m2.interval = r.interval /\ m2.end = r.end
      /\ \/ m2.next = n
         \/ m2.next = None /\ r.end # None /\ n > r.end
  BY <1>1, <1>2 DEF Advanced, Row
<1>9. \A k \in Nat : (IF m2.next = None THEN At(r, k) <= r.end ELSE At(r, k) < m2.next)
                       => <<s, At(r, k)>> \in X
  <2> TAKE k \in Nat
  <2>1. CASE m2.next = n
    BY <1>1, <1>6, <1>7, <2>1
  <2>2. CASE m2.next = None /\ r.end # None /\ n > r.end
    <3>1. At(r, k) <= r.end => At(r, k) < n
      BY <1>2, <1>5, <1>7, <2>2 DEF Time
    <3> QED BY <1>6, <2>2, <3>1
  <2> QED BY <1>8, <2>1, <2>2
<1>10. (m2.next = None /\ r.end # None) \/ \E q \in Nat : m2.next = At(r, q)
  BY <1>7, <1>8
<1> HIDE DEF n
<1> QED BY <1>1, <1>3, <1>8, <1>9, <1>10 DEF MemOK, Reached, At

\* A row that is completed because its next run lies beyond its range keeps it.
LEMMA MemCompleted ==
  ASSUME TypeOK, NEW b \in Batches, NEW s \in Schedules, MemOK(b, s),
         UNCHANGED <<loaded[b][s], execs, pend[b], flushed[b]>>,
         mem[b][s].next \in Nat, mem[b][s].end # None, mem[b][s].next > mem[b][s].end,
         mem'[b][s] = [mem[b][s] EXCEPT !.status = "completed", !.next = None]
  PROVE  MemOK(b, s)'
<1> DEFINE r == loaded[b][s]
           m == mem[b][s]
           X == Keys(execs \cup Added(b))
<1>1. r \in Row /\ m \in Row /\ None \notin Nat
  BY SchedulesAssumption DEF TypeOK
<1>2. m.interval = r.interval /\ m.end = r.end /\ r.interval \in Nat \ {0} /\ r.end \in Nat
  BY <1>1, FieldsTyped DEF MemOK, Time
<1>3. r.next \in Nat /\ \A k \in Nat : At(r, k) < m.next => <<s, At(r, k)>> \in X
  BY <1>1, FieldsTyped DEF MemOK, Time, Reached
<1>4. ASSUME NEW k \in Nat, At(r, k) <= r.end PROVE <<s, At(r, k)>> \in X
  <2>1. At(r, k) \in Nat
    BY <1>2, <1>3, OneMore DEF At
  <2>2. At(r, k) < m.next
    BY <1>2, <1>4, <2>1
  <2> QED BY <1>3, <2>2
<1>5. Added(b)' = Added(b)
  BY DEF Added
<1>6. LET n == mem'[b][s] IN n.interval = r.interval /\ n.end = r.end /\ n.next = None
  BY <1>1, <1>2 DEF Row
<1> QED BY <1>1, <1>2, <1>3, <1>4, <1>5, <1>6 DEF MemOK, Reached, At

\* A batch as it loaded its rows.
LEMMA MemFresh ==
  ASSUME TypeOK', NEW b \in Batches, NEW s \in Schedules, mem'[b][s] = loaded'[b][s]
  PROVE  MemOK(b, s)'
<1> DEFINE r == loaded'[b][s]
<1>1. r \in Row /\ r.interval \in Nat \ {0} /\ None \notin Nat
  BY FieldsTyped, SchedulesAssumption DEF TypeOK
<1>2. CASE r.next = None
  BY <1>2 DEF MemOK
<1>3. CASE r.next # None
  <2>1. r.next \in Nat
    BY <1>1, <1>3, FieldsTyped DEF Time
  <2>2. r.next = At(r, 0)
    BY <1>1, <2>1 DEF At
  <2>3. \A k \in Nat : ~(At(r, k) < r.next)
    <3> TAKE k \in Nat
    <3>1. k * r.interval \in Nat
      BY <1>1
    <3> QED BY <2>1, <3>1 DEF At
  <2> QED BY <1>3, <2>2, <2>3 DEF MemOK, Reached, At
<1> QED BY <1>2, <1>3

\* A step that is of no batch, or of another, keeps it.
LEMMA OtherPassed ==
  ASSUME PassedInv, NEW c \in Batches, NEW s \in Schedules,
         UNCHANGED <<loaded[c], mem[c], pend[c], flushed[c]>>, execs \subseteq execs'
  PROVE  MemOK(c, s)'
<1>1. Keys(execs \cup Added(c)) \subseteq Keys(execs' \cup Added(c)')
  BY DEF Keys, Added
<1> QED BY <1>1, MemKept DEF PassedInv

\* The rows of the batch that takes a schedule.
LEMMA TakePassed ==
  ASSUME TypeOK, PassedInv, NEW b \in Batches, Take(b), NEW s \in Schedules
  PROVE  MemOK(b, s)'
<1>1. PICK q \in todo[b] :
        /\ UNCHANGED mem \/ mem' = [mem EXCEPT ![b][q].status = "paused"]
        /\ pend[b] \subseteq pend'[b] /\ UNCHANGED <<execs, loaded, flushed>>
  BY DEF Take, TypeOK, committed
<1>2. q \in Schedules /\ mem \in [Batches -> [Schedules -> Row]]
  BY DEF TypeOK
<1>3. LET n == mem'[b][s]
          m == mem[b][s] IN n.next = m.next /\ n.interval = m.interval /\ n.end = m.end
  BY <1>1, <1>2 DEF Row
<1>4. Keys(execs \cup Added(b)) \subseteq Keys(execs' \cup Added(b)')
  BY <1>1 DEF Keys, Added
<1> QED BY <1>1, <1>3, <1>4, MemKept DEF PassedInv

\* The rows of the batch that makes a turn or writes a payload.
LEMMA WorkPassed ==
  ASSUME TypeOK, BatchInv, PassedInv, NEW b \in Batches, Turn(b) \/ Store(b), NEW q \in Schedules
  PROVE  MemOK(b, q)'
<1>0. PICK s \in Schedules : s = cur[b]
  BY WorkShape
<1> DEFINE m == mem[b][s]
           t == m.next
           x == [schedule |-> s, at |-> t, status |-> "failed"]
<1>1. /\ m \in Row /\ UNCHANGED <<execs, loaded, flushed>>
      /\ \/ UNCHANGED <<mem, pend>>
         \/ /\ UNCHANGED pend /\ m.end # None /\ t \in Nat /\ t > m.end
            /\ mem' = [mem EXCEPT ![b][s].status = "completed", ![b][s].next = None]
         \/ /\ t \in Nat /\ <<s, t>> \in Keys(execs \cup flushed[b])
            /\ mem' = [mem EXCEPT ![b][s] = Advanced(m, t)] /\ UNCHANGED pend
         \/ t \in Nat /\ Failed(b)
  BY <1>0, WorkShape
<1>2. MemOK(b, q) /\ MemOK(b, s) /\ UNCHANGED <<loaded[b][q], loaded[b][s]>>
  <2>1. MemOK(b, q) /\ MemOK(b, s)
    BY DEF PassedInv
  <2> QED BY <1>1, <2>1
<1>3. mem \in [Batches -> [Schedules -> Row]] /\ mem[b] \in [Schedules -> Row]
      /\ pend \in [Batches -> SUBSET Execution]
  BY DEF TypeOK
<1>4. ASSUME q # s, mem'[b][q] = mem[b][q], pend[b] \subseteq pend'[b] PROVE MemOK(b, q)'
  <2>1. Keys(execs \cup Added(b)) \subseteq Keys(execs' \cup Added(b)')
    BY <1>1, <1>4 DEF Keys, Added
  <2> QED BY <1>2, <1>4, <2>1, MemKept
<1>5. CASE UNCHANGED <<mem, pend>>
  BY <1>1, <1>5, OtherPassed
<1>6. CASE /\ UNCHANGED pend /\ m.end # None /\ t \in Nat /\ t > m.end
           /\ mem' = [mem EXCEPT ![b][s].status = "completed", ![b][s].next = None]
  <2>1. mem' = [mem EXCEPT ![b] = [mem[b] EXCEPT ![s] =
                  [m EXCEPT !.status = "completed", !.next = None]]]
    BY <1>1, <1>3, <1>6
  <2>2. mem'[b][s] = [m EXCEPT !.status = "completed", !.next = None]
        /\ (q # s => mem'[b][q] = mem[b][q])
    BY <1>1, <1>3, <2>1
  <2>3. UNCHANGED <<pend[b], flushed[b]>>
    BY <1>1, <1>6
  <2> QED BY <1>1, <1>2, <1>4, <1>6, <2>2, <2>3, MemCompleted
<1>7. ASSUME t \in Nat, mem' = [mem EXCEPT ![b][s] = Advanced(m, t)], pend[b] \subseteq pend'[b],
             <<s, t>> \in Keys(execs' \cup Added(b)')
      PROVE  MemOK(b, q)'
  <2>1. mem'[b][s] = Advanced(m, t) /\ (q # s => mem'[b][q] = mem[b][q])
    BY <1>1, <1>3, <1>7
  <2>2. Keys(execs \cup Added(b)) \subseteq Keys(execs' \cup Added(b)')
    BY <1>1, <1>7 DEF Keys, Added
  <2> QED BY <1>1, <1>2, <1>4, <1>7, <2>1, <2>2, MemAdvanced
<1>8. CASE /\ t \in Nat /\ <<s, t>> \in Keys(execs \cup flushed[b])
           /\ mem' = [mem EXCEPT ![b][s] = Advanced(m, t)] /\ UNCHANGED pend
  <2>1. <<s, t>> \in Keys(execs' \cup Added(b)')
    BY <1>1, <1>8 DEF Keys, Added
  <2> QED BY <1>7, <1>8, <2>1
<1>9. CASE t \in Nat /\ Failed(b)
  <2>1. x.schedule = s /\ x.at = t
    OBVIOUS
  <2>2. mem' = [mem EXCEPT ![b][s] = Advanced(m, t)] /\ pend'[b] = pend[b] \cup {x}
    BY <1>0, <1>3, <1>9 DEF Failed
  <2> HIDE DEF x
  <2>3. <<s, t>> \in Keys(execs' \cup Added(b)')
    BY <2>1, <2>2 DEF Keys, Added
  <2> QED BY <1>7, <1>9, <2>2, <2>3
<1> QED BY <1>1, <1>5, <1>6, <1>8, <1>9

\* The rows of the batch that inserts an invoice.
LEMMA InsertPassed ==
  ASSUME TypeOK, BatchInv, PassedInv, NEW b \in Batches, Insert(b), NEW q \in Schedules
  PROVE  MemOK(b, q)'
<1>1. pc[b] = "insert" /\ UNCHANGED <<execs, loaded>>
  BY DEF Insert, committed
<1>0. PICK s \in Schedules : s = cur[b]
  BY <1>1 DEF BatchInv, BatchOK
<1> DEFINE m == mem[b][s]
           t == m.next
           x == [schedule |-> s, at |-> t, status |-> "generated"]
<1>2. t \in Nat /\ MemOK(b, q) /\ MemOK(b, s)
  BY <1>0, <1>1 DEF BatchInv, BatchOK, PassedInv
<1>3. /\ mem'[b][s] = Advanced(m, t) /\ (q # s => mem'[b][q] = mem[b][q])
      /\ flushed'[b] = flushed[b] \cup pend[b] /\ pend'[b] = {x}
  BY <1>0, <1>2 DEF Insert, TypeOK
<1>4. x.schedule = s /\ x.at = t
  OBVIOUS
<1> HIDE DEF x
<1>5. /\ Keys(execs \cup Added(b)) \subseteq Keys(execs' \cup Added(b)')
      /\ <<s, t>> \in Keys(execs' \cup Added(b)')
  BY <1>1, <1>3, <1>4 DEF Keys, Added
<1>6. UNCHANGED <<loaded[b][q], loaded[b][s]>>
  BY <1>1
<1> QED BY <1>2, <1>3, <1>5, <1>6, MemAdvanced, MemKept

\* Every step keeps it.
LEMMA PassedStep ==
  ASSUME TypeOK, BatchInv, TypeOK', PassedInv, [Next]_vars
  PROVE  PassedInv'
<1>1. ASSUME NEW b \in Batches,
             BatchStep(b) \/ Crash(b) \/ \E T \in SUBSET Tenants : Select(b, T)
      PROVE  PassedInv'
  <2>1. execs \subseteq execs'
    BY <1>1 DEF BatchStep, Take, Turn, Store, Insert, Finish, Fails, Crash, Select, committed
  <2>2. ASSUME NEW c \in Batches, c # b, NEW s \in Schedules PROVE MemOK(c, s)'
    BY <1>1, <2>1, <2>2, OthersKept, OtherPassed
  <2>3. ASSUME NEW s \in Schedules PROVE MemOK(b, s)'
    <3>1. CASE Leave(b)
      <4>1. mem'[b][s] = Absent /\ loaded'[b][s] = Absent
        BY <3>1 DEF Leave, TypeOK
      <4> QED BY <4>1, MemFresh
    <3>2. CASE \E T \in SUBSET Tenants : Select(b, T)
      <4>1. mem' = [mem EXCEPT ![b] = loaded'[b]]
        BY <3>2 DEF Select
      <4>2. mem'[b][s] = loaded'[b][s]
        BY <4>1 DEF TypeOK
      <4> QED BY <4>2, MemFresh
    <3> QED BY <1>1, <3>1, <3>2, TakePassed, WorkPassed, InsertPassed
            DEF BatchStep, Finish, Fails, Crash
  <2> QED BY <2>2, <2>3 DEF PassedInv
<1>2. ASSUME UNCHANGED <<pc, session, execs>> PROVE PassedInv'
  <2> SUFFICES ASSUME NEW c \in Batches, NEW s \in Schedules PROVE MemOK(c, s)'
    BY DEF PassedInv
  <2> QED BY <1>2, OtherPassed DEF session
<1>3. CASE UNCHANGED vars
  BY <1>2, <1>3 DEF vars, committed
<1> QED BY <1>1, <1>2, <1>3, NotOfABatch

\* A commit that moves the next run of a schedule commits the executions of all that
\* the batch has passed.
LEMMA CommitAccounts ==
  ASSUME TypeOK, PassedInv, Next, NEW b \in Batches, NEW s \in Schedules,
         pc'[b] # pc[b], sched'[s].next # sched[s].next, NEW k \in 0..MaxTime
  PROVE  LET r == loaded[b][s]
             t == r.next + k * r.interval
         IN  (IF sched'[s].next = None THEN t <= r.end ELSE t < sched'[s].next)
               => <<s, t>> \in Keys(execs')
<1>1. PICK c \in Batches : BatchStep(c) \/ Crash(c) \/ \E T \in SUBSET Tenants : Select(c, T)
  BY NotOfABatch
<1>2. c = b
  BY <1>1, OthersKept
<1>3. Finish(b)
  BY <1>1, <1>2 DEF BatchStep, Take, Turn, Store, Insert, Fails, Crash, Select, committed
<1>4. sched'[s].next = Set(loaded[b][s].next, sched[s].next, mem[b][s].next)
  BY <1>3 DEF Finish, Absent
<1>5. sched'[s].next = mem[b][s].next /\ mem[b][s].next # loaded[b][s].next
  BY <1>4 DEF Set
<1>6. Reached(s, Keys(execs \cup Added(b)), loaded[b][s], mem[b][s].next)
  BY <1>5 DEF PassedInv, MemOK
<1>7. execs' = execs \cup Added(b)
  BY <1>3 DEF Finish, Added
<1>8. k \in Nat
  BY SchedulesAssumption
<1> QED BY <1>5, <1>6, <1>7, <1>8 DEF Reached, At

----------------------------------------------------------------------------
\* The theorems.

\* The invariant holds at first.
LEMMA SafeInit == Init => SafeInv
<1> SUFFICES ASSUME Init PROVE SafeInv
  OBVIOUS
<1>1. TypeOK
  BY AbsentTyped DEF Init, TypeOK, Quiet
<1>2. execs = {} /\ now = 0 /\ \A b \in Batches :
        /\ pc[b] = "idle" /\ todo[b] = {} /\ asOf[b] = 0 /\ pend[b] = {} /\ flushed[b] = {}
  BY DEF Init
<1>3. BatchInv /\ AddedInv /\ KeyInv
  BY <1>2 DEF BatchInv, BatchOK, AddedInv, AddedOK, Added, KeyInv
<1>4. OneExecutionEach /\ GeneratedHasFile
  BY <1>2 DEF OneExecutionEach, GeneratedHasFile
<1> QED BY <1>1, <1>3, <1>4 DEF SafeInv

\* Every step keeps the invariant.
LEMMA SafeStep == SafeInv /\ [Next]_vars => SafeInv'
<1> SUFFICES ASSUME SafeInv, [Next]_vars PROVE SafeInv'
  OBVIOUS
<1>1. CASE Next
  BY <1>1, TypeStep, SessionsStep, KeysStep, PayloadsStep DEF SafeInv
<1>2. CASE UNCHANGED vars
  <2>1. TypeOK'
    BY <1>2 DEF SafeInv, TypeOK, vars, committed, session, user, bounds
  <2>2. BatchInv' /\ AddedInv'
    BY <1>2 DEF SafeInv, BatchInv, BatchOK, AddedInv, AddedOK, Added, vars, session
  <2>3. KeyInv' /\ OneExecutionEach' /\ GeneratedHasFile'
    BY <1>2 DEF SafeInv, KeyInv, OneExecutionEach, GeneratedHasFile, vars, committed, session
  <2> QED BY <2>1, <2>2, <2>3 DEF SafeInv
<1> QED BY <1>1, <1>2

\* The inductive invariant holds of every behaviour.
THEOREM SafeInvariant == Spec => []SafeInv
BY SafeInit, SafeStep, PTL DEF Spec

\* Every variable holds a value of its kind, for any schedules, batches and users.
THEOREM TypeCorrect == Spec => []TypeOK
BY SafeInvariant, PTL DEF SafeInv

\* However many runners and run-due requests overlap, crash and fail, and
\* whatever users edit meanwhile, no occurrence is committed twice.
THEOREM OneExecutionEachHolds == Spec => []OneExecutionEach
<1>1. SafeInv => OneExecutionEach
  BY DEF SafeInv
<1> QED BY <1>1, SafeInvariant, PTL

\* Every generated occurrence has its payload on disk and was due when it ran.
THEOREM GeneratedHasFileHolds == Spec => []GeneratedHasFile
<1>1. SafeInv => GeneratedHasFile
  BY DEF SafeInv
<1> QED BY <1>1, SafeInvariant, PTL

\* Batches that overlap, fail, die or go on from rows they loaded before an edit pass no
\* occurrence over: a commit that moves a schedule on has executions for all it has passed.
THEOREM AccountedHolds == Spec => Accounted
<1>1. Init => PassedInv
  <2> SUFFICES ASSUME Init, NEW b \in Batches, NEW s \in Schedules PROVE MemOK(b, s)
    BY DEF PassedInv
  <2>1. mem[b][s] = Absent /\ loaded[b][s] = Absent
    BY DEF Init
  <2> QED BY <2>1 DEF MemOK, Absent
<1>2. SafeInv => TypeOK /\ BatchInv
  BY DEF SafeInv
<1>3. SafeInv /\ SafeInv' /\ PassedInv /\ [Next]_vars => PassedInv'
  BY <1>2, PassedStep DEF SafeInv
<1>4. SafeInv /\ PassedInv /\ [Next]_vars =>
        [\A b \in Batches, s \in Schedules :
           pc'[b] # pc[b] /\ sched'[s].next # sched[s].next =>
             \A k \in 0..MaxTime :
               LET r == loaded[b][s]
                   t == r.next + k * r.interval
               IN  (IF sched'[s].next = None THEN t <= r.end ELSE t < sched'[s].next)
                     => <<s, t>> \in Keys(execs')]_vars
  BY <1>2, CommitAccounts
<1> QED BY <1>1, <1>3, <1>4, SafeInvariant, PTL DEF Spec, Accounted
=============================================================================

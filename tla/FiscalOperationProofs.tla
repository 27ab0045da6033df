----------------------- MODULE FiscalOperationProofs -----------------------
(* Theorems of FiscalOperation, for every value of its constants. *)
EXTENDS FiscalOperation, TLAPS

\* A transaction that is under way works on an operation, on a worker; so does
\* every status check that waits in a queue.
Placed ==
  /\ \A t \in Tx : pc[t] \in Running => target[t] \in Ops /\ at[t] \in Workers
  /\ \A w \in Workers : \A i \in 1..Len(queue[w]) :
       target[Job(queue[w][i])] \in Ops /\ at[Job(queue[w][i])] \in Workers

TypeInv == TypeOK /\ Placed

----------------------------------------------------------------------------
\* Facts about the constants and the operators of the model.

\* The transactions are told apart by kind.
LEMMA TxKinds ==
  /\ Submits \subseteq Tx /\ Retries \subseteq Tx /\ Jobs \subseteq Tx
  /\ \A s \in Submits : Job(s) \in Jobs /\ Job(s) \notin Requests
  /\ \A s, u \in Submits : Job(s) = Job(u) => s = u
  /\ \A s \in Submits : s \notin Retries /\ s # None /\ Job(s) # s
BY TxAssumption DEF Tx, Requests, Jobs, Job

\* Submissions, retries and status checks are three kinds of transactions.
LEMMA ActorKinds ==
  /\ \A s \in Submits : s \notin Retries \cup Jobs /\ \A u \in Submits : Job(u) # s
  /\ \A r \in Retries : r \notin Submits \cup Jobs /\ \A u \in Submits : Job(u) # r
  /\ \A j \in Jobs : j \notin Submits \cup Retries /\ \E s \in Submits : j = Job(s)
BY TxAssumption DEF Tx, Requests, Jobs, Job

\* An operation nobody created has a row of the right kind.
LEMMA NoRowTyped == NoRow \in Row
BY DEF NoRow, Row, States, OdooStates

\* Every answer maps to a state.
LEMMA MapTyped == \A a : map_remote_status(a) \in States
BY DEF map_remote_status, States, FINAL_OPERATION_STATES, AcceptedStates

\* A transaction that ends keeps the types.
LEMMA EndTyped ==
  ASSUME TypeOK, NEW T \in SUBSET Tx, End(T)
  PROVE  /\ pc' \in [Tx -> Running \cup {"idle", "queued", "done"}]
         /\ seen' \in [Tx -> Row] /\ work' \in [Tx -> Row]
         /\ answer' \in [Tx -> Answers \cup {None}]
         /\ UNCHANGED <<at, target>>
         /\ \A t \in Tx : pc'[t] = pc[t] \/ pc'[t] = "done"
BY NoRowTyped DEF TypeOK, End

\* A rollback keeps the types.
LEMMA RollbackTyped ==
  ASSUME TypeInv, NEW t \in Tx, Rollback(t)
  PROVE  TypeInv'
<1> USE DEF TypeInv
<1>1. End({t}) /\ {t} \in SUBSET Tx
  BY DEF Rollback
<1>2. TypeOK'
  BY <1>1, EndTyped DEF TypeOK, Rollback, durable, outside
<1>3. Placed'
  BY <1>1, EndTyped DEF Placed, Rollback, Running, Locking
<1> QED BY <1>2, <1>3

\* A commit keeps the types.
LEMMA CommitTyped ==
  ASSUME TypeInv, NEW t \in Tx, Commit(t)
  PROVE  TypeInv'
<1>1. CASE Rollback(t)
  BY <1>1, RollbackTyped
<1>2. CASE /\ pc[t] = "commit"
           /\ db' = [db EXCEPT ![target[t]] = work[t]]
           /\ usage' = IF t \in Submits THEN usage \cup {t} ELSE usage
           /\ retryEvents' = IF t \in Retries
                             THEN [retryEvents EXCEPT ![target[t]] = @ + 1]
                             ELSE retryEvents
           /\ End({t}) /\ UNCHANGED <<outside, queue, crashes>>
  <2>1. target[t] \in Ops /\ work[t] \in Row
    BY <1>2 DEF TypeInv, TypeOK, Placed, Running, Locking
  <2>2. db' \in [Ops -> Row] /\ usage' \subseteq Submits /\ retryEvents' \in [Ops -> Nat]
    BY <1>2, <2>1 DEF TypeInv, TypeOK
  <2>3. {t} \in SUBSET Tx /\ TypeOK /\ Placed
    BY DEF TypeInv
  <2>4. TypeOK'
    BY <1>2, <2>2, <2>3, EndTyped DEF TypeOK, outside
  <2>5. Placed'
    BY <1>2, <2>3, EndTyped DEF Placed, Running, Locking
  <2> QED BY <2>4, <2>5 DEF TypeInv
<1> QED BY <1>1, <1>2 DEF Commit

\* A death keeps the types.
LEMMA DiesTyped ==
  ASSUME TypeInv, NEW w \in Workers, Dies(w), crashes' \in Nat
  PROVE  TypeInv'
<1> DEFINE T == {t \in Tx : at[t] = w /\ pc[t] \in Running \cup {"queued"}}
<1>1. T \in SUBSET Tx /\ End(T) /\ TypeOK /\ Placed
  BY DEF Dies, TypeInv
<1>2. queue' \in [Workers -> Seq(Submits)] /\ \A v \in Workers : v # w => queue'[v] = queue[v]
  BY DEF Dies, TypeInv, TypeOK
<1>3. queue'[w] = <<>>
  BY <1>1 DEF Dies, TypeOK
<1>4. TypeOK'
  BY <1>1, <1>2, EndTyped DEF TypeOK, Dies, durable, outside
<1>5. Placed'
  <2>1. \A t \in Tx : pc'[t] \in Running => target'[t] \in Ops /\ at'[t] \in Workers
    BY <1>1, EndTyped DEF Placed, Running, Locking
  <2>2. \A v \in Workers : \A i \in 1..Len(queue'[v]) :
          target'[Job(queue'[v][i])] \in Ops /\ at'[Job(queue'[v][i])] \in Workers
    <3> TAKE v \in Workers
    <3>1. CASE v = w
      BY <3>1, <1>3
    <3>2. CASE v # w
      BY <3>2, <1>1, <1>2, EndTyped DEF Placed
    <3> QED BY <3>1, <3>2
  <2> QED BY <2>1, <2>2 DEF Placed
<1> QED BY <1>4, <1>5 DEF TypeInv

\* A step of submit_ecf keeps the types.
LEMMA SubmitTyped ==
  ASSUME TypeInv, NEW s \in Submits
  PROVE  /\ \A o \in Ops, w \in Workers : SubmitBegin(s, o, w) => TypeInv'
         /\ SubmitStep(s) => TypeInv'
<1> USE DEF TypeInv, TypeOK, Placed, durable, outside, local
<1>0. s \in Tx /\ Job(s) \in Tx
  BY TxKinds
<1>1. ASSUME NEW o \in Ops, NEW w \in Workers, SubmitBegin(s, o, w)
      PROVE  TypeInv'
  BY <1>0, <1>1 DEF SubmitBegin, Running
<1>2. CASE SubmitSign(s)
  <2>1. target[s] \in Ops /\ EncfOf[target[s]] \in Encfs
    BY <1>0, <1>2, OpsAssumption DEF SubmitSign, Running
  <2>2. [db[target[s]] EXCEPT !.operation_id = IF Exists(db[target[s]]) THEN @ ELSE s,
                              !.state = "SENDING_TO_DGII"] \in Row
    <3>1. ASSUME NEW row \in Row, NEW id \in Submits \cup {None}
          PROVE  [row EXCEPT !.operation_id = id, !.state = "SENDING_TO_DGII"] \in Row
      BY DEF Row, States
    <3>2. db[target[s]] \in Row
      BY <2>1
    <3>3. (IF Exists(db[target[s]]) THEN db[target[s]].operation_id ELSE s)
            \in Submits \cup {None}
      BY <3>2 DEF Row
    <3> QED BY <3>1, <3>2, <3>3
  <2>3. TypeOK'
    BY <1>0, <1>2, <2>1, <2>2 DEF SubmitSign, Signs, Mine, Running, Locking
  <2>4. Placed'
    BY <1>0, <1>2, <2>1 DEF SubmitSign, Signs, Running, Locking
  <2> QED BY <2>3, <2>4
<1>7. CASE SubmitStore(s)
  <2>1. target[s] \in Ops /\ EncfOf[target[s]] \in Encfs
    BY <1>0, <1>7, OpsAssumption DEF SubmitStore, Running, Locking
  <2>2. TypeOK'
    BY <1>0, <1>7, <2>1 DEF SubmitStore, Running, Locking
  <2>3. Placed'
    BY <1>0, <1>7, <2>1 DEF SubmitStore, Running, Locking
  <2> QED BY <2>2, <2>3
<1>3. CASE SubmitFailsEarly(s)
  BY <1>0, <1>3, RollbackTyped DEF SubmitFailsEarly
<1>4. CASE SubmitSend(s)
  <2>1. received' \in [Submits -> Answers \cup {None}]
    BY <1>4 DEF SubmitSend, Answers
  <2>2. answer' \in [Tx -> Answers \cup {None}]
    BY <1>0, <1>4 DEF SubmitSend, Answers
  <2>3. TypeOK'
    BY <1>0, <1>4, <2>1, <2>2 DEF SubmitSend, Running, Locking
  <2>4. Placed'
    BY <1>0, <1>4 DEF SubmitSend, Running, Locking
  <2> QED BY <2>3, <2>4
<1>5. CASE SubmitRegister(s)
  <2>1. target[s] \in Ops /\ at[s] \in Workers /\ answer[s] \in Answers
    BY <1>0, <1>5 DEF SubmitRegister, Running, Locking
  <2>2. work' \in [Tx -> Row] /\ seen' \in [Tx -> Row]
    <3>1. ASSUME NEW row \in Row
          PROVE  [row EXCEPT !.state = "TRACKID_REGISTERED", !.track = s,
                             !.invTrack = s, !.invEstado = answer[s]] \in Row
      BY <2>1 DEF Row, States
    <3>2. ASSUME NEW row \in Row
          PROVE  [row EXCEPT !.operation_id = work[s].operation_id] \in Row
      <4>1. work[s].operation_id \in Submits \cup {None}
        BY <1>0 DEF Row
      <4> QED BY <4>1 DEF Row
    <3>3. work' \in [Tx -> Row]
      BY <1>0, <1>5, <3>1 DEF SubmitRegister
    <3>4. seen' \in [Tx -> Row]
      BY <1>0, <1>5, <3>2 DEF SubmitRegister
    <3> QED BY <3>3, <3>4
  <2>3. /\ queue' \in [Workers -> Seq(Submits)]
        /\ \A w \in Workers : \A i \in 1..Len(queue'[w]) :
             \/ queue'[w][i] = s
             \/ i \in 1..Len(queue[w]) /\ queue'[w][i] = queue[w][i]
    BY <1>5, <2>1 DEF SubmitRegister
  <2>4. TypeOK'
    BY <1>0, <1>5, <2>1, <2>2, <2>3 DEF SubmitRegister, Running, Locking
  <2>5. /\ target' \in [Tx -> Ops \cup {None}] /\ target'[Job(s)] \in Ops
        /\ at' \in [Tx -> Workers \cup {None}] /\ at'[Job(s)] \in Workers
        /\ \A t \in Tx : t # Job(s) => target'[t] = target[t] /\ at'[t] = at[t]
    BY <1>0, <1>5, <2>1 DEF SubmitRegister
  <2>6. \A t \in Tx : pc'[t] \in Running => pc[t] \in Running /\ t # Job(s)
    BY <1>0, <1>5, TxKinds DEF SubmitRegister, Running, Locking
  <2>7. \A w \in Workers : \A i \in 1..Len(queue'[w]) :
          target'[Job(queue'[w][i])] \in Ops /\ at'[Job(queue'[w][i])] \in Workers
    <3> TAKE w \in Workers
    <3> TAKE i \in 1..Len(queue'[w])
    <3>1. CASE queue'[w][i] = s
      BY <3>1, <2>5
    <3>2. CASE i \in 1..Len(queue[w]) /\ queue'[w][i] = queue[w][i]
      <4>1. queue[w] \in Seq(Submits) /\ queue[w][i] \in Submits
        BY <3>2
      <4> QED BY <3>2, <4>1, <2>5, TxKinds
    <3> QED BY <3>1, <3>2, <2>3
  <2> QED BY <2>4, <2>5, <2>6, <2>7
<1>6. CASE SubmitFailsLate(s)
  BY <1>0, <1>6, RollbackTyped DEF SubmitFailsLate
<1> QED BY <1>1, <1>2, <1>3, <1>4, <1>5, <1>6, <1>7 DEF SubmitStep

\* A step of retry_operation keeps the types.
LEMMA RetryTyped ==
  ASSUME TypeInv, NEW r \in Retries
  PROVE  /\ \A o \in Ops, w \in Workers : RetryBegin(r, o, w) => TypeInv'
         /\ RetryStep(r) => TypeInv'
<1> USE DEF TypeInv, TypeOK, Placed, durable, outside, local
<1>0. r \in Tx /\ r # None
  BY TxKinds, TxAssumption
<1>1. ASSUME NEW o \in Ops, NEW w \in Workers, RetryBegin(r, o, w)
      PROVE  TypeInv'
  BY <1>0, <1>1 DEF RetryBegin, Running
<1>2. CASE RetryMark(r)
  <2>1. target[r] \in Ops
    BY <1>0, <1>2 DEF RetryMark, Running
  <2>2. [db[target[r]] EXCEPT !.state = Set(seen[r].state, @, "RETRYING"),
                              !.retries = seen[r].retries + 1] \in Row
    <3>1. ASSUME NEW row \in Row, NEW st \in States, NEW n \in Nat
          PROVE  [row EXCEPT !.state = st, !.retries = n] \in Row
      BY DEF Row
    <3>2. db[target[r]] \in Row /\ seen[r] \in Row
      BY <1>0, <2>1
    <3>3. Set(seen[r].state, db[target[r]].state, "RETRYING") \in States
      BY <3>2 DEF Row, Set, States
    <3>4. seen[r].retries + 1 \in Nat
      BY <3>2 DEF Row
    <3> QED BY <3>1, <3>2, <3>3, <3>4
  <2>3. TypeOK'
    BY <1>0, <1>2, <2>2 DEF RetryMark, Running, Locking
  <2>4. Placed'
    BY <1>0, <1>2, <2>1 DEF RetryMark, Running, Locking
  <2> QED BY <2>3, <2>4
<1>3. CASE RetryQuery(r)
  <2>1. seen[r].track \in Submits
    BY <1>0, <1>3 DEF RetryQuery, Row
  <2>2. answer' \in [Tx -> Answers \cup {None}]
    BY <1>0, <1>3, <2>1 DEF RetryQuery
  <2>3. TypeOK'
    BY <1>0, <1>3, <2>2 DEF RetryQuery, Running, Locking
  <2>4. Placed'
    BY <1>0, <1>3 DEF RetryQuery, Running, Locking
  <2> QED BY <2>3, <2>4
<1>4. CASE RetryFails(r)
  BY <1>0, <1>4, RollbackTyped DEF RetryFails
<1>5. CASE RetryApply(r)
  <2>1. work' \in [Tx -> Row]
    <3>1. ASSUME NEW row \in Row, NEW st \in States
          PROVE  [row EXCEPT !.state = st] \in Row
      BY DEF Row
    <3>2. (IF OdooEnabled /\ seen[r].odoo # "SYNCED_TO_ODOO"
           THEN "SYNCING_TO_ODOO" ELSE map_remote_status(answer[r])) \in States
      BY MapTyped DEF States
    <3> QED BY <1>0, <1>5, <3>1, <3>2 DEF RetryApply
  <2>2. TypeOK'
    BY <1>0, <1>5, <2>1 DEF RetryApply, Running, Locking
  <2>3. Placed'
    BY <1>0, <1>5 DEF RetryApply, Running, Locking
  <2> QED BY <2>2, <2>3
<1> QED BY <1>1, <1>2, <1>3, <1>4, <1>5 DEF RetryStep

\* Taking a check off the queue keeps the types.
LEMMA PollTakeTyped ==
  ASSUME TypeInv, NEW w \in Workers, PollTake(w)
  PROVE  TypeInv'
<1> USE DEF TypeInv, TypeOK, Placed, durable, outside, local
<1>1. /\ queue[w] \in Seq(Submits) /\ queue[w] # <<>>
      /\ Head(queue[w]) = queue[w][1] /\ 1 \in 1..Len(queue[w])
      /\ Head(queue[w]) \in Submits
  BY DEF PollTake
<1> DEFINE j == Job(Head(queue[w]))
<1>2. j \in Tx /\ target[j] \in Ops /\ at[j] \in Workers
  BY <1>1, TxKinds
<1>3. /\ queue' \in [Workers -> Seq(Submits)]
      /\ \A v \in Workers : \A i \in 1..Len(queue'[v]) :
           \E k \in 1..Len(queue[v]) : queue'[v][i] = queue[v][k]
  <2>1. Tail(queue[w]) \in Seq(Submits)
    BY <1>1
  <2>2. \A i \in 1..Len(Tail(queue[w])) :
          i + 1 \in 1..Len(queue[w]) /\ Tail(queue[w])[i] = queue[w][i + 1]
    BY <1>1
  <2> QED BY <2>1, <2>2 DEF PollTake
<1>4. TypeOK'
  BY <1>2, <1>3 DEF PollTake, Running, Locking
<1>5. \A t \in Tx : pc'[t] \in Running => target'[t] \in Ops /\ at'[t] \in Workers
  BY <1>2 DEF PollTake, Running
<1>6. \A v \in Workers : \A i \in 1..Len(queue'[v]) :
        target'[Job(queue'[v][i])] \in Ops /\ at'[Job(queue'[v][i])] \in Workers
  BY <1>3 DEF PollTake
<1> QED BY <1>4, <1>5, <1>6

\* A step of a status check keeps the types.
LEMMA PollTyped ==
  ASSUME TypeInv, NEW s \in Submits, PollStep(s)
  PROVE  TypeInv'
<1> USE DEF TypeInv, TypeOK, Placed, durable, outside, local
<1> DEFINE j == Job(s)
<1>0. j \in Tx
  BY TxKinds
<1>1. CASE PollFetch(s)
  <2>1. answer' \in [Tx -> Answers \cup {None}]
    BY <1>0, <1>1 DEF PollFetch
  <2>2. TypeOK'
    BY <1>0, <1>1, <2>1 DEF PollFetch, Running, Locking
  <2>3. Placed'
    BY <1>0, <1>1 DEF PollFetch, Running, Locking
  <2> QED BY <2>2, <2>3
<1>2. CASE PollDrops(s)
  BY <1>0, <1>2, RollbackTyped DEF PollDrops
<1>3. CASE PollRead(s)
  <2>1. target[j] \in Ops
    BY <1>0, <1>3 DEF PollRead, Running
  <2>2. TypeOK'
    BY <1>0, <1>3, <2>1 DEF PollRead, Running, Locking
  <2>3. Placed'
    BY <1>0, <1>3, <2>1 DEF PollRead, Running, Locking
  <2> QED BY <2>2, <2>3
<1>4. CASE PollApply(s)
  <2>1. target[j] \in Ops
    BY <1>0, <1>4 DEF PollApply, Running
  <2>2. work' \in [Tx -> Row]
    <3>1. ASSUME NEW row \in Row, NEW st \in States, NEW tr \in Submits \cup {None},
                 NEW es \in Answers \cup {None}, NEW od \in OdooStates
          PROVE  [row EXCEPT !.state = st, !.track = tr, !.invEstado = es, !.odoo = od] \in Row
      BY DEF Row
    <3> DEFINE row == db[target[j]]
               mapped == map_remote_status(answer[j])
               st == IF OdooEnabled /\ mapped \in AcceptedStates THEN "SYNCING_TO_ODOO"
                     ELSE IF mapped = "QUERYING_TRACK_STATUS"
                          THEN Set(seen[j].state, row.state, mapped) ELSE mapped
               tr == Set(seen[j].track, row.track, s)
               es == IF row.invTrack = s THEN answer[j] ELSE row.invEstado
               od == IF mapped = "REJECTED" THEN Set(seen[j].odoo, row.odoo, "SKIPPED")
                                            ELSE row.odoo
    <3>2. row \in Row /\ seen[j] \in Row /\ answer[j] \in Answers \cup {None}
      BY <1>0, <2>1
    <3>3. st \in States
      BY <3>2, MapTyped DEF Row, Set, States
    <3>4. tr \in Submits \cup {None}
      BY <3>2 DEF Row, Set
    <3>5. es \in Answers \cup {None}
      BY <3>2 DEF Row
    <3>6. od \in OdooStates
      BY <3>2 DEF Row, Set, OdooStates
    <3>7. work' = [work EXCEPT ![j] =
                    [row EXCEPT !.state = st, !.track = tr, !.invEstado = es, !.odoo = od]]
      BY <1>4 DEF PollApply
    <3> HIDE DEF row, mapped, st, tr, es, od
    <3>8. [row EXCEPT !.state = st, !.track = tr, !.invEstado = es, !.odoo = od] \in Row
      BY <3>1, <3>2, <3>3, <3>4, <3>5, <3>6
    <3> QED BY <1>0, <3>7, <3>8
  <2>3. TypeOK'
    BY <1>0, <1>4, <2>2 DEF PollApply, Running, Locking
  <2>4. Placed'
    BY <1>0, <1>4, <2>1 DEF PollApply, Running, Locking
  <2> QED BY <2>3, <2>4
<1> QED BY <1>1, <1>2, <1>3, <1>4 DEF PollStep

\* A synchronisation with Odoo keeps the types.
LEMMA SyncTyped ==
  ASSUME TypeInv, NEW t \in Tx, OdooSync(t)
  PROVE  TypeInv'
<1> USE DEF TypeInv, TypeOK, Placed, durable, outside, local
<1>1. target[t] \in Ops
  BY DEF OdooSync, Running, Locking
<1>2. moves' \in [Ops -> Nat]
  BY <1>1 DEF OdooSync
<1>3. work' \in [Tx -> Row]
  <2>1. ASSUME NEW row \in Row, NEW od \in OdooStates, NEW st \in States
        PROVE  [row EXCEPT !.odoo = od, !.state = st] \in Row
    BY DEF Row
  <2>2. PICK result \in {"FAILED", "SYNCED_DRAFT", "SYNCED_TO_ODOO"} :
          work' = [work EXCEPT
            ![t].odoo = Set(seen[t].odoo, @, result),
            ![t].state = IF result = "FAILED" THEN @
                         ELSE IF t \in Jobs THEN map_remote_status(answer[t])
                         ELSE "SYNCED_TO_ODOO"]
    BY DEF OdooSync
  <2>3. Set(seen[t].odoo, work[t].odoo, result) \in OdooStates
    BY <2>2 DEF Set, OdooStates, Row
  <2>4. (IF result = "FAILED" THEN work[t].state
         ELSE IF t \in Jobs THEN map_remote_status(answer[t])
         ELSE "SYNCED_TO_ODOO") \in States
    BY MapTyped DEF Row, States
  <2> QED BY <2>1, <2>2, <2>3, <2>4
<1>4. TypeOK'
  BY <1>2, <1>3 DEF OdooSync, Running, Locking
<1>5. Placed'
  BY <1>1 DEF OdooSync, Running, Locking
<1> QED BY <1>4, <1>5

----------------------------------------------------------------------------
\* The type invariant.

\* The types hold at first.
LEMMA TypeInit == Init => TypeInv
<1> SUFFICES ASSUME Init PROVE TypeInv
  OBVIOUS
<1>1. TypeOK
  BY NoRowTyped, OpsAssumption DEF Init, TypeOK
<1>2. Placed
  BY DEF Init, Placed, Running, Locking
<1> QED BY <1>1, <1>2 DEF TypeInv

\* Every step keeps the types.
LEMMA TypeNext == TypeInv /\ [Next]_vars => TypeInv'
<1> SUFFICES ASSUME TypeInv, [Next]_vars PROVE TypeInv'
  OBVIOUS
<1>1. CASE UNCHANGED vars
  BY <1>1 DEF vars, durable, outside, local, TypeInv, TypeOK, Placed
<1>2. ASSUME NEW s \in Submits, SubmitStep(s) PROVE TypeInv'
  BY <1>2, SubmitTyped
<1>3. ASSUME NEW s \in Submits, PollStep(s) PROVE TypeInv'
  BY <1>3, PollTyped
<1>4. ASSUME NEW s \in Submits, DgiiDecides(s) PROVE TypeInv'
  <2>1. received' \in [Submits -> Answers \cup {None}]
    BY <1>4, VerdictsAssumption DEF DgiiDecides, TypeInv, TypeOK, Answers
  <2>2. TypeOK'
    BY <1>4, <2>1 DEF DgiiDecides, TypeInv, TypeOK, durable, local
  <2>3. Placed'
    BY <1>4 DEF DgiiDecides, TypeInv, Placed
  <2> QED BY <2>2, <2>3 DEF TypeInv
<1>5. ASSUME NEW s \in Submits, NEW o \in Ops, NEW w \in Workers, SubmitBegin(s, o, w)
      PROVE  TypeInv'
  BY <1>5, SubmitTyped
<1>6. ASSUME NEW r \in Retries, RetryStep(r) PROVE TypeInv'
  BY <1>6, RetryTyped
<1>7. ASSUME NEW r \in Retries, NEW o \in Ops, NEW w \in Workers, RetryBegin(r, o, w)
      PROVE  TypeInv'
  BY <1>7, RetryTyped
<1>8. ASSUME NEW t \in Tx, Commit(t) PROVE TypeInv'
  BY <1>8, CommitTyped
<1>9. ASSUME NEW t \in Tx, OdooSync(t) PROVE TypeInv'
  BY <1>9, SyncTyped
<1>10. ASSUME NEW w \in Workers, PollTake(w) PROVE TypeInv'
  BY <1>10, PollTakeTyped
<1>11. ASSUME NEW w \in Workers, Crash(w) \/ Kill(w) PROVE TypeInv'
  <2>1. Dies(w) /\ crashes' \in Nat
    BY <1>11 DEF Crash, Kill, TypeInv, TypeOK
  <2> QED BY <2>1, DiesTyped
<1> QED BY <1>1, <1>2, <1>3, <1>4, <1>5, <1>6, <1>7, <1>8, <1>9, <1>10, <1>11 DEF Next

\* Every reachable state is well typed.
THEOREM TypeCorrect == Spec => []TypeOK
<1>1. TypeInv => TypeOK
  BY DEF TypeInv
<1> QED BY <1>1, TypeInit, TypeNext, PTL DEF Spec

----------------------------------------------------------------------------
\* One writer at a time.  Every action either lets go of rows and takes none,
\* or takes one row that nobody holds.

LetsGo == \A t \in Tx : Holds(t)' => Holds(t) /\ target'[t] = target[t]
Takes(t) == /\ RowFree(target[t]) /\ UNCHANGED target
            /\ \A u \in Tx : Holds(u)' => Holds(u) \/ u = t

\* A transaction that ends lets go of its rows.
LEMMA EndLetsGo ==
  ASSUME NEW T, End(T)
  PROVE  LetsGo
BY DEF End, LetsGo, Holds, Locking

\* No step takes a row that another holds.
LEMMA StepsLock ==
  ASSUME TypeInv, [Next]_vars
  PROVE  LetsGo \/ \E t \in Tx : Takes(t)
<1> USE DEF TypeInv, TypeOK, Holds, Locking, LetsGo
<1>1. CASE UNCHANGED vars
  BY <1>1 DEF vars
<1>2. ASSUME NEW s \in Submits, NEW o \in Ops, NEW w \in Workers, SubmitBegin(s, o, w)
      PROVE  LetsGo
  BY <1>2 DEF SubmitBegin
<1>3. ASSUME NEW s \in Submits, SubmitStep(s)
      PROVE  LetsGo \/ \E t \in Tx : Takes(t)
  <2>0. s \in Tx /\ Job(s) \in Tx /\ Job(s) # s
    BY TxKinds
  <2>1. CASE SubmitSign(s)
    <3>1. Takes(s)
      BY <2>0, <2>1 DEF SubmitSign, Signs, Takes
    <3> QED BY <2>0, <3>1
  <2>6. CASE SubmitStore(s)
    BY <2>6 DEF SubmitStore
  <2>2. CASE SubmitFailsEarly(s)
    BY <2>2, EndLetsGo DEF SubmitFailsEarly, Rollback
  <2>3. CASE SubmitSend(s)
    BY <2>3 DEF SubmitSend
  <2>4. CASE SubmitRegister(s)
    BY <2>0, <2>4 DEF SubmitRegister
  <2>5. CASE SubmitFailsLate(s)
    BY <2>5, EndLetsGo DEF SubmitFailsLate, Rollback
  <2> QED BY <1>3, <2>1, <2>2, <2>3, <2>4, <2>5, <2>6 DEF SubmitStep
<1>4. ASSUME NEW s \in Submits, PollStep(s)
      PROVE  LetsGo \/ \E t \in Tx : Takes(t)
  <2>0. Job(s) \in Tx
    BY TxKinds
  <2>1. CASE PollFetch(s)
    BY <2>1 DEF PollFetch
  <2>2. CASE PollDrops(s)
    BY <2>2, EndLetsGo DEF PollDrops, Rollback
  <2>3. CASE PollRead(s)
    BY <2>3 DEF PollRead
  <2>4. CASE PollApply(s)
    <3>1. Takes(Job(s))
      BY <2>0, <2>4 DEF PollApply, Takes
    <3> QED BY <2>0, <3>1
  <2> QED BY <1>4, <2>1, <2>2, <2>3, <2>4 DEF PollStep
<1>5. ASSUME NEW s \in Submits, DgiiDecides(s) PROVE LetsGo
  BY <1>5 DEF DgiiDecides
<1>6. ASSUME NEW r \in Retries, NEW o \in Ops, NEW w \in Workers, RetryBegin(r, o, w)
      PROVE  LetsGo
  BY <1>6 DEF RetryBegin
<1>7. ASSUME NEW r \in Retries, RetryStep(r)
      PROVE  LetsGo \/ \E t \in Tx : Takes(t)
  <2>0. r \in Tx
    BY TxKinds
  <2>1. CASE RetryMark(r)
    <3>1. Takes(r)
      BY <2>0, <2>1 DEF RetryMark, Takes
    <3> QED BY <2>0, <3>1
  <2>2. CASE RetryQuery(r)
    BY <2>2 DEF RetryQuery
  <2>3. CASE RetryFails(r)
    BY <2>3, EndLetsGo DEF RetryFails, Rollback
  <2>4. CASE RetryApply(r)
    BY <2>4 DEF RetryApply
  <2> QED BY <1>7, <2>1, <2>2, <2>3, <2>4 DEF RetryStep
<1>8. ASSUME NEW t \in Tx, Commit(t) PROVE LetsGo
  BY <1>8, EndLetsGo DEF Commit, Rollback
<1>9. ASSUME NEW t \in Tx, OdooSync(t) PROVE LetsGo
  BY <1>9 DEF OdooSync
<1>10. ASSUME NEW w \in Workers, PollTake(w) PROVE LetsGo
  BY <1>10 DEF PollTake
<1>11. ASSUME NEW w \in Workers, Crash(w) \/ Kill(w) PROVE LetsGo
  BY <1>11, EndLetsGo DEF Crash, Kill, Dies
<1> QED BY <1>1, <1>2, <1>3, <1>4, <1>5, <1>6, <1>7, <1>8, <1>9, <1>10, <1>11 DEF Next

\* Every step keeps one transaction to a row.
LEMMA OneInFlightNext ==
  ASSUME TypeInv, OneInFlight, [Next]_vars
  PROVE  OneInFlight'
<1>1. CASE LetsGo
  BY <1>1 DEF LetsGo, OneInFlight
<1>2. ASSUME NEW t \in Tx, Takes(t) PROVE OneInFlight'
  BY <1>2 DEF Takes, RowFree, OneInFlight
<1> QED BY <1>1, <1>2, StepsLock

\* At first no row is held.
LEMMA OneInFlightInit == Init => OneInFlight
BY DEF Init, OneInFlight, Holds, Locking

\* A row has one writer at a time in every reachable state.
THEOREM OneInFlightHolds == Spec => []OneInFlight
BY TypeInit, TypeNext, OneInFlightInit, OneInFlightNext, PTL DEF Spec

----------------------------------------------------------------------------
\* The invariant behind the remaining properties.  It follows the values from
\* where they enter (DGII's answers, the submission's own track id) through the
\* sessions to the committed row.

\* DGII received submission s of operation o.
Fed(s, o) == s \in Submits /\ o \in Ops /\ target[s] = o /\ received[s] # None

\* DGII gave the final state to a submission of o.
Given(state, o) == \E s \in Submits : Fed(s, o) /\ map_remote_status(received[s]) = state

Synced == {"SYNCED_DRAFT", "SYNCED_TO_ODOO"}

\* A row that may be committed for o.
Sound(row, o) ==
  /\ Exists(row)
  /\ Fed(row.track, o) /\ Fed(row.invTrack, o) /\ row.invTrack \in usage
  /\ row.state \in FINAL_OPERATION_STATES => Given(row.state, o)
  /\ row.odoo \in Synced => moves[o] > 0

\* What a submission has written of its operation while it holds the row.
Draft(s) ==
  /\ Exists(work[s])
  /\ work[s].state \notin FINAL_OPERATION_STATES
  /\ work[s].odoo \in Synced => moves[target[s]] > 0
  /\ pc[s] = "commit" => work[s].track = s /\ work[s].invTrack = s /\ received[s] # None

RowsSound  == \A o \in Ops : Exists(db[o]) => Sound(db[o], o)
UsageSound == \A s \in usage : Fed(s, target[s]) /\ Exists(db[target[s]])

SubmitSound(s) ==
  /\ pc[s] = "idle" => target[s] = None
  /\ pc[s] \in {"idle", "blocked", "signing", "sending"} => received[s] = None
  /\ answer[s] # None => answer[s] = "EN_PROCESO" /\ received[s] # None
  /\ pc[s] # "odoo"
  /\ Holds(s) => Draft(s)
JobSound(s) ==
  /\ target[Job(s)] # None => Fed(s, target[Job(s)])
  /\ pc[Job(s)] = "blocked" => Exists(db[target[Job(s)]])
RetrySound(r) ==
  /\ pc[r] = "idle" => answer[r] = None
  /\ pc[r] \in Running => Exists(db[target[r]]) /\ Fed(seen[r].track, target[r])
WorkSound(t) == Holds(t) => Sound(work[t], target[t])
AnswerSound(t) ==
  answer[t] \in FinalAnswers =>
    \E s \in Submits : Fed(s, target[t]) /\ received[s] = answer[t]
CreateSound(s) == Holds(s) /\ ~Exists(seen[s]) => ~Exists(db[target[s]])

DataInv ==
  /\ RowsSound /\ UsageSound /\ SyncedHasMove
  /\ \A s \in Submits : SubmitSound(s) /\ JobSound(s) /\ CreateSound(s)
  /\ \A r \in Retries : RetrySound(r)
  /\ \A t \in Retries \cup Jobs : WorkSound(t)
  /\ \A t \in Tx : AnswerSound(t)

\* What outlives a step: DGII's and Odoo's records, the bills, the
\* operation each submission is of.
Advance ==
  /\ \A s \in Submits :
       /\ target[s] # None => target'[s] = target[s]
       /\ received[s] # None => received'[s] # None
       /\ received[s] \in FinalAnswers => received'[s] = received[s]
  /\ usage \subseteq usage'
  /\ \A o \in Ops : moves[o] > 0 => moves'[o] > 0
  /\ \A o \in Ops : Exists(db[o]) => Exists(db'[o])

Same(t)  == /\ pc'[t] = pc[t] /\ target'[t] = target[t] /\ seen'[t] = seen[t]
            /\ work'[t] = work[t] /\ answer'[t] = answer[t]
Ended(t) == /\ pc'[t] = "done" /\ target'[t] = target[t] /\ answer'[t] = None

\* A final answer maps to a final state.
LEMMA FinalAnswer ==
  \A a : map_remote_status(a) \in FINAL_OPERATION_STATES => a \in FinalAnswers
BY DEF map_remote_status, FINAL_OPERATION_STATES, AcceptedStates, FinalAnswers

\* An operation is not the absent one.
LEMMA OpNotNone == \A o \in Ops : o # None
BY TxAssumption

\* What DGII has received and answered it does not take back.
LEMMA FedKept ==
  ASSUME Advance
  PROVE  /\ \A s, o : Fed(s, o) => Fed(s, o)'
         /\ \A state \in FINAL_OPERATION_STATES : \A o : Given(state, o) => Given(state, o)'
<1>1. \A s, o : Fed(s, o) => Fed(s, o)'
  BY OpNotNone DEF Advance, Fed
<1>2. \A s, o : Fed(s, o) /\ received[s] \in FinalAnswers => Fed(s, o)' /\ received'[s] = received[s]
  BY <1>1 DEF Advance, Fed
<1> QED BY <1>1, <1>2, FinalAnswer DEF Given

\* A row that may be committed stays so.
LEMMA SoundKept ==
  ASSUME Advance
  PROVE  \A row, o : o \in Ops /\ Sound(row, o) => Sound(row, o)'
BY FedKept DEF Sound, Advance, Exists

\* A transaction that takes no part in a step, or ends in it, stays sound.
LEMMA OthersSound ==
  ASSUME TypeInv, DataInv, Advance
  PROVE  /\ \A s \in Submits :
              Ended(s) \/ (Same(s) /\ (received[s] = None => received'[s] = None))
                => SubmitSound(s)'
         /\ \A s \in Submits : Same(Job(s)) \/ Ended(Job(s)) => JobSound(s)'
         /\ \A r \in Retries : Same(r) \/ Ended(r) => RetrySound(r)'
         /\ \A t \in Retries \cup Jobs : Same(t) \/ Ended(t) => WorkSound(t)'
         /\ \A t \in Tx : Same(t) \/ Ended(t) => AnswerSound(t)'
         /\ UNCHANGED db => \A s \in Submits : Same(s) \/ Ended(s) => CreateSound(s)'
<1> USE TxKinds
<1>1. \A s \in Submits :
        Ended(s) \/ (Same(s) /\ (received[s] = None => received'[s] = None)) => SubmitSound(s)'
  <2> SUFFICES ASSUME NEW s \in Submits,
                      Ended(s) \/ (Same(s) /\ (received[s] = None => received'[s] = None))
               PROVE  SubmitSound(s)'
    OBVIOUS
  <2>1. CASE Ended(s)
    BY <2>1 DEF Ended, SubmitSound, Holds, Locking
  <2>2. CASE Same(s) /\ (received[s] = None => received'[s] = None)
    <3>1. SubmitSound(s) /\ (Holds(s) => target[s] \in Ops)
      BY DEF DataInv, TypeInv, Placed, Holds, Running
    <3> QED BY <2>2, <3>1 DEF Same, SubmitSound, Draft, Holds, Advance, Exists
  <2> QED BY <2>1, <2>2
<1>2. \A s \in Submits : Same(Job(s)) \/ Ended(Job(s)) => JobSound(s)'
  <2> SUFFICES ASSUME NEW s \in Submits, Same(Job(s)) \/ Ended(Job(s)) PROVE JobSound(s)'
    OBVIOUS
  <2>1. JobSound(s) /\ (pc[Job(s)] = "blocked" => target[Job(s)] \in Ops)
    BY DEF DataInv, TypeInv, Placed, Running
  <2> QED BY <2>1, FedKept DEF Same, Ended, JobSound, Advance
<1>3. \A r \in Retries : Same(r) \/ Ended(r) => RetrySound(r)'
  <2> SUFFICES ASSUME NEW r \in Retries, Same(r) \/ Ended(r) PROVE RetrySound(r)'
    OBVIOUS
  <2>1. RetrySound(r) /\ (pc[r] \in Running => target[r] \in Ops)
    BY DEF DataInv, TypeInv, Placed
  <2> QED BY <2>1, FedKept DEF Same, Ended, RetrySound, Advance, Running, Locking
<1>4. \A t \in Retries \cup Jobs : Same(t) \/ Ended(t) => WorkSound(t)'
  <2> SUFFICES ASSUME NEW t \in Retries \cup Jobs, Same(t) \/ Ended(t) PROVE WorkSound(t)'
    OBVIOUS
  <2>1. WorkSound(t) /\ (Holds(t) => target[t] \in Ops)
    BY DEF DataInv, TypeInv, Placed, Holds, Running
  <2>2. CASE Ended(t)
    BY <2>2 DEF Ended, WorkSound, Holds, Locking
  <2>3. CASE Same(t)
    <3> SUFFICES ASSUME Holds(t)' PROVE Sound(work[t], target[t])'
      BY DEF WorkSound
    <3>1. Holds(t) /\ work'[t] = work[t] /\ target'[t] = target[t]
      BY <2>3 DEF Same, Holds
    <3>2. Sound(work[t], target[t])
      BY <2>1, <3>1 DEF WorkSound
    <3> QED BY <2>1, <3>1, <3>2, SoundKept DEF Sound, Given, Fed
  <2> QED BY <2>2, <2>3
<1>5. \A t \in Tx : Same(t) \/ Ended(t) => AnswerSound(t)'
  <2> SUFFICES ASSUME NEW t \in Tx, Same(t) \/ Ended(t) PROVE AnswerSound(t)'
    OBVIOUS
  <2>1. AnswerSound(t) /\ None \notin FinalAnswers
    BY TxAssumption DEF DataInv, Answers
  <2>2. \A s, o : Fed(s, o) /\ received[s] \in FinalAnswers => Fed(s, o)' /\ received'[s] = received[s]
    BY FedKept DEF Advance, Fed
  <2> QED BY <2>1, <2>2 DEF Same, Ended, AnswerSound, Fed
<1>6. UNCHANGED db => \A s \in Submits : Same(s) \/ Ended(s) => CreateSound(s)'
  BY DEF DataInv, CreateSound, Same, Ended, Holds, Locking
<1> QED BY <1>1, <1>2, <1>3, <1>4, <1>5, <1>6

\* What is committed stays sound while the database is not written.
LEMMA RowsKept ==
  ASSUME TypeInv, DataInv, Advance, UNCHANGED durable
  PROVE  RowsSound' /\ UsageSound' /\ SyncedHasMove'
<1>1. RowsSound'
  <2> SUFFICES ASSUME NEW o \in Ops, Exists(db[o]) PROVE Sound(db[o], o)'
    BY DEF RowsSound, durable, Exists
  <2>1. Sound(db[o], o)
    BY DEF DataInv, RowsSound
  <2> QED BY <2>1, SoundKept DEF durable, Sound, Fed, Given
<1>2. UsageSound'
  BY FedKept DEF DataInv, UsageSound, durable, Advance, Fed
<1>3. SyncedHasMove'
  BY DEF DataInv, SyncedHasMove, durable, Advance
<1> QED BY <1>1, <1>2, <1>3

----------------------------------------------------------------------------
\* Each action keeps the invariant.

\* Transactions that end without writing keep the invariant.
LEMMA EndSound ==
  ASSUME TypeInv, DataInv, NEW T \in SUBSET Tx, End(T), UNCHANGED durable, UNCHANGED outside
  PROVE  DataInv'
<1>1. Advance
  BY DEF Advance, End, durable, outside
<1>2. \A t \in Tx : Same(t) \/ Ended(t)
  BY DEF TypeInv, TypeOK, End, Same, Ended
<1>3. UNCHANGED <<db, received>>
  BY DEF durable, outside
<1> QED BY <1>1, <1>2, <1>3, TxKinds, OthersSound, RowsKept DEF DataInv

\* A step of the transactions A that writes no row.
LEMMA LocalStep ==
  ASSUME TypeInv, DataInv, Advance, UNCHANGED durable, NEW A \in SUBSET Tx,
         \A t \in Tx \ A : Same(t),
         \A s \in Submits \ A : received[s] = None => received'[s] = None,
         \A s \in Submits \cap A : SubmitSound(s)' /\ CreateSound(s)',
         \A s \in Submits : Job(s) \in A => JobSound(s)',
         \A r \in Retries \cap A : RetrySound(r)',
         \A t \in (Retries \cup Jobs) \cap A : WorkSound(t)',
         \A t \in A : AnswerSound(t)'
  PROVE  DataInv'
<1>1. RowsSound' /\ UsageSound' /\ SyncedHasMove'
  BY RowsKept
<1>2. UNCHANGED db
  BY DEF durable
<1>3. ASSUME NEW s \in Submits PROVE SubmitSound(s)' /\ JobSound(s)' /\ CreateSound(s)'
  BY <1>2, OthersSound, TxKinds
<1>4. ASSUME NEW r \in Retries PROVE RetrySound(r)'
  BY OthersSound, TxKinds
<1>5. ASSUME NEW t \in Retries \cup Jobs PROVE WorkSound(t)'
  BY OthersSound, TxKinds
<1>6. ASSUME NEW t \in Tx PROVE AnswerSound(t)'
  BY OthersSound
<1> QED BY <1>1, <1>3, <1>4, <1>5, <1>6 DEF DataInv

\* ... of one transaction.
LEMMA SubmitLocal ==
  ASSUME TypeInv, DataInv, Advance, UNCHANGED durable, NEW s \in Submits,
         \A t \in Tx : t # s => Same(t),
         \A u \in Submits : u # s /\ received[u] = None => received'[u] = None,
         SubmitSound(s)', CreateSound(s)', AnswerSound(s)'
  PROVE  DataInv'
<1> DEFINE A == {s}
<1>1. /\ A \in SUBSET Tx /\ Submits \cap A = {s} /\ Retries \cap A = {}
      /\ (Retries \cup Jobs) \cap A = {} /\ \A u \in Submits : Job(u) \notin A
      /\ \A t \in Tx \ A : Same(t)
      /\ \A u \in Submits \ A : received[u] = None => received'[u] = None
      /\ \A t \in A : AnswerSound(t)'
  BY TxKinds, ActorKinds
<1> HIDE DEF A
<1> QED BY <1>1, LocalStep

\* A step of one job, as far as its own session is sound.
LEMMA JobLocal ==
  ASSUME TypeInv, DataInv, Advance, UNCHANGED durable, NEW s \in Submits,
         \A t \in Tx : t # Job(s) => Same(t),
         UNCHANGED received,
         JobSound(s)', WorkSound(Job(s))', AnswerSound(Job(s))'
  PROVE  DataInv'
<1> DEFINE A == {Job(s)}
<1>1. /\ A \in SUBSET Tx /\ Submits \cap A = {} /\ Retries \cap A = {}
      /\ (Retries \cup Jobs) \cap A = {Job(s)}
      /\ \A u \in Submits : Job(u) \in A => u = s
      /\ \A t \in Tx \ A : Same(t)
      /\ \A t \in A : AnswerSound(t)'
  BY TxKinds, ActorKinds
<1> HIDE DEF A
<1> QED BY <1>1, LocalStep

\* A step of one retry, as far as its own session is sound.
LEMMA RetryLocal ==
  ASSUME TypeInv, DataInv, Advance, UNCHANGED durable, NEW r \in Retries,
         \A t \in Tx : t # r => Same(t),
         UNCHANGED received,
         RetrySound(r)', WorkSound(r)', AnswerSound(r)'
  PROVE  DataInv'
<1> DEFINE A == {r}
<1>1. /\ A \in SUBSET Tx /\ Submits \cap A = {} /\ Retries \cap A = {r}
      /\ (Retries \cup Jobs) \cap A = {r}
      /\ \A u \in Submits : Job(u) \notin A
      /\ \A t \in Tx \ A : Same(t)
      /\ \A t \in A : AnswerSound(t)'
  BY TxKinds, ActorKinds
<1> HIDE DEF A
<1> QED BY <1>1, LocalStep

\* Creating or refreshing the operation keeps the invariant.
LEMMA SubmitSound_Begin ==
  ASSUME TypeInv, DataInv, NEW s \in Submits, NEW o \in Ops, NEW w \in Workers,
         SubmitBegin(s, o, w)
  PROVE  DataInv'
<1> USE DEF TypeInv, TypeOK
<1>0. s \in Tx /\ SubmitSound(s) /\ AnswerSound(s) /\ None \notin FinalAnswers
  BY TxKinds, TxAssumption DEF DataInv, Answers
<1>1. Advance /\ UNCHANGED <<durable, received>>
  BY <1>0 DEF SubmitBegin, Advance, SubmitSound, durable, outside
<1>2. \A t \in Tx : t # s => Same(t)
  BY DEF SubmitBegin, Same, local
<1>3. SubmitSound(s)' /\ CreateSound(s)' /\ AnswerSound(s)'
  BY <1>0, <1>1 DEF SubmitBegin, SubmitSound, CreateSound, AnswerSound, Holds, Locking, FinalAnswers
<1> HIDE DEF TypeInv
<1> QED BY <1>1, <1>2, <1>3, SubmitLocal

\* Signing keeps the invariant: the row becomes the submission's own draft.
LEMMA SubmitSound_Sign ==
  ASSUME TypeInv, DataInv, NEW s \in Submits, SubmitSign(s)
  PROVE  DataInv'
<1> USE DEF TypeInv, TypeOK
<1> DEFINE o == target[s]
<1>0. /\ s \in Tx /\ SubmitSound(s) /\ AnswerSound(s) /\ o \in Ops /\ EncfOf[o] \in Encfs
      /\ s # None /\ o # None /\ db[o] \in Row
  BY TxKinds, TxAssumption, OpsAssumption DEF DataInv, SubmitSign, Placed, Running
<1>1. Advance /\ UNCHANGED <<durable, received>>
  BY <1>0 DEF SubmitSign, Signs, Advance, durable
<1>2. \A t \in Tx : t # s => Same(t)
  BY DEF SubmitSign, Signs, Same
<1>3. SubmitSound(s)'
  <2>1. Draft(s)'
    <3>1. /\ work'[s].operation_id = (IF Exists(db[o]) THEN db[o].operation_id ELSE s)
          /\ work'[s].state = "SENDING_TO_DGII" /\ work'[s].odoo = db[o].odoo
      BY <1>0 DEF SubmitSign, Signs, Mine, Row
    <3>2. Exists(work[s])'
      BY <1>0, <3>1 DEF Exists
    <3>3. target'[s] = o /\ pc'[s] = "signing" /\ moves' = moves
      BY <1>0 DEF SubmitSign, Signs
    <3>4. db[o].odoo \in Synced => moves[o] > 0
      BY <1>0 DEF DataInv, SyncedHasMove, Synced
    <3> QED BY <3>1, <3>2, <3>3, <3>4
         DEF Draft, FINAL_OPERATION_STATES, AcceptedStates
  <2> QED BY <1>0, <2>1 DEF SubmitSign, Signs, SubmitSound
<1>4. CreateSound(s)' /\ AnswerSound(s)'
  BY <1>0 DEF SubmitSign, Signs, CreateSound, AnswerSound, durable, Exists, Fed
<1> HIDE DEF TypeInv, o
<1> QED BY <1>1, <1>2, <1>3, <1>4, SubmitLocal

\* Writing the file keeps the invariant, which is not about the files.
LEMMA SubmitSound_Store ==
  ASSUME TypeInv, DataInv, NEW s \in Submits, SubmitStore(s)
  PROVE  DataInv'
<1> USE DEF TypeInv, TypeOK
<1>0. s \in Tx /\ SubmitSound(s) /\ CreateSound(s) /\ AnswerSound(s) /\ Draft(s)
  BY TxKinds DEF DataInv, SubmitStore, SubmitSound, Holds, Locking
<1>1. Advance /\ UNCHANGED <<durable, received>>
  BY DEF SubmitStore, Advance, durable
<1>2. \A t \in Tx : t # s => Same(t)
  BY DEF SubmitStore, Same, local
<1>3. SubmitSound(s)' /\ CreateSound(s)' /\ AnswerSound(s)'
  BY <1>0 DEF SubmitStore, SubmitSound, CreateSound, AnswerSound, Draft, Holds, Locking, Exists,
     Fed, durable, local
<1> HIDE DEF TypeInv
<1> QED BY <1>1, <1>2, <1>3, SubmitLocal

\* Sending keeps the invariant: DGII has the submission.
LEMMA SubmitSound_Send ==
  ASSUME TypeInv, DataInv, NEW s \in Submits, SubmitSend(s)
  PROVE  DataInv'
<1> USE DEF TypeInv, TypeOK
<1>0. /\ s \in Tx /\ SubmitSound(s) /\ CreateSound(s) /\ target[s] \in Ops
      /\ None # "EN_PROCESO" /\ received[s] = None /\ Draft(s)
  BY TxKinds, TxAssumption DEF DataInv, SubmitSend, Placed, Running, Locking, Answers,
       SubmitSound, Holds
<1>1. Advance /\ UNCHANGED durable /\ \A u \in Submits : u # s => received'[u] = received[u]
  BY <1>0, TxAssumption DEF SubmitSend, Advance, durable, FinalAnswers, Answers
<1>2. \A t \in Tx : t # s => Same(t)
  BY DEF SubmitSend, Same
<1>3. SubmitSound(s)'
  BY <1>0, <1>1 DEF SubmitSend, SubmitSound, Draft, Holds, Locking, Exists
<1>4. CreateSound(s)'
  BY <1>0 DEF SubmitSend, CreateSound, Holds, Locking, durable, Exists
<1>5. AnswerSound(s)'
  BY <1>0, TxAssumption DEF SubmitSend, AnswerSound, FinalAnswers, Answers
<1> HIDE DEF TypeInv
<1> QED BY <1>1, <1>2, <1>3, <1>4, <1>5, SubmitLocal

\* Registering the track id keeps the invariant.
LEMMA SubmitSound_Register ==
  ASSUME TypeInv, DataInv, NEW s \in Submits, SubmitRegister(s)
  PROVE  DataInv'
<1> USE DEF TypeInv, TypeOK
<1> DEFINE j == Job(s)
<1>0. /\ s \in Tx /\ j \in Tx /\ j # s /\ s # None /\ j \notin Submits /\ j \notin Retries
      /\ SubmitSound(s) /\ CreateSound(s) /\ JobSound(s) /\ AnswerSound(s) /\ AnswerSound(j)
      /\ target[s] \in Ops /\ Draft(s) /\ received[s] # None /\ work[s] \in Row
  BY TxKinds, TxAssumption DEF DataInv, SubmitRegister, Placed, Running, Locking, Requests,
       SubmitSound, Holds
<1>1. Advance /\ UNCHANGED <<durable, received>>
  BY <1>0, TxKinds DEF SubmitRegister, Advance, durable, outside
<1>2. \A t \in Tx : t # s /\ t # j => Same(t)
  BY DEF SubmitRegister, Same
<1>3. SubmitSound(s)' /\ CreateSound(s)'
  <2>1. /\ work'[s].track = s /\ work'[s].invTrack = s /\ work'[s].state = "TRACKID_REGISTERED"
        /\ work'[s].odoo = work[s].odoo /\ work'[s].operation_id = work[s].operation_id
    BY <1>0 DEF SubmitRegister, Row
  <2>2. /\ pc'[s] = "commit" /\ target'[s] = target[s] /\ answer' = answer
        /\ seen'[s] = seen[s] /\ UNCHANGED outside
    BY <1>0 DEF SubmitRegister
  <2>3. Draft(s)'
    BY <1>0, <2>1, <2>2 DEF Draft, Exists, outside, FINAL_OPERATION_STATES, AcceptedStates
  <2> QED BY <1>0, <1>1, <2>2, <2>3
       DEF SubmitRegister, SubmitSound, CreateSound, outside, durable, Holds, Locking
<1>4. JobSound(s)'
  BY <1>0, <1>1 DEF SubmitRegister, JobSound, Fed
<1>5. WorkSound(j)'
  BY <1>0 DEF SubmitRegister, WorkSound, Holds, Locking
<1>6. AnswerSound(s)' /\ AnswerSound(j)'
  <2>1. answer[j] \in FinalAnswers => target[j] = target[s]
    BY <1>0, OpNotNone DEF AnswerSound, Fed, JobSound
  <2> QED BY <1>0, <1>1, <2>1, TxKinds DEF SubmitRegister, AnswerSound, Fed
<1> DEFINE A == {s, j}
<1>7. /\ A \in SUBSET Tx /\ Submits \cap A = {s} /\ Retries \cap A = {}
      /\ (Retries \cup Jobs) \cap A = {j}
      /\ \A u \in Submits : Job(u) \in A => u = s
  BY <1>0, ActorKinds, TxKinds
<1> HIDE DEF TypeInv, A, j
<1>8. /\ \A t \in Tx \ A : Same(t)
      /\ \A t \in A : AnswerSound(t)'
  BY <1>2, <1>6 DEF A
<1> QED BY <1>1, <1>3, <1>4, <1>5, <1>7, <1>8, LocalStep

\* A retry reads a committed row.
LEMMA RetrySound_Begin ==
  ASSUME TypeInv, DataInv, NEW r \in Retries, NEW o \in Ops, NEW w \in Workers,
         RetryBegin(r, o, w)
  PROVE  DataInv'
<1> USE DEF TypeInv, TypeOK
<1>0. r \in Tx /\ r \notin Submits /\ RetrySound(r) /\ None \notin FinalAnswers
  BY TxKinds, ActorKinds, TxAssumption DEF DataInv, Answers
<1>1. Advance /\ UNCHANGED <<durable, received>>
  BY <1>0 DEF RetryBegin, Advance, durable, outside
<1>2. \A t \in Tx : t # r => Same(t)
  BY DEF RetryBegin, Same, local
<1>3. RetrySound(r)'
  <2>1. Sound(db[o], o) /\ Exists(db[o])
    BY DEF RetryBegin, DataInv, RowsSound
  <2> QED BY <1>0, <1>1, <2>1 DEF RetryBegin, RetrySound, Sound, Fed, durable, Exists
<1>4. WorkSound(r)' /\ AnswerSound(r)'
  BY <1>0 DEF RetryBegin, WorkSound, AnswerSound, RetrySound, Holds, Locking
<1> HIDE DEF TypeInv
<1> QED BY <1>1, <1>2, <1>3, <1>4, RetryLocal

\* A step of a retry keeps the invariant.
LEMMA RetrySound_Step ==
  ASSUME TypeInv, DataInv, NEW r \in Retries, RetryStep(r)
  PROVE  DataInv'
<1> USE DEF TypeInv, TypeOK
<1>0. /\ r \in Tx /\ r \in Retries \cup Jobs /\ RetrySound(r) /\ WorkSound(r) /\ AnswerSound(r)
      /\ pc[r] \in Running => target[r] \in Ops
      /\ None \notin FinalAnswers
  BY TxKinds, TxAssumption DEF DataInv, Placed, Answers
<1>1. CASE RetryMark(r)
  <2> DEFINE o == target[r]
  <2>0. o \in Ops /\ db[o] \in Row /\ Sound(db[o], o)
    BY <1>0, <1>1 DEF RetryMark, Running, RetrySound, DataInv, RowsSound
  <2>1. Advance /\ UNCHANGED <<durable, received>>
    BY <1>1 DEF RetryMark, Advance, durable, outside
  <2>2. \A t \in Tx : t # r => Same(t)
    BY <1>1 DEF RetryMark, Same
  <2>3. RetrySound(r)' /\ AnswerSound(r)'
    BY <1>0, <1>1, <2>1 DEF RetryMark, RetrySound, AnswerSound, Running, Locking, Fed, durable
  <2>4. WorkSound(r)'
    <3>1. /\ work'[r].state \in {db[o].state, "RETRYING"} /\ work'[r].odoo = db[o].odoo
          /\ work'[r].track = db[o].track /\ work'[r].invTrack = db[o].invTrack
          /\ work'[r].operation_id = db[o].operation_id
      BY <1>0, <1>1, <2>0 DEF RetryMark, Row, Set
    <3>2. target' = target /\ UNCHANGED <<usage, moves, received>>
      BY <1>1 DEF RetryMark, durable, outside
    <3> QED BY <2>0, <3>1, <3>2
         DEF WorkSound, Sound, Fed, Given, Exists, FINAL_OPERATION_STATES, AcceptedStates
  <2> HIDE DEF TypeInv
  <2> QED BY <2>1, <2>2, <2>3, <2>4, RetryLocal
<1>2. CASE RetryQuery(r)
  <2>0. Fed(seen[r].track, target[r]) /\ target[r] \in Ops
    BY <1>0, <1>2 DEF RetryQuery, RetrySound, Running, Locking
  <2>1. Advance /\ UNCHANGED <<durable, received>>
    BY <1>2 DEF RetryQuery, Advance, durable, outside
  <2>2. \A t \in Tx : t # r => Same(t)
    BY <1>2 DEF RetryQuery, Same
  <2>3. RetrySound(r)' /\ AnswerSound(r)'
    BY <1>0, <1>2, <2>0, <2>1
       DEF RetryQuery, RetrySound, AnswerSound, Running, Locking, Fed, durable
  <2>4. WorkSound(r)'
    BY <1>0, <1>2 DEF RetryQuery, WorkSound, Holds, Locking, Sound, Fed, Given, durable, outside
  <2> HIDE DEF TypeInv
  <2> QED BY <2>1, <2>2, <2>3, <2>4, RetryLocal
<1>3. CASE RetryFails(r)
  <2> HIDE DEF TypeInv
  <2> QED BY <1>0, <1>3, EndSound DEF RetryFails, Rollback
<1>4. CASE RetryApply(r)
  <2>0. Sound(work[r], target[r]) /\ target[r] \in Ops /\ work[r] \in Row
    BY <1>0, <1>4 DEF RetryApply, WorkSound, Holds, Running, Locking
  <2>1. Advance /\ UNCHANGED <<durable, received>>
    BY <1>4 DEF RetryApply, Advance, durable, outside
  <2>2. \A t \in Tx : t # r => Same(t)
    BY <1>4 DEF RetryApply, Same
  <2>3. RetrySound(r)' /\ AnswerSound(r)'
    BY <1>0, <1>4, <2>1
       DEF RetryApply, RetrySound, AnswerSound, Running, Locking, Fed, durable
  <2>4. WorkSound(r)'
    <3>1. /\ work'[r].state \in {"SYNCING_TO_ODOO", map_remote_status(answer[r])}
          /\ work'[r].odoo = work[r].odoo
          /\ work'[r].track = work[r].track /\ work'[r].invTrack = work[r].invTrack
          /\ work'[r].operation_id = work[r].operation_id
      BY <1>0, <1>4, <2>0 DEF RetryApply, Row
    <3>2. target' = target /\ UNCHANGED <<usage, moves, received>>
      BY <1>4 DEF RetryApply, durable, outside
    <3>3. work'[r].state \in FINAL_OPERATION_STATES =>
            answer[r] \in FinalAnswers /\ work'[r].state = map_remote_status(answer[r])
      BY <3>1, FinalAnswer DEF FINAL_OPERATION_STATES, AcceptedStates
    <3>4. work'[r].state \in FINAL_OPERATION_STATES => Given(work'[r].state, target[r])
      BY <1>0, <3>3 DEF AnswerSound, Given
    <3> QED BY <2>0, <3>1, <3>2, <3>4 DEF WorkSound, Sound, Fed, Given, Exists
  <2> HIDE DEF TypeInv
  <2> QED BY <2>1, <2>2, <2>3, <2>4, RetryLocal
<1> QED BY <1>1, <1>2, <1>3, <1>4 DEF RetryStep

\* A job that is taken reads a committed row.
LEMMA PollSound_Take ==
  ASSUME TypeInv, DataInv, NEW w \in Workers, PollTake(w)
  PROVE  DataInv'
<1> USE DEF TypeInv, TypeOK
<1>5. PICK s \in Submits : s = Head(queue[w])
  BY DEF PollTake
<1>0. Job(s) \in Tx /\ JobSound(s) /\ AnswerSound(Job(s))
  BY TxKinds DEF DataInv
<1>1. pc' = [pc EXCEPT ![Job(s)] = "fetching"] /\ UNCHANGED <<durable, outside, at, target, local>>
  BY <1>5 DEF PollTake
<1>2. Advance /\ UNCHANGED <<durable, received>>
  BY <1>1 DEF Advance, durable, outside
<1>3. \A t \in Tx : t # Job(s) => Same(t)
  BY <1>1 DEF Same, local
<1>4. JobSound(s)' /\ WorkSound(Job(s))' /\ AnswerSound(Job(s))'
  BY <1>0, <1>1 DEF JobSound, WorkSound, AnswerSound, Holds, Locking, Fed, outside, durable, local
<1> HIDE DEF TypeInv
<1> QED BY <1>0, <1>2, <1>3, <1>4, JobLocal

\* A step of a job keeps the invariant.
LEMMA PollSound_Step ==
  ASSUME TypeInv, DataInv, NEW s \in Submits, PollStep(s)
  PROVE  DataInv'
<1> USE DEF TypeInv, TypeOK
<1> DEFINE j == Job(s)
<1>0. /\ j \in Tx /\ j \in Retries \cup Jobs /\ JobSound(s) /\ WorkSound(j) /\ AnswerSound(j)
      /\ pc[j] \in Running => target[j] \in Ops /\ target[j] # None
      /\ None \notin FinalAnswers
  BY TxKinds, TxAssumption DEF DataInv, Placed, Answers
<1>1. CASE PollFetch(s)
  <2>0. Fed(s, target[j])
    BY <1>0, <1>1 DEF PollFetch, JobSound, Running
  <2>1. Advance /\ UNCHANGED <<durable, received>>
    BY <1>1 DEF PollFetch, Advance, durable, outside
  <2>2. \A t \in Tx : t # j => Same(t)
    BY <1>1 DEF PollFetch, Same
  <2>3. JobSound(s)' /\ WorkSound(j)' /\ AnswerSound(j)'
    BY <1>0, <1>1, <2>0, <2>1
       DEF PollFetch, JobSound, WorkSound, AnswerSound, Holds, Locking, Fed, durable
  <2> HIDE DEF TypeInv
  <2> QED BY <2>1, <2>2, <2>3, JobLocal
<1>2. CASE PollDrops(s)
  <2> HIDE DEF TypeInv
  <2> QED BY <1>0, <1>2, EndSound DEF PollDrops, Rollback
<1>3. CASE PollRead(s)
  <2>1. Advance /\ UNCHANGED <<durable, received>>
    BY <1>3 DEF PollRead, Advance, durable, outside
  <2>2. \A t \in Tx : t # j => Same(t)
    BY <1>3 DEF PollRead, Same
  <2>3. JobSound(s)' /\ WorkSound(j)' /\ AnswerSound(j)'
    BY <1>0, <1>3, <2>1
       DEF PollRead, Finds, JobSound, WorkSound, AnswerSound, Holds, Locking, Fed, durable, Exists
  <2> HIDE DEF TypeInv
  <2> QED BY <2>1, <2>2, <2>3, JobLocal
<1>4. CASE PollApply(s)
  <2> DEFINE o == target[j]
  <2>0. o \in Ops /\ db[o] \in Row /\ Sound(db[o], o) /\ Fed(s, o)
    BY <1>0, <1>4 DEF PollApply, Running, JobSound, DataInv, RowsSound
  <2>1. Advance /\ UNCHANGED <<durable, received>>
    BY <1>4 DEF PollApply, Advance, durable, outside
  <2>2. \A t \in Tx : t # j => Same(t)
    BY <1>4 DEF PollApply, Same
  <2>3. JobSound(s)' /\ AnswerSound(j)'
    BY <1>0, <1>4, <2>1 DEF PollApply, JobSound, AnswerSound, Fed, durable
  <2>4. WorkSound(j)'
    <3>1. /\ work'[j].state \in
               {"SYNCING_TO_ODOO", db[o].state, map_remote_status(answer[j])}
          /\ work'[j].odoo \in {db[o].odoo, "SKIPPED"}
          /\ work'[j].track \in {db[o].track, s} /\ work'[j].invTrack = db[o].invTrack
          /\ work'[j].operation_id = db[o].operation_id
      BY <1>0, <1>4, <2>0 DEF PollApply, Row, Set
    <3>2. target' = target /\ UNCHANGED <<usage, moves, received>>
      BY <1>4 DEF PollApply, durable, outside
    <3>3. work'[j].state \in FINAL_OPERATION_STATES =>
            Given(work'[j].state, o)
      <4>1. map_remote_status(answer[j]) \in FINAL_OPERATION_STATES =>
              Given(map_remote_status(answer[j]), o)
        BY <1>0, FinalAnswer DEF AnswerSound, Given
      <4> QED BY <2>0, <3>1, <4>1 DEF Sound, FINAL_OPERATION_STATES, AcceptedStates
    <3>4. work'[j].odoo \in Synced => moves[o] > 0
      BY <2>0, <3>1 DEF Sound, Synced
    <3>5. Fed(work'[j].track, o)
      BY <2>0, <3>1 DEF Sound
    <3> QED BY <2>0, <3>1, <3>2, <3>3, <3>4, <3>5 DEF WorkSound, Sound, Fed, Given, Exists
  <2> HIDE DEF TypeInv
  <2> QED BY <2>1, <2>2, <2>3, <2>4, JobLocal
<1> QED BY <1>1, <1>2, <1>3, <1>4 DEF PollStep

\* A synchronisation with Odoo keeps the invariant.
LEMMA SyncSound ==
  ASSUME TypeInv, DataInv, NEW t \in Tx, OdooSync(t)
  PROVE  DataInv'
<1> USE DEF TypeInv, TypeOK
<1> DEFINE o == target[t]
<1>0. /\ t \notin Submits /\ t \in Retries \cup Jobs /\ pc[t] = "odoo"
      /\ o \in Ops /\ Sound(work[t], o) /\ AnswerSound(t) /\ work[t] \in Row
  BY DEF OdooSync, DataInv, SubmitSound, WorkSound, Tx, Requests, Holds, Placed, Running, Locking
<1>1. PICK created \in BOOLEAN, result \in {"FAILED", "SYNCED_DRAFT", "SYNCED_TO_ODOO"} :
        /\ result # "FAILED" => created
        /\ moves' = IF created THEN [moves EXCEPT ![target[t]] = @ + 1] ELSE moves
        /\ work' = [work EXCEPT
             ![t].odoo = Set(seen[t].odoo, @, result),
             ![t].state = IF result = "FAILED" THEN @
                          ELSE IF t \in Jobs THEN map_remote_status(answer[t])
                          ELSE "SYNCED_TO_ODOO"]
  BY DEF OdooSync
<1>2. /\ pc' = [pc EXCEPT ![t] = "commit"] /\ UNCHANGED <<durable, db, usage, received>>
      /\ UNCHANGED <<target, seen, answer>>
  BY DEF OdooSync, durable
<1>3. Advance
  <2>1. \A p \in Ops : moves[p] > 0 => moves'[p] > 0
    BY <1>0, <1>1
  <2> QED BY <1>2, <2>1 DEF Advance
<1>4. \A u \in Tx : u # t => Same(u)
  BY <1>1, <1>2 DEF Same
<1>5. WorkSound(t)'
  <2>1. /\ work'[t].state \in {work[t].state, map_remote_status(answer[t]), "SYNCED_TO_ODOO"}
        /\ work'[t].odoo \in {work[t].odoo, result}
        /\ work'[t].track = work[t].track /\ work'[t].invTrack = work[t].invTrack
        /\ work'[t].operation_id = work[t].operation_id
    BY <1>0, <1>1 DEF Row, Set
  <2>2. work'[t].state \in FINAL_OPERATION_STATES => Given(work'[t].state, o)
    <3>1. map_remote_status(answer[t]) \in FINAL_OPERATION_STATES =>
            Given(map_remote_status(answer[t]), o)
      BY <1>0, FinalAnswer DEF AnswerSound, Given
    <3> QED BY <1>0, <2>1, <3>1 DEF Sound, FINAL_OPERATION_STATES, AcceptedStates
  <2>3. work'[t].odoo \in Synced => moves'[o] > 0
    BY <1>0, <1>1, <1>3, <2>1 DEF Sound, Synced, Advance
  <2> QED BY <1>0, <1>2, <2>1, <2>2, <2>3 DEF WorkSound, Sound, Fed, Given, Exists
<1>6. AnswerSound(t)'
  BY <1>0, <1>2 DEF AnswerSound, Fed
<1>7. CASE t \in Retries
  <2>1. RetrySound(t)'
    BY <1>0, <1>2, <1>7 DEF DataInv, RetrySound, Running, Locking, Fed, Exists
  <2> HIDE DEF TypeInv
  <2> QED BY <1>2, <1>3, <1>4, <1>5, <1>6, <1>7, <2>1, RetryLocal
<1>8. CASE t \in Jobs
  <2>1. PICK s \in Submits : t = Job(s)
    BY <1>8, ActorKinds
  <2>2. JobSound(s)'
    BY <1>0, <1>2, <2>1 DEF DataInv, JobSound, Fed
  <2> HIDE DEF TypeInv
  <2> QED BY <1>2, <1>3, <1>4, <1>5, <1>6, <2>1, <2>2, JobLocal
<1> QED BY <1>0, <1>7, <1>8

\* A commit writes a row that may be committed.
LEMMA CommitSound ==
  ASSUME TypeInv, OneInFlight, DataInv, NEW t \in Tx, Commit(t)
  PROVE  DataInv'
<1> USE DEF TypeInv, TypeOK
<1>1. CASE Rollback(t)
  <2>1. End({t}) /\ {t} \in SUBSET Tx /\ UNCHANGED durable /\ UNCHANGED outside
    BY <1>1 DEF Rollback
  <2> HIDE DEF TypeInv
  <2> QED BY <2>1, EndSound
<1>2. CASE /\ db' = [db EXCEPT ![target[t]] = work[t]]
           /\ usage' = IF t \in Submits THEN usage \cup {t} ELSE usage
           /\ End({t}) /\ UNCHANGED <<outside, queue, crashes>>
  <2> DEFINE o == target[t]
  <2>0. /\ pc[t] = "commit" /\ o \in Ops /\ work[t] \in Row /\ Holds(t)
        /\ UNCHANGED <<moves, received, target>>
    BY <1>2 DEF Commit, Placed, Running, Locking, Holds, End, outside
  <2>1. /\ Exists(work[t]) /\ Fed(work[t].track, o) /\ Fed(work[t].invTrack, o)
        /\ work[t].invTrack \in usage'
        /\ work[t].state \in FINAL_OPERATION_STATES => Given(work[t].state, o)
        /\ work[t].odoo \in Synced => moves[o] > 0
        /\ t \in Submits => Fed(t, o)
    <3>1. CASE t \in Submits
      <4>1. Draft(t)
        BY <2>0, <3>1 DEF DataInv, SubmitSound
      <4> QED BY <1>2, <2>0, <3>1, <4>1 DEF Draft, Fed
    <3>2. CASE t \notin Submits
      <4>1. Sound(work[t], o)
        BY <2>0, <3>2 DEF DataInv, WorkSound, Tx, Requests
      <4> QED BY <1>2, <3>2, <4>1 DEF Sound
    <3> QED BY <3>1, <3>2
  <2>2. Advance
    BY <1>2, <2>0, <2>1 DEF Advance, Exists
  <2>3. \A u \in Tx : u # t => Same(u)
    BY <1>2 DEF End, Same
  <2>4. Ended(t)
    BY <1>2 DEF End, Ended
  <2>5. RowsSound'
    <3> SUFFICES ASSUME NEW p \in Ops, Exists(db[p])' PROVE Sound(db[p], p)'
      BY DEF RowsSound
    <3>1. CASE p = target[t]
      <4>1. db'[p] = work[t]
        BY <1>2, <2>0, <3>1
      <4> QED BY <2>0, <2>1, <3>1, <4>1 DEF Sound, Fed, Given, Exists
    <3>2. CASE p # target[t]
      <4>1. db'[p] = db[p]
        BY <1>2, <3>2
      <4>2. PICK row : row = db[p]
        OBVIOUS
      <4>3. Sound(row, p)
        BY <4>1, <4>2 DEF DataInv, RowsSound, Exists
      <4>4. Sound(row, p)'
        BY <2>2, <4>3, SoundKept
      <4> QED BY <4>1, <4>2, <4>4 DEF Sound, Fed, Given, Exists
    <3> QED BY <3>1, <3>2
  <2>6. UsageSound'
    <3> SUFFICES ASSUME NEW s \in usage' PROVE Fed(s, target[s])' /\ Exists(db[target[s]])'
      BY DEF UsageSound
    <3>1. CASE s = t
      <4>1. t \in Submits
        BY <1>2, <3>1
      <4> QED BY <1>2, <2>0, <2>1, <3>1, <4>1 DEF Fed, Exists
    <3>2. CASE s # t
      <4>1. s \in usage
        BY <1>2, <3>2
      <4>2. Fed(s, target[s]) /\ Exists(db[target[s]])
        BY <4>1 DEF DataInv, UsageSound
      <4> QED BY <4>2, <2>0, <2>2 DEF Fed, Advance
    <3> QED BY <3>1, <3>2
  <2>7. SyncedHasMove'
    <3> SUFFICES ASSUME NEW p \in Ops, db'[p].odoo \in Synced PROVE moves'[p] > 0
      BY DEF SyncedHasMove, Synced
    <3>1. CASE p = target[t]
      BY <1>2, <2>0, <2>1, <3>1
    <3>2. CASE p # target[t]
      BY <1>2, <2>0, <3>2 DEF DataInv, SyncedHasMove, Synced
    <3> QED BY <3>1, <3>2
  <2>8. \A s \in Submits : CreateSound(s)'
    <3> SUFFICES ASSUME NEW s \in Submits PROVE CreateSound(s)'
      OBVIOUS
    <3>1. s \in Tx
      BY TxKinds
    <3>2. CASE s = t
      BY <2>4, <3>2 DEF Ended, CreateSound, Holds, Locking
    <3>3. CASE s # t
      <4>1. Same(s) /\ CreateSound(s)
        BY <2>3, <3>1, <3>3 DEF DataInv
      <4>2. Holds(s) => target[s] # target[t]
        BY <2>0, <3>1, <3>3 DEF OneInFlight
      <4> QED BY <1>2, <4>1, <4>2 DEF Same, CreateSound, Holds, Exists
    <3> QED BY <3>2, <3>3
  <2> HIDE DEF TypeInv
  <2>9. \A u \in Tx : Same(u) \/ Ended(u)
    BY <2>3, <2>4
  <2>10. ASSUME NEW s \in Submits PROVE SubmitSound(s)' /\ JobSound(s)'
    BY <2>0, <2>2, <2>9, OthersSound, TxKinds
  <2>11. ASSUME NEW r \in Retries PROVE RetrySound(r)'
    BY <2>2, <2>9, OthersSound, TxKinds
  <2>12. ASSUME NEW u \in Retries \cup Jobs PROVE WorkSound(u)'
    BY <2>2, <2>9, OthersSound, TxKinds
  <2>13. ASSUME NEW u \in Tx PROVE AnswerSound(u)'
    BY <2>2, <2>9, OthersSound
  <2> QED BY <2>5, <2>6, <2>7, <2>8, <2>10, <2>11, <2>12, <2>13 DEF DataInv
<1> QED BY <1>1, <1>2 DEF Commit

\* A decision of DGII keeps the invariant: it settles what was open.
LEMMA DgiiSound ==
  ASSUME TypeInv, DataInv, NEW s \in Submits, DgiiDecides(s)
  PROVE  DataInv'
<1> USE DEF TypeInv, TypeOK
<1>1. /\ s \in Tx /\ SubmitSound(s) /\ CreateSound(s) /\ AnswerSound(s)
      /\ None \notin Answers /\ received[s] # None
  BY TxKinds, TxAssumption DEF DataInv, DgiiDecides, Tx, Answers
<1>2. Advance
  BY <1>1, VerdictsAssumption DEF DgiiDecides, Advance, Answers, FinalAnswers, durable
<1>3. \A t \in Tx : Same(t)
  BY DEF DgiiDecides, Same, local
<1>4. \A u \in Submits : received[u] = None => received'[u] = None
  BY <1>1 DEF DgiiDecides
<1>5. UNCHANGED durable
  BY DEF DgiiDecides
<1> HIDE DEF TypeInv
<1> DEFINE A == {}
<1>6. A \in SUBSET Tx /\ Tx \ A = Tx /\ Submits \ A = Submits /\ Submits \cap A = {}
      /\ Retries \cap A = {} /\ (Retries \cup Jobs) \cap A = {} /\ \A u \in Submits : Job(u) \notin A
      /\ \A t \in A : FALSE
  OBVIOUS
<1> HIDE DEF A
<1> QED BY <1>2, <1>3, <1>4, <1>5, <1>6, LocalStep

\* The invariant holds at first.
LEMMA DataInit == Init => DataInv
<1> SUFFICES ASSUME Init PROVE DataInv
  OBVIOUS
<1>1. RowsSound /\ UsageSound /\ SyncedHasMove
  BY DEF Init, RowsSound, UsageSound, SyncedHasMove, Exists, NoRow
<1>2. ASSUME NEW s \in Submits PROVE SubmitSound(s) /\ JobSound(s) /\ CreateSound(s)
  BY TxKinds DEF Init, SubmitSound, JobSound, CreateSound, Holds, Locking
<1>3. ASSUME NEW r \in Retries PROVE RetrySound(r)
  BY TxKinds DEF Init, RetrySound, Running, Locking
<1>4. ASSUME NEW t \in Retries \cup Jobs PROVE WorkSound(t)
  BY TxKinds DEF Init, WorkSound, Holds, Locking
<1>5. ASSUME NEW t \in Tx PROVE AnswerSound(t)
  BY TxAssumption DEF Init, AnswerSound, Answers
<1> QED BY <1>1, <1>2, <1>3, <1>4, <1>5 DEF DataInv

\* Every step keeps the invariant.
LEMMA DataNext == TypeInv /\ OneInFlight /\ DataInv /\ [Next]_vars => DataInv'
<1> SUFFICES ASSUME TypeInv, OneInFlight, DataInv, [Next]_vars PROVE DataInv'
  OBVIOUS
<1>1. CASE UNCHANGED vars
  <2>1. Advance /\ UNCHANGED <<durable, received>> /\ \A t \in Tx : Same(t)
    BY <1>1 DEF vars, durable, outside, local, Advance, Same
  <2> DEFINE A == {}
  <2>2. A \in SUBSET Tx /\ Tx \ A = Tx /\ Submits \ A = Submits /\ Submits \cap A = {}
        /\ Retries \cap A = {} /\ (Retries \cup Jobs) \cap A = {} /\ \A u \in Submits : Job(u) \notin A
        /\ \A t \in A : FALSE
    OBVIOUS
  <2> HIDE DEF A
  <2> QED BY <2>1, <2>2, LocalStep
<1>2. ASSUME NEW s \in Submits, SubmitStep(s) PROVE DataInv'
  <2>1. CASE SubmitSign(s)
    BY <2>1, SubmitSound_Sign
  <2>5. CASE SubmitStore(s)
    BY <2>5, SubmitSound_Store
  <2>2. CASE SubmitFailsEarly(s) \/ SubmitFailsLate(s)
    <3>1. End({s}) /\ {s} \in SUBSET Tx /\ UNCHANGED durable /\ UNCHANGED outside
      BY <2>2, TxKinds DEF SubmitFailsEarly, SubmitFailsLate, Rollback
    <3> QED BY <3>1, EndSound
  <2>3. CASE SubmitSend(s)
    BY <2>3, SubmitSound_Send
  <2>4. CASE SubmitRegister(s)
    BY <2>4, SubmitSound_Register
  <2> QED BY <1>2, <2>1, <2>2, <2>3, <2>4, <2>5 DEF SubmitStep
<1>3. ASSUME NEW s \in Submits, PollStep(s) PROVE DataInv'
  BY <1>3, PollSound_Step
<1>4. ASSUME NEW s \in Submits, DgiiDecides(s) PROVE DataInv'
  BY <1>4, DgiiSound
<1>5. ASSUME NEW s \in Submits, NEW o \in Ops, NEW w \in Workers, SubmitBegin(s, o, w)
      PROVE  DataInv'
  BY <1>5, SubmitSound_Begin
<1>6. ASSUME NEW r \in Retries, RetryStep(r) PROVE DataInv'
  BY <1>6, RetrySound_Step
<1>7. ASSUME NEW r \in Retries, NEW o \in Ops, NEW w \in Workers, RetryBegin(r, o, w)
      PROVE  DataInv'
  BY <1>7, RetrySound_Begin
<1>8. ASSUME NEW t \in Tx, Commit(t) PROVE DataInv'
  BY <1>8, CommitSound
<1>9. ASSUME NEW t \in Tx, OdooSync(t) PROVE DataInv'
  BY <1>9, SyncSound
<1>10. ASSUME NEW w \in Workers, PollTake(w) PROVE DataInv'
  BY <1>10, PollSound_Take
<1>11. ASSUME NEW w \in Workers, Crash(w) \/ Kill(w) PROVE DataInv'
  <2> DEFINE T == {t \in Tx : at[t] = w /\ pc[t] \in Running \cup {"queued"}}
  <2>1. End(T) /\ T \in SUBSET Tx /\ UNCHANGED durable /\ UNCHANGED outside
    BY <1>11 DEF Crash, Kill, Dies
  <2> QED BY <2>1, EndSound
<1> QED BY <1>1, <1>2, <1>3, <1>4, <1>5, <1>6, <1>7, <1>8, <1>9, <1>10, <1>11 DEF Next

----------------------------------------------------------------------------
\* What follows from the invariant.

SafetyInv == TypeInv /\ OneInFlight /\ DataInv

\* The inductive invariant holds of every behaviour.
LEMMA SafetyHolds == Spec => []SafetyInv
<1>1. Init => SafetyInv
  BY TypeInit, OneInFlightInit, DataInit DEF SafetyInv
<1>2. SafetyInv /\ [Next]_vars => SafetyInv'
  BY TypeNext, OneInFlightNext, DataNext DEF SafetyInv
<1> QED BY <1>1, <1>2, PTL DEF Spec

\* Of two POSTs of a new document the one that loses the unique key has sent
\* nothing: nobody creates a row that is there.
THEOREM NoDoubleCreateHolds == Spec => []NoDoubleCreate
<1>1. SafetyInv => NoDoubleCreate
  BY DEF SafetyInv, DataInv, CreateSound, NoDoubleCreate
<1> QED BY <1>1, SafetyHolds, PTL

\* A committed operation has a track id DGII gave to a submission of its own
\* document, and the track id of its invoice is billed.
THEOREM RegisteredIsBilledHolds == Spec => []RegisteredIsBilled
<1>1. SafetyInv => RegisteredIsBilled
  BY TxAssumption, TxKinds
     DEF SafetyInv, DataInv, RowsSound, Sound, Fed, RegisteredIsBilled
<1> QED BY <1>1, SafetyHolds, PTL

\* Whatever is billed DGII received, and its operation is in the database.
THEOREM BilledIsReceivedHolds == Spec => []BilledIsReceived
<1>1. SafetyInv => BilledIsReceived
  BY DEF SafetyInv, DataInv, UsageSound, Fed, BilledIsReceived
<1> QED BY <1>1, SafetyHolds, PTL

\* A final state in the database is one DGII gave to this document.
THEOREM FinalStateIsDgiisHolds == Spec => []FinalStateIsDgiis
<1>1. SafetyInv => FinalStateIsDgiis
  BY DEF SafetyInv, DataInv, RowsSound, Sound, Given, Fed, FinalStateIsDgiis
<1> QED BY <1>1, SafetyHolds, PTL

\* The row says synchronised only when Odoo holds a move.
THEOREM SyncedHasMoveHolds == Spec => []SyncedHasMove
<1>1. SafetyInv => SyncedHasMove
  BY DEF SafetyInv, DataInv
<1> QED BY <1>1, SafetyHolds, PTL

----------------------------------------------------------------------------
\* The signed files.  A file goes to another document only where two submissions
\* have looked for it before either wrote it; the number is remembered in raced.

Raced(o)     == EncfOf[o] \in raced
KeepsFile(o) == xml[EncfOf[o]] = o \/ Raced(o)
Writing(s)   == pc[s] = "signing"
Written(s)   == Holds(s) /\ ~Writing(s)

FileInv ==
  /\ \A o \in Ops : Exists(db[o]) => KeepsFile(o)
  /\ \A s \in Submits :
       /\ Written(s) => KeepsFile(target[s])
       /\ Writing(s) => xml[EncfOf[target[s]]] \in {None, target[s]} \/ Raced(target[s])
  /\ \A s, u \in Submits :
       Writing(s) /\ Writing(u) /\ EncfOf[target[s]] = EncfOf[target[u]] => s = u \/ Raced(target[s])

\* A step that writes no file and brings nobody nearer to one keeps the files.
LEMMA FilesUntouched ==
  ASSUME FileInv, UNCHANGED <<xml, raced>>,
         \A o \in Ops : Exists(db'[o]) => Exists(db[o]) \/ KeepsFile(o),
         \A s \in Submits :
           /\ pc'[s] \in Locking => target'[s] = target[s]
           /\ Writing(s)' => Writing(s)
           /\ Written(s)' => Written(s)
  PROVE  FileInv'
BY DEF FileInv, KeepsFile, Raced, Writing, Written, Holds, Locking, Exists

\* A step that writes no row, in which no submission gets further than it was with
\* its file.
LEMMA FilesLeft ==
  ASSUME FileInv, UNCHANGED <<db, xml, raced>>,
         \A s \in Submits :
           \/ pc'[s] \notin Locking
           \/ pc'[s] = pc[s] /\ target'[s] = target[s]
           \/ Written(s) /\ ~Writing(s)' /\ target'[s] = target[s]
  PROVE  FileInv'
BY FilesUntouched DEF Writing, Written, Holds, Locking

\* Looking for the file keeps the invariant: it is the own one, or none, and who
\* looks while another has it to write is remembered.
LEMMA FilesSign ==
  ASSUME TypeInv, FileInv, NEW s \in Submits, SubmitSign(s)
  PROVE  FileInv'
<1>1. /\ UNCHANGED <<db, xml, target>> /\ raced \subseteq raced'
      /\ Storing(EncfOf[target[s]]) => EncfOf[target[s]] \in raced'
      /\ xml[EncfOf[target[s]]] \in {None, target[s]}
      /\ pc' = [pc EXCEPT ![s] = "signing"] /\ s \in Tx /\ pc \in [Tx -> Running \cup {"idle", "queued", "done"}]
  BY TxKinds DEF SubmitSign, Signs, durable, TypeInv, TypeOK
<1>2. \A u \in Submits : u \in Tx /\ (u # s => pc'[u] = pc[u]) /\ pc'[s] = "signing"
  BY <1>1, TxKinds
<1>3. \A o \in Ops : Exists(db'[o]) => KeepsFile(o)'
  BY <1>1 DEF FileInv, KeepsFile, Raced
<1>4. \A u \in Submits :
        /\ Written(u)' => KeepsFile(target[u])'
        /\ Writing(u)' => xml'[EncfOf[target'[u]]] \in {None, target'[u]} \/ Raced(target[u])'
  BY <1>1, <1>2 DEF FileInv, KeepsFile, Raced, Written, Writing, Holds
<1>5. \A u, v \in Submits :
        Writing(u)' /\ Writing(v)' /\ EncfOf[target'[u]] = EncfOf[target'[v]]
          => u = v \/ Raced(target[u])'
  BY <1>1, <1>2 DEF FileInv, Raced, Writing, Storing
<1> QED BY <1>3, <1>4, <1>5 DEF FileInv

\* Writing the file keeps the invariant: a file of another document is replaced
\* only where the number was raced for.
LEMMA FilesStore ==
  ASSUME TypeInv, FileInv, NEW s \in Submits, SubmitStore(s)
  PROVE  FileInv'
<1> DEFINE o == target[s]
           e == EncfOf[o]
<1>1. /\ UNCHANGED <<db, raced, target>> /\ s \in Tx /\ o \in Ops /\ e \in Encfs
      /\ Writing(s) /\ (xml[e] \in {None, o} \/ Raced(o))
  BY TxKinds, OpsAssumption
     DEF SubmitStore, durable, TypeInv, TypeOK, Placed, Running, Locking, FileInv, Writing
<1>2. /\ xml'[e] = o /\ \A d \in Encfs : d # e => xml'[d] = xml[d]
      /\ pc'[s] = "sending" /\ \A u \in Submits : u # s => pc'[u] = pc[u]
  BY <1>1, TxKinds DEF SubmitStore, TypeInv, TypeOK
<1>3. \A p \in Ops : KeepsFile(p) => KeepsFile(p)'
  BY <1>1, <1>2, OpsAssumption, OpNotNone DEF KeepsFile, Raced
<1>4. KeepsFile(o)'
  BY <1>1, <1>2 DEF KeepsFile
<1>5. ASSUME NEW u \in Submits, Written(u)' PROVE KeepsFile(target[u])'
  <2>1. CASE u = s
    BY <2>1, <1>1, <1>4
  <2>2. CASE u # s
    <3>1. Written(u) /\ target[u] \in Ops
      BY <2>2, <1>2, <1>5, TxKinds DEF Written, Writing, Holds, TypeInv, Placed, Running
    <3> QED BY <3>1, <1>1, <1>3 DEF FileInv, KeepsFile, Raced
  <2> QED BY <2>1, <2>2
<1>6. ASSUME NEW u \in Submits, Writing(u)'
      PROVE  xml'[EncfOf[target'[u]]] \in {None, target'[u]} \/ Raced(target[u])'
  <2>1. u # s /\ Writing(u) /\ EncfOf[target[u]] \in Encfs
    BY <1>2, <1>6, TxKinds, OpsAssumption DEF Writing, TypeInv, Placed, Running, Locking
  <2>2. CASE EncfOf[target[u]] = e
    BY <2>1, <2>2, <1>1 DEF FileInv, Raced
  <2>3. CASE EncfOf[target[u]] # e
    BY <2>1, <2>3, <1>1, <1>2 DEF FileInv, Raced
  <2> QED BY <2>2, <2>3
<1>7. \A u, v \in Submits :
        Writing(u)' /\ Writing(v)' /\ EncfOf[target'[u]] = EncfOf[target'[v]]
          => u = v \/ Raced(target[u])'
  BY <1>1, <1>2 DEF FileInv, Raced, Writing
<1>8. \A p \in Ops : Exists(db'[p]) => KeepsFile(p)'
  BY <1>1, <1>3 DEF FileInv
<1> QED BY <1>5, <1>6, <1>7, <1>8 DEF FileInv

\* A commit keeps the invariant: the operation is there already, or its
\* submission has written the file.
LEMMA FilesCommit ==
  ASSUME SafetyInv, FileInv, NEW t \in Tx, Commit(t)
  PROVE  FileInv'
<1> DEFINE o == target[t]
<1>1. /\ pc[t] = "commit" /\ Holds(t) /\ o \in Ops /\ End({t}) /\ UNCHANGED <<xml, raced>>
      /\ db \in [Ops -> Row]
      /\ db' \in {db, [db EXCEPT ![o] = work[t]]}
  BY DEF Commit, Rollback, Holds, Locking, Running, SafetyInv, TypeInv, TypeOK, Placed, outside,
     durable
<1>2. KeepsFile(o)
  <2>1. CASE t \in Submits
    BY <1>1, <2>1 DEF FileInv, Written, Writing
  <2>2. CASE t \notin Submits
    <3>1. Sound(work[t], o)
      BY <1>1, <2>2 DEF SafetyInv, DataInv, WorkSound, Tx, Requests
    <3>2. Exists(db[o])
      BY <3>1 DEF Sound, Fed, SafetyInv, DataInv, UsageSound
    <3> QED BY <1>1, <3>2 DEF FileInv
  <2> QED BY <2>1, <2>2
<1>3. \A p \in Ops : Exists(db'[p]) => Exists(db[p]) \/ KeepsFile(p)
  BY <1>1, <1>2
<1>4. \A s \in Submits : target'[s] = target[s] /\ (pc'[s] = pc[s] \/ pc'[s] = "done")
  BY <1>1, TxKinds DEF End, SafetyInv, TypeInv, TypeOK
<1> QED BY <1>1, <1>3, <1>4, FilesUntouched DEF Writing, Written, Holds, Locking

\* Transactions that end without writing leave the files as they are.
LEMMA FilesEnd ==
  ASSUME TypeInv, FileInv, NEW T \in SUBSET Tx, End(T), UNCHANGED durable, UNCHANGED outside
  PROVE  FileInv'
<1>1. UNCHANGED <<db, xml, raced>>
  BY DEF durable, outside
<1>2. \A s \in Submits : target'[s] = target[s] /\ (pc'[s] = pc[s] \/ pc'[s] = "done")
  BY TxKinds DEF End, TypeInv, TypeOK
<1> QED BY <1>1, <1>2, FilesLeft DEF Locking

\* Every step keeps the invariant.
LEMMA FileNext == SafetyInv /\ FileInv /\ [Next]_vars => FileInv'
<1> SUFFICES ASSUME SafetyInv, FileInv, [Next]_vars PROVE FileInv'
  OBVIOUS
<1>0. TypeInv /\ TypeOK
  BY DEF SafetyInv, TypeInv
<1> USE DEF TypeOK
<1>1. CASE UNCHANGED vars
  BY <1>1, FilesLeft DEF vars, durable, outside
<1>2. ASSUME NEW s \in Submits, SubmitStep(s) PROVE FileInv'
  <2>0. s \in Tx /\ Job(s) \in Tx /\ \A u \in Submits : u \in Tx /\ u # Job(s)
    BY TxKinds, ActorKinds
  <2>1. CASE SubmitSign(s)
    BY <1>0, <2>1, FilesSign
  <2>2. CASE SubmitStore(s)
    BY <1>0, <2>2, FilesStore
  <2>3. CASE SubmitFailsEarly(s) \/ SubmitFailsLate(s)
    <3>1. End({s}) /\ {s} \in SUBSET Tx /\ UNCHANGED durable /\ UNCHANGED outside
      BY <2>0, <2>3 DEF SubmitFailsEarly, SubmitFailsLate, Rollback
    <3> QED BY <1>0, <3>1, FilesEnd
  <2>4. CASE SubmitSend(s)
    BY <1>0, <2>0, <2>4, FilesLeft DEF SubmitSend, durable, Written, Writing, Holds, Locking
  <2>5. CASE SubmitRegister(s)
    BY <1>0, <2>0, <2>5, FilesLeft
       DEF SubmitRegister, durable, outside, Written, Writing, Holds, Locking
  <2> QED BY <1>2, <2>1, <2>2, <2>3, <2>4, <2>5 DEF SubmitStep
<1>3. ASSUME NEW s \in Submits, PollStep(s) PROVE FileInv'
  <2>0. Job(s) \in Tx /\ \A u \in Submits : u \in Tx /\ u # Job(s)
    BY TxKinds, ActorKinds
  <2>1. CASE PollDrops(s)
    <3>1. End({Job(s)}) /\ {Job(s)} \in SUBSET Tx /\ UNCHANGED durable /\ UNCHANGED outside
      BY <2>0, <2>1 DEF PollDrops, Rollback
    <3> QED BY <1>0, <3>1, FilesEnd
  <2>2. CASE PollFetch(s) \/ PollRead(s) \/ PollApply(s)
    BY <1>0, <2>0, <2>2, FilesLeft DEF PollFetch, PollRead, PollApply, durable, outside
  <2> QED BY <1>3, <2>1, <2>2 DEF PollStep
<1>4. ASSUME NEW s \in Submits, DgiiDecides(s) PROVE FileInv'
  BY <1>4, FilesLeft DEF DgiiDecides, durable
<1>5. ASSUME NEW s \in Submits, NEW o \in Ops, NEW w \in Workers, SubmitBegin(s, o, w)
      PROVE  FileInv'
  BY <1>0, <1>5, TxKinds, FilesLeft DEF SubmitBegin, durable, outside, Locking
<1>6. ASSUME NEW r \in Retries, RetryStep(r) PROVE FileInv'
  <2>0. r \in Tx /\ \A u \in Submits : u \in Tx /\ u # r
    BY TxKinds, ActorKinds
  <2>1. CASE RetryFails(r)
    <3>1. End({r}) /\ {r} \in SUBSET Tx /\ UNCHANGED durable /\ UNCHANGED outside
      BY <2>0, <2>1 DEF RetryFails, Rollback
    <3> QED BY <1>0, <3>1, FilesEnd
  <2>2. CASE RetryMark(r) \/ RetryQuery(r) \/ RetryApply(r)
    BY <1>0, <2>0, <2>2, FilesLeft DEF RetryMark, RetryQuery, RetryApply, durable, outside
  <2> QED BY <1>6, <2>1, <2>2 DEF RetryStep
<1>7. ASSUME NEW r \in Retries, NEW o \in Ops, NEW w \in Workers, RetryBegin(r, o, w)
      PROVE  FileInv'
  BY <1>0, <1>7, TxKinds, ActorKinds, FilesLeft DEF RetryBegin, durable, outside
<1>8. ASSUME NEW t \in Tx, Commit(t) PROVE FileInv'
  BY <1>8, FilesCommit
<1>9. ASSUME NEW t \in Tx, OdooSync(t) PROVE FileInv'
  <2>1. \A u \in Submits : pc[u] # "odoo" /\ u \in Tx
    BY TxKinds DEF SafetyInv, DataInv, SubmitSound
  <2> QED BY <1>0, <1>9, <2>1, FilesLeft DEF OdooSync, durable
<1>10. ASSUME NEW w \in Workers, PollTake(w) PROVE FileInv'
  <2>1. Head(queue[w]) \in Submits
    BY <1>0, <1>10 DEF PollTake
  <2> QED BY <1>0, <1>10, <2>1, TxKinds, ActorKinds, FilesLeft DEF PollTake, durable, outside
<1>11. ASSUME NEW w \in Workers, Crash(w) \/ Kill(w) PROVE FileInv'
  <2> DEFINE T == {t \in Tx : at[t] = w /\ pc[t] \in Running \cup {"queued"}}
  <2>1. End(T) /\ T \in SUBSET Tx /\ UNCHANGED durable /\ UNCHANGED outside
    BY <1>11 DEF Crash, Kill, Dies
  <2> HIDE DEF T
  <2> QED BY <1>0, <2>1, FilesEnd
<1> QED BY <1>1, <1>2, <1>3, <1>4, <1>5, <1>6, <1>7, <1>8, <1>9, <1>10, <1>11 DEF Next

\* The signed XML of a committed operation stays its own: another document of the
\* number takes the file only if two workers had looked for it before either wrote it.
THEOREM SignedFileKeptHolds == Spec => []SignedFileKept
<1>1. Init => FileInv
  <2>1. ASSUME Init PROVE /\ \A o \in Ops : ~Exists(db[o])
                          /\ \A s \in Submits : ~Holds(s) /\ ~Writing(s)
    BY <2>1, TxKinds DEF Init, Exists, NoRow, Holds, Writing, Locking
  <2> QED BY <2>1 DEF FileInv, Written
<1>2. FileInv => SignedFileKept
  BY DEF FileInv, SignedFileKept, KeepsFile, Raced
<1> QED BY <1>1, <1>2, FileNext, SafetyHolds, PTL DEF Spec
=============================================================================

------------------------- MODULE FiscalLedgerProofs -------------------------
(* FiscalOperation implements FiscalLedger, for every value of its constants. *)
EXTENDS FiscalOperationProofs

\* What row says of its invoice is what DGII said of the invoice's submission.
Told(row) == row.invEstado \in {"EN_PROCESO", received[row.invTrack]}

\* A retry or a status check writes the row it found, invoice included.
Keeps(t) ==
  Holds(t) => /\ Exists(db[target[t]]) /\ work[t].invTrack = db[target[t]].invTrack
              /\ Told(work[t])

\* A charge is the end of its submission.
SubmitEnds(s) ==
  /\ s \in usage => pc[s] = "done"
  /\ pc[s] = "commit" => work[s].invEstado = "EN_PROCESO"

\* A check was told of its own submission, and syncs what DGII accepted.
JobTold(s) ==
  /\ answer[Job(s)] # None => answer[Job(s)] \in {"EN_PROCESO", received[s]}
  /\ pc[Job(s)] = "blocked" => answer[Job(s)] # None
  /\ pc[Job(s)] = "odoo" => map_remote_status(answer[Job(s)]) \in AcceptedStates

RetryIdle(r) == pc[r] = "idle" => target[r] = None

LedgerInv ==
  /\ InvoiceIsDgiis /\ OnlyAcceptedInBooks
  /\ \A s \in Submits : SubmitEnds(s) /\ JobTold(s)
  /\ \A r \in Retries : RetryIdle(r)
  /\ \A t \in Retries \cup Jobs : Keeps(t)

----------------------------------------------------------------------------
\* What a step leaves alone.

\* What DGII said of a submission it goes on saying, until it decides.
LEMMA ToldKept ==
  ASSUME TypeInv, Advance, NEW s \in Submits, received[s] # None,
         NEW e, e \in {"EN_PROCESO", received[s]}
  PROVE  e \in {"EN_PROCESO", received'[s]}
<1>1. received[s] \in FinalAnswers \/ received[s] = "EN_PROCESO"
  BY DEF TypeInv, TypeOK, Answers
<1> QED BY <1>1 DEF Advance

\* The books stay sound while Odoo's moves stay as they are.
LEMMA BooksKept ==
  ASSUME TypeInv, OnlyAcceptedInBooks, Advance, UNCHANGED moves,
         \A r \in Retries : target[r] # None => target'[r] = target[r]
  PROVE  OnlyAcceptedInBooks'
<1> SUFFICES ASSUME NEW o \in Ops, moves[o] > 0, \A r \in Retries : target'[r] # o
             PROVE  \E s \in Submits : target'[s] = o /\ map_remote_status(received'[s]) \in AcceptedStates
  BY DEF OnlyAcceptedInBooks
<1>1. \A r \in Retries : target[r] # o
  BY OpNotNone
<1>2. PICK s \in Submits : target[s] = o /\ map_remote_status(received[s]) \in AcceptedStates
  BY <1>1 DEF OnlyAcceptedInBooks
<1>3. received[s] \in FinalAnswers /\ target[s] # None
  BY <1>2, FinalAnswer, OpNotNone DEF FINAL_OPERATION_STATES
<1> QED BY <1>2, <1>3 DEF Advance

\* A transaction that takes no part in a step, or ends in it.
LEMMA OthersTold ==
  ASSUME TypeInv, DataInv, LedgerInv, Advance
  PROVE  /\ \A s \in Submits : Ended(s) \/ (Same(s) /\ (s \in usage' => s \in usage))
                                 => SubmitEnds(s)'
         /\ \A s \in Submits : Same(Job(s)) \/ Ended(Job(s)) => JobTold(s)'
         /\ \A r \in Retries : Same(r) \/ Ended(r) => RetryIdle(r)'
         /\ \A t \in Retries \cup Jobs :
              Ended(t) \/ (Same(t) /\ (Holds(t) => db'[target[t]] = db[target[t]])) => Keeps(t)'
<1>1. ASSUME NEW s \in Submits, Ended(s) \/ (Same(s) /\ (s \in usage' => s \in usage))
      PROVE  SubmitEnds(s)'
  BY <1>1 DEF LedgerInv, SubmitEnds, Same, Ended
<1>2. ASSUME NEW s \in Submits, Same(Job(s)) \/ Ended(Job(s))
      PROVE  JobTold(s)'
  <2>1. CASE Ended(Job(s))
    BY <2>1 DEF Ended, JobTold
  <2>2. CASE Same(Job(s))
    <3>1. JobTold(s)
      BY DEF LedgerInv
    <3>2. answer[Job(s)] # None => answer[Job(s)] \in {"EN_PROCESO", received'[s]}
      <4>1. CASE received[s] = None
        BY <3>1, <4>1 DEF JobTold
      <4>2. CASE received[s] # None
        BY <3>1, <4>2, ToldKept DEF JobTold
      <4> QED BY <4>1, <4>2
    <3> QED BY <2>2, <3>1, <3>2 DEF Same, JobTold
  <2> QED BY <1>2, <2>1, <2>2
<1>3. ASSUME NEW r \in Retries, Same(r) \/ Ended(r) PROVE RetryIdle(r)'
  BY <1>3 DEF LedgerInv, RetryIdle, Same, Ended
<1>4. ASSUME NEW t \in Retries \cup Jobs,
             Ended(t) \/ (Same(t) /\ (Holds(t) => db'[target[t]] = db[target[t]]))
      PROVE  Keeps(t)'
  <2>1. CASE Ended(t)
    BY <2>1 DEF Ended, Keeps, Holds, Locking
  <2>2. CASE Same(t) /\ (Holds(t) => db'[target[t]] = db[target[t]])
    <3> SUFFICES ASSUME Holds(t)'
                 PROVE  (Exists(db[target[t]]) /\ work[t].invTrack = db[target[t]].invTrack
                          /\ Told(work[t]))'
      BY DEF Keeps
    <3>1. Holds(t) /\ work'[t] = work[t] /\ target'[t] = target[t] /\ db'[target[t]] = db[target[t]]
      BY <2>2 DEF Same, Holds
    <3>2. /\ Exists(db[target[t]]) /\ work[t].invTrack = db[target[t]].invTrack /\ Told(work[t])
          /\ Fed(work[t].invTrack, target[t])
      BY <3>1 DEF LedgerInv, Keeps, DataInv, WorkSound, Sound
    <3>3. work[t].invEstado \in {"EN_PROCESO", received'[work[t].invTrack]}
      BY <3>2, ToldKept DEF Told, Fed
    <3> QED BY <3>1, <3>2, <3>3 DEF Told, Exists
  <2> QED BY <1>4, <2>1, <2>2
<1> QED BY <1>1, <1>2, <1>3, <1>4

\* The committed rows keep what they say while they are not written.
LEMMA InvoiceKept ==
  ASSUME TypeInv, DataInv, InvoiceIsDgiis, Advance, UNCHANGED db
  PROVE  InvoiceIsDgiis'
<1> SUFFICES ASSUME NEW o \in Ops, Exists(db[o])
             PROVE  db[o].invEstado \in {"EN_PROCESO", received'[db[o].invTrack]}
  BY DEF InvoiceIsDgiis, Exists
<1>1. Fed(db[o].invTrack, o) /\ db[o].invEstado \in {"EN_PROCESO", received[db[o].invTrack]}
  BY DEF DataInv, RowsSound, Sound, InvoiceIsDgiis
<1> QED BY <1>1, ToldKept DEF Fed

\* A step that writes no row, in which only transactions of A go on.
LEMMA LocalTold ==
  ASSUME TypeInv, DataInv, LedgerInv, Advance, UNCHANGED durable, NEW A \in SUBSET Tx,
         \A t \in Tx \ A : Same(t) \/ Ended(t),
         \A s \in Submits \cap A : SubmitEnds(s)',
         \A s \in Submits : Job(s) \in A => JobTold(s)',
         \A r \in Retries \cap A : RetryIdle(r)',
         \A t \in (Retries \cup Jobs) \cap A : Keeps(t)',
         OnlyAcceptedInBooks'
  PROVE  LedgerInv'
<1>1. UNCHANGED <<db, usage>>
  BY DEF durable
<1>2. InvoiceIsDgiis'
  BY <1>1, InvoiceKept DEF LedgerInv
<1>3. ASSUME NEW s \in Submits PROVE SubmitEnds(s)' /\ JobTold(s)'
  BY <1>1, OthersTold, TxKinds
<1>4. ASSUME NEW r \in Retries PROVE RetryIdle(r)'
  BY OthersTold, TxKinds
<1>5. ASSUME NEW t \in Retries \cup Jobs PROVE Keeps(t)'
  BY <1>1, OthersTold, TxKinds
<1> QED BY <1>2, <1>3, <1>4, <1>5 DEF LedgerInv

----------------------------------------------------------------------------
\* Each action keeps the invariant.

\* Transactions that end without writing keep the invariant.
LEMMA EndTold ==
  ASSUME TypeInv, DataInv, LedgerInv, NEW T \in SUBSET Tx, End(T),
         UNCHANGED durable, UNCHANGED outside
  PROVE  LedgerInv'
<1>1. Advance /\ UNCHANGED moves /\ target' = target
  BY DEF Advance, End, durable, outside
<1>2. \A t \in Tx : Same(t) \/ Ended(t)
  BY DEF TypeInv, TypeOK, End, Same, Ended
<1>3. OnlyAcceptedInBooks'
  BY <1>1, BooksKept DEF LedgerInv
<1> DEFINE A == {}
<1>4. A \in SUBSET Tx /\ Tx \ A = Tx /\ Submits \cap A = {} /\ Retries \cap A = {}
      /\ (Retries \cup Jobs) \cap A = {} /\ \A u \in Submits : Job(u) \notin A
  OBVIOUS
<1> HIDE DEF A
<1> QED BY <1>1, <1>2, <1>3, <1>4, LocalTold

\* Steps of one transaction that write no row and create no move.
LEMMA SubmitToldLocal ==
  ASSUME TypeInv, DataInv, LedgerInv, Advance, UNCHANGED durable, NEW s \in Submits,
         \A t \in Tx : t # s => Same(t), UNCHANGED moves, SubmitEnds(s)'
  PROVE  LedgerInv'
<1> DEFINE A == {s}
<1>1. /\ A \in SUBSET Tx /\ Submits \cap A = {s} /\ Retries \cap A = {}
      /\ (Retries \cup Jobs) \cap A = {} /\ \A u \in Submits : Job(u) \notin A
      /\ \A t \in Tx \ A : Same(t)
  BY TxKinds, ActorKinds
<1>2. \A r \in Retries : target'[r] = target[r]
  BY TxKinds, ActorKinds DEF Same
<1>3. OnlyAcceptedInBooks'
  BY <1>2, BooksKept DEF LedgerInv
<1> HIDE DEF A
<1> QED BY <1>1, <1>3, LocalTold

LEMMA JobToldLocal ==
  ASSUME TypeInv, DataInv, LedgerInv, Advance, UNCHANGED durable, NEW s \in Submits,
         \A t \in Tx : t # Job(s) => Same(t), UNCHANGED moves, JobTold(s)', Keeps(Job(s))'
  PROVE  LedgerInv'
<1> DEFINE A == {Job(s)}
<1>1. /\ A \in SUBSET Tx /\ Submits \cap A = {} /\ Retries \cap A = {}
      /\ (Retries \cup Jobs) \cap A = {Job(s)}
      /\ \A u \in Submits : Job(u) \in A => u = s
      /\ \A t \in Tx \ A : Same(t)
  BY TxKinds, ActorKinds
<1>2. \A r \in Retries : target'[r] = target[r]
  BY TxKinds, ActorKinds DEF Same
<1>3. OnlyAcceptedInBooks'
  BY <1>2, BooksKept DEF LedgerInv
<1> HIDE DEF A
<1> QED BY <1>1, <1>3, LocalTold

LEMMA RetryToldLocal ==
  ASSUME TypeInv, DataInv, LedgerInv, Advance, UNCHANGED durable, NEW r \in Retries,
         \A t \in Tx : t # r => Same(t), UNCHANGED moves,
         target[r] # None => target'[r] = target[r], RetryIdle(r)', Keeps(r)'
  PROVE  LedgerInv'
<1> DEFINE A == {r}
<1>1. /\ A \in SUBSET Tx /\ Submits \cap A = {} /\ Retries \cap A = {r}
      /\ (Retries \cup Jobs) \cap A = {r}
      /\ \A u \in Submits : Job(u) \notin A
      /\ \A t \in Tx \ A : Same(t)
  BY TxKinds, ActorKinds
<1>2. \A q \in Retries : target[q] # None => target'[q] = target[q]
  BY TxKinds DEF Same
<1>3. OnlyAcceptedInBooks'
  BY <1>2, BooksKept DEF LedgerInv
<1> HIDE DEF A
<1> QED BY <1>1, <1>3, LocalTold

\* A step of a submission keeps the invariant: nothing but the commit charges.
LEMMA SubmitTold ==
  ASSUME TypeInv, DataInv, LedgerInv, NEW s \in Submits
  PROVE  /\ SubmitStep(s) => LedgerInv'
         /\ \A o \in Ops, w \in Workers : SubmitBegin(s, o, w) => LedgerInv'
<1> USE DEF TypeInv, TypeOK
<1>0. /\ s \in Tx /\ SubmitSound(s) /\ SubmitEnds(s) /\ s \notin Retries /\ s \notin Jobs
      /\ \A t \in Retries : t # s
  BY TxKinds, ActorKinds DEF DataInv, LedgerInv
<1>1. ASSUME NEW o \in Ops, NEW w \in Workers, SubmitBegin(s, o, w) PROVE LedgerInv'
  <2>1. Advance /\ UNCHANGED <<durable, moves, usage>>
    BY <1>0, <1>1 DEF SubmitBegin, Advance, SubmitSound, durable, outside
  <2>2. \A t \in Tx : t # s => Same(t)
    BY <1>1 DEF SubmitBegin, Same, local
  <2>3. SubmitEnds(s)'
    BY <1>0, <1>1, <2>1 DEF SubmitBegin, SubmitEnds
  <2> HIDE DEF TypeInv
  <2> QED BY <2>1, <2>2, <2>3, SubmitToldLocal
<1>2. CASE SubmitSign(s)
  <2>1. Advance /\ UNCHANGED <<durable, moves, usage>>
    BY <1>0, <1>2 DEF SubmitSign, Signs, Advance, durable
  <2>2. \A t \in Tx : t # s => Same(t)
    BY <1>2 DEF SubmitSign, Signs, Same
  <2>3. SubmitEnds(s)'
    BY <1>0, <1>2, <2>1 DEF SubmitSign, Signs, SubmitEnds
  <2> HIDE DEF TypeInv
  <2> QED BY <2>1, <2>2, <2>3, SubmitToldLocal
<1>6. CASE SubmitStore(s)
  <2>1. Advance /\ UNCHANGED <<durable, moves, usage>>
    BY <1>0, <1>6 DEF SubmitStore, Advance, durable
  <2>2. \A t \in Tx : t # s => Same(t)
    BY <1>6 DEF SubmitStore, Same, local
  <2>3. SubmitEnds(s)'
    BY <1>0, <1>6, <2>1 DEF SubmitStore, SubmitEnds
  <2> HIDE DEF TypeInv
  <2> QED BY <2>1, <2>2, <2>3, SubmitToldLocal
<1>3. CASE SubmitFailsEarly(s) \/ SubmitFailsLate(s)
  <2>1. End({s}) /\ {s} \in SUBSET Tx /\ UNCHANGED durable /\ UNCHANGED outside
    BY <1>0, <1>3 DEF SubmitFailsEarly, SubmitFailsLate, Rollback
  <2> HIDE DEF TypeInv
  <2> QED BY <2>1, EndTold
<1>4. CASE SubmitSend(s)
  <2>1. Advance /\ UNCHANGED <<durable, moves, usage>>
    BY <1>0, <1>4, TxAssumption DEF SubmitSend, Advance, SubmitSound, durable, FinalAnswers, Answers
  <2>2. \A t \in Tx : t # s => Same(t)
    BY <1>4 DEF SubmitSend, Same
  <2>3. SubmitEnds(s)'
    BY <1>0, <1>4, <2>1 DEF SubmitSend, SubmitEnds
  <2> HIDE DEF TypeInv
  <2> QED BY <2>1, <2>2, <2>3, SubmitToldLocal
<1>5. CASE SubmitRegister(s)
  <2> DEFINE j == Job(s)
  <2>0. j \in Tx /\ j # s /\ j \notin Submits /\ j \notin Retries /\ work[s] \in Row /\ JobTold(s)
    BY <1>0, TxKinds, ActorKinds DEF LedgerInv, Requests
  <2>1. Advance /\ UNCHANGED <<durable, moves, usage, received>>
    BY <1>0, <1>5, <2>0, TxKinds DEF SubmitRegister, Advance, durable, outside
  <2>2. \A t \in Tx : t # s /\ t # j => Same(t)
    BY <1>5 DEF SubmitRegister, Same
  <2>3. SubmitEnds(s)'
    <3>1. work'[s].invEstado = answer[s] /\ pc'[s] = "commit" /\ s \notin usage
      BY <1>0, <1>5, <2>0 DEF SubmitRegister, SubmitEnds, Row
    <3> QED BY <1>0, <1>5, <2>1, <3>1 DEF SubmitRegister, SubmitSound, SubmitEnds
  <2>4. JobTold(s)' /\ Keeps(j)'
    BY <1>0, <1>5, <2>0, <2>1 DEF SubmitRegister, JobTold, Keeps, Holds, Locking
  <2>5. \A r \in Retries : target'[r] = target[r]
    BY <1>0, <2>0, <2>2, TxKinds DEF Same
  <2>6. OnlyAcceptedInBooks'
    BY <2>1, <2>5, BooksKept DEF LedgerInv
  <2> DEFINE A == {s, j}
  <2>7. /\ A \in SUBSET Tx /\ Submits \cap A = {s} /\ Retries \cap A = {}
        /\ (Retries \cup Jobs) \cap A = {j}
        /\ \A u \in Submits : Job(u) \in A => u = s
    BY <1>0, <2>0, ActorKinds, TxKinds
  <2> HIDE DEF TypeInv, j
  <2>8. \A t \in Tx \ A : Same(t)
    BY <2>2
  <2> HIDE DEF A
  <2> QED BY <2>1, <2>3, <2>4, <2>6, <2>7, <2>8, LocalTold
<1> QED BY <1>1, <1>2, <1>3, <1>4, <1>5, <1>6 DEF SubmitStep

\* A step of a retry keeps the invariant: it has the invoice of the row it found.
LEMMA RetryTold ==
  ASSUME TypeInv, DataInv, LedgerInv, NEW r \in Retries
  PROVE  /\ RetryStep(r) => LedgerInv'
         /\ \A o \in Ops, w \in Workers : RetryBegin(r, o, w) => LedgerInv'
<1> USE DEF TypeInv, TypeOK
<1>0. /\ r \in Tx /\ r \notin Submits /\ RetrySound(r) /\ RetryIdle(r) /\ Keeps(r)
      /\ pc[r] \in Running => target[r] \in Ops
  BY TxKinds, ActorKinds DEF DataInv, LedgerInv, Placed
<1>1. ASSUME NEW o \in Ops, NEW w \in Workers, RetryBegin(r, o, w) PROVE LedgerInv'
  <2>1. Advance /\ UNCHANGED <<durable, moves>>
    BY <1>0, <1>1 DEF RetryBegin, Advance, durable, outside
  <2>2. \A t \in Tx : t # r => Same(t)
    BY <1>1 DEF RetryBegin, Same, local
  <2>3. RetryIdle(r)' /\ Keeps(r)' /\ target[r] = None
    BY <1>0, <1>1 DEF RetryBegin, RetryIdle, Keeps, Holds, Locking
  <2> HIDE DEF TypeInv
  <2> QED BY <2>1, <2>2, <2>3, RetryToldLocal
<1>2. CASE RetryMark(r)
  <2> DEFINE o == target[r]
  <2>0. o \in Ops /\ db[o] \in Row /\ Exists(db[o]) /\ Told(db[o])
    BY <1>0, <1>2 DEF RetryMark, Running, RetrySound, LedgerInv, InvoiceIsDgiis, Told
  <2>1. Advance /\ UNCHANGED <<durable, moves, received, target>>
    BY <1>2 DEF RetryMark, Advance, durable, outside
  <2>2. \A t \in Tx : t # r => Same(t)
    BY <1>2 DEF RetryMark, Same
  <2>3. work'[r].invTrack = db[o].invTrack /\ work'[r].invEstado = db[o].invEstado
    BY <1>0, <1>2, <2>0 DEF RetryMark, Row
  <2>4. RetryIdle(r)' /\ Keeps(r)'
    BY <1>0, <1>2, <2>0, <2>1, <2>3 DEF RetryMark, RetryIdle, Keeps, Told, durable, Exists
  <2> HIDE DEF TypeInv
  <2> QED BY <2>1, <2>2, <2>4, RetryToldLocal
<1>3. CASE RetryQuery(r)
  <2>1. Advance /\ UNCHANGED <<durable, moves, received, target>>
    BY <1>3 DEF RetryQuery, Advance, durable, outside
  <2>2. \A t \in Tx : t # r => Same(t)
    BY <1>3 DEF RetryQuery, Same
  <2>3. RetryIdle(r)' /\ Keeps(r)'
    BY <1>0, <1>3, <2>1 DEF RetryQuery, RetryIdle, Keeps, Told, durable, Exists, Holds, Locking
  <2> HIDE DEF TypeInv
  <2> QED BY <2>1, <2>2, <2>3, RetryToldLocal
<1>4. CASE RetryFails(r)
  <2>1. End({r}) /\ {r} \in SUBSET Tx /\ UNCHANGED durable /\ UNCHANGED outside
    BY <1>0, <1>4 DEF RetryFails, Rollback
  <2> HIDE DEF TypeInv
  <2> QED BY <2>1, EndTold
<1>5. CASE RetryApply(r)
  <2>1. Advance /\ UNCHANGED <<durable, moves, received, target>>
    BY <1>5 DEF RetryApply, Advance, durable, outside
  <2>2. \A t \in Tx : t # r => Same(t)
    BY <1>5 DEF RetryApply, Same
  <2>3. work'[r].invTrack = work[r].invTrack /\ work'[r].invEstado = work[r].invEstado
    BY <1>0, <1>5 DEF RetryApply, Row
  <2>4. RetryIdle(r)' /\ Keeps(r)'
    BY <1>0, <1>5, <2>1, <2>3 DEF RetryApply, RetryIdle, Keeps, Told, durable, Exists, Holds, Locking
  <2> HIDE DEF TypeInv
  <2> QED BY <2>1, <2>2, <2>4, RetryToldLocal
<1> QED BY <1>1, <1>2, <1>3, <1>4, <1>5 DEF RetryStep

\* Taking a check off the queue keeps the invariant.
LEMMA TakeTold ==
  ASSUME TypeInv, DataInv, LedgerInv, NEW w \in Workers, PollTake(w)
  PROVE  LedgerInv'
<1> USE DEF TypeInv, TypeOK
<1>1. PICK s \in Submits : s = Head(queue[w])
  BY DEF PollTake
<1>2. Job(s) \in Tx /\ JobTold(s)
  BY TxKinds DEF LedgerInv
<1>3. pc' = [pc EXCEPT ![Job(s)] = "fetching"] /\ UNCHANGED <<durable, outside, at, target, local>>
  BY <1>1 DEF PollTake
<1>4. Advance /\ UNCHANGED <<durable, moves, received>>
  BY <1>3 DEF Advance, durable, outside
<1>5. \A t \in Tx : t # Job(s) => Same(t)
  BY <1>3 DEF Same, local
<1>6. JobTold(s)' /\ Keeps(Job(s))'
  BY <1>2, <1>3, <1>4 DEF JobTold, Keeps, Holds, Locking, local
<1> HIDE DEF TypeInv
<1> QED BY <1>4, <1>5, <1>6, JobToldLocal

\* A step of a status check keeps the invariant: it tells the invoice of its own
\* submission and no other.
LEMMA PollTold ==
  ASSUME TypeInv, DataInv, LedgerInv, NEW s \in Submits, PollStep(s)
  PROVE  LedgerInv'
<1> USE DEF TypeInv, TypeOK
<1> DEFINE j == Job(s)
<1>0. /\ j \in Tx /\ j \in Retries \cup Jobs /\ JobTold(s) /\ Keeps(j) /\ JobSound(s)
      /\ pc[j] \in Running => target[j] \in Ops /\ target[j] # None
  BY TxKinds, OpNotNone DEF DataInv, LedgerInv, Placed
<1>1. CASE PollFetch(s)
  <2>1. Advance /\ UNCHANGED <<durable, moves, received>>
    BY <1>1 DEF PollFetch, Advance, durable, outside
  <2>2. \A t \in Tx : t # j => Same(t)
    BY <1>1 DEF PollFetch, Same
  <2>3. JobTold(s)' /\ Keeps(j)'
    BY <1>0, <1>1, <2>1 DEF PollFetch, JobTold, Keeps, Holds, Locking
  <2> HIDE DEF TypeInv
  <2> QED BY <2>1, <2>2, <2>3, JobToldLocal
<1>2. CASE PollDrops(s)
  <2>1. End({j}) /\ {j} \in SUBSET Tx /\ UNCHANGED durable /\ UNCHANGED outside
    BY <1>0, <1>2 DEF PollDrops, Rollback
  <2> HIDE DEF TypeInv
  <2> QED BY <2>1, EndTold
<1>3. CASE PollRead(s)
  <2>1. Advance /\ UNCHANGED <<durable, moves, received>>
    BY <1>3 DEF PollRead, Advance, durable, outside
  <2>2. \A t \in Tx : t # j => Same(t)
    BY <1>3 DEF PollRead, Same
  <2>3. JobTold(s)' /\ Keeps(j)'
    BY <1>0, <1>3, <2>1 DEF PollRead, JobTold, Keeps, Holds, Locking
  <2> HIDE DEF TypeInv
  <2> QED BY <2>1, <2>2, <2>3, JobToldLocal
<1>4. CASE PollApply(s)
  <2> DEFINE o == target[j]
  <2>0. /\ o \in Ops /\ db[o] \in Row /\ Exists(db[o]) /\ Told(db[o])
        /\ answer[j] \in {"EN_PROCESO", received[s]}
    BY <1>0, <1>4 DEF PollApply, Running, JobSound, JobTold, LedgerInv, InvoiceIsDgiis, Told
  <2>1. Advance /\ UNCHANGED <<durable, moves, received, target, answer>>
    BY <1>4 DEF PollApply, Advance, durable, outside
  <2>2. \A t \in Tx : t # j => Same(t)
    BY <1>4 DEF PollApply, Same
  <2>3. /\ work'[j].invTrack = db[o].invTrack
        /\ work'[j].invEstado = IF db[o].invTrack = s THEN answer[j] ELSE db[o].invEstado
    BY <1>0, <1>4, <2>0 DEF PollApply, Row
  <2>4. work'[j].invEstado \in {"EN_PROCESO", received'[work'[j].invTrack]}
    BY <2>0, <2>1, <2>3 DEF Told
  <2>5. Keeps(j)'
    BY <2>0, <2>1, <2>3, <2>4 DEF Keeps, Told, durable, Exists
  <2>6. /\ pc'[j] \in {"odoo", "commit"}
        /\ pc'[j] = "odoo" => map_remote_status(answer[j]) \in AcceptedStates
    BY <1>0, <1>4 DEF PollApply
  <2>7. JobTold(s)'
    BY <2>0, <2>1, <2>6 DEF JobTold
  <2> HIDE DEF TypeInv
  <2> QED BY <2>1, <2>2, <2>5, <2>7, JobToldLocal
<1> QED BY <1>1, <1>2, <1>3, <1>4 DEF PollStep

\* A synchronisation with Odoo keeps the invariant: unless a retry works on the
\* document, DGII has accepted it.
LEMMA SyncTold ==
  ASSUME TypeInv, DataInv, LedgerInv, NEW t \in Tx, OdooSync(t)
  PROVE  LedgerInv'
<1> USE DEF TypeInv, TypeOK
<1> DEFINE o == target[t]
<1>0. /\ t \notin Submits /\ t \in Retries \cup Jobs /\ pc[t] = "odoo" /\ work[t] \in Row
      /\ o \in Ops /\ Keeps(t) /\ AnswerSound(t)
  BY DEF OdooSync, DataInv, SubmitSound, LedgerInv, Tx, Requests, Placed, Running, Locking
<1>1. /\ pc' = [pc EXCEPT ![t] = "commit"] /\ UNCHANGED <<durable, received, target, seen, answer>>
      /\ UNCHANGED <<db, usage>>
      /\ \A u \in Tx : u # t => work'[u] = work[u]
      /\ \A p \in Ops : moves[p] > 0 => moves'[p] > 0
      /\ \A p \in Ops : p # o => moves'[p] = moves[p]
  BY <1>0 DEF OdooSync, durable
<1>2. Advance
  BY <1>1 DEF Advance
<1>3. \A u \in Tx : u # t => Same(u)
  BY <1>1 DEF Same
<1>4. work'[t].invTrack = work[t].invTrack /\ work'[t].invEstado = work[t].invEstado
  BY <1>0 DEF OdooSync, Row
<1>5. Keeps(t)'
  BY <1>0, <1>1, <1>4 DEF Keeps, Told, Holds, Locking, Exists
<1>6. OnlyAcceptedInBooks'
  <2> SUFFICES ASSUME NEW p \in Ops, moves'[p] > 0, \A r \in Retries : target[r] # p
               PROVE  \E s \in Submits : target[s] = p /\ map_remote_status(received[s]) \in AcceptedStates
    BY <1>1 DEF OnlyAcceptedInBooks
  <2>1. CASE p # o
    BY <1>1, <2>1 DEF LedgerInv, OnlyAcceptedInBooks
  <2>2. CASE p = o
    <3>1. PICK s \in Submits : t = Job(s)
      BY <1>0, <2>2, ActorKinds
    <3>2. map_remote_status(answer[t]) \in AcceptedStates
      BY <1>0, <3>1 DEF LedgerInv, JobTold
    <3> QED BY <1>0, <2>2, <3>2, FinalAnswer DEF AnswerSound, Fed, FINAL_OPERATION_STATES
  <2> QED BY <2>1, <2>2
<1>7. \A s \in Submits : t = Job(s) => JobTold(s)'
  BY <1>0, <1>1 DEF LedgerInv, JobTold
<1>8. \A r \in Retries : t = r => RetryIdle(r)'
  BY <1>0, <1>1 DEF RetryIdle
<1> DEFINE A == {t}
<1>9. /\ A \in SUBSET Tx /\ Submits \cap A = {}
      /\ \A u \in Tx \ A : Same(u)
      /\ \A s \in Submits : Job(s) \in A => JobTold(s)'
      /\ \A r \in Retries \cap A : RetryIdle(r)'
      /\ \A u \in (Retries \cup Jobs) \cap A : Keeps(u)'
  BY <1>0, <1>3, <1>5, <1>7, <1>8
<1> HIDE DEF TypeInv, A
<1> QED BY <1>1, <1>2, <1>6, <1>9, LocalTold

\* A commit keeps the invariant: the row it writes says what DGII said.
LEMMA CommitTold ==
  ASSUME TypeInv, OneInFlight, DataInv, LedgerInv, NEW t \in Tx, Commit(t)
  PROVE  LedgerInv'
<1> USE DEF TypeInv, TypeOK
<1>1. CASE Rollback(t)
  <2>1. End({t}) /\ {t} \in SUBSET Tx /\ UNCHANGED durable /\ UNCHANGED outside
    BY <1>1 DEF Rollback
  <2> HIDE DEF TypeInv
  <2> QED BY <2>1, EndTold
<1>2. CASE /\ db' = [db EXCEPT ![target[t]] = work[t]]
           /\ usage' = IF t \in Submits THEN usage \cup {t} ELSE usage
           /\ End({t}) /\ UNCHANGED <<outside, queue, crashes>>
  <2> DEFINE o == target[t]
  <2>0. /\ pc[t] = "commit" /\ o \in Ops /\ work[t] \in Row /\ Holds(t)
        /\ UNCHANGED <<moves, received, target>>
    BY <1>2 DEF Commit, Placed, Running, Locking, Holds, End, outside
  <2>1. Exists(work[t]) /\ Told(work[t])
    <3>1. CASE t \in Submits
      BY <2>0, <3>1 DEF DataInv, SubmitSound, Draft, LedgerInv, SubmitEnds, Told
    <3>2. CASE t \notin Submits
      BY <2>0, <3>2 DEF DataInv, WorkSound, Sound, LedgerInv, Keeps, Tx, Requests
    <3> QED BY <3>1, <3>2
  <2>2. Advance
    BY <1>2, <2>0, <2>1 DEF Advance, Exists
  <2>3. \A u \in Tx : u # t => Same(u)
    BY <1>2 DEF End, Same
  <2>4. Ended(t)
    BY <1>2 DEF End, Ended
  <2>5. InvoiceIsDgiis'
    <3> SUFFICES ASSUME NEW p \in Ops, Exists(db'[p])
                 PROVE  db'[p].invEstado \in {"EN_PROCESO", received[db'[p].invTrack]}
      BY <2>0 DEF InvoiceIsDgiis, Exists
    <3>1. CASE p = o
      BY <1>2, <2>0, <2>1, <3>1 DEF Told
    <3>2. CASE p # o
      BY <1>2, <2>0, <3>2 DEF LedgerInv, InvoiceIsDgiis
    <3> QED BY <3>1, <3>2
  <2>6. OnlyAcceptedInBooks'
    BY <2>0, <2>2, BooksKept DEF LedgerInv
  <2>7. ASSUME NEW u \in Retries \cup Jobs PROVE Keeps(u)'
    <3>1. CASE u = t
      BY <2>4, <3>1 DEF Ended, Keeps, Holds, Locking
    <3>2. CASE u # t
      <4>1. u \in Tx /\ (Holds(u) => target[u] # o /\ db'[target[u]] = db[target[u]])
        BY <1>2, <2>0, <3>2, TxKinds DEF OneInFlight
      <4> QED BY <2>2, <2>3, <3>2, <4>1, OthersTold
    <3> QED BY <3>1, <3>2
  <2> HIDE DEF TypeInv
  <2>8. ASSUME NEW s \in Submits PROVE SubmitEnds(s)' /\ JobTold(s)'
    <3>1. s \in Tx /\ Job(s) \in Tx /\ (s # t => (s \in usage' => s \in usage))
      BY <1>2, TxKinds
    <3> QED BY <2>2, <2>3, <2>4, <3>1, OthersTold
  <2>9. ASSUME NEW r \in Retries PROVE RetryIdle(r)'
    BY <2>2, <2>3, <2>4, OthersTold, TxKinds
  <2> QED BY <2>5, <2>6, <2>7, <2>8, <2>9 DEF LedgerInv
<1> QED BY <1>1, <1>2 DEF Commit

\* A decision of DGII keeps the invariant: what it said before was in process.
LEMMA DgiiTold ==
  ASSUME TypeInv, DataInv, LedgerInv, NEW s \in Submits, DgiiDecides(s)
  PROVE  LedgerInv'
<1> USE DEF TypeInv, TypeOK
<1>1. None \notin Answers /\ received[s] # None
  BY TxAssumption DEF DgiiDecides, Answers
<1>2. Advance /\ UNCHANGED <<durable, moves, target>>
  BY <1>1, VerdictsAssumption DEF DgiiDecides, Advance, Answers, FinalAnswers, durable
<1>3. \A t \in Tx : Same(t)
  BY DEF DgiiDecides, Same, local
<1>4. OnlyAcceptedInBooks'
  BY <1>2, BooksKept DEF LedgerInv
<1> HIDE DEF TypeInv
<1> DEFINE A == {}
<1>5. A \in SUBSET Tx /\ Tx \ A = Tx /\ Submits \cap A = {} /\ Retries \cap A = {}
      /\ (Retries \cup Jobs) \cap A = {} /\ \A u \in Submits : Job(u) \notin A
  OBVIOUS
<1> HIDE DEF A
<1> QED BY <1>2, <1>3, <1>4, <1>5, LocalTold

\* The invariant holds at first.
LEMMA LedgerInit == Init => LedgerInv
<1> SUFFICES ASSUME Init PROVE LedgerInv
  OBVIOUS
<1>1. InvoiceIsDgiis /\ OnlyAcceptedInBooks
  BY DEF Init, InvoiceIsDgiis, OnlyAcceptedInBooks, Exists, NoRow
<1>2. ASSUME NEW s \in Submits PROVE SubmitEnds(s) /\ JobTold(s)
  BY TxKinds DEF Init, SubmitEnds, JobTold
<1>3. ASSUME NEW r \in Retries PROVE RetryIdle(r)
  BY TxKinds DEF Init, RetryIdle
<1>4. ASSUME NEW t \in Retries \cup Jobs PROVE Keeps(t)
  BY TxKinds DEF Init, Keeps, Holds, Locking
<1> QED BY <1>1, <1>2, <1>3, <1>4 DEF LedgerInv

\* Every step keeps the invariant.
LEMMA LedgerNext == SafetyInv /\ LedgerInv /\ [Next]_vars => LedgerInv'
<1> SUFFICES ASSUME TypeInv, OneInFlight, DataInv, LedgerInv, [Next]_vars PROVE LedgerInv'
  BY DEF SafetyInv
<1>1. CASE UNCHANGED vars
  <2>1. UNCHANGED <<db, usage, moves, received, pc, target, work, answer>>
    BY <1>1 DEF vars, durable, outside, local
  <2> QED BY <2>1
       DEF LedgerInv, InvoiceIsDgiis, OnlyAcceptedInBooks, SubmitEnds, JobTold, RetryIdle, Keeps,
           Holds, Told, Exists
<1>2. ASSUME NEW w \in Workers, Crash(w) \/ Kill(w) PROVE LedgerInv'
  <2> DEFINE T == {t \in Tx : at[t] = w /\ pc[t] \in Running \cup {"queued"}}
  <2>1. End(T) /\ T \in SUBSET Tx /\ UNCHANGED durable /\ UNCHANGED outside
    BY <1>2 DEF Crash, Kill, Dies
  <2> QED BY <2>1, EndTold
<1> QED BY <1>1, <1>2, SubmitTold, RetryTold, TakeTold, PollTold, SyncTold, CommitTold, DgiiTold
     DEF Next

\* Both inductive invariants hold of every behaviour.
LEMMA LedgerHolds == Spec => [](SafetyInv /\ LedgerInv)
<1>1. Spec => []SafetyInv
  BY SafetyHolds
<1>2. Init => LedgerInv
  BY LedgerInit
<1>3. SafetyInv /\ LedgerInv /\ [Next]_vars => LedgerInv'
  BY LedgerNext
<1> QED BY <1>1, <1>2, <1>3, PTL DEF Spec

\* The answer on an invoice is one DGII gave to the submission whose track id
\* the invoice carries, whatever other submissions and checks there are.
THEOREM InvoiceIsDgiisHolds == Spec => []InvoiceIsDgiis
<1>1. LedgerInv => InvoiceIsDgiis
  BY DEF LedgerInv
<1> QED BY <1>1, LedgerHolds, PTL

\* Only documents DGII accepted get a move in Odoo, as long as nobody retries.
THEOREM OnlyAcceptedInBooksHolds == Spec => []OnlyAcceptedInBooks
<1>1. LedgerInv => OnlyAcceptedInBooks
  BY DEF LedgerInv
<1> QED BY <1>1, LedgerHolds, PTL

----------------------------------------------------------------------------
\* A submission is checked once, and a verdict on its invoice is the check's.

Early == {"idle", "blocked", "signing", "sending", "answered"}

\* The check of a submission is queued when it registers, on one worker's queue
\* and once.
Queued(w) ==
  \A i \in 1..Len(queue[w]) :
    /\ pc[Job(queue[w][i])] = "queued" /\ at[Job(queue[w][i])] = w
    /\ \A k \in 1..Len(queue[w]) : queue[w][k] = queue[w][i] => k = i

QueueInv ==
  /\ \A w \in Workers : Queued(w)
  /\ \A s \in Submits : pc[s] \in Early => pc[Job(s)] = "idle"

\* What most steps do to the checks: those under way may go on.
ChecksWait ==
  /\ UNCHANGED queue
  /\ \A s \in Submits :
       /\ pc[Job(s)] \notin Running => pc'[Job(s)] = pc[Job(s)] /\ at'[Job(s)] = at[Job(s)]
       /\ pc'[s] \in Early => pc[s] \in Early

\* Transactions that end otherwise than by a death let the queued checks wait.
LEMMA EndWaits ==
  ASSUME TypeInv, NEW t \in Tx, End({t}), pc[t] \in Running, UNCHANGED queue
  PROVE  ChecksWait
BY TxKinds DEF TypeInv, TypeOK, End, ChecksWait, Early, Running, Locking

\* Only a submission that registers, the consumer and a death change the queues.
LEMMA QueueSteps ==
  ASSUME TypeInv, [Next]_vars
  PROVE  \/ ChecksWait
         \/ \E s \in Submits : SubmitRegister(s)
         \/ \E w \in Workers : PollTake(w) \/ Dies(w)
<1> USE DEF TypeInv, TypeOK, ChecksWait, Early
<1>1. CASE UNCHANGED vars
  BY <1>1 DEF vars
<1>2. ASSUME NEW s \in Submits, NEW o \in Ops, NEW w \in Workers, SubmitBegin(s, o, w)
      PROVE  ChecksWait
  BY <1>2, TxKinds, ActorKinds DEF SubmitBegin
<1>3. ASSUME NEW s \in Submits, SubmitStep(s), ~SubmitRegister(s) PROVE ChecksWait
  <2>0. s \in Tx
    BY TxKinds
  <2>1. CASE SubmitFailsEarly(s) \/ SubmitFailsLate(s)
    BY <2>0, <2>1, EndWaits DEF SubmitFailsEarly, SubmitFailsLate, Rollback, Running, Locking
  <2>2. CASE SubmitSign(s) \/ SubmitStore(s) \/ SubmitSend(s)
    BY <2>2, TxKinds DEF SubmitSign, Signs, SubmitStore, SubmitSend
  <2> QED BY <1>3, <2>1, <2>2 DEF SubmitStep
<1>4. ASSUME NEW s \in Submits, PollStep(s) PROVE ChecksWait
  <2>0. Job(s) \in Tx /\ Job(s) \notin Submits
    BY TxKinds, ActorKinds
  <2>1. CASE PollDrops(s)
    BY <2>0, <2>1, EndWaits DEF PollDrops, Rollback, Running, Locking
  <2>2. CASE PollFetch(s) \/ PollRead(s) \/ PollApply(s)
    BY <2>0, <2>2, TxKinds DEF PollFetch, PollRead, PollApply, Running, Locking
  <2> QED BY <1>4, <2>1, <2>2 DEF PollStep
<1>5. ASSUME NEW s \in Submits, DgiiDecides(s) PROVE ChecksWait
  BY <1>5 DEF DgiiDecides
<1>6. ASSUME NEW r \in Retries, NEW o \in Ops, NEW w \in Workers, RetryBegin(r, o, w)
      PROVE  ChecksWait
  BY <1>6, TxKinds, ActorKinds DEF RetryBegin
<1>7. ASSUME NEW r \in Retries, RetryStep(r) PROVE ChecksWait
  <2>0. r \in Tx
    BY TxKinds
  <2>1. CASE RetryFails(r)
    BY <2>0, <2>1, EndWaits DEF RetryFails, Rollback, Running, Locking
  <2>2. CASE RetryMark(r) \/ RetryQuery(r) \/ RetryApply(r)
    BY <2>2, TxKinds, ActorKinds DEF RetryMark, RetryQuery, RetryApply
  <2> QED BY <1>7, <2>1, <2>2 DEF RetryStep
<1>8. ASSUME NEW t \in Tx, Commit(t) PROVE ChecksWait
  BY <1>8, EndWaits DEF Commit, Rollback, Running, Locking
<1>9. ASSUME NEW t \in Tx, OdooSync(t) PROVE ChecksWait
  BY <1>9, TxKinds DEF OdooSync, Running, Locking
<1>10. ASSUME NEW w \in Workers, Crash(w) \/ Kill(w) PROVE Dies(w)
  BY <1>10 DEF Crash, Kill
<1> HIDE DEF TypeInv, ChecksWait
<1> QED BY <1>1, <1>2, <1>3, <1>4, <1>5, <1>6, <1>7, <1>8, <1>9, <1>10 DEF Next

\* Every step keeps the queues free of checks that are over.
LEMMA QueueNext ==
  ASSUME TypeInv, QueueInv, [Next]_vars
  PROVE  QueueInv'
<1> USE DEF TypeInv, TypeOK
<1>0. \A w \in Workers : \A i \in 1..Len(queue[w]) : queue[w][i] \in Submits
  OBVIOUS
<1>1. CASE ChecksWait
  <2>1. \A w \in Workers : Queued(w)'
    BY <1>0, <1>1 DEF QueueInv, Queued, ChecksWait, Running, Locking
  <2>2. \A s \in Submits : pc'[s] \in Early => pc'[Job(s)] = "idle"
    BY <1>1 DEF QueueInv, ChecksWait, Running, Locking
  <2> QED BY <2>1, <2>2 DEF QueueInv
<1>2. ASSUME NEW s \in Submits, SubmitRegister(s) PROVE QueueInv'
  <2> DEFINE j == Job(s)
  <2>0. /\ s \in Tx /\ j \in Tx /\ pc[j] = "idle" /\ pc[s] = "answered"
        /\ at[s] \in Workers
        /\ \A u \in Submits : Job(u) \in Tx /\ Job(u) # s /\ u # j /\ (Job(u) = j => u = s)
    BY <1>2, TxKinds, ActorKinds DEF QueueInv, SubmitRegister, Early, Placed, Running, Locking
  <2>1. /\ pc' = [pc EXCEPT ![s] = "commit", ![j] = "queued"]
        /\ at' = [at EXCEPT ![j] = at[s]]
        /\ queue' = [queue EXCEPT ![at[s]] = Append(@, s)]
    BY <1>2 DEF SubmitRegister
  <2> HIDE DEF j
  <2>2. \A w \in Workers : \A i \in 1..Len(queue[w]) : queue[w][i] # s
    BY <1>0, <2>0 DEF QueueInv, Queued, j
  <2>3. ASSUME NEW w \in Workers PROVE Queued(w)'
    <3>1. \A i \in 1..Len(queue[w]) :
            /\ queue[w][i] \in Submits /\ queue[w][i] # s
            /\ pc'[Job(queue[w][i])] = "queued" /\ at'[Job(queue[w][i])] = w
      BY <1>0, <2>0, <2>1, <2>2 DEF QueueInv, Queued
    <3>2. CASE w # at[s]
      <4>1. queue'[w] = queue[w]
        BY <2>1, <3>2
      <4>2. \A i, k \in 1..Len(queue[w]) : queue[w][k] = queue[w][i] => k = i
        BY DEF QueueInv, Queued
      <4> QED BY <3>1, <4>1, <4>2 DEF Queued
    <3>3. CASE w = at[s]
      <4>1. queue'[w] = Append(queue[w], s) /\ queue[w] \in Seq(Submits)
        BY <2>0, <2>1, <3>3
      <4>2. /\ Len(queue'[w]) = Len(queue[w]) + 1 /\ Len(queue[w]) \in Nat
            /\ \A i \in 1..Len(queue[w]) : queue'[w][i] = queue[w][i]
            /\ queue'[w][Len(queue[w]) + 1] = s
        BY <4>1
      <4>3. pc'[Job(s)] = "queued" /\ at'[Job(s)] = w
        BY <2>0, <2>1, <3>3 DEF j
      <4>4. \A i, k \in 1..Len(queue[w]) : queue[w][k] = queue[w][i] => k = i
        BY DEF QueueInv, Queued
      <4>5. \A i \in 1..Len(queue'[w]) : i \in 1..Len(queue[w]) \/ i = Len(queue[w]) + 1
        BY <4>2
      <4>6. ASSUME NEW i \in 1..Len(queue'[w])
            PROVE  pc'[Job(queue'[w][i])] = "queued" /\ at'[Job(queue'[w][i])] = w
        BY <3>1, <4>2, <4>3, <4>5
      <4>7. ASSUME NEW i \in 1..Len(queue'[w]), NEW k \in 1..Len(queue'[w]),
                   queue'[w][k] = queue'[w][i]
            PROVE  k = i
        <5>1. CASE i \in 1..Len(queue[w]) /\ k \in 1..Len(queue[w])
          BY <4>2, <4>4, <4>7, <5>1
        <5>2. CASE i \notin 1..Len(queue[w]) \/ k \notin 1..Len(queue[w])
          BY <3>1, <4>2, <4>5, <4>7, <5>2
        <5> QED BY <5>1, <5>2
      <4> QED BY <4>6, <4>7 DEF Queued
    <3> QED BY <3>2, <3>3
  <2>4. \A u \in Submits : pc'[u] \in Early => pc'[Job(u)] = "idle"
    BY <2>0, <2>1, TxKinds DEF QueueInv, Early, j
  <2> QED BY <2>3, <2>4 DEF QueueInv
<1>3. ASSUME NEW w \in Workers, PollTake(w) PROVE QueueInv'
  <2>1. PICK s \in Submits : s = Head(queue[w])
    BY <1>3 DEF PollTake
  <2>2. /\ pc' = [pc EXCEPT ![Job(s)] = "fetching"] /\ UNCHANGED at
        /\ queue' = [queue EXCEPT ![w] = Tail(@)]
        /\ queue[w] # <<>> /\ queue[w] \in Seq(Submits)
    BY <1>3, <2>1 DEF PollTake
  <2>3. /\ Len(queue[w]) \in Nat /\ Len(queue[w]) >= 1 /\ queue[w][1] = s
        /\ Len(Tail(queue[w])) = Len(queue[w]) - 1
        /\ \A i \in 1..Len(Tail(queue[w])) : Tail(queue[w])[i] = queue[w][i + 1]
    BY <2>1, <2>2
  <2>4. pc[Job(s)] = "queued" /\ at[Job(s)] = w
    BY <2>3 DEF QueueInv, Queued
  <2>5. ASSUME NEW v \in Workers, v # w PROVE Queued(v)'
    <3>1. queue'[v] = queue[v]
      BY <2>2, <2>5
    <3>2. \A i \in 1..Len(queue[v]) : Job(queue[v][i]) # Job(s) /\ Job(queue[v][i]) \in Tx
      BY <1>0, <2>4, <2>5, TxKinds DEF QueueInv, Queued
    <3> QED BY <2>2, <3>1, <3>2 DEF QueueInv, Queued
  <2>6. Queued(w)'
    <3>1. queue'[w] = Tail(queue[w])
      BY <2>2
    <3>2. \A i \in 1..Len(Tail(queue[w])) : i + 1 \in 1..Len(queue[w]) /\ i + 1 # 1
      BY <2>3
    <3>3. \A i \in 1..Len(Tail(queue[w])) : queue'[w][i] = queue[w][i + 1] /\ queue[w][i + 1] # s
      BY <2>3, <3>1, <3>2 DEF QueueInv, Queued
    <3>4. \A i \in 1..Len(Tail(queue[w])) : Job(queue[w][i + 1]) # Job(s) /\ Job(queue[w][i + 1]) \in Tx
      BY <1>0, <3>2, <3>3, TxKinds
    <3>5. \A i \in 1..Len(Tail(queue[w])) :
            pc'[Job(queue[w][i + 1])] = "queued" /\ at'[Job(queue[w][i + 1])] = w
      BY <2>2, <3>2, <3>4 DEF QueueInv, Queued
    <3>6. \A i, k \in 1..Len(Tail(queue[w])) : queue[w][k + 1] = queue[w][i + 1] => k = i
      BY <2>3, <3>2 DEF QueueInv, Queued
    <3> QED BY <3>1, <3>3, <3>5, <3>6 DEF Queued
  <2>7. \A u \in Submits : pc'[u] \in Early => pc'[Job(u)] = "idle"
    BY <2>2, <2>4, TxKinds DEF QueueInv, Early
  <2> QED BY <2>5, <2>6, <2>7 DEF QueueInv
<1>4. ASSUME NEW w \in Workers, Dies(w) PROVE QueueInv'
  <2>1. /\ \A t \in Tx : pc'[t] = pc[t] \/ (pc'[t] = "done" /\ at[t] = w /\ pc[t] # "idle")
        /\ UNCHANGED at /\ queue' = [queue EXCEPT ![w] = <<>>]
    BY <1>4 DEF Dies, End, Running, Locking
  <2>2. ASSUME NEW v \in Workers, v # w PROVE Queued(v)'
    BY <1>0, <2>1, <2>2, TxKinds DEF QueueInv, Queued
  <2>3. Queued(w)'
    BY <2>1 DEF Queued
  <2>4. \A u \in Submits : pc'[u] \in Early => pc'[Job(u)] = "idle"
    BY <2>1, TxKinds DEF QueueInv, Early
  <2> QED BY <2>2, <2>3, <2>4 DEF QueueInv
<1> HIDE DEF TypeInv
<1> QED BY <1>1, <1>2, <1>3, <1>4, QueueSteps

\* A check that is over stays so, unless its submission has yet to register.
LEMMA DoneStays ==
  ASSUME TypeInv, QueueInv, [Next]_vars, NEW s \in Submits, pc[Job(s)] = "done"
  PROVE  pc'[Job(s)] = "done"
<1> USE DEF TypeInv, TypeOK
<1>0. Job(s) \in Tx
  BY TxKinds
<1>1. CASE ChecksWait
  BY <1>1 DEF ChecksWait, Running, Locking
<1>2. ASSUME NEW u \in Submits, SubmitRegister(u) PROVE pc'[Job(s)] = "done"
  BY <1>0, <1>2, TxKinds DEF SubmitRegister, QueueInv, Early
<1>3. ASSUME NEW w \in Workers, PollTake(w) PROVE pc'[Job(s)] = "done"
  <2>1. Head(queue[w]) = queue[w][1] /\ 1 \in 1..Len(queue[w])
    BY <1>3 DEF PollTake
  <2>2. pc[Job(Head(queue[w]))] = "queued"
    BY <2>1 DEF QueueInv, Queued
  <2> QED BY <1>0, <1>3, <2>2 DEF PollTake
<1>4. ASSUME NEW w \in Workers, Dies(w) PROVE pc'[Job(s)] = "done"
  BY <1>0, <1>4 DEF Dies, End
<1> HIDE DEF TypeInv
<1> QED BY <1>1, <1>2, <1>3, <1>4, QueueSteps

\* At first nothing is queued.
LEMMA QueueInit == Init => QueueInv
BY TxKinds DEF Init, QueueInv, Queued, Early

\* A retry or a check writes what the invoice says already, or is the check of the
\* very submission the invoice is of.
OwnAnswer(t) ==
  Holds(t) => work[t].invEstado = db[target[t]].invEstado \/ t = Job(work[t].invTrack)

\* A final answer on an invoice came with the check of its submission, and that
\* check is over.
VerdictInv ==
  /\ QueueInv
  /\ \A o \in Ops : Exists(db[o]) /\ db[o].invEstado \in FinalAnswers => pc[Job(db[o].invTrack)] = "done"
  /\ \A t \in Retries \cup Jobs : OwnAnswer(t)

\* Transaction t goes on with what it has written of the invoice.
GoesOn(t) ==
  /\ Holds(t) /\ target'[t] = target[t]
  /\ work'[t].invEstado = work[t].invEstado /\ work'[t].invTrack = work[t].invTrack

\* While no row is written, every retry and check that holds one goes on with what
\* it had written, or has just taken it with an answer of its own.
RowsStand ==
  /\ UNCHANGED db
  /\ \A t \in Retries \cup Jobs : Holds(t)' => GoesOn(t) \/ OwnAnswer(t)'

\* Transactions that end leave the others as they are.
LEMMA EndIsLocal ==
  ASSUME TypeInv, NEW T \in SUBSET Tx, End(T), UNCHANGED db
  PROVE  RowsStand
BY TxKinds DEF TypeInv, TypeOK, End, RowsStand, GoesOn, Holds, Locking

\* Every step but a commit is local.
LEMMA LocalSteps ==
  ASSUME TypeInv, [Next]_vars
  PROVE  RowsStand \/ \E t \in Tx : Commit(t) /\ ~Rollback(t)
<1> USE DEF durable, local
<1>0. pc \in [Tx -> Running \cup {"idle", "queued", "done"}] /\ work \in [Tx -> Row] /\ db \in [Ops -> Row]
  BY DEF TypeInv, TypeOK
<1>1. CASE UNCHANGED vars
  BY <1>1, TxKinds DEF vars, RowsStand, GoesOn, Holds
<1>2. ASSUME NEW t \in Tx,
             UNCHANGED db, \A u \in Tx : u # t => pc'[u] = pc[u] /\ target'[u] = target[u] /\ work'[u] = work[u],
             t \in Retries \cup Jobs => ~Holds(t)' \/ GoesOn(t) \/ OwnAnswer(t)'
      PROVE  RowsStand
  BY <1>2, TxKinds DEF RowsStand, GoesOn, Holds
<1>3. ASSUME NEW s \in Submits, NEW o \in Ops, NEW w \in Workers, SubmitBegin(s, o, w)
      PROVE  RowsStand
  BY <1>0, <1>2, <1>3, TxKinds, ActorKinds DEF SubmitBegin
<1>4. ASSUME NEW s \in Submits, SubmitStep(s) PROVE RowsStand
  <2>0. s \in Tx /\ {s} \in SUBSET Tx /\ Job(s) \in Tx /\ Job(s) # s
        /\ \A t \in Retries \cup Jobs : t \in Tx /\ t # s
    BY TxKinds, ActorKinds
  <2>1. CASE SubmitFailsEarly(s) \/ SubmitFailsLate(s)
    BY <2>0, <2>1, EndIsLocal DEF SubmitFailsEarly, SubmitFailsLate, Rollback
  <2>2. CASE SubmitSign(s) \/ SubmitStore(s) \/ SubmitSend(s)
    BY <1>0, <1>2, <2>0, <2>2, ActorKinds DEF SubmitSign, Signs, SubmitStore, SubmitSend
  <2>3. CASE SubmitRegister(s)
    BY <1>0, <2>0, <2>3 DEF SubmitRegister, RowsStand, GoesOn, Holds, Locking
  <2> QED BY <1>4, <2>1, <2>2, <2>3 DEF SubmitStep
<1>5. ASSUME NEW r \in Retries, RetryStep(r) PROVE RowsStand
  <2>0. r \in Tx /\ {r} \in SUBSET Tx
    BY TxKinds
  <2>1. CASE RetryMark(r)
    <3>1. target[r] \in Ops /\ db[target[r]] \in Row
      BY <1>0, <2>0, <2>1 DEF RetryMark, TypeInv, Placed, Running
    <3>2. OwnAnswer(r)'
      BY <1>0, <2>0, <2>1, <3>1 DEF RetryMark, OwnAnswer, Row
    <3> QED BY <1>0, <1>2, <2>0, <2>1, <3>2 DEF RetryMark
  <2>2. CASE RetryQuery(r)
    BY <1>0, <1>2, <2>0, <2>2 DEF RetryQuery, GoesOn, Holds, Locking
  <2>3. CASE RetryFails(r)
    BY <2>0, <2>3, EndIsLocal DEF RetryFails, Rollback
  <2>4. CASE RetryApply(r)
    <3>1. GoesOn(r)
      BY <1>0, <2>0, <2>4 DEF RetryApply, GoesOn, Holds, Locking, Row
    <3> QED BY <1>0, <1>2, <2>0, <2>4, <3>1 DEF RetryApply
  <2> QED BY <1>5, <2>1, <2>2, <2>3, <2>4 DEF RetryStep
<1>6. ASSUME NEW r \in Retries, NEW o \in Ops, NEW w \in Workers, RetryBegin(r, o, w)
      PROVE  RowsStand
  <2>1. r \in Tx /\ ~Holds(r)'
    BY <1>0, <1>6, TxKinds DEF RetryBegin, Holds, Locking
  <2> QED BY <1>0, <1>2, <1>6, <2>1 DEF RetryBegin
<1>7. ASSUME NEW s \in Submits, PollStep(s) PROVE RowsStand
  <2> DEFINE j == Job(s)
  <2>0. j \in Tx /\ {j} \in SUBSET Tx /\ s = s
    BY TxKinds
  <2>1. CASE PollFetch(s) \/ PollRead(s)
    <3>1. ~Holds(j)'
      BY <1>0, <2>0, <2>1 DEF PollFetch, PollRead, Holds, Locking
    <3> QED BY <1>0, <1>2, <2>0, <2>1, <3>1 DEF PollFetch, PollRead
  <2>2. CASE PollDrops(s)
    BY <2>0, <2>2, EndIsLocal DEF PollDrops, Rollback
  <2>3. CASE PollApply(s)
    <3>1. target[j] \in Ops /\ db[target[j]] \in Row
      BY <1>0, <2>0, <2>3 DEF PollApply, TypeInv, Placed, Running
    <3>2. /\ work'[j].invTrack = db[target[j]].invTrack
          /\ work'[j].invEstado = IF db[target[j]].invTrack = s THEN answer[j] ELSE db[target[j]].invEstado
          /\ UNCHANGED <<db, target>>
      BY <1>0, <2>0, <2>3, <3>1 DEF PollApply, Row
    <3>3. OwnAnswer(j)'
      BY <3>2 DEF OwnAnswer
    <3> QED BY <1>0, <1>2, <2>0, <2>3, <3>3 DEF PollApply
  <2> QED BY <1>7, <2>1, <2>2, <2>3 DEF PollStep
<1>8. ASSUME NEW s \in Submits, DgiiDecides(s) PROVE RowsStand
  BY <1>8, TxKinds DEF DgiiDecides, RowsStand, GoesOn, Holds
<1>9. ASSUME NEW t \in Tx, OdooSync(t) PROVE RowsStand
  <2>1. GoesOn(t)
    BY <1>0, <1>9 DEF OdooSync, GoesOn, Holds, Locking, Row
  <2> QED BY <1>0, <1>2, <1>9, <2>1 DEF OdooSync
<1>10. ASSUME NEW w \in Workers, PollTake(w) PROVE RowsStand
  <2>1. PICK s \in Submits : s = Head(queue[w])
    BY <1>10 DEF PollTake, TypeInv, TypeOK
  <2>2. Job(s) \in Tx /\ pc' = [pc EXCEPT ![Job(s)] = "fetching"] /\ UNCHANGED <<db, target, work>>
    BY <1>10, <2>1, TxKinds DEF PollTake
  <2>3. ~Holds(Job(s))'
    BY <1>0, <2>2 DEF Holds, Locking
  <2> QED BY <1>0, <1>2, <2>2, <2>3
<1>11. ASSUME NEW w \in Workers, Crash(w) \/ Kill(w) PROVE RowsStand
  <2> DEFINE T == {t \in Tx : at[t] = w /\ pc[t] \in Running \cup {"queued"}}
  <2>1. End(T) /\ T \in SUBSET Tx /\ UNCHANGED db
    BY <1>11 DEF Crash, Kill, Dies
  <2> QED BY <2>1, EndIsLocal
<1>12. ASSUME NEW t \in Tx, Rollback(t) PROVE RowsStand
  <2>1. End({t}) /\ {t} \in SUBSET Tx /\ UNCHANGED db
    BY <1>12 DEF Rollback
  <2> QED BY <2>1, EndIsLocal
<1> QED BY <1>1, <1>3, <1>4, <1>5, <1>6, <1>7, <1>8, <1>9, <1>10, <1>11, <1>12 DEF Next

\* What a commit writes of an invoice: a charged submission of its own, or the
\* invoice as it was, or the first answer to it.
LEMMA CommitKeepsVerdict ==
  ASSUME TypeInv, DataInv, LedgerInv, VerdictInv, NEW t \in Tx, Commit(t), ~Rollback(t)
  PROVE  /\ target[t] \in Ops /\ Holds(t) /\ pc[t] = "commit" /\ End({t})
         /\ db' = [db EXCEPT ![target[t]] = work[t]] /\ Exists(work[t])
         /\ work[t] \in Row
         /\ \/ work[t].invEstado = "EN_PROCESO" /\ work[t].invTrack \in usage' \ usage
            \/ /\ Exists(db[target[t]]) /\ work[t].invTrack = db[target[t]].invTrack
               /\ \/ work[t].invEstado = db[target[t]].invEstado
                  \/ t = Job(work[t].invTrack) /\ db[target[t]].invEstado \notin FinalAnswers
<1>1. /\ target[t] \in Ops /\ Holds(t) /\ pc[t] = "commit" /\ End({t})
      /\ db' = [db EXCEPT ![target[t]] = work[t]] /\ work[t] \in Row
      /\ usage' = IF t \in Submits THEN usage \cup {t} ELSE usage
  BY DEF TypeInv, TypeOK, Placed, Commit, Holds, Running, Locking
<1>2. CASE t \in Submits
  BY <1>1, <1>2 DEF DataInv, SubmitSound, Draft, LedgerInv, SubmitEnds
<1>3. CASE t \notin Submits
  <2>1. t \in Retries \cup Jobs
    BY <1>3 DEF Tx, Requests
  <2>2. /\ Exists(work[t]) /\ Exists(db[target[t]]) /\ work[t].invTrack = db[target[t]].invTrack
        /\ work[t].invEstado = db[target[t]].invEstado \/ t = Job(work[t].invTrack)
    BY <1>1, <2>1 DEF DataInv, WorkSound, Sound, LedgerInv, Keeps, VerdictInv, OwnAnswer
  <2>3. t = Job(work[t].invTrack) => db[target[t]].invEstado \notin FinalAnswers
    BY <1>1, <2>2 DEF VerdictInv
  <2> QED BY <1>1, <2>2, <2>3
<1> QED BY <1>1, <1>2, <1>3

\* Every step keeps the invariant.
LEMMA VerdictNext ==
  ASSUME SafetyInv, LedgerInv, VerdictInv, [Next]_vars
  PROVE  VerdictInv'
<1> USE DEF SafetyInv
<1>0. QueueInv /\ QueueInv'
  BY QueueNext DEF VerdictInv
<1>1. ASSUME NEW o \in Ops, Exists(db[o]), db[o].invEstado \in FinalAnswers
      PROVE  pc'[Job(db[o].invTrack)] = "done"
  <2>1. db[o].invTrack \in Submits /\ pc[Job(db[o].invTrack)] = "done"
    BY <1>1 DEF VerdictInv, DataInv, RowsSound, Sound, Fed
  <2> QED BY <1>0, <2>1, DoneStays
<1>2. CASE RowsStand
  <2>1. \A o \in Ops : Exists(db'[o]) /\ db'[o].invEstado \in FinalAnswers => pc'[Job(db'[o].invTrack)] = "done"
    BY <1>1, <1>2 DEF RowsStand
  <2>2. \A t \in Retries \cup Jobs : OwnAnswer(t)'
    BY <1>2 DEF RowsStand, GoesOn, VerdictInv, OwnAnswer
  <2> QED BY <1>0, <2>1, <2>2 DEF VerdictInv, Exists
<1>3. ASSUME NEW t \in Tx, Commit(t), ~Rollback(t) PROVE VerdictInv'
  <2> DEFINE o == target[t]
  <2>0. /\ o \in Ops /\ Holds(t) /\ pc[t] = "commit" /\ End({t}) /\ Exists(work[t])
        /\ db' = [db EXCEPT ![o] = work[t]] /\ work[t] \in Row
        /\ \/ work[t].invEstado = "EN_PROCESO"
           \/ /\ Exists(db[o]) /\ work[t].invTrack = db[o].invTrack
              /\ work[t].invEstado = db[o].invEstado \/ t = Job(work[t].invTrack)
    BY <1>3, CommitKeepsVerdict
  <2>1. pc'[t] = "done" /\ \A p \in Ops : db'[p] = IF p = o THEN work[t] ELSE db[p]
    BY <2>0 DEF End, TypeInv, TypeOK
  <2>2. ASSUME NEW p \in Ops, Exists(db'[p]), db'[p].invEstado \in FinalAnswers
        PROVE  pc'[Job(db'[p].invTrack)] = "done"
    <3>1. CASE p # o
      BY <1>1, <2>1, <2>2, <3>1
    <3>2. CASE p = o
      <4>1. "EN_PROCESO" \notin FinalAnswers
        BY DEF FinalAnswers
      <4> QED BY <1>1, <2>0, <2>1, <2>2, <3>2, <4>1
    <3> QED BY <3>1, <3>2
  <2>3. ASSUME NEW u \in Retries \cup Jobs PROVE OwnAnswer(u)'
    <3>1. CASE u = t
      BY <2>1, <3>1 DEF OwnAnswer, Holds, Locking
    <3>2. CASE u # t
      <4>0. u \in Tx /\ pc'[u] = pc[u] /\ work'[u] = work[u] /\ target'[u] = target[u]
        BY <2>0, <3>2, TxKinds DEF End
      <4>1. Holds(u) => target[u] \in Ops /\ target[u] # o
        BY <2>0, <3>2, <4>0 DEF OneInFlight, TypeInv, Placed, Holds, Running
      <4> QED BY <2>1, <4>0, <4>1 DEF VerdictInv, OwnAnswer, Holds
    <3> QED BY <3>1, <3>2
  <2> QED BY <1>0, <2>2, <2>3 DEF VerdictInv, Exists
<1> QED BY <1>2, <1>3, LocalSteps

\* At first there is no invoice.
LEMMA VerdictInit == Init => VerdictInv
BY QueueInit, TxKinds DEF Init, VerdictInv, OwnAnswer, Exists, NoRow, Holds, Locking

\* The three inductive invariants hold of every behaviour.
LEMMA VerdictHolds == Spec => [](SafetyInv /\ LedgerInv /\ VerdictInv)
<1>1. SafetyInv /\ LedgerInv /\ VerdictInv /\ [Next]_vars => VerdictInv'
  BY VerdictNext
<1> QED BY <1>1, LedgerHolds, VerdictInit, PTL DEF Spec

\* A step writes no invoice back and takes no verdict from one.
LEMMA VerdictStep ==
  ASSUME SafetyInv, LedgerInv, VerdictInv, [Next]_vars, NEW o \in Ops, Exists(db[o])
  PROVE  IF db'[o].invTrack = db[o].invTrack
         THEN db[o].invEstado \in FinalAnswers => db'[o].invEstado = db[o].invEstado
         ELSE db'[o].invTrack \in usage' \ usage
<1>1. CASE RowsStand
  BY <1>1 DEF RowsStand
<1>2. ASSUME NEW t \in Tx, Commit(t), ~Rollback(t), target[t] = o
      PROVE  IF db'[o].invTrack = db[o].invTrack
             THEN db[o].invEstado \in FinalAnswers => db'[o].invEstado = db[o].invEstado
             ELSE db'[o].invTrack \in usage' \ usage
  <2>1. db'[o] = work[t]
    BY <1>2, CommitKeepsVerdict DEF SafetyInv, TypeInv, TypeOK
  <2>2. db[o].invTrack \in usage
    BY DEF SafetyInv, DataInv, RowsSound, Sound
  <2> QED BY <1>2, <2>1, <2>2, CommitKeepsVerdict DEF SafetyInv
<1>3. ASSUME NEW t \in Tx, Commit(t), ~Rollback(t), target[t] # o
      PROVE  db'[o] = db[o]
  <2>1. db' = [db EXCEPT ![target[t]] = work[t]] /\ db \in [Ops -> Row]
    BY <1>3, CommitKeepsVerdict DEF SafetyInv, TypeInv, TypeOK
  <2> QED BY <1>3, <2>1
<1>4. CASE \E t \in Tx : Commit(t) /\ ~Rollback(t) /\ target[t] # o
  BY <1>3, <1>4
<1> QED BY <1>1, <1>2, <1>4, LocalSteps DEF SafetyInv

\* The invoice of a document is moved on by a charged submission only, and the
\* final answer DGII gave to its submission stays on it, whatever retries and
\* checks of other submissions write the row meanwhile.
THEOREM InvoiceVerdictStandsHolds == Spec => InvoiceVerdictStands
<1>1. SafetyInv /\ LedgerInv /\ VerdictInv /\ [Next]_vars =>
        [\A o \in Ops : Exists(db[o]) =>
           IF db'[o].invTrack = db[o].invTrack
           THEN db[o].invEstado \in FinalAnswers => db'[o].invEstado = db[o].invEstado
           ELSE db'[o].invTrack \in usage' \ usage]_vars
  BY VerdictStep
<1> QED BY <1>1, VerdictHolds, PTL DEF Spec, InvoiceVerdictStands

\* A status check that is over, for whatever reason (answered, failed, dropped or
\* lost with its worker), is never queued again: DGII is asked once per submission.
THEOREM CheckedOnceHolds ==
  Spec => [][\A s \in Submits : pc[Job(s)] = "done" => pc'[Job(s)] = "done"]_vars
<1>1. SafetyInv /\ VerdictInv /\ [Next]_vars =>
        [\A s \in Submits : pc[Job(s)] = "done" => pc'[Job(s)] = "done"]_vars
  BY DoneStays DEF SafetyInv, VerdictInv
<1> QED BY <1>1, VerdictHolds, PTL DEF Spec

----------------------------------------------------------------------------
\* Every step of the pipeline is a step of the ledger, or none.

\* A final state is that of the answer it came from.
LEMMA StateOfAnswer ==
  \A a : map_remote_status(a) \in FINAL_OPERATION_STATES => Ledger!StateOf(a) = map_remote_status(a)
BY DEF map_remote_status, FINAL_OPERATION_STATES, AcceptedStates, Ledger!StateOf

\* What the ledger does not see.
LEMMA LedgerStutters ==
  ASSUME UNCHANGED <<db, usage, received, moves>>,
         \A s \in Submits : received[s] # None => target'[s] = target[s]
  PROVE  UNCHANGED Ledger!vars
BY DEF Ledger!vars, Exists

\* A submission that sends is received by DGII, or lost.
LEMMA SendImplements ==
  ASSUME SafetyInv, NEW s \in Submits, SubmitSend(s)
  PROVE  [Ledger!Next]_(Ledger!vars)
<1>1. PICK d \in Ops : d = target[s]
  BY TxKinds DEF SafetyInv, TypeInv, TypeOK, Placed, SubmitSend, Running, Locking
<1>2. /\ received[s] = None /\ None # "EN_PROCESO" /\ received \in [Submits -> Answers \cup {None}]
      /\ UNCHANGED <<db, usage, moves, target>>
  BY TxAssumption
     DEF SafetyInv, TypeInv, TypeOK, DataInv, SubmitSend, SubmitSound, Answers, durable
<1>3. received' = received \/ received' = [received EXCEPT ![s] = "EN_PROCESO"]
  BY DEF SubmitSend
<1>4. CASE received' = received
  BY <1>2, <1>4, LedgerStutters
<1>5. CASE received' = [received EXCEPT ![s] = "EN_PROCESO"]
  <2>1. Ledger!Receive(s, d)
    BY <1>1, <1>2, <1>5 DEF Ledger!Receive, Ledger!With, Exists
  <2> QED BY <2>1 DEF Ledger!Next
<1> QED BY <1>3, <1>4, <1>5

\* A decision of DGII is one.
LEMMA DecisionImplements ==
  ASSUME SafetyInv, NEW s \in Submits, DgiiDecides(s)
  PROVE  Ledger!Next
<1>1. received[s] # None /\ received \in [Submits -> Answers \cup {None}]
      /\ received[s] = "EN_PROCESO" /\ UNCHANGED <<db, usage, moves, target>>
  BY TxAssumption DEF SafetyInv, TypeInv, TypeOK, DgiiDecides, Answers, durable
<1>2. PICK v \in Verdicts : received' = [received EXCEPT ![s] = v]
  BY DEF DgiiDecides
<1>3. v # None
  BY TxAssumption, VerdictsAssumption DEF Answers
<1>4. Ledger!Decide(s)
  BY <1>1, <1>2, <1>3 DEF Ledger!Decide, Ledger!With, Exists
<1> QED BY <1>4 DEF Ledger!Next

\* A sync that creates a move puts a registered document in the books.
LEMMA SyncImplements ==
  ASSUME SafetyInv, LedgerInv, NEW t \in Tx, OdooSync(t)
  PROVE  [Ledger!Next]_(Ledger!vars)
<1>1. /\ target[t] \in Ops /\ Exists(db[target[t]]) /\ moves \in [Ops -> Nat]
      /\ UNCHANGED <<db, usage, received, target>>
  BY DEF OdooSync, SafetyInv, TypeInv, TypeOK, Placed, DataInv, SubmitSound, LedgerInv, Keeps,
       Tx, Requests, Running, Locking, Holds, durable
<1>2. PICK o \in Ops : o = target[t]
  BY <1>1
<1>3. moves' = moves \/ moves' = [moves EXCEPT ![o] = @ + 1]
  BY <1>2 DEF OdooSync
<1>4. CASE moves' = moves
  BY <1>1, <1>4, LedgerStutters
<1>5. CASE moves' = [moves EXCEPT ![o] = @ + 1]
  <2>1. {p \in Ops : moves'[p] > 0} = {p \in Ops : moves[p] > 0} \cup {o}
    BY <1>1, <1>5
  <2>2. Ledger!Book(o)
    BY <1>1, <1>2, <2>1 DEF Ledger!Book, Exists
  <2> QED BY <2>2 DEF Ledger!Next
<1> QED BY <1>3, <1>4, <1>5

\* The entry of a row in the ledger.
Entry(row) ==
  [state   |-> IF row.state \in FINAL_OPERATION_STATES THEN row.state ELSE "open",
   track   |-> row.track, invoice |-> row.invTrack, estado |-> row.invEstado,
   synced  |-> row.odoo \in Synced]
Entries == [o \in {p \in Ops : Exists(db[p])} |-> Entry(db[o])]

\* A commit writes one entry.
LEMMA EntryWritten ==
  ASSUME TypeOK, NEW o \in Ops, NEW row \in Row, Exists(row), db' = [db EXCEPT ![o] = row]
  PROVE  Entries' = Ledger!With(Entries, o, Entry(row))
<1>1. {p \in Ops : Exists(db'[p])} = {p \in Ops : Exists(db[p])} \cup {o}
  BY DEF TypeOK, Exists
<1>2. \A p \in Ops : db'[p] = IF p = o THEN row ELSE db[p]
  BY DEF TypeOK
<1> HIDE DEF Exists
<1> QED BY <1>1, <1>2 DEF Entries, Entry, Ledger!With, Exists

\* A commit of a submission registers it, any other updates a document.
LEMMA CommitImplements ==
  ASSUME SafetyInv, LedgerInv, VerdictInv, NEW t \in Tx, Commit(t), ~Rollback(t)
  PROVE  Ledger!Next
<1> USE DEF SafetyInv, TypeInv
<1>1. PICK o \in Ops : o = target[t]
  BY DEF Commit, Placed, Running, Locking
<1>2. PICK row \in Row : row = work[t]
  BY DEF TypeOK
<1>3. /\ pc[t] = "commit" /\ Holds(t)
      /\ db' = [db EXCEPT ![o] = row]
      /\ usage' = IF t \in Submits THEN usage \cup {t} ELSE usage
      /\ UNCHANGED <<received, moves, target>>
  BY <1>1, <1>2 DEF Commit, End, Holds, Locking, outside
<1>4. /\ Exists(row)
      /\ row.odoo \in Synced => moves[o] > 0
  <2>1. CASE t \in Submits
    BY <1>1, <1>2, <1>3, <2>1 DEF DataInv, SubmitSound, Draft
  <2>2. CASE t \notin Submits
    BY <1>1, <1>2, <1>3, <2>2 DEF DataInv, WorkSound, Sound, Tx, Requests
  <2> QED BY <2>1, <2>2
<1>5. Entries' = Ledger!With(Entries, o, Entry(row))
  BY <1>3, <1>4, EntryWritten
<1>6. (row.odoo \in Synced) \in BOOLEAN /\ (row.odoo \in Synced => o \in {p \in Ops : moves[p] > 0})
  BY <1>4
<1>7. CASE t \in Submits
  <2>1. /\ received[t] # None /\ t \notin usage
        /\ row.state \notin FINAL_OPERATION_STATES /\ row.track = t /\ row.invTrack = t
        /\ row.invEstado = "EN_PROCESO"
    BY <1>2, <1>3, <1>7 DEF DataInv, SubmitSound, Draft, LedgerInv, SubmitEnds
  <2>2. Entry(row) = [state |-> "open", track |-> t, invoice |-> t, estado |-> "EN_PROCESO",
                      synced |-> row.odoo \in Synced]
    BY <2>1 DEF Entry
  <2>3. Ledger!Register(t, o)
    BY <1>1, <1>3, <1>5, <1>6, <1>7, <2>1, <2>2
       DEF Ledger!Register, Ledger!BroughtFor, Entries, Entry, Synced
  <2> QED BY <1>7, <2>3 DEF Ledger!Next
<1>8. CASE t \notin Submits
  <2>1. Exists(db[o]) /\ row.invTrack = db[o].invTrack /\ Told(row) /\ Sound(row, o)
    BY <1>1, <1>2, <1>3, <1>8 DEF LedgerInv, Keeps, DataInv, WorkSound, Tx, Requests
  <2> DEFINE B == {s \in Submits : received[s] # None /\ target[s] = o}
             st == IF row.state \in FINAL_OPERATION_STATES THEN row.state ELSE "open"
  <2>2. row.track \in B /\ row.invTrack \in B
    BY <2>1 DEF Sound, Fed
  <2>3. st \in {"open"} \cup {Ledger!StateOf(received[s]) : s \in B}
    <3>1. CASE row.state \in FINAL_OPERATION_STATES
      <4>1. PICK s \in B : map_remote_status(received[s]) = row.state
        BY <2>1, <3>1 DEF Sound, Given, Fed
      <4> QED BY <3>1, <4>1, StateOfAnswer
    <3>2. CASE row.state \notin FINAL_OPERATION_STATES
      BY <3>2
    <3> QED BY <3>1, <3>2
  <2>4. row.invEstado \in {db[o].invEstado, received[db[o].invTrack]}
    <3>1. row.invEstado = db[o].invEstado \/ db[o].invEstado \notin FinalAnswers
      BY <1>1, <1>2, <1>3, <1>8, CommitKeepsVerdict
    <3>2. db[o].invEstado \in {"EN_PROCESO", received[db[o].invTrack]}
      BY <1>1, <2>1 DEF LedgerInv, InvoiceIsDgiis
    <3>3. received[db[o].invTrack] \in FinalAnswers \/ received[db[o].invTrack] = "EN_PROCESO"
      <4>1. db[o].invTrack \in Submits /\ received[db[o].invTrack] # None
        BY <2>1 DEF Sound, Fed
      <4> QED BY <4>1 DEF TypeOK, Answers
    <3> QED BY <2>1, <3>1, <3>2, <3>3 DEF Told
  <2>5. Entry(row) = [state |-> st, track |-> row.track, invoice |-> db[o].invTrack,
                      estado |-> row.invEstado, synced |-> row.odoo \in Synced]
    BY <2>1 DEF Entry
  <2>6. Ledger!BroughtFor(o) = B
    BY DEF Ledger!BroughtFor
  <2> DEFINE Dgii == [s \in {q \in Submits : received[q] # None} |->
                       [document |-> target[s], answer |-> received[s]]]
             synced == row.odoo \in Synced
  <2>7. st \in {"open"} \cup {Ledger!StateOf(Dgii[s].answer) : s \in Ledger!BroughtFor(o)}
    <3>1. \A s \in B : Dgii[s].answer = received[s]
      OBVIOUS
    <3>2. {Ledger!StateOf(Dgii[s].answer) : s \in B} = {Ledger!StateOf(received[s]) : s \in B}
      BY <3>1
    <3> QED BY <2>3, <2>6, <3>2
  <2>8. /\ o \in DOMAIN Entries /\ Entries[o].invoice = db[o].invTrack
        /\ Entries[o].estado = db[o].invEstado
        /\ Dgii[Entries[o].invoice].answer = received[db[o].invTrack]
    BY <2>1, <2>2 DEF Entries, Entry
  <2>9. Entries' = Ledger!With(Entries, o,
                     [state |-> st, track |-> row.track, invoice |-> Entries[o].invoice,
                      estado |-> row.invEstado, synced |-> synced])
    BY <1>5, <2>5, <2>8
  <2>10. /\ row.track \in Ledger!BroughtFor(o)
         /\ row.invEstado \in {Entries[o].estado, Dgii[Entries[o].invoice].answer}
         /\ synced \in BOOLEAN
         /\ synced => o \in {p \in Ops : moves[p] > 0}
    BY <1>6, <2>2, <2>4, <2>6, <2>8
  <2>11. UNCHANGED <<Dgii, usage, {p \in Ops : moves[p] > 0}>>
    BY <1>3, <1>8
  <2> HIDE DEF st, synced, Dgii
  <2>12. \E state \in {"open"} \cup {Ledger!StateOf(Dgii[s].answer) : s \in Ledger!BroughtFor(o)},
            track \in Ledger!BroughtFor(o),
            estado \in {Entries[o].estado, Dgii[Entries[o].invoice].answer},
            sync \in BOOLEAN :
           /\ sync => o \in {p \in Ops : moves[p] > 0}
           /\ Entries' = Ledger!With(Entries, o,
                [state |-> state, track |-> track, invoice |-> Entries[o].invoice, estado |-> estado,
                 synced |-> sync])
    BY <2>7, <2>9, <2>10
  <2>13. Ledger!Update(o)
    BY <2>8, <2>11, <2>12, Zenon DEF Ledger!Update, Entries, Entry, Synced, Dgii
  <2> QED BY <2>13 DEF Ledger!Next
<1> QED BY <1>7, <1>8

\* Every other step goes unseen.
LEMMA OtherStepsStutter ==
  ASSUME SafetyInv
  PROVE  /\ \A s \in Submits : SubmitStep(s) /\ ~SubmitSend(s) => UNCHANGED Ledger!vars
         /\ \A s \in Submits : PollStep(s) => UNCHANGED Ledger!vars
         /\ \A r \in Retries : RetryStep(r) => UNCHANGED Ledger!vars
         /\ \A s \in Submits, o \in Ops, w \in Workers : SubmitBegin(s, o, w) => UNCHANGED Ledger!vars
         /\ \A r \in Retries, o \in Ops, w \in Workers : RetryBegin(r, o, w) => UNCHANGED Ledger!vars
         /\ \A t \in Tx : Rollback(t) => UNCHANGED Ledger!vars
         /\ \A w \in Workers : PollTake(w) \/ Crash(w) \/ Kill(w) => UNCHANGED Ledger!vars
<1> USE DEF durable, outside, local
<1>1. ASSUME NEW s \in Submits, SubmitStep(s), ~SubmitSend(s) PROVE UNCHANGED Ledger!vars
  <2>1. UNCHANGED <<db, usage, received, moves>>
    BY <1>1 DEF SubmitStep, SubmitSign, Signs, SubmitStore, SubmitFailsEarly, SubmitRegister,
         SubmitFailsLate, Rollback
  <2>2. \A u \in Submits : target'[u] = target[u]
    BY <1>1, TxKinds, ActorKinds
       DEF SubmitStep, SubmitSign, Signs, SubmitStore, SubmitFailsEarly, SubmitRegister,
           SubmitFailsLate, Rollback, End, SafetyInv, TypeInv, TypeOK
  <2> QED BY <2>1, <2>2, LedgerStutters
<1>2. ASSUME NEW s \in Submits, PollStep(s) PROVE UNCHANGED Ledger!vars
  BY <1>2, LedgerStutters
     DEF PollStep, PollFetch, PollDrops, PollRead, PollApply, Rollback, End
<1>3. ASSUME NEW r \in Retries, RetryStep(r) PROVE UNCHANGED Ledger!vars
  BY <1>3, LedgerStutters
     DEF RetryStep, RetryMark, RetryQuery, RetryApply, RetryFails, Rollback, End
<1>4. ASSUME NEW s \in Submits, NEW o \in Ops, NEW w \in Workers, SubmitBegin(s, o, w)
      PROVE  UNCHANGED Ledger!vars
  <2>1. UNCHANGED <<db, usage, received, moves>> /\ received[s] = None
    BY <1>4 DEF SubmitBegin, SafetyInv, DataInv, SubmitSound
  <2>2. \A u \in Submits : u # s => target'[u] = target[u]
    BY <1>4, TxKinds DEF SubmitBegin, SafetyInv, TypeInv, TypeOK
  <2> QED BY <2>1, <2>2, LedgerStutters
<1>5. ASSUME NEW r \in Retries, NEW o \in Ops, NEW w \in Workers, RetryBegin(r, o, w)
      PROVE  UNCHANGED Ledger!vars
  <2>1. UNCHANGED <<db, usage, received, moves>>
    BY <1>5 DEF RetryBegin
  <2>2. \A u \in Submits : target'[u] = target[u]
    BY <1>5, TxKinds, ActorKinds DEF RetryBegin, SafetyInv, TypeInv, TypeOK
  <2> QED BY <2>1, <2>2, LedgerStutters
<1>6. ASSUME NEW t \in Tx, Rollback(t) PROVE UNCHANGED Ledger!vars
  BY <1>6, LedgerStutters DEF Rollback, End
<1>7. ASSUME NEW w \in Workers, PollTake(w) \/ Crash(w) \/ Kill(w) PROVE UNCHANGED Ledger!vars
  BY <1>7, LedgerStutters DEF PollTake, Crash, Kill, Dies, End
<1> QED BY <1>1, <1>2, <1>3, <1>4, <1>5, <1>6, <1>7

\* Every step of the pipeline is one of the ledger, or none.
LEMMA StepImplements ==
  ASSUME SafetyInv, LedgerInv, VerdictInv, [Next]_vars
  PROVE  [Ledger!Next]_(Ledger!vars)
<1>1. CASE UNCHANGED vars
  BY <1>1, LedgerStutters DEF vars, durable, outside
<1>2. ASSUME NEW s \in Submits, SubmitStep(s) \/ PollStep(s) \/ DgiiDecides(s)
      PROVE  [Ledger!Next]_(Ledger!vars)
  BY <1>2, SendImplements, DecisionImplements, OtherStepsStutter
<1>3. ASSUME NEW t \in Tx, Commit(t) \/ OdooSync(t)
      PROVE  [Ledger!Next]_(Ledger!vars)
  BY <1>3, CommitImplements, SyncImplements, OtherStepsStutter
<1> QED BY <1>1, <1>2, <1>3, OtherStepsStutter DEF Next

\* The pipeline implements the ledger: whatever requests, checks, retries and
\* crashes overlap, DGII's register, the committed rows, the charges and the
\* books change together only as FiscalLedger allows.
THEOREM ImplementsLedgerHolds == Spec => ImplementsLedger
<1>1. Init => Ledger!Init
  BY DEF Init, Ledger!Init, Exists, NoRow
<1>2. SafetyInv /\ LedgerInv /\ VerdictInv /\ [Next]_vars => [Ledger!Next]_(Ledger!vars)
  BY StepImplements
<1> QED BY <1>1, <1>2, VerdictHolds, PTL DEF Spec, ImplementsLedger, Ledger!Spec
=============================================================================

------------------------- MODULE NcfSequenceProofs -------------------------
(* Theorems of NcfSequence, for every value of its constants. *)
EXTENDS NcfSequence, TLAPS

\* The steps of a generate request.
GeneratePc == {"idle", "counted", "read", "numbered", "done"}

TypeInv == TypeOK /\ \A g \in Generates : pc[g] \in GeneratePc

\* An automatic number in a transaction is covered by the lock of its row, and
\* whoever has the lock took the number the committed row stands at.
LockInv ==
  /\ \A r \in Allocating : Chosen[r] = None =>
       (pc[r] \in InTransaction => holder[KeyOf[r]] = r)
  /\ \A r \in Allocating : pc[r] = "insert" => Chosen[r] = None
  /\ \A r \in Allocating : Chosen[r] # None /\ pc[r] \in InTransaction => num[r] = Chosen[r]
  /\ \A k \in Keys : holder[k] # None =>
       /\ KeyOf[holder[k]] = k /\ Chosen[holder[k]] = None /\ pc[holder[k]] \in InTransaction
       /\ num[holder[k]] = IF next[k] = 0 THEN 1 ELSE next[k]

\* A request that is registered is done, and keeps its number.
DoneInv == \A x \in registered : pc[x[1]] = "done" /\ x[2] = num[x[1]]

\* A create that has written its payload finds its own there, or that of a create that
\* looked for the file together with it; so does whoever is about to write.  No two
\* automatic creates of a sequence ever look together.
HasStored(c) == pc[c] \in {"stored", "flushed"} \/ <<c, num[c]>> \in registered

StoreInv ==
  /\ \A x \in payloads : x[2] = num[x[1]] /\ pc[x[1]] \in {"stored", "flushed", "done"}
  /\ \A x, y \in payloads : KeyOf[x[1]] = KeyOf[y[1]] /\ x[2] = y[2] => x = y
  /\ \A c \in Creates : HasStored(c) => \E x \in payloads :
       KeyOf[x[1]] = KeyOf[c] /\ x[2] = num[c] /\ (x[1] = c \/ Together(c, x[1]))
  /\ \A c, q \in Creates :
       c # q /\ SameName(c, q) /\ pc[c] = "storing" /\
         (pc[q] = "storing" \/ HasStored(q) \/ <<q, num[q]>> \in payloads) => Together(c, q)
  /\ \A c, q \in Creates : <<c, q>> \in overlaps =>
       /\ SameName(c, q) /\ num[c] \in {Chosen[c], Chosen[q]}
       /\ pc[c] \notin {"idle", "insert"} /\ pc[q] \notin {"idle", "insert"}

\* The same of signed files, which two transmits of one document may both write.
HasSigned(t) == pc[t] \in {"signed", "stored", "flushed"} \/ <<t, num[t]>> \in registered

InFile(y, t) == y[1] = TypeOf[KeyOf[t]] /\ y[2] = num[t]

SignInv ==
  /\ \A y, z \in xml : y[1] = z[1] /\ y[2] = z[2] => y = z
  /\ \A t \in Transmits : HasSigned(t) => \E y \in xml :
       /\ InFile(y, t)
       /\ y[3] = DocOf[t] \/ \E q \in Transmits : DocOf[q] = y[3] /\ Together(q, t)
  /\ \A t, q \in Transmits :
       SameXmlName(t, q) /\ DocOf[t] # DocOf[q] /\ pc[q] = "signing" /\
         (pc[t] = "signing" \/ HasSigned(t)) =>
           \E p \in Transmits : DocOf[p] = DocOf[q] /\ Together(p, t)
  /\ \A t, q \in Transmits :
       SameXmlName(t, q) /\ DocOf[t] # DocOf[q] /\
         (pc[t] = "signing" \/ HasSigned(t)) /\ (pc[q] = "signing" \/ HasSigned(q)) =>
           \E o, p \in Transmits : DocOf[o] = DocOf[t] /\ DocOf[p] = DocOf[q] /\ Together(o, p)
  /\ \A t, q \in Transmits : <<t, q>> \in overlaps => WorkerOf[t] # WorkerOf[q]

SafeInv == TypeInv /\ LockInv /\ DoneInv /\ StoreInv /\ SignInv /\ NoGaps

----------------------------------------------------------------------------
\* Facts about the constants.

\* The kinds of requests are told apart.
LEMMA Kinds ==
  /\ Generates \subseteq Requests /\ Allocating \subseteq Requests
  /\ Creates \subseteq Allocating /\ Transmits \subseteq Allocating
  /\ \A r \in Requests : KeyOf[r] \in Keys /\ r # None
  /\ \A g \in Generates : g \notin Allocating
  /\ \A c \in Creates : c \notin Transmits
  /\ \A r \in Allocating : Chosen[r] \in Nat \cup {None}
  /\ 0 # None
BY RequestsAssumption DEF Requests, Allocating

\* Every action keeps the types.
LEMMA TypeStep ==
  ASSUME TypeInv, Next
  PROVE  TypeInv'
<1> USE Kinds DEF TypeInv, TypeOK, GeneratePc
<1>1. ASSUME NEW g \in Generates, GenCount(g) \/ GenRead(g) \/ GenWrite(g) \/ GenUsage(g) \/ GenFails(g)
      PROVE  TypeInv'
  <2>1. CASE GenCount(g)
    BY <2>1, RequestsAssumption DEF GenCount, Goes, InTransaction, files
  <2>2. CASE GenRead(g)
    BY <2>2, RequestsAssumption DEF GenRead, Goes, InTransaction, files
  <2>3. CASE GenWrite(g)
    BY <2>3, RequestsAssumption DEF GenWrite, Goes, InTransaction, files
  <2>4. CASE GenUsage(g)
    BY <2>4, RequestsAssumption DEF GenUsage, Goes, InTransaction, files
  <2>5. CASE GenFails(g)
    BY <2>5, RequestsAssumption DEF GenFails, Goes, InTransaction, files
  <2> QED BY <1>1, <2>1, <2>2, <2>3, <2>4, <2>5
<1>2. ASSUME NEW r \in Allocating, Name(r) \/ Allocate(r) \/ AllocateFirst(r) \/ InsertRow(r) \/ InsertRowFails(r) \/ Flush(r) \/ FlushFails(r) \/ Commit(r) \/ Fails(r)
      PROVE  TypeInv'
  <2>1. CASE Name(r)
    BY <2>1, RequestsAssumption DEF Name, Goes, InTransaction, files
  <2>2. CASE Allocate(r)
    BY <2>2, RequestsAssumption DEF Allocate, Goes, Free, InTransaction, files
  <2>3. CASE AllocateFirst(r)
    BY <2>3, RequestsAssumption DEF AllocateFirst, Goes, InTransaction, files
  <2>4. CASE InsertRow(r)
    BY <2>4, RequestsAssumption DEF InsertRow, Goes, Free, InTransaction, files
  <2>5. CASE InsertRowFails(r)
    BY <2>5, RequestsAssumption DEF InsertRowFails, Rollback, Release, Goes, InTransaction, files
  <2>6. CASE Flush(r)
    BY <2>6, RequestsAssumption DEF Flush, Goes, InTransaction, files
  <2>7. CASE FlushFails(r)
    BY <2>7, RequestsAssumption DEF FlushFails, Rollback, Release, Goes, InTransaction, files
  <2>8. CASE Commit(r)
    BY <2>8, RequestsAssumption DEF Commit, Advance, Goes, Release, InTransaction, files
  <2>9. CASE Fails(r)
    BY <2>9, RequestsAssumption DEF Fails, Rollback, Release, Goes, InTransaction, files
  <2> QED BY <1>2, <2>1, <2>2, <2>3, <2>4, <2>5, <2>6, <2>7, <2>8, <2>9
<1>3. ASSUME NEW c \in Creates, CheckStored(c) \/ StoreRefused(c) \/ WriteStored(c)
      PROVE  TypeInv'
  <2>1. CASE CheckStored(c)
    BY <2>1, RequestsAssumption DEF CheckStored, Goes, InTransaction, files
  <2>2. CASE StoreRefused(c)
    BY <2>2, RequestsAssumption DEF StoreRefused, Rollback, Release, Goes, InTransaction, files
  <2>3. CASE WriteStored(c)
    BY <2>3, RequestsAssumption DEF WriteStored, Goes, InTransaction, files
  <2> QED BY <1>3, <2>1, <2>2, <2>3
<1>4. ASSUME NEW t \in Transmits, CheckSigned(t) \/ SignRefused(t) \/ WriteSigned(t) \/ LookUp(t) \/ MockReceived(t)
      PROVE  TypeInv'
  <2>1. CASE CheckSigned(t)
    BY <2>1, RequestsAssumption DEF CheckSigned, Goes, InTransaction, files
  <2>2. CASE SignRefused(t)
    BY <2>2, RequestsAssumption DEF SignRefused, Rollback, Release, Goes, InTransaction, files
  <2>3. CASE WriteSigned(t)
    BY <2>3, RequestsAssumption DEF WriteSigned, Goes, InTransaction, files
  <2>4. CASE LookUp(t)
    BY <2>4, RequestsAssumption DEF LookUp, Goes, InTransaction, files
  <2>5. CASE MockReceived(t)
    BY <2>5, RequestsAssumption DEF MockReceived, Advance, Release, Goes, InTransaction, files
  <2> QED BY <1>4, <2>1, <2>2, <2>3, <2>4, <2>5
<1> QED BY <1>1, <1>2, <1>3, <1>4 DEF Next, AllocateStep

\* Every action keeps the locks: a row is released by the end of its holder only.
LEMMA LockStep ==
  ASSUME TypeInv, LockInv, Next
  PROVE  LockInv'
<1> USE Kinds DEF TypeInv, TypeOK, GeneratePc, LockInv
<1>1. ASSUME NEW g \in Generates, GenCount(g) \/ GenRead(g) \/ GenWrite(g) \/ GenUsage(g) \/ GenFails(g)
      PROVE  LockInv'
  <2>1. CASE GenCount(g)
    BY <2>1, RequestsAssumption DEF GenCount, Goes, InTransaction, files
  <2>2. CASE GenRead(g)
    BY <2>2, RequestsAssumption DEF GenRead, Goes, InTransaction, files
  <2>3. CASE GenWrite(g)
    BY <2>3, RequestsAssumption DEF GenWrite, Goes, InTransaction, files
  <2>4. CASE GenUsage(g)
    BY <2>4, RequestsAssumption DEF GenUsage, Goes, InTransaction, files
  <2>5. CASE GenFails(g)
    BY <2>5, RequestsAssumption DEF GenFails, Goes, InTransaction, files
  <2> QED BY <1>1, <2>1, <2>2, <2>3, <2>4, <2>5
<1>2. ASSUME NEW r \in Allocating, Name(r) \/ Allocate(r) \/ AllocateFirst(r) \/ InsertRow(r) \/ InsertRowFails(r) \/ Flush(r) \/ FlushFails(r) \/ Commit(r) \/ Fails(r)
      PROVE  LockInv'
  <2>1. CASE Name(r)
    BY <2>1, RequestsAssumption DEF Name, Goes, InTransaction, files
  <2>2. CASE Allocate(r)
    BY <2>2, RequestsAssumption DEF Allocate, Goes, Free, InTransaction, files
  <2>3. CASE AllocateFirst(r)
    BY <2>3, RequestsAssumption DEF AllocateFirst, Goes, InTransaction, files
  <2>4. CASE InsertRow(r)
    BY <2>4, RequestsAssumption DEF InsertRow, Goes, Free, InTransaction, files
  <2>5. CASE InsertRowFails(r)
    BY <2>5, RequestsAssumption DEF InsertRowFails, Rollback, Release, Goes, InTransaction, files
  <2>6. CASE Flush(r)
    BY <2>6, RequestsAssumption DEF Flush, Goes, InTransaction, files
  <2>7. CASE FlushFails(r)
    BY <2>7, RequestsAssumption DEF FlushFails, Rollback, Release, Goes, InTransaction, files
  <2>8. CASE Commit(r)
    BY <2>8, RequestsAssumption DEF Commit, Advance, Goes, Release, InTransaction, files
  <2>9. CASE Fails(r)
    BY <2>9, RequestsAssumption DEF Fails, Rollback, Release, Goes, InTransaction, files
  <2> QED BY <1>2, <2>1, <2>2, <2>3, <2>4, <2>5, <2>6, <2>7, <2>8, <2>9
<1>3. ASSUME NEW c \in Creates, CheckStored(c) \/ StoreRefused(c) \/ WriteStored(c)
      PROVE  LockInv'
  <2>1. CASE CheckStored(c)
    BY <2>1, RequestsAssumption DEF CheckStored, Goes, InTransaction, files
  <2>2. CASE StoreRefused(c)
    BY <2>2, RequestsAssumption DEF StoreRefused, Rollback, Release, Goes, InTransaction, files
  <2>3. CASE WriteStored(c)
    BY <2>3, RequestsAssumption DEF WriteStored, Goes, InTransaction, files
  <2> QED BY <1>3, <2>1, <2>2, <2>3
<1>4. ASSUME NEW t \in Transmits, CheckSigned(t) \/ SignRefused(t) \/ WriteSigned(t) \/ LookUp(t) \/ MockReceived(t)
      PROVE  LockInv'
  <2>1. CASE CheckSigned(t)
    BY <2>1, RequestsAssumption DEF CheckSigned, Goes, InTransaction, files
  <2>2. CASE SignRefused(t)
    BY <2>2, RequestsAssumption DEF SignRefused, Rollback, Release, Goes, InTransaction, files
  <2>3. CASE WriteSigned(t)
    BY <2>3, RequestsAssumption DEF WriteSigned, Goes, InTransaction, files
  <2>4. CASE LookUp(t)
    BY <2>4, RequestsAssumption DEF LookUp, Goes, InTransaction, files
  <2>5. CASE MockReceived(t)
    BY <2>5, RequestsAssumption DEF MockReceived, Advance, Release, Goes, InTransaction, files
  <2> QED BY <1>4, <2>1, <2>2, <2>3, <2>4, <2>5
<1> QED BY <1>1, <1>2, <1>3, <1>4 DEF Next, AllocateStep

\* What a step of request r does to itself and to the invoices; other requests stand still.
Steps ==
  {<<"numbered", "storing">>, <<"numbered", "signing">>, <<"storing", "stored">>,
   <<"signing", "signed">>, <<"signed", "stored">>, <<"stored", "flushed">>} \cup
  {<<p, "done">> : p \in InTransaction}

Moves(r) ==
  /\ \A q \in Requests \ {r} : pc'[q] = pc[q] /\ num'[q] = num[q]
  /\ \/ r \in Generates
     \/ r \in Allocating /\ pc[r] \in {"idle", "insert"} /\ pc'[r] \in {"insert", "numbered", "done"}
     \/ r \in Allocating /\ num'[r] = num[r] /\ <<pc[r], pc'[r]>> \in Steps
  /\ \/ registered' = registered
     \/ pc[r] = "flushed" /\ r \in Allocating /\ registered' = registered \cup {<<r, num[r]>>} /\ Commit(r)
  /\ payloads' = payloads \/ \E c \in Creates : WriteStored(c)
  /\ xml' = xml \/ \E t \in Transmits : WriteSigned(t)
  /\ \/ overlaps' = overlaps
     \/ \E c \in Creates : CheckStored(c)
     \/ \E t \in Transmits : CheckSigned(t)
  /\ r \in Creates /\ pc'[r] \in {"storing", "stored"} => CheckStored(r) \/ WriteStored(r)
  /\ r \in Transmits /\ pc'[r] \in {"signing", "signed"} => CheckSigned(r) \/ WriteSigned(r)
  /\ r \in Transmits /\ pc'[r] = "stored" => pc[r] = "signed"
  /\ r \in Allocating /\ pc'[r] = "flushed" => Flush(r)
  /\ \A c \in Creates : seen'[c] = seen[c]

LEMMA StepMoves ==
  ASSUME TypeInv, Next
  PROVE  \E r \in Requests : Moves(r)
<1> USE Kinds DEF TypeInv, TypeOK, GeneratePc, Moves, Steps
<1>1. ASSUME NEW g \in Generates, GenCount(g) \/ GenRead(g) \/ GenWrite(g) \/ GenUsage(g) \/ GenFails(g)
      PROVE  Moves(g)
  <2>1. CASE GenCount(g)
    BY <2>1, RequestsAssumption DEF GenCount, Goes, InTransaction, files
  <2>2. CASE GenRead(g)
    BY <2>2, RequestsAssumption DEF GenRead, Goes, InTransaction, files
  <2>3. CASE GenWrite(g)
    BY <2>3, RequestsAssumption DEF GenWrite, Goes, InTransaction, files
  <2>4. CASE GenUsage(g)
    BY <2>4, RequestsAssumption DEF GenUsage, Goes, InTransaction, files
  <2>5. CASE GenFails(g)
    BY <2>5, RequestsAssumption DEF GenFails, Goes, InTransaction, files
  <2> QED BY <1>1, <2>1, <2>2, <2>3, <2>4, <2>5
<1>2. ASSUME NEW r \in Allocating, Name(r) \/ Allocate(r) \/ AllocateFirst(r) \/ InsertRow(r) \/ InsertRowFails(r) \/ Flush(r) \/ FlushFails(r) \/ Commit(r) \/ Fails(r)
      PROVE  Moves(r)
  <2>1. CASE Name(r)
    BY <2>1, RequestsAssumption DEF Name, Goes, InTransaction, files
  <2>2. CASE Allocate(r)
    BY <2>2, RequestsAssumption DEF Allocate, Goes, Free, InTransaction, files
  <2>3. CASE AllocateFirst(r)
    BY <2>3, RequestsAssumption DEF AllocateFirst, Goes, InTransaction, files
  <2>4. CASE InsertRow(r)
    BY <2>4, RequestsAssumption DEF InsertRow, Goes, Free, InTransaction, files
  <2>5. CASE InsertRowFails(r)
    BY <2>5, RequestsAssumption DEF InsertRowFails, Rollback, Release, Goes, InTransaction, files
  <2>6. CASE Flush(r)
    BY <2>6, RequestsAssumption DEF Flush, Goes, InTransaction, files
  <2>7. CASE FlushFails(r)
    BY <2>7, RequestsAssumption DEF FlushFails, Rollback, Release, Goes, InTransaction, files
  <2>8. CASE Commit(r)
    BY <2>8, RequestsAssumption DEF Commit, Advance, Goes, Release, InTransaction, files
  <2>9. CASE Fails(r)
    BY <2>9, RequestsAssumption DEF Fails, Rollback, Release, Goes, InTransaction, files
  <2> QED BY <1>2, <2>1, <2>2, <2>3, <2>4, <2>5, <2>6, <2>7, <2>8, <2>9
<1>3. ASSUME NEW c \in Creates, CheckStored(c) \/ StoreRefused(c) \/ WriteStored(c)
      PROVE  Moves(c)
  <2>1. CASE CheckStored(c)
    BY <2>1, RequestsAssumption DEF CheckStored, Goes, InTransaction, files
  <2>2. CASE StoreRefused(c)
    BY <2>2, RequestsAssumption DEF StoreRefused, Rollback, Release, Goes, InTransaction, files
  <2>3. CASE WriteStored(c)
    BY <2>3, RequestsAssumption DEF WriteStored, Goes, InTransaction, files
  <2> QED BY <1>3, <2>1, <2>2, <2>3
<1>4. ASSUME NEW t \in Transmits, CheckSigned(t) \/ SignRefused(t) \/ WriteSigned(t) \/ LookUp(t) \/ MockReceived(t)
      PROVE  Moves(t)
  <2>1. CASE CheckSigned(t)
    BY <2>1, RequestsAssumption DEF CheckSigned, Goes, InTransaction, files
  <2>2. CASE SignRefused(t)
    BY <2>2, RequestsAssumption DEF SignRefused, Rollback, Release, Goes, InTransaction, files
  <2>3. CASE WriteSigned(t)
    BY <2>3, RequestsAssumption DEF WriteSigned, Goes, InTransaction, files
  <2>4. CASE LookUp(t)
    BY <2>4, RequestsAssumption DEF LookUp, Goes, InTransaction, files
  <2>5. CASE MockReceived(t)
    BY <2>5, RequestsAssumption DEF MockReceived, Advance, Release, Goes, InTransaction, files
  <2> QED BY <1>4, <2>1, <2>2, <2>3, <2>4, <2>5
<1> QED BY <1>1, <1>2, <1>3, <1>4, Kinds DEF Next, AllocateStep

\* What is registered is done.
LEMMA DoneStep ==
  ASSUME TypeInv, DoneInv, Next
  PROVE  DoneInv'
<1>1. PICK r \in Requests : Moves(r)
  BY StepMoves
<1>2. \A x \in registered : x[1] \in Allocating /\ x[1] \in Requests
  BY Kinds DEF TypeInv, TypeOK
<1>3. \A x \in registered : x[1] # r \/ r \in Generates \/ pc[r] = "done"
  BY <1>1 DEF DoneInv
<1>4. r \in Allocating => <<pc[r], pc'[r]>> \in Steps \/ pc[r] \in {"idle", "insert"}
  BY <1>1, Kinds DEF Moves
<1>5. \A x \in registered : x[1] # r
  BY <1>2, <1>3, <1>4, Kinds DEF Steps, InTransaction
<1>6. pc[r] = "flushed" /\ r \in Allocating => pc'[r] = "done" /\ num'[r] = num[r]
  BY <1>1, Kinds DEF Moves, Steps, InTransaction
<1> QED BY <1>1, <1>2, <1>5, <1>6 DEF DoneInv, Moves

\* Creates that neither look for their file nor write it keep StoreInv.
LEMMA StoreKept ==
  ASSUME TypeInv, StoreInv, payloads' = payloads,
         \A c, q \in Creates : <<c, q>> \in overlaps' <=> <<c, q>> \in overlaps,
         \A c \in Creates :
           /\ pc[c] \notin {"idle", "insert"} => num'[c] = num[c] /\ pc'[c] \notin {"idle", "insert"}
           /\ HasStored(c)' => HasStored(c) /\ pc[c] \notin {"idle", "insert"}
           /\ pc'[c] = "storing" => pc[c] = "storing"
           /\ pc[c] \in {"stored", "flushed", "done"} => pc'[c] \in {"stored", "flushed", "done"}
  PROVE  StoreInv'
<1>1. \A x \in payloads : x[1] \in Creates /\ x = <<x[1], x[2]>>
  BY DEF TypeInv, TypeOK
<1>2. \A x \in payloads : x[2] = num'[x[1]] /\ num'[x[1]] = num[x[1]] /\ pc'[x[1]] \in {"stored", "flushed", "done"}
  BY <1>1 DEF StoreInv
<1>3. \A c \in Creates : HasStored(c)' => \E x \in payloads :
        KeyOf[x[1]] = KeyOf[c] /\ x[2] = num'[c] /\ (x[1] = c \/ Together(c, x[1])')
  BY <1>1 DEF StoreInv, Together
<1>4. ASSUME NEW c \in Creates, NEW q \in Creates, c # q, SameName(c, q)', pc'[c] = "storing",
             pc'[q] = "storing" \/ HasStored(q)' \/ <<q, num'[q]>> \in payloads
      PROVE  Together(c, q)'
  <2>1. pc[c] = "storing" /\ num'[c] = num[c]
    BY <1>4
  <2>2. num'[q] = num[q] /\ (pc[q] = "storing" \/ HasStored(q) \/ <<q, num[q]>> \in payloads)
    BY <1>2, <1>4
  <2>3. SameName(c, q)
    BY <1>4, <2>1, <2>2 DEF SameName
  <2>4. Together(c, q)
    BY <1>4, <2>1, <2>2, <2>3 DEF StoreInv
  <2> QED BY <2>4 DEF Together
<1>5. \A c, q \in Creates : <<c, q>> \in overlaps' =>
        /\ SameName(c, q)' /\ num'[c] \in {Chosen[c], Chosen[q]}
        /\ pc'[c] \notin {"idle", "insert"} /\ pc'[q] \notin {"idle", "insert"}
  BY DEF StoreInv, SameName
<1>6. \A x, y \in payloads : KeyOf[x[1]] = KeyOf[y[1]] /\ x[2] = y[2] => x = y
  BY DEF StoreInv
<1> QED BY <1>2, <1>3, <1>4, <1>5, <1>6 DEF StoreInv

\* A create that looks for its file and finds none: nobody has written it; whoever is
\* about to write it is noted, and of the two at least one has no lock.
LEMMA CheckStoredKeeps ==
  ASSUME TypeInv, LockInv, DoneInv, StoreInv, NEW c \in Creates, CheckStored(c)
  PROVE  StoreInv'
<1>0. /\ c \in Requests /\ c \in Allocating /\ pc[c] = "numbered" /\ pc' = [pc EXCEPT ![c] = "storing"]
      /\ UNCHANGED <<num, registered, payloads>> /\ Stored(KeyOf[c], num[c]) = {}
      /\ overlaps' = overlaps \cup ({c} \X {q \in Creates : pc[q] = "storing" /\ SameName(q, c)})
  BY Kinds DEF CheckStored, Goes
<1>1. pc'[c] = "storing" /\ \A q \in Requests : q # c => pc'[q] = pc[q]
  BY <1>0 DEF TypeInv, TypeOK
<1>2. \A q \in Creates : HasStored(q)' => HasStored(q) /\ q # c
  BY <1>0, <1>1, Kinds DEF HasStored, DoneInv
<1>3. \A x \in payloads : x[1] \in Creates /\ x = <<x[1], x[2]>> /\ ~(KeyOf[x[1]] = KeyOf[c] /\ x[2] = num[c])
  BY <1>0 DEF Stored, TypeInv, TypeOK
<1>4. \A x \in payloads : x[2] = num'[x[1]] /\ pc'[x[1]] \in {"stored", "flushed", "done"}
  BY <1>0, <1>1, <1>3, Kinds DEF StoreInv
<1>5. \A q \in Creates : HasStored(q)' => \E x \in payloads :
        KeyOf[x[1]] = KeyOf[q] /\ x[2] = num'[q] /\ (x[1] = q \/ Together(q, x[1])')
  BY <1>0, <1>2 DEF StoreInv, Together
<1>6. \A q \in Creates : SameName(c, q) => ~HasStored(q) /\ <<q, num[q]>> \notin payloads
  BY <1>3 DEF StoreInv, SameName
<1>7. ASSUME NEW p \in Creates, NEW q \in Creates, p # q, SameName(p, q)', pc'[p] = "storing",
             pc'[q] = "storing" \/ HasStored(q)' \/ <<q, num'[q]>> \in payloads
      PROVE  Together(p, q)'
  <2>0. SameName(p, q) /\ SameName(q, p)
    BY <1>0, <1>7 DEF SameName
  <2>1. CASE p = c
    <3>1. pc[q] = "storing"
      BY <1>0, <1>1, <1>2, <1>6, <1>7, <2>0, <2>1, Kinds
    <3> QED BY <1>0, <2>0, <2>1, <3>1 DEF Together
  <2>2. CASE q = c
    <3>1. pc[p] = "storing"
      BY <1>1, <1>7, <2>2, Kinds
    <3> QED BY <1>0, <2>0, <2>2, <3>1 DEF Together
  <2>3. CASE p # c /\ q # c
    <3>1. pc[p] = "storing" /\ (pc[q] = "storing" \/ HasStored(q) \/ <<q, num[q]>> \in payloads)
      BY <1>0, <1>1, <1>2, <1>7, <2>3, Kinds
    <3>2. Together(p, q)
      BY <1>7, <2>0, <3>1 DEF StoreInv
    <3> QED BY <1>0, <3>2 DEF Together
  <2> QED BY <2>1, <2>2, <2>3
<1>8. ASSUME NEW p \in Creates, NEW q \in Creates, <<p, q>> \in overlaps'
      PROVE  /\ SameName(p, q)' /\ num'[p] \in {Chosen[p], Chosen[q]}
             /\ pc'[p] \notin {"idle", "insert"} /\ pc'[q] \notin {"idle", "insert"}
  <2>1. CASE <<p, q>> \in overlaps
    BY <1>0, <1>1, <2>1, Kinds DEF StoreInv, SameName
  <2>2. CASE <<p, q>> \notin overlaps
    <3>1. p = c /\ pc[q] = "storing" /\ SameName(q, c) /\ q # c
      BY <1>0, <1>8, <2>2
    <3>2. q \in Allocating /\ pc[c] \in InTransaction /\ pc[q] \in InTransaction
      BY <1>0, <3>1, Kinds DEF InTransaction
    <3>3. \A r \in Allocating : Chosen[r] = None /\ pc[r] \in InTransaction => holder[KeyOf[r]] = r
      BY DEF LockInv
    <3>4. Chosen[c] # None \/ Chosen[q] # None
      BY <1>0, <3>1, <3>2, <3>3 DEF SameName
    <3>5. \A r \in Allocating : Chosen[r] # None /\ pc[r] \in InTransaction => num[r] = Chosen[r]
      BY DEF LockInv
    <3>6. num[c] \in {Chosen[c], Chosen[q]}
      BY <1>0, <3>1, <3>2, <3>4, <3>5 DEF SameName
    <3> QED BY <1>0, <1>1, <3>1, <3>6, Kinds DEF SameName
  <2> QED BY <2>1, <2>2
<1>9. \A x, y \in payloads : KeyOf[x[1]] = KeyOf[y[1]] /\ x[2] = y[2] => x = y
  BY DEF StoreInv
<1> QED BY <1>0, <1>4, <1>5, <1>7, <1>8, <1>9 DEF StoreInv

\* A create that writes takes the file from creates that looked for it together with it.
LEMMA WriteStoredKeeps ==
  ASSUME TypeInv, DoneInv, StoreInv, NEW c \in Creates, WriteStored(c)
  PROVE  StoreInv'
<1>0. /\ c \in Requests /\ pc[c] = "storing" /\ pc' = [pc EXCEPT ![c] = "stored"]
      /\ UNCHANGED <<num, registered, overlaps>>
      /\ payloads' = {x \in payloads : ~(KeyOf[x[1]] = KeyOf[c] /\ x[2] = num[c])} \cup {<<c, num[c]>>}
  BY Kinds DEF WriteStored, Goes
<1>1. pc'[c] = "stored" /\ \A q \in Requests : q # c => pc'[q] = pc[q]
  BY <1>0 DEF TypeInv, TypeOK
<1>2. \A q \in Creates : q # c /\ HasStored(q)' => HasStored(q)
  BY <1>0, <1>1, Kinds DEF HasStored
<1>3. \A x \in payloads : x[1] \in Creates /\ x = <<x[1], x[2]>>
  BY DEF TypeInv, TypeOK
<1>4. \A x \in payloads' : x[2] = num'[x[1]] /\ pc'[x[1]] \in {"stored", "flushed", "done"}
  BY <1>0, <1>1, <1>3, Kinds DEF StoreInv
<1>5. \A x, y \in payloads' : KeyOf[x[1]] = KeyOf[y[1]] /\ x[2] = y[2] => x = y
  BY <1>0 DEF StoreInv
<1>6. ASSUME NEW q \in Creates, HasStored(q)'
      PROVE  \E x \in payloads' :
               KeyOf[x[1]] = KeyOf[q] /\ x[2] = num'[q] /\ (x[1] = q \/ Together(q, x[1])')
  <2>1. CASE q = c
    <3> <<c, num[c]>> \in payloads'
      BY <1>0
    <3> WITNESS <<c, num[c]>> \in payloads'
    <3> QED BY <1>0, <2>1
  <2>2. CASE q # c /\ SameName(c, q)
    <3>1. Together(c, q)
      BY <1>0, <1>2, <1>6, <2>2 DEF StoreInv
    <3> <<c, num[c]>> \in payloads'
      BY <1>0
    <3> WITNESS <<c, num[c]>> \in payloads'
    <3> QED BY <1>0, <2>2, <3>1 DEF Together, SameName
  <2>3. CASE q # c /\ ~SameName(c, q)
    <3>1. PICK x \in payloads : KeyOf[x[1]] = KeyOf[q] /\ x[2] = num[q] /\ (x[1] = q \/ Together(q, x[1]))
      BY <1>2, <1>6, <2>3 DEF StoreInv
    <3>2. x \in payloads'
      BY <1>0, <2>3, <3>1 DEF SameName
    <3> QED BY <1>0, <3>1, <3>2 DEF Together
  <2> QED BY <2>1, <2>2, <2>3
<1>7. ASSUME NEW p \in Creates, NEW q \in Creates, p # q, SameName(p, q)', pc'[p] = "storing",
             pc'[q] = "storing" \/ HasStored(q)' \/ <<q, num'[q]>> \in payloads'
      PROVE  Together(p, q)'
  <2>1. SameName(p, q) /\ p # c /\ pc[p] = "storing"
    BY <1>0, <1>1, <1>7, Kinds DEF SameName
  <2>2. pc[q] = "storing" \/ HasStored(q) \/ <<q, num[q]>> \in payloads
    BY <1>0, <1>1, <1>2, <1>7, Kinds
  <2>3. Together(p, q)
    BY <1>7, <2>1, <2>2 DEF StoreInv
  <2> QED BY <1>0, <2>3 DEF Together
<1>8. \A p, q \in Creates : <<p, q>> \in overlaps' =>
        /\ SameName(p, q)' /\ num'[p] \in {Chosen[p], Chosen[q]}
        /\ pc'[p] \notin {"idle", "insert"} /\ pc'[q] \notin {"idle", "insert"}
  BY <1>0, <1>1, Kinds DEF StoreInv, SameName
<1> QED BY <1>4, <1>5, <1>6, <1>7, <1>8 DEF StoreInv

LEMMA StoreStep ==
  ASSUME TypeInv, LockInv, DoneInv, StoreInv, Next
  PROVE  StoreInv'
<1>1. PICK r \in Requests : Moves(r)
  BY StepMoves
<1>2. CASE \E c \in Creates : CheckStored(c) \/ WriteStored(c)
  BY <1>2, CheckStoredKeeps, WriteStoredKeeps
<1>3. CASE ~\E c \in Creates : CheckStored(c) \/ WriteStored(c)
  <2>1. payloads' = payloads
    BY <1>1, <1>3 DEF Moves
  <2>2. \A c, q \in Creates : <<c, q>> \in overlaps' <=> <<c, q>> \in overlaps
    <3>1. CASE overlaps' = overlaps
      BY <3>1
    <3>2. ASSUME NEW t \in Transmits, CheckSigned(t)
          PROVE  \A c, q \in Creates : <<c, q>> \in overlaps' <=> <<c, q>> \in overlaps
      BY <3>2, Kinds DEF CheckSigned
    <3> QED BY <1>1, <1>3, <3>1, <3>2 DEF Moves
  <2>3. ASSUME NEW c \in Creates
        PROVE  /\ pc[c] \notin {"idle", "insert"} => num'[c] = num[c] /\ pc'[c] \notin {"idle", "insert"}
               /\ HasStored(c)' => HasStored(c) /\ pc[c] \notin {"idle", "insert"}
               /\ pc'[c] = "storing" => pc[c] = "storing"
               /\ pc[c] \in {"stored", "flushed", "done"} => pc'[c] \in {"stored", "flushed", "done"}
    <3>1. c \in Requests /\ c \in Allocating /\ c \notin Generates
      BY Kinds
    <3>2. <<c, num[c]>> \in registered => pc[c] = "done"
      BY DEF DoneInv
    <3>3. <<c, num'[c]>> \in registered' => <<c, num'[c]>> \in registered \/ (c = r /\ pc[c] = "flushed")
      BY <1>1 DEF Moves
    <3>4. <<c, num'[c]>> \in registered => pc[c] = "done" /\ num'[c] = num[c]
      BY DEF DoneInv
    <3>5. CASE c # r
      BY <1>1, <3>1, <3>2, <3>3, <3>5 DEF Moves, HasStored
    <3>6. CASE c = r
      <4>1. pc'[c] \notin {"storing", "stored"}
        BY <1>1, <1>3, <3>6 DEF Moves
      <4>2. \/ pc[c] \in {"idle", "insert"} /\ pc'[c] \in {"insert", "numbered", "done"}
            \/ num'[c] = num[c] /\ <<pc[c], pc'[c]>> \in Steps
        BY <1>1, <3>1, <3>6 DEF Moves
      <4> QED BY <3>2, <3>3, <3>4, <4>1, <4>2 DEF HasStored, Steps, InTransaction
    <3> QED BY <3>5, <3>6
  <2> QED BY <2>1, <2>2, <2>3, StoreKept
<1> QED BY <1>2, <1>3

\* A transmit about to write, or that has written, its document.
Wrote(t) == pc[t] = "signing" \/ HasSigned(t)

\* Transmits that neither look for their file nor write it keep SignInv.
LEMMA SignKept ==
  ASSUME TypeInv, SignInv, xml' = xml,
         \A t, q \in Transmits : <<t, q>> \in overlaps' <=> <<t, q>> \in overlaps,
         \A t \in Transmits :
           /\ HasSigned(t)' => HasSigned(t) /\ num'[t] = num[t]
           /\ pc'[t] = "signing" => pc[t] = "signing" /\ num'[t] = num[t]
  PROVE  SignInv'
<1>1. \A t \in Transmits : HasSigned(t)' => \E y \in xml :
        /\ InFile(y, t)'
        /\ y[3] = DocOf[t] \/ \E q \in Transmits : DocOf[q] = y[3] /\ Together(q, t)'
  <2> SUFFICES ASSUME NEW t \in Transmits, HasSigned(t)'
               PROVE  \E y \in xml : /\ InFile(y, t)'
                                     /\ y[3] = DocOf[t] \/ \E q \in Transmits : DocOf[q] = y[3] /\ Together(q, t)'
    OBVIOUS
  <2>1. PICK y \in xml : InFile(y, t) /\ (y[3] = DocOf[t] \/ \E q \in Transmits : DocOf[q] = y[3] /\ Together(q, t))
    BY DEF SignInv
  <2>2. InFile(y, t)'
    BY <2>1 DEF InFile
  <2>3. \A q \in Transmits : Together(q, t) => Together(q, t)'
    BY DEF Together
  <2> QED BY <2>1, <2>2, <2>3
<1>2. ASSUME NEW t \in Transmits, NEW q \in Transmits, SameXmlName(t, q)', Wrote(t)', Wrote(q)'
      PROVE  Wrote(t) /\ Wrote(q) /\ SameXmlName(t, q)
  BY <1>2 DEF Wrote, SameXmlName
<1>3. \A p, q \in Transmits : Together(p, q) => Together(p, q)'
  BY DEF Together
<1>4. \A t, q \in Transmits :
        SameXmlName(t, q)' /\ DocOf[t] # DocOf[q] /\ pc'[q] = "signing" /\ Wrote(t)' =>
          \E p \in Transmits : DocOf[p] = DocOf[q] /\ Together(p, t)'
  <2> SUFFICES ASSUME NEW t \in Transmits, NEW q \in Transmits,
                      SameXmlName(t, q)', DocOf[t] # DocOf[q], pc'[q] = "signing", Wrote(t)'
               PROVE  \E p \in Transmits : DocOf[p] = DocOf[q] /\ Together(p, t)'
    OBVIOUS
  <2>1. \E p \in Transmits : DocOf[p] = DocOf[q] /\ Together(p, t)
    BY <1>2 DEF SignInv, Wrote
  <2> QED BY <1>3, <2>1
<1>5. \A t, q \in Transmits :
        SameXmlName(t, q)' /\ DocOf[t] # DocOf[q] /\ Wrote(t)' /\ Wrote(q)' =>
          \E o, p \in Transmits : DocOf[o] = DocOf[t] /\ DocOf[p] = DocOf[q] /\ Together(o, p)'
  <2> SUFFICES ASSUME NEW t \in Transmits, NEW q \in Transmits,
                      SameXmlName(t, q)', DocOf[t] # DocOf[q], Wrote(t)', Wrote(q)'
               PROVE  \E o, p \in Transmits : DocOf[o] = DocOf[t] /\ DocOf[p] = DocOf[q] /\ Together(o, p)'
    OBVIOUS
  <2>1. \E o, p \in Transmits : DocOf[o] = DocOf[t] /\ DocOf[p] = DocOf[q] /\ Together(o, p)
    BY <1>2 DEF SignInv, Wrote
  <2> QED BY <1>3, <2>1
<1> QED BY <1>1, <1>4, <1>5 DEF SignInv, Wrote

\* A transmit that looks for its file finds its own document or none, and its worker runs no
\* other between this and the write: those about to write another document are on other workers.
LEMMA CheckSignedKeeps ==
  ASSUME TypeInv, DoneInv, SignInv, NEW t \in Transmits, CheckSigned(t)
  PROVE  SignInv'
<1>0. /\ t \in Requests /\ pc[t] = "numbered" /\ pc' = [pc EXCEPT ![t] = "signing"]
      /\ UNCHANGED <<num, registered, xml>> /\ Signed(KeyOf[t], num[t]) \subseteq {DocOf[t]}
      /\ LoopFree(WorkerOf[t])
      /\ overlaps' = overlaps \cup ({t} \X {q \in Transmits : pc[q] = "signing" /\ SameXmlName(q, t)})
  BY Kinds DEF CheckSigned, Goes
<1>1. pc'[t] = "signing" /\ \A q \in Requests : q # t => pc'[q] = pc[q]
  BY <1>0 DEF TypeInv, TypeOK
<1>2. \A q \in Transmits : /\ HasSigned(q)' => HasSigned(q) /\ q # t
                           /\ pc'[q] = "signing" => pc[q] = "signing" \/ q = t
                           /\ Wrote(q)' => Wrote(q) \/ q = t
  BY <1>0, <1>1, Kinds DEF HasSigned, DoneInv, Wrote
<1>3. \A p, q \in Transmits : Together(p, q) => Together(p, q)'
  BY <1>0 DEF Together
<1>4. \A q \in Transmits : pc[q] = "signing" /\ SameXmlName(q, t) => Together(q, t)' /\ Together(t, q)'
  BY <1>0 DEF Together
<1>5. ASSUME NEW q \in Transmits, HasSigned(q), SameXmlName(q, t), DocOf[q] # DocOf[t]
      PROVE  \E p \in Transmits : DocOf[p] = DocOf[t] /\ Together(p, q)
  <2>1. PICK y \in xml : InFile(y, q) /\ (y[3] = DocOf[q] \/ \E p \in Transmits : DocOf[p] = y[3] /\ Together(p, q))
    BY <1>5 DEF SignInv
  <2>2. y = <<y[1], y[2], y[3]>> /\ y[3] \in {DocOf[p] : p \in Transmits}
    BY DEF TypeInv, TypeOK
  <2>3. <<TypeOf[KeyOf[t]], num[t], y[3]>> \in xml
    BY <1>5, <2>1, <2>2 DEF InFile, SameXmlName
  <2>4. y[3] = DocOf[t]
    BY <1>0, <2>2, <2>3 DEF Signed
  <2> QED BY <1>5, <2>1, <2>4
<1>6. ASSUME NEW q \in Transmits, HasSigned(q)'
      PROVE  \E y \in xml : /\ InFile(y, q)'
                            /\ y[3] = DocOf[q] \/ \E p \in Transmits : DocOf[p] = y[3] /\ Together(p, q)'
  <2>1. PICK y \in xml : InFile(y, q) /\ (y[3] = DocOf[q] \/ \E p \in Transmits : DocOf[p] = y[3] /\ Together(p, q))
    BY <1>2, <1>6 DEF SignInv
  <2>2. InFile(y, q)'
    BY <1>0, <2>1 DEF InFile
  <2> QED BY <1>3, <2>1, <2>2
<1>7. ASSUME NEW p \in Transmits, NEW q \in Transmits, SameXmlName(p, q)', DocOf[p] # DocOf[q],
             pc'[q] = "signing", Wrote(p)'
      PROVE  \E o \in Transmits : DocOf[o] = DocOf[q] /\ Together(o, p)'
  <2>0. SameXmlName(p, q) /\ SameXmlName(q, p)
    BY <1>0, <1>7 DEF SameXmlName
  <2>1. CASE q = t
    <3>1. Wrote(p)
      BY <1>2, <1>7, <2>1
    <3>2. CASE pc[p] = "signing"
      BY <1>4, <2>0, <2>1, <3>2
    <3>3. CASE HasSigned(p)
      BY <1>3, <1>5, <1>7, <2>0, <2>1, <3>3
    <3> QED BY <3>1, <3>2, <3>3 DEF Wrote
  <2>2. CASE p = t
    <3>1. pc[q] = "signing"
      BY <1>2, <1>7, <2>2
    <3> QED BY <1>4, <2>0, <2>2, <3>1
  <2>3. CASE p # t /\ q # t
    <3>1. pc[q] = "signing" /\ Wrote(p)
      BY <1>2, <1>7, <2>3
    <3>2. \E o \in Transmits : DocOf[o] = DocOf[q] /\ Together(o, p)
      BY <1>7, <2>0, <3>1 DEF SignInv, Wrote
    <3> QED BY <1>3, <3>2
  <2> QED BY <2>1, <2>2, <2>3
<1>8. ASSUME NEW p \in Transmits, NEW q \in Transmits, SameXmlName(p, q)', DocOf[p] # DocOf[q],
             Wrote(p)', Wrote(q)'
      PROVE  \E o, r \in Transmits : DocOf[o] = DocOf[p] /\ DocOf[r] = DocOf[q] /\ Together(o, r)'
  <2>0. SameXmlName(p, q) /\ SameXmlName(q, p)
    BY <1>0, <1>8 DEF SameXmlName
  <2>1. CASE q = t
    <3>1. Wrote(p)
      BY <1>2, <1>8, <2>1
    <3>2. CASE pc[p] = "signing"
      BY <1>4, <2>0, <2>1, <3>2
    <3>3. CASE HasSigned(p)
      <4>1. \E r \in Transmits : DocOf[r] = DocOf[q] /\ Together(r, p)
        BY <1>5, <1>8, <2>0, <2>1, <3>3
      <4> QED BY <1>3, <4>1 DEF Together
    <3> QED BY <3>1, <3>2, <3>3 DEF Wrote
  <2>2. CASE p = t
    <3>1. Wrote(q)
      BY <1>2, <1>8, <2>2
    <3>2. CASE pc[q] = "signing"
      BY <1>4, <2>0, <2>2, <3>2
    <3>3. CASE HasSigned(q)
      <4>1. \E o \in Transmits : DocOf[o] = DocOf[p] /\ Together(o, q)
        BY <1>5, <1>8, <2>0, <2>2, <3>3
      <4> QED BY <1>3, <4>1
    <3> QED BY <3>1, <3>2, <3>3 DEF Wrote
  <2>3. CASE p # t /\ q # t
    <3>1. Wrote(q) /\ Wrote(p)
      BY <1>2, <1>8, <2>3
    <3>2. \E o, r \in Transmits : DocOf[o] = DocOf[p] /\ DocOf[r] = DocOf[q] /\ Together(o, r)
      BY <1>8, <2>0, <3>1 DEF SignInv, Wrote
    <3> QED BY <1>3, <3>2
  <2> QED BY <2>1, <2>2, <2>3
<1>9. \A p, q \in Transmits : <<p, q>> \in overlaps' => WorkerOf[p] # WorkerOf[q]
  <2>1. \A q \in Transmits : pc[q] = "signing" => WorkerOf[q] # WorkerOf[t]
    BY <1>0 DEF LoopFree, Unawaited
  <2> QED BY <1>0, <2>1 DEF SignInv
<1> QED BY <1>0, <1>6, <1>7, <1>8, <1>9 DEF SignInv, Wrote

\* A transmit that writes takes the file from documents handled together with its own.
LEMMA WriteSignedKeeps ==
  ASSUME TypeInv, DoneInv, SignInv, NEW t \in Transmits, WriteSigned(t)
  PROVE  SignInv'
<1>0. /\ t \in Requests /\ pc[t] = "signing" /\ pc' = [pc EXCEPT ![t] = "signed"]
      /\ UNCHANGED <<num, registered, overlaps>>
      /\ xml' = {y \in xml : ~(y[1] = TypeOf[KeyOf[t]] /\ y[2] = num[t])}
                  \cup {<<TypeOf[KeyOf[t]], num[t], DocOf[t]>>}
  BY Kinds DEF WriteSigned, Goes
<1>1. pc'[t] = "signed" /\ \A q \in Requests : q # t => pc'[q] = pc[q]
  BY <1>0 DEF TypeInv, TypeOK
<1>2. \A q \in Transmits : /\ HasSigned(q)' => HasSigned(q) \/ q = t
                           /\ pc'[q] = "signing" => pc[q] = "signing"
                           /\ Wrote(q)' => Wrote(q)
  BY <1>0, <1>1, Kinds DEF HasSigned, Wrote
<1>3. \A p, q \in Transmits : Together(p, q)' <=> Together(p, q)
  BY <1>0 DEF Together
<1>4. \A p, q \in Transmits : SameXmlName(p, q)' <=> SameXmlName(p, q)
  BY <1>0 DEF SameXmlName
<1>5. \A y, z \in xml' : y[1] = z[1] /\ y[2] = z[2] => y = z
  BY <1>0 DEF SignInv
<1>6. ASSUME NEW q \in Transmits, HasSigned(q)'
      PROVE  \E y \in xml' : /\ InFile(y, q)'
                             /\ y[3] = DocOf[q] \/ \E p \in Transmits : DocOf[p] = y[3] /\ Together(p, q)'
  <2> <<TypeOf[KeyOf[t]], num[t], DocOf[t]>> \in xml'
    BY <1>0
  <2>2. CASE SameXmlName(q, t)
    <3>1. DocOf[q] = DocOf[t] \/ \E p \in Transmits : DocOf[p] = DocOf[t] /\ Together(p, q)
      <4>1. CASE q = t
        BY <4>1
      <4>2. CASE q # t
        BY <1>0, <1>2, <1>6, <2>2, <4>2 DEF SignInv
      <4> QED BY <4>1, <4>2
    <3>2. PICK y \in xml' : y = <<TypeOf[KeyOf[t]], num[t], DocOf[t]>>
      OBVIOUS
    <3>3. InFile(y, q)' /\ y[3] = DocOf[t]
      BY <1>0, <2>2, <3>2 DEF InFile, SameXmlName
    <3> QED BY <1>3, <3>1, <3>3
  <2>3. CASE ~SameXmlName(q, t)
    <3>1. HasSigned(q)
      BY <1>2, <1>6, <2>3 DEF SameXmlName
    <3>2. PICK y \in xml : InFile(y, q) /\ (y[3] = DocOf[q] \/ \E p \in Transmits : DocOf[p] = y[3] /\ Together(p, q))
      BY <3>1 DEF SignInv
    <3>3. y \in xml' /\ InFile(y, q)'
      BY <1>0, <2>3, <3>2 DEF InFile, SameXmlName
    <3> QED BY <1>3, <3>2, <3>3
  <2> QED BY <2>2, <2>3
<1>7. ASSUME NEW p \in Transmits, NEW q \in Transmits, SameXmlName(p, q), DocOf[p] # DocOf[q],
             pc'[q] = "signing", Wrote(p)'
      PROVE  \E o \in Transmits : DocOf[o] = DocOf[q] /\ Together(o, p)
  BY <1>2, <1>7 DEF SignInv, Wrote
<1>8. ASSUME NEW p \in Transmits, NEW q \in Transmits, SameXmlName(p, q), DocOf[p] # DocOf[q],
             Wrote(p)', Wrote(q)'
      PROVE  \E o, r \in Transmits : DocOf[o] = DocOf[p] /\ DocOf[r] = DocOf[q] /\ Together(o, r)
  BY <1>2, <1>8 DEF SignInv, Wrote
<1>9. \A p, q \in Transmits : <<p, q>> \in overlaps' => WorkerOf[p] # WorkerOf[q]
  BY <1>0 DEF SignInv
<1> QED BY <1>3, <1>4, <1>5, <1>6, <1>7, <1>8, <1>9 DEF SignInv, Wrote

LEMMA SignStep ==
  ASSUME TypeInv, DoneInv, SignInv, Next
  PROVE  SignInv'
<1>1. PICK r \in Requests : Moves(r)
  BY StepMoves
<1>2. CASE \E t \in Transmits : CheckSigned(t) \/ WriteSigned(t)
  BY <1>2, CheckSignedKeeps, WriteSignedKeeps
<1>3. CASE ~\E t \in Transmits : CheckSigned(t) \/ WriteSigned(t)
  <2>1. xml' = xml
    BY <1>1, <1>3 DEF Moves
  <2>2. \A t, q \in Transmits : <<t, q>> \in overlaps' <=> <<t, q>> \in overlaps
    <3>1. CASE overlaps' = overlaps
      BY <3>1
    <3>2. ASSUME NEW c \in Creates, CheckStored(c)
          PROVE  \A t, q \in Transmits : <<t, q>> \in overlaps' <=> <<t, q>> \in overlaps
      BY <3>2, Kinds DEF CheckStored
    <3> QED BY <1>1, <1>3, <3>1, <3>2 DEF Moves
  <2>3. ASSUME NEW t \in Transmits
        PROVE  /\ HasSigned(t)' => HasSigned(t) /\ num'[t] = num[t]
               /\ pc'[t] = "signing" => pc[t] = "signing" /\ num'[t] = num[t]
    <3>1. t \in Requests /\ t \in Allocating /\ t \notin Generates
      BY Kinds
    <3>2. <<t, num'[t]>> \in registered' => <<t, num'[t]>> \in registered \/ (t = r /\ pc[t] = "flushed")
      BY <1>1 DEF Moves
    <3>3. <<t, num'[t]>> \in registered => num'[t] = num[t]
      BY DEF DoneInv
    <3>4. CASE t # r
      BY <1>1, <3>1, <3>2, <3>4 DEF Moves, HasSigned
    <3>5. CASE t = r
      <4>1. pc'[t] \notin {"signing", "signed"} /\ (pc'[t] = "stored" => pc[t] = "signed")
        BY <1>1, <1>3, <3>5 DEF Moves
      <4>2. \/ pc[t] \in {"idle", "insert"} /\ pc'[t] \in {"insert", "numbered", "done"}
            \/ num'[t] = num[t] /\ <<pc[t], pc'[t]>> \in Steps
        BY <1>1, <3>1, <3>5 DEF Moves
      <4> QED BY <3>2, <3>3, <4>1, <4>2 DEF HasSigned, Steps, InTransaction
    <3> QED BY <3>4, <3>5
  <2> QED BY <2>1, <2>2, <2>3, SignKept
<1> QED BY <1>2, <1>3

\* next_number moves by one, and by the commit that registers the number.
LEMMA GapsStep ==
  ASSUME TypeInv, LockInv, NoGaps, Next
  PROVE  NoGaps'
<1> USE Kinds DEF TypeInv, TypeOK, GeneratePc, LockInv, NoGaps, Exists
<1>1. ASSUME NEW g \in Generates, GenCount(g) \/ GenRead(g) \/ GenWrite(g) \/ GenUsage(g) \/ GenFails(g)
      PROVE  NoGaps'
  <2>1. CASE GenCount(g)
    BY <2>1, RequestsAssumption DEF GenCount, Goes, InTransaction, files
  <2>2. CASE GenRead(g)
    BY <2>2, RequestsAssumption DEF GenRead, Goes, InTransaction, files
  <2>3. CASE GenWrite(g)
    BY <2>3, RequestsAssumption DEF GenWrite, Goes, InTransaction, files
  <2>4. CASE GenUsage(g)
    BY <2>4, RequestsAssumption DEF GenUsage, Goes, InTransaction, files
  <2>5. CASE GenFails(g)
    BY <2>5, RequestsAssumption DEF GenFails, Goes, InTransaction, files
  <2> QED BY <1>1, <2>1, <2>2, <2>3, <2>4, <2>5
<1>2. ASSUME NEW r \in Allocating, Name(r) \/ Allocate(r) \/ AllocateFirst(r) \/ InsertRow(r) \/ InsertRowFails(r) \/ Flush(r) \/ FlushFails(r) \/ Commit(r) \/ Fails(r)
      PROVE  NoGaps'
  <2>1. CASE Name(r)
    BY <2>1, RequestsAssumption DEF Name, Goes, InTransaction, files
  <2>2. CASE Allocate(r)
    BY <2>2, RequestsAssumption DEF Allocate, Goes, Free, InTransaction, files
  <2>3. CASE AllocateFirst(r)
    BY <2>3, RequestsAssumption DEF AllocateFirst, Goes, InTransaction, files
  <2>4. CASE InsertRow(r)
    BY <2>4, RequestsAssumption DEF InsertRow, Goes, Free, InTransaction, files
  <2>5. CASE InsertRowFails(r)
    BY <2>5, RequestsAssumption DEF InsertRowFails, Rollback, Release, Goes, InTransaction, files
  <2>6. CASE Flush(r)
    BY <2>6, RequestsAssumption DEF Flush, Goes, InTransaction, files
  <2>7. CASE FlushFails(r)
    BY <2>7, RequestsAssumption DEF FlushFails, Rollback, Release, Goes, InTransaction, files
  <2>8. CASE Commit(r)
    <3>1. registered' = registered \cup {<<r, num[r]>>}
          /\ \A k \in Keys : next'[k] = IF holder[k] = r THEN num[r] + 1 ELSE next[k]
      BY <2>8 DEF Commit, Advance
    <3> SUFFICES ASSUME NEW k \in Keys, \A g \in Generates \cup Mockable : KeyOf[g] # k, NEW n \in 1..(next'[k] - 1)
                 PROVE  \E x \in registered' : KeyOf[x[1]] = k /\ x[2] = n
      OBVIOUS
    <3>2. CASE holder[k] = r /\ n = num[r]
      <4>1. KeyOf[r] = k
        BY <3>2
      <4>2. <<r, num[r]>> \in registered' /\ <<r, num[r]>>[1] = r /\ <<r, num[r]>>[2] = n
        BY <3>1, <3>2
      <4> QED BY <4>1, <4>2
    <3>3. CASE ~(holder[k] = r /\ n = num[r])
      <4>1. next[k] \in Nat
        OBVIOUS
      <4>2. holder[k] = r => num[r] = IF next[k] = 0 THEN 1 ELSE next[k]
        BY RequestsAssumption
      <4>3. next'[k] = IF holder[k] = r THEN num[r] + 1 ELSE next[k]
        BY <3>1
      <4>4. n \in 1..(next[k] - 1)
        <5> HIDE Kinds DEF TypeInv, TypeOK, GeneratePc, LockInv, NoGaps, Exists
        <5>1. CASE holder[k] = r
          BY <3>3, <4>1, <4>2, <4>3, <5>1
        <5>2. CASE holder[k] # r
          BY <4>3, <5>2
        <5> QED BY <5>1, <5>2
      <4>5. \E x \in registered : KeyOf[x[1]] = k /\ x[2] = n
        BY <4>4
      <4> QED BY <3>1, <4>5
    <3> QED BY <3>2, <3>3
  <2>9. CASE Fails(r)
    BY <2>9, RequestsAssumption DEF Fails, Rollback, Release, Goes, InTransaction, files
  <2> QED BY <1>2, <2>1, <2>2, <2>3, <2>4, <2>5, <2>6, <2>7, <2>8, <2>9
<1>3. ASSUME NEW c \in Creates, CheckStored(c) \/ StoreRefused(c) \/ WriteStored(c)
      PROVE  NoGaps'
  <2>1. CASE CheckStored(c)
    BY <2>1, RequestsAssumption DEF CheckStored, Goes, InTransaction, files
  <2>2. CASE StoreRefused(c)
    BY <2>2, RequestsAssumption DEF StoreRefused, Rollback, Release, Goes, InTransaction, files
  <2>3. CASE WriteStored(c)
    BY <2>3, RequestsAssumption DEF WriteStored, Goes, InTransaction, files
  <2> QED BY <1>3, <2>1, <2>2, <2>3
<1>4. ASSUME NEW t \in Transmits, CheckSigned(t) \/ SignRefused(t) \/ WriteSigned(t) \/ LookUp(t) \/ MockReceived(t)
      PROVE  NoGaps'
  <2>1. CASE CheckSigned(t)
    BY <2>1, RequestsAssumption DEF CheckSigned, Goes, InTransaction, files
  <2>2. CASE SignRefused(t)
    BY <2>2, RequestsAssumption DEF SignRefused, Rollback, Release, Goes, InTransaction, files
  <2>3. CASE WriteSigned(t)
    BY <2>3, RequestsAssumption DEF WriteSigned, Goes, InTransaction, files
  <2>4. CASE LookUp(t)
    BY <2>4, RequestsAssumption DEF LookUp, Goes, InTransaction, files
  <2>5. CASE MockReceived(t)
    BY <2>5, RequestsAssumption DEF MockReceived, Advance, Release, Goes, InTransaction, files
  <2> QED BY <1>4, <2>1, <2>2, <2>3, <2>4, <2>5
<1> QED BY <1>1, <1>2, <1>3, <1>4 DEF Next, AllocateStep

\* A step that changes nothing keeps the invariant.
LEMMA StutterStep ==
  ASSUME SafeInv, UNCHANGED vars
  PROVE  SafeInv'
<1>1. UNCHANGED <<next, holder, registered, payloads, xml, overlaps, issued, usage, pc, num, seen>>
  BY DEF vars, files
<1>2. TypeInv' /\ LockInv' /\ DoneInv' /\ NoGaps'
  BY <1>1 DEF SafeInv, TypeInv, TypeOK, LockInv, DoneInv, NoGaps, Exists
<1>3. StoreInv'
  BY <1>1 DEF SafeInv, StoreInv, HasStored, Together, SameName
<1>4. SignInv'
  BY <1>1 DEF SafeInv, SignInv, HasSigned, Together, SameXmlName, InFile
<1> QED BY <1>2, <1>3, <1>4 DEF SafeInv

\* The invariant holds at first.
LEMMA SafeInit == Init => SafeInv
<1> SUFFICES ASSUME Init PROVE SafeInv
  OBVIOUS
<1> USE Kinds, RequestsAssumption DEF Init
<1>1. TypeInv
  BY DEF TypeInv, TypeOK, GeneratePc
<1>2. LockInv
  BY DEF LockInv, InTransaction
<1>3. DoneInv /\ StoreInv /\ SignInv
  BY DEF DoneInv, StoreInv, HasStored, SignInv, HasSigned
<1>4. NoGaps
  BY DEF NoGaps
<1> QED BY <1>1, <1>2, <1>3, <1>4 DEF SafeInv

\* The first inductive invariant holds of every behaviour.
THEOREM SafeInvariant == Spec => []SafeInv
<1>1. SafeInv /\ [Next]_vars => SafeInv'
  <2> SUFFICES ASSUME SafeInv, [Next]_vars PROVE SafeInv'
    OBVIOUS
  <2>1. CASE Next
    BY <2>1, TypeStep, LockStep, DoneStep, StoreStep, SignStep, GapsStep DEF SafeInv
  <2>2. CASE UNCHANGED vars
    BY <2>2, StutterStep
  <2> QED BY <2>1, <2>2
<1> QED BY <1>1, SafeInit, PTL DEF Spec

\* Every variable keeps a value of its kind.
THEOREM TypeCorrect == Spec => []TypeOK
<1>1. SafeInv => TypeOK
  BY DEF SafeInv, TypeInv
<1> QED BY <1>1, SafeInvariant, PTL

\* A sequence that only locked allocations use has no gaps, whatever fails,
\* for any number of requests.
THEOREM NoGapsHolds == Spec => []NoGaps
<1>1. SafeInv => NoGaps
  BY DEF SafeInv
<1> QED BY <1>1, SafeInvariant, PTL

\* The file of a registered invoice is its own or that of a request that looked for it
\* together with it; for any number of requests and numbers that clients name.
THEOREM FilesKeptHolds == Spec => []FilesKept
<1>1. SafeInv => FilesKept
  <2> SUFFICES ASSUME SafeInv, NEW x \in registered
               PROVE  /\ x[1] \in Creates =>
                           /\ Stored(KeyOf[x[1]], x[2]) # {}
                           /\ \A c \in Stored(KeyOf[x[1]], x[2]) :
                                \/ c = x[1]
                                \/ Together(c, x[1]) /\ x[2] \in {Chosen[c], Chosen[x[1]]}
                      /\ x[1] \in Transmits =>
                           /\ Signed(KeyOf[x[1]], x[2]) # {}
                           /\ \A d \in Signed(KeyOf[x[1]], x[2]) :
                                \/ d = DocOf[x[1]]
                                \/ \E t \in Transmits :
                                     DocOf[t] = d /\ Together(t, x[1]) /\ WorkerOf[t] # WorkerOf[x[1]]
    BY DEF FilesKept
  <2>1. x = <<x[1], num[x[1]]>> /\ x[2] = num[x[1]] /\ x[1] \in Allocating
    BY DEF SafeInv, TypeInv, TypeOK, DoneInv
  <2>2. ASSUME x[1] \in Creates
        PROVE  /\ Stored(KeyOf[x[1]], x[2]) # {}
               /\ \A c \in Stored(KeyOf[x[1]], x[2]) :
                    c = x[1] \/ (Together(c, x[1]) /\ x[2] \in {Chosen[c], Chosen[x[1]]})
    <3>1. HasStored(x[1])
      BY <2>1 DEF HasStored
    <3>2. PICK y \in payloads : KeyOf[y[1]] = KeyOf[x[1]] /\ y[2] = x[2] /\ (y[1] = x[1] \/ Together(x[1], y[1]))
      BY <2>1, <2>2, <3>1 DEF SafeInv, StoreInv
    <3>3. \A z \in payloads : z = <<z[1], z[2]>> /\ z[1] \in Creates
      BY DEF SafeInv, TypeInv, TypeOK
    <3>4. Stored(KeyOf[x[1]], x[2]) = {y[1]}
      BY <3>2, <3>3 DEF Stored, SafeInv, StoreInv
    <3>5. Together(x[1], y[1]) => x[2] \in {Chosen[y[1]], Chosen[x[1]]}
      BY <2>1, <2>2, <3>3 DEF SafeInv, StoreInv, Together, SameName
    <3> QED BY <3>2, <3>4, <3>5 DEF Together
  <2>3. ASSUME x[1] \in Transmits
        PROVE  /\ Signed(KeyOf[x[1]], x[2]) # {}
               /\ \A d \in Signed(KeyOf[x[1]], x[2]) :
                    d = DocOf[x[1]] \/ \E t \in Transmits :
                      DocOf[t] = d /\ Together(t, x[1]) /\ WorkerOf[t] # WorkerOf[x[1]]
    <3>1. HasSigned(x[1])
      BY <2>1 DEF HasSigned
    <3>2. PICK y \in xml : /\ InFile(y, x[1])
                           /\ y[3] = DocOf[x[1]] \/ \E q \in Transmits : DocOf[q] = y[3] /\ Together(q, x[1])
      BY <2>3, <3>1 DEF SafeInv, SignInv
    <3>3. y = <<y[1], y[2], y[3]>> /\ y[3] \in {DocOf[p] : p \in Transmits}
      BY DEF SafeInv, TypeInv, TypeOK
    <3>4. Signed(KeyOf[x[1]], x[2]) = {y[3]}
      <4>1. \A z \in xml : z[1] = y[1] /\ z[2] = y[2] => z = y
        BY DEF SafeInv, SignInv
      <4>2. y[1] = TypeOf[KeyOf[x[1]]] /\ y[2] = x[2]
        BY <2>1, <3>2 DEF InFile
      <4>3. y[3] \in Signed(KeyOf[x[1]], x[2])
        BY <3>3, <4>2 DEF Signed
      <4>4. \A d \in Signed(KeyOf[x[1]], x[2]) : d = y[3]
        BY <4>1, <4>2 DEF Signed
      <4> QED BY <4>3, <4>4
    <3>5. \A t \in Transmits : Together(t, x[1]) => WorkerOf[t] # WorkerOf[x[1]]
      BY <2>3 DEF SafeInv, SignInv, Together
    <3> QED BY <3>2, <3>4, <3>5
  <2> QED BY <2>2, <2>3
<1> QED BY <1>1, SafeInvariant, PTL

----------------------------------------------------------------------------
\* Numbers.  /ecf/generate takes no lock: on a sequence without rivals one worker handles
\* all its requests and no locked allocation is made.

\* No locked allocation meets a generate request on a sequence without rivals.
LEMMA NoRival ==
  /\ \A g \in Generates, r \in Allocating :
       KeyOf[g] = KeyOf[r] /\ KeyOf[g] \notin Rivalled => Chosen[r] # None
  /\ \A g, h \in Generates :
       KeyOf[g] = KeyOf[h] /\ KeyOf[g] \notin Rivalled => WorkerOf[g] = WorkerOf[h]
BY Kinds DEF Rivalled

\* Without rivals a number taken by a generate request, and a registered automatic one, is
\* below next_number and is nobody else's.
Lone(g) == KeyOf[g] \notin Rivalled

GenerateInv ==
  /\ \A g \in Generates : num[g] # 0 => pc[g] \in {"numbered", "done"}
  /\ \A g \in Generates : num[g] # 0 /\ Lone(g) => num[g] < next[KeyOf[g]]
  /\ \A g \in Generates : pc[g] = "numbered" => num[g] # 0
  /\ \A x \in issued : pc[x[1]] = "done" /\ x[2] = num[x[1]] /\ x[2] # 0
  /\ \A g, h \in Generates : num[g] # 0 /\ num[g] = num[h] /\ KeyOf[g] = KeyOf[h] /\ Lone(g) => g = h
  /\ \A g \in Generates : pc[g] = "read" /\ Lone(g) => seen[g] = next[KeyOf[g]]
  /\ \A g, h \in Generates : pc[g] = "read" /\ pc[h] = "read" /\ KeyOf[g] = KeyOf[h] /\ Lone(g) => g = h

AutomaticInv ==
  /\ \A x \in registered : Chosen[x[1]] = None /\ Lone(x[1]) => x[2] < next[KeyOf[x[1]]]
  /\ \A x, y \in registered :
       Chosen[x[1]] = None /\ Chosen[y[1]] = None /\ KeyOf[x[1]] = KeyOf[y[1]] /\ x[2] = y[2] /\ Lone(x[1]) => x = y

NumberInv == SafeInv /\ GenerateInv /\ AutomaticInv

\* The read and the write of a generate request are one step to its sequence.
LEMMA GenerateStep ==
  ASSUME TypeInv, LockInv, GenerateInv, Next
  PROVE  GenerateInv'
<1> USE Kinds, NoRival DEF Lone, TypeInv, TypeOK, GeneratePc, LockInv, GenerateInv, LoopFree, Unawaited
<1>1. ASSUME NEW g \in Generates, GenCount(g) \/ GenRead(g) \/ GenWrite(g) \/ GenUsage(g) \/ GenFails(g)
      PROVE  GenerateInv'
  <2>1. CASE GenCount(g)
    BY <2>1, RequestsAssumption DEF GenCount, Goes, InTransaction, files
  <2>2. CASE GenRead(g)
    BY <2>2, RequestsAssumption DEF GenRead, Goes, InTransaction, files
  <2>3. CASE GenWrite(g)
    BY <2>3, RequestsAssumption DEF GenWrite, Goes, InTransaction, files
  <2>4. CASE GenUsage(g)
    BY <2>4, RequestsAssumption DEF GenUsage, Goes, InTransaction, files
  <2>5. CASE GenFails(g)
    BY <2>5, RequestsAssumption DEF GenFails, Goes, InTransaction, files
  <2> QED BY <1>1, <2>1, <2>2, <2>3, <2>4, <2>5
<1>2. ASSUME NEW r \in Allocating, Name(r) \/ Allocate(r) \/ AllocateFirst(r) \/ InsertRow(r) \/ InsertRowFails(r) \/ Flush(r) \/ FlushFails(r) \/ Commit(r) \/ Fails(r)
      PROVE  GenerateInv'
  <2>1. CASE Name(r)
    BY <2>1, RequestsAssumption DEF Name, Goes, InTransaction, files
  <2>2. CASE Allocate(r)
    BY <2>2, RequestsAssumption DEF Allocate, Goes, Free, InTransaction, files
  <2>3. CASE AllocateFirst(r)
    BY <2>3, RequestsAssumption DEF AllocateFirst, Goes, InTransaction, files
  <2>4. CASE InsertRow(r)
    BY <2>4, RequestsAssumption DEF InsertRow, Goes, Free, InTransaction, files
  <2>5. CASE InsertRowFails(r)
    BY <2>5, RequestsAssumption DEF InsertRowFails, Rollback, Release, Goes, InTransaction, files
  <2>6. CASE Flush(r)
    BY <2>6, RequestsAssumption DEF Flush, Goes, InTransaction, files
  <2>7. CASE FlushFails(r)
    BY <2>7, RequestsAssumption DEF FlushFails, Rollback, Release, Goes, InTransaction, files
  <2>8. CASE Commit(r)
    BY <2>8, RequestsAssumption DEF Commit, Advance, Goes, Release, InTransaction, files
  <2>9. CASE Fails(r)
    BY <2>9, RequestsAssumption DEF Fails, Rollback, Release, Goes, InTransaction, files
  <2> QED BY <1>2, <2>1, <2>2, <2>3, <2>4, <2>5, <2>6, <2>7, <2>8, <2>9
<1>3. ASSUME NEW c \in Creates, CheckStored(c) \/ StoreRefused(c) \/ WriteStored(c)
      PROVE  GenerateInv'
  <2>1. CASE CheckStored(c)
    BY <2>1, RequestsAssumption DEF CheckStored, Goes, InTransaction, files
  <2>2. CASE StoreRefused(c)
    BY <2>2, RequestsAssumption DEF StoreRefused, Rollback, Release, Goes, InTransaction, files
  <2>3. CASE WriteStored(c)
    BY <2>3, RequestsAssumption DEF WriteStored, Goes, InTransaction, files
  <2> QED BY <1>3, <2>1, <2>2, <2>3
<1>4. ASSUME NEW t \in Transmits, CheckSigned(t) \/ SignRefused(t) \/ WriteSigned(t) \/ LookUp(t) \/ MockReceived(t)
      PROVE  GenerateInv'
  <2>1. CASE CheckSigned(t)
    BY <2>1, RequestsAssumption DEF CheckSigned, Goes, InTransaction, files
  <2>2. CASE SignRefused(t)
    BY <2>2, RequestsAssumption DEF SignRefused, Rollback, Release, Goes, InTransaction, files
  <2>3. CASE WriteSigned(t)
    BY <2>3, RequestsAssumption DEF WriteSigned, Goes, InTransaction, files
  <2>4. CASE LookUp(t)
    BY <2>4, RequestsAssumption DEF LookUp, Goes, InTransaction, files
  <2>5. CASE MockReceived(t)
    BY <2>5, RequestsAssumption DEF MockReceived, Advance, Release, Goes, InTransaction, files
  <2> QED BY <1>4, <2>1, <2>2, <2>3, <2>4, <2>5
<1> QED BY <1>1, <1>2, <1>3, <1>4 DEF Next, AllocateStep

\* The holder of a lock commits the number the row stands at, and moves it on.
LEMMA AutomaticStep ==
  ASSUME TypeInv, LockInv, DoneInv, AutomaticInv, Next
  PROVE  AutomaticInv'
<1> USE Kinds, NoRival DEF Lone, TypeInv, TypeOK, GeneratePc, LockInv, DoneInv, AutomaticInv
<1>1. ASSUME NEW g \in Generates, GenCount(g) \/ GenRead(g) \/ GenWrite(g) \/ GenUsage(g) \/ GenFails(g)
      PROVE  AutomaticInv'
  <2>1. CASE GenCount(g)
    BY <2>1, RequestsAssumption DEF GenCount, Goes, InTransaction, files
  <2>2. CASE GenRead(g)
    BY <2>2, RequestsAssumption DEF GenRead, Goes, InTransaction, files
  <2>3. CASE GenWrite(g)
    BY <2>3, RequestsAssumption DEF GenWrite, Goes, InTransaction, files
  <2>4. CASE GenUsage(g)
    BY <2>4, RequestsAssumption DEF GenUsage, Goes, InTransaction, files
  <2>5. CASE GenFails(g)
    BY <2>5, RequestsAssumption DEF GenFails, Goes, InTransaction, files
  <2> QED BY <1>1, <2>1, <2>2, <2>3, <2>4, <2>5
<1>2. ASSUME NEW r \in Allocating, Name(r) \/ Allocate(r) \/ AllocateFirst(r) \/ InsertRow(r) \/ InsertRowFails(r) \/ Flush(r) \/ FlushFails(r) \/ Commit(r) \/ Fails(r)
      PROVE  AutomaticInv'
  <2>1. CASE Name(r)
    BY <2>1, RequestsAssumption DEF Name, Goes, InTransaction, files
  <2>2. CASE Allocate(r)
    BY <2>2, RequestsAssumption DEF Allocate, Goes, Free, InTransaction, files
  <2>3. CASE AllocateFirst(r)
    BY <2>3, RequestsAssumption DEF AllocateFirst, Goes, InTransaction, files
  <2>4. CASE InsertRow(r)
    BY <2>4, RequestsAssumption DEF InsertRow, Goes, Free, InTransaction, files
  <2>5. CASE InsertRowFails(r)
    BY <2>5, RequestsAssumption DEF InsertRowFails, Rollback, Release, Goes, InTransaction, files
  <2>6. CASE Flush(r)
    BY <2>6, RequestsAssumption DEF Flush, Goes, InTransaction, files
  <2>7. CASE FlushFails(r)
    BY <2>7, RequestsAssumption DEF FlushFails, Rollback, Release, Goes, InTransaction, files
  <2>8. CASE Commit(r)
    BY <2>8, RequestsAssumption DEF Commit, Advance, Goes, Release, InTransaction, files
  <2>9. CASE Fails(r)
    BY <2>9, RequestsAssumption DEF Fails, Rollback, Release, Goes, InTransaction, files
  <2> QED BY <1>2, <2>1, <2>2, <2>3, <2>4, <2>5, <2>6, <2>7, <2>8, <2>9
<1>3. ASSUME NEW c \in Creates, CheckStored(c) \/ StoreRefused(c) \/ WriteStored(c)
      PROVE  AutomaticInv'
  <2>1. CASE CheckStored(c)
    BY <2>1, RequestsAssumption DEF CheckStored, Goes, InTransaction, files
  <2>2. CASE StoreRefused(c)
    BY <2>2, RequestsAssumption DEF StoreRefused, Rollback, Release, Goes, InTransaction, files
  <2>3. CASE WriteStored(c)
    BY <2>3, RequestsAssumption DEF WriteStored, Goes, InTransaction, files
  <2> QED BY <1>3, <2>1, <2>2, <2>3
<1>4. ASSUME NEW t \in Transmits, CheckSigned(t) \/ SignRefused(t) \/ WriteSigned(t) \/ LookUp(t) \/ MockReceived(t)
      PROVE  AutomaticInv'
  <2>1. CASE CheckSigned(t)
    BY <2>1, RequestsAssumption DEF CheckSigned, Goes, InTransaction, files
  <2>2. CASE SignRefused(t)
    BY <2>2, RequestsAssumption DEF SignRefused, Rollback, Release, Goes, InTransaction, files
  <2>3. CASE WriteSigned(t)
    BY <2>3, RequestsAssumption DEF WriteSigned, Goes, InTransaction, files
  <2>4. CASE LookUp(t)
    BY <2>4, RequestsAssumption DEF LookUp, Goes, InTransaction, files
  <2>5. CASE MockReceived(t)
    BY <2>5, RequestsAssumption DEF MockReceived, Advance, Release, Goes, InTransaction, files
  <2> QED BY <1>4, <2>1, <2>2, <2>3, <2>4, <2>5
<1> QED BY <1>1, <1>2, <1>3, <1>4 DEF Next, AllocateStep

\* The invariant holds of every behaviour.
LEMMA NumberHolds == Spec => []NumberInv
<1>1. Init => NumberInv
  <2> SUFFICES ASSUME Init PROVE GenerateInv /\ AutomaticInv
    BY SafeInit DEF NumberInv
  <2>1. GenerateInv
    BY Kinds DEF Init, GenerateInv
  <2>2. AutomaticInv
    BY DEF Init, AutomaticInv
  <2> QED BY <2>1, <2>2
<1>2. NumberInv /\ [Next]_vars => NumberInv'
  <2> SUFFICES ASSUME NumberInv, [Next]_vars PROVE NumberInv'
    OBVIOUS
  <2>1. CASE Next
    BY <2>1, TypeStep, LockStep, DoneStep, StoreStep, SignStep, GapsStep, GenerateStep, AutomaticStep
       DEF NumberInv, SafeInv
  <2>2. CASE UNCHANGED vars
    BY <2>2, StutterStep DEF NumberInv, GenerateInv, AutomaticInv, vars, files
  <2> QED BY <2>1, <2>2
<1> QED BY <1>1, <1>2, PTL DEF Spec

\* No number of a sequence without rivals is given twice, for any number of requests and
\* whatever the requests of other sequences do.
THEOREM AllocatedOnceHolds == Spec => []AllocatedOnce
<1>1. NumberInv => AllocatedOnce
  <2> SUFFICES ASSUME NumberInv, NEW x \in Given, NEW y \in Given,
                      KeyOf[x[1]] \notin Rivalled, KeyOf[x[1]] = KeyOf[y[1]], x[2] = y[2]
               PROVE  x = y
    BY DEF AllocatedOnce
  <2> DEFINE Automatic == {q \in Allocating : Chosen[q] = None /\
                             (pc[q] \in InTransaction \/ <<q, num[q]>> \in registered)}
  <2> USE Kinds, NoRival DEF Lone, NumberInv, SafeInv, TypeInv, TypeOK
  <2>1. \A z \in Given : z \in issued \/ \E q \in Automatic : z = <<q, num[q]>>
    BY DEF Given
  <2>2. CASE x \in issued /\ y \in issued
    BY <2>2 DEF GenerateInv
  <2>3. ASSUME NEW q \in Automatic, NEW r \in Automatic, x = <<q, num[q]>>, y = <<r, num[r]>>
        PROVE  x = y
    BY <2>3, RequestsAssumption DEF AutomaticInv, LockInv
  <2>4. \A z \in issued, q \in Automatic : KeyOf[z[1]] \notin Rivalled => KeyOf[z[1]] # KeyOf[q]
    OBVIOUS
  <2>5. CASE x \in issued /\ y \notin issued
    <3>1. PICK q \in Automatic : y = <<q, num[q]>>
      BY <2>1, <2>5
    <3> QED BY <2>4, <2>5, <3>1
  <2>6. CASE x \notin issued /\ y \in issued
    <3>1. PICK q \in Automatic : x = <<q, num[q]>>
      BY <2>1, <2>6
    <3> QED BY <2>4, <2>6, <3>1
  <2>7. CASE x \notin issued /\ y \notin issued
    BY <2>1, <2>3, <2>7
  <2> QED BY <2>2, <2>5, <2>6, <2>7
<1> QED BY <1>1, NumberHolds, PTL

----------------------------------------------------------------------------
\* The refinement.

\* A request flushes an invoice of a number that no other transaction has flushed; one
\* of the tenant API is the first of its number.
BookInv ==
  /\ \A q, r \in Allocating :
       pc[q] = "flushed" /\ pc[r] = "flushed" /\ KeyOf[q] = KeyOf[r] /\ num[q] = num[r] => q = r
  /\ \A c \in Creates : seen[c] = 0
  /\ \A c \in Creates : pc[c] = "flushed" => ~Exists(KeyOf[c], num[c])

\* A step that registers nothing and flushes nothing keeps it.
LEMMA BookKept ==
  ASSUME BookInv, registered' = registered, \A c \in Creates : seen'[c] = seen[c],
         \A r \in Allocating : pc'[r] = "flushed" => pc[r] = "flushed" /\ num'[r] = num[r]
  PROVE  BookInv'
<1>1. \A c \in Creates : pc'[c] = "flushed" => ~Exists(KeyOf[c], num[c])'
  <2> SUFFICES ASSUME NEW c \in Creates, pc'[c] = "flushed" PROVE ~Exists(KeyOf[c], num[c])'
    OBVIOUS
  <2>1. pc[c] = "flushed" /\ num'[c] = num[c]
    BY Kinds
  <2>2. ~Exists(KeyOf[c], num[c])
    BY <2>1 DEF BookInv
  <2> QED BY <2>1, <2>2 DEF Exists
<1>2. \A q, r \in Allocating :
        pc'[q] = "flushed" /\ pc'[r] = "flushed" /\ KeyOf[q] = KeyOf[r] /\ num'[q] = num'[r] => q = r
  BY DEF BookInv
<1> QED BY <1>1, <1>2 DEF BookInv

\* The flush waits for the invoice of another transaction, and fails where there is
\* one already that the request did not look up.
LEMMA FlushBook ==
  ASSUME TypeInv, BookInv, NEW r \in Allocating, Flush(r)
  PROVE  BookInv'
<1>1. /\ pc[r] = "stored" /\ ~Pending(KeyOf[r], num[r])
      /\ Exists(KeyOf[r], num[r]) => seen[r] = 1
      /\ pc' = [pc EXCEPT ![r] = "flushed"] /\ UNCHANGED <<registered, num, seen>>
      /\ pc \in [Requests -> {"idle", "counted", "read", "insert", "done"} \cup InTransaction]
  BY DEF Flush, Goes, TypeInv, TypeOK
<1>2. pc'[r] = "flushed" /\ \A q \in Requests : q # r => pc'[q] = pc[q]
  BY <1>1, Kinds
<1>4. \A q \in Allocating : pc[q] = "flushed" => ~(KeyOf[q] = KeyOf[r] /\ num[q] = num[r])
  BY <1>1 DEF Pending
<1>5. \A p, q \in Allocating :
        pc'[p] = "flushed" /\ pc'[q] = "flushed" /\ KeyOf[p] = KeyOf[q] /\ num[p] = num[q] => p = q
  BY <1>2, <1>4, Kinds DEF BookInv
<1>6. \A c \in Creates : pc'[c] = "flushed" => ~Exists(KeyOf[c], num[c])
  BY <1>1, <1>2, Kinds DEF BookInv
<1> QED BY <1>1, <1>5, <1>6 DEF BookInv, Exists

\* A commit registers the number of no other transaction that has flushed.
LEMMA CommitBook ==
  ASSUME TypeInv, BookInv, NEW r \in Allocating, Commit(r)
  PROVE  BookInv'
<1>1. /\ pc[r] = "flushed" /\ registered' = registered \cup {<<r, num[r]>>}
      /\ pc' = [pc EXCEPT ![r] = "done"] /\ UNCHANGED <<num, seen>>
      /\ pc \in [Requests -> {"idle", "counted", "read", "insert", "done"} \cup InTransaction]
  BY DEF Commit, Goes, TypeInv, TypeOK
<1>2. pc'[r] = "done" /\ \A q \in Requests : q # r => pc'[q] = pc[q]
  BY <1>1, Kinds
<1>3. \A q \in Allocating : pc'[q] \in InTransaction => pc'[q] = pc[q] /\ q # r
  BY <1>2, Kinds DEF InTransaction
<1>4. \A q \in Allocating : pc[q] = "flushed" /\ q # r => ~(KeyOf[q] = KeyOf[r] /\ num[q] = num[r])
  BY <1>1 DEF BookInv
<1>5. \A c \in Creates : pc'[c] = "flushed" => ~Exists(KeyOf[c], num[c])'
  <2> SUFFICES ASSUME NEW c \in Creates, pc'[c] = "flushed",
                      NEW x \in registered', KeyOf[x[1]] = KeyOf[c], x[2] = num[c]
               PROVE  FALSE
    BY <1>1 DEF Exists
  <2>1. pc[c] = "flushed" /\ c # r /\ c \in Allocating
    BY <1>3, Kinds DEF InTransaction
  <2>2. x \notin registered
    BY <2>1 DEF BookInv, Exists
  <2>3. x[1] = r /\ x[2] = num[r]
    BY <1>1, <2>2
  <2> QED BY <1>4, <2>1, <2>3
<1> QED BY <1>1, <1>3, <1>5 DEF BookInv, InTransaction

\* Every step keeps it.
LEMMA BookInvStep ==
  ASSUME TypeInv, BookInv, [Next]_vars
  PROVE  BookInv'
<1>1. CASE UNCHANGED vars
  BY <1>1, BookKept DEF vars
<1>2. CASE Next
  <2>1. PICK r \in Requests : Moves(r)
    BY <1>2, StepMoves
  <2>2. CASE \E q \in Allocating : Flush(q) \/ Commit(q)
    BY <2>2, FlushBook, CommitBook
  <2>3. CASE ~\E q \in Allocating : Flush(q) \/ Commit(q)
    <3>1. registered' = registered /\ \A c \in Creates : seen'[c] = seen[c]
      BY <2>1, <2>3 DEF Moves
    <3>2. \A q \in Allocating : pc'[q] = "flushed" => q # r
      BY <2>1, <2>3 DEF Moves
    <3>3. \A q \in Allocating : pc'[q] = "flushed" => pc[q] = "flushed" /\ num'[q] = num[q]
      BY <2>1, <3>2, Kinds DEF Moves
    <3> QED BY <3>1, <3>3, BookKept
  <2> QED BY <2>2, <2>3
<1> QED BY <1>1, <1>2

\* What the book does not see.
LEMMA BookStutters ==
  ASSUME UNCHANGED <<next, issued, registered>>
  PROVE  UNCHANGED Book!vars
BY DEF Book!vars

\* The write of a generate request takes a number, the next one if nobody has come between,
\* or shows nothing.
LEMMA GenWriteImplements ==
  ASSUME NumberInv, NEW g \in Generates, GenWrite(g)
  PROVE  [Book!Next]_(Book!vars)
<1>0. /\ KeyOf[g] \in Keys /\ next \in [Keys -> Nat] /\ seen[g] \in Nat
      /\ UNCHANGED <<issued, registered>> /\ pc[g] = "read"
  BY Kinds DEF GenWrite, NumberInv, SafeInv, TypeInv, TypeOK
<1>1. Lone(g) => seen[g] = next[KeyOf[g]]
  BY <1>0 DEF NumberInv, GenerateInv
<1>2. CASE UNCHANGED next
  BY <1>0, <1>2, BookStutters
<1>3. CASE next' = [next EXCEPT ![KeyOf[g]] = (IF seen[g] = 0 THEN 1 ELSE seen[g]) + 1]
  <2>1. next'[KeyOf[g]] = (IF seen[g] = 0 THEN 1 ELSE seen[g]) + 1
    BY <1>0, <1>3
  <2>2. next' = [next EXCEPT ![KeyOf[g]] = next'[KeyOf[g]]] /\ next'[KeyOf[g]] > 1
    <3>1. (IF seen[g] = 0 THEN 1 ELSE seen[g]) + 1 > 1
      BY <1>0
    <3> QED BY <1>3, <2>1, <3>1
  <2>3. Lone(g) => next'[KeyOf[g]] = Book!Number(KeyOf[g]) + 1
    BY <1>1, <2>1 DEF Book!Number
  <2>4. Book!Take(g)
    BY <1>0, <2>2, <2>3 DEF Book!Take, Lone
  <2> QED BY <2>4 DEF Book!Next
<1> QED BY <1>2, <1>3 DEF GenWrite

\* A generate request returns the number it took; without rivals no other has returned it.
LEMMA GenUsageImplements ==
  ASSUME NumberInv, NEW g \in Generates, GenUsage(g)
  PROVE  Book!Return(g)
<1>1. /\ pc[g] = "numbered" /\ num[g] \in Nat /\ num[g] # 0
      /\ Lone(g) => num[g] < next[KeyOf[g]]
      /\ g \in Requests
  BY Kinds DEF GenUsage, NumberInv, SafeInv, TypeInv, TypeOK, GenerateInv
<1>2. \A x \in issued : x[1] \in Generates /\ pc[x[1]] = "done" /\ x[2] = num[x[1]] /\ x[2] # 0
  BY DEF NumberInv, SafeInv, TypeInv, TypeOK, GenerateInv
<1>3. \A x \in issued : x[1] # g
  BY <1>1, <1>2
<1>4. Lone(g) => num[g] \notin Book!Of(issued, KeyOf[g])
  <2> SUFFICES ASSUME Lone(g), NEW x \in issued, KeyOf[x[1]] = KeyOf[g], x[2] = num[g]
               PROVE  FALSE
    BY DEF Book!Of
  <2>1. x[1] = g
    BY <1>1, <1>2 DEF NumberInv, GenerateInv
  <2> QED BY <1>3, <2>1
<1>5. issued' = issued \cup {<<g, num[g]>>} /\ UNCHANGED <<next, registered>>
  BY DEF GenUsage
<1>6. \E x \in issued' :
        /\ x[1] = g /\ x[2] > 0 /\ issued' = issued \cup {x}
        /\ KeyOf[g] \notin Rivalled => x[2] < next[KeyOf[g]] /\ x[2] \notin Book!Of(issued, KeyOf[g])
  <2> <<g, num[g]>> \in issued'
    BY <1>5
  <2> WITNESS <<g, num[g]>> \in issued'
  <2> QED BY <1>1, <1>4, <1>5 DEF Lone
<1> QED BY <1>3, <1>5, <1>6 DEF Book!Return

\* An invoice that is registered fits the ones that are.
LEMMA CommitFits ==
  ASSUME NumberInv, BookInv, NEW r \in Allocating, Commit(r)
  PROVE  /\ \A x \in registered : x[1] # r
         /\ Book!Fits(r, num[r])
<1>1. pc[r] = "flushed" /\ registered \subseteq Allocating \X Nat
  BY DEF Commit, NumberInv, SafeInv, TypeInv, TypeOK
<1>2. \A x \in registered : pc[x[1]] = "done" /\ x[2] = num[x[1]]
  BY DEF NumberInv, SafeInv, DoneInv
<1>3. \A x \in registered : x[1] # r
  BY <1>1, <1>2
<1>4. r \in Creates => num[r] \notin Book!Of(registered, KeyOf[r])
  BY <1>1 DEF BookInv, Exists, Book!Of
<1>5. ASSUME r \in Transmits, NEW x \in registered, x[1] \in Transmits, KeyOf[x[1]] = KeyOf[r],
             x[2] = num[r], DocOf[x[1]] # DocOf[r]
      PROVE  \E p, q \in Transmits :
               DocOf[p] = DocOf[r] /\ DocOf[q] = DocOf[x[1]] /\ WorkerOf[p] # WorkerOf[q]
  <2>1. x = <<x[1], num[x[1]]>> /\ num[x[1]] = num[r]
    BY <1>1, <1>2, <1>5
  <2>2. HasSigned(r) /\ HasSigned(x[1]) /\ SameXmlName(r, x[1])
    BY <1>1, <1>5, <2>1 DEF HasSigned, SameXmlName
  <2>3. PICK p \in Transmits, q \in Transmits :
          DocOf[p] = DocOf[r] /\ DocOf[q] = DocOf[x[1]] /\ Together(p, q)
    BY <1>5, <2>2 DEF NumberInv, SafeInv, SignInv
  <2>4. WorkerOf[p] # WorkerOf[q]
    BY <2>3 DEF NumberInv, SafeInv, SignInv, Together
  <2> QED BY <2>3, <2>4
<1> QED BY <1>3, <1>4, <1>5 DEF Book!Fits

\* A commit registers the invoice and moves its sequence on, if it has the lock.
LEMMA CommitImplements ==
  ASSUME NumberInv, BookInv, NEW r \in Allocating, Commit(r)
  PROVE  Book!Next
<1>1. /\ pc[r] = "flushed" /\ registered' = registered \cup {<<r, num[r]>>} /\ issued' = issued
      /\ next' = [k \in Keys |-> IF holder[k] = r THEN num[r] + 1 ELSE next[k]]
      /\ next \in [Keys -> Nat] /\ KeyOf[r] \in Keys /\ r # None /\ r \in Creates \cup Transmits
  BY Kinds DEF Commit, Advance, NumberInv, SafeInv, TypeInv, TypeOK, Allocating
<1>2. \A k \in Keys : holder[k] = r =>
        /\ KeyOf[r] = k /\ Chosen[r] = None
        /\ num[r] = IF next[k] = 0 THEN 1 ELSE next[k]
  BY <1>1 DEF NumberInv, SafeInv, LockInv
<1>3. CASE Chosen[r] = None
  <2>1. holder[KeyOf[r]] = r
    BY <1>1, <1>3 DEF NumberInv, SafeInv, LockInv, InTransaction
  <2>2. num[r] = Book!Number(KeyOf[r])
    BY <1>1, <1>2, <2>1 DEF Book!Number
  <2>3. next' = [next EXCEPT ![KeyOf[r]] = num[r] + 1]
    BY <1>1, <1>2, <2>1
  <2>4. Book!Register(r, num[r])
    BY <1>1, <1>3, <2>2, <2>3, CommitFits DEF Book!Register
  <2> QED BY <1>1, <2>2, <2>4 DEF Book!Next
<1>4. CASE Chosen[r] # None
  <2>1. next' = next
    BY <1>1, <1>2, <1>4
  <2>2. num[r] = Chosen[r]
    BY <1>1, <1>4 DEF NumberInv, SafeInv, LockInv, InTransaction
  <2>3. Book!Register(r, num[r])
    BY <1>1, <1>4, <2>1, <2>2, CommitFits DEF Book!Register
  <2> QED BY <1>1, <2>2, <2>3 DEF Book!Next
<1> QED BY <1>3, <1>4

\* A number that the mock mode commits is skipped.
LEMMA MockImplements ==
  ASSUME NumberInv, NEW t \in Transmits, MockReceived(t)
  PROVE  [Book!Next]_(Book!vars)
<1>1. /\ pc[t] = "numbered" /\ t \in Mockable /\ UNCHANGED <<issued, registered>>
      /\ next' = [k \in Keys |-> IF holder[k] = t THEN num[t] + 1 ELSE next[k]]
      /\ next \in [Keys -> Nat] /\ KeyOf[t] \in Keys /\ t # None /\ t \in Allocating
  BY Kinds DEF MockReceived, Advance, NumberInv, SafeInv, TypeInv, TypeOK
<1>2. \A k \in Keys : holder[k] = t =>
        KeyOf[t] = k /\ Chosen[t] = None /\ num[t] = IF next[k] = 0 THEN 1 ELSE next[k]
  BY <1>1 DEF NumberInv, SafeInv, LockInv
<1>3. CASE Chosen[t] = None
  <2>1. holder[KeyOf[t]] = t
    BY <1>1, <1>3 DEF NumberInv, SafeInv, LockInv, InTransaction
  <2>2. num[t] = Book!Number(KeyOf[t])
    BY <1>1, <1>2, <2>1 DEF Book!Number
  <2>3. next' = [next EXCEPT ![KeyOf[t]] = num[t] + 1]
    BY <1>1, <1>2, <2>1
  <2>4. Book!Skip(t)
    BY <1>1, <1>3, <2>2, <2>3 DEF Book!Skip
  <2> QED BY <1>1, <2>4 DEF Book!Next
<1>4. CASE Chosen[t] # None
  <2>1. next' = next
    BY <1>1, <1>2, <1>4
  <2> QED BY <1>1, <2>1, BookStutters
<1> QED BY <1>3, <1>4

\* Every step is a step of the book, or none.
LEMMA StepImplements ==
  ASSUME NumberInv, BookInv, [Next]_vars
  PROVE  [Book!Next]_(Book!vars)
<1>1. ASSUME UNCHANGED <<next, issued, registered>> PROVE [Book!Next]_(Book!vars)
  BY <1>1, BookStutters
<1>2. ASSUME NEW g \in Generates, GenCount(g) \/ GenRead(g) \/ GenFails(g)
      PROVE  UNCHANGED <<next, issued, registered>>
  BY <1>2 DEF GenCount, GenRead, GenFails
<1>3. ASSUME NEW g \in Generates, GenUsage(g) PROVE Book!Next
  BY <1>3, GenUsageImplements DEF Book!Next
<1>4. ASSUME NEW r \in Allocating, AllocateStep(r), ~Commit(r)
      PROVE  UNCHANGED <<next, issued, registered>>
  BY <1>4 DEF AllocateStep, Name, Allocate, AllocateFirst, InsertRow, InsertRowFails, Flush, FlushFails,
              Fails, Rollback
<1>5. ASSUME NEW c \in Creates, CheckStored(c) \/ StoreRefused(c) \/ WriteStored(c)
      PROVE  UNCHANGED <<next, issued, registered>>
  BY <1>5 DEF CheckStored, WriteStored, StoreRefused, Rollback
<1>6. ASSUME NEW t \in Transmits, CheckSigned(t) \/ SignRefused(t) \/ WriteSigned(t) \/ LookUp(t)
      PROVE  UNCHANGED <<next, issued, registered>>
  BY <1>6 DEF CheckSigned, SignRefused, WriteSigned, LookUp, Rollback
<1>7. UNCHANGED vars => UNCHANGED <<next, issued, registered>>
  BY DEF vars
<1> QED BY <1>1, <1>2, <1>3, <1>4, <1>5, <1>6, <1>7, GenWriteImplements, CommitImplements, MockImplements DEF Next

\* Requests, however they overlap and fail, do to sequences, returned numbers and invoices
\* only what the book allows.
THEOREM ImplementsBookHolds == Spec => ImplementsBook
<1>1. Init => BookInv /\ Book!Init
  BY Kinds DEF Init, BookInv, Book!Init
<1>2. NumberInv /\ BookInv /\ [Next]_vars => BookInv' /\ [Book!Next]_(Book!vars)
  BY BookInvStep, StepImplements DEF NumberInv, SafeInv
<1> QED BY <1>1, <1>2, NumberHolds, PTL DEF Spec, ImplementsBook, Book!Spec
=============================================================================

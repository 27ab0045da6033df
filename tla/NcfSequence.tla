---------------------------- MODULE NcfSequence ----------------------------
(***************************************************************************)
(* Document numbers: the sequences row of a tenant and document type, and  *)
(* the three endpoints that take numbers from it.                          *)
(*                                                                         *)
(* POST /ecf/generate reads the row and writes the number it read plus     *)
(* one, in a transaction of its own, with no lock.  It does so without an  *)
(* await in an `async def`: only requests of other workers come between.   *)
(* The tenant API and the Odoo router take the row FOR UPDATE and keep it  *)
(* until their transaction, which registers the invoice, ends; a client    *)
(* may also name the number itself, and then the row is not touched.  The  *)
(* payload, or the signed XML, is a file that no rollback removes.  It is  *)
(* looked for first and written next, by threads (tenant API) and worker   *)
(* processes (Odoo) that come between the two.                             *)
(*                                                                         *)
(* An Odoo request also stops its worker while it waits for a lock; the    *)
(* module FiscalOperation is about that, and here it may always go on.     *)
(***************************************************************************)
EXTENDS Integers, FiniteSets

CONSTANTS
  Keys,       \* sequences: one per tenant and document type
  Generates,  \* POST /ecf/generate requests
  Creates,    \* POST /tenant-api/invoices requests
  Transmits,  \* POST /odoo/invoices/transmit requests
  TypeOf,     \* TypeOf[k]: the document type of sequence k
  KeyOf,      \* KeyOf[r]: the sequence of request r
  WorkerOf,   \* WorkerOf[r]: the worker process of a generate or transmit request
  Chosen,     \* Chosen[r]: the number the client of r names, or None
  DocOf,      \* DocOf[t]: the document a transmit request carries
  Mockable,   \* transmit requests that odoo_transmit_mock, if on, may meet
  Quota,      \* documents the plan allows in a month; 0: no limit
  None

Allocating == Creates \cup Transmits
Requests   == Generates \cup Allocating

ASSUME RequestsAssumption ==
  /\ KeyOf \in [Requests -> Keys] /\ DOMAIN TypeOf = Keys
  /\ DOMAIN WorkerOf = Generates \cup Transmits /\ DOMAIN DocOf = Transmits
  /\ Mockable \subseteq Transmits
  /\ Chosen \in [Allocating -> (Nat \ {0}) \cup {None}] /\ Quota \in Nat
  /\ Generates \cap Allocating = {} /\ Creates \cap Transmits = {}
  /\ None \notin Nat \cup Requests

VARIABLES
  next,       \* committed next_number of each row; 0: there is no row
  holder,     \* the request whose transaction has the row locked
  registered, \* invoices committed: <<request, number>>
  payloads,   \* tenant-api/{tenant}/{encf}.json and who wrote it: <<request, number>>
  xml,        \* xml/{encf}.xml: <<type, number, document>>, of all tenants
  overlaps,   \* history: <<later, earlier>>, who looked for one file before either wrote it
  issued,     \* NCFs given to generate requests: <<request, number>>
  usage,      \* generate requests with a UsageRecord
  pc, num, seen

files == <<payloads, xml, overlaps>>
vars  == <<next, holder, registered, files, issued, usage, pc, num, seen>>

Init ==
  /\ next = [k \in Keys |-> 0] /\ holder = [k \in Keys |-> None]
  /\ registered = {} /\ payloads = {} /\ xml = {} /\ overlaps = {}
  /\ issued = {} /\ usage = {}
  /\ pc = [r \in Requests |-> "idle"] /\ num = [r \in Requests |-> 0]
  /\ seen = [r \in Requests |-> 0]

Goes(r, step) == pc' = [pc EXCEPT ![r] = step]

----------------------------------------------------------------------------
\* generate_ecf.

\* Between these steps and the next one of its request a worker runs no other.
Unawaited == {"read", "signing", "signed"}

LoopFree(w) == \A q \in Generates \cup Transmits : WorkerOf[q] = w => pc[q] \notin Unawaited

\* The usage of the month is counted; a request over the quota is refused.
GenCount(g) ==
  /\ pc[g] = "idle" /\ LoopFree(WorkerOf[g])
  /\ LET used == {u \in usage : KeyOf[u] = KeyOf[g]} IN
     Goes(g, IF Quota > 0 /\ Cardinality(used) >= Quota THEN "done" ELSE "counted")
  /\ UNCHANGED <<next, holder, registered, files, issued, usage, num, seen>>

\* _next_seq_sync: the SELECT,
GenRead(g) ==
  /\ pc[g] = "counted" /\ LoopFree(WorkerOf[g])
  /\ seen' = [seen EXCEPT ![g] = next[KeyOf[g]]] /\ Goes(g, "read")
  /\ UNCHANGED <<next, holder, registered, files, issued, usage, num>>

\* and the UPDATE, or the INSERT that fails when the row is there by now.
GenWrite(g) ==
  LET k == KeyOf[g]
      n == IF seen[g] = 0 THEN 1 ELSE seen[g] IN
  /\ pc[g] = "read" /\ holder[k] = None
  /\ \/ /\ seen[g] = 0 => next[k] = 0
        /\ next' = [next EXCEPT ![k] = n + 1]
        /\ num' = [num EXCEPT ![g] = n] /\ Goes(g, "numbered")
     \/ /\ seen[g] = 0 /\ next[k] # 0
        /\ Goes(g, "done") /\ UNCHANGED <<next, num>>
  /\ UNCHANGED <<holder, registered, files, issued, usage, seen>>

\* The usage record is committed and the number returned.
GenUsage(g) ==
  /\ pc[g] = "numbered" /\ LoopFree(WorkerOf[g])
  /\ usage' = usage \cup {g} /\ issued' = issued \cup {<<g, num[g]>>} /\ Goes(g, "done")
  /\ UNCHANGED <<next, holder, registered, files, num, seen>>

\* It is not: the number is lost.
GenFails(g) ==
  /\ pc[g] \in {"counted", "numbered"} /\ Goes(g, "done")
  /\ UNCHANGED <<next, holder, registered, files, issued, usage, num, seen>>

----------------------------------------------------------------------------
\* _allocate_encf and the two handlers that call it.

Free(k) == holder[k] = None

\* The lock of r goes with its transaction, and what it wrote with a rollback.
Release(r) == holder' = [k \in Keys |-> IF holder[k] = r THEN None ELSE holder[k]]

\* With a commit the row that r has locked moves on.
Advance(r) ==
  /\ Release(r)
  /\ next' = [k \in Keys |-> IF holder[k] = r THEN num[r] + 1 ELSE next[k]]

ReleaseAdvancing(r) ==
  Advance(r) /\ Goes(r, "done") /\ UNCHANGED <<registered, files, issued, usage, num, seen>>

Rollback(r) ==
  /\ Release(r) /\ Goes(r, "done")
  /\ UNCHANGED <<next, registered, files, issued, usage, num, seen>>

NameUnchecked(r) ==
  /\ pc[r] = "idle"
  /\ num' = [num EXCEPT ![r] = Chosen[r]] /\ Goes(r, "numbered")
  /\ UNCHANGED <<next, holder, registered, files, issued, usage, seen>>

\* The number the client names.
Name(r) ==
  /\ pc[r] = "idle" /\ Chosen[r] # None
  /\ num' = [num EXCEPT ![r] = Chosen[r]] /\ Goes(r, "numbered")
  /\ UNCHANGED <<next, holder, registered, files, issued, usage, seen>>

AllocateUnlocked(r) ==
  LET k == KeyOf[r] IN
  /\ pc[r] = "idle" /\ Chosen[r] = None /\ next[k] # 0
  /\ holder' = [holder EXCEPT ![k] = r]
  /\ num' = [num EXCEPT ![r] = next[k]] /\ Goes(r, "numbered")
  /\ UNCHANGED <<next, registered, files, issued, usage, seen>>

\* SELECT ... FOR UPDATE of a row that is there.
Allocate(r) ==
  LET k == KeyOf[r] IN
  /\ pc[r] = "idle" /\ Chosen[r] = None /\ next[k] # 0 /\ Free(k)
  /\ holder' = [holder EXCEPT ![k] = r]
  /\ num' = [num EXCEPT ![r] = next[k]] /\ Goes(r, "numbered")
  /\ UNCHANGED <<next, registered, files, issued, usage, seen>>

\* It is not there; one INSERT succeeds, those it kept waiting fail.
AllocateFirst(r) ==
  /\ pc[r] = "idle" /\ Chosen[r] = None /\ next[KeyOf[r]] = 0
  /\ Goes(r, "insert") /\ UNCHANGED <<next, holder, registered, files, issued, usage, num, seen>>

InsertRow(r) ==
  LET k == KeyOf[r] IN
  /\ pc[r] = "insert" /\ Free(k) /\ next[k] = 0
  /\ holder' = [holder EXCEPT ![k] = r]
  /\ num' = [num EXCEPT ![r] = 1] /\ Goes(r, "numbered")
  /\ UNCHANGED <<next, registered, files, issued, usage, seen>>

InsertRowFails(r) ==
  pc[r] = "insert" /\ Free(KeyOf[r]) /\ next[KeyOf[r]] # 0 /\ Rollback(r)

\* The request whose payload is in the file of number n of k, and the document in the
\* signed file, whose name has no tenant.
Stored(k, n) == {c \in Creates : KeyOf[c] = k /\ <<c, n>> \in payloads}
Signed(k, n) == {d \in {DocOf[t] : t \in Transmits} : <<TypeOf[k], n, d>> \in xml}
Exists(k, n) == \E x \in registered : KeyOf[x[1]] = k /\ x[2] = n

SameName(q, r)    == num[q] = num[r] /\ KeyOf[q] = KeyOf[r]
SameXmlName(q, r) == num[q] = num[r] /\ TypeOf[KeyOf[q]] = TypeOf[KeyOf[r]]

CheckNothing(c) ==
  /\ pc[c] = "numbered"
  /\ overlaps' = overlaps \cup ({c} \X {q \in Creates : pc[q] = "storing" /\ SameName(q, c)})
  /\ Goes(c, "storing")
  /\ UNCHANGED <<next, holder, registered, payloads, xml, issued, usage, num, seen>>

\* create_invoice, store_bytes: a payload that is there is not replaced,
CheckStored(c) ==
  /\ pc[c] = "numbered" /\ Stored(KeyOf[c], num[c]) = {}
  /\ overlaps' = overlaps \cup ({c} \X {q \in Creates : pc[q] = "storing" /\ SameName(q, c)})
  /\ Goes(c, "storing")
  /\ UNCHANGED <<next, holder, registered, payloads, xml, issued, usage, num, seen>>

StoreRefused(c) ==
  pc[c] = "numbered" /\ Stored(KeyOf[c], num[c]) # {} /\ Rollback(c)

\* but one that another thread or worker wrote since is.
WriteStored(c) ==
  /\ pc[c] = "storing"
  /\ payloads' = {x \in payloads : ~(KeyOf[x[1]] = KeyOf[c] /\ x[2] = num[c])} \cup {<<c, num[c]>>}
  /\ Goes(c, "stored")
  /\ UNCHANGED <<next, holder, registered, xml, overlaps, issued, usage, num, seen>>

\* submit_ecf, persist: the signed file is that of this document or of none,
CheckSigned(t) ==
  /\ pc[t] = "numbered" /\ LoopFree(WorkerOf[t])
  /\ Signed(KeyOf[t], num[t]) \subseteq {DocOf[t]}
  /\ overlaps' = overlaps \cup ({t} \X {q \in Transmits : pc[q] = "signing" /\ SameXmlName(q, t)})
  /\ Goes(t, "signing")
  /\ UNCHANGED <<next, holder, registered, payloads, xml, issued, usage, num, seen>>

SignRefused(t) ==
  /\ pc[t] = "numbered" /\ LoopFree(WorkerOf[t])
  /\ ~(Signed(KeyOf[t], num[t]) \subseteq {DocOf[t]})
  /\ Rollback(t)

\* or of what another worker wrote since;
WriteSigned(t) ==
  /\ pc[t] = "signing"
  /\ xml' = {y \in xml : ~(y[1] = TypeOf[KeyOf[t]] /\ y[2] = num[t])}
              \cup {<<TypeOf[KeyOf[t]], num[t], DocOf[t]>>}
  /\ Goes(t, "signed")
  /\ UNCHANGED <<next, holder, registered, payloads, overlaps, issued, usage, num, seen>>

\* then the invoice of this number is looked up.
LookUp(t) ==
  /\ pc[t] = "signed"
  /\ seen' = [seen EXCEPT ![t] = IF Exists(KeyOf[t], num[t]) THEN 1 ELSE 0] /\ Goes(t, "stored")
  /\ UNCHANGED <<next, holder, registered, files, issued, usage, num>>

\* In mock mode Odoo's request ends here: its number is committed, nothing is registered.
MockReceived(t) ==
  /\ pc[t] = "numbered" /\ t \in Mockable
  /\ Advance(t) /\ Goes(t, "done") /\ UNCHANGED <<registered, files, issued, usage, num, seen>>

\* Another transaction has flushed an invoice with this number of k.
Pending(k, n) ==
  \E q \in Allocating : pc[q] = "flushed" /\ KeyOf[q] = k /\ num[q] = n

FlushUnseen(r) ==
  /\ pc[r] = "stored"
  /\ Exists(KeyOf[r], num[r]) => seen[r] = 1
  /\ Goes(r, "flushed") /\ UNCHANGED <<next, holder, registered, files, issued, usage, num, seen>>

\* The invoice is inserted, or that of an earlier request updated.
Flush(r) ==
  /\ pc[r] = "stored" /\ ~Pending(KeyOf[r], num[r])
  /\ Exists(KeyOf[r], num[r]) => seen[r] = 1
  /\ Goes(r, "flushed") /\ UNCHANGED <<next, holder, registered, files, issued, usage, num, seen>>

FlushFails(r) ==
  /\ pc[r] = "stored" /\ ~Pending(KeyOf[r], num[r])
  /\ Exists(KeyOf[r], num[r]) /\ seen[r] = 0
  /\ Rollback(r)

\* The rest of the handler, DGII included, and the commit.
Commit(r) ==
  /\ pc[r] = "flushed"
  /\ registered' = registered \cup {<<r, num[r]>>}
  /\ Advance(r) /\ Goes(r, "done")
  /\ UNCHANGED <<files, issued, usage, num, seen>>

InTransaction == {"numbered", "storing", "signing", "signed", "stored", "flushed"}

\* Anything else that fails, the process included.
Fails(r) == pc[r] \in InTransaction /\ Rollback(r)

AllocateStep(r) == \/ Name(r) \/ Allocate(r) \/ AllocateFirst(r) \/ InsertRow(r) \/ InsertRowFails(r)
                   \/ Flush(r) \/ FlushFails(r) \/ Commit(r) \/ Fails(r)

Next ==
  \/ \E g \in Generates : GenCount(g) \/ GenRead(g) \/ GenWrite(g) \/ GenUsage(g) \/ GenFails(g)
  \/ \E r \in Allocating : AllocateStep(r)
  \/ \E c \in Creates : CheckStored(c) \/ StoreRefused(c) \/ WriteStored(c)
  \/ \E t \in Transmits : CheckSigned(t) \/ SignRefused(t) \/ WriteSigned(t) \/ LookUp(t)
                            \/ MockReceived(t)

Spec == Init /\ [][Next]_vars

----------------------------------------------------------------------------
\* Properties.

\* Every variable holds a value of its kind.
TypeOK ==
  /\ next \in [Keys -> Nat] /\ holder \in [Keys -> Allocating \cup {None}]
  /\ registered \subseteq Allocating \X Nat /\ payloads \subseteq Creates \X Nat
  /\ xml \subseteq {TypeOf[k] : k \in Keys} \X Nat \X {DocOf[t] : t \in Transmits}
  /\ overlaps \subseteq Allocating \X Allocating
  /\ issued \subseteq Generates \X Nat /\ usage \subseteq Generates
  /\ pc \in [Requests -> {"idle", "counted", "read", "insert", "done"} \cup InTransaction]
  /\ num \in [Requests -> Nat] /\ seen \in [Requests -> Nat]

\* Numbers the platform gave: those returned, committed, or in a transaction.
Given ==
  issued \cup {<<r, num[r]>> : r \in {q \in Allocating : Chosen[q] = None /\
    (pc[q] \in InTransaction \/ <<q, num[q]>> \in registered)}}

\* No number of a sequence is given twice.
NumberedOnce ==
  \A x, y \in Given : KeyOf[x[1]] = KeyOf[y[1]] /\ x[2] = y[2] => x = y

\* Sequences whose generate requests have a rival: one on another worker, or a locked
\* allocation.
Rivalled ==
  {k \in Keys : \E g \in Generates, r \in Requests :
     /\ KeyOf[g] = k /\ KeyOf[r] = k
     /\ IF r \in Generates THEN WorkerOf[r] # WorkerOf[g] ELSE Chosen[r] = None}

\* No number of another sequence is given twice, whatever those go through.
AllocatedOnce ==
  \A x, y \in Given :
    KeyOf[x[1]] \notin Rivalled /\ KeyOf[x[1]] = KeyOf[y[1]] /\ x[2] = y[2] => x = y

\* A sequence that neither /ecf/generate nor Odoo's mock mode uses has no gaps: every
\* number below next_number is that of a registered invoice, whatever failed on the way.
NoGaps ==
  \A k \in Keys :
    (\A r \in Generates \cup Mockable : KeyOf[r] # k) => \A n \in 1..(next[k] - 1) : Exists(k, n)

Together(q, r) == <<q, r>> \in overlaps \/ <<r, q>> \in overlaps

\* The file of a registered invoice is there, and is its own or that of a request that
\* looked for it when the invoice's request did: neither an earlier nor a later one.  Of two such
\* creates a client named the number of at least one; two such transmits ran on two workers.
FilesKept ==
  \A x \in registered :
    /\ x[1] \in Creates =>
         /\ Stored(KeyOf[x[1]], x[2]) # {}
         /\ \A c \in Stored(KeyOf[x[1]], x[2]) :
              \/ c = x[1]
              \/ Together(c, x[1]) /\ x[2] \in {Chosen[c], Chosen[x[1]]}
    /\ x[1] \in Transmits =>
         /\ Signed(KeyOf[x[1]], x[2]) # {}
         /\ \A d \in Signed(KeyOf[x[1]], x[2]) :
              \/ d = DocOf[x[1]]
              \/ \E t \in Transmits :
                   DocOf[t] = d /\ Together(t, x[1]) /\ WorkerOf[t] # WorkerOf[x[1]]

----------------------------------------------------------------------------
\* What requests do to sequences, returned numbers and invoices is what NumberBook
\* allows: a number is registered and the sequence moved together, an invoice of the
\* tenant API is the first of its number, and on one worker two documents of Odoo never
\* share one; numbers are generated in order where the generate requests meet no rival.
Book == INSTANCE NumberBook WITH given <- issued, invoices <- registered

ImplementsBook == Book!Spec
=============================================================================

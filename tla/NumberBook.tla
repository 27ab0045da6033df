----------------------------- MODULE NumberBook -----------------------------
(***************************************************************************)
(* What NcfSequence promises.  Locks, transactions and files are gone: a   *)
(* number is registered by one step that also moves the sequence on, and a *)
(* sequence moves without an invoice only where numbers are generated or   *)
(* Odoo's mock mode allocates.  Of a sequence whose generate requests have *)
(* a rival (another worker, a locked allocation) nothing is said of the    *)
(* numbers they take.                                                      *)
(***************************************************************************)
EXTENDS Naturals

CONSTANTS
  Keys, Generates, Creates, Transmits, Mockable, KeyOf, WorkerOf, DocOf, Chosen, None,
  Rivalled   \* sequences whose generate requests have a rival

VARIABLES
  next,      \* next[k]: the next number of sequence k; 0: none was taken
  given,     \* numbers returned by generate requests: <<request, number>>
  invoices   \* registered invoices: <<request, number>>

vars == <<next, given, invoices>>

Init == next = [k \in Keys |-> 0] /\ given = {} /\ invoices = {}

Number(k) == IF next[k] = 0 THEN 1 ELSE next[k]

\* Numbers of k among X.
Of(X, k) == {x[2] : x \in {y \in X : KeyOf[y[1]] = k}}

\* A number is taken for a generate request that may or may not come to return it.
Take(g) ==
  LET k == KeyOf[g] IN
  /\ next' = [next EXCEPT ![k] = next'[k]]
  /\ IF k \in Rivalled THEN next'[k] > 1 ELSE next'[k] = Number(k) + 1
  /\ UNCHANGED <<given, invoices>>

\* A generate request returns one; without rivals, one that was taken and that no other
\* has returned.
Return(g) ==
  /\ \A x \in given : x[1] # g
  /\ \E x \in given' :
       /\ x[1] = g /\ x[2] > 0 /\ given' = given \cup {x}
       /\ KeyOf[g] \notin Rivalled => x[2] < next[KeyOf[g]] /\ x[2] \notin Of(given, KeyOf[g])
  /\ UNCHANGED <<next, invoices>>

\* An invoice that the tenant API creates is the first of its number.  One that Odoo
\* transmits has the document of those transmitted under its number, unless the two
\* documents were handled by two workers.
Fits(r, n) ==
  /\ r \in Creates => n \notin Of(invoices, KeyOf[r])
  /\ r \in Transmits => \A x \in invoices :
       x[1] \in Transmits /\ KeyOf[x[1]] = KeyOf[r] /\ x[2] = n =>
         \/ DocOf[x[1]] = DocOf[r]
         \/ \E p, q \in Transmits :
              DocOf[p] = DocOf[r] /\ DocOf[q] = DocOf[x[1]] /\ WorkerOf[p] # WorkerOf[q]

\* An invoice is registered under the number its client named, or the next one.
Register(r, n) ==
  /\ invoices' = invoices \cup {<<r, n>>}
  /\ (\A x \in invoices : x[1] # r) /\ Fits(r, n)
  /\ \/ Chosen[r] # None /\ n = Chosen[r] /\ UNCHANGED next
     \/ /\ Chosen[r] = None /\ n = Number(KeyOf[r])
        /\ next' = [next EXCEPT ![KeyOf[r]] = n + 1]
  /\ UNCHANGED given

\* In mock mode a number is skipped.
Skip(t) ==
  /\ Chosen[t] = None /\ next' = [next EXCEPT ![KeyOf[t]] = Number(KeyOf[t]) + 1]
  /\ UNCHANGED <<given, invoices>>

Next ==
  \/ \E g \in Generates : Take(g) \/ Return(g)
  \/ \E r \in Creates \cup Transmits : Register(r, Number(KeyOf[r])) \/ Register(r, Chosen[r])
  \/ \E t \in Mockable : Skip(t)

Spec == Init /\ [][Next]_vars
=============================================================================

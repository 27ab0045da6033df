---------------------------- MODULE FiscalLedger ----------------------------
(***************************************************************************)
(* What the pipeline of FiscalOperation promises of the documents, however *)
(* requests, checks and crashes overlap.  Locks, sessions, queues and      *)
(* workers are gone: there is DGII's register, the platform's ledger, the  *)
(* bill and the books, and every change of one of them is a single step.   *)
(***************************************************************************)
CONSTANTS
  Documents, Submissions,
  Verdicts   \* the final answers DGII may give

\* The state of a document that DGII has answered so.
StateOf(answer) ==
  CASE answer = "ACEPTADO"             -> "ACCEPTED"
    [] answer = "ACEPTADO_CONDICIONAL" -> "ACCEPTED_CONDITIONAL"
    [] answer = "RECHAZADO"            -> "REJECTED"
    [] OTHER                           -> "open"

VARIABLES
  dgii,    \* dgii[s]: the document submission s brought to DGII, and its answer
  ledger,  \* ledger[d]: state, track id and invoice of a registered document
  billed,  \* submissions that were charged
  books    \* documents with a move in Odoo

vars == <<dgii, ledger, billed, books>>

\* Nothing is received and nothing registered.
Init ==
  /\ DOMAIN dgii = {} /\ DOMAIN ledger = {}
  /\ billed = {} /\ books = {}

\* The register f with entry v for x.
With(f, x, v) == [y \in DOMAIN f \cup {x} |-> IF y = x THEN v ELSE f[y]]

\* The submissions of document d that DGII has received.
BroughtFor(d) == {s \in DOMAIN dgii : dgii[s].document = d}

Receive(s, d) ==
  /\ s \notin DOMAIN dgii
  /\ dgii' = With(dgii, s, [document |-> d, answer |-> "EN_PROCESO"])
  /\ UNCHANGED <<ledger, billed, books>>

Decide(s) ==
  /\ s \in DOMAIN dgii /\ dgii[s].answer = "EN_PROCESO"
  /\ \E v \in Verdicts : dgii' = With(dgii, s, [document |-> dgii[s].document, answer |-> v])
  /\ UNCHANGED <<ledger, billed, books>>

\* A submission is registered and charged at once, and never twice.  The
\* document is open again, with the track id of this submission.
Register(s, d) ==
  /\ s \in BroughtFor(d) \ billed
  /\ billed' = billed \cup {s}
  /\ \E synced \in BOOLEAN :
       /\ synced => d \in books
       /\ ledger' = With(ledger, d,
            [state |-> "open", track |-> s, invoice |-> s, estado |-> "EN_PROCESO",
             synced |-> synced])
  /\ UNCHANGED <<dgii, books>>

\* A registered document is open, or has a state DGII gave to a submission of
\* it; its invoice stays with its submission, and says what it said or what DGII
\* says of that submission now.
Update(d) ==
  /\ d \in DOMAIN ledger
  /\ \E state \in {"open"} \cup {StateOf(dgii[s].answer) : s \in BroughtFor(d)},
        track \in BroughtFor(d),
        estado \in {ledger[d].estado, dgii[ledger[d].invoice].answer},
        synced \in BOOLEAN :
       /\ synced => d \in books
       /\ ledger' = With(ledger, d,
            [state |-> state, track |-> track, invoice |-> ledger[d].invoice, estado |-> estado,
             synced |-> synced])
  /\ UNCHANGED <<dgii, billed, books>>

\* Only a registered document reaches the books.
Book(d) ==
  /\ d \in DOMAIN ledger /\ books' = books \cup {d}
  /\ UNCHANGED <<dgii, ledger, billed>>

Next ==
  \/ \E s \in Submissions : Decide(s) \/ \E d \in Documents : Receive(s, d) \/ Register(s, d)
  \/ \E d \in Documents : Update(d) \/ Book(d)

Spec == Init /\ [][Next]_vars
=============================================================================

------------------------------ MODULE CaseBook ------------------------------
(***************************************************************************)
(* What CertificateWorkflow promises about the test documents of the       *)
(* cases, however the runners, requests, crashes and restarts of workers   *)
(* overlap.  Sessions, rounds and answers on their way are gone: what a    *)
(* transaction says of documents shows as one step, and whatever it        *)
(* learned of DGII before still stands when it commits.                    *)
(***************************************************************************)
CONSTANTS Cases, Tracks, Simulated, None

VARIABLES
  stored,    \* cases whose certificate is in the secret store
  filed,     \* DGII: the case each track id was given to
  verdict,   \* DGII: what it decided on each document
  named,     \* track ids operators have named for a case: <<case, track id>>
  latest,    \* the track id a case is followed by
  accepted   \* moves to production because of a track id: <<case, track id, who accepted>>

vars == <<stored, filed, verdict, named, latest, accepted>>

Init ==
  /\ stored \subseteq Cases
  /\ filed \in [Tracks -> stored \cup {None}] /\ verdict = [t \in Tracks |-> "pending"]
  /\ latest \in [Cases -> Tracks \cup {None}]
  /\ \A c \in Cases : latest[c] # None => filed[latest[c]] = c
  /\ named = {} /\ accepted = {}

\* A certificate is stored, for good.
Secure(c) == stored' = stored \cup {c} /\ UNCHANGED <<filed, verdict, named, latest, accepted>>

\* A document signed with a stored certificate gets track ids that were nobody's.
File(c, T) ==
  /\ c \in stored /\ \A t \in T : filed[t] = None /\ t \notin Simulated
  /\ filed' = [t \in Tracks |-> IF t \in T THEN c ELSE filed[t]]
  /\ UNCHANGED <<stored, verdict, named, latest, accepted>>

\* An operator names any track id for a case.
Name(c, t) == named' = named \cup {<<c, t>>} /\ UNCHANGED <<stored, filed, verdict, latest, accepted>>

\* DGII decides once on a document it has.
Decide(t) ==
  /\ filed[t] # None /\ verdict[t] = "pending"
  /\ \E v \in {"ACEPTADO", "RECHAZADO"} : verdict' = [verdict EXCEPT ![t] = v]
  /\ UNCHANGED <<stored, filed, named, latest, accepted>>

\* A track id of the case: of a document of its own, or named for it.
IsOf(c, t) == t \in Tracks /\ (filed[t] = c \/ <<c, t>> \in named)

\* A transaction commits: cases are followed by other track ids of theirs, or by
\* simulated ones; they move to production for one that DGII accepted, or because an
\* operator asked for the simulation.
Record ==
  /\ latest' \in [Cases -> Tracks \cup {None}]
  /\ \A c \in Cases : latest'[c] \in {latest[c]} \cup Simulated \/ IsOf(c, latest'[c])
  /\ accepted \subseteq accepted'
  /\ \A x \in accepted' \ accepted :
       IF x[3] = "ACEPTADO" THEN IsOf(x[1], x[2]) /\ verdict[x[2]] = "ACEPTADO"
       ELSE x[2] \in Simulated \/ IsOf(x[1], x[2])
  /\ UNCHANGED <<stored, filed, verdict, named>>

Next ==
  \/ \E c \in Cases : Secure(c)
  \/ \E c \in Cases, T \in SUBSET Tracks : File(c, T)
  \/ \E c \in Cases, t \in Tracks : Name(c, t)
  \/ \E t \in Tracks : Decide(t)
  \/ Record

Spec == Init /\ [][Next]_vars
=============================================================================

--------------------- MODULE CertificateWorkflowProofs ---------------------
(* Theorems about CertificateWorkflow, for any cases, actors and requests. *)
EXTENDS CertificateWorkflow, FiniteSetTheorems, SequenceTheorems, TLAPS

\* The statuses by name.
LEMMA Statuses ==
  WorkflowStatus = {"absent", "PRECHECK_FAILED", "PRECHECK_OK", "PSC_SELECTED",
    "HUMAN_SUBMISSION_PENDING", "HUMAN_SUBMISSION_DONE", "PSC_UNDER_REVIEW",
    "PSC_NEEDS_CORRECTION", "PSC_APPROVED", "CERTIFICATE_RECEIVED",
    "CERTIFICATE_VALIDATION_FAILED", "CERTIFICATE_VALIDATED", "SECRET_STORED",
    "SMOKE_TEST_FAILED", "READY_FOR_DGII", "IN_PRODUCTION_USE", "RENEWAL_PENDING",
    "RENEWED"}
BY DEF WorkflowStatus, ALLOWED_TRANSITIONS

\* A transition leads to a status.
LEMMA Transitions ==
  ASSUME NEW s \in WorkflowStatus
  PROVE  ALLOWED_TRANSITIONS[s] \subseteq WorkflowStatus
BY Statuses DEF ALLOWED_TRANSITIONS

\* A request gives a case a status of the workflow.
LEMMA TargetsType ==
  ASSUME NEW k \in Direct, NEW row \in PscRequest
  PROVE  Targets(k, row) \subseteq WorkflowStatus
BY Statuses, Transitions DEF Direct, Targets, PscRequest

\* What is sorted is a sequence of what it was sorted from.
LEMMA SortedType ==
  ASSUME NEW T, IsFiniteSet(T), NEW S, S \subseteq T, NEW R, NEW s \in Sorted(S, R)
  PROVE  s \in Seq(T)
<1>1. Cardinality(S) \in Nat
  BY FS_Subset, FS_CardinalityType
<1>2. s \in [1..Cardinality(S) -> T]
  BY DEF Sorted
<1> QED BY <1>1, <1>2

----------------------------------------------------------------------------
\* The data are of their types.
DataOK ==
  /\ db \in [Cases -> PscRequest] /\ older \subseteq Cases \X Cases
  /\ track \in [Cases -> Tracks \cup {None}] /\ named \subseteq Cases \X Tracks
  /\ accepted \subseteq Cases \X Tracks \X {"ACEPTADO", "SIMULATED"}
  /\ filed \in [Tracks -> Cases \cup {None}]
  /\ verdict \in [Tracks -> {"pending", "ACEPTADO", "RECHAZADO"}]
  /\ reminder \in [Reminders -> {"absent", "PENDING", "OVERDUE_NOTIFIED", "RESOLVED"}]
  /\ due \in Seq(Reminders) /\ tried \subseteq Reminders /\ inbox \subseteq Mails
  /\ faults \in 0..MaxFaults

\* What an actor has to do fits what it is at.
Local(p) ==
  /\ pc[p] \in {"notify", "mark"} => todo[p] \in Seq(Reminders)
  /\ pc[p] \in {"fetch", "intake"} => todo[p] \in Seq(Mails)
  /\ pc[p] \in {"next", "polling", "blocked", "loaded", "asking"} => todo[p] \in Seq(Cases)
  /\ pc[p] \in {"mark", "intake", "polling", "blocked", "loaded", "asking"} => todo[p] # <<>>
  /\ pc[p] = "intake" => CaseOf[Head(todo[p])] \in Cases
  /\ pc[p] = "loaded" => kind[p] \in Direct
  /\ pc[p] = "asking" => kind[p] \in Asking
  /\ pc[p] = "polling" \/ (pc[p] = "asking" /\ kind[p] = "track") => asked[p] \in Tracks

\* And so is what each actor is at.
ActorsOK ==
  /\ pc \in [Actors -> {"idle", "due", "notify", "mark", "mails", "fetch", "intake", "poll", "next",
                        "polling", "blocked", "loaded", "asking", "done"}]
  /\ kind \in [Actors -> {"runner"} \cup Direct \cup Asking \cup {"live", "simulated"}]
  /\ todo \in [Actors -> Seq(Cases \cup Reminders \cup Mails)]
  /\ asked \in [Actors -> Tracks \cup {None}] /\ loaded \in [Actors -> PscRequest]
  /\ held \in [Actors -> SUBSET (Cases \cup Reminders)] /\ told \in [Actors -> SUBSET Event]
  /\ \A p \in Actors : Local(p)

TypeInv == DataOK /\ ActorsOK

LEMMA NoRowType == NoRow \in PscRequest
BY Statuses DEF NoRow, PscRequest

\* Actors that have finished a piece of work have nothing left of it.
LEMMA EndsActors ==
  ASSUME ActorsOK, NEW P, NEW next, Ends(P, next),
         \A p \in Actors : p \in P => next[p] \in {"idle", "mails", "poll", "done"}
  PROVE  ActorsOK'
<1>1. todo' \in [Actors -> Seq(Cases \cup Reminders \cup Mails)]
  BY DEF ActorsOK, Ends
<1>2. /\ pc' \in [Actors -> {"idle", "due", "notify", "mark", "mails", "fetch", "intake", "poll",
                             "next", "polling", "blocked", "loaded", "asking", "done"}]
      /\ kind' \in [Actors -> {"runner"} \cup Direct \cup Asking \cup {"live", "simulated"}]
      /\ asked' \in [Actors -> Tracks \cup {None}] /\ loaded' \in [Actors -> PscRequest]
      /\ held' \in [Actors -> SUBSET (Cases \cup Reminders)] /\ told' \in [Actors -> SUBSET Event]
  BY NoRowType DEF ActorsOK, Ends
<1>3. ASSUME NEW p \in Actors PROVE Local(p)'
  <2>1. CASE p \in P
    BY <2>1 DEF ActorsOK, Ends, Local
  <2>2. CASE p \notin P
    BY <2>2 DEF ActorsOK, Ends, Local
  <2> QED BY <2>1, <2>2
<1> QED BY <1>1, <1>2, <1>3 DEF ActorsOK

LEMMA EndActors ==
  ASSUME ActorsOK, NEW p \in Actors, NEW next \in {"idle", "mails", "poll", "done"}, End(p, next)
  PROVE  ActorsOK'
BY EndsActors DEF End

LEMMA FaultType ==
  ASSUME faults \in 0..MaxFaults, Fault
  PROVE  faults' \in 0..MaxFaults
<1>1. MaxFaults \in Nat
  BY CasesAssumption
<1> QED BY <1>1 DEF Fault

LEMMA HeadTailType ==
  ASSUME NEW T, NEW s \in Seq(T), s # <<>>
  PROVE  Head(s) \in T /\ Tail(s) \in Seq(T)
OBVIOUS

\* The first thing an actor has to do, and what is left after it.
LEMMA HeadType ==
  ASSUME ActorsOK, NEW p \in Actors, todo[p] # <<>>
  PROVE  /\ Tail(todo[p]) \in Seq(Cases \cup Reminders \cup Mails)
         /\ pc[p] \in {"notify", "mark"} =>
              Head(todo[p]) \in Reminders /\ Tail(todo[p]) \in Seq(Reminders)
         /\ pc[p] \in {"fetch", "intake"} =>
              Head(todo[p]) \in Mails /\ Tail(todo[p]) \in Seq(Mails)
         /\ pc[p] \in {"next", "polling", "blocked", "loaded", "asking"} =>
              Head(todo[p]) \in Cases /\ Tail(todo[p]) \in Seq(Cases)
BY HeadTailType DEF ActorsOK, Local

LEMMA RemindersType ==
  ASSUME TypeInv, NEW p \in Actors,
         \/ due_reminders(p) \/ notify_reminder_due(p) \/ NotifyFails(p)
         \/ MarkNotified(p) \/ NotifyCommits(p)
  PROVE  TypeInv'
<1> USE DEF TypeInv, DataOK, rows, dgii, reminds
<1>1. CASE due_reminders(p)
  <2>1. PICK batch \in Seq(Reminders) : todo' = [todo EXCEPT ![p] = batch]
    BY <1>1, SortedType, CasesAssumption DEF due_reminders
  <2> QED BY <1>1, <2>1 DEF due_reminders, Goes, ActorsOK, Local
<1>2. CASE notify_reminder_due(p)
  BY <1>2 DEF notify_reminder_due, Goes, ActorsOK, Local, local
<1>3. CASE NotifyFails(p)
  <2>1. ActorsOK'
    BY <1>3, EndActors DEF NotifyFails
  <2>2. tried' \subseteq Reminders
    BY <1>3, HeadType DEF NotifyFails
  <2> QED BY <1>3, <2>1, <2>2, FaultType DEF NotifyFails
<1>4. CASE MarkNotified(p)
  BY <1>4 DEF MarkNotified, Goes, ActorsOK, Local
<1>5. CASE NotifyCommits(p)
  BY <1>5, EndActors DEF NotifyCommits
<1> QED BY <1>1, <1>2, <1>3, <1>4, <1>5

\* What is written to the cases is a row of each, and `older` is about ready ones.
LEMMA WritesType ==
  ASSUME NEW table \in [Cases -> PscRequest], NEW S, Writes(table, S), older \subseteq Cases \X Cases
  PROVE  db' \in [Cases -> PscRequest] /\ older' \subseteq Cases \X Cases
BY DEF Writes, ReadyIn

LEMMA MailType ==
  ASSUME TypeInv, NEW p \in Actors,
         SearchUnseen(p) \/ Fetch(p) \/ MailCommits(p) \/ MailFails(p) \/ MailDone(p)
  PROVE  TypeInv'
<1> USE DEF TypeInv, DataOK, rows, dgii, reminds
<1>1. CASE SearchUnseen(p)
  <2>1. PICK batch \in Seq(Mails) : todo' = [todo EXCEPT ![p] = batch]
    BY <1>1, SortedType, CasesAssumption DEF SearchUnseen
  <2> QED BY <1>1, <2>1 DEF SearchUnseen, Goes, ActorsOK, Local
<1>2. CASE Fetch(p)
  <2>1. Head(todo[p]) \in Mails /\ Tail(todo[p]) \in Seq(Mails)
    BY <1>2, HeadType DEF Fetch
  <2>2. Tail(todo[p]) \in Seq(Cases \cup Reminders \cup Mails)
    BY <1>2, HeadType DEF Fetch
  <2>3. CASE CaseOf[Head(todo[p])] \in Cases /\ db[CaseOf[Head(todo[p])]].status # "absent"
    <3> DEFINE c == CaseOf[Head(todo[p])]
    <3>1. /\ pc[p] = "fetch" /\ pc' = [pc EXCEPT ![p] = "intake"]
          /\ loaded' = [loaded EXCEPT ![p] = db[c]]
          /\ UNCHANGED <<todo, rows, dgii, reminds, kind, asked, held, told, faults>>
      BY <1>2, <2>3 DEF Fetch
    <3>2. inbox' \subseteq Mails
      BY <1>2, <2>3 DEF Fetch
    <3>3. c \in Cases /\ todo[p] # <<>>
      BY <1>2, <2>3 DEF Fetch
    <3>4. c' = c
      BY <3>1
    <3>5. ASSUME NEW q \in Actors PROVE Local(q)'
      BY <3>1, <3>3, <3>4 DEF ActorsOK, Local
    <3> QED BY <3>1, <3>2, <3>3, <3>5 DEF ActorsOK
  <2>4. CASE ~(CaseOf[Head(todo[p])] \in Cases /\ db[CaseOf[Head(todo[p])]].status # "absent")
    BY <1>2, <2>1, <2>2, <2>4 DEF Fetch, ActorsOK, Local
  <2> QED BY <2>3, <2>4
<1>3. CASE MailCommits(p)
  <2>1. ActorsOK'
    BY <1>3 DEF MailCommits, Goes, ActorsOK, Local
  <2>2. PICK table \in [Cases -> PscRequest], S \in SUBSET Cases : Writes(table, S)
    <3> DEFINE c == CaseOf[Head(todo[p])]
    <3>1. c \in Cases /\ db[c].status \in WorkflowStatus /\ db[c].secret_ref \in {"none", "stored"}
      BY <1>3 DEF MailCommits, Goes, ActorsOK, Local, PscRequest
    <3>2. PICK s \in {"CERTIFICATE_RECEIVED", "CERTIFICATE_VALIDATION_FAILED",
                     "CERTIFICATE_VALIDATED", "SECRET_STORED"}, S \in {{}, {c}} :
            Writes([db EXCEPT ![c] =
              [status     |-> IF s = "CERTIFICATE_RECEIVED" /\ loaded[p].status = s THEN @.status ELSE s,
               secret_ref |-> IF s = "SECRET_STORED" THEN "stored" ELSE @.secret_ref]], S)
      BY <1>3 DEF MailCommits
    <3> HIDE DEF c
    <3>3. [db EXCEPT ![c] =
              [status     |-> IF s = "CERTIFICATE_RECEIVED" /\ loaded[p].status = s THEN @.status ELSE s,
               secret_ref |-> IF s = "SECRET_STORED" THEN "stored" ELSE @.secret_ref]]
            \in [Cases -> PscRequest]
      BY <3>1, Statuses DEF PscRequest
    <3> QED BY <3>1, <3>2, <3>3
  <2> QED BY <1>3, <2>1, <2>2, WritesType DEF MailCommits
<1>4. CASE MailFails(p)
  BY <1>4, EndActors, FaultType DEF MailFails
<1>5. CASE MailDone(p)
  BY <1>5, EndActors DEF MailDone
<1> QED BY <1>1, <1>2, <1>3, <1>4, <1>5

\* An event that is told is one of a case.
LEMMA TellsType ==
  ASSUME TypeInv, NEW p \in Actors, NEW c \in Cases, NEW t \in Tracks,
         NEW v \in {"ACEPTADO", "SIMULATED", "OTHER"}, Tells(p, c, t, v)
  PROVE  told' \in [Actors -> SUBSET Event]
<1>1. [case |-> c, after |-> track[c], track |-> t, dgii_status |-> v] \in Event
  BY DEF TypeInv, DataOK, Event
<1> QED BY <1>1 DEF Tells, TypeInv, ActorsOK

\* A commit leaves the latest track id of a case, or takes that of one of its events.
LEMMA CommitTracks ==
  ASSUME TypeInv, NEW p \in Actors, Commit(p)
  PROVE  /\ track' \in [Cases -> Tracks \cup {None}]
         /\ \A c \in Cases : track'[c] # track[c] =>
              \E e \in told[p] : e.case = c /\ track'[c] = e.track
<1>1. PICK keep \in SUBSET {e.case : e \in {x \in told[p] : track[x.case] # x.after}} :
        track' = [c \in Cases |->
          IF c \notin keep /\ \E e \in told[p] : e.case = c
            THEN (CHOOSE e \in told[p] : e.case = c).track ELSE track[c]]
  BY DEF Commit
<1>2. ASSUME NEW c \in Cases, \E e \in told[p] : e.case = c
      PROVE  /\ (CHOOSE e \in told[p] : e.case = c) \in told[p]
             /\ (CHOOSE e \in told[p] : e.case = c).case = c
  BY <1>2
<1>3. \A e \in told[p] : e.track \in Tracks
  BY DEF TypeInv, ActorsOK, Event
<1> QED BY <1>1, <1>2, <1>3 DEF TypeInv, DataOK

LEMMA PollType ==
  ASSUME TypeInv, NEW p \in Actors,
         \/ list_requests_by_status(p) \/ _extract_track_id(p) \/ PollAnswered(p)
         \/ PollFailed(p) \/ transition_status(p) \/ Commit(p)
  PROVE  TypeInv'
<1> USE DEF TypeInv, DataOK, rows, dgii, reminds
<1>1. CASE list_requests_by_status(p)
  <2>1. PICK batch \in Seq(Cases) : todo' = [todo EXCEPT ![p] = batch]
    BY <1>1, SortedType, CasesAssumption DEF list_requests_by_status, ReadyIn
  <2> QED BY <1>1, <2>1 DEF list_requests_by_status, Goes, ActorsOK, Local
<1>2. CASE _extract_track_id(p)
  <2>1. Head(todo[p]) \in Cases /\ Tail(todo[p]) \in Seq(Cases)
    BY <1>2, HeadType DEF _extract_track_id
  <2>2. Tail(todo[p]) \in Seq(Cases \cup Reminders \cup Mails)
    BY <1>2, HeadType DEF _extract_track_id
  <2>3. CASE track[Head(todo[p])] = None
    BY <1>2, <2>1, <2>2, <2>3 DEF _extract_track_id, ActorsOK, Local
  <2>4. CASE track[Head(todo[p])] # None
    <3>1. track[Head(todo[p])] \in Tracks
      BY <2>1, <2>4
    <3>2. /\ pc[p] = "next" /\ todo[p] # <<>> /\ pc' = [pc EXCEPT ![p] = "polling"]
          /\ asked' = [asked EXCEPT ![p] = track[Head(todo[p])]]
          /\ UNCHANGED <<todo, rows, dgii, reminds, inbox, kind, loaded, held, told, faults>>
      BY <1>2, <2>4 DEF _extract_track_id
    <3>3. \A q \in Actors : Local(q)'
      BY <3>1, <3>2 DEF ActorsOK, Local
    <3> QED BY <3>1, <3>2, <3>3 DEF ActorsOK
  <2> QED BY <2>3, <2>4
<1>3. CASE PollAnswered(p)
  <2>1. /\ Head(todo[p]) \in Cases /\ Tail(todo[p]) \in Seq(Cases)
        /\ Tail(todo[p]) \in Seq(Cases \cup Reminders \cup Mails)
    BY <1>3, HeadType DEF PollAnswered, ActorsOK, Local
  <2>2. told' \in [Actors -> SUBSET Event]
    BY <1>3, <2>1, TellsType DEF PollAnswered, Verdict, ActorsOK, Local
  <2> QED BY <1>3, <2>1, <2>2 DEF PollAnswered, ActorsOK, Local
<1>4. CASE PollFailed(p)
  <2>1. /\ Head(todo[p]) \in Cases /\ Tail(todo[p]) \in Seq(Cases)
        /\ Tail(todo[p]) \in Seq(Cases \cup Reminders \cup Mails)
    BY <1>4, HeadType DEF PollFailed, Goes, ActorsOK, Local
  <2>2. told' \in [Actors -> SUBSET Event]
    BY <1>4, <2>1, TellsType DEF PollFailed, Goes, ActorsOK, Local
  <2> QED BY <1>4, <2>1, <2>2, FaultType DEF PollFailed, Goes, ActorsOK, Local
<1>5. CASE transition_status(p)
  <2>1. /\ Head(todo[p]) \in Cases /\ Tail(todo[p]) \in Seq(Cases)
        /\ Tail(todo[p]) \in Seq(Cases \cup Reminders \cup Mails)
    BY <1>5, HeadType DEF transition_status, ActorsOK, Local
  <2> QED BY <1>5, <2>1 DEF transition_status, ActorsOK, Local
<1>6. CASE Commit(p)
  <2>1. ActorsOK'
    BY <1>6, EndActors DEF Commit
  <2>2. [c \in Cases |-> IF c \in held[p] THEN [db[c] EXCEPT !.status = "IN_PRODUCTION_USE"]
                         ELSE db[c]] \in [Cases -> PscRequest]
    BY Statuses DEF PscRequest
  <2>3. db' \in [Cases -> PscRequest] /\ older' \subseteq Cases \X Cases
    BY <1>6, <2>2, WritesType DEF Commit
  <2>4. accepted' \subseteq Cases \X Tracks \X {"ACEPTADO", "SIMULATED"}
    BY <1>6 DEF Commit, ActorsOK, Event
  <2> QED BY <1>6, <2>1, <2>3, <2>4, CommitTracks DEF Commit
<1> QED BY <1>1, <1>2, <1>3, <1>4, <1>5, <1>6

LEMMA WriteType ==
  ASSUME TypeInv, NEW p \in Actors, Write(p) \/ Reject(p)
  PROVE  TypeInv'
<1> USE DEF TypeInv, DataOK, rows, dgii, reminds
<1>1. CASE Write(p)
  <2>1. ActorsOK'
    BY <1>1, EndActors DEF Write
  <2> DEFINE c == Head(todo[p])
             Row(s) == [status     |-> IF s = loaded[p].status THEN db[c].status ELSE s,
                        secret_ref |-> IF kind[p] = "store" THEN "stored" ELSE db[c].secret_ref]
  <2>2. /\ c \in Cases /\ loaded[p] \in PscRequest /\ kind[p] \in Direct
        /\ db[c].status \in WorkflowStatus /\ db[c].secret_ref \in {"none", "stored"}
    BY <1>1, HeadType DEF Write, ActorsOK, Local, PscRequest
  <2>3. PICK s \in Targets(kind[p], loaded[p]), S \in {{}, {c}} :
          Writes([db EXCEPT ![c] = Row(s)], S)
    BY <1>1 DEF Write
  <2>4. s \in WorkflowStatus
    BY <2>2, <2>3, TargetsType
  <2>5. Row(s) \in PscRequest
    BY <2>2, <2>4 DEF PscRequest
  <2> HIDE DEF c, Row
  <2>6. db' \in [Cases -> PscRequest] /\ older' \subseteq Cases \X Cases
    BY <2>2, <2>3, <2>5, WritesType
  <2> QED BY <1>1, <2>1, <2>6 DEF Write
<1>2. CASE Reject(p)
  BY <1>2, EndActors DEF Reject
<1> QED BY <1>1, <1>2

LEMMA AskingType ==
  ASSUME TypeInv, NEW p \in Actors, Checked(p) \/ Submitted(p) \/ Tracked(p) \/ AskFails(p)
  PROVE  TypeInv'
<1> USE DEF TypeInv, DataOK, rows, dgii, reminds
<1>a. pc[p] = "asking" /\ todo[p] # <<>> /\ Head(todo[p]) \in Cases
  BY HeadType DEF Checked, Submitted, Tracked, AskFails, ActorsOK, Local
<1>b. ASSUME NEW wanted, Moves(p, wanted), UNCHANGED <<kind, asked>>
      PROVE  /\ pc' \in [Actors -> {"idle", "due", "notify", "mark", "mails", "fetch", "intake", "poll",
                                    "next", "polling", "blocked", "loaded", "asking", "done"}]
             /\ todo' \in [Actors -> Seq(Cases \cup Reminders \cup Mails)]
             /\ \A q \in Actors : Local(q)'
  <2> DEFINE moves == wanted /\ "IN_PRODUCTION_USE" \in ALLOWED_TRANSITIONS[loaded[p].status]
  <2>1. CASE moves
    <3>1. pc' = [pc EXCEPT ![p] = "blocked"] /\ todo' = [todo EXCEPT ![p] = todo[p]]
      BY <1>b, <2>1 DEF Moves
    <3> QED BY <1>a, <1>b, <3>1 DEF ActorsOK, Local
  <2>2. CASE ~moves
    <3>1. pc' = [pc EXCEPT ![p] = "next"] /\ todo' = [todo EXCEPT ![p] = <<>>]
      BY <1>b, <2>2 DEF Moves
    <3> QED BY <1>a, <1>b, <3>1 DEF ActorsOK, Local
  <2> QED BY <2>1, <2>2
<1>1. CASE Checked(p)
  <2>1. PICK wanted \in BOOLEAN : Moves(p, wanted)
    BY <1>1 DEF Checked
  <2> QED BY <1>1, <1>b, <2>1 DEF Checked, ActorsOK
<1>2. CASE Submitted(p)
  <2>1. PICK new \in SUBSET Tracks, wanted \in BOOLEAN :
          /\ Files(Head(todo[p]), new) /\ Moves(p, wanted)
          /\ \E t \in new \cup Simulated : Tells(p, Head(todo[p]), t, "OTHER")
    BY <1>2 DEF Submitted
  <2>2. told' \in [Actors -> SUBSET Event]
    BY <1>a, <2>1, TellsType, CasesAssumption
  <2>3. filed' \in [Tracks -> Cases \cup {None}]
    BY <1>a, <2>1 DEF Files
  <2> QED BY <1>2, <1>b, <2>1, <2>2, <2>3 DEF Submitted, ActorsOK
<1>3. CASE Tracked(p)
  <2>1. PICK wanted \in BOOLEAN : Moves(p, wanted)
    BY <1>3 DEF Tracked
  <2>2. told' \in [Actors -> SUBSET Event]
    BY <1>a, <1>3, TellsType DEF Tracked, Verdict, ActorsOK, Local
  <2> QED BY <1>3, <1>b, <2>1, <2>2 DEF Tracked, ActorsOK
<1>4. CASE AskFails(p)
  <2>1. ActorsOK'
    BY <1>4, EndActors DEF AskFails
  <2>2. filed' \in [Tracks -> Cases \cup {None}]
    BY <1>4, <1>a DEF AskFails, Files
  <2> QED BY <1>4, <2>1, <2>2, FaultType DEF AskFails
<1> QED BY <1>1, <1>2, <1>3, <1>4

LEMMA StepType ==
  ASSUME TypeInv, NEW p \in Actors, Step(p)
  PROVE  TypeInv'
BY RemindersType, MailType, PollType, WriteType, AskingType DEF Step

LEMMA EndDone ==
  ASSUME ActorsOK, NEW p \in Requests, End(p, "done")
  PROVE  ActorsOK'
<1>1. p \notin Runners
  BY ActorsAssumption
<1> QED BY <1>1, EndsActors DEF End

LEMMA RequestType ==
  ASSUME TypeInv, NEW p \in Actors, Request(p)
  PROVE  TypeInv'
<1> USE DEF TypeInv, DataOK, rows, dgii, reminds
<1>1. ASSUME NEW r \in Reminders, schedule_reminder(p, r) \/ resolve_reminder(p, r) PROVE TypeInv'
  BY <1>1, EndDone DEF schedule_reminder, resolve_reminder, Asked
<1>2. ASSUME NEW c \in Cases, create_intake(p, c) PROVE TypeInv'
  <2>1. ActorsOK'
    BY <1>2, EndDone DEF create_intake, Asked
  <2>2. PICK s \in {"PRECHECK_OK", "PRECHECK_FAILED"} : Writes([db EXCEPT ![c].status = s], {c})
    BY <1>2 DEF create_intake
  <2>3. [db EXCEPT ![c].status = s] \in [Cases -> PscRequest]
    BY Statuses DEF PscRequest
  <2>4. db' \in [Cases -> PscRequest] /\ older' \subseteq Cases \X Cases
    BY <2>2, <2>3, WritesType
  <2> QED BY <1>2, <2>1, <2>4 DEF create_intake
<1>3. ASSUME NEW c \in Cases, NEW k \in Direct, Load(p, k, c) PROVE TypeInv'
  BY <1>3 DEF Load, Goes, ActorsOK, Local
<1>4. ASSUME NEW c \in Cases, NEW k \in Asking, Ask(p, k, c) PROVE TypeInv'
  <2>1. PICK t \in Tracks \cup {None} :
          asked' = [asked EXCEPT ![p] = t] /\ (k = "track" => t # None)
    <3>1. CASE MayAsk(k, db[c], track[c]) /\ asked' = [asked EXCEPT ![p] = IF k = "track" THEN track[c] ELSE None]
      BY <3>1 DEF MayAsk
    <3>2. CASE \E t \in Tracks : asked' = [asked EXCEPT ![p] = t]
      <4>1. \A t \in Tracks : t # None
        BY ActorsAssumption
      <4> QED BY <3>2, <4>1
    <3> QED BY <1>4, <3>1, <3>2 DEF Ask
  <2>2. k = "track" => t \in Tracks
    BY <2>1
  <2>4. named' \subseteq Cases \X Tracks
    BY <1>4 DEF Ask
  <2>3. <<c>> \in Seq(Cases) /\ <<c>> \in Seq(Cases \cup Reminders \cup Mails) /\ <<c>> # <<>>
    OBVIOUS
  <2> QED BY <1>4, <2>1, <2>2, <2>3, <2>4 DEF Ask, Goes, ActorsOK, Local
<1>5. ASSUME NEW part \in Parts, Process(p, part) PROVE TypeInv'
  BY <1>5 DEF Process, Parts, Goes, ActorsOK, Local, local
<1> QED BY <1>1, <1>2, <1>3, <1>4, <1>5 DEF Request

LEMMA SurroundingsType ==
  ASSUME TypeInv,
         \/ \E r \in Reminders : Tick(r)
         \/ \E t \in Tracks : Decide(t)
         \/ \E w \in Workers : Kill(w) \/ Crash(w)
  PROVE  TypeInv'
<1> USE DEF TypeInv, DataOK, rows, dgii, reminds
<1>1. ASSUME NEW r \in Reminders, Tick(r) PROVE TypeInv'
  BY <1>1 DEF Tick, ActorsOK, Local, local
<1>2. ASSUME NEW t \in Tracks, Decide(t) PROVE TypeInv'
  BY <1>2 DEF Decide, ActorsOK, Local, local
<1>3. ASSUME NEW w \in Workers, Restart(w) PROVE ActorsOK'
  BY <1>3, EndsActors DEF Restart
<1>4. ASSUME NEW w \in Workers, Kill(w) PROVE TypeInv'
  BY <1>3, <1>4 DEF Kill, Restart
<1>5. ASSUME NEW w \in Workers, Crash(w) PROVE TypeInv'
  BY <1>3, <1>5, FaultType DEF Crash, Restart
<1> QED BY <1>1, <1>2, <1>4, <1>5

LEMMA TypeStep == TypeInv /\ [Next]_vars => TypeInv'
<1> SUFFICES ASSUME TypeInv, [Next]_vars PROVE TypeInv'
  OBVIOUS
<1>1. CASE Next
  BY <1>1, StepType, RequestType, SurroundingsType DEF Next
<1>2. CASE UNCHANGED vars
  BY <1>2 DEF TypeInv, DataOK, ActorsOK, Local, vars, rows, dgii, reminds, local
<1> QED BY <1>1, <1>2

LEMMA TypeInit == Init => TypeInv
<1> SUFFICES ASSUME Init PROVE TypeInv
  OBVIOUS
<1>1. DataOK
  <2>1. \A c \in Cases : Start[c].row \in PscRequest /\ Start[c].track \in Tracks \cup {None}
    BY CasesAssumption
  <2>2. MaxFaults \in Nat
    BY CasesAssumption
  <2>3. older \subseteq Cases \X Cases
    BY DEF Init
  <2> QED BY <2>1, <2>2, <2>3 DEF Init, DataOK
<1>2. ActorsOK
  BY NoRowType DEF Init, ActorsOK, Local
<1> QED BY <1>1, <1>2 DEF TypeInv

\* Every variable holds a value of its kind in every state.
THEOREM TypeCorrect == Spec => []TypeOK
<1>1. TypeInv => TypeOK
  BY DEF TypeInv, DataOK, ActorsOK, TypeOK
<1> QED BY <1>1, TypeInit, TypeStep, PTL DEF Spec

----------------------------------------------------------------------------
\* Documents.  A stored certificate stays stored, a track id stays with its case,
\* and DGII does not take back that it accepted a document.
Grows ==
  /\ \A c \in Cases : db[c].secret_ref = "stored" => db'[c].secret_ref = "stored"
  /\ \A t \in Tracks : filed[t] # None => filed'[t] = filed[t]
  /\ \A t \in Tracks : verdict[t] = "ACEPTADO" => verdict'[t] = "ACEPTADO"
  /\ named \subseteq named'

LEMMA WritesGrow ==
  ASSUME TypeInv, NEW table, NEW S, Writes(table, S), UNCHANGED <<dgii, named>>,
         \A c \in Cases : db[c].secret_ref = "stored" => table[c].secret_ref = "stored"
  PROVE  Grows
BY DEF Grows, Writes, dgii

LEMMA RowGrows ==
  ASSUME TypeInv, NEW c, NEW s, NEW v \in {db[c].secret_ref, "stored"}, NEW S,
         Writes([db EXCEPT ![c] = [status |-> s, secret_ref |-> v]], S), UNCHANGED <<dgii, named>>
  PROVE  Grows
<1>1. \A d \in Cases : db[d].secret_ref = "stored" =>
        [db EXCEPT ![c] = [status |-> s, secret_ref |-> v]][d].secret_ref = "stored"
  BY DEF TypeInv, DataOK
<1> QED BY <1>1, WritesGrow

LEMMA StepGrows ==
  ASSUME TypeInv, NEW p \in Actors, Step(p)
  PROVE  Grows
<1>1. CASE UNCHANGED <<db, dgii, named>>
  BY <1>1 DEF Grows, dgii
<1>2. CASE MailCommits(p)
  <2> DEFINE c == CaseOf[Head(todo[p])]
  <2>1. PICK s \in {"CERTIFICATE_RECEIVED", "CERTIFICATE_VALIDATION_FAILED",
                   "CERTIFICATE_VALIDATED", "SECRET_STORED"}, S \in {{}, {c}} :
          Writes([db EXCEPT ![c] =
            [status     |-> IF s = "CERTIFICATE_RECEIVED" /\ loaded[p].status = s
                              THEN db[c].status ELSE s,
             secret_ref |-> IF s = "SECRET_STORED" THEN "stored" ELSE db[c].secret_ref]], S)
    BY <1>2 DEF MailCommits, TypeInv, DataOK, ActorsOK, Local
  <2>2. UNCHANGED <<dgii, named>>
    BY <1>2 DEF MailCommits
  <2> HIDE DEF c
  <2> QED BY <2>1, <2>2, RowGrows
<1>3. CASE Commit(p)
  BY <1>3, WritesGrow DEF Commit, TypeInv, DataOK, PscRequest
<1>4. CASE Write(p)
  <2> DEFINE c == Head(todo[p])
  <2>1. PICK s \in Targets(kind[p], loaded[p]), S \in {{}, {c}} :
          Writes([db EXCEPT ![c] =
            [status     |-> IF s = loaded[p].status THEN db[c].status ELSE s,
             secret_ref |-> IF kind[p] = "store" THEN "stored" ELSE db[c].secret_ref]], S)
    BY <1>4 DEF Write
  <2>2. UNCHANGED <<dgii, named>>
    BY <1>4 DEF Write
  <2> HIDE DEF c
  <2> QED BY <2>1, <2>2, RowGrows
<1>5. CASE Submitted(p) \/ AskFails(p)
  BY <1>5 DEF Submitted, AskFails, Files, Grows, rows, TypeInv, DataOK
<1> QED
  BY <1>1, <1>2, <1>3, <1>4, <1>5 DEF Step, rows, due_reminders, notify_reminder_due, NotifyFails,
     MarkNotified, NotifyCommits, SearchUnseen, Fetch, MailFails, MailDone, list_requests_by_status,
     _extract_track_id, PollAnswered, PollFailed, transition_status, Reject, Checked, Tracked

LEMMA RequestGrows ==
  ASSUME TypeInv, NEW p \in Actors, Request(p)
  PROVE  Grows
<1>1. CASE UNCHANGED <<db, dgii>> /\ named \subseteq named'
  BY <1>1 DEF Grows, dgii
<1>2. ASSUME NEW c \in Cases, create_intake(p, c) PROVE Grows
  <2>1. PICK s : Writes([db EXCEPT ![c].status = s], {c})
    BY <1>2 DEF create_intake
  <2>2. \A d \in Cases : [db EXCEPT ![c].status = s][d].secret_ref = db[d].secret_ref
    BY DEF TypeInv, DataOK, PscRequest
  <2> QED BY <1>2, <2>1, <2>2, WritesGrow DEF create_intake
<1> QED
  BY <1>1, <1>2 DEF Request, rows, schedule_reminder, resolve_reminder, Load, Ask, Process

LEMMA SurroundingsGrow ==
  ASSUME TypeInv,
         \/ \E r \in Reminders : Tick(r)
         \/ \E t \in Tracks : Decide(t)
         \/ \E w \in Workers : Kill(w) \/ Crash(w)
  PROVE  Grows
BY DEF Grows, Tick, Decide, Kill, Crash, Restart, rows, dgii, TypeInv, DataOK

\* A track id a case may have: one of its own, one named for it or a simulated one.
Has(c, t) == t \in Simulated \/ filed[t] = c \/ <<c, t>> \in named

\* What an actor knows of documents holds: of the one it asks about, of the case it
\* submits one for, and of those its events are about.
Knows(p) ==
  /\ pc[p] = "polling" \/ (pc[p] = "asking" /\ kind[p] = "track") => Has(Head(todo[p]), asked[p])
  /\ pc[p] = "asking" /\ kind[p] = "submit" => db[Head(todo[p])].secret_ref = "stored"
  /\ \A e \in told[p] :
       /\ Has(e.case, e.track)
       /\ e.dgii_status = "ACEPTADO" => verdict[e.track] = "ACEPTADO"

\* The latest track id of a case is one it has.
TrackIsOwn == \A c \in Cases : track[c] # None => Has(c, track[c])

\* Only a case with a stored certificate has filed a document, none has a simulated
\* track id, and DGII decides only on what was filed.
FiledIsSigned ==
  \A t \in Tracks :
    /\ filed[t] # None => db[filed[t]].secret_ref = "stored" /\ t \notin Simulated
    /\ filed[t] = None => verdict[t] = "pending"

Papers == TrackIsOwn /\ FiledIsSigned /\ ProductionIsAccepted /\ \A p \in Actors : Knows(p)

LEMMA NoneIsOther == \A c \in Cases : c # None
BY ActorsAssumption

\* A case keeps its track ids.
LEMMA HasKept ==
  ASSUME Grows, NEW c \in Cases, NEW t \in Tracks, Has(c, t)
  PROVE  Has(c, t)'
BY NoneIsOther DEF Has, Grows

\* What was said of the documents of a case before still holds.
LEMMA EventsKept ==
  ASSUME TypeInv, Grows, NEW p \in Actors, Knows(p), NEW e \in told[p]
  PROVE  /\ Has(e.case, e.track)'
         /\ e.dgii_status = "ACEPTADO" => verdict'[e.track] = "ACEPTADO"
<1>1. e.track \in Tracks /\ e.case \in Cases
  BY DEF TypeInv, ActorsOK, Event
<1>2. Has(e.case, e.track) /\ (e.dgii_status = "ACEPTADO" => verdict[e.track] = "ACEPTADO")
  BY DEF Knows
<1> QED BY <1>1, <1>2, HasKept DEF Grows

\* A document that DGII accepted is one of the case, or was named for it.
LEMMA AcceptedIsFiled ==
  ASSUME FiledIsSigned, NEW c, NEW t \in Tracks, Has(c, t), verdict[t] = "ACEPTADO"
  PROVE  /\ <<c, t>> \in named \/ filed[t] = c
         /\ filed[t] # None /\ db[filed[t]].secret_ref = "stored"
BY DEF FiledIsSigned, Has

\* What an actor knows lasts while it does nothing.
LEMMA KnowsKept ==
  ASSUME TypeInv, Grows, NEW p \in Actors, Knows(p),
         pc'[p] = pc[p], kind'[p] = kind[p], asked'[p] = asked[p], todo'[p] = todo[p],
         told'[p] = told[p]
  PROVE  Knows(p)'
<1>1. ASSUME pc[p] = "polling" \/ (pc[p] = "asking" /\ kind[p] = "track")
      PROVE  Has(Head(todo[p]), asked[p])'
  <2> DEFINE c == Head(todo[p])
             t == asked[p]
  <2>1. t \in Tracks /\ c \in Cases /\ Has(c, t)
    BY <1>1, HeadType DEF TypeInv, ActorsOK, Local, Knows
  <2>2. /\ c \in Cases /\ t \in Tracks
        /\ (t \in Simulated \/ filed'[t] = c \/ <<c, t>> \in named')
    BY <2>1, NoneIsOther DEF Has, Grows
  <2> QED BY <2>2 DEF Has
<1>2. ASSUME pc[p] = "asking", kind[p] = "submit"
      PROVE  db'[Head(todo[p])].secret_ref = "stored"
  <2>1. Head(todo[p]) \in Cases
    BY <1>2, HeadType DEF TypeInv, ActorsOK, Local
  <2> QED BY <1>2, <2>1 DEF Knows, Grows
<1>3. ASSUME NEW e \in told[p]
      PROVE  /\ Has(e.case, e.track)'
             /\ e.dgii_status = "ACEPTADO" => verdict'[e.track] = "ACEPTADO"
  BY <1>3, EventsKept
<1> QED BY <1>1, <1>2, <1>3 DEF Knows

\* An actor that has told nothing and asks nothing knows all it needs.
LEMMA KnowsNothing ==
  ASSUME NEW p \in Actors, told'[p] = {}, pc'[p] \notin {"polling", "asking"}
  PROVE  Knows(p)'
BY DEF Knows

\* The rest lasts while no document is filed and no event is committed.
LEMMA PapersKept ==
  ASSUME TypeInv, Papers, Grows, UNCHANGED <<track, accepted, filed>>,
         UNCHANGED verdict \/ \E t \in Tracks : Decide(t), \A p \in Actors : Knows(p)'
  PROVE  Papers'
<1>1. TrackIsOwn'
  BY HasKept DEF Papers, TrackIsOwn, TypeInv, DataOK
<1>2. FiledIsSigned'
  BY DEF Papers, FiledIsSigned, Grows, TypeInv, DataOK, Decide
<1>3. ProductionIsAccepted'
  BY DEF Papers, ProductionIsAccepted, Grows
<1> QED BY <1>1, <1>2, <1>3 DEF Papers

LEMMA EndsKnow ==
  ASSUME TypeInv, Papers, Grows, NEW P, NEW next, Ends(P, next),
         \A p \in Actors : p \in P => next[p] \in {"idle", "mails", "poll", "done"}
  PROVE  \A p \in Actors : Knows(p)'
<1> TAKE p \in Actors
<1>1. CASE p \in P
  BY <1>1, KnowsNothing DEF Ends
<1>2. CASE p \notin P
  BY <1>2, KnowsKept DEF Ends, Papers
<1> QED BY <1>1, <1>2

LEMMA EndKnows ==
  ASSUME TypeInv, Papers, Grows, NEW p \in Actors,
         End(p, "idle") \/ End(p, "mails") \/ End(p, "poll") \/ End(p, "done")
  PROVE  \A q \in Actors : Knows(q)'
BY EndsKnow DEF End

\* A step of actor p leaves what the others are at.
LEMMA OthersKnow ==
  ASSUME TypeInv, Papers, Grows, NEW p \in Actors, NEW q \in Actors, q # p,
         \E x : pc' = [pc EXCEPT ![p] = x], \E x : kind' = [kind EXCEPT ![p] = x],
         \E x : asked' = [asked EXCEPT ![p] = x], \E x : todo' = [todo EXCEPT ![p] = x],
         \E x : told' = [told EXCEPT ![p] = x]
  PROVE  Knows(q)'
BY KnowsKept DEF TypeInv, ActorsOK, Papers

\* An actor that asks nothing knows what it told.
LEMMA KnowsEvents ==
  ASSUME TypeInv, Papers, Grows, NEW p \in Actors, told'[p] \subseteq told[p],
         pc'[p] \notin {"polling", "asking"}
  PROVE  Knows(p)'
<1>1. ASSUME NEW e \in told[p]
      PROVE  /\ Has(e.case, e.track)'
             /\ e.dgii_status = "ACEPTADO" => verdict'[e.track] = "ACEPTADO"
  BY <1>1, EventsKept DEF Papers
<1> QED BY <1>1 DEF Knows

\* A step of which DGII hears nothing and that commits no event.
LEMMA QuietPapers ==
  ASSUME TypeInv, Papers, Grows, NEW p \in Actors, UNCHANGED <<track, accepted, dgii, told>>,
         \E x : pc' = [pc EXCEPT ![p] = x], \E x : kind' = [kind EXCEPT ![p] = x],
         \E x : asked' = [asked EXCEPT ![p] = x], \E x : todo' = [todo EXCEPT ![p] = x],
         pc'[p] \notin {"polling", "asking"}
  PROVE  Papers'
<1>1. \E x : told' = [told EXCEPT ![p] = x]
  BY DEF TypeInv, ActorsOK
<1>2. \A q \in Actors : Knows(q)'
  BY <1>1, OthersKnow, KnowsEvents
<1> QED BY <1>2, PapersKept DEF dgii

\* A step that tells an event with a track id the case has.
LEMMA TellsPapers ==
  ASSUME TypeInv, Papers, Grows, NEW p \in Actors, UNCHANGED <<track, accepted, dgii, kind, asked>>,
         \E x : pc' = [pc EXCEPT ![p] = x], \E x : todo' = [todo EXCEPT ![p] = x],
         pc'[p] \notin {"polling", "asking"},
         NEW c \in Cases, NEW t \in Tracks, NEW v, Tells(p, c, t, v),
         Has(c, t), v = "ACEPTADO" => verdict[t] = "ACEPTADO"
  PROVE  Papers'
<1>1. told' = [told EXCEPT ![p] = @ \cup
                {[case |-> c, after |-> track[c], track |-> t, dgii_status |-> v]}]
  BY DEF Tells
<1>2. /\ (\E x : kind' = [kind EXCEPT ![p] = x]) /\ (\E x : asked' = [asked EXCEPT ![p] = x])
      /\ \E x : told' = [told EXCEPT ![p] = x]
  <2>1. kind' = [kind EXCEPT ![p] = kind[p]] /\ asked' = [asked EXCEPT ![p] = asked[p]]
    BY DEF TypeInv, ActorsOK
  <2> QED BY <1>1, <2>1
<1>3. Knows(p)'
  <2>1. ASSUME NEW e \in told[p]
        PROVE  /\ Has(e.case, e.track)'
               /\ e.dgii_status = "ACEPTADO" => verdict'[e.track] = "ACEPTADO"
    BY <2>1, EventsKept DEF Papers
  <2>2. Has(c, t)' /\ (v = "ACEPTADO" => verdict'[t] = "ACEPTADO")
    BY HasKept DEF Grows
  <2>3. told'[p] = told[p] \cup {[case |-> c, after |-> track[c], track |-> t, dgii_status |-> v]}
    BY <1>1 DEF TypeInv, ActorsOK
  <2> QED BY <2>1, <2>2, <2>3 DEF Knows
<1>4. \A q \in Actors : Knows(q)'
  BY <1>2, <1>3, OthersKnow
<1> QED BY <1>4, PapersKept DEF dgii

\* A document of case c is filed: its track ids were nobody's.
LEMMA FilesPapers ==
  ASSUME TypeInv, Papers, Grows, NEW T \in SUBSET Tracks, NEW c \in Cases, db[c].secret_ref = "stored",
         Files(c, T), UNCHANGED <<db, track, accepted, named, verdict>>
  PROVE  TrackIsOwn' /\ FiledIsSigned' /\ ProductionIsAccepted'
<1>1. TrackIsOwn'
  BY HasKept DEF Papers, TrackIsOwn, TypeInv, DataOK
<1>2. FiledIsSigned'
  BY NoneIsOther DEF Papers, FiledIsSigned, TypeInv, DataOK, Files
<1>3. ProductionIsAccepted'
  BY NoneIsOther DEF Papers, ProductionIsAccepted, Grows
<1> QED BY <1>1, <1>2, <1>3

LEMMA SameActor ==
  ASSUME TypeInv, NEW p \in Actors
  PROVE  /\ pc = [pc EXCEPT ![p] = pc[p]] /\ kind = [kind EXCEPT ![p] = kind[p]]
         /\ asked = [asked EXCEPT ![p] = asked[p]] /\ todo = [todo EXCEPT ![p] = todo[p]]
BY DEF TypeInv, ActorsOK

LEMMA RemindersPapers ==
  ASSUME TypeInv, Papers, Grows, NEW p \in Actors,
         \/ due_reminders(p) \/ notify_reminder_due(p) \/ NotifyFails(p)
         \/ MarkNotified(p) \/ NotifyCommits(p)
  PROVE  Papers'
<1> USE DEF rows, dgii
<1>0. /\ pc = [pc EXCEPT ![p] = pc[p]] /\ kind = [kind EXCEPT ![p] = kind[p]]
      /\ asked = [asked EXCEPT ![p] = asked[p]] /\ todo = [todo EXCEPT ![p] = todo[p]]
  BY SameActor
<1>1. CASE due_reminders(p) \/ notify_reminder_due(p) \/ MarkNotified(p)
  <2>1. /\ UNCHANGED <<track, accepted, filed, verdict, told, kind, asked>>
        /\ \E x \in {"notify", "mark"} : pc' = [pc EXCEPT ![p] = x]
        /\ \E x : todo' = [todo EXCEPT ![p] = x]
    BY <1>0, <1>1 DEF due_reminders, notify_reminder_due, MarkNotified, Goes, local
  <2>2. pc'[p] \notin {"polling", "asking"}
    BY <2>1 DEF TypeInv, ActorsOK
  <2> QED BY <1>0, <2>1, <2>2, QuietPapers
<1>2. CASE NotifyFails(p) \/ NotifyCommits(p)
  BY <1>2, EndKnows, PapersKept DEF NotifyFails, NotifyCommits
<1> QED BY <1>1, <1>2

LEMMA MailPapers ==
  ASSUME TypeInv, Papers, Grows, NEW p \in Actors,
         SearchUnseen(p) \/ Fetch(p) \/ MailCommits(p) \/ MailFails(p) \/ MailDone(p)
  PROVE  Papers'
<1> USE DEF rows, dgii
<1>0. /\ pc = [pc EXCEPT ![p] = pc[p]] /\ kind = [kind EXCEPT ![p] = kind[p]]
      /\ asked = [asked EXCEPT ![p] = asked[p]] /\ todo = [todo EXCEPT ![p] = todo[p]]
  BY SameActor
<1>1. CASE SearchUnseen(p) \/ Fetch(p) \/ MailCommits(p)
  <2>1. /\ UNCHANGED <<track, accepted, filed, verdict, told, kind, asked>>
        /\ \E x \in {"fetch", "intake"} : pc' = [pc EXCEPT ![p] = x]
        /\ \E x : todo' = [todo EXCEPT ![p] = x]
    BY <1>0, <1>1 DEF SearchUnseen, Fetch, MailCommits, Goes
  <2>2. pc'[p] \notin {"polling", "asking"}
    BY <2>1 DEF TypeInv, ActorsOK
  <2> QED BY <1>0, <2>1, <2>2, QuietPapers
<1>2. CASE MailFails(p) \/ MailDone(p)
  BY <1>2, EndKnows, PapersKept DEF MailFails, MailDone
<1> QED BY <1>1, <1>2

\* What Commit makes the latest track id of a case is its own, and what it moves to
\* production because of one was accepted.
LEMMA CommitPapers ==
  ASSUME TypeInv, Papers, Grows, NEW p \in Actors, Commit(p)
  PROVE  Papers'
<1> USE DEF dgii
<1>1. \A e \in told[p] : /\ e.case \in Cases /\ e.track \in Tracks /\ Has(e.case, e.track)
                         /\ e.dgii_status = "ACEPTADO" => verdict[e.track] = "ACEPTADO"
  BY DEF Papers, Knows, TypeInv, ActorsOK, Event
<1>2. UNCHANGED <<filed, verdict, named>>
  BY DEF Commit
<1>3. TrackIsOwn'
  <2> SUFFICES ASSUME NEW c \in Cases, track'[c] # None
               PROVE  track'[c] \in Simulated \/ filed[track'[c]] = c \/ <<c, track'[c]>> \in named
    BY <1>2 DEF TrackIsOwn, Has
  <2>1. CASE track'[c] = track[c]
    BY <2>1 DEF Papers, TrackIsOwn, Has
  <2>2. CASE track'[c] # track[c]
    <3>1. PICK e \in told[p] : e.case = c /\ track'[c] = e.track
      BY <2>2, CommitTracks
    <3> QED BY <1>1, <3>1 DEF Has
  <2> QED BY <2>1, <2>2
<1>4. FiledIsSigned'
  BY <1>2 DEF Papers, FiledIsSigned, Grows, TypeInv, DataOK
<1>5. ProductionIsAccepted'
  <2> SUFFICES ASSUME NEW c \in Cases, NEW t \in Tracks, <<c, t, "ACEPTADO">> \in accepted'
               PROVE  /\ verdict[t] = "ACEPTADO"
                      /\ <<c, t>> \in named \/ (filed[t] = c /\ db'[c].secret_ref = "stored")
    BY <1>2 DEF ProductionIsAccepted
  <2>1. /\ verdict[t] = "ACEPTADO"
        /\ <<c, t>> \in named \/ (filed[t] = c /\ db[c].secret_ref = "stored")
    <3>1. CASE <<c, t, "ACEPTADO">> \in accepted
      BY <3>1 DEF Papers, ProductionIsAccepted
    <3>2. CASE <<c, t, "ACEPTADO">> \notin accepted
      <4>1. PICK e \in told[p] : <<c, t, "ACEPTADO">> = <<e.case, e.track, e.dgii_status>>
        BY <3>2 DEF Commit
      <4>2. Has(c, t) /\ verdict[t] = "ACEPTADO"
        BY <1>1, <4>1
      <4> QED BY <4>2, AcceptedIsFiled DEF Papers
    <3> QED BY <3>1, <3>2
  <2> QED BY <2>1 DEF Grows
<1>6. \A q \in Actors : Knows(q)'
  BY EndKnows DEF Commit
<1> QED BY <1>3, <1>4, <1>5, <1>6 DEF Papers

LEMMA PollPapers ==
  ASSUME TypeInv, Papers, Grows, NEW p \in Actors,
         \/ list_requests_by_status(p) \/ _extract_track_id(p) \/ PollAnswered(p)
         \/ PollFailed(p) \/ transition_status(p)
  PROVE  Papers'
<1> USE DEF rows, dgii
<1>0. /\ pc = [pc EXCEPT ![p] = pc[p]] /\ kind = [kind EXCEPT ![p] = kind[p]]
      /\ asked = [asked EXCEPT ![p] = asked[p]] /\ todo = [todo EXCEPT ![p] = todo[p]]
  BY SameActor
<1>1. CASE list_requests_by_status(p) \/ transition_status(p)
  <2>1. /\ UNCHANGED <<track, accepted, filed, verdict, told, asked>>
        /\ pc' = [pc EXCEPT ![p] = "next"]
        /\ (\E x : kind' = [kind EXCEPT ![p] = x]) /\ \E x : todo' = [todo EXCEPT ![p] = x]
    BY <1>0, <1>1 DEF list_requests_by_status, transition_status, Goes
  <2>2. pc'[p] \notin {"polling", "asking"}
    BY <2>1 DEF TypeInv, ActorsOK
  <2> QED BY <1>0, <2>1, <2>2, QuietPapers
<1>2. CASE _extract_track_id(p)
  <2>1. CASE track[Head(todo[p])] = None
    <3>1. /\ UNCHANGED <<track, accepted, filed, verdict, told, kind, asked, pc>>
          /\ pc[p] = "next" /\ \E x : todo' = [todo EXCEPT ![p] = x]
      BY <1>2, <2>1 DEF _extract_track_id
    <3> QED BY <1>0, <3>1, QuietPapers
  <2>2. CASE track[Head(todo[p])] # None
    <3>1. /\ UNCHANGED <<track, accepted, filed, verdict, told, kind, todo>>
          /\ pc[p] = "next" /\ todo[p] # <<>>
          /\ pc' = [pc EXCEPT ![p] = "polling"]
          /\ asked' = [asked EXCEPT ![p] = track[Head(todo[p])]]
      BY <1>2, <2>2 DEF _extract_track_id
    <3>2. Head(todo[p]) \in Cases
      BY <3>1, HeadType DEF TypeInv
    <3>3. told' = [told EXCEPT ![p] = told[p]]
      BY <3>1 DEF TypeInv, ActorsOK
    <3>4. ASSUME NEW q \in Actors, q # p PROVE Knows(q)'
      BY <1>0, <3>1, <3>3, <3>4, OthersKnow
    <3>5. Knows(p)'
      <4>1. pc'[p] = "polling" /\ Has(Head(todo'[p]), asked'[p])
        BY <2>2, <3>1, <3>2 DEF Papers, TrackIsOwn, TypeInv, ActorsOK
      <4>2. UNCHANGED <<filed, verdict, named>>
        BY <1>2 DEF _extract_track_id
      <4> QED BY <3>1, <4>1, <4>2 DEF Papers, Knows, Has
    <3> QED BY <3>1, <3>4, <3>5, PapersKept
  <2> QED BY <2>1, <2>2
<1>3. CASE PollAnswered(p) \/ PollFailed(p)
  <2>1. pc[p] = "polling"
    BY <1>3 DEF PollAnswered, PollFailed, Goes
  <2>2. Head(todo[p]) \in Cases /\ asked[p] \in Tracks /\ Has(Head(todo[p]), asked[p])
    BY <2>1, HeadType DEF TypeInv, ActorsOK, Local, Papers, Knows
  <2>3. PICK v : /\ Tells(p, Head(todo[p]), asked[p], v)
                 /\ v = "ACEPTADO" => verdict[asked[p]] = "ACEPTADO"
    BY <1>3 DEF PollAnswered, PollFailed, Verdict
  <2>4. /\ UNCHANGED <<track, accepted, filed, verdict, kind, asked>>
        /\ \E x \in {"next", "blocked"} : pc' = [pc EXCEPT ![p] = x]
        /\ \E x : todo' = [todo EXCEPT ![p] = x]
    BY <1>3 DEF PollAnswered, PollFailed, Goes
  <2>5. pc'[p] \notin {"polling", "asking"}
    BY <2>4 DEF TypeInv, ActorsOK
  <2> QED BY <2>2, <2>3, <2>4, <2>5, TellsPapers
<1> QED BY <1>1, <1>2, <1>3

LEMMA WritePapers ==
  ASSUME TypeInv, Papers, Grows, NEW p \in Actors, Write(p) \/ Reject(p)
  PROVE  Papers'
BY EndKnows, PapersKept DEF Write, Reject, rows, dgii

LEMMA MovesOn ==
  ASSUME TypeInv, NEW p \in Actors, NEW wanted, Moves(p, wanted)
  PROVE  /\ \E x : pc' = [pc EXCEPT ![p] = x]
         /\ \E x : todo' = [todo EXCEPT ![p] = x]
         /\ pc'[p] \notin {"polling", "asking"}
<1>1. \E x \in {"blocked", "next"} : pc' = [pc EXCEPT ![p] = x]
  BY DEF Moves
<1>2. \E x : todo' = [todo EXCEPT ![p] = x]
  BY DEF Moves
<1> QED BY <1>1, <1>2 DEF TypeInv, ActorsOK

LEMMA AskingPapers ==
  ASSUME TypeInv, Papers, Grows, NEW p \in Actors,
         Checked(p) \/ Submitted(p) \/ Tracked(p) \/ AskFails(p)
  PROVE  Papers'
<1> USE DEF rows, dgii
<1>0. /\ pc = [pc EXCEPT ![p] = pc[p]] /\ kind = [kind EXCEPT ![p] = kind[p]]
      /\ asked = [asked EXCEPT ![p] = asked[p]] /\ todo = [todo EXCEPT ![p] = todo[p]]
  BY SameActor
<1>c. pc[p] = "asking" /\ Head(todo[p]) \in Cases
  BY HeadType DEF Checked, Submitted, Tracked, AskFails, TypeInv, ActorsOK, Local
<1>1. CASE Checked(p)
  <2>1. PICK wanted \in BOOLEAN : Moves(p, wanted)
    BY <1>1 DEF Checked
  <2>2. UNCHANGED <<track, accepted, filed, verdict, told, kind, asked>>
    BY <1>1 DEF Checked
  <2> QED BY <1>0, <2>1, <2>2, MovesOn, QuietPapers
<1>2. CASE Submitted(p)
  <2> DEFINE c == Head(todo[p])
  <2>1. PICK new \in SUBSET Tracks, wanted \in BOOLEAN, t \in Tracks :
          /\ t \in new \cup Simulated
          /\ Files(c, new) /\ Tells(p, c, t, "OTHER") /\ Moves(p, wanted)
    BY <1>2, CasesAssumption DEF Submitted
  <2>2. db[c].secret_ref = "stored"
    BY <1>2, <1>c DEF Submitted, Papers, Knows
  <2>3. UNCHANGED <<db, track, accepted, named, verdict, kind, asked>>
    BY <1>2 DEF Submitted
  <2>4. TrackIsOwn' /\ FiledIsSigned' /\ ProductionIsAccepted'
    BY <1>c, <2>1, <2>2, <2>3, FilesPapers
  <2>5. told' = [told EXCEPT ![p] = @ \cup
                  {[case |-> c, after |-> track[c], track |-> t, dgii_status |-> "OTHER"]}]
    BY <2>1 DEF Tells
  <2>6. Knows(p)'
    <3>1. ASSUME NEW e \in told[p]
          PROVE  /\ Has(e.case, e.track)'
                 /\ e.dgii_status = "ACEPTADO" => verdict'[e.track] = "ACEPTADO"
      BY <3>1, EventsKept DEF Papers
    <3>2. t \in Simulated \/ filed'[t] = c
      BY <2>1 DEF Files
    <3>3. told'[p] = told[p] \cup
                  {[case |-> c, after |-> track[c], track |-> t, dgii_status |-> "OTHER"]}
      BY <2>5 DEF TypeInv, ActorsOK
    <3>4. pc'[p] \notin {"polling", "asking"}
      BY <2>1, MovesOn
    <3> HIDE DEF c
    <3> QED BY <3>1, <3>2, <3>3, <3>4 DEF Knows, Has
  <2>7. ASSUME NEW q \in Actors, q # p PROVE Knows(q)'
    <3>1. /\ (\E x : pc' = [pc EXCEPT ![p] = x]) /\ (\E x : kind' = [kind EXCEPT ![p] = x])
          /\ (\E x : asked' = [asked EXCEPT ![p] = x]) /\ (\E x : todo' = [todo EXCEPT ![p] = x])
          /\ \E x : told' = [told EXCEPT ![p] = x]
      BY <1>0, <2>1, <2>3, <2>5, MovesOn
    <3> QED BY <2>7, <3>1, OthersKnow
  <2> QED BY <2>4, <2>6, <2>7 DEF Papers
<1>3. CASE Tracked(p)
  <2>1. PICK wanted \in BOOLEAN : Moves(p, wanted)
    BY <1>3 DEF Tracked
  <2>2. asked[p] \in Tracks /\ Has(Head(todo[p]), asked[p])
    BY <1>3, <1>c DEF Tracked, TypeInv, ActorsOK, Local, Papers, Knows
  <2>3. PICK v : /\ Tells(p, Head(todo[p]), asked[p], v)
                 /\ v = "ACEPTADO" => verdict[asked[p]] = "ACEPTADO"
    BY <1>3 DEF Tracked, Verdict
  <2>4. UNCHANGED <<track, accepted, filed, verdict, kind, asked>>
    BY <1>3 DEF Tracked
  <2> QED BY <1>c, <2>1, <2>2, <2>3, <2>4, MovesOn, TellsPapers
<1>4. CASE AskFails(p)
  <2>1. \A q \in Actors : Knows(q)'
    BY <1>4, EndKnows DEF AskFails
  <2>2. CASE UNCHANGED filed
    BY <1>4, <2>1, <2>2, PapersKept DEF AskFails, rows
  <2>3. CASE filed' # filed
    <3>1. PICK new \in SUBSET Tracks : Files(Head(todo[p]), new)
      BY <1>4, <2>3 DEF AskFails
    <3>2. db[Head(todo[p])].secret_ref = "stored"
      BY <1>4, <1>c, <2>3 DEF AskFails, Papers, Knows
    <3>3. UNCHANGED <<db, track, accepted, named, verdict>>
      BY <1>4 DEF AskFails
    <3> QED BY <1>c, <2>1, <3>1, <3>2, <3>3, FilesPapers DEF Papers
  <2> QED BY <2>2, <2>3
<1> QED BY <1>1, <1>2, <1>3, <1>4

LEMMA RequestPapers ==
  ASSUME TypeInv, Papers, Grows, NEW p \in Actors, Request(p)
  PROVE  Papers'
<1> USE DEF rows, dgii
<1>0. /\ pc = [pc EXCEPT ![p] = pc[p]] /\ kind = [kind EXCEPT ![p] = kind[p]]
      /\ asked = [asked EXCEPT ![p] = asked[p]] /\ todo = [todo EXCEPT ![p] = todo[p]]
  BY SameActor
<1>1. ASSUME NEW r \in Reminders, schedule_reminder(p, r) \/ resolve_reminder(p, r) PROVE Papers'
  BY <1>1, EndKnows, PapersKept DEF schedule_reminder, resolve_reminder
<1>2. ASSUME NEW c \in Cases, create_intake(p, c) PROVE Papers'
  BY <1>2, EndKnows, PapersKept DEF create_intake
<1>3. ASSUME NEW c \in Cases, NEW k \in Direct, Load(p, k, c) PROVE Papers'
  <2>1. /\ UNCHANGED <<track, accepted, filed, verdict, told, asked>>
        /\ pc' = [pc EXCEPT ![p] = "loaded"] /\ kind' = [kind EXCEPT ![p] = k]
        /\ todo' = [todo EXCEPT ![p] = <<c>>]
    BY <1>3 DEF Load, Goes
  <2>2. pc'[p] \notin {"polling", "asking"}
    BY <2>1 DEF TypeInv, ActorsOK
  <2> QED BY <1>0, <2>1, <2>2, QuietPapers
<1>4. ASSUME NEW c \in Cases, NEW k \in Asking, Ask(p, k, c) PROVE Papers'
  <2>1. PICK t : /\ asked' = [asked EXCEPT ![p] = t]
                 /\ k = "track" => (t = track[c] /\ t # None) \/ <<c, t>> \in named'
                 /\ k = "submit" => db[c].secret_ref = "stored"
    BY <1>4 DEF Ask, MayAsk
  <2>2. /\ UNCHANGED <<db, track, accepted, filed, verdict, told>> /\ named \subseteq named'
        /\ pc' = [pc EXCEPT ![p] = "asking"] /\ kind' = [kind EXCEPT ![p] = k]
        /\ todo' = [todo EXCEPT ![p] = <<c>>]
    BY <1>4 DEF Ask, Goes
  <2>3. told' = [told EXCEPT ![p] = told[p]]
    BY <2>2 DEF TypeInv, ActorsOK
  <2>4. ASSUME NEW q \in Actors, q # p PROVE Knows(q)'
    BY <2>1, <2>2, <2>3, <2>4, OthersKnow
  <2>5. k = "track" => t \in Simulated \/ filed'[t] = c \/ <<c, t>> \in named'
    BY <2>1, <2>2 DEF Papers, TrackIsOwn, Has
  <2>6. /\ pc'[p] = "asking" /\ kind'[p] = k /\ Head(todo'[p]) = c /\ asked'[p] = t
        /\ told'[p] = told[p]
    BY <2>1, <2>2 DEF TypeInv, ActorsOK
  <2>7. \A e \in told[p] : /\ Has(e.case, e.track)'
                           /\ e.dgii_status = "ACEPTADO" => verdict'[e.track] = "ACEPTADO"
    BY EventsKept DEF Papers
  <2>8. Knows(p)'
    BY <2>1, <2>2, <2>5, <2>6, <2>7 DEF Knows, Has
  <2> QED BY <2>2, <2>4, <2>8, PapersKept
<1>5. ASSUME NEW part \in Parts, Process(p, part) PROVE Papers'
  <2>1. /\ UNCHANGED <<track, accepted, filed, verdict, told, kind, asked, todo>>
        /\ pc' = [pc EXCEPT ![p] = part]
    BY <1>5 DEF Process, Goes, local
  <2>2. pc'[p] \notin {"polling", "asking"}
    BY <2>1 DEF Parts, TypeInv, ActorsOK
  <2> QED BY <1>0, <2>1, <2>2, QuietPapers
<1> QED BY <1>1, <1>2, <1>3, <1>4, <1>5 DEF Request

LEMMA SurroundingsPapers ==
  ASSUME TypeInv, Papers, Grows,
         \/ \E r \in Reminders : Tick(r)
         \/ \E t \in Tracks : Decide(t)
         \/ \E w \in Workers : Kill(w) \/ Crash(w)
  PROVE  Papers'
<1> USE DEF rows, dgii
<1>1. ASSUME UNCHANGED <<track, accepted, filed, pc, kind, local>>,
             UNCHANGED verdict \/ \E t \in Tracks : Decide(t)
      PROVE  Papers'
  BY <1>1, KnowsKept, PapersKept DEF local, Papers
<1>2. ASSUME NEW w \in Workers, Restart(w) PROVE Papers'
  BY <1>2, EndsKnow, PapersKept DEF Restart
<1> QED BY <1>1, <1>2 DEF Tick, Decide, Kill, Crash

LEMMA PapersStep == TypeInv /\ Papers /\ [Next]_vars => Papers'
<1> SUFFICES ASSUME TypeInv, Papers, [Next]_vars PROVE Papers'
  OBVIOUS
<1>1. ASSUME NEW p \in Actors, Step(p) PROVE Papers'
  BY <1>1, StepGrows, RemindersPapers, MailPapers, PollPapers, CommitPapers, WritePapers,
     AskingPapers DEF Step
<1>2. ASSUME NEW p \in Actors, Request(p) PROVE Papers'
  BY <1>2, RequestGrows, RequestPapers
<1>3. ASSUME UNCHANGED vars PROVE Papers'
  <2>1. Grows /\ UNCHANGED <<track, accepted, filed, verdict, pc, kind, local>>
    BY <1>3 DEF Grows, vars, rows, dgii
  <2> QED BY <2>1, KnowsKept, PapersKept DEF local, Papers
<1> QED BY <1>1, <1>2, <1>3, SurroundingsGrow, SurroundingsPapers DEF Next

LEMMA PapersInit == Init => Papers
<1> SUFFICES ASSUME Init PROVE Papers
  OBVIOUS
<1>1. \A c \in Cases : /\ Start[c].track \in Tracks \cup {None}
                       /\ Start[c].track # None => Start[c].row.secret_ref = "stored"
                                                   /\ Start[c].track \notin Simulated
                       /\ \A d \in Cases : Start[c].track = Start[d].track /\ Start[c].track # None
                                           => c = d
  BY CasesAssumption
<1>2. TrackIsOwn
  <2> SUFFICES ASSUME NEW c \in Cases, Start[c].track # None PROVE filed[Start[c].track] = c
    BY DEF Init, TrackIsOwn, Has
  <2> DEFINE t == Start[c].track
  <2>1. t \in Tracks
    BY <1>1
  <2>2. filed[t] = CHOOSE d \in Cases : Start[d].track = t
    BY <2>1 DEF Init
  <2> QED BY <1>1, <2>2
<1>3. FiledIsSigned
  <2> SUFFICES ASSUME NEW t \in Tracks, filed[t] # None
               PROVE  db[filed[t]].secret_ref = "stored" /\ t \notin Simulated
    BY DEF FiledIsSigned, Init
  <2>1. PICK c \in Cases : Start[c].track = t
    BY DEF Init
  <2>2. filed[t] = CHOOSE d \in Cases : Start[d].track = t
    BY <2>1 DEF Init
  <2>3. filed[t] \in Cases /\ Start[filed[t]].track = t
    BY <2>1, <2>2
  <2> QED BY <1>1, <2>3, ActorsAssumption DEF Init
<1>4. ProductionIsAccepted
  BY DEF Init, ProductionIsAccepted
<1>5. \A p \in Actors : Knows(p)
  BY DEF Init, Knows
<1> QED BY <1>2, <1>3, <1>4, <1>5 DEF Papers

\* A case that goes to production on an answer of DGII does so for a document DGII
\* accepted: one of this case, signed with a stored certificate, or one an operator named.
THEOREM ProductionIsAlwaysAccepted == Spec => []ProductionIsAccepted
<1>1. Papers => ProductionIsAccepted
  BY DEF Papers
<1> QED BY <1>1, TypeInit, TypeStep, PapersInit, PapersStep, PTL DEF Spec

----------------------------------------------------------------------------
\* The book of documents.  The cases whose certificate is stored.
StoredCases == {c \in Cases : db[c].secret_ref = "stored"}

\* A step that says nothing of documents.
LEMMA BookStutters ==
  ASSUME UNCHANGED <<db, dgii, track, accepted, named>>
  PROVE  UNCHANGED Book!vars
BY DEF Book!vars, dgii

\* A row that is written keeps its certificate or has one stored now.
LEMMA RowIsSecured ==
  ASSUME TypeInv, NEW c, NEW s, NEW v \in {db[c].secret_ref, "stored"}, NEW S,
         Writes([db EXCEPT ![c] = [status |-> s, secret_ref |-> v]], S),
         UNCHANGED <<track, accepted, named, dgii>>
  PROVE  [Book!Next]_(Book!vars)
<1>1. db' = [db EXCEPT ![c] = [status |-> s, secret_ref |-> v]] /\ UNCHANGED <<filed, verdict>>
  BY DEF Writes, dgii
<1>2. \A d \in Cases : db'[d] = IF d = c THEN [status |-> s, secret_ref |-> v] ELSE db[d]
  BY <1>1 DEF TypeInv, DataOK
<1>3. CASE c \in Cases /\ v = "stored"
  <2>1. StoredCases' = StoredCases \cup {c}
    BY <1>2, <1>3 DEF StoredCases
  <2>2. Book!Secure(c)
    BY <1>1, <2>1 DEF Book!Secure, StoredCases
  <2> QED BY <1>3, <2>2 DEF Book!Next
<1>4. CASE ~(c \in Cases /\ v = "stored")
  <2>1. StoredCases' = StoredCases
    BY <1>2, <1>4 DEF StoredCases
  <2> QED BY <1>1, <2>1 DEF Book!vars, StoredCases
<1> QED BY <1>3, <1>4

\* DGII gets a document of a case whose certificate is stored.
LEMMA FilingIsBooked ==
  ASSUME NEW c \in Cases, NEW T \in SUBSET Tracks, db[c].secret_ref = "stored", Files(c, T),
         UNCHANGED <<db, track, accepted, named, verdict>>
  PROVE  Book!Next
<1>1. Book!File(c, T)
  BY DEF Book!File, Files
<1> QED BY <1>1 DEF Book!Next

\* What a transaction commits of documents is what it learned of DGII, which stands.
LEMMA CommitIsBooked ==
  ASSUME TypeInv, Papers, NEW p \in Actors, Commit(p)
  PROVE  Book!Record
<1>1. \A e \in told[p] : /\ e.case \in Cases /\ e.track \in Tracks
                         /\ e.track \in Simulated \/ Book!IsOf(e.case, e.track)
                         /\ e.dgii_status = "ACEPTADO" =>
                              verdict[e.track] = "ACEPTADO" /\ Book!IsOf(e.case, e.track)
  <2> SUFFICES ASSUME NEW e \in told[p]
               PROVE  /\ e.case \in Cases /\ e.track \in Tracks
                      /\ e.track \in Simulated \/ Book!IsOf(e.case, e.track)
                      /\ e.dgii_status = "ACEPTADO" =>
                           verdict[e.track] = "ACEPTADO" /\ Book!IsOf(e.case, e.track)
    OBVIOUS
  <2>1. /\ e.case \in Cases /\ e.track \in Tracks /\ Has(e.case, e.track)
        /\ e.dgii_status = "ACEPTADO" => verdict[e.track] = "ACEPTADO"
    BY DEF Papers, Knows, TypeInv, ActorsOK, Event
  <2>2. e.dgii_status = "ACEPTADO" => <<e.case, e.track>> \in named \/ filed[e.track] = e.case
    BY <2>1, AcceptedIsFiled DEF Papers
  <2> QED BY <2>1, <2>2 DEF Has, Book!IsOf
<1>2. StoredCases' = StoredCases
  <2>1. \A c \in Cases : db'[c].secret_ref = db[c].secret_ref
    BY DEF Commit, Writes, TypeInv, DataOK, PscRequest
  <2> QED BY <2>1 DEF StoredCases
<1>3. ASSUME NEW c \in Cases, track'[c] # track[c]
      PROVE  track'[c] \in Simulated \/ Book!IsOf(c, track'[c])
  <2>1. PICK e \in told[p] : e.case = c /\ track'[c] = e.track
    BY <1>3, CommitTracks
  <2> QED BY <1>1, <2>1
<1>4. ASSUME NEW x \in accepted' \ accepted
      PROVE  IF x[3] = "ACEPTADO" THEN Book!IsOf(x[1], x[2]) /\ verdict[x[2]] = "ACEPTADO"
             ELSE x[2] \in Simulated \/ Book!IsOf(x[1], x[2])
  <2>1. PICK e \in told[p] : x = <<e.case, e.track, e.dgii_status>>
    BY <1>4 DEF Commit
  <2>2. x[1] = e.case /\ x[2] = e.track /\ x[3] = e.dgii_status
    BY <2>1
  <2> QED BY <1>1, <2>2
<1>5. /\ track' \in [Cases -> Tracks \cup {None}] /\ accepted \subseteq accepted'
      /\ UNCHANGED <<filed, verdict, named>>
  BY CommitTracks DEF Commit, dgii
<1> QED BY <1>2, <1>3, <1>4, <1>5 DEF Book!Record, StoredCases

LEMMA StepIsBooked ==
  ASSUME TypeInv, Papers, NEW p \in Actors, Step(p)
  PROVE  [Book!Next]_(Book!vars)
<1>1. CASE UNCHANGED <<db, dgii, track, accepted, named>>
  BY <1>1, BookStutters
<1>2. CASE MailCommits(p)
  <2> DEFINE c == CaseOf[Head(todo[p])]
  <2>1. PICK s \in {"CERTIFICATE_RECEIVED", "CERTIFICATE_VALIDATION_FAILED",
                   "CERTIFICATE_VALIDATED", "SECRET_STORED"}, S \in {{}, {c}} :
          Writes([db EXCEPT ![c] =
            [status     |-> IF s = "CERTIFICATE_RECEIVED" /\ loaded[p].status = s
                              THEN db[c].status ELSE s,
             secret_ref |-> IF s = "SECRET_STORED" THEN "stored" ELSE db[c].secret_ref]], S)
    BY <1>2 DEF MailCommits, TypeInv, DataOK, ActorsOK, Local
  <2>2. UNCHANGED <<track, accepted, named, dgii>>
    BY <1>2 DEF MailCommits
  <2> HIDE DEF c
  <2> QED BY <2>1, <2>2, RowIsSecured
<1>3. CASE Commit(p)
  BY <1>3, CommitIsBooked DEF Book!Next
<1>4. CASE Write(p)
  <2> DEFINE c == Head(todo[p])
  <2>1. PICK s \in Targets(kind[p], loaded[p]), S \in {{}, {c}} :
          Writes([db EXCEPT ![c] =
            [status     |-> IF s = loaded[p].status THEN db[c].status ELSE s,
             secret_ref |-> IF kind[p] = "store" THEN "stored" ELSE db[c].secret_ref]], S)
    BY <1>4 DEF Write
  <2>2. UNCHANGED <<track, accepted, named, dgii>>
    BY <1>4 DEF Write
  <2> HIDE DEF c
  <2> QED BY <2>1, <2>2, RowIsSecured
<1>5. CASE Submitted(p) \/ AskFails(p)
  <2>1. CASE UNCHANGED filed
    BY <1>1, <1>5, <2>1 DEF Submitted, AskFails, rows, dgii
  <2>2. CASE filed' # filed
    <3>1. PICK new \in SUBSET Tracks : Files(Head(todo[p]), new)
      BY <1>5, <2>2 DEF Submitted, AskFails
    <3>2. pc[p] = "asking" /\ kind[p] = "submit"
      BY <1>5, <2>2 DEF Submitted, AskFails
    <3>3. Head(todo[p]) \in Cases /\ db[Head(todo[p])].secret_ref = "stored"
      BY <3>2, HeadType DEF TypeInv, ActorsOK, Local, Papers, Knows
    <3>4. UNCHANGED <<db, track, accepted, named, verdict>>
      BY <1>5 DEF Submitted, AskFails, rows
    <3> QED BY <3>1, <3>3, <3>4, FilingIsBooked
  <2> QED BY <2>1, <2>2
<1> QED
  BY <1>1, <1>2, <1>3, <1>4, <1>5 DEF Step, rows, due_reminders, notify_reminder_due, NotifyFails,
     MarkNotified, NotifyCommits, SearchUnseen, Fetch, MailFails, MailDone, list_requests_by_status,
     _extract_track_id, PollAnswered, PollFailed, transition_status, Reject, Checked, Tracked

LEMMA RequestIsBooked ==
  ASSUME TypeInv, NEW p \in Actors, Request(p)
  PROVE  [Book!Next]_(Book!vars)
<1>1. CASE UNCHANGED <<db, dgii, track, accepted, named>>
  BY <1>1, BookStutters
<1>3. ASSUME NEW c \in Cases, NEW k \in Asking, Ask(p, k, c) PROVE [Book!Next]_(Book!vars)
  <2>1. CASE UNCHANGED named
    BY <1>1, <1>3, <2>1 DEF Ask
  <2>2. CASE named' # named
    <3>1. PICK t \in Tracks : named' = named \cup {<<c, t>>}
      BY <1>3, <2>2 DEF Ask
    <3>2. Book!Name(c, t)
      BY <1>3, <3>1 DEF Ask, dgii, Book!Name
    <3> QED BY <3>1, <3>2 DEF Book!Next
  <2> QED BY <2>1, <2>2
<1>2. ASSUME NEW c \in Cases, create_intake(p, c) PROVE UNCHANGED Book!vars
  <2>1. PICK s : Writes([db EXCEPT ![c].status = s], {c})
    BY <1>2 DEF create_intake
  <2>2. \A d \in Cases : db'[d].secret_ref = db[d].secret_ref
    BY <2>1 DEF Writes, TypeInv, DataOK, PscRequest
  <2>3. StoredCases' = StoredCases
    BY <2>2 DEF StoredCases
  <2> QED BY <1>2, <2>3 DEF create_intake, dgii, Book!vars, StoredCases
<1> QED
  BY <1>1, <1>2, <1>3 DEF Request, rows, schedule_reminder, resolve_reminder, Load, Process

LEMMA BookStep == TypeInv /\ Papers /\ [Next]_vars => [Book!Next]_(Book!vars)
<1> SUFFICES ASSUME TypeInv, Papers, [Next]_vars PROVE [Book!Next]_(Book!vars)
  OBVIOUS
<1>1. CASE UNCHANGED <<db, dgii, track, accepted, named>>
  BY <1>1, BookStutters
<1>2. ASSUME NEW t \in Tracks, Decide(t) PROVE Book!Next
  <2>1. Book!Decide(t)
    BY <1>2 DEF Decide, rows, Book!Decide
  <2> QED BY <2>1 DEF Book!Next
<1> QED
  BY <1>1, <1>2, StepIsBooked, RequestIsBooked DEF Next, Tick, Kill, Crash, Restart, rows, vars

LEMMA BookInit == Init => Book!Init
<1> SUFFICES ASSUME Init PROVE Book!Init
  OBVIOUS
<1>1. TypeInv /\ Papers
  BY TypeInit, PapersInit
<1>2. \A t \in Tracks : filed[t] \in StoredCases \cup {None}
  BY <1>1 DEF Papers, FiledIsSigned, TypeInv, DataOK, StoredCases
<1>3. filed \in [Tracks -> StoredCases \cup {None}]
  BY <1>1, <1>2 DEF TypeInv, DataOK
<1>4. verdict = [t \in Tracks |-> "pending"] /\ accepted = {} /\ named = {}
  BY DEF Init
<1>5. \A c \in Cases : track[c] # None => filed[track[c]] = c
  <2>1. \A c \in Cases : track[c] # None => track[c] \notin Simulated
    BY CasesAssumption DEF Init
  <2> QED BY <1>1, <1>4, <2>1 DEF Papers, TrackIsOwn, Has
<1> QED BY <1>1, <1>3, <1>4, <1>5 DEF Book!Init, TypeInv, DataOK, StoredCases

\* Runners and requests keep the book of documents as CaseBook describes it: a
\* certificate stays stored, a track id is given once and to a signed document, DGII
\* decides once, and cases follow, and move for, track ids of documents of their own, those
\* named for them and simulated ones.
THEOREM ImplementsBookHolds == Spec => ImplementsBook
<1> QED BY TypeInit, TypeStep, PapersInit, PapersStep, BookInit, BookStep, PTL
   DEF Spec, ImplementsBook, Book!Spec

----------------------------------------------------------------------------
\* Reminders.  A batch marks only what is due and what it went through.
Due == {r \in Reminders : \E i \in DOMAIN due : due[i] = r}

Marks(p) ==
  /\ held[p] \cap Reminders \subseteq tried \cap Due
  /\ pc[p] \in {"notify", "mark"} => \A i \in DOMAIN todo[p] : todo[p][i] \in Due
  /\ pc[p] = "mark" => Head(todo[p]) \in tried

Notified == OverdueIsTried /\ \A p \in Actors : Marks(p)

\* Notifications do not come back, and only a batch that commits marks reminders.
LEMMA NotifiedKept ==
  ASSUME Notified, tried \subseteq tried', Due \subseteq Due',
         \A r \in Reminders : reminder'[r] = "OVERDUE_NOTIFIED" =>
           reminder[r] = "OVERDUE_NOTIFIED" \/ r \in tried \cap Due,
         \A p \in Actors : Marks(p)'
  PROVE  Notified'
<1> QED BY DEF Notified, OverdueIsTried, Due

\* What has come due stays so.
LEMMA DueStays ==
  ASSUME TypeInv, UNCHANGED due \/ \E r \in Reminders : Tick(r)
  PROVE  Due \subseteq Due'
<1>1. ASSUME NEW r \in Reminders, due' = Append(due, r) PROVE Due \subseteq Due'
  <2>1. \A i \in DOMAIN due : i \in DOMAIN due' /\ due'[i] = due[i]
    BY <1>1 DEF TypeInv, DataOK
  <2> QED BY <2>1 DEF Due
<1> QED BY <1>1 DEF Due, Tick

LEMMA EndsMark ==
  ASSUME TypeInv, Notified, tried \subseteq tried', UNCHANGED due, NEW P, NEW next, Ends(P, next),
         \A p \in Actors : p \in P => next[p] \in {"idle", "mails", "poll", "done"}
  PROVE  \A p \in Actors : Marks(p)'
<1> SUFFICES ASSUME NEW p \in Actors PROVE Marks(p)'
  OBVIOUS
<1>1. Due' = Due
  BY DEF Due
<1>2. CASE p \in P
  BY <1>2 DEF Ends, Marks
<1>3. CASE p \notin P
  BY <1>1, <1>3 DEF Ends, Marks, Notified
<1> QED BY <1>2, <1>3

LEMMA EndMarks ==
  ASSUME TypeInv, Notified, tried \subseteq tried', UNCHANGED due, NEW p \in Actors,
         End(p, "idle") \/ End(p, "mails") \/ End(p, "poll") \/ End(p, "done")
  PROVE  \A q \in Actors : Marks(q)'
BY EndsMark DEF End

\* A step of an actor that marks nothing.
LEMMA UnmarkedKept ==
  ASSUME TypeInv, Notified, NEW p \in Actors, UNCHANGED reminds,
         \E x : x \notin {"notify", "mark"} /\ pc' = [pc EXCEPT ![p] = x],
         \E x : todo' = [todo EXCEPT ![p] = x],
         held' = held \/ \E c \in Cases : held' = [held EXCEPT ![p] = @ \cup {c}]
  PROVE  Notified'
<1>1. \A c \in Cases : c \notin Reminders
  BY ActorsAssumption
<1>2. \A q \in Actors : held'[q] \cap Reminders = held[q] \cap Reminders
  <2>1. CASE held' = held
    BY <2>1
  <2>2. CASE \E c \in Cases : held' = [held EXCEPT ![p] = @ \cup {c}]
    <3>1. PICK c \in Cases : held' = [held EXCEPT ![p] = @ \cup {c}]
      BY <2>2
    <3>2. (held[p] \cup {c}) \cap Reminders = held[p] \cap Reminders
      BY <1>1
    <3>3. \A q \in Actors : held'[q] = IF q = p THEN held[p] \cup {c} ELSE held[q]
      BY <3>1 DEF TypeInv, ActorsOK
    <3> QED BY <3>2, <3>3
  <2> QED BY <2>1, <2>2
<1>3. UNCHANGED <<reminder, due, tried>> /\ Due' = Due
  BY DEF reminds, Due
<1>4. ASSUME NEW q \in Actors PROVE Marks(q)'
  <2>1. CASE q = p
    BY <1>2, <1>3, <2>1 DEF TypeInv, ActorsOK, Notified, Marks
  <2>2. CASE q # p
    BY <1>2, <1>3, <2>2 DEF TypeInv, ActorsOK, Notified, Marks
  <2> QED BY <2>1, <2>2
<1> QED BY <1>3, <1>4, NotifiedKept

LEMMA StepMarks ==
  ASSUME TypeInv, Notified, NEW p \in Actors, Step(p)
  PROVE  Notified'
<1> USE DEF reminds
<1>0. pc = [pc EXCEPT ![p] = pc[p]] /\ todo = [todo EXCEPT ![p] = todo[p]]
  BY SameActor
<1>1. CASE due_reminders(p)
  <2>1. UNCHANGED <<reminder, tried, due, held>> /\ pc' = [pc EXCEPT ![p] = "notify"]
    BY <1>1 DEF due_reminders, Goes
  <2>2. PICK batch : /\ todo' = [todo EXCEPT ![p] = batch]
                     /\ \A i \in DOMAIN batch : batch[i] \in Due
    <3> DEFINE S == {r \in Reminders : reminder[r] = "PENDING" /\ \E i \in DOMAIN due : due[i] = r}
               R == {e \in Reminders \X Reminders : \E i, j \in DOMAIN due : i < j /\ e = <<due[i], due[j]>>}
    <3>1. PICK batch \in Sorted(S, R) : todo' = [todo EXCEPT ![p] = batch]
      BY <1>1 DEF due_reminders
    <3>2. S \subseteq Due
      BY DEF Due
    <3> HIDE DEF S, R
    <3>3. \A i \in DOMAIN batch : batch[i] \in S
      BY <3>1 DEF Sorted
    <3> QED BY <3>1, <3>2, <3>3
  <2>3. Due' = Due
    BY <2>1 DEF Due
  <2>4. ASSUME NEW q \in Actors PROVE Marks(q)'
    <3>1. CASE q = p
      BY <2>1, <2>2, <2>3, <3>1 DEF TypeInv, ActorsOK, Notified, Marks
    <3>2. CASE q # p
      BY <2>1, <2>2, <2>3, <3>2 DEF TypeInv, ActorsOK, Notified, Marks
    <3> QED BY <3>1, <3>2
  <2> QED BY <2>1, <2>3, <2>4, NotifiedKept
<1>2. CASE notify_reminder_due(p)
  <2>1. UNCHANGED <<reminder, due, todo, held>> /\ tried' = tried \cup {Head(todo[p])}
    BY <1>2 DEF notify_reminder_due, local
  <2>2. Due' = Due
    BY <2>1 DEF Due
  <2>3. \A q \in Actors : Marks(q)'
    BY <1>2, <2>1, <2>2 DEF notify_reminder_due, Goes, Notified, Marks, TypeInv, ActorsOK
  <2> QED BY <2>1, <2>2, <2>3, NotifiedKept
<1>3. CASE NotifyFails(p)
  <2>1. UNCHANGED <<reminder, tried, due>>
    BY <1>3 DEF NotifyFails
  <2>2. \A q \in Actors : Marks(q)'
    BY <1>3, <2>1, EndMarks DEF NotifyFails
  <2> QED BY <2>1, <2>2, DueStays, NotifiedKept
<1>4. CASE MarkNotified(p)
  <2>1. UNCHANGED <<reminder, tried, due>>
    BY <1>4 DEF MarkNotified
  <2>2. todo[p] \in Seq(Reminders) /\ todo[p] # <<>> /\ pc[p] = "mark"
    BY <1>4 DEF MarkNotified, Goes, TypeInv, ActorsOK, Local
  <2>3. Head(todo[p]) \in tried /\ \A i \in DOMAIN todo[p] : todo[p][i] \in Due
    BY <2>2 DEF Notified, Marks
  <2>4. Head(todo[p]) \in Due /\ \A i \in DOMAIN Tail(todo[p]) : Tail(todo[p])[i] \in Due
    BY <2>2, <2>3
  <2>5. Due' = Due
    BY <2>1 DEF Due
  <2>6. ASSUME NEW q \in Actors PROVE Marks(q)'
    <3>1. CASE q = p
      <4>1. /\ held'[p] = held[p] \cup {Head(todo[p])} /\ pc'[p] = "notify"
            /\ todo'[p] = Tail(todo[p])
        BY <1>4 DEF MarkNotified, Goes, TypeInv, ActorsOK
      <4> QED BY <2>1, <2>3, <2>4, <2>5, <3>1, <4>1 DEF Notified, Marks
    <3>2. CASE q # p
      BY <1>4, <2>1, <2>5, <3>2 DEF MarkNotified, Goes, TypeInv, ActorsOK, Notified, Marks
    <3> QED BY <3>1, <3>2
  <2> QED BY <2>1, <2>5, <2>6, NotifiedKept
<1>5. CASE NotifyCommits(p)
  <2>1. UNCHANGED <<tried, due>>
    BY <1>5 DEF NotifyCommits
  <2>2. \A r \in Reminders : reminder'[r] = "OVERDUE_NOTIFIED" =>
          reminder[r] = "OVERDUE_NOTIFIED" \/ r \in tried \cap Due
    BY <1>5 DEF NotifyCommits, Notified, Marks
  <2>3. \A q \in Actors : Marks(q)'
    BY <1>5, <2>1, EndMarks DEF NotifyCommits
  <2> QED BY <2>1, <2>2, <2>3, DueStays, NotifiedKept
<1>6. CASE \/ SearchUnseen(p) \/ Fetch(p) \/ MailCommits(p) \/ list_requests_by_status(p)
           \/ _extract_track_id(p) \/ PollAnswered(p) \/ PollFailed(p)
  <2>1. UNCHANGED <<reminds, held>>
    BY <1>6 DEF SearchUnseen, Fetch, MailCommits, list_requests_by_status, _extract_track_id,
       PollAnswered, PollFailed
  <2>2. \E x \in {"fetch", "intake", "next", "polling", "blocked"} : pc' = [pc EXCEPT ![p] = x]
    BY <1>0, <1>6 DEF SearchUnseen, Fetch, MailCommits, list_requests_by_status, _extract_track_id,
       PollAnswered, PollFailed, Goes
  <2>3. \E x : todo' = [todo EXCEPT ![p] = x]
    BY <1>0, <1>6 DEF SearchUnseen, Fetch, MailCommits, list_requests_by_status, _extract_track_id,
       PollAnswered, PollFailed
  <2> QED BY <2>1, <2>2, <2>3, UnmarkedKept
<1>7. CASE transition_status(p)
  <2>1. /\ UNCHANGED reminds /\ pc' = [pc EXCEPT ![p] = "next"]
        /\ \E x : todo' = [todo EXCEPT ![p] = x]
        /\ held' = [held EXCEPT ![p] = @ \cup {Head(todo[p])}]
    BY <1>7 DEF transition_status
  <2>2. Head(todo[p]) \in Cases
    BY <1>7, HeadType DEF transition_status, TypeInv, ActorsOK, Local
  <2> QED BY <2>1, <2>2, UnmarkedKept
<1>8. CASE Checked(p) \/ Submitted(p) \/ Tracked(p)
  <2>1. UNCHANGED <<reminds, held>>
    BY <1>8 DEF Checked, Submitted, Tracked
  <2>2. PICK wanted : Moves(p, wanted)
    BY <1>8 DEF Checked, Submitted, Tracked
  <2>3. \E x \in {"blocked", "next"} : pc' = [pc EXCEPT ![p] = x]
    BY <2>2 DEF Moves
  <2> QED BY <2>1, <2>2, <2>3, MovesOn, UnmarkedKept
<1>9. CASE \/ MailFails(p) \/ MailDone(p) \/ Commit(p) \/ Write(p) \/ Reject(p) \/ AskFails(p)
  <2>1. UNCHANGED <<reminder, tried, due>>
    BY <1>9 DEF MailFails, MailDone, Commit, Write, Reject, AskFails
  <2>2. \A q \in Actors : Marks(q)'
    BY <1>9, <2>1, EndMarks DEF MailFails, MailDone, Commit, Write, Reject, AskFails
  <2> QED BY <2>1, <2>2, DueStays, NotifiedKept
<1> QED BY <1>1, <1>2, <1>3, <1>4, <1>5, <1>6, <1>7, <1>8, <1>9 DEF Step

LEMMA NotifiedStep == TypeInv /\ Notified /\ [Next]_vars => Notified'
<1> SUFFICES ASSUME TypeInv, Notified, [Next]_vars PROVE Notified'
  OBVIOUS
<1> USE DEF reminds
<1>1. ASSUME NEW p \in Actors, NEW r \in Reminders, schedule_reminder(p, r) \/ resolve_reminder(p, r)
      PROVE  Notified'
  <2>1. UNCHANGED <<tried, due>> /\ \A q \in Actors : Marks(q)'
    BY <1>1, EndMarks DEF schedule_reminder, resolve_reminder
  <2>2. \A s \in Reminders : reminder'[s] = "OVERDUE_NOTIFIED" => reminder[s] = "OVERDUE_NOTIFIED"
    BY <1>1 DEF schedule_reminder, resolve_reminder, TypeInv, DataOK
  <2> QED BY <2>1, <2>2, DueStays, NotifiedKept
<1>2. ASSUME NEW p \in Actors, NEW c \in Cases, create_intake(p, c) PROVE Notified'
  BY <1>2, EndMarks, DueStays, NotifiedKept DEF create_intake
<1>3. ASSUME NEW p \in Actors, NEW c \in Cases, NEW k \in Direct \cup Asking,
             Load(p, k, c) \/ Ask(p, k, c)
      PROVE  Notified'
  <2>1. /\ UNCHANGED <<reminds, held>> /\ todo' = [todo EXCEPT ![p] = <<c>>]
        /\ \E x \in {"loaded", "asking"} : pc' = [pc EXCEPT ![p] = x]
    BY <1>3 DEF Load, Ask, Goes
  <2> QED BY <2>1, UnmarkedKept
<1>4. ASSUME NEW p \in Actors, NEW part \in Parts, Process(p, part) PROVE Notified'
  <2>1. /\ UNCHANGED <<reminds, held, todo>> /\ pc' = [pc EXCEPT ![p] = part]
        /\ part \notin {"notify", "mark"}
    BY <1>4 DEF Process, Goes, local, Parts
  <2> QED BY <2>1, SameActor, UnmarkedKept
<1>5. ASSUME UNCHANGED <<reminder, tried, pc, todo, held>>,
             UNCHANGED due \/ \E r \in Reminders : Tick(r)
      PROVE  Notified'
  <2>1. Due \subseteq Due'
    BY <1>5, DueStays
  <2> QED BY <1>5, <2>1, NotifiedKept DEF Notified, Marks
<1>6. ASSUME NEW w \in Workers, Restart(w) PROVE Notified'
  BY <1>6, EndsMark, DueStays, NotifiedKept DEF Restart
<1>7. CASE Next
  BY <1>1, <1>2, <1>3, <1>4, <1>5, <1>6, <1>7, StepMarks
     DEF Next, Request, Tick, Decide, Kill, Crash, local
<1>8. CASE UNCHANGED vars
  BY <1>5, <1>8 DEF vars, local
<1> QED BY <1>7, <1>8

\* A reminder is marked as notified only when it was due and its notification was gone
\* through without an error, whatever batches, failures and resolutions do in between.
THEOREM OverdueIsAlwaysTried == Spec => []OverdueIsTried
<1>1. Init => Notified
  BY DEF Init, Notified, OverdueIsTried, Marks
<1>2. Notified => OverdueIsTried
  BY DEF Notified
<1> QED BY <1>1, <1>2, TypeInit, TypeStep, NotifiedStep, PTL DEF Spec
=============================================================================

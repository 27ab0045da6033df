-------------------------- MODULE BrowserJobsProofs --------------------------
(***************************************************************************)
(* What holds of the sidecar for any number of runs, ids, clients and      *)
(* faults: types, a status that does not lie, and no window out of reach.  *)
(***************************************************************************)
EXTENDS BrowserJobs, TLAPS

\* A run that closes its runtime has its answer.
ClosingIsAnswered == \A r \in Runs : phase[r] = "closing" => answer[r] \in {"completed", "failed"}

\* The cases of a step.
LEMMA StepCases ==
  ASSUME JobsNext, NEW P,
         \A r \in Runs, q \in JobRequest : runSync(r, q) => P,
         \A r \in Runs : createRuntime(r) => P,
         \A r \in Runs : LaunchFails(r) => P,
         \A r \in Runs : ScenarioDone(r) => P,
         \A r \in Runs : ScenarioFails(r) => P,
         \A r \in Runs : Completed(r) \/ Failed(r) => P,
         \A r \in Runs : Closed(r) => P,
         \A d \in Releases, j \in JobIds : releaseRetainedRuntime(d, j) => P,
         \A d \in Releases : Released(d) => P,
         \A r \in Runs : CloseWindow(r) => P,
         \A l \in Listeners, j \in JobIds : Listen(l, j) => P,
         Crash => P
  PROVE  P
  BY DEF JobsNext, SidecarStep, RunStep

----------------------------------------------------------------------------
\* Types.

LEMMA TypeInit == JobsInit => JobsTypeOK /\ ClosingIsAnswered
  <1> SUFFICES ASSUME JobsInit PROVE JobsTypeOK /\ ClosingIsAnswered
    OBVIOUS
  <1>1. Blank \in JobRequest
    BY DEF Blank, JobRequest
  <1>2. NoJob \in StoredJob /\ [state |-> "idle", run |-> None] \in Listener
    BY DEF NoJob, StoredJob, Listener
  <1> QED
    BY <1>1, <1>2, JobsAssumption DEF JobsInit, JobsTypeOK, ClosingIsAnswered

\* An entry that run r writes, and one it merges its answer into, are entries.
LEMMA Entries ==
  ASSUME NEW r \in Runs, NEW s \in {"running", "completed", "failed"}, NEW e \in StoredJob
  PROVE  /\ [run |-> r, status |-> s, response |-> None] \in StoredJob
         /\ [run |-> r, status |-> s, response |-> r] \in StoredJob
         /\ [e EXCEPT !.status = s, !.response = r] \in StoredJob
  BY DEF StoredJob

\* The tables of a response have their types.
LEMMA FinishesTyped ==
  ASSUME JobsTypeOK, NEW r \in Runs, NEW s \in {"completed", "failed"}, Finishes(r, s)
  PROVE  /\ answer' \in [Runs -> {"none", "completed", "failed"}] /\ answer'[r] = s
         /\ \A x \in Runs \ {r} : answer'[x] = answer[x]
         /\ jobs' \in [JobIds -> StoredJob] /\ listener' \in [Listeners -> Listener]
         /\ request' = request /\ browser' = browser /\ retains' = retains
         /\ retained' = retained /\ releasing' = releasing /\ faults' = faults
  <1>1. JobOf[r] \in JobIds
    BY JobsAssumption
  <1>2. [run |-> r, status |-> s, response |-> r] \in StoredJob
    BY DEF StoredJob
  <1>3. [state |-> "told", run |-> r] \in Listener
    BY DEF Listener
  <1>4. jobs' \in [JobIds -> StoredJob]
    BY <1>1, <1>2 DEF Finishes, JobsTypeOK
  <1>5. listener' \in [Listeners -> Listener]
    BY <1>3 DEF Finishes, JobsTypeOK
  <1> QED
    BY <1>4, <1>5 DEF Finishes, JobsTypeOK

LEMMA CatchTyped ==
  ASSUME JobsTypeOK, NEW r \in Runs, NEW b \in BOOLEAN, Catch(r, b)
  PROVE  retains' \in [Runs -> BOOLEAN] /\ retained' \in [JobIds -> Runs \cup {None}]
  <1>1. JobOf[r] \in JobIds
    BY JobsAssumption
  <1>2. MayRetain(r, request[r].keepOpenOnFailure) \in BOOLEAN
    BY DEF MayRetain, JobsTypeOK, JobRequest
  <1> QED
    BY <1>1, <1>2 DEF Catch, JobsTypeOK

LEMMA TypeStep ==
  ASSUME JobsTypeOK, ClosingIsAnswered, [JobsNext]_sidecar
  PROVE  JobsTypeOK' /\ ClosingIsAnswered'
  <1> DEFINE Goal == JobsTypeOK' /\ ClosingIsAnswered'
  <1>0. \A r \in Runs : JobOf[r] \in JobIds /\ None \notin Runs
    BY JobsAssumption
  <1>1. ASSUME NEW r \in Runs, NEW q \in JobRequest, runSync(r, q) PROVE Goal
    <2>1. [run |-> r, status |-> "running", response |-> None] \in StoredJob
      BY DEF StoredJob
    <2> QED
      BY <1>0, <1>1, <2>1 DEF runSync, Goes, JobsTypeOK, ClosingIsAnswered
  <1>2. ASSUME NEW r \in Runs, createRuntime(r) PROVE Goal
    BY <1>2 DEF createRuntime, Goes, JobsTypeOK, ClosingIsAnswered
  <1>3. ASSUME NEW r \in Runs, LaunchFails(r) PROVE Goal
    <2>1. retains' \in [Runs -> BOOLEAN] /\ retained' \in [JobIds -> Runs \cup {None}]
      BY <1>3, CatchTyped DEF LaunchFails
    <2>2. browser' \in [Runs -> {"none", "open", "leaked", "closed"}]
      BY <1>3 DEF LaunchFails, JobsTypeOK
    <2>3. faults' \in 0..MaxFaults
      BY <1>3, JobsAssumption DEF LaunchFails, Fault, JobsTypeOK
    <2>4. phase' = [phase EXCEPT ![r] = "failing"]
      BY <1>3 DEF LaunchFails, Goes
    <2>5. UNCHANGED <<request, answer, jobs, releasing, listener>>
      BY <1>3 DEF LaunchFails
    <2> QED
      BY <2>1, <2>2, <2>3, <2>4, <2>5 DEF JobsTypeOK, ClosingIsAnswered
  <1>4. ASSUME NEW r \in Runs, ScenarioDone(r) PROVE Goal
    <2>1. MayRetain(r, request[r].keepOpenOnSuccess) \in BOOLEAN
      BY DEF MayRetain, JobsTypeOK, JobRequest
    <2> QED
      BY <1>0, <1>4, <2>1 DEF ScenarioDone, Goes, JobsTypeOK, ClosingIsAnswered
  <1>5. ASSUME NEW r \in Runs, ScenarioFails(r) PROVE Goal
    <2>1. retains' \in [Runs -> BOOLEAN] /\ retained' \in [JobIds -> Runs \cup {None}]
      BY <1>5, CatchTyped DEF ScenarioFails
    <2> QED
      BY <1>5, <2>1, JobsAssumption DEF ScenarioFails, Goes, Fault, JobsTypeOK, ClosingIsAnswered
  <1>6. ASSUME NEW r \in Runs, Completed(r) \/ Failed(r) PROVE Goal
    <2>1. PICK s \in {"completed", "failed"} : Finishes(r, s)
      BY <1>6 DEF Completed, Failed
    <2>2. Last(r) \in {"closing", "over"}
      BY DEF Last
    <2>3. phase' = [phase EXCEPT ![r] = Last(r)]
      BY <1>6 DEF Completed, Failed, Goes
    <2>4. phase' \in [Runs -> {"idle", "launch", "scenario", "saving", "failing", "closing", "over", "gone"}]
      BY <2>2, <2>3 DEF JobsTypeOK
    <2> QED
      BY <2>1, <2>3, <2>4, FinishesTyped DEF JobsTypeOK, ClosingIsAnswered
  <1>7. ASSUME NEW r \in Runs, Closed(r) PROVE Goal
    <2>1. answer[r] \in {"completed", "failed"}
      BY <1>7 DEF Closed, Goes, ClosingIsAnswered
    <2>2. jobs[JobOf[r]] \in StoredJob
      BY <1>0 DEF JobsTypeOK
    <2>3. [jobs[JobOf[r]] EXCEPT !.status = answer[r], !.response = r] \in StoredJob
      BY <2>1, <2>2, Entries
    <2>4. jobs' \in [JobIds -> StoredJob]
      BY <1>7, <2>3 DEF Closed, JobsTypeOK
    <2> QED
      BY <1>7, <2>4 DEF Closed, Goes, JobsTypeOK, ClosingIsAnswered
  <1>8. ASSUME NEW d \in Releases, NEW j \in JobIds, releaseRetainedRuntime(d, j) PROVE Goal
    BY <1>8 DEF releaseRetainedRuntime, JobsTypeOK, ClosingIsAnswered
  <1>9. ASSUME NEW d \in Releases, Released(d) PROVE Goal
    <2>1. releasing[d] \in Runs
      BY <1>9 DEF Released, JobsTypeOK
    <2> QED
      BY <1>0, <1>9, <2>1 DEF Released, JobsTypeOK, ClosingIsAnswered
  <1>10. ASSUME NEW r \in Runs, CloseWindow(r) PROVE Goal
    BY <1>10 DEF CloseWindow, JobsTypeOK, ClosingIsAnswered
  <1>11. ASSUME NEW l \in Listeners, NEW j \in JobIds, Listen(l, j) PROVE Goal
    <2>1. jobs[j].run \in Runs \cup {None} /\ jobs[j].response \in Runs \cup {None}
      BY DEF JobsTypeOK, StoredJob
    <2>2. listener' \in [Listeners -> Listener]
      BY <1>11, <2>1 DEF Listen, JobsTypeOK, Listener
    <2> QED
      BY <1>11, <2>2 DEF Listen, JobsTypeOK, ClosingIsAnswered
  <1>12. ASSUME Crash PROVE Goal
    <2>1. NoJob \in StoredJob
      BY DEF NoJob, StoredJob
    <2>2. \A l \in Listeners : [listener[l] EXCEPT !.state = "dropped"] \in Listener
      BY DEF JobsTypeOK, Listener
    <2>3. listener' \in [Listeners -> Listener]
      BY <1>12, <2>2 DEF Crash, JobsTypeOK
    <2> QED
      BY <1>12, <2>1, <2>3, JobsAssumption DEF Crash, Fault, JobsTypeOK, ClosingIsAnswered
  <1>13. CASE UNCHANGED sidecar
    BY <1>13 DEF sidecar, JobsTypeOK, ClosingIsAnswered
  <1>14. CASE JobsNext
    <2> HIDE DEF Goal
    <2>1. Goal
      BY <1>14, <1>1, <1>2, <1>3, <1>4, <1>5, <1>6, <1>7, <1>8, <1>9, <1>10, <1>11, <1>12, StepCases
    <2> QED
      BY <2>1 DEF Goal
  <1> QED
    BY <1>13, <1>14

\* Every variable of the sidecar holds a value of its kind.
THEOREM JobsTypeCorrect == JobsSpec => [](JobsTypeOK /\ ClosingIsAnswered)
  BY TypeInit, TypeStep, PTL DEF JobsSpec

----------------------------------------------------------------------------
\* Jobs that are reported as running.

LEMMA RunningStep ==
  ASSUME JobsTypeOK, ClosingIsAnswered, RunningIsUnderWay, [JobsNext]_sidecar
  PROVE  RunningIsUnderWay'
  <1> DEFINE Busy == {"launch", "scenario", "saving", "failing"}
             Good(j) == jobs'[j].status = "running" =>
                          /\ phase'[jobs'[j].run] \in Busy
                          /\ JobOf[jobs'[j].run] = j /\ jobs'[j].response = None
  <1> SUFFICES ASSUME NEW j \in JobIds PROVE Good(j)
    BY DEF RunningIsUnderWay
  <1>0. JobOf \in [Runs -> JobIds] /\ jobs[j] \in StoredJob /\ None \notin Runs
    BY JobsAssumption DEF JobsTypeOK
  \* A run that only moves among the busy phases leaves the entries as true as they were.
  <1>1. ASSUME NEW r \in Runs, NEW to \in Busy, jobs' = jobs, phase' = [phase EXCEPT ![r] = to]
        PROVE  Good(j)
    BY <1>0, <1>1 DEF RunningIsUnderWay, JobsTypeOK, StoredJob
  <1>2. ASSUME jobs' = jobs, phase' = phase PROVE Good(j)
    BY <1>2 DEF RunningIsUnderWay
  <1>3. ASSUME NEW r \in Runs, NEW q \in JobRequest, runSync(r, q) PROVE Good(j)
    <2>1. phase[r] = "idle" /\ phase' = [phase EXCEPT ![r] = "launch"]
      BY <1>3 DEF runSync, Goes
    <2>2. jobs' = [jobs EXCEPT ![JobOf[r]] = [run |-> r, status |-> "running", response |-> None]]
      BY <1>3 DEF runSync
    <2>3. CASE j = JobOf[r]
      BY <2>1, <2>2, <2>3 DEF JobsTypeOK
    <2>4. CASE j # JobOf[r]
      <3>1. jobs'[j] = jobs[j]
        BY <2>2, <2>4 DEF JobsTypeOK
      <3> QED
        BY <2>1, <2>4, <3>1 DEF RunningIsUnderWay, JobsTypeOK
    <2> QED
      BY <2>3, <2>4
  <1>4. ASSUME NEW r \in Runs, Completed(r) \/ Failed(r) PROVE Good(j)
    <2>1. PICK s \in {"completed", "failed"} : Finishes(r, s)
      BY <1>4 DEF Completed, Failed
    <2>2. jobs' = [jobs EXCEPT ![JobOf[r]] = [run |-> r, status |-> s, response |-> r]]
      BY <2>1 DEF Finishes
    <2>3. phase' = [phase EXCEPT ![r] = Last(r)]
      BY <1>4 DEF Completed, Failed, Goes
    <2>4. CASE j = JobOf[r]
      BY <2>2, <2>4 DEF JobsTypeOK
    <2>5. CASE j # JobOf[r]
      <3>1. jobs'[j] = jobs[j]
        BY <2>2, <2>5 DEF JobsTypeOK
      <3>2. jobs[j].status = "running" => jobs[j].run # r
        BY <2>5 DEF RunningIsUnderWay
      <3> QED
        BY <2>3, <3>1, <3>2 DEF RunningIsUnderWay, JobsTypeOK
    <2> QED
      BY <2>4, <2>5
  <1>5. ASSUME NEW r \in Runs, Closed(r) PROVE Good(j)
    <2>1. phase[r] = "closing" /\ phase' = [phase EXCEPT ![r] = "over"]
      BY <1>5 DEF Closed, Goes
    <2>2. answer[r] # "running"
      BY <2>1 DEF ClosingIsAnswered
    <2>3. jobs[j].status = "running" => jobs[j].run # r
      BY <2>1 DEF RunningIsUnderWay
    <2>4. jobs'[j] = jobs[j] \/ jobs'[j].status = answer[r]
      BY <1>0, <1>5 DEF Closed, JobsTypeOK, StoredJob
    <2> QED
      BY <2>1, <2>2, <2>3, <2>4 DEF RunningIsUnderWay, JobsTypeOK
  <1>6. ASSUME Crash PROVE Good(j)
    BY <1>6 DEF Crash, NoJob
  <1>7. CASE UNCHANGED sidecar
    BY <1>2, <1>7 DEF sidecar
  <1>8. CASE JobsNext
    <2>1. \A r \in Runs : createRuntime(r) => Good(j)
      BY <1>1 DEF createRuntime, Goes
    <2>2. \A r \in Runs : LaunchFails(r) => Good(j)
      BY <1>1 DEF LaunchFails, Goes
    <2>3. \A r \in Runs : ScenarioDone(r) => Good(j)
      BY <1>1 DEF ScenarioDone, Goes
    <2>4. \A r \in Runs : ScenarioFails(r) => Good(j)
      BY <1>1 DEF ScenarioFails, Goes
    <2>5. \A d \in Releases, i \in JobIds : releaseRetainedRuntime(d, i) => Good(j)
      BY <1>2 DEF releaseRetainedRuntime
    <2>6. \A d \in Releases : Released(d) => Good(j)
      BY <1>2 DEF Released
    <2>7. \A r \in Runs : CloseWindow(r) => Good(j)
      BY <1>2 DEF CloseWindow
    <2>8. \A l \in Listeners, i \in JobIds : Listen(l, i) => Good(j)
      BY <1>2 DEF Listen
    <2> HIDE DEF Good
    <2> QED
      BY <1>3, <1>4, <1>5, <1>6, <1>8, <2>1, <2>2, <2>3, <2>4, <2>5, <2>6, <2>7, <2>8, StepCases
  <1> QED
    BY <1>7, <1>8

\* A job that is reported as running is under way: the promise of a queued run, which
\* writes to whatever entry it finds, never brings back a run that ended.
THEOREM RunningIsAlwaysUnderWay == JobsSpec => []RunningIsUnderWay
  <1>1. JobsInit => RunningIsUnderWay
    BY DEF JobsInit, RunningIsUnderWay, NoJob
  <1> QED
    BY <1>1, JobsTypeCorrect, RunningStep, PTL DEF JobsSpec

----------------------------------------------------------------------------
\* Windows that stay open.

\* Who has a browser: no run before it launches, every run at its scenario, and every
\* run that is registered or being released.
HasBrowser ==
  /\ \A r \in Runs : phase[r] \in {"idle", "launch"} => browser[r] = "none"
  /\ \A r \in Runs : phase[r] \in {"scenario", "saving", "closing"} => browser[r] # "none"
  /\ \A j \in JobIds : retained[j] # None => browser[retained[j]] # "none"
  /\ \A d \in Releases : releasing[d] # None => browser[releasing[d]] # "none"

LEMMA HasBrowserStep ==
  ASSUME JobsTypeOK, HasBrowser, [JobsNext]_sidecar
  PROVE  HasBrowser'
  <1> DEFINE Good == HasBrowser'
  <1>0. JobOf \in [Runs -> JobIds] /\ None \notin Runs
    BY JobsAssumption
  \* Browsers only come, entries stay or name run r, which has one.
  <1>1. ASSUME NEW r \in Runs, NEW to, phase' = [phase EXCEPT ![r] = to],
               \A x \in Runs : browser[x] # "none" => browser'[x] # "none",
               \A x \in Runs \ {r} : browser'[x] = browser[x],
               to \in {"idle", "launch"} => browser'[r] = "none",
               to \in {"scenario", "saving", "closing"} => browser'[r] # "none",
               \A j \in JobIds : retained'[j] \in {retained[j], r},
               retained' # retained => browser'[r] # "none", releasing' = releasing
        PROVE  Good
    <2>1. \A x \in Runs : (phase[x] \in {"idle", "launch"} => browser[x] = "none")' /\
                          (phase[x] \in {"scenario", "saving", "closing"} => browser[x] # "none")'
      BY <1>1 DEF HasBrowser, JobsTypeOK
    <2>2. \A d \in Releases : (releasing[d] # None => browser[releasing[d]] # "none")'
      BY <1>1 DEF HasBrowser, JobsTypeOK
    <2>3. \A j \in JobIds : (retained[j] # None => browser[retained[j]] # "none")'
      BY <1>1 DEF HasBrowser, JobsTypeOK
    <2> QED
      BY <2>1, <2>2, <2>3 DEF HasBrowser
  <1>2. ASSUME NEW r \in Runs, NEW q \in JobRequest, runSync(r, q) PROVE Good
    BY <1>1, <1>2 DEF runSync, Goes, HasBrowser
  <1>3. ASSUME NEW r \in Runs, createRuntime(r) PROVE Good
    <2>1. /\ \A x \in Runs : browser[x] # "none" => browser'[x] # "none"
          /\ \A x \in Runs \ {r} : browser'[x] = browser[x]
          /\ browser'[r] = "open"
      BY <1>3 DEF createRuntime, JobsTypeOK
    <2> QED
      BY <1>1, <1>3, <2>1 DEF createRuntime, Goes
  <1>4. ASSUME NEW r \in Runs, LaunchFails(r) PROVE Good
    <2>1. /\ \A x \in Runs : browser[x] # "none" => browser'[x] # "none"
          /\ \A x \in Runs \ {r} : browser'[x] = browser[x]
      BY <1>4 DEF LaunchFails, JobsTypeOK
    <2>2. phase' = [phase EXCEPT ![r] = "failing"] /\ releasing' = releasing
      BY <1>4 DEF LaunchFails, Goes
    <2>3. retained' = retained
      BY <1>0, <1>4 DEF LaunchFails, Catch, JobsTypeOK
    <2> QED
      BY <1>1, <2>1, <2>2, <2>3
  <1>5. ASSUME NEW r \in Runs, ScenarioDone(r) PROVE Good
    <2>1. browser[r] # "none"
      BY <1>5 DEF ScenarioDone, Goes, HasBrowser
    <2>2. \A j \in JobIds : retained'[j] \in {retained[j], r}
      BY <1>0, <1>5 DEF ScenarioDone, JobsTypeOK
    <2> QED
      BY <1>1, <1>5, <2>1, <2>2 DEF ScenarioDone, Goes
  <1>6. ASSUME NEW r \in Runs, ScenarioFails(r) PROVE Good
    <2>1. browser[r] # "none"
      BY <1>6 DEF ScenarioFails, Goes, HasBrowser
    <2>2. \A j \in JobIds : retained'[j] \in {retained[j], r}
      BY <1>0, <1>6 DEF ScenarioFails, Catch, JobsTypeOK
    <2>3. phase' = [phase EXCEPT ![r] = "failing"] /\ releasing' = releasing /\ browser' = browser
      BY <1>6 DEF ScenarioFails, Goes
    <2> QED
      BY <1>1, <2>1, <2>2, <2>3
  <1>7. ASSUME NEW r \in Runs, Completed(r) \/ Failed(r) PROVE Good
    <2>1. phase' = [phase EXCEPT ![r] = Last(r)] /\ browser' = browser /\ retained' = retained
          /\ releasing' = releasing
      BY <1>7 DEF Completed, Failed, Goes, Finishes
    <2>2. Last(r) \in {"closing", "over"} /\ (Last(r) = "closing" => browser[r] # "none")
      BY DEF Last
    <2> QED
      BY <1>1, <2>1, <2>2
  <1>8. ASSUME NEW r \in Runs, Closed(r) PROVE Good
    <2>1. /\ \A x \in Runs : browser[x] # "none" => browser'[x] # "none"
          /\ \A x \in Runs \ {r} : browser'[x] = browser[x]
      BY <1>8 DEF Closed, JobsTypeOK
    <2> QED
      BY <1>1, <1>8, <2>1 DEF Closed, Goes
  <1>9. ASSUME NEW d \in Releases, NEW j \in JobIds, releaseRetainedRuntime(d, j) PROVE Good
    BY <1>9 DEF releaseRetainedRuntime, HasBrowser, JobsTypeOK
  <1>10. ASSUME NEW d \in Releases, Released(d) PROVE Good
    <2>1. releasing[d] \in Runs /\ browser[releasing[d]] # "none"
      BY <1>10 DEF Released, HasBrowser, JobsTypeOK
    <2>2. \A x \in Runs : (browser'[x] = "none") <=> (browser[x] = "none")
      BY <1>10, <2>1 DEF Released, JobsTypeOK
    <2>3. \A j \in JobIds : retained'[j] \in {retained[j], None}
      BY <1>0, <1>10 DEF Released, JobsTypeOK
    <2>4. \A e \in Releases : releasing'[e] \in {releasing[e], None}
      BY <1>10 DEF Released, JobsTypeOK
    <2>5. phase' = phase
      BY <1>10 DEF Released
    <2> QED
      BY <1>0, <2>2, <2>3, <2>4, <2>5 DEF HasBrowser, JobsTypeOK
  <1>11. ASSUME NEW r \in Runs, CloseWindow(r) PROVE Good
    <2>1. \A x \in Runs : (browser'[x] = "none") <=> (browser[x] = "none")
      BY <1>11 DEF CloseWindow, JobsTypeOK
    <2> QED
      BY <1>11, <2>1 DEF CloseWindow, HasBrowser, JobsTypeOK
  <1>12. ASSUME NEW l \in Listeners, NEW j \in JobIds, Listen(l, j) PROVE Good
    BY <1>12 DEF Listen, HasBrowser
  <1>13. ASSUME Crash PROVE Good
    BY <1>13 DEF Crash, HasBrowser, JobsTypeOK
  <1>14. CASE UNCHANGED sidecar
    BY <1>14 DEF sidecar, HasBrowser
  <1>15. CASE JobsNext
    <2> HIDE DEF Good
    <2>1. Good
      BY <1>15, <1>2, <1>3, <1>4, <1>5, <1>6, <1>7, <1>8, <1>9, <1>10, <1>11, <1>12, <1>13, StepCases
    <2> QED
      BY <2>1 DEF Good
  <1> QED
    BY <1>14, <1>15

LEMMA HasBrowserAlways == JobsSpec => []HasBrowser
  <1>1. JobsInit => HasBrowser
    BY DEF JobsInit, HasBrowser
  <1> QED
    BY <1>1, HasBrowserStep, JobsTypeCorrect, PTL DEF JobsSpec

\* A run that is about to end is registered if its window stays open.
Registers(r) ==
  /\ browser[r] = "open" /\ phase[r] \in {"saving", "failing"} /\ retains[r]
       => retained[JobOf[r]] = r
  /\ browser[r] = "open" /\ phase[r] \in {"over", "gone"} => retained[JobOf[r]] = r
Registered == \A r \in Runs : Alone(r) => Registers(r)

LEMMA RegistersStep ==
  ASSUME JobsTypeOK, HasBrowser, Registered, [JobsNext]_sidecar, NEW x \in Runs, Alone(x)
  PROVE  Registers(x)'
  <1> DEFINE Good == Registers(x)'
  <1>0. /\ Registers(x) /\ JobOf \in [Runs -> JobIds] /\ None \notin Runs
        /\ phase[x] \in {"idle", "launch"} => browser[x] # "open"
        /\ \A r \in Runs : JobOf[r] = JobOf[x] => r = x
    BY JobsAssumption DEF Registered, HasBrowser, Alone
  \* A step of another run that at most registers or forgets a window of its own id.
  <1>1. ASSUME NEW r \in Runs, r # x, NEW v, retained' = [retained EXCEPT ![JobOf[r]] = v],
               phase'[x] = phase[x], browser'[x] = browser[x], retains'[x] = retains[x]
        PROVE  Good
    <2>1. retained'[JobOf[x]] = retained[JobOf[x]]
      BY <1>0, <1>1 DEF JobsTypeOK
    <2> QED
      BY <1>0, <1>1, <2>1 DEF Registers
  <1>2. ASSUME phase'[x] = phase[x], browser'[x] = browser[x], retains'[x] = retains[x], retained' = retained
        PROVE  Good
    BY <1>0, <1>2 DEF Registers
  <1>3. ASSUME browser'[x] # "open" PROVE Good
    BY <1>3 DEF Registers
  <1>4. ASSUME NEW r \in Runs, NEW q \in JobRequest, runSync(r, q) PROVE Good
    BY <1>0, <1>2, <1>3, <1>4 DEF runSync, Goes, JobsTypeOK
  <1>5. ASSUME NEW r \in Runs, createRuntime(r) PROVE Good
    BY <1>0, <1>5 DEF createRuntime, Goes, JobsTypeOK, Registers
  <1>6. ASSUME NEW r \in Runs, LaunchFails(r) PROVE Good
    <2>1. CASE r = x
      <3>1. phase[x] = "launch" /\ browser'[x] # "open"
        BY <1>0, <1>6, <2>1 DEF LaunchFails, Goes, JobsTypeOK
      <3> QED
        BY <1>3, <3>1
    <2>2. CASE r # x
      <3>1. phase'[x] = phase[x] /\ browser'[x] = browser[x]
        BY <1>6, <2>2 DEF LaunchFails, Goes, JobsTypeOK
      <3>2. PICK v : retained' = [retained EXCEPT ![JobOf[r]] = v] /\ retains'[x] = retains[x]
        BY <1>6, <2>2 DEF LaunchFails, Catch, JobsTypeOK
      <3> QED
        BY <1>1, <2>2, <3>1, <3>2
    <2> QED
      BY <2>1, <2>2
  <1>7. ASSUME NEW r \in Runs, ScenarioDone(r) PROVE Good
    <2>1. CASE r = x
      BY <1>0, <1>7, <2>1 DEF ScenarioDone, Goes, JobsTypeOK, Registers
    <2>2. CASE r # x
      <3>1. PICK v : retained' = [retained EXCEPT ![JobOf[r]] = v] /\ retains'[x] = retains[x]
        BY <1>7, <2>2 DEF ScenarioDone, JobsTypeOK
      <3>2. phase'[x] = phase[x] /\ browser' = browser
        BY <1>7, <2>2 DEF ScenarioDone, Goes, JobsTypeOK
      <3> QED
        BY <1>1, <2>2, <3>1, <3>2
    <2> QED
      BY <2>1, <2>2
  <1>8. ASSUME NEW r \in Runs, ScenarioFails(r) PROVE Good
    <2>0. Catch(r, TRUE) /\ phase' = [phase EXCEPT ![r] = "failing"] /\ browser' = browser
      BY <1>8 DEF ScenarioFails, Goes
    <2>1. CASE r = x
      BY <1>0, <2>0, <2>1 DEF Catch, JobsTypeOK, Registers
    <2>2. CASE r # x
      <3>1. PICK v : retained' = [retained EXCEPT ![JobOf[r]] = v] /\ retains'[x] = retains[x]
        BY <2>0, <2>2 DEF Catch, JobsTypeOK
      <3>2. phase'[x] = phase[x]
        BY <2>0, <2>2 DEF JobsTypeOK
      <3> QED
        BY <1>1, <2>0, <2>2, <3>1, <3>2
    <2> QED
      BY <2>1, <2>2
  <1>9. ASSUME NEW r \in Runs, Completed(r) \/ Failed(r) PROVE Good
    <2>1. UNCHANGED <<browser, retains, retained>>
      BY <1>9 DEF Completed, Failed, Finishes
    <2>2. phase[r] \in {"saving", "failing"} /\ phase' = [phase EXCEPT ![r] = Last(r)]
      BY <1>9 DEF Completed, Failed, Goes
    <2>3. CASE r = x
      BY <1>0, <2>1, <2>2, <2>3 DEF Last, JobsTypeOK, Registers
    <2>4. CASE r # x
      BY <1>2, <2>1, <2>2, <2>4 DEF JobsTypeOK
    <2> QED
      BY <2>3, <2>4
  <1>10. ASSUME NEW r \in Runs, Closed(r) PROVE Good
    <2>1. CASE r = x
      BY <1>3, <1>10, <2>1 DEF Closed, JobsTypeOK
    <2>2. CASE r # x
      BY <1>2, <1>10, <2>2 DEF Closed, Goes, JobsTypeOK
    <2> QED
      BY <2>1, <2>2
  <1>11. ASSUME NEW d \in Releases, NEW j \in JobIds, releaseRetainedRuntime(d, j) PROVE Good
    BY <1>2, <1>11 DEF releaseRetainedRuntime
  <1>12. ASSUME NEW d \in Releases, Released(d) PROVE Good
    <2>1. releasing[d] \in Runs
      BY <1>12 DEF Released, JobsTypeOK
    <2>2. CASE releasing[d] = x
      BY <1>3, <1>12, <2>2 DEF Released, JobsTypeOK
    <2>3. CASE releasing[d] # x
      BY <1>1, <1>12, <2>1, <2>3 DEF Released, JobsTypeOK
    <2> QED
      BY <2>2, <2>3
  <1>13. ASSUME NEW r \in Runs, CloseWindow(r) PROVE Good
    <2>1. CASE r = x
      BY <1>3, <1>13, <2>1 DEF CloseWindow, JobsTypeOK
    <2>2. CASE r # x
      BY <1>2, <1>13, <2>2 DEF CloseWindow, JobsTypeOK
    <2> QED
      BY <2>1, <2>2
  <1>14. ASSUME NEW l \in Listeners, NEW j \in JobIds, Listen(l, j) PROVE Good
    BY <1>2, <1>14 DEF Listen
  <1>15. ASSUME Crash PROVE Good
    BY <1>3, <1>15 DEF Crash
  <1>16. CASE UNCHANGED sidecar
    BY <1>2, <1>16 DEF sidecar
  <1>17. CASE JobsNext
    <2> HIDE DEF Good
    <2>1. Good
      BY <1>17, <1>4, <1>5, <1>6, <1>7, <1>8, <1>9, <1>10, <1>11, <1>12, <1>13, <1>14, <1>15, StepCases
    <2> QED
      BY <2>1 DEF Good
  <1> QED
    BY <1>16, <1>17

LEMMA RegisteredAlways == JobsSpec => []Registered
  <1>1. JobsInit => Registered
    BY DEF JobsInit, Registered, Registers
  <1>2. ASSUME JobsTypeOK, HasBrowser, Registered, [JobsNext]_sidecar PROVE Registered'
    BY <1>2, RegistersStep DEF Registered, Alone
  <1> QED
    BY <1>1, <1>2, HasBrowserAlways, JobsTypeCorrect, PTL DEF JobsSpec

\* A browser without an owner is one of a run that failed at its launch; a run that
\* completed has had a browser.
Answers(r) ==
  /\ browser[r] = "leaked" => phase[r] \in {"failing", "over"} /\ (phase[r] = "over" => answer[r] = "failed")
  /\ answer[r] = "completed" => browser[r] # "none"
  /\ phase[r] \in {"closing", "over"} => answer[r] # "none"

LEMMA AnswersStep ==
  ASSUME JobsTypeOK, HasBrowser, [JobsNext]_sidecar, NEW x \in Runs, Answers(x)
  PROVE  Answers(x)'
  <1> DEFINE Good == Answers(x)'
  <1>1. ASSUME phase'[x] = phase[x], answer'[x] = answer[x], browser'[x] = browser[x] PROVE Good
    BY <1>1 DEF Answers
  <1>2. ASSUME browser'[x] = "closed", answer' = answer, phase'[x] = phase[x] \/ phase[x] = "closing" PROVE Good
    BY <1>2 DEF Answers
  <1>3. ASSUME NEW r \in Runs, NEW q \in JobRequest, runSync(r, q) PROVE Good
    <2>1. phase[r] = "idle" /\ phase' = [phase EXCEPT ![r] = "launch"] /\ UNCHANGED <<browser, answer>>
      BY <1>3 DEF runSync, Goes
    <2> QED
      BY <2>1 DEF Answers, JobsTypeOK
  <1>4. ASSUME NEW r \in Runs, createRuntime(r) PROVE Good
    <2>1. /\ phase' = [phase EXCEPT ![r] = "scenario"] /\ browser' = [browser EXCEPT ![r] = "open"]
          /\ answer' = answer
      BY <1>4 DEF createRuntime, Goes
    <2> QED
      BY <2>1 DEF Answers, JobsTypeOK
  <1>5. ASSUME NEW r \in Runs, LaunchFails(r) PROVE Good
    <2>1. /\ phase[r] = "launch" /\ phase' = [phase EXCEPT ![r] = "failing"] /\ answer' = answer
          /\ browser' \in {browser, [browser EXCEPT ![r] = "leaked"]}
      BY <1>5 DEF LaunchFails, Goes
    <2> QED
      BY <2>1 DEF Answers, JobsTypeOK
  <1>6. ASSUME NEW r \in Runs, ScenarioDone(r) \/ ScenarioFails(r) PROVE Good
    <2>1. /\ phase[r] \in {"scenario", "saving"}
          /\ phase' = [phase EXCEPT ![r] = "saving"] \/ phase' = [phase EXCEPT ![r] = "failing"]
          /\ UNCHANGED <<browser, answer>>
      BY <1>6 DEF ScenarioDone, ScenarioFails, Goes
    <2> QED
      BY <2>1 DEF Answers, JobsTypeOK
  <1>7. ASSUME NEW r \in Runs, Completed(r) \/ Failed(r) PROVE Good
    <2>1. PICK v \in {"completed", "failed"} :
            /\ phase[r] = IF v = "completed" THEN "saving" ELSE "failing"
            /\ phase' = [phase EXCEPT ![r] = Last(r)] /\ answer' = [answer EXCEPT ![r] = v]
            /\ browser' = browser
      BY <1>7 DEF Completed, Failed, Goes, Finishes
    <2>2. CASE r = x
      <3>1. phase'[x] = Last(x) /\ answer'[x] = v
        BY <2>1, <2>2 DEF JobsTypeOK
      <3>2. browser[x] = "leaked" => Last(x) = "over" /\ v = "failed"
        BY <2>1, <2>2 DEF Answers, Last
      <3>3. v = "completed" => browser[x] # "none"
        BY <2>1, <2>2 DEF HasBrowser
      <3> QED
        BY <2>1, <3>1, <3>2, <3>3 DEF Answers
    <2>3. CASE r # x
      BY <1>1, <2>1, <2>3 DEF JobsTypeOK
    <2> QED
      BY <2>2, <2>3
  <1>8. ASSUME NEW r \in Runs, Closed(r) PROVE Good
    <2>1. CASE r = x
      BY <1>2, <1>8, <2>1 DEF Closed, Goes, JobsTypeOK
    <2>2. CASE r # x
      BY <1>1, <1>8, <2>2 DEF Closed, Goes, JobsTypeOK
    <2> QED
      BY <2>1, <2>2
  <1>9. ASSUME NEW d \in Releases, NEW j \in JobIds, releaseRetainedRuntime(d, j) PROVE Good
    BY <1>1, <1>9 DEF releaseRetainedRuntime
  <1>10. ASSUME NEW d \in Releases, Released(d) PROVE Good
    <2>1. CASE releasing[d] = x
      BY <1>2, <1>10, <2>1 DEF Released, JobsTypeOK
    <2>2. CASE releasing[d] # x
      BY <1>1, <1>10, <2>2 DEF Released, JobsTypeOK
    <2> QED
      BY <2>1, <2>2
  <1>11. ASSUME NEW r \in Runs, CloseWindow(r) PROVE Good
    <2>1. CASE r = x
      BY <1>2, <1>11, <2>1 DEF CloseWindow, JobsTypeOK
    <2>2. CASE r # x
      BY <1>1, <1>11, <2>2 DEF CloseWindow, JobsTypeOK
    <2> QED
      BY <2>1, <2>2
  <1>12. ASSUME NEW l \in Listeners, NEW j \in JobIds, Listen(l, j) PROVE Good
    BY <1>1, <1>12 DEF Listen
  <1>13. ASSUME Crash PROVE Good
    BY <1>13 DEF Crash, JobsTypeOK, Answers
  <1>14. CASE UNCHANGED sidecar
    BY <1>1, <1>14 DEF sidecar
  <1>15. CASE JobsNext
    <2> HIDE DEF Good
    <2>1. Good
      BY <1>15, <1>3, <1>4, <1>5, <1>6, <1>7, <1>8, <1>9, <1>10, <1>11, <1>12, <1>13, StepCases
    <2> QED
      BY <2>1 DEF Good
  <1> QED
    BY <1>14, <1>15

LEMMA AnswersAlways == JobsSpec => [](\A r \in Runs : Answers(r))
  <1>1. JobsInit => \A r \in Runs : Answers(r)
    BY DEF JobsInit, Answers
  <1>2. ASSUME JobsTypeOK, HasBrowser, \A r \in Runs : Answers(r), [JobsNext]_sidecar
        PROVE  (\A r \in Runs : Answers(r))'
    BY <1>2, AnswersStep
  <1> QED
    BY <1>1, <1>2, HasBrowserAlways, JobsTypeCorrect, PTL DEF JobsSpec

\* A browser that runs on after its job can be released under its job id, however
\* releases, failures, crashes and other jobs meet it, but for one whose launch failed
\* after it had started: its job has been answered as failed.
THEOREM OpenIsAlwaysReleasable == JobsSpec => []OpenIsReleasable
  <1>1. Registered /\ (\A r \in Runs : Answers(r)) => OpenIsReleasable
    BY DEF Registered, Registers, Answers, Opened, OpenIsReleasable
  <1> QED
    BY <1>1, RegisteredAlways, AnswersAlways, PTL

\* A window is registered under the id of its job.
UnderItsId == \A j \in JobIds : retained[j] # None => JobOf[retained[j]] = j

LEMMA UnderItsIdStep ==
  ASSUME JobsTypeOK, UnderItsId, [JobsNext]_sidecar
  PROVE  UnderItsId'
  <1> DEFINE Good == UnderItsId'
  <1>0. JobOf \in [Runs -> JobIds] /\ None \notin Runs
    BY JobsAssumption
  <1>1. ASSUME NEW r \in Runs, NEW v \in {r, None, retained[JobOf[r]]},
               retained' = [retained EXCEPT ![JobOf[r]] = v]
        PROVE  Good
    BY <1>0, <1>1 DEF UnderItsId, JobsTypeOK
  <1>2. ASSUME retained' = retained PROVE Good
    BY <1>2 DEF UnderItsId
  <1>3. \A r \in Runs : LaunchFails(r) \/ ScenarioDone(r) \/ ScenarioFails(r) => Good
    BY <1>1 DEF LaunchFails, ScenarioDone, ScenarioFails, Catch
  <1>4. ASSUME NEW d \in Releases, Released(d) PROVE Good
    <2>1. releasing[d] \in Runs
      BY <1>4 DEF Released, JobsTypeOK
    <2> QED
      BY <1>1, <1>4, <2>1 DEF Released
  <1>5. Crash => Good
    BY DEF Crash, UnderItsId
  <1>6. CASE UNCHANGED sidecar
    BY <1>2, <1>6 DEF sidecar
  <1>7. CASE JobsNext
    <2>1. /\ \A r \in Runs, q \in JobRequest : runSync(r, q) => retained' = retained
          /\ \A r \in Runs : createRuntime(r) \/ Completed(r) \/ Failed(r) \/ Closed(r) \/ CloseWindow(r)
               => retained' = retained
          /\ \A d \in Releases, j \in JobIds : releaseRetainedRuntime(d, j) => retained' = retained
          /\ \A l \in Listeners, j \in JobIds : Listen(l, j) => retained' = retained
      BY DEF runSync, createRuntime, Completed, Failed, Finishes, Closed, CloseWindow,
             releaseRetainedRuntime, Listen
    <2> HIDE DEF Good
    <2>2. Good
      BY <1>2, <1>3, <1>4, <1>5, <1>7, <2>1, StepCases
    <2> QED
      BY <2>2 DEF Good
  <1> QED
    BY <1>6, <1>7

LEMMA UnderItsIdAlways == JobsSpec => []UnderItsId
  <1>1. JobsInit => UnderItsId
    BY DEF JobsInit, UnderItsId
  <1> QED
    BY <1>1, JobsTypeCorrect, UnderItsIdStep, PTL DEF JobsSpec

----------------------------------------------------------------------------
\* What a client may rely on when it has its answer.

\* Which windows are kept: those of runs that say so; a run that never launched says
\* what it would have done with a failure.
Keeps(r) ==
  /\ phase[r] \in {"idle", "launch", "scenario"} => ~retains[r]
  /\ browser[r] = "open" => phase[r] # "gone" /\ (phase[r] = "over" => retains[r])
  /\ browser[r] = "none" /\ phase[r] \in {"failing", "over"}
       => retains[r] = MayRetain(r, request[r].keepOpenOnFailure)
  /\ retains[r] /\ ~request[r].keepOpenOnSuccess => MayRetain(r, request[r].keepOpenOnFailure)

LEMMA KeepsStep ==
  ASSUME JobsTypeOK, HasBrowser, [JobsNext]_sidecar, NEW x \in Runs, Keeps(x)
  PROVE  Keeps(x)'
  <1> DEFINE Good == Keeps(x)'
  <1>0. /\ phase[x] \in {"idle", "launch"} => browser[x] = "none"
        /\ phase[x] \in {"scenario", "saving", "closing"} => browser[x] # "none"
        /\ \A k \in BOOLEAN : MayRetain(x, k) \in BOOLEAN
        /\ request[x] \in JobRequest
    BY DEF HasBrowser, MayRetain, JobsTypeOK, JobRequest
  <1>1. ASSUME phase'[x] = phase[x], browser'[x] = browser[x], retains'[x] = retains[x],
               request'[x] = request[x]
        PROVE  Good
    BY <1>1 DEF Keeps, MayRetain
  \* A run that enters the catch block.
  <1>20. ASSUME NEW F \in BOOLEAN, F = MayRetain(x, request[x].keepOpenOnFailure),
                phase'[x] = "failing", retains'[x] = F, request'[x] = request[x]
         PROVE  Good
    <2>1. MayRetain(x, request[x].keepOpenOnFailure)' = F
      BY <1>20 DEF MayRetain
    <2> QED
      BY <1>20, <2>1 DEF Keeps
  <1>2. ASSUME NEW r \in Runs, NEW q \in JobRequest, runSync(r, q) PROVE Good
    <2>1. CASE r = x
      BY <1>0, <1>2, <2>1 DEF runSync, Goes, JobsTypeOK, Keeps
    <2>2. CASE r # x
      BY <1>1, <1>2, <2>2 DEF runSync, Goes, JobsTypeOK
    <2> QED
      BY <2>1, <2>2
  <1>3. ASSUME NEW r \in Runs, createRuntime(r) PROVE Good
    <2>1. CASE r = x
      BY <1>3, <2>1 DEF createRuntime, Goes, JobsTypeOK, Keeps, MayRetain
    <2>2. CASE r # x
      BY <1>1, <1>3, <2>2 DEF createRuntime, Goes, JobsTypeOK
    <2> QED
      BY <2>1, <2>2
  <1>4. ASSUME NEW r \in Runs, LaunchFails(r) PROVE Good
    <2>0. /\ phase[r] = "launch" /\ phase' = [phase EXCEPT ![r] = "failing"]
          /\ retains' = [retains EXCEPT ![r] = MayRetain(r, request[r].keepOpenOnFailure)]
          /\ request' = request
      BY <1>4 DEF LaunchFails, Goes, Catch
    <2>1. CASE r = x
      <3>1. phase'[x] = "failing" /\ retains'[x] = MayRetain(x, request[x].keepOpenOnFailure)
        BY <2>0, <2>1 DEF JobsTypeOK
      <3>2. MayRetain(x, request[x].keepOpenOnFailure) \in BOOLEAN
        BY <1>0 DEF JobRequest
      <3> QED
        BY <1>20, <2>0, <3>1, <3>2
    <2>2. CASE r # x
      <3>1. browser'[x] = browser[x]
        BY <1>4, <2>2 DEF LaunchFails, JobsTypeOK
      <3> QED
        BY <1>1, <2>0, <2>2, <3>1 DEF JobsTypeOK
    <2> QED
      BY <2>1, <2>2
  <1>5. ASSUME NEW r \in Runs, ScenarioDone(r) PROVE Good
    <2>0. /\ phase[r] = "scenario" /\ phase' = [phase EXCEPT ![r] = "saving"]
          /\ retains' = [retains EXCEPT ![r] = MayRetain(r, request[r].keepOpenOnSuccess)]
          /\ request' = request /\ browser' = browser
      BY <1>5 DEF ScenarioDone, Goes
    <2>1. CASE r = x
      <3>1. phase'[x] = "saving" /\ retains'[x] = MayRetain(x, request[x].keepOpenOnSuccess)
        BY <2>0, <2>1 DEF JobsTypeOK
      <3> QED
        BY <2>0, <3>1 DEF Keeps, MayRetain
    <2>2. CASE r # x
      BY <1>1, <2>0, <2>2 DEF JobsTypeOK
    <2> QED
      BY <2>1, <2>2
  <1>6. ASSUME NEW r \in Runs, ScenarioFails(r) PROVE Good
    <2>0. /\ phase' = [phase EXCEPT ![r] = "failing"] /\ phase[r] \in {"scenario", "saving"}
          /\ retains' = [retains EXCEPT ![r] = MayRetain(r, request[r].keepOpenOnFailure)]
          /\ request' = request /\ browser' = browser
      BY <1>6 DEF ScenarioFails, Goes, Catch
    <2>1. CASE r = x
      <3>1. phase'[x] = "failing" /\ retains'[x] = MayRetain(x, request[x].keepOpenOnFailure)
        BY <2>0, <2>1 DEF JobsTypeOK
      <3>2. MayRetain(x, request[x].keepOpenOnFailure) \in BOOLEAN
        BY <1>0 DEF JobRequest
      <3> QED
        BY <1>20, <2>0, <3>1, <3>2
    <2>2. CASE r # x
      BY <1>1, <2>0, <2>2 DEF JobsTypeOK
    <2> QED
      BY <2>1, <2>2
  <1>7. ASSUME NEW r \in Runs, Completed(r) \/ Failed(r) PROVE Good
    <2>0. /\ phase[r] \in {"saving", "failing"} /\ phase' = [phase EXCEPT ![r] = Last(r)]
          /\ UNCHANGED <<request, browser, retains>>
      BY <1>7 DEF Completed, Failed, Goes, Finishes
    <2>1. CASE r = x
      <3>1. phase'[x] = Last(x) /\ Last(x) \in {"closing", "over"}
        BY <2>0, <2>1 DEF JobsTypeOK, Last
      <3>2. browser[x] = "open" /\ Last(x) = "over" => retains[x]
        BY DEF Last
      <3>3. browser[x] = "none" => phase[x] = "failing"
        BY <1>0, <2>0, <2>1
      <3> QED
        BY <2>0, <3>1, <3>2, <3>3 DEF Keeps, MayRetain
    <2>2. CASE r # x
      BY <1>1, <2>0, <2>2 DEF JobsTypeOK
    <2> QED
      BY <2>1, <2>2
  <1>8. ASSUME NEW r \in Runs, Closed(r) PROVE Good
    <2>1. CASE r = x
      BY <1>8, <2>1 DEF Closed, Goes, JobsTypeOK, Keeps, MayRetain
    <2>2. CASE r # x
      BY <1>1, <1>8, <2>2 DEF Closed, Goes, JobsTypeOK
    <2> QED
      BY <2>1, <2>2
  <1>9. ASSUME NEW d \in Releases, NEW j \in JobIds, releaseRetainedRuntime(d, j) PROVE Good
    BY <1>1, <1>9 DEF releaseRetainedRuntime
  \* A browser that is closed by somebody else.
  <1>10. ASSUME browser[x] # "none", browser'[x] = "closed", UNCHANGED <<phase, request, retains>>
         PROVE  Good
    BY <1>10 DEF Keeps, MayRetain
  <1>11. ASSUME NEW d \in Releases, Released(d) PROVE Good
    <2>1. releasing[d] \in Runs /\ browser[releasing[d]] # "none"
      BY <1>11 DEF Released, HasBrowser, JobsTypeOK
    <2>2. CASE releasing[d] = x
      BY <1>10, <1>11, <2>1, <2>2 DEF Released, JobsTypeOK
    <2>3. CASE releasing[d] # x
      BY <1>1, <1>11, <2>3 DEF Released, JobsTypeOK
    <2> QED
      BY <2>2, <2>3
  <1>12. ASSUME NEW r \in Runs, CloseWindow(r) PROVE Good
    <2>1. CASE r = x
      BY <1>10, <1>12, <2>1 DEF CloseWindow, JobsTypeOK
    <2>2. CASE r # x
      BY <1>1, <1>12, <2>2 DEF CloseWindow, JobsTypeOK
    <2> QED
      BY <2>1, <2>2
  <1>13. ASSUME NEW l \in Listeners, NEW j \in JobIds, Listen(l, j) PROVE Good
    BY <1>1, <1>13 DEF Listen
  <1>14. ASSUME Crash PROVE Good
    BY <1>14 DEF Crash, JobsTypeOK, Keeps, MayRetain
  <1>15. CASE UNCHANGED sidecar
    BY <1>1, <1>15 DEF sidecar
  <1>16. CASE JobsNext
    <2> HIDE DEF Good
    <2>1. Good
      BY <1>16, <1>2, <1>3, <1>4, <1>5, <1>6, <1>7, <1>8, <1>9, <1>11, <1>12, <1>13, <1>14, StepCases
    <2> QED
      BY <2>1 DEF Good
  <1> QED
    BY <1>15, <1>16

LEMMA KeepsAlways == JobsSpec => [](\A r \in Runs : Keeps(r))
  <1>1. JobsInit => \A r \in Runs : Keeps(r)
    BY DEF JobsInit, Keeps
  <1>2. ASSUME JobsTypeOK, HasBrowser, \A r \in Runs : Keeps(r), [JobsNext]_sidecar
        PROVE  (\A r \in Runs : Keeps(r))'
    BY <1>2, KeepsStep
  <1> QED
    BY <1>1, <1>2, HasBrowserAlways, JobsTypeCorrect, PTL DEF JobsSpec

\* What a step does to a run that it does not start: one that is over or not begun
\* stays so, and only one that launches, with its profile free, gets a browser.
Effect(x) ==
  /\ phase[x] \in {"idle", "over", "gone"} => phase'[x] = phase[x]
  /\ phase[x] # "idle" => phase'[x] # "idle"
  /\ request'[x] = request[x]
  /\ browser[x] # "none" => browser'[x] # "none"
  /\ browser[x] = "none" /\ browser'[x] # "none"
       => phase[x] = "launch" /\ ~InUse(request[x].profile)
  /\ \A b \in {"open", "leaked"} : browser'[x] = b => browser[x] = b \/ phase[x] = "launch"
  /\ phase[x] = "over" => retains'[x] = retains[x] /\ answer'[x] = answer[x]

LEMMA Effects ==
  ASSUME JobsTypeOK, HasBrowser, [JobsNext]_sidecar, NEW x \in Runs, phase[x] = "idle" => phase'[x] = "idle"
  PROVE  Effect(x)
  <1> DEFINE Good == Effect(x)
  <1> USE DEF Effect
  <1>2. ASSUME NEW r \in Runs, NEW q \in JobRequest, runSync(r, q) PROVE Good
    BY <1>2 DEF runSync, Goes, JobsTypeOK
  <1>3. ASSUME NEW r \in Runs, createRuntime(r) PROVE Good
    BY <1>3 DEF createRuntime, Goes, JobsTypeOK
  <1>4. ASSUME NEW r \in Runs, LaunchFails(r) PROVE Good
    <2>0. /\ phase[r] = "launch" /\ phase' = [phase EXCEPT ![r] = "failing"]
          /\ retains' = [retains EXCEPT ![r] = MayRetain(r, request[r].keepOpenOnFailure)]
          /\ UNCHANGED <<request, answer>>
      BY <1>4 DEF LaunchFails, Goes, Catch
    <2>1. browser' = browser \/ (~InUse(request[r].profile) /\ browser' = [browser EXCEPT ![r] = "leaked"])
      BY <1>4 DEF LaunchFails
    <2> QED
      BY <2>0, <2>1 DEF JobsTypeOK
  <1>5. ASSUME NEW r \in Runs, ScenarioDone(r) PROVE Good
    BY <1>5 DEF ScenarioDone, Goes, JobsTypeOK
  <1>6. ASSUME NEW r \in Runs, ScenarioFails(r) PROVE Good
    <2>0. /\ phase[r] \in {"scenario", "saving"} /\ phase' = [phase EXCEPT ![r] = "failing"]
          /\ retains' = [retains EXCEPT ![r] = MayRetain(r, request[r].keepOpenOnFailure)]
          /\ UNCHANGED <<request, answer, browser>>
      BY <1>6 DEF ScenarioFails, Goes, Catch
    <2> QED
      BY <2>0 DEF JobsTypeOK
  <1>7. ASSUME NEW r \in Runs, Completed(r) \/ Failed(r) PROVE Good
    <2>0. /\ phase[r] \in {"saving", "failing"} /\ phase' = [phase EXCEPT ![r] = Last(r)]
          /\ UNCHANGED <<request, browser, retains>> /\ Last(r) # "idle"
      BY <1>7 DEF Completed, Failed, Goes, Finishes, Last
    <2>1. PICK v : answer' = [answer EXCEPT ![r] = v]
      BY <1>7 DEF Completed, Failed, Finishes
    <2> QED
      BY <2>0, <2>1 DEF JobsTypeOK
  <1>8. ASSUME NEW r \in Runs, Closed(r) PROVE Good
    <2>1. browser[r] # "none"
      BY <1>8 DEF Closed, Goes, HasBrowser
    <2> QED
      BY <1>8, <2>1 DEF Closed, Goes, JobsTypeOK
  <1>9. ASSUME NEW d \in Releases, NEW j \in JobIds, releaseRetainedRuntime(d, j) PROVE Good
    BY <1>9 DEF releaseRetainedRuntime
  <1>11. ASSUME NEW d \in Releases, Released(d) PROVE Good
    <2>1. releasing[d] \in Runs /\ browser[releasing[d]] # "none"
      BY <1>11 DEF Released, HasBrowser, JobsTypeOK
    <2> QED
      BY <1>11, <2>1 DEF Released, JobsTypeOK
  <1>12. ASSUME NEW r \in Runs, CloseWindow(r) PROVE Good
    BY <1>12 DEF CloseWindow, JobsTypeOK
  <1>13. ASSUME NEW l \in Listeners, NEW j \in JobIds, Listen(l, j) PROVE Good
    BY <1>13 DEF Listen
  <1>14. ASSUME Crash PROVE Good
    BY <1>14 DEF Crash, JobsTypeOK
  <1>15. CASE UNCHANGED sidecar
    BY <1>15 DEF sidecar
  <1>16. CASE JobsNext
    <2> HIDE DEF Good
    <2>1. Good
      BY <1>16, <1>2, <1>3, <1>4, <1>5, <1>6, <1>7, <1>8, <1>9, <1>11, <1>12, <1>13, <1>14, StepCases
    <2> QED
      BY <2>1 DEF Good
  <1> QED
    BY <1>15, <1>16
=============================================================================

----------------------------- MODULE BrowserJobs -----------------------------
(***************************************************************************)
(* The browser sidecar: a Node process that runs jobs in Chromium, keeps   *)
(* the window of some of them open after they end, and tells listeners how *)
(* they end.  A run is one call of runSync; clients choose the job id, and *)
(* one id may name several runs.  Between two steps the event loop serves  *)
(* other runs, a release, or a listener.                                   *)
(***************************************************************************)
EXTENDS Naturals

CONSTANTS
  Runs,       \* calls of runSync; each is made once
  JobIds,
  JobOf,      \* the job id a run is given
  Profiles,   \* browser profile directories
  Releases,   \* calls of DELETE /jobs/:jobId/runtime
  Listeners,  \* requests for /jobs/:jobId/events
  MaxFaults,  \* bound on faults of the browser, the disk and the process
  None        \* absent value

\* A BrowserMcpJobRequest; the profile is that of mode persistent_profile.
JobRequest == [profile : Profiles \cup {None}, headless : BOOLEAN, queued : BOOLEAN,
               keepOpenOnFailure : BOOLEAN, keepOpenOnSuccess : BOOLEAN]
Blank == [profile |-> None, headless |-> TRUE, queued |-> FALSE,
          keepOpenOnFailure |-> FALSE, keepOpenOnSuccess |-> FALSE]

ASSUME JobsAssumption ==
  JobOf \in [Runs -> JobIds] /\ MaxFaults \in Nat /\ None \notin Runs \cup JobIds \cup Profiles

VARIABLES
  phase,      \* how far each run is
  request,
  browser,    \* the browser of a run; a leaked one is open and has no owner
  retains,    \* retainRuntime of a run, which it reports as browserRetained
  answer,     \* the status its response has
  jobs,       \* jobs: the run whose emitter an entry has, and whose response
  retained,   \* retainedRuntimes
  releasing,  \* the run each release is closing
  listener,
  faults

sidecar == <<phase, request, browser, retains, answer, jobs, retained, releasing, listener, faults>>

StoredJob == [run : Runs \cup {None}, status : {"absent", "running", "completed", "failed"},
              response : Runs \cup {None}]
NoJob     == [run |-> None, status |-> "absent", response |-> None]
Listener  == [state : {"idle", "hears", "told", "dropped"}, run : Runs \cup {None}]

JobsInit ==
  /\ phase = [r \in Runs |-> "idle"] /\ request = [r \in Runs |-> Blank]
  /\ browser = [r \in Runs |-> "none"] /\ retains = [r \in Runs |-> FALSE]
  /\ answer = [r \in Runs |-> "none"]
  /\ jobs = [j \in JobIds |-> NoJob] /\ retained = [j \in JobIds |-> None]
  /\ releasing = [d \in Releases |-> None]
  /\ listener = [l \in Listeners |-> [state |-> "idle", run |-> None]]
  /\ faults = 0

----------------------------------------------------------------------------
\* One run.

Fault == faults < MaxFaults /\ faults' = faults + 1
Goes(r, from, to) == phase[r] = from /\ phase' = [phase EXCEPT ![r] = to]

\* POST /jobs/run-sync, or POST /jobs, which does not wait for the answer.
runSync(r, q) ==
  /\ Goes(r, "idle", "launch")
  /\ request' = [request EXCEPT ![r] = q]
  /\ jobs' = [jobs EXCEPT ![JobOf[r]] = [run |-> r, status |-> "running", response |-> None]]
  /\ UNCHANGED <<browser, retains, answer, retained, releasing, listener, faults>>

\* Chromium opens a profile once at a time.
Opened   == {r \in Runs : browser[r] \in {"open", "leaked"}}
InUse(p) == p # None /\ \E r \in Opened : request[r].profile = p

createRuntime(r) ==
  /\ ~InUse(request[r].profile) /\ Goes(r, "launch", "scenario")
  /\ browser' = [browser EXCEPT ![r] = "open"]
  /\ UNCHANGED <<request, retains, answer, jobs, retained, releasing, listener, faults>>

\* Whether the window of a run may stay open, as it asks with keepOpen.
MayRetain(r, keepOpen) == keepOpen /\ request[r].profile # None /\ ~request[r].headless

CatchForgets(r, has_runtime) ==
  /\ retains' = [retains EXCEPT ![r] = MayRetain(r, request[r].keepOpenOnFailure)]
  /\ UNCHANGED retained

\* The catch block, up to its first await.  It reports a retained window whether or
\* not it has one.
Catch(r, has_runtime) ==
  LET retain == MayRetain(r, request[r].keepOpenOnFailure) IN
    /\ retains' = [retains EXCEPT ![r] = retain]
    /\ retained' = [retained EXCEPT ![JobOf[r]] = IF retain /\ has_runtime THEN r ELSE @]

\* The profile is in use, Chromium does not start, or it starts and the page or the
\* network policy fails, which nobody closes.
LaunchFails(r) ==
  /\ Goes(r, "launch", "failing") /\ Catch(r, FALSE)
  /\ \/ InUse(request[r].profile) /\ UNCHANGED <<browser, faults>>
     \/ Fault /\ UNCHANGED browser
     \/ Fault /\ ~InUse(request[r].profile) /\ browser' = [browser EXCEPT ![r] = "leaked"]
  /\ UNCHANGED <<request, answer, jobs, releasing, listener>>

\* The scenario is over, and a window it keeps is registered before run.json is written.
ScenarioDone(r) ==
  /\ Goes(r, "scenario", "saving")
  /\ LET retainOnSuccess == MayRetain(r, request[r].keepOpenOnSuccess) IN
       /\ retains' = [retains EXCEPT ![r] = retainOnSuccess]
       /\ retained' = [retained EXCEPT ![JobOf[r]] = IF retainOnSuccess THEN r ELSE @]
  /\ UNCHANGED <<request, browser, answer, jobs, releasing, listener, faults>>

ScenarioFails(r) ==
  /\ \/ Goes(r, "scenario", "failing") /\ UNCHANGED faults
     \/ Goes(r, "saving", "failing") /\ Fault
  /\ Catch(r, TRUE)
  /\ UNCHANGED <<request, browser, answer, jobs, releasing, listener>>

EmitsToEntry(r, status) ==
  /\ answer' = [answer EXCEPT ![r] = status]
  /\ jobs' = [jobs EXCEPT ![JobOf[r]] = [run |-> r, status |-> status, response |-> r]]
  /\ listener' = [l \in Listeners |->
       IF listener[l] = [state |-> "hears", run |-> jobs[JobOf[r]].run] THEN [state |-> "told", run |-> r]
       ELSE listener[l]]
  /\ UNCHANGED <<request, browser, retains, retained, releasing, faults>>

StatusForgotten(r, status) ==
  /\ answer' = [answer EXCEPT ![r] = status]
  /\ jobs' = [jobs EXCEPT ![JobOf[r]].response = r]
  /\ listener' = [l \in Listeners |->
       IF listener[l] = [state |-> "hears", run |-> r] THEN [state |-> "told", run |-> r]
       ELSE listener[l]]
  /\ UNCHANGED <<request, browser, retains, retained, releasing, faults>>

\* The response is stored and emitted; a runtime that is not kept is closed after it.
Finishes(r, status) ==
  /\ answer' = [answer EXCEPT ![r] = status]
  /\ jobs' = [jobs EXCEPT ![JobOf[r]] = [run |-> r, status |-> status, response |-> r]]
  /\ listener' = [l \in Listeners |->
       IF listener[l] = [state |-> "hears", run |-> r] THEN [state |-> "told", run |-> r]
       ELSE listener[l]]
  /\ UNCHANGED <<request, browser, retains, retained, releasing, faults>>

LastEnds(r) == "ended"

Last(r) == IF browser[r] \in {"open", "closed"} /\ ~retains[r] THEN "closing" ELSE "over"

Completed(r) == Goes(r, "saving", Last(r)) /\ Finishes(r, "completed")
Failed(r)    == Goes(r, "failing", Last(r)) /\ Finishes(r, "failed")

\* The promise resolves.  That of a queued job writes to whatever entry its id has now.
Closed(r) ==
  /\ Goes(r, "closing", "over")
  /\ browser' = [browser EXCEPT ![r] = "closed"]
  /\ jobs' = [jobs EXCEPT ![JobOf[r]] =
       IF request[r].queued THEN [@ EXCEPT !.status = answer[r], !.response = r] ELSE @]
  /\ UNCHANGED <<request, retains, answer, retained, releasing, listener, faults>>

----------------------------------------------------------------------------
\* Retained windows, listeners, and the end of the process.

releaseRetainedRuntime(d, j) ==
  /\ releasing[d] = None /\ retained[j] # None
  /\ releasing' = [releasing EXCEPT ![d] = retained[j]]
  /\ UNCHANGED <<phase, request, browser, retains, answer, jobs, retained, listener, faults>>

\* close() is through: whatever the id names by now is forgotten.
Released(d) ==
  /\ releasing[d] # None
  /\ browser' = [browser EXCEPT ![releasing[d]] = "closed"]
  /\ retained' = [retained EXCEPT ![JobOf[releasing[d]]] = None]
  /\ releasing' = [releasing EXCEPT ![d] = None]
  /\ UNCHANGED <<phase, request, retains, answer, jobs, listener, faults>>

\* The operator closes a window by hand; nobody is told.
CloseWindow(r) ==
  /\ browser[r] \in {"open", "leaked"} /\ ~request[r].headless
  /\ browser' = [browser EXCEPT ![r] = "closed"]
  /\ UNCHANGED <<phase, request, retains, answer, jobs, retained, releasing, listener, faults>>

\* GET /jobs/:jobId/events: the response there is, or the emitter of the entry.
Listen(l, j) ==
  /\ listener[l].state = "idle" /\ jobs[j].status # "absent"
  /\ listener' = [listener EXCEPT ![l] =
       IF jobs[j].response # None THEN [state |-> "told", run |-> jobs[j].response]
       ELSE [state |-> "hears", run |-> jobs[j].run]]
  /\ UNCHANGED <<phase, request, browser, retains, answer, jobs, retained, releasing, faults>>

\* A promise is rejected that nobody awaits: run.json of a failed job cannot be
\* written, its directory cannot be made, a browser does not close.  Node exits, its
\* browsers with it, and starts anew with empty maps.
Crash ==
  /\ Fault
  /\ phase' = [r \in Runs |-> IF phase[r] \in {"idle", "over"} THEN phase[r] ELSE "gone"]
  /\ browser' = [r \in Runs |-> IF browser[r] = "none" THEN "none" ELSE "closed"]
  /\ jobs' = [j \in JobIds |-> NoJob] /\ retained' = [j \in JobIds |-> None]
  /\ releasing' = [d \in Releases |-> None]
  /\ listener' = [l \in Listeners |->
       IF listener[l].state = "hears" THEN [listener[l] EXCEPT !.state = "dropped"] ELSE listener[l]]
  /\ UNCHANGED <<request, retains, answer>>

----------------------------------------------------------------------------
RunStep(r) ==
  \/ createRuntime(r) \/ LaunchFails(r) \/ ScenarioDone(r) \/ ScenarioFails(r)
  \/ Completed(r) \/ Failed(r) \/ Closed(r)

\* What the process does by itself.
SidecarStep ==
  \/ \E r \in Runs : RunStep(r) \/ CloseWindow(r)
  \/ \E d \in Releases : Released(d)
  \/ Crash

JobsNext ==
  \/ SidecarStep
  \/ \E r \in Runs, q \in JobRequest : runSync(r, q)
  \/ \E d \in Releases, j \in JobIds : releaseRetainedRuntime(d, j)
  \/ \E l \in Listeners, j \in JobIds : Listen(l, j)

JobsSpec == JobsInit /\ [][JobsNext]_sidecar

----------------------------------------------------------------------------
\* Properties.

\* Every variable holds a value of its kind.
JobsTypeOK ==
  /\ phase \in [Runs -> {"idle", "launch", "scenario", "saving", "failing", "closing", "over", "gone"}]
  /\ request \in [Runs -> JobRequest]
  /\ browser \in [Runs -> {"none", "open", "leaked", "closed"}] /\ retains \in [Runs -> BOOLEAN]
  /\ answer \in [Runs -> {"none", "completed", "failed"}]
  /\ jobs \in [JobIds -> StoredJob] /\ retained \in [JobIds -> Runs \cup {None}]
  /\ releasing \in [Releases -> Runs \cup {None}] /\ listener \in [Listeners -> Listener]
  /\ faults \in 0..MaxFaults

\* The runs that share no job id with another one.
Alone(r) == \A q \in Runs : JobOf[q] = JobOf[r] => q = r

\* A browser that runs on after its job can be released under its job id, whatever
\* releases, failures and other jobs met it.  There are two exceptions.  Two runs of one
\* id may lose a window; and no release reaches a browser whose launch failed after it had
\* started, the job of which has been answered as failed.
OpenIsReleasable ==
  \A r \in Opened : phase[r] \in {"over", "gone"} /\ Alone(r) =>
    \/ retained[JobOf[r]] = r
    \/ browser[r] = "leaked" /\ answer[r] = "failed"

\* A job that is reported as running is under way, whichever run of the id wrote the
\* entry last: who polls its status sees the end.
RunningIsUnderWay ==
  \A j \in JobIds : jobs[j].status = "running" =>
    /\ phase[jobs[j].run] \in {"launch", "scenario", "saving", "failing"}
    /\ JobOf[jobs[j].run] = j /\ jobs[j].response = None

\* One who listens to a job that has not ended hears how it ends, though another run
\* of the id may have taken its entry meanwhile, or is cut off.
ListenersAreTold ==
  \A l \in Listeners : listener[l].state = "hears" ~> listener[l].state \in {"told", "dropped"}
=============================================================================

--------------------------- MODULE PostulacionProofs ---------------------------
(***************************************************************************)
(* What holds of the script and the sidecar together, for any number of    *)
(* scripts, other clients and faults.  The composition is first shown to   *)
(* be a behaviour of the sidecar, whose theorems it inherits.              *)
(***************************************************************************)
EXTENDS Postulacion, BrowserJobsProofs

\* A summary that is written names a job of its script.
SummaryNames ==
  \A s \in Scripts : summary[s].status # "none" => summary[s].runtime_job \in Scripts \X Stages

LEMMA Requests ==
  ASSUME NEW s \in Scripts, NEW stage \in Stages
  PROVE  /\ <<s, stage>> \in Runs /\ JobOf[<<s, stage>>] \in JobIds
         /\ JobFor(s, stage) \in JobRequest
         /\ Settings[s].contracts[1] \in {"api", "fe"}
         /\ Settings[s].session_dir \in Profiles /\ s \in Releases
  <1>1. <<s, stage>> \in Runs /\ JobOf[<<s, stage>>] \in JobIds
    BY JobsAssumption, ScriptsAssumption
  <1>2. /\ Settings[s].session_dir \in Profiles /\ Settings[s].headless \in BOOLEAN
        /\ Settings[s].keep_browser_open_on_failure \in BOOLEAN
        /\ Settings[s].keep_session_open \in BOOLEAN
        /\ Settings[s].contracts \in {<<"api", "fe">>, <<"api">>, <<"fe">>}
    BY ScriptsAssumption
  <1>3. Settings[s].contracts[1] \in {"api", "fe"}
    BY <1>2
  <1>4. JobFor(s, stage) \in JobRequest
    BY <1>2 DEF JobFor, JobRequest
  <1> QED
    BY <1>1, <1>2, <1>3, <1>4, ScriptsAssumption

\* The cases of a step.
LEMMA ScriptCases ==
  ASSUME NEW s \in Scripts, ScriptStep(s), NEW P,
         resolve_active_errors(s) => P, Refused(s) => P, Begin(s) => P, NextContract(s) => P,
         GenerateFailed(s) => P, XmlNotFound(s) => P, Generated(s) => P, NotConfirmed(s) => P,
         SigningFailed(s) => P, Signed(s) => P, Upload(s) => P, Uploaded(s) => P,
         _release_retained_runtime(s) => P, ReleaseAnswered(s) => P, NotReleased(s) => P, Raises(s) => P
  PROVE  P
  BY DEF ScriptStep

----------------------------------------------------------------------------
\* The composition implements the sidecar.

LEMMA KnownIds ==
  ASSUME SummaryNames
  PROVE  Known \subseteq JobIds
  BY JobsAssumption, ScriptsAssumption DEF Known, SummaryNames

\* What a script does is a call of the sidecar, or leaves it alone.
LEMMA ScriptRefines ==
  ASSUME NEW s \in Scripts, ScriptStep(s)
  PROVE  [JobsNext]_sidecar
  <1> DEFINE Goal == [JobsNext]_sidecar
  <1>1. ASSUME NEW stage \in Stages, run_browser_job(s, stage) PROVE Goal
    <2>1. runSync(<<s, stage>>, JobFor(s, stage)) /\ <<s, stage>> \in Runs /\ JobFor(s, stage) \in JobRequest
      BY <1>1, Requests DEF run_browser_job
    <2> QED
      BY <2>1 DEF JobsNext
  <1>2. Begin(s) => Goal
    BY <1>1, Requests DEF Begin, Stages
  <1>3. NextContract(s) => Goal
    BY <1>1 DEF NextContract, Stages
  <1>4. Upload(s) => Goal
    BY <1>1 DEF Upload, Stages
  <1>5. _release_retained_runtime(s) => Goal
    BY Requests DEF _release_retained_runtime, JobsNext, Stages
  <1>6. ReleaseAnswered(s) => Goal
    BY Requests DEF ReleaseAnswered, JobsNext, SidecarStep, Stages
  <1>7. /\ resolve_active_errors(s) => Goal
        /\ Refused(s) => Goal
        /\ GenerateFailed(s) => Goal
        /\ XmlNotFound(s) => Goal
    BY DEF resolve_active_errors, Refused, GenerateFailed, XmlNotFound, sidecar
  <1>8. /\ Generated(s) => Goal
        /\ NotConfirmed(s) => Goal
        /\ SigningFailed(s) => Goal
        /\ Signed(s) => Goal
    BY DEF Generated, NotConfirmed, SigningFailed, Signed, sidecar
  <1>9. /\ Uploaded(s) => Goal
        /\ NotReleased(s) => Goal
        /\ Raises(s) => Goal
    BY DEF Uploaded, NotReleased, Raises, sidecar
  <1> HIDE DEF Goal
  <1>10. Goal
    BY <1>2, <1>3, <1>4, <1>5, <1>6, <1>7, <1>8, <1>9, ScriptCases
  <1> QED
    BY <1>10 DEF Goal

LEMMA StepRefines ==
  ASSUME SummaryNames, [Next]_all
  PROVE  [JobsNext]_sidecar
  <1>1. CASE UNCHANGED all
    BY <1>1 DEF all, sidecar
  <1>2. CASE \E s \in Scripts : ScriptStep(s)
    BY <1>2, ScriptRefines
  <1>3. CASE SidecarNext
    BY <1>3, KnownIds, ScriptsAssumption DEF SidecarNext, JobsNext, SidecarStep
  <1> QED
    BY <1>1, <1>2, <1>3 DEF Next

\* What a step of the script does to the variables of the client.
LEMMA ClientStep ==
  ASSUME TypeOK, SummaryNames, NEW s \in Scripts, ScriptStep(s)
  PROVE  /\ actors' = actors /\ s \in actors
         /\ \E to \in {"resolved", "generate", "sign", "confirm", "upload", "release",
                       "releasing", "ended", "raised"} : at' = [at EXCEPT ![s] = to]
         /\ \E stage \in Stages : job' = [job EXCEPT ![s] = stage]
         /\ errors' \subseteq Scripts \X Codes
         /\ \/ summary' = summary
            \/ \E w \in [status : {"none", "failed", "waiting_human", "completed"},
                         runtime_job : Scripts \X Stages, runtime_retained : BOOLEAN] :
                 summary' = [summary EXCEPT ![s] = w]
  <1> DEFINE W    == [status : {"none", "failed", "waiting_human", "completed"},
                      runtime_job : Scripts \X Stages, runtime_retained : BOOLEAN]
             To   == {"resolved", "generate", "sign", "confirm", "upload", "release",
                      "releasing", "ended", "raised"}
             Goal == /\ actors' = actors /\ s \in actors
                     /\ \E to \in To : at' = [at EXCEPT ![s] = to]
                     /\ \E stage \in Stages : job' = [job EXCEPT ![s] = stage]
                     /\ errors' \subseteq Scripts \X Codes
                     /\ summary' = summary \/ \E w \in W : summary' = [summary EXCEPT ![s] = w]
  <1>0. /\ job[s] \in Stages
        /\ job' = job => \E stage \in Stages : job' = [job EXCEPT ![s] = stage]
        /\ errors \subseteq Scripts \X Codes
        /\ \A r \in Runs : retains[r] \in BOOLEAN /\ answer[r] \in {"none", "completed", "failed"}
        /\ \A c \in Codes : {<<s, c>>} \subseteq Scripts \X Codes
        /\ <<s, "upload">> \in Runs /\ <<s, job[s]>> \in Runs
    BY ScriptsAssumption DEF TypeOK, JobsTypeOK, Stages
  <1>1. ASSUME NEW v \in {"none", "failed", "waiting_human", "completed"}, NEW k \in BOOLEAN,
               _persist_outputs(s, v, k)
        PROVE  \E w \in W : summary' = [summary EXCEPT ![s] = w]
    <2>1. <<s, job[s]>> \in Scripts \X Stages
      BY <1>0
    <2>2. [status |-> v, runtime_job |-> <<s, job[s]>>, runtime_retained |-> k] \in W
      BY <2>1
    <2> QED
      BY <1>1, <2>2 DEF _persist_outputs
  <1>2. resolve_active_errors(s) => Goal
    BY <1>0 DEF resolve_active_errors, Step, Saves
  <1>3. Refused(s) => Goal
    BY <1>0 DEF Refused, Step, Saves, Codes
  <1>4. Begin(s) => Goal
    BY <1>0, Requests DEF Begin, Step, Saves, run_browser_job, Stages
  <1>5. NextContract(s) => Goal
    BY <1>0 DEF NextContract, Step, run_browser_job, Stages
  <1>6. GenerateFailed(s) => Goal
    BY <1>0, <1>1 DEF GenerateFailed, Step, Saves, Codes
  <1>7. XmlNotFound(s) => Goal
    BY <1>0 DEF XmlNotFound, Step, Saves, Codes
  <1>8. Generated(s) => Goal
    BY <1>0 DEF Generated, Step, Saves
  <1>9. NotConfirmed(s) => Goal
    BY <1>0, <1>1 DEF NotConfirmed, Step, Saves
  <1>10. SigningFailed(s) => Goal
    BY <1>0, <1>1 DEF SigningFailed, Step, Saves, Codes
  <1>11. Signed(s) => Goal
    BY <1>0 DEF Signed, Step, Saves
  <1>12. Upload(s) => Goal
    BY <1>0 DEF Upload, Step, Saves, run_browser_job, Stages
  <1>13. Uploaded(s) => Goal
    BY <1>0, <1>1 DEF Uploaded, Step, Saves, Codes
  <1>14. _release_retained_runtime(s) => Goal
    BY <1>0 DEF _release_retained_runtime, Step
  <1>15. ReleaseAnswered(s) => Goal
    BY <1>0, <1>1 DEF ReleaseAnswered, Step
  <1>16. NotReleased(s) => Goal
    BY <1>0, <1>1 DEF NotReleased, Step
  <1>17. Raises(s) => Goal
    BY <1>0 DEF Raises, Step
  <1> HIDE DEF Goal
  <1>18. Goal
    BY <1>2, <1>3, <1>4, <1>5, <1>6, <1>7, <1>8, <1>9, <1>10, <1>11, <1>12, <1>13, <1>14, <1>15,
       <1>16, <1>17, ScriptCases
  <1> QED
    BY <1>18 DEF Goal

LEMMA PostulacionTypeStep ==
  ASSUME TypeOK, ClosingIsAnswered, SummaryNames, [Next]_all
  PROVE  TypeOK' /\ ClosingIsAnswered' /\ SummaryNames'
  <1>1. JobsTypeOK' /\ ClosingIsAnswered'
    BY StepRefines, TypeStep DEF TypeOK
  <1>2. CASE UNCHANGED client
    BY <1>1, <1>2 DEF client, TypeOK, SummaryNames
  <1>3. ASSUME NEW s \in Scripts, ScriptStep(s) PROVE TypeOK' /\ SummaryNames'
    <2>1. PICK to \in {"resolved", "generate", "sign", "confirm", "upload", "release",
                       "releasing", "ended", "raised"} : at' = [at EXCEPT ![s] = to]
      BY <1>3, ClientStep
    <2>2. PICK stage \in Stages : job' = [job EXCEPT ![s] = stage]
      BY <1>3, ClientStep
    <2>3. actors' = actors /\ errors' \subseteq Scripts \X Codes
      BY <1>3, ClientStep
    <2>4. summary' \in [Scripts -> Summary] /\ SummaryNames'
      <3>1. CASE summary' = summary
        BY <3>1 DEF TypeOK, SummaryNames
      <3>2. CASE summary' # summary
        <4>1. PICK w \in [status : {"none", "failed", "waiting_human", "completed"},
                          runtime_job : Scripts \X Stages, runtime_retained : BOOLEAN] :
                   summary' = [summary EXCEPT ![s] = w]
          BY <1>3, <3>2, ClientStep
        <4>2. w \in Summary /\ w.runtime_job \in Scripts \X Stages
          BY DEF Summary
        <4> QED
          BY <4>1, <4>2 DEF TypeOK, SummaryNames
      <3> QED
        BY <3>1, <3>2
    <2> QED
      BY <1>1, <2>1, <2>2, <2>3, <2>4 DEF TypeOK
  <1> QED
    BY <1>1, <1>2, <1>3 DEF Next, all

LEMMA Typed == Spec => [](TypeOK /\ ClosingIsAnswered /\ SummaryNames)
  <1>1. Init => TypeOK /\ ClosingIsAnswered /\ SummaryNames
    <2> SUFFICES ASSUME Init PROVE TypeOK /\ ClosingIsAnswered /\ SummaryNames
      OBVIOUS
    <2>1. [status |-> "none", runtime_job |-> None, runtime_retained |-> FALSE] \in Summary
      BY DEF Summary
    <2>2. JobsTypeOK /\ ClosingIsAnswered
      BY TypeInit DEF Init
    <2> QED
      BY <2>1, <2>2 DEF Init, TypeOK, SummaryNames, Stages
  <1> QED
    BY <1>1, PostulacionTypeStep, PTL DEF Spec

\* Every variable of the script and of the sidecar holds a value of its kind.
THEOREM TypeCorrect == Spec => []TypeOK
  BY Typed, PTL

\* Whatever scripts and other clients do, the sidecar behaves as BrowserJobs says: its
\* theorems hold beside them.
THEOREM ImplementsJobs == Spec => JobsSpec
  <1>1. Init => JobsInit
    BY DEF Init
  <1> QED
    BY <1>1, Typed, StepRefines, PTL DEF Spec, JobsSpec

\* Beside the script too, a window that stays open can be released, and a job that is
\* reported as running is under way.
THEOREM SidecarKeepsItsPromises == Spec => [](OpenIsReleasable /\ RunningIsUnderWay)
  BY ImplementsJobs, OpenIsAlwaysReleasable, RunningIsAlwaysUnderWay, PTL

----------------------------------------------------------------------------
\* What a script leaves open.

Earlier == {<<"api", "fe">>, <<"api", "upload">>, <<"fe", "upload">>}

\* The jobs of a script run one after the other, and a later one gets a browser only
\* while the windows of the earlier ones are closed: all use one profile.
Asked(s) ==
  \A x \in Stages : phase[<<s, x>>] # "idle" => request[<<s, x>>] = JobFor(s, x)
NotBegun(s) ==
  at[s] \in {"start", "resolved"} => \A x \in Stages : phase[<<s, x>>] = "idle"
InTurn(s) ==
  at[s] \notin {"start", "resolved", "raised"} => \A x \in Stages :
    /\ <<job[s], x>> \in Earlier => phase[<<s, x>>] = "idle"
    /\ <<x, job[s]>> \in Earlier => phase[<<s, x>>] \in {"idle", "over"}
HasAnswer(s) ==
  /\ at[s] \in {"sign", "confirm", "release", "releasing", "ended"} => phase[<<s, job[s]>>] = "over"
  /\ at[s] \in {"sign", "confirm"} => answer[<<s, job[s]>>] = "completed"
HasJob(s) ==
  /\ at[s] \in {"generate", "sign", "confirm"} => job[s] \in {"api", "fe"}
  /\ at[s] \in {"upload", "release", "releasing"} => job[s] = "upload"
OneByOne(s) ==
  \A e \in Earlier : phase[<<s, e[2]>>] # "idle" => phase[<<s, e[1]>>] \in {"idle", "over"}
OneWindow(s) ==
  \A e \in Earlier : browser[<<s, e[2]>>] # "none" => browser[<<s, e[1]>>] \notin {"open", "leaked"}
OwnWindow(s) == releasing[s] \in {None, <<s, "upload">>}
LeavesNothing(s) ==
  at[s] = "ended" /\ ~summary[s].runtime_retained => \A x \in Stages :
    /\ browser[<<s, x>>] # "open"
    /\ browser[<<s, x>>] = "leaked" => summary[s].status = "failed"

Flow(s) ==
  /\ Asked(s) /\ NotBegun(s) /\ InTurn(s) /\ HasAnswer(s) /\ HasJob(s) /\ OneByOne(s)
  /\ OneWindow(s) /\ OwnWindow(s) /\ LeavesNothing(s)

\* What is known of the sidecar.
Sidecar ==
  JobsTypeOK /\ HasBrowser /\ UnderItsId /\ (\A r \in Runs : Keeps(r) /\ Answers(r))

\* The stages of a script.
LEMMA Order ==
  /\ Earlier \subseteq Stages \X Stages
  /\ \A x, y \in Stages : x = y \/ <<x, y>> \in Earlier \/ <<y, x>> \in Earlier
  /\ \A e \in Earlier : e = <<e[1], e[2]>> /\ e[1] \in Stages /\ e[2] \in Stages /\ e[1] # e[2]
  /\ \A x \in Stages : <<x, "api">> \notin Earlier /\ <<"upload", x>> \notin Earlier
  BY DEF Earlier, Stages

\* The windows of a script while the sidecar moves, and the script stays.
LEMMA Windows ==
  ASSUME Sidecar, NEW s \in Scripts, Flow(s), [JobsNext]_sidecar,
         \A x \in Stages : Effect(<<s, x>>)
  PROVE  OneWindow(s)'
  <1> SUFFICES ASSUME NEW e \in Earlier, browser'[<<s, e[2]>>] # "none",
                      NEW w \in {"open", "leaked"}, browser'[<<s, e[1]>>] = w
               PROVE  FALSE
    BY DEF OneWindow
  <1> DEFINE a == <<s, e[1]>>
             b == <<s, e[2]>>
  <1>0. e[1] \in Stages /\ e[2] \in Stages
    BY Order
  <1>1. Effect(a) /\ Effect(b) /\ a \in Runs /\ b \in Runs
    BY <1>0, Requests
  <1>2. phase[b] # "idle" => phase[a] \in {"idle", "over"}
    BY DEF Flow, OneByOne
  <1>3. phase[a] \in {"idle", "launch"} => browser[a] = "none"
    BY <1>1 DEF Sidecar, HasBrowser
  <1>4. browser[b] # "none" => phase[b] # "idle"
    BY <1>1 DEF Sidecar, HasBrowser
  <1>5. CASE browser[b] # "none"
    <2>1. browser[a] # w
      BY <1>5 DEF Flow, OneWindow
    <2> QED
      BY <1>1, <1>2, <1>4, <1>5, <2>1 DEF Effect
  <1>6. CASE browser[b] = "none"
    <2>1. phase[b] = "launch" /\ ~InUse(request[b].profile)
      BY <1>1, <1>6 DEF Effect
    <2>2. browser[a] = w /\ phase[a] = "over"
      BY <1>1, <1>2, <1>3, <2>1 DEF Effect
    <2>3. request[a] = JobFor(s, e[1]) /\ request[b] = JobFor(s, e[2])
      BY <1>0, <2>1, <2>2 DEF Flow, Asked
    <2>4. request[a].profile = request[b].profile /\ request[b].profile # None
      BY <1>0, <2>3, Requests, JobsAssumption DEF JobFor
    <2>5. a \in Opened
      BY <1>1, <2>2 DEF Opened
    <2> QED
      BY <2>1, <2>4, <2>5 DEF InUse
  <1> QED
    BY <1>5, <1>6

\* A step of the sidecar, of another script, or of another client.
LEMMA Quiet ==
  ASSUME Sidecar, NEW s \in Scripts, Flow(s), job[s] \in Stages, [JobsNext]_sidecar,
         at'[s] = at[s], job'[s] = job[s], summary'[s] = summary[s],
         releasing'[s] \in {releasing[s], None},
         \A x \in Stages : phase[<<s, x>>] = "idle" => phase'[<<s, x>>] = "idle"
  PROVE  Flow(s)'
  <1>1. \A x \in Stages : Effect(<<s, x>>)
    BY Effects, Requests DEF Sidecar
  <1>2. Asked(s)'
    BY <1>1 DEF Flow, Asked, Effect, JobFor
  <1>3. NotBegun(s)' /\ InTurn(s)'
    BY <1>1 DEF Flow, NotBegun, InTurn, Effect
  <1>4. HasAnswer(s)' /\ HasJob(s)'
    BY <1>1 DEF Flow, HasAnswer, HasJob, Effect
  <1>5. OneByOne(s)'
    BY <1>1, Order DEF Flow, OneByOne, Effect
  <1>6. OneWindow(s)'
    BY <1>1, Windows
  <1>7. OwnWindow(s)'
    BY DEF Flow, OwnWindow
  <1>8. LeavesNothing(s)'
    <2> SUFFICES ASSUME at[s] = "ended", ~summary[s].runtime_retained, NEW x \in Stages
                 PROVE  /\ browser'[<<s, x>>] # "open"
                        /\ browser'[<<s, x>>] = "leaked" => summary[s].status = "failed"
      BY DEF LeavesNothing
    <2>1. phase[<<s, x>>] \in {"idle", "over"}
      BY Order DEF Flow, InTurn, HasAnswer
    <2>2. browser[<<s, x>>] # "open" /\ (browser[<<s, x>>] = "leaked" => summary[s].status = "failed")
      BY DEF Flow, LeavesNothing
    <2> QED
      BY <1>1, <2>1, <2>2 DEF Effect
  <1> QED
    BY <1>2, <1>3, <1>4, <1>5, <1>6, <1>7, <1>8 DEF Flow

\* When the job a script has had last is over and says that no window is kept, none of
\* its jobs has one: a job that found the profile in use would have been told to keep it.
LEMMA NoneOpen ==
  ASSUME Sidecar, NEW s \in Scripts, Flow(s), job[s] \in Stages,
         at[s] \notin {"start", "resolved", "raised"},
         phase[<<s, job[s]>>] = "over", ~retains[<<s, job[s]>>], NEW x \in Stages
  PROVE  browser[<<s, x>>] # "open"
  <1> SUFFICES ASSUME browser[<<s, x>>] = "open" PROVE FALSE
    OBVIOUS
  <1> DEFINE r == <<s, x>>
             l == <<s, job[s]>>
  <1>1. r \in Runs /\ l \in Runs
    BY Requests
  <1>2. Keeps(r) /\ Keeps(l)
    BY <1>1 DEF Sidecar
  <1>3. r # l
    BY <1>2 DEF Keeps
  <1>4. phase[r] # "idle"
    BY <1>1 DEF Sidecar, HasBrowser
  <1>5. <<x, job[s]>> \in Earlier
    BY <1>3, <1>4, Order DEF Flow, InTurn
  <1>6. phase[r] = "over" /\ retains[r]
    BY <1>2, <1>4, <1>5 DEF Flow, InTurn, Keeps
  <1>7. browser[l] = "none"
    BY <1>5 DEF Flow, OneWindow
  <1>8. request[r] = JobFor(s, x) /\ request[l] = JobFor(s, job[s])
    BY <1>4 DEF Flow, Asked
  <1>9. x # "upload"
    BY <1>5, Order
  <1>10. MayRetain(r, request[r].keepOpenOnFailure)
    <2>1. ~request[r].keepOpenOnSuccess
      <3>1. JobFor(s, x).keepOpenOnSuccess = (x = "upload" /\ Settings[s].keep_session_open)
        BY Zenon DEF JobFor
      <3> QED
        BY <1>8, <1>9, <3>1
    <2> QED
      BY <1>2, <1>6, <2>1 DEF Keeps
  <1>11. MayRetain(l, request[l].keepOpenOnFailure)
    BY <1>8, <1>10 DEF MayRetain, JobFor
  <1>12. retains[l] = MayRetain(l, request[l].keepOpenOnFailure)
    BY <1>2, <1>7 DEF Keeps
  <1> QED
    BY <1>11, <1>12

\* When that job completed, none of its jobs has left a browser without an owner.
LEMMA NoneLeaked ==
  ASSUME Sidecar, NEW s \in Scripts, Flow(s), job[s] \in Stages,
         at[s] \notin {"start", "resolved", "raised"},
         phase[<<s, job[s]>>] = "over", answer[<<s, job[s]>>] = "completed", NEW x \in Stages
  PROVE  browser[<<s, x>>] # "leaked"
  <1> SUFFICES ASSUME browser[<<s, x>>] = "leaked" PROVE FALSE
    OBVIOUS
  <1>1. <<s, x>> \in Runs /\ <<s, job[s]>> \in Runs
    BY Requests
  <1>2. browser[<<s, job[s]>>] \notin {"none", "leaked"}
    BY <1>1 DEF Sidecar, Answers
  <1>3. x # job[s] /\ phase[<<s, x>>] # "idle"
    BY <1>1, <1>2 DEF Sidecar, HasBrowser
  <1>4. <<x, job[s]>> \in Earlier
    BY <1>3, Order DEF Flow, InTurn
  <1> QED
    BY <1>2, <1>4 DEF Flow, OneWindow

\* A step of the script that leaves the sidecar alone, by where it goes.
LEMMA StillStep ==
  ASSUME TypeOK, Sidecar, NEW s \in Scripts, Flow(s), UNCHANGED <<sidecar, job>>,
         NEW to, at' = [at EXCEPT ![s] = to],
         \/ at[s] = "start" /\ to = "resolved"
         \/ to = "raised"
         \/ /\ at[s] = "generate" /\ to = "sign"
            /\ phase[<<s, job[s]>>] = "over" /\ answer[<<s, job[s]>>] = "completed"
         \/ at[s] = "sign" /\ to = "confirm"
         \/ at[s] = "upload" /\ to = "release" /\ phase[<<s, job[s]>>] = "over"
         \/ /\ to = "ended" /\ phase[<<s, job[s]>>] = "over"
            /\ at[s] \notin {"start", "resolved", "raised"}
            /\ summary'[s].runtime_retained = TRUE
               \/ summary'[s].runtime_retained = retains[<<s, job[s]>>]
            /\ summary'[s].status = "failed" \/ answer[<<s, job[s]>>] = "completed"
  PROVE  Flow(s)'
  <1>0. /\ at'[s] = to /\ job[s] \in Stages /\ job'[s] = job[s]
        /\ phase' = phase /\ request' = request /\ browser' = browser /\ releasing' = releasing
        /\ answer' = answer
    BY DEF TypeOK, sidecar
  <1>1. Asked(s)' /\ OneByOne(s)' /\ OneWindow(s)' /\ OwnWindow(s)'
    BY <1>0 DEF Flow, Asked, OneByOne, OneWindow, OwnWindow, JobFor
  <1>2. NotBegun(s)' /\ InTurn(s)' /\ HasAnswer(s)' /\ HasJob(s)'
    BY <1>0 DEF Flow, NotBegun, InTurn, HasAnswer, HasJob
  <1>3. LeavesNothing(s)'
    <2> SUFFICES ASSUME to = "ended", ~summary'[s].runtime_retained, NEW x \in Stages
                 PROVE  /\ browser[<<s, x>>] # "open"
                        /\ browser[<<s, x>>] = "leaked" => summary'[s].status = "failed"
      BY <1>0 DEF LeavesNothing
    <2>1. ~retains[<<s, job[s]>>]
      OBVIOUS
    <2>2. browser[<<s, x>>] # "open"
      BY <1>0, <2>1, NoneOpen
    <2>3. summary'[s].status = "failed" \/ browser[<<s, x>>] # "leaked"
      BY <1>0, NoneLeaked
    <2> QED
      BY <2>2, <2>3
  <1> QED
    BY <1>1, <1>2, <1>3 DEF Flow

\* A step of the script that posts a job.
LEMMA PostStep ==
  ASSUME TypeOK, Sidecar, NEW s \in Scripts, Flow(s), NEW x \in Stages, run_browser_job(s, x),
         NEW to \in {"generate", "upload"}, at' = [at EXCEPT ![s] = to],
         to = "generate" => x \in {"api", "fe"}, to = "upload" => x = "upload",
         \A y \in Stages : <<x, y>> \in Earlier => phase[<<s, y>>] = "idle",
         \A y \in Stages : <<y, x>> \in Earlier => phase[<<s, y>>] \in {"idle", "over"}
  PROVE  Flow(s)'
  <1> DEFINE r == <<s, x>>
  <1>0. /\ at'[s] = to /\ job'[s] = x /\ r \in Runs
        /\ phase[r] = "idle" /\ phase' = [phase EXCEPT ![r] = "launch"]
        /\ request' = [request EXCEPT ![r] = JobFor(s, x)]
        /\ browser' = browser /\ releasing' = releasing
    BY Requests DEF run_browser_job, runSync, Goes, TypeOK
  <1>1. \A y \in Stages : <<s, y>> \in Runs /\ (y # x => phase'[<<s, y>>] = phase[<<s, y>>]
                                                         /\ request'[<<s, y>>] = request[<<s, y>>])
    BY <1>0, Requests DEF TypeOK, JobsTypeOK
  <1>2. phase'[r] = "launch" /\ request'[r] = JobFor(s, x)
    BY <1>0 DEF TypeOK, JobsTypeOK
  <1>3. Asked(s)'
    BY <1>1, <1>2 DEF Flow, Asked, JobFor
  <1>4. NotBegun(s)' /\ HasAnswer(s)' /\ HasJob(s)'
    BY <1>0 DEF NotBegun, HasAnswer, HasJob
  <1>5. InTurn(s)'
    <2> SUFFICES ASSUME NEW y \in Stages
                 PROVE  /\ <<x, y>> \in Earlier => phase'[<<s, y>>] = "idle"
                        /\ <<y, x>> \in Earlier => phase'[<<s, y>>] \in {"idle", "over"}
      BY <1>0 DEF InTurn
    <2> QED
      BY <1>1, Order
  <1>6. OneByOne(s)'
    <2> SUFFICES ASSUME NEW e \in Earlier, phase'[<<s, e[2]>>] # "idle"
                 PROVE  phase'[<<s, e[1]>>] \in {"idle", "over"}
      BY DEF OneByOne
    <2>0. e[1] \in Stages /\ e[2] \in Stages /\ e[1] # e[2] /\ e = <<e[1], e[2]>>
      BY Order
    <2>1. CASE e[2] = x
      BY <1>1, <2>0, <2>1
    <2>2. CASE e[2] # x
      <3>1. phase[<<s, e[2]>>] # "idle"
        BY <1>1, <2>0, <2>2
      <3>2. e[1] # x
        BY <2>0, <3>1
      <3> QED
        BY <1>1, <2>0, <3>1, <3>2 DEF Flow, OneByOne
    <2> QED
      BY <2>1, <2>2
  <1>7. OneWindow(s)' /\ OwnWindow(s)' /\ LeavesNothing(s)'
    BY <1>0 DEF Flow, OneWindow, OwnWindow, LeavesNothing
  <1> QED
    BY <1>3, <1>4, <1>5, <1>6, <1>7 DEF Flow

\* The script asks for its window to be closed: the id of its job names no other one.
LEMMA AskStep ==
  ASSUME TypeOK, Sidecar, NEW s \in Scripts, Flow(s), _release_retained_runtime(s)
  PROVE  Flow(s)'
  <1> DEFINE r == <<s, "upload">>
  <1>0. /\ at[s] = "release" /\ at'[s] = "releasing" /\ job' = job
        /\ phase' = phase /\ request' = request /\ browser' = browser
        /\ releasing'[s] = retained[JobOf[r]] /\ retained[JobOf[r]] # None
    BY Requests DEF _release_retained_runtime, Step, releaseRetainedRuntime, TypeOK, JobsTypeOK
  <1>1. r \in Runs /\ JobOf[r] \in JobIds /\ Alone(r)
    BY Requests, ScriptsAssumption DEF Stages
  <1>2. retained[JobOf[r]] \in Runs /\ JobOf[retained[JobOf[r]]] = JobOf[r]
    BY <1>0, <1>1 DEF Sidecar, JobsTypeOK, UnderItsId
  <1>3. OwnWindow(s)'
    BY <1>0, <1>1, <1>2 DEF Alone, OwnWindow
  <1>4. Asked(s)' /\ OneByOne(s)' /\ OneWindow(s)'
    BY <1>0 DEF Flow, Asked, OneByOne, OneWindow, JobFor
  <1>5. NotBegun(s)' /\ InTurn(s)' /\ HasAnswer(s)' /\ HasJob(s)' /\ LeavesNothing(s)'
    BY <1>0 DEF Flow, NotBegun, InTurn, HasAnswer, HasJob, LeavesNothing
  <1> QED
    BY <1>3, <1>4, <1>5 DEF Flow

\* The window is closed: the upload had one, so the jobs before it have none open.
LEMMA AnsweredStep ==
  ASSUME TypeOK, Sidecar, NEW s \in Scripts, Flow(s), ReleaseAnswered(s)
  PROVE  Flow(s)'
  <1> DEFINE r == <<s, "upload">>
  <1>0. /\ at[s] = "releasing" /\ at'[s] = "ended" /\ job' = job /\ releasing[s] # None
        /\ phase' = phase /\ request' = request
        /\ browser' = [browser EXCEPT ![releasing[s]] = "closed"] /\ releasing'[s] = None
    BY Requests DEF ReleaseAnswered, Step, Released, TypeOK, JobsTypeOK
  <1>1. r \in Runs /\ releasing[s] = r /\ job[s] = "upload"
    BY <1>0, Requests DEF Flow, OwnWindow, HasJob, Stages
  <1>2. browser[r] # "none"
    BY <1>0, <1>1, Requests DEF Sidecar, HasBrowser, Stages
  <1>3. \A x \in Stages : <<s, x>> \in Runs /\ browser'[<<s, x>>] = IF x = "upload" THEN "closed"
                                                                  ELSE browser[<<s, x>>]
    BY <1>0, <1>1, Requests DEF TypeOK, JobsTypeOK
  <1>4. \A x \in Stages : browser'[<<s, x>>] \notin {"open", "leaked"}
    <2> SUFFICES ASSUME NEW x \in Stages, x # "upload" PROVE browser[<<s, x>>] \notin {"open", "leaked"}
      BY <1>3
    <2>1. <<x, "upload">> \in Earlier
      BY DEF Stages, Earlier
    <2> QED
      BY <1>2, <2>1 DEF Flow, OneWindow
  <1>5. LeavesNothing(s)' /\ OwnWindow(s)' /\ OneWindow(s)'
    BY <1>0, <1>4, Order DEF LeavesNothing, OwnWindow, OneWindow
  <1>6. Asked(s)' /\ OneByOne(s)'
    BY <1>0 DEF Flow, Asked, OneByOne, JobFor
  <1>7. NotBegun(s)' /\ InTurn(s)' /\ HasAnswer(s)' /\ HasJob(s)'
    BY <1>0 DEF Flow, NotBegun, InTurn, HasAnswer, HasJob
  <1> QED
    BY <1>5, <1>6, <1>7 DEF Flow

\* A step of the script itself.
LEMMA OwnStep ==
  ASSUME TypeOK, Sidecar, NEW s \in Scripts, Flow(s), ScriptStep(s)
  PROVE  Flow(s)'
  <1> DEFINE Good == Flow(s)'
  <1>1. ASSUME NEW v, NEW k, _persist_outputs(s, v, k)
        PROVE  summary'[s].runtime_retained = k /\ summary'[s].status = v
    BY <1>1 DEF _persist_outputs, TypeOK
  <1>2. resolve_active_errors(s) => Good
    BY StillStep DEF resolve_active_errors, Step
  <1>3. Refused(s) => Good
    BY StillStep DEF Refused, Step
  <1>4. XmlNotFound(s) => Good
    BY StillStep DEF XmlNotFound, Step
  <1>5. Generated(s) => Good
    BY StillStep DEF Generated, Step, Answered
  <1>6. Signed(s) => Good
    BY StillStep DEF Signed, Step
  <1>7. Raises(s) => Good
    BY StillStep DEF Raises, Step
  <1>8. GenerateFailed(s) => Good
    BY <1>1, StillStep DEF GenerateFailed, Step, Answered
  <1>9. ASSUME NotConfirmed(s) \/ SigningFailed(s) PROVE Good
    <2>1. /\ at[s] \in {"sign", "confirm"} /\ at' = [at EXCEPT ![s] = "ended"]
          /\ UNCHANGED <<sidecar, job>>
      BY <1>9 DEF NotConfirmed, SigningFailed, Step
    <2>2. summary'[s].runtime_retained = retains[<<s, job[s]>>]
      BY <1>1, <1>9 DEF NotConfirmed, SigningFailed
    <2>3. phase[<<s, job[s]>>] = "over" /\ answer[<<s, job[s]>>] = "completed"
      BY <2>1 DEF Flow, HasAnswer
    <2> QED
      BY <2>1, <2>2, <2>3, StillStep
  <1>10. ASSUME Uploaded(s) PROVE Good
    <2>1. PICK status \in {"completed", "failed"} :
            /\ Answered(s, status)
            /\ IF retains[<<s, "upload">>] /\ ~Settings[s].keep_session_open
                 THEN Step(s, "upload", "release") /\ UNCHANGED summary
                 ELSE Step(s, "upload", "ended") /\ _persist_outputs(s, status, retains[<<s, "upload">>])
      BY <1>10 DEF Uploaded
    <2>2. UNCHANGED <<sidecar, job>> /\ at[s] = "upload" /\ phase[<<s, job[s]>>] = "over"
      BY <1>10, <2>1 DEF Uploaded, Step, Answered
    <2>3. job[s] = "upload"
      BY <2>2 DEF Flow, HasJob
    <2>4. \/ at' = [at EXCEPT ![s] = "release"]
          \/ /\ at' = [at EXCEPT ![s] = "ended"] /\ summary'[s].status = status
             /\ summary'[s].runtime_retained = retains[<<s, job[s]>>]
      BY <1>1, <2>1, <2>3 DEF Step
    <2>5. answer[<<s, job[s]>>] = status
      BY <2>1 DEF Answered
    <2> QED
      BY <2>2, <2>4, <2>5, StillStep
  <1>11. ASSUME NotReleased(s) PROVE Good
    <2>1. /\ at[s] \in {"release", "releasing"} /\ at' = [at EXCEPT ![s] = "ended"]
          /\ UNCHANGED <<sidecar, job>>
      BY <1>11 DEF NotReleased, Step
    <2>2. summary'[s].runtime_retained = TRUE /\ summary'[s].status = answer[<<s, "upload">>]
      BY <1>1, <1>11 DEF NotReleased
    <2>3. phase[<<s, job[s]>>] = "over" /\ job[s] = "upload"
      BY <2>1 DEF Flow, HasAnswer, HasJob
    <2>4. answer[<<s, "upload">>] \in {"none", "completed", "failed"}
      BY Requests DEF TypeOK, JobsTypeOK, Stages
    <2>5. answer[<<s, "upload">>] # "none"
      BY <2>3, Requests DEF Sidecar, Answers, Stages
    <2> QED
      BY <2>1, <2>2, <2>3, <2>4, <2>5, StillStep
  <1>12. ASSUME Begin(s) PROVE Good
    <2>1. /\ at[s] \in {"start", "resolved"} /\ at' = [at EXCEPT ![s] = "generate"]
          /\ run_browser_job(s, Settings[s].contracts[1])
      BY <1>12 DEF Begin, Step
    <2>2. Settings[s].contracts[1] \in {"api", "fe"} /\ Settings[s].contracts[1] \in Stages
      BY Requests DEF Stages
    <2>3. \A x \in Stages : phase[<<s, x>>] = "idle"
      BY <2>1 DEF Flow, NotBegun
    <2> QED
      BY <2>1, <2>2, <2>3, PostStep
  <1>13. ASSUME NextContract(s) PROVE Good
    <2>1. /\ at[s] = "generate" /\ at' = [at EXCEPT ![s] = "generate"] /\ run_browser_job(s, "fe")
          /\ job[s] = "api" /\ phase[<<s, "api">>] = "over"
      BY <1>13 DEF NextContract, Step, Answered
    <2>2. /\ \A y \in Stages : <<"fe", y>> \in Earlier => phase[<<s, y>>] = "idle"
          /\ \A y \in Stages : <<y, "fe">> \in Earlier => phase[<<s, y>>] \in {"idle", "over"}
      BY <2>1 DEF Flow, InTurn, Earlier, Stages
    <2> QED
      BY <2>1, <2>2, PostStep DEF Stages
  <1>14. ASSUME Upload(s) PROVE Good
    <2>1. at[s] = "confirm" /\ at' = [at EXCEPT ![s] = "upload"] /\ run_browser_job(s, "upload")
      BY <1>14 DEF Upload, Step
    <2>2. job[s] \in {"api", "fe"} /\ phase[<<s, job[s]>>] = "over"
      BY <2>1 DEF Flow, HasJob, HasAnswer
    <2>3. \A y \in Stages : <<y, "upload">> \in Earlier => phase[<<s, y>>] \in {"idle", "over"}
      <3> SUFFICES ASSUME NEW y \in {"api", "fe"} PROVE phase[<<s, y>>] \in {"idle", "over"}
        BY DEF Earlier
      <3>1. y = job[s] \/ <<job[s], y>> \in Earlier \/ <<y, job[s]>> \in Earlier
        BY <2>2 DEF Earlier
      <3> QED
        BY <2>1, <2>2, <3>1 DEF Flow, InTurn, Stages
    <2>4. \A y \in Stages : <<"upload", y>> \notin Earlier
      BY Order
    <2> QED
      BY <2>1, <2>3, <2>4, PostStep DEF Stages
  <1>15. _release_retained_runtime(s) => Good
    BY AskStep
  <1>16. ReleaseAnswered(s) => Good
    BY AnsweredStep
  <1> HIDE DEF Good
  <1>17. Good
    BY <1>2, <1>3, <1>4, <1>5, <1>6, <1>7, <1>8, <1>9, <1>10, <1>11, <1>12, <1>13, <1>14, <1>15,
       <1>16, ScriptCases
  <1> QED
    BY <1>17 DEF Good

\* A step of another script touches neither the jobs of s nor its release.
LEMMA OtherStep ==
  ASSUME TypeOK, NEW s \in Scripts, NEW t \in Scripts \ {s}, ScriptStep(t)
  PROVE  /\ releasing'[s] = releasing[s]
         /\ \A x \in Stages : phase[<<s, x>>] = "idle" => phase'[<<s, x>>] = "idle"
  <1> DEFINE Good == /\ releasing'[s] = releasing[s]
                     /\ \A x \in Stages : phase[<<s, x>>] = "idle" => phase'[<<s, x>>] = "idle"
  <1>1. ASSUME UNCHANGED sidecar PROVE Good
    BY <1>1 DEF sidecar
  <1>2. ASSUME NEW x \in Stages, run_browser_job(t, x) PROVE Good
    <2>1. phase' = [phase EXCEPT ![<<t, x>>] = "launch"] /\ releasing' = releasing
      BY <1>2 DEF run_browser_job, runSync, Goes
    <2> QED
      BY <2>1 DEF TypeOK, JobsTypeOK
  <1>3. Begin(t) \/ NextContract(t) \/ Upload(t) => Good
    BY <1>2, Requests DEF Begin, NextContract, Upload, Stages
  <1>4. _release_retained_runtime(t) => Good
    BY DEF _release_retained_runtime, releaseRetainedRuntime, TypeOK, JobsTypeOK
  <1>5. ReleaseAnswered(t) => Good
    BY DEF ReleaseAnswered, Released, TypeOK, JobsTypeOK
  <1>6. /\ resolve_active_errors(t) \/ Refused(t) \/ GenerateFailed(t) \/ XmlNotFound(t) => UNCHANGED sidecar
        /\ Generated(t) \/ NotConfirmed(t) \/ SigningFailed(t) \/ Signed(t) => UNCHANGED sidecar
        /\ Uploaded(t) \/ NotReleased(t) \/ Raises(t) => UNCHANGED sidecar
    BY DEF resolve_active_errors, Refused, GenerateFailed, XmlNotFound, Generated, NotConfirmed,
           SigningFailed, Signed, Uploaded, NotReleased, Raises
  <1> HIDE DEF Good
  <1>7. Good
    BY <1>1, <1>3, <1>4, <1>5, <1>6, ScriptCases
  <1> QED
    BY <1>7 DEF Good

\* What the sidecar does by itself, or other clients ask of it, starts no job of a script
\* and asks for no release in its place.
LEMMA SidecarQuiet ==
  ASSUME TypeOK, SummaryNames, HasBrowser, SidecarNext, NEW s \in Scripts
  PROVE  /\ releasing'[s] \in {releasing[s], None}
         /\ \A x \in Stages : phase[<<s, x>>] = "idle" => phase'[<<s, x>>] = "idle"
  <1> DEFINE Good == /\ releasing'[s] \in {releasing[s], None}
                     /\ \A x \in Stages : phase[<<s, x>>] = "idle" => phase'[<<s, x>>] = "idle"
  <1>0. s \in Releases /\ \A x \in Stages : <<s, x>> \in Runs
    BY Requests DEF Stages
  <1>1. ASSUME NEW r \in Runs, RunStep(r) PROVE Good
    <2>1. releasing' = releasing
      BY <1>1 DEF RunStep, createRuntime, LaunchFails, ScenarioDone, ScenarioFails, Completed, Failed,
                  Finishes, Closed
    <2>2. PICK to : phase[r] # "idle" /\ phase' = [phase EXCEPT ![r] = to]
      BY <1>1 DEF RunStep, createRuntime, LaunchFails, ScenarioDone, ScenarioFails, Completed, Failed,
                  Closed, Goes
    <2> QED
      BY <2>1, <2>2 DEF TypeOK, JobsTypeOK
  <1>2. ASSUME NEW r \in Runs, CloseWindow(r) PROVE Good
    BY <1>2 DEF CloseWindow
  <1>3. ASSUME NEW d \in Releases, Released(d) PROVE Good
    BY <1>0, <1>3 DEF Released, TypeOK, JobsTypeOK
  <1>4. ASSUME Crash PROVE Good
    BY <1>0, <1>4 DEF Crash
  <1>5. ASSUME NEW r \in Others, NEW q \in Menu, runSync(r, q) PROVE Good
    <2>1. phase' = [phase EXCEPT ![r] = "launch"] /\ releasing' = releasing
      BY <1>5 DEF runSync, Goes
    <2>2. \A x \in Stages : r # <<s, x>>
      BY ScriptsAssumption
    <2> QED
      BY <1>0, <2>1, <2>2 DEF TypeOK, JobsTypeOK
  <1>6. ASSUME NEW d \in Releases \ Scripts, NEW j, releaseRetainedRuntime(d, j) PROVE Good
    BY <1>0, <1>6 DEF releaseRetainedRuntime, TypeOK, JobsTypeOK
  <1>7. ASSUME NEW l \in Listeners, NEW j, Listen(l, j) PROVE Good
    BY <1>7 DEF Listen
  <1> HIDE DEF Good
  <1>8. Good
    BY <1>1, <1>2, <1>3, <1>4, <1>5, <1>6, <1>7 DEF SidecarNext
  <1> QED
    BY <1>8 DEF Good

LEMMA FlowStep ==
  ASSUME TypeOK, SummaryNames, Sidecar, NEW s \in Scripts, Flow(s), [Next]_all
  PROVE  Flow(s)'
  <1>0. [JobsNext]_sidecar /\ job[s] \in Stages /\ HasBrowser
    BY StepRefines DEF TypeOK, Sidecar
  <1>1. CASE UNCHANGED all
    BY <1>0, <1>1, Quiet DEF all, client, sidecar
  <1>2. CASE ScriptStep(s)
    BY <1>2, OwnStep
  <1>3. ASSUME NEW t \in Scripts \ {s}, ScriptStep(t) PROVE Flow(s)'
    <2>1. at'[s] = at[s] /\ job'[s] = job[s] /\ summary'[s] = summary[s]
      BY <1>3, ClientStep DEF TypeOK
    <2> QED
      BY <1>0, <1>3, <2>1, OtherStep, Quiet
  <1>4. CASE SidecarNext /\ UNCHANGED client
    BY <1>0, <1>4, SidecarQuiet, Quiet DEF client
  <1> QED
    BY <1>1, <1>2, <1>3, <1>4 DEF Next

LEMMA FlowAlways == Spec => [](\A s \in Scripts : Flow(s))
  <1>1. Init => \A s \in Scripts : Flow(s)
    <2> SUFFICES ASSUME Init, NEW s \in Scripts PROVE Flow(s)
      OBVIOUS
    <2>1. /\ at[s] = "start" /\ \A x \in Stages : <<s, x>> \in Runs /\ phase[<<s, x>>] = "idle"
                                                  /\ browser[<<s, x>>] = "none"
          /\ releasing[s] = None
      BY Requests DEF Init, JobsInit, Stages
    <2> QED
      BY <2>1, Order DEF Flow, Asked, NotBegun, InTurn, HasAnswer, HasJob, OneByOne, OneWindow,
                         OwnWindow, LeavesNothing
  <1>2. ASSUME TypeOK, SummaryNames, Sidecar, \A s \in Scripts : Flow(s), [Next]_all
        PROVE  (\A s \in Scripts : Flow(s))'
    BY <1>2, FlowStep
  <1>3. TypeOK /\ HasBrowser /\ UnderItsId /\ (\A r \in Runs : Keeps(r)) /\ (\A r \in Runs : Answers(r))
          => Sidecar
    BY DEF Sidecar, TypeOK
  <1> QED
    BY <1>1, <1>2, <1>3, Typed, ImplementsJobs, HasBrowserAlways, UnderItsIdAlways, KeepsAlways,
       AnswersAlways,        PTL DEF Spec

\* A summary that says no runtime is retained leaves no window open, but for a browser
\* that started before its launch failed, and then it is a failed one.  It does not hold of
\* the job it names alone: a window kept by an earlier contract makes the later jobs fail
\* at launch, and those report the window they would have kept.
THEOREM NothingIsLeftOpen == Spec => []NothingLeftOpen
  <1>1. (\A s \in Scripts : Flow(s)) => NothingLeftOpen
    BY DEF Flow, LeavesNothing, NothingLeftOpen, Opened
  <1> QED
    BY <1>1, FlowAlways, PTL
=============================================================================

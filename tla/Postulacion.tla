----------------------------- MODULE Postulacion -----------------------------
(***************************************************************************)
(* The script that files a taxpayer's application with DGII through the    *)
(* sidecar: run_postulacion_emisor_flow, composed with BrowserJobs and     *)
(* with the other clients the sidecar has.  Executions of the script share *)
(* the context file, of which each save writes the whole, and may share a  *)
(* profile.  A step of the script may go on only while its copy of the     *)
(* file has no active error, so the states of the steps before it, which   *)
(* it has just set, decide nothing and are left out.                       *)
(***************************************************************************)
EXTENDS BrowserJobs, Sequences

CONSTANTS
  Scripts,    \* executions of the script
  Settings,   \* the environment each runs with
  Others,     \* runs other clients ask for
  Menu,       \* what they ask for
  Mixes       \* which scripts and other runs may come together

Stages == {"api", "fe", "upload"}
Codes  == {"ENV_CHECK_FAILED", "GENERATE_XML_FAILED", "XML_NOT_FOUND", "SIGNING_FAILED",
           "UPLOAD_FAILED"}

\* run_browser_job gives each job an id of its own.
ASSUME ScriptsAssumption ==
  /\ Settings \in [Scripts -> [contracts : {<<"api", "fe">>, <<"api">>, <<"fe">>},
                     session_dir : Profiles, headless : BOOLEAN,
                     keep_browser_open_on_failure : BOOLEAN, keep_session_open : BOOLEAN]]
  /\ Scripts \X Stages \subseteq Runs /\ Scripts \subseteq Releases
  /\ \A r \in Scripts \X Stages : Alone(r)
  /\ Others \subseteq Runs \ (Scripts \X Stages) /\ Menu \subseteq JobRequest
  /\ Mixes \subseteq SUBSET (Scripts \cup Others)

VARIABLES
  actors,     \* the scripts and other runs there are
  at,         \* where each script is
  job,        \* the stage whose job it waits for or has had last
  errors,     \* active errors of the context file
  summary     \* of each script that has written one: what it says of the runtime

client == <<actors, at, job, errors, summary>>
all    == <<sidecar, client>>

Summary == [status : {"none", "failed", "waiting_human", "completed"},
            runtime_job : (Scripts \X Stages) \cup {None}, runtime_retained : BOOLEAN]

Init ==
  /\ JobsInit /\ actors \in Mixes
  /\ at = [s \in Scripts |-> "start"] /\ job = [s \in Scripts |-> "api"]
  /\ errors = {}
  /\ summary = [s \in Scripts |-> [status |-> "none", runtime_job |-> None, runtime_retained |-> FALSE]]

----------------------------------------------------------------------------
\* Helpers of the script.

Step(s, from, to) ==
  s \in actors /\ at[s] = from /\ at' = [at EXCEPT ![s] = to] /\ UNCHANGED actors

\* keep_browser_open_on_failure is never set on a headless run.
JobFor(s, stage) ==
  LET env == Settings[s] IN
    [profile |-> env.session_dir, headless |-> env.headless, queued |-> FALSE,
     keepOpenOnFailure |-> env.keep_browser_open_on_failure /\ ~env.headless,
     keepOpenOnSuccess |-> stage = "upload" /\ env.keep_session_open]

run_browser_job(s, stage) ==
  runSync(<<s, stage>>, JobFor(s, stage)) /\ job' = [job EXCEPT ![s] = stage]

Answered(s, status) == phase[<<s, job[s]>>] = "over" /\ answer[<<s, job[s]>>] = status

\* set_step_state saves the script's copy of the context, which had no error when it
\* was loaded and has none before add_error.
Saves(E) == errors' = E

\* The summary names the job the script had last.
_persist_outputs(s, status, runtime_retained) ==
  summary' = [summary EXCEPT ![s] =
    [status |-> status, runtime_job |-> <<s, job[s]>>, runtime_retained |-> runtime_retained]]

----------------------------------------------------------------------------
\* The script.

\* --resolve-active-errors.
resolve_active_errors(s) ==
  /\ Step(s, "start", "resolved") /\ Saves({})
  /\ UNCHANGED <<sidecar, job, summary>>

\* The context is loaded and the environment checked; S1 is refused when the context
\* has an active error, and the state of S0 is saved even then.
Refused(s) ==
  /\ \E from \in {"start", "resolved"} : Step(s, from, "raised")
  /\ \/ Saves(errors \cup {<<s, "ENV_CHECK_FAILED">>})
     \/ errors # {} /\ Saves(errors)
  /\ UNCHANGED <<sidecar, job, summary>>

Begin(s) ==
  /\ \E from \in {"start", "resolved"} : Step(s, from, "generate")
  /\ errors = {} /\ Saves({})
  /\ run_browser_job(s, Settings[s].contracts[1]) /\ UNCHANGED summary

\* The job of the first contract failed, and there is another one.
NextContract(s) ==
  /\ Step(s, "generate", "generate") /\ Answered(s, "failed")
  /\ job[s] = "api" /\ Len(Settings[s].contracts) = 2
  /\ run_browser_job(s, "fe") /\ UNCHANGED <<errors, summary>>

GenerateFailed(s) ==
  /\ Step(s, "generate", "ended") /\ Answered(s, "failed")
  /\ job[s] = Settings[s].contracts[Len(Settings[s].contracts)]
  /\ Saves({<<s, "GENERATE_XML_FAILED">>}) /\ _persist_outputs(s, "failed", retains[<<s, job[s]>>])
  /\ UNCHANGED <<sidecar, job>>

XmlNotFound(s) ==
  /\ Step(s, "generate", "raised") /\ Answered(s, "completed")
  /\ Saves({<<s, "XML_NOT_FOUND">>}) /\ UNCHANGED <<sidecar, job, summary>>

Generated(s) ==
  /\ Step(s, "generate", "sign") /\ Answered(s, "completed")
  /\ Saves({}) /\ UNCHANGED <<sidecar, job, summary>>

\* A confirmation is not given on both channels.
NotConfirmed(s) ==
  /\ \E from \in {"sign", "confirm"} : Step(s, from, "ended")
  /\ Saves({}) /\ _persist_outputs(s, "waiting_human", retains[<<s, job[s]>>]) /\ UNCHANGED <<sidecar, job>>

SigningFailed(s) ==
  /\ Step(s, "sign", "ended")
  /\ Saves({<<s, "SIGNING_FAILED">>}) /\ _persist_outputs(s, "failed", retains[<<s, job[s]>>])
  /\ UNCHANGED <<sidecar, job>>

Signed(s) ==
  /\ Step(s, "sign", "confirm") /\ Saves({}) /\ UNCHANGED <<sidecar, job, summary>>

Upload(s) ==
  /\ Step(s, "confirm", "upload") /\ Saves({})
  /\ run_browser_job(s, "upload") /\ UNCHANGED summary

\* With keep_session_open the script leaves the window to the operator; else it
\* releases one that is reported as retained.
Uploaded(s) ==
  /\ \E status \in {"completed", "failed"} :
       /\ Answered(s, status)
       /\ Saves(IF status = "failed" THEN {<<s, "UPLOAD_FAILED">>} ELSE {})
       /\ IF retains[<<s, "upload">>] /\ ~Settings[s].keep_session_open
            THEN Step(s, "upload", "release") /\ UNCHANGED summary
            ELSE Step(s, "upload", "ended") /\ _persist_outputs(s, status, retains[<<s, "upload">>])
  /\ UNCHANGED <<sidecar, job>>

_release_retained_runtime(s) ==
  /\ Step(s, "release", "releasing") /\ releaseRetainedRuntime(s, JobOf[<<s, "upload">>])
  /\ UNCHANGED <<job, errors, summary>>

\* The sidecar has closed the window.
ReleaseAnswered(s) ==
  /\ Step(s, "releasing", "ended") /\ Released(s)
  /\ _persist_outputs(s, answer[<<s, "upload">>], FALSE) /\ UNCHANGED <<job, errors>>

ReleasedAnyway(s) ==
  /\ \E from \in {"release", "releasing"} : Step(s, from, "ended")
  /\ _persist_outputs(s, answer[<<s, "upload">>], FALSE) /\ UNCHANGED <<sidecar, job, errors>>

\* The sidecar has no such window, or the call fails or times out.
NotReleased(s) ==
  /\ \E from \in {"release", "releasing"} : Step(s, from, "ended")
  /\ _persist_outputs(s, answer[<<s, "upload">>], TRUE) /\ UNCHANGED <<sidecar, job, errors>>

\* The answer does not come in time, the sidecar dies, or the operator stops the
\* script: it ends without summary.
Raises(s) ==
  /\ \E from \in {"resolved", "generate", "sign", "confirm", "upload", "release", "releasing"} :
       Step(s, from, "raised")
  /\ UNCHANGED <<sidecar, job, errors, summary>>

ScriptStep(s) ==
  \/ resolve_active_errors(s) \/ Refused(s) \/ Begin(s) \/ NextContract(s) \/ GenerateFailed(s)
  \/ XmlNotFound(s) \/ Generated(s) \/ NotConfirmed(s) \/ SigningFailed(s) \/ Signed(s)
  \/ Upload(s) \/ Uploaded(s) \/ _release_retained_runtime(s) \/ ReleaseAnswered(s)
  \/ NotReleased(s) \/ Raises(s)

\* The job ids other clients know: their own, and those in the summaries.
Known == {JobOf[r] : r \in Others} \cup
         {JobOf[summary[s].runtime_job] : s \in {x \in Scripts : summary[x].status # "none"}}

\* Other clients, and the sidecar itself, but for a release a script waits for.
SidecarNext ==
  \/ \E r \in Runs : RunStep(r) \/ CloseWindow(r)
  \/ \E d \in Releases : (d \in Scripts => at[d] # "releasing") /\ Released(d)
  \/ Crash
  \/ \E r \in Others \cap actors, q \in Menu : runSync(r, q)
  \/ \E d \in Releases \ Scripts, j \in Known : releaseRetainedRuntime(d, j)
  \/ \E l \in Listeners, j \in Known : Listen(l, j)

Next ==
  \/ \E s \in Scripts : ScriptStep(s)
  \/ SidecarNext /\ UNCHANGED client

Spec == Init /\ [][Next]_all

\* The timeouts of the browser and of the scenarios end every run.
Fairness == \A r \in Runs : WF_all(RunStep(r) /\ UNCHANGED client)
FairSpec == Spec /\ Fairness

----------------------------------------------------------------------------
\* Properties.

\* Every variable holds a value of its kind.
TypeOK ==
  /\ JobsTypeOK /\ actors \in Mixes
  /\ at \in [Scripts -> {"start", "resolved", "generate", "sign", "confirm", "upload", "release",
                         "releasing", "ended", "raised"}]
  /\ job \in [Scripts -> Stages] /\ errors \subseteq Scripts \X Codes
  /\ summary \in [Scripts -> Summary]

\* A summary that says no runtime is retained leaves no window open, of the job it
\* names or of an earlier contract's.  The exception is a failed one: a launch may have
\* failed after its browser had started, which then runs on and is reported by nobody.  A
\* summary that is completed, or waits for a person, leaves no such browser either.
NothingLeftOpen ==
  \A s \in Scripts : at[s] = "ended" /\ ~summary[s].runtime_retained =>
    \A stage \in Stages : <<s, stage>> \in Opened =>
      browser[<<s, stage>>] = "leaked" /\ summary[s].status = "failed"
=============================================================================

---------------------------- MODULE MCPostulacion ----------------------------
(* Instances of Postulacion for TLC. *)
EXTENDS Postulacion

CONSTANTS s1, s2, x1, x2, d1, p1

MCRuns == (Scripts \X Stages) \cup Others

\* The jobs of the scripts have ids of their own; those of other clients share one.
MCJobOf  == [r \in MCRuns |-> IF r \in Others THEN d1 ELSE r]
MCJobIds == (Scripts \X Stages) \cup {d1}

\* Both scripts use one profile: one tries both contracts and closes its session,
\* the other leaves it to the operator.
MCSettings ==
  [s \in Scripts |->
    [contracts |-> IF s = s1 THEN <<"api", "fe">> ELSE <<"api">>,
     session_dir |-> p1, headless |-> FALSE,
     keep_browser_open_on_failure |-> s = s1, keep_session_open |-> s # s1]]

MCMenu == {[profile |-> p1, headless |-> FALSE, queued |-> TRUE,
            keepOpenOnFailure |-> FALSE, keepOpenOnSuccess |-> TRUE]}

\* A script beside another one, or beside a job; two jobs of one id.
MCMixes == {{s1, s2}, {s1, x1}, {x1, x2}}

MCReleases == Scripts \cup {d1}
=============================================================================

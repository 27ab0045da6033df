----------------------- MODULE MCCertificateWorkflow -----------------------
(* Instances of CertificateWorkflow for TLC. *)
EXTENDS CertificateWorkflow, TLC

CONSTANTS c1, c2, c3, t1, t2, s1, r1, r2, w1, q1

StartsAt(status, secret, t) ==
  [row |-> [status |-> status, secret_ref |-> secret], track |-> t]
Waits  == StartsAt("READY_FOR_DGII", "stored", t1)
Silent == StartsAt("READY_FOR_DGII", "stored", None)

\* Two cases are ready: one has filed a document and one has not.
TwoReady == (c1 :> Waits) @@ (c2 :> Silent)

\* The silent one is older.
SilentFirst == <<c2, c1>>

\* And a third is not known yet.
OneComes == TwoReady @@ (c3 :> StartsAt("absent", "none", None))

MailForFirst == (1 :> c1) @@ (2 :> None)
NoMail       == <<>>
AnyRequest   == [q \in Requests |-> Kinds]
OneWorker    == [q \in Requests |-> w1]
=============================================================================

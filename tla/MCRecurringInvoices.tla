------------------------ MODULE MCRecurringInvoices ------------------------
(* Instances of RecurringInvoices for TLC. *)
EXTENDS RecurringInvoices, TLC

CONSTANTS s1, s2, t1, t2, b1, b2, u1, u2

OneTenant  == [s \in Schedules |-> t1]
TwoTenants == (s1 :> t1) @@ (s2 :> t2)

\* The batches are alike, and so are the schedules, each with its tenant.
Swapped == (s1 :> s2) @@ (s2 :> s1) @@ (t1 :> t2) @@ (t2 :> t1)
Same    == [x \in {s1, s2, t1, t2} |-> x]
Alike   == {p @@ q : p \in Permutations(Batches), q \in {Same, Swapped}}
=============================================================================

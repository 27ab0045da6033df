--------------------------- MODULE MCNcfSequence ---------------------------
(* Instances of NcfSequence for TLC. *)
EXTENDS NcfSequence, TLC

CONSTANTS k1, k2, k3, g1, g2, g3, c1, c2, c3, t1, t2, w1, w2, d1, d2, e31

\* Three tenants with the same type of document: the sequence of the first serves the
\* generate requests, that of the second most requests that lock it, the third only t2.
SameType == [k \in Keys |-> e31]
Apart    == [r \in Requests |-> IF r \in Generates THEN k1 ELSE IF r = t2 THEN k3 ELSE k2]

\* The generate requests on one worker, or one of them on another.
OneWorker  == [r \in Generates \cup Transmits |-> IF r = t2 THEN w2 ELSE w1]
TwoWorkers == [r \in Generates \cup Transmits |-> IF r = g2 THEN w2 ELSE w1]

\* A client of the tenant API names number 2 itself.
SomeChosen == [r \in Allocating |-> IF r = c3 THEN 2 ELSE None]
EachOwn    == [t \in Transmits |-> IF t = t1 THEN d1 ELSE d2]

\* Requests that differ in name only.
Alike == Permutations({g1, g2}) \cup Permutations({c1, c2})
=============================================================================

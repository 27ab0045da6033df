------------------------- MODULE MCFiscalOperation -------------------------
(* Instances of FiscalOperation for TLC. *)
EXTENDS FiscalOperation, TLC

CONSTANTS o1, o2, w1, w2, s1, s2, r1, r2, e1, e2

\* Each operation has a document number of its own.
OwnNumber == (o1 :> e1)
\* Two documents, one tenant each, that carry the same number.
SharedNumber == (o1 :> e1) @@ (o2 :> e1)

\* Workers, submissions and the documents of one number are alike.
Alike ==
  {w @@ s @@ o : w \in Permutations(Workers), s \in Permutations(Submits), o \in Permutations(Ops)}
=============================================================================

----------------------------- MODULE MCAdmission -----------------------------
(* Finite instances of Admission: named callers of each kind.              *)
EXTENDS Admission

CONSTANTS h1, h2, h3, e1, e2
=============================================================================

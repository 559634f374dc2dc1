---------------------------- MODULE MCEnrollment ----------------------------
(* Instances of Enrollment for TLC. *)
EXTENDS Enrollment, TLC

CONSTANTS e1, e2, i1, i2

OneEdge  == e1 :> i1
TwoEdges == e1 :> i1 @@ e2 :> i2
=============================================================================

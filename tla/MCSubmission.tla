---------------------------- MODULE MCSubmission ----------------------------
(* TLC instances of Submission.                                             *)
EXTENDS Submission

CONSTANTS c1, c2, w1, w2, n1, n2
=============================================================================

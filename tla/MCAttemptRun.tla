---------------------------- MODULE MCAttemptRun ----------------------------
(* TLC instances of AttemptRun.                                             *)
EXTENDS AttemptRun
=============================================================================

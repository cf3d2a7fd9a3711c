------------------------ MODULE MCCallbackDelivery ------------------------
(* TLC instances of CallbackDelivery.  Liveness is checked in the same run,  *)
(* so rows and callbackers are not declared symmetric.                      *)
EXTENDS CallbackDelivery

CONSTANTS c1, c2, r1, r2
=============================================================================

----------------------------- MODULE MCServer ------------------------------
(* A finite instance of Server for TLC.                                    *)
EXTENDS Server, TLC

CONSTANTS c1, c2

(* The first client sends several requests, the second one is in its way.  *)
Unequal == c1 :> 2 @@ c2 :> 1

(* Two that differ in their answer, of which one asks to close, and one    *)
(* that is broken.                                                         *)
SomeRequests == {[resource |-> "known", keep_alive |-> TRUE],
                 [resource |-> "unknown", keep_alive |-> FALSE],
                 Malformed}
=============================================================================

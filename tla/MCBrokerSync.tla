---------------------------- MODULE MCBrokerSync ----------------------------
(* Instances of BrokerSync for TLC. *)
EXTENDS BrokerSync, TLC

CONSTANTS q1, q2, q3, home, none

TwoRequests == {q1, q2}
ThreeRequests == {q1, q2, q3}
\* A Flex statement may tell only the day.
Seconds == 1 :> 1 @@ 2 :> 2
Day     == 1 :> 1 @@ 2 :> 1
SecondsAndDay == "session" :> Seconds @@ "flex" :> Day
RequestSymmetry == Permutations(Requests)
=============================================================================

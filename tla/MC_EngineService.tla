-------------------------- MODULE MC_EngineService --------------------------
(***************************************************************************)
(* Values for the constants of EngineService.  Ids <<1, 0>> and <<1, 1>>   *)
(* share a millisecond, <<2, 0>> starts the next one with a smaller        *)
(* sequence number: both halves of the version comparison matter.          *)
(***************************************************************************)
EXTENDS EngineService

CONSTANTS u1, u2

TwoIds   == {<<1, 1>>, <<2, 0>>}
ThreeIds == {<<1, 0>>, <<1, 1>>, <<2, 0>>}

\* A running engine, and an idle one that shows another access key.
TwoKeys == {[uuid |-> u1, running |-> TRUE], [uuid |-> u2, running |-> FALSE]}

\* A running engine, and an idle one that shows none.
KeyOrNone == {[uuid |-> u1, running |-> TRUE], [uuid |-> NoUuid, running |-> FALSE]}

OnlyRunning == {[uuid |-> u1, running |-> TRUE]}
=============================================================================

-------------------------- MODULE MC_EventsService --------------------------
(***************************************************************************)
(* Values for the constants of EventsService: two entries whose ids share  *)
(* a millisecond, in three streams: an engine appears and dies, a second   *)
(* engine appears, or an entry of a third kind follows.  Failures let the  *)
(* entries be handled in either order.                                     *)
(***************************************************************************)
EXTENDS EventsService

CONSTANTS u1, e1, e2

TwoIds == {<<1, 0>>, <<1, 1>>}

InOrder == <<<<1, 0>>, <<1, 1>>>>

OnlyRunning == {[uuid |-> u1, running |-> TRUE]}

Hset(e) == [event |-> "hset", engine |-> e, data |-> [uuid |-> u1, running |-> TRUE]]

Other(e) == [event |-> "other", engine |-> e]

Expired(e) == [event |-> "expired", engine |-> e]

TwoContents ==
    {[id \in TwoIds |-> IF id = <<1, 0>> THEN Hset(e1) ELSE second] :
        second \in {Expired(e1), Hset(e2), Other(e1)}}
=============================================================================

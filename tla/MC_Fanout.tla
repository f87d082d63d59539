----------------------------- MODULE MC_Fanout -----------------------------
(***************************************************************************)
(* Values for the constants of Fanout: one record that both subscriptions  *)
(* want.  s1 exists from the beginning, s2 comes and goes.                 *)
(***************************************************************************)
EXTENDS Fanout

CONSTANTS r1, s1, s2

BothWanted == [r \in {r1} |-> {s1, s2}]
=============================================================================

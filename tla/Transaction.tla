---------------------------- MODULE Transaction ----------------------------
(***************************************************************************)
(* What a unit of work promises to the code in its body                    *)
(* (app/infra/database/uows/base.py, `async with uow.begin(with_tx=True)'): *)
(* all of the body's statements take effect at one moment, or none ever    *)
(* does, and the caller is not told a falsehood about which it was.        *)
(***************************************************************************)
CONSTANT Units

VARIABLES
    effect,    \* [Units -> "open", "committed" or "aborted"]
    answer     \* [Units -> "none", "ok", "error" or "unknown"]

vars == <<effect, answer>>

Init ==
    /\ effect = [u \in Units |-> "open"]
    /\ answer = [u \in Units |-> "none"]

Decide(u, outcome) ==
    /\ effect[u] = "open"
    /\ effect' = [effect EXCEPT ![u] = outcome]

\* `async with' is left normally only after a commit, with the body's error only
\* when nothing of the body took effect.  An error of the commit itself, or a
\* cancellation, leaves the caller in the dark.
Tell(u, what) ==
    /\ answer[u] = "none"
    /\ what = "ok" => effect'[u] = "committed"
    /\ what = "error" => effect'[u] = "aborted"
    /\ answer' = [answer EXCEPT ![u] = what]

Next == \E u \in Units :
    /\ UNCHANGED effect \/ \E o \in {"committed", "aborted"} : Decide(u, o)
    /\ UNCHANGED answer \/ \E a \in {"ok", "error", "unknown"} : Tell(u, a)

Spec == Init /\ [][Next]_vars
=============================================================================

--------------------------- MODULE CommandEffect ---------------------------
(* What a command with an idempotency key promises: an operator asks for   *)
(* it, it takes effect at most once, and the operator is told so only      *)
(* after it has.  It may also never take effect, and never be told.        *)
EXTENDS Naturals

CONSTANT Keys

VARIABLES
    asked,      \* commands that have been sent at least once
    applied,    \* how often each took effect
    told        \* commands whose success was answered

vars == <<asked, applied, told>>

Ask(k) == asked' = asked \cup {k} /\ UNCHANGED <<applied, told>>

Apply(k) ==
    /\ k \in asked /\ applied[k] = 0
    /\ applied' = [applied EXCEPT ![k] = 1]
    /\ UNCHANGED <<asked, told>>

Tell(k) ==
    /\ applied[k] = 1
    /\ told' = told \cup {k}
    /\ UNCHANGED <<asked, applied>>

Init == asked = {} /\ applied = [k \in Keys |-> 0] /\ told = {}

Next == \E k \in Keys : Ask(k) \/ Apply(k) \/ Tell(k)

Spec == Init /\ [][Next]_vars
=============================================================================

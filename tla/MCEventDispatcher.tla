------------------------- MODULE MCEventDispatcher -------------------------
(* A blocking caller, a stopping thread with a locator to shut down, one   *)
(* posted job, a timed job of delay 0 and two timers on a clock of 0..2.   *)
EXTENDS EventDispatcher, TLC

CONSTANTS c1, s1, p1, t0, t1, t2

MCTimed == {t0, t1, t2}
MCDelay == (t0 :> 0) @@ (t1 :> 1) @@ (t2 :> 2)
MCNoDelay == [t \in {} |-> 0]
=============================================================================

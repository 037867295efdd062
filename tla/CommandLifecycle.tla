-------------------------- MODULE CommandLifecycle --------------------------
(***************************************************************************)
(* What a TCF channel promises to the caller of a remote command           *)
(* (Token.cancel and Command.done in src/chipscopy/tcf/channel): a command *)
(* that was issued is settled once, by one completion or by a cancel that  *)
(* succeeded, and nothing follows.                                         *)
(***************************************************************************)
CONSTANT Cmds

VARIABLE phase

Init == phase = [c \in Cmds |-> "new"]

Issue(c) ==
    /\ phase[c] = "new"
    /\ phase' = [phase EXCEPT ![c] = "pending"]

Cancel(c) ==
    /\ phase[c] = "pending"
    /\ phase' = [phase EXCEPT ![c] = "canceled"]

(* The end of a channel completes all its commands together.               *)
Complete(S) ==
    /\ \A c \in S : phase[c] = "pending"
    /\ phase' = [c \in Cmds |-> IF c \in S THEN "done" ELSE phase[c]]

Next ==
    \/ \E c \in Cmds : Issue(c) \/ Cancel(c)
    \/ \E S \in SUBSET Cmds : Complete(S)

Spec == Init /\ [][Next]_phase

Settled(c) == phase[c] \in {"done", "canceled"}
=============================================================================

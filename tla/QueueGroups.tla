----------------------------- MODULE QueueGroups -----------------------------
(***************************************************************************)
(* What a queue group promises (dm.Node.queue_group): the requests of one  *)
(* group are handled one after the other, in the order they joined it.     *)
(***************************************************************************)
EXTENDS Sequences

CONSTANTS Reqs, Groups, GroupOf

VARIABLES
    line,       \* the requests of each group that are not done, oldest first
    phase       \* what has become of each request

Init ==
    /\ line = [g \in Groups |-> <<>>]
    /\ phase = [r \in Reqs |-> "new"]

Join(r) ==
    /\ phase[r] = "new"
    /\ line' = [line EXCEPT ![GroupOf[r]] = Append(@, r)]
    /\ phase' = [phase EXCEPT ![r] = "queued"]

IsFirst(r) == line[GroupOf[r]] # <<>> /\ Head(line[GroupOf[r]]) = r

Start(r) ==
    /\ phase[r] = "queued"
    /\ IsFirst(r)
    /\ phase' = [phase EXCEPT ![r] = "running"]
    /\ UNCHANGED line

(* A request ends by its answer, or before it starts by a failure.         *)
Finish(r) ==
    /\ phase[r] \in {"queued", "running"}
    /\ IsFirst(r)
    /\ line' = [line EXCEPT ![GroupOf[r]] = Tail(@)]
    /\ phase' = [phase EXCEPT ![r] = "done"]

(* A request whose group is free may join and start, or join and fail, in  *)
(* one step; one that finds no node fails without joining.                 *)
JoinAndStart(r) ==
    /\ phase[r] = "new"
    /\ line[GroupOf[r]] = <<>>
    /\ line' = [line EXCEPT ![GroupOf[r]] = <<r>>]
    /\ phase' = [phase EXCEPT ![r] = "running"]

Fail(r) ==
    /\ phase[r] = "new"
    /\ phase' = [phase EXCEPT ![r] = "done"]
    /\ UNCHANGED line

Next == \E r \in Reqs : Join(r) \/ Start(r) \/ Finish(r) \/ JoinAndStart(r) \/ Fail(r)

vars == <<line, phase>>

Spec == Init /\ [][Next]_vars
=============================================================================

---------------------------- MODULE RequestQueue ----------------------------
(***************************************************************************)
(* Requests on the nodes of a context manager (src/chipscopy/dm/request.py) *)
(* and the queue of each node: CsRequestSync, whose caller waits on a      *)
(* condition, and CsFutureRequestSync, whose caller waits on an event and  *)
(* cancels the request on its own thread when the wait times out.          *)
(*                                                                         *)
(* The node of a request is its queue group.  The function a request runs  *)
(* either sends one command, or returns or raises at once.  A command may  *)
(* hold a pending token of the node, and its answer goes to the done_run   *)
(* of the request that sent it, or, for the functions in UsesSelf, to the  *)
(* request found in node.request when the answer arrives.                  *)
(*                                                                         *)
(* events is the part of the dispatcher's queue that belongs to requests.  *)
(* A callback on the dispatch thread is one step; a time-out of a future   *)
(* on the caller's thread is five, and callbacks may run between them: a   *)
(* queue has no lock.                                                      *)
(* An operator marked Faulty is a variant with a mistake in it, which no   *)
(* specification uses.                                                     *)
(***************************************************************************)
EXTENDS Integers, SequencesExt, FiniteSets

CONSTANTS
    Reqs,           \* requests; each is called once
    Nodes,          \* contexts
    NodeOf,         \* the context a request names
    Futures,        \* the requests that are CsFutureRequestSync
    UsesSelf,       \* futures whose function completes node.request
    HoldsPending,   \* requests whose command holds a pending token
    Picky,          \* requests whose node class the context may not fit
    Timeouts,       \* requests whose caller waits with a timeout
    Removable,      \* contexts that may be removed
    MaxGen,         \* bound on how often a context is added again
    MaxBusy,        \* bound on the disturbances of manager and nodes
    NoReq, NoObj, Env

ASSUME RequestAssumption ==
    /\ NodeOf \in [Reqs -> Nodes]
    /\ UsesSelf \subseteq Futures /\ Futures \subseteq Reqs
    /\ HoldsPending \subseteq Reqs /\ Picky \subseteq Reqs /\ Timeouts \subseteq Reqs
    /\ Removable \subseteq Nodes
    /\ MaxGen \in Nat /\ MaxBusy \in Nat
    /\ NoReq \notin Reqs /\ Env \notin Reqs /\ NoObj \notin Nodes \X (0 .. MaxGen)
    /\ {"none", "error", "cancel"} \cap Reqs = {}

VARIABLES
    deq,        \* RequestQueue.deq of each node
    joined,     \* requests whose request_queue is set
    events,     \* posted to the dispatch thread: invocations and answers
    delayed,    \* requests with an _invoke in the 1 ms timer, two as one
    reqNode,    \* the node object of each request, from its start
    result,     \* _result and _error: "none", "error", "cancel" or whose answer
    dones,      \* history: calls of the done callback
    started,    \* history: requests that were started, in order
    executing,  \* commands the server is working on
    caller,     \* where the calling thread of each request is
    mgrReady,   \* CsManager.is_ready
    present,    \* contexts the manager has a node for
    gen,        \* which node object of the context that is
    pend,       \* Node.pending of each node object
    nodeReq,    \* Node.request of each node object
    busy        \* disturbances so far

envVars == <<mgrReady, present, gen, busy>>
vars == <<deq, joined, events, delayed, reqNode, result, dones, started, executing,
          caller, envVars, pend, nodeReq>>

Objs == Nodes \X (0 .. MaxGen)
Obj(n) == <<n, gen[n]>>

CallerStates ==
    {"idle", "waiting", "returned", "timedout", "expired", "canceling", "leaving", "posting", "raised"}

Evt(k, r) == [kind |-> k, req |-> r]

Init ==
    /\ deq = [n \in Nodes |-> <<>>] /\ joined = {}
    /\ events = <<>> /\ delayed = {}
    /\ reqNode = [r \in Reqs |-> NoObj]
    /\ result = [r \in Reqs |-> "none"] /\ dones = [r \in Reqs |-> 0]
    /\ started = <<>> /\ executing = {}
    /\ caller = [r \in Reqs |-> "idle"]
    /\ mgrReady = TRUE /\ present = Nodes /\ gen = [n \in Nodes |-> 0] /\ busy = 0
    /\ pend = [o \in Objs |-> {}]
    /\ nodeReq = [o \in Objs |-> NoReq]

(* __call__ on a user thread: post _invoke and wait.  CsRequestSync holds  *)
(* its condition from the post to the wait, so no notify comes in between. *)
Call(r) ==
    /\ caller[r] = "idle"
    /\ caller' = [caller EXCEPT ![r] = "waiting"]
    /\ events' = Append(events, Evt("invoke", r))
    /\ UNCHANGED <<deq, joined, delayed, reqNode, result, dones, started, executing, envVars, pend, nodeReq>>

-----------------------------------------------------------------------------
(* Faulty: the next request is not posted.                                 *)
DoneRequestNoPost(r, q, rest) ==
    /\ deq' = [deq EXCEPT ![NodeOf[r]] = RemoveFirst(q, r)]
    /\ events' = rest

(* RequestQueue.done_request of a request that is in the queue q of its    *)
(* node: it leaves, and the new head is posted behind what is posted.      *)
DoneRequest(r, q, rest) ==
    LET left == RemoveFirst(q, r)
    IN  /\ deq' = [deq EXCEPT ![NodeOf[r]] = left]
        /\ events' = IF left = <<>> THEN rest ELSE Append(rest, Evt("invoke", Head(left)))

Completed(r) == caller' = [caller EXCEPT ![r] = IF @ = "waiting" THEN "returned" ELSE @]

(* Faulty: the queue is not left.                                          *)
RequestDoneKeepsQueue(r, a, q, rest) ==
    /\ deq' = [deq EXCEPT ![NodeOf[r]] = q]
    /\ events' = rest
    /\ result' = [result EXCEPT ![r] = a]
    /\ dones' = [dones EXCEPT ![r] = @ + 1]
    /\ Completed(r)

(* Faulty: the answer is not passed on.                                    *)
RequestDoneNoAnswer(r, a, q, rest) ==
    /\ IF r \in ToSet(q) THEN DoneRequest(r, q, rest) ELSE UNCHANGED deq /\ events' = rest
    /\ result' = [result EXCEPT ![r] = NoReq]
    /\ dones' = [dones EXCEPT ![r] = @ + 1]
    /\ Completed(r)

(* CsRequest.done_run with DoneSync: leave the queue if it was joined,     *)
(* then run the done callback, which wakes the caller.                     *)
RequestDone(r, a, q, rest) ==
    /\ IF r \in ToSet(q) THEN DoneRequest(r, q, rest) ELSE UNCHANGED deq /\ events' = rest
    /\ result' = [result EXCEPT ![r] = a]
    /\ dones' = [dones EXCEPT ![r] = @ + 1]
    /\ Completed(r)

(* Faulty: the queue is not left.                                          *)
FutureDoneKeepsQueue(r, a, o, q, rest) ==
    /\ result' = [result EXCEPT ![r] = a]
    /\ dones' = [dones EXCEPT ![r] = @ + 1]
    /\ deq' = [deq EXCEPT ![NodeOf[r]] = q]
    /\ events' = rest
    /\ IF o = NoObj THEN UNCHANGED nodeReq ELSE nodeReq' = [nodeReq EXCEPT ![o] = NoReq]
    /\ Completed(r)

(* CsFutureRequestSync._invoke_done on the dispatch thread, o the node     *)
(* object of the request.  Without one, self.node.request raises and the   *)
(* rest is skipped; a request that has left the queue raises in remove.    *)
FutureDone(r, a, o, q, rest) ==
    /\ result' = [result EXCEPT ![r] = a]
    /\ dones' = [dones EXCEPT ![r] = @ + 1]
    /\ IF o = NoObj
         THEN /\ deq' = [deq EXCEPT ![NodeOf[r]] = q]
              /\ events' = rest
              /\ UNCHANGED <<nodeReq, caller>>
         ELSE /\ nodeReq' = [nodeReq EXCEPT ![o] = NoReq]
              /\ IF r \in ToSet(q)
                   THEN DoneRequest(r, q, rest) /\ Completed(r)
                   ELSE UNCHANGED <<deq, caller>> /\ events' = rest

Done(r, a, o, q, rest) ==
    IF r \in Futures THEN FutureDone(r, a, o, q, rest)
                     ELSE RequestDone(r, a, q, rest) /\ UNCHANGED nodeReq

-----------------------------------------------------------------------------
(* _invoke on the dispatch thread, one action per way out of it.           *)
Invoked(r) == events # <<>> /\ Head(events) = Evt("invoke", r)
Rest == Tail(events)

(* get_request_queue: the queue of the node with r in it.                  *)
QueueWith(r) ==
    IF r \in joined THEN deq[NodeOf[r]] ELSE Append(deq[NodeOf[r]], r)

IsFirst(r) == QueueWith(r) # <<>> /\ Head(QueueWith(r)) = r

(* Faulty: no retry is scheduled.                                          *)
ManagerBusyDrops(r) ==
    /\ Invoked(r)
    /\ ~mgrReady
    /\ events' = Rest
    /\ UNCHANGED <<deq, joined, delayed, reqNode, result, dones, started, executing, caller, envVars, pend, nodeReq>>

ManagerBusy(r) ==
    /\ Invoked(r)
    /\ ~mgrReady
    /\ delayed' = delayed \cup {r} /\ events' = Rest
    /\ UNCHANGED <<deq, joined, reqNode, result, dones, started, executing, caller, envVars, pend, nodeReq>>

NoNode(r) ==
    /\ Invoked(r)
    /\ mgrReady
    /\ NodeOf[r] \notin present
    /\ Done(r, "error", reqNode[r], deq[NodeOf[r]], Rest)
    /\ UNCHANGED <<joined, delayed, reqNode, started, executing, envVars, pend>>

Reached(r) ==
    /\ Invoked(r)
    /\ mgrReady
    /\ NodeOf[r] \in present
    /\ joined' = joined \cup {r}

(* A request is not the first, or invoked once more after it left: is_first *)
(* of an empty queue raises, and the invocation is over all the same.      *)
NotFirst(r) ==
    /\ Reached(r)
    /\ ~IsFirst(r)
    /\ deq' = [deq EXCEPT ![NodeOf[r]] = QueueWith(r)]
    /\ events' = Rest
    /\ UNCHANGED <<delayed, reqNode, result, dones, started, executing, caller, envVars, pend, nodeReq>>

NodeBusy(r) ==
    /\ Reached(r)
    /\ IsFirst(r)
    /\ pend[Obj(NodeOf[r])] # {}
    /\ deq' = [deq EXCEPT ![NodeOf[r]] = QueueWith(r)]
    /\ delayed' = delayed \cup {r} /\ events' = Rest
    /\ UNCHANGED <<reqNode, result, dones, started, executing, caller, envVars, pend, nodeReq>>

(* Faulty: Node.is_ready is not tested.                                    *)
ReadyIgnoresPending(r) ==
    /\ Reached(r)
    /\ IsFirst(r)

Ready(r) ==
    /\ Reached(r)
    /\ IsFirst(r)
    /\ pend[Obj(NodeOf[r])] = {}

WrongClass(r) ==
    /\ Ready(r)
    /\ r \in Picky
    /\ Done(r, "error", reqNode[r], QueueWith(r), Rest)
    /\ UNCHANGED <<delayed, reqNode, started, executing, envVars, pend>>

(* Faulty: is_first is not tested.                                         *)
RunAnyone(r) ==
    /\ Reached(r)
    /\ LET o == Obj(NodeOf[r])
       IN  /\ pend[o] = {}
           /\ deq' = [deq EXCEPT ![NodeOf[r]] = QueueWith(r)]
           /\ reqNode' = [reqNode EXCEPT ![r] = o]
           /\ nodeReq' = [nodeReq EXCEPT ![o] = IF r \in Futures THEN r ELSE @]
           /\ pend' = [pend EXCEPT ![o] = IF r \in HoldsPending THEN @ \cup {r} ELSE @]
    /\ executing' = executing \cup {r}
    /\ started' = Append(started, r)
    /\ events' = Rest
    /\ UNCHANGED <<delayed, result, dones, caller, envVars>>

(* The function sends its command.                                         *)
Run(r) ==
    /\ Ready(r)
    /\ LET o == Obj(NodeOf[r])
       IN  /\ deq' = [deq EXCEPT ![NodeOf[r]] = QueueWith(r)]
           /\ reqNode' = [reqNode EXCEPT ![r] = o]
           /\ nodeReq' = [nodeReq EXCEPT ![o] = IF r \in Futures THEN r ELSE @]
           /\ pend' = [pend EXCEPT ![o] = IF r \in HoldsPending THEN @ \cup {r} ELSE @]
    /\ executing' = executing \cup {r}
    /\ started' = Append(started, r)
    /\ events' = Rest
    /\ UNCHANGED <<delayed, result, dones, caller, envVars>>

(* The function raises or returns a result at once.                        *)
RunAtOnce(r) ==
    /\ Ready(r)
    /\ reqNode' = [reqNode EXCEPT ![r] = Obj(NodeOf[r])]
    /\ started' = Append(started, r)
    /\ \E a \in {"error", r} : Done(r, a, Obj(NodeOf[r]), QueueWith(r), Rest)
    /\ UNCHANGED <<delayed, executing, envVars, pend>>

(* The answer of r's command: its token leaves the pending set of the node *)
(* object it was started on, then the answer is handed over.               *)
Answered(r) ==
    /\ events # <<>> /\ Head(events) = Evt("answer", r)
    /\ pend' = [pend EXCEPT ![reqNode[r]] = @ \ {r}]
    /\ LET q == IF r \in UsesSelf THEN nodeReq[reqNode[r]] ELSE r
       IN  IF q = NoReq
             THEN events' = Rest /\ UNCHANGED <<deq, result, dones, caller, nodeReq>>
             ELSE Done(q, r, reqNode[q], deq[NodeOf[q]], Rest)
    /\ UNCHANGED <<joined, delayed, reqNode, started, executing, envVars>>

-----------------------------------------------------------------------------
(* The caller's thread when its wait times out.                            *)
RequestTimeout(r) ==
    /\ caller[r] = "waiting"
    /\ r \in Timeouts \ Futures
    /\ caller' = [caller EXCEPT ![r] = "timedout"]
    /\ UNCHANGED <<deq, joined, events, delayed, reqNode, result, dones, started, executing, envVars, pend, nodeReq>>

(* The event of a future was not set in time; the answer may still come    *)
(* before the caller looks for an error.                                   *)
FutureExpires(r) ==
    /\ caller[r] = "waiting"
    /\ r \in Timeouts \cap Futures
    /\ caller' = [caller EXCEPT ![r] = "expired"]
    /\ UNCHANGED <<deq, joined, events, delayed, reqNode, result, dones, started, executing, envVars, pend, nodeReq>>

(* An error that set no event still reaches the caller ...                 *)
FutureTimeoutError(r) ==
    /\ caller[r] = "expired"
    /\ result[r] = "error"
    /\ caller' = [caller EXCEPT ![r] = "returned"]
    /\ UNCHANGED <<deq, joined, events, delayed, reqNode, result, dones, started, executing, envVars, pend, nodeReq>>

(* ... and without one the future is cancelled, completed or not:          *)
(* CsFuture.cancel up to the done callback ...                             *)
CancelMark(r) ==
    /\ caller[r] = "expired"
    /\ result[r] # "error"
    /\ caller' = [caller EXCEPT ![r] = "canceling"]
    /\ result' = [result EXCEPT ![r] = "cancel"]
    /\ dones' = [dones EXCEPT ![r] = @ + 1]
    /\ UNCHANGED <<deq, joined, events, delayed, reqNode, started, executing, envVars, pend, nodeReq>>

(* ... and the rest of _invoke_done, with the same two ways to raise: it   *)
(* clears node.request, ...                                                *)
CancelClear(r) ==
    /\ caller[r] = "canceling"
    /\ IF reqNode[r] = NoObj
         THEN caller' = [caller EXCEPT ![r] = "raised"] /\ UNCHANGED nodeReq
         ELSE /\ caller' = [caller EXCEPT ![r] = "leaving"]
              /\ nodeReq' = [nodeReq EXCEPT ![reqNode[r]] = NoReq]
    /\ UNCHANGED <<deq, joined, events, delayed, reqNode, result, dones, started, executing, envVars, pend>>

(* ... leaves the queue ...                                                *)
CancelLeave(r) ==
    /\ caller[r] = "leaving"
    /\ IF r \in ToSet(deq[NodeOf[r]])
         THEN /\ caller' = [caller EXCEPT ![r] = "posting"]
              /\ deq' = [deq EXCEPT ![NodeOf[r]] = RemoveFirst(@, r)]
         ELSE caller' = [caller EXCEPT ![r] = "raised"] /\ UNCHANGED deq
    /\ UNCHANGED <<joined, events, delayed, reqNode, result, dones, started, executing, envVars, pend, nodeReq>>

(* ... and posts the head it finds then, which may have run meanwhile.     *)
CancelPost(r) ==
    /\ caller[r] = "posting"
    /\ caller' = [caller EXCEPT ![r] = "timedout"]
    /\ LET q == deq[NodeOf[r]]
       IN  events' = IF q = <<>> THEN events ELSE Append(events, Evt("invoke", Head(q)))
    /\ UNCHANGED <<deq, joined, delayed, reqNode, result, dones, started, executing, envVars, pend, nodeReq>>

-----------------------------------------------------------------------------
(* The 1 ms timer, the server and the manager's other work.                *)
Retry(r) ==
    /\ r \in delayed
    /\ delayed' = delayed \ {r}
    /\ events' = Append(events, Evt("invoke", r))
    /\ UNCHANGED <<deq, joined, reqNode, result, dones, started, executing, caller, envVars, pend, nodeReq>>

Answer(r) ==
    /\ r \in executing
    /\ executing' = executing \ {r}
    /\ events' = Append(events, Evt("answer", r))
    /\ UNCHANGED <<deq, joined, delayed, reqNode, result, dones, started, caller, envVars, pend, nodeReq>>

Disturb ==
    /\ busy < MaxBusy
    /\ busy' = busy + 1

ManagerPending ==
    /\ Disturb
    /\ mgrReady /\ mgrReady' = FALSE
    /\ UNCHANGED <<deq, joined, events, delayed, reqNode, result, dones, started, executing, caller, present, gen, pend, nodeReq>>

ManagerReady ==
    /\ ~mgrReady /\ mgrReady' = TRUE
    /\ UNCHANGED <<deq, joined, events, delayed, reqNode, result, dones, started, executing, caller, present, gen, busy, pend, nodeReq>>

(* A command of somebody else on the node, post_init's after an upgrade    *)
(* included.                                                               *)
NodePending(n) ==
    /\ Disturb
    /\ n \in present /\ Env \notin pend[Obj(n)]
    /\ pend' = [pend EXCEPT ![Obj(n)] = @ \cup {Env}]
    /\ UNCHANGED <<deq, joined, events, delayed, reqNode, result, dones, started, executing, caller, mgrReady, present, gen, nodeReq>>

NodeReady(n) ==
    /\ Env \in pend[Obj(n)]
    /\ pend' = [pend EXCEPT ![Obj(n)] = @ \ {Env}]
    /\ UNCHANGED <<deq, joined, events, delayed, reqNode, result, dones, started, executing, caller, envVars, nodeReq>>

RemoveNode(n) ==
    /\ Disturb
    /\ n \in present \cap Removable /\ gen[n] < MaxGen
    /\ present' = present \ {n}
    /\ UNCHANGED <<deq, joined, events, delayed, reqNode, result, dones, started, executing, caller, mgrReady, gen, pend, nodeReq>>

AddNode(n) ==
    /\ n \notin present
    /\ present' = present \cup {n}
    /\ gen' = [gen EXCEPT ![n] = @ + 1]
    /\ UNCHANGED <<deq, joined, events, delayed, reqNode, result, dones, started, executing, caller, mgrReady, busy, pend, nodeReq>>

-----------------------------------------------------------------------------
Invoke(r) ==
    ManagerBusy(r) \/ NoNode(r) \/ NotFirst(r) \/ NodeBusy(r) \/ WrongClass(r) \/ Run(r) \/ RunAtOnce(r)

Dispatch == \E r \in Reqs : Invoke(r) \/ Answered(r)

Timeout(r) ==
    \/ RequestTimeout(r) \/ FutureExpires(r) \/ FutureTimeoutError(r)
    \/ CancelMark(r) \/ CancelClear(r) \/ CancelLeave(r) \/ CancelPost(r)

Environment ==
    \/ ManagerPending \/ ManagerReady
    \/ \E n \in Nodes : NodePending(n) \/ NodeReady(n) \/ RemoveNode(n) \/ AddNode(n)

Next ==
    \/ Dispatch
    \/ \E r \in Reqs : Call(r) \/ Timeout(r) \/ Retry(r) \/ Answer(r)
    \/ Environment

(* Callbacks and timers run, waits time out, the server answers, pending   *)
(* work of the manager and of nodes ends and contexts come back.           *)
Fairness ==
    /\ WF_vars(Dispatch)
    /\ \A r \in Reqs : WF_vars(Retry(r)) /\ WF_vars(Answer(r)) /\ WF_vars(Timeout(r))
    /\ WF_vars(ManagerReady)
    /\ \A n \in Nodes : WF_vars(NodeReady(n)) /\ WF_vars(AddNode(n))

Spec == Init /\ [][Next]_vars /\ Fairness

-----------------------------------------------------------------------------
(* Every variable keeps the shape the fields of request.py have.           *)
TypeOK ==
    /\ deq \in [Nodes -> Seq(Reqs)]
    /\ joined \subseteq Reqs /\ delayed \subseteq Reqs /\ executing \subseteq Reqs
    /\ events \in Seq([kind : {"invoke", "answer"}, req : Reqs])
    /\ reqNode \in [Reqs -> Objs \cup {NoObj}]
    /\ result \in [Reqs -> Reqs \cup {"none", "error", "cancel"}]
    /\ dones \in [Reqs -> Nat]
    /\ started \in Seq(Reqs)
    /\ caller \in [Reqs -> CallerStates]
    /\ mgrReady \in BOOLEAN /\ present \subseteq Nodes
    /\ gen \in [Nodes -> 0 .. MaxGen] /\ busy \in Nat
    /\ pend \in [Objs -> SUBSET (Reqs \cup {Env})]
    /\ nodeReq \in [Objs -> Reqs \cup {NoReq}]

Posted(k, r) == Cardinality({i \in DOMAIN events : events[i] = Evt(k, r)})
Running(r) == r \in executing \/ Posted("answer", r) > 0
Queued(r) == r \in ToSet(deq[NodeOf[r]])
IsHead(r) == Queued(r) /\ Head(deq[NodeOf[r]]) = r

(* "Requests on the same queue group are handled synchronously"            *)
(* (dm.Node.queue_group): a group never has two commands under way, also   *)
(* when a caller gave up on the first one.                                 *)
GroupSerial ==
    \A r, s \in Reqs : Running(r) /\ Running(s) /\ NodeOf[r] = NodeOf[s] => r = s

(* What moves a request on: an invocation that is posted or delayed, or    *)
(* the command it waits for.                                               *)
Drivers(r) ==
    Posted("invoke", r) + Posted("answer", r)
      + Cardinality({r} \cap delayed) + Cardinality({r} \cap executing)

(* No queue stalls and no request is run by two chains of callbacks: the   *)
(* head of a queue has one driver, the requests behind it have none.       *)
OneDriver ==
    \A r \in Reqs : Drivers(r) <= 1 /\ (Queued(r) => Drivers(r) = (IF IsHead(r) THEN 1 ELSE 0))

(* The done callback runs once and then the request has left its queue.    *)
DoneOnce ==
    \A r \in Reqs : dones[r] <= 1 /\ (dones[r] = 1 => ~Queued(r) /\ Drivers(r) = 0)

(* A request is completed with the answer to its own command.              *)
OwnAnswer ==
    \A r \in Reqs : result[r] \in Reqs => result[r] = r

(* A caller does not wait for ever: it returns, with a result or an error, *)
(* or times out; a future's context must not be missing when it is called. *)
CallsReturn ==
    \A r \in {s \in Reqs : s \in Futures => NodeOf[s] \notin Removable} :
        caller[r] = "waiting" ~> caller[r] # "waiting"

(* "ensuring that a particular request is run when the node is available"  *)
(* (CsRequest): a CsRequestSync whose context stays is served or told of   *)
(* an error, whatever becomes of the futures before it in the queue.       *)
QueueMovesOn ==
    \A r \in Reqs \ Futures : caller[r] = "waiting" ~> caller[r] # "waiting"

(* The queues implement what queue groups promise.                         *)
PhaseOf(r) ==
    IF dones[r] > 0 THEN "done"
    ELSE IF r \in ToSet(started) THEN "running"
    ELSE IF r \in joined THEN "queued" ELSE "new"

Groups == INSTANCE QueueGroups WITH
    Groups <- Nodes, GroupOf <- NodeOf, line <- deq, phase <- [r \in Reqs |-> PhaseOf(r)]

GroupsSpec == Groups!Spec
=============================================================================

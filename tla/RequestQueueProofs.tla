------------------------- MODULE RequestQueueProofs -------------------------
(***************************************************************************)
(* What holds of the queues of requests, for every set of requests and     *)
(* nodes: the types in every run, and, when no future is cancelled or      *)
(* misses its node (Steady), that a queue is worked off by its head alone. *)
(***************************************************************************)
EXTENDS RequestQueue, SequenceLemmas

Event == [kind : {"invoke", "answer"}, req : Reqs]

Sent(r) == r \in executing \/ Evt("answer", r) \in ToSet(events)

(* What was sent was sent on a node object.                                *)
SentOn == \A r \in Reqs : Sent(r) => reqNode[r] \in Objs

(* A context that is missing may come back.                                *)
MayReturn == \A n \in Nodes \ present : gen[n] < MaxGen

Typed == TypeOK /\ SentOn /\ MayReturn

-----------------------------------------------------------------------------
(* The types of the parts of a step together.                              *)
LEMMA TypeStep ==
    ASSUME deq' \in [Nodes -> Seq(Reqs)], joined' \subseteq Reqs, events' \in Seq(Event),
           delayed' \subseteq Reqs, executing' \subseteq Reqs, reqNode' \in [Reqs -> Objs \cup {NoObj}],
           result' \in [Reqs -> Reqs \cup {"none", "error", "cancel"}], dones' \in [Reqs -> Nat],
           started' \in Seq(Reqs),
           caller' \in [Reqs -> CallerStates],
           mgrReady' \in BOOLEAN, present' \subseteq Nodes, gen' \in [Nodes -> 0 .. MaxGen], busy' \in Nat,
           pend' \in [Objs -> SUBSET (Reqs \cup {Env})], nodeReq' \in [Objs -> Reqs \cup {NoReq}]
    PROVE  TypeOK'
BY Zenon DEF TypeOK, Event

LEMMA EvtType ==
    ASSUME NEW k \in {"invoke", "answer"}, NEW r \in Reqs
    PROVE  Evt(k, r) \in Event
BY DEF Evt, Event

LEMMA ObjType ==
    ASSUME TypeOK, NEW n \in Nodes
    PROVE  Obj(n) \in Objs
BY DEF TypeOK, Obj, Objs

(* The events behind the first, and those with one more.                   *)
LEMMA RestType ==
    ASSUME TypeOK, events # <<>>
    PROVE  /\ Rest \in Seq(Event)
           /\ ToSet(events) = {Head(events)} \cup ToSet(Rest)
  BY ToSetTail DEF TypeOK, Event, Rest

LEMMA QueueWithType ==
    ASSUME TypeOK, NEW r \in Reqs
    PROVE  NodeOf[r] \in Nodes /\ QueueWith(r) \in Seq(Reqs)
BY RequestAssumption DEF TypeOK, QueueWith

LEMMA DoneRequestType ==
    ASSUME TypeOK, NEW r \in Reqs, NEW q \in Seq(Reqs), NEW rest \in Seq(Event), DoneRequest(r, q, rest)
    PROVE  /\ deq' \in [Nodes -> Seq(Reqs)]
           /\ events' \in Seq(Event)
           /\ \A s \in Reqs : Evt("answer", s) \in ToSet(events') => Evt("answer", s) \in ToSet(rest)
<1> DEFINE left == RemoveFirst(q, r)
<1>1. left \in Seq(Reqs)
  BY RemoveFirstSeq
<1>2. deq' = [deq EXCEPT ![NodeOf[r]] = left]
  BY DEF DoneRequest
<1>3. events' = IF left = <<>> THEN rest ELSE Append(rest, Evt("invoke", Head(left)))
  BY DEF DoneRequest
<1> HIDE DEF left
<1>4. deq' \in [Nodes -> Seq(Reqs)]
  BY <1>1, <1>2 DEF TypeOK
<1>5. CASE left = <<>>
  BY <1>3, <1>4, <1>5
<1>6. CASE left # <<>>
  <2>1. Head(left) \in Reqs
    BY <1>1, <1>6, HeadTailProperties
  <2>2. Evt("invoke", Head(left)) \in Event
    BY <2>1, EvtType
  <2>3. events' \in Seq(Event) /\ ToSet(events') = ToSet(rest) \cup {Evt("invoke", Head(left))}
    BY <1>3, <1>6, <2>2, ToSetAppend
  <2>4. \A s \in Reqs : Evt("answer", s) # Evt("invoke", Head(left))
    BY DEF Evt
  <2> QED
    BY <1>4, <2>3, <2>4
<1> QED
  BY <1>5, <1>6

LEMMA CompletedType ==
    ASSUME TypeOK, NEW r \in Reqs, Completed(r)
    PROVE  caller' \in [Reqs -> CallerStates]
BY DEF TypeOK, Completed, CallerStates

(* A completion, by a future or not.                                       *)
LEMMA DoneType ==
    ASSUME TypeOK, NEW r \in Reqs, NEW a \in Reqs \cup {"error"}, NEW o \in Objs \cup {NoObj},
           NEW q \in Seq(Reqs), NEW rest \in Seq(Event), Done(r, a, o, q, rest)
    PROVE  /\ deq' \in [Nodes -> Seq(Reqs)]
           /\ events' \in Seq(Event)
           /\ \A s \in Reqs : Evt("answer", s) \in ToSet(events') => Evt("answer", s) \in ToSet(rest)
           /\ result' \in [Reqs -> Reqs \cup {"none", "error", "cancel"}]
           /\ dones' \in [Reqs -> Nat]
           /\ caller' \in [Reqs -> CallerStates]
           /\ nodeReq' \in [Objs -> Reqs \cup {NoReq}]
<1>1. result' = [result EXCEPT ![r] = a] /\ dones' = [dones EXCEPT ![r] = @ + 1]
  BY DEF Done, RequestDone, FutureDone
<1>2. result' \in [Reqs -> Reqs \cup {"none", "error", "cancel"}] /\ dones' \in [Reqs -> Nat]
  BY <1>1 DEF TypeOK
<1>3. \/ DoneRequest(r, q, rest)
      \/ UNCHANGED deq /\ events' = rest
      \/ deq' = [deq EXCEPT ![NodeOf[r]] = q] /\ events' = rest
  BY DEF Done, RequestDone, FutureDone
<1>4. /\ deq' \in [Nodes -> Seq(Reqs)]
      /\ events' \in Seq(Event)
      /\ \A s \in Reqs : Evt("answer", s) \in ToSet(events') => Evt("answer", s) \in ToSet(rest)
  <2>1. CASE DoneRequest(r, q, rest)
    BY <2>1, DoneRequestType
  <2>2. CASE UNCHANGED deq /\ events' = rest
    BY <2>2 DEF TypeOK
  <2>3. CASE deq' = [deq EXCEPT ![NodeOf[r]] = q] /\ events' = rest
    BY <2>3 DEF TypeOK
  <2> QED
    BY <1>3, <2>1, <2>2, <2>3
<1>5. Completed(r) \/ UNCHANGED caller
  BY DEF Done, RequestDone, FutureDone
<1>6. caller' \in [Reqs -> CallerStates]
  BY <1>5, CompletedType DEF TypeOK
<1>7. UNCHANGED nodeReq \/ nodeReq' = [nodeReq EXCEPT ![o] = NoReq]
  BY DEF Done, FutureDone
<1>8. nodeReq' \in [Objs -> Reqs \cup {NoReq}]
  BY <1>7 DEF TypeOK
<1> QED
  BY <1>2, <1>4, <1>6, <1>8

-----------------------------------------------------------------------------
LEMMA InitTyped == Init => Typed
<1> SUFFICES ASSUME Init PROVE Typed
  OBVIOUS
<1>1. mgrReady \in BOOLEAN
  BY Zenon DEF Init
<1>2. /\ deq \in [Nodes -> Seq(Reqs)] /\ joined \subseteq Reqs /\ events \in Seq(Event)
      /\ delayed \subseteq Reqs /\ executing \subseteq Reqs /\ reqNode \in [Reqs -> Objs \cup {NoObj}]
      /\ result \in [Reqs -> Reqs \cup {"none", "error", "cancel"}] /\ dones \in [Reqs -> Nat]
      /\ started \in Seq(Reqs)
      /\ caller \in [Reqs -> CallerStates]
      /\ present \subseteq Nodes /\ gen \in [Nodes -> 0 .. MaxGen] /\ busy \in Nat
      /\ pend \in [Objs -> SUBSET (Reqs \cup {Env})] /\ nodeReq \in [Objs -> Reqs \cup {NoReq}]
  BY RequestAssumption DEF Init, CallerStates
<1>3. TypeOK
  BY <1>1, <1>2, Zenon DEF TypeOK, Event
<1>4. ToSet(events) = {}
  BY DEF Init, ToSet
<1> QED
  BY <1>3, <1>4 DEF Typed, SentOn, MayReturn, Sent, Init

(* Steps that leave the environment alone keep its type.                   *)
LEMMA EnvType ==
    ASSUME Typed, UNCHANGED envVars
    PROVE  /\ mgrReady' \in BOOLEAN /\ present' \subseteq Nodes /\ gen' \in [Nodes -> 0 .. MaxGen]
           /\ busy' \in Nat /\ MayReturn'
<1>1. mgrReady' \in BOOLEAN
  BY Zenon DEF Typed, TypeOK, envVars
<1>2. present' \subseteq Nodes /\ gen' \in [Nodes -> 0 .. MaxGen] /\ busy' \in Nat /\ MayReturn'
  BY DEF Typed, TypeOK, envVars, MayReturn
<1> QED
  BY <1>1, <1>2

(* What a step that does not take a command off keeps.                     *)
LEMMA SentStep ==
    ASSUME Typed, \A r \in Reqs : Sent(r)' => Sent(r) \/ reqNode'[r] \in Objs,
           \A r \in Reqs : reqNode'[r] = reqNode[r] \/ reqNode'[r] \in Objs
    PROVE  SentOn'
BY DEF Typed, SentOn

LEMMA CallTyped ==
    ASSUME Typed, NEW r \in Reqs, Call(r) \/ Retry(r) \/ Answer(r)
    PROVE  Typed'
<1>1. UNCHANGED envVars
  BY DEF Call, Retry, Answer
<1>2. PICK k \in {"invoke", "answer"} :
        events' = Append(events, Evt(k, r)) /\ (k = "answer" => r \in executing /\ Answer(r))
  BY DEF Call, Retry, Answer
<1>3. events' \in Seq(Event) /\ ToSet(events') = ToSet(events) \cup {Evt(k, r)}
  <2>1. events \in Seq(Event)
    BY DEF Typed, TypeOK, Event
  <2>2. Evt(k, r) \in Event
    BY EvtType
  <2> QED
    BY <1>2, <2>1, <2>2, ToSetAppend
<1>4. executing' \subseteq executing /\ UNCHANGED reqNode
  BY DEF Call, Retry, Answer
<1>5. SentOn'
  <2>1. \A s \in Reqs : Sent(s)' => Sent(s)
    BY <1>2, <1>3, <1>4 DEF Sent, Evt
  <2> QED
    BY <1>4, <2>1, SentStep
<1>6. /\ deq' \in [Nodes -> Seq(Reqs)] /\ joined' \subseteq Reqs /\ delayed' \subseteq Reqs
      /\ executing' \subseteq Reqs /\ reqNode' \in [Reqs -> Objs \cup {NoObj}]
      /\ result' \in [Reqs -> Reqs \cup {"none", "error", "cancel"}] /\ dones' \in [Reqs -> Nat]
      /\ started' \in Seq(Reqs)
      /\ caller' \in [Reqs -> CallerStates]
      /\ pend' \in [Objs -> SUBSET (Reqs \cup {Env})] /\ nodeReq' \in [Objs -> Reqs \cup {NoReq}]
  BY DEF Typed, TypeOK, Call, Retry, Answer, CallerStates
<1>7. TypeOK'
  BY <1>1, <1>3, <1>6, EnvType, TypeStep
<1> QED
  BY <1>1, <1>5, <1>7, EnvType DEF Typed

(* The ways out of _invoke that complete nothing.                          *)
LEMMA WaitsTyped ==
    ASSUME Typed, NEW r \in Reqs, ManagerBusy(r) \/ NotFirst(r) \/ NodeBusy(r)
    PROVE  Typed'
<1>1. UNCHANGED envVars
  BY DEF ManagerBusy, NotFirst, NodeBusy
<1>2. events # <<>> /\ events' = Rest
  BY DEF ManagerBusy, NotFirst, NodeBusy, Reached, Invoked
<1>3. events' \in Seq(Event) /\ ToSet(events') \subseteq ToSet(events)
  BY <1>2, RestType DEF Typed
<1>4. QueueWith(r) \in Seq(Reqs) /\ NodeOf[r] \in Nodes
  BY QueueWithType DEF Typed
<1>5. SentOn'
  <2>1. executing' = executing /\ reqNode' = reqNode
    BY DEF ManagerBusy, NotFirst, NodeBusy
  <2> QED
    BY <1>3, <2>1, SentStep DEF Sent
<1>6. /\ deq' \in [Nodes -> Seq(Reqs)] /\ joined' \subseteq Reqs /\ delayed' \subseteq Reqs
      /\ executing' \subseteq Reqs /\ reqNode' \in [Reqs -> Objs \cup {NoObj}]
      /\ result' \in [Reqs -> Reqs \cup {"none", "error", "cancel"}] /\ dones' \in [Reqs -> Nat]
      /\ started' \in Seq(Reqs)
      /\ caller' \in [Reqs -> CallerStates]
      /\ pend' \in [Objs -> SUBSET (Reqs \cup {Env})] /\ nodeReq' \in [Objs -> Reqs \cup {NoReq}]
  <2>1. /\ deq' = deq \/ deq' = [deq EXCEPT ![NodeOf[r]] = QueueWith(r)]
        /\ joined' \subseteq joined \cup {r} /\ delayed' \subseteq delayed \cup {r}
        /\ UNCHANGED <<executing, reqNode, result, dones, started, caller, pend, nodeReq>>
    BY DEF ManagerBusy, NotFirst, NodeBusy, Reached
  <2>2. TypeOK
    BY DEF Typed
  <2>3. deq' \in [Nodes -> Seq(Reqs)]
    BY ONLY <1>4, <2>1, <2>2 DEF TypeOK
  <2>4. joined' \subseteq Reqs /\ delayed' \subseteq Reqs /\ executing' \subseteq Reqs
    BY ONLY <2>1, <2>2, r \in Reqs DEF TypeOK
  <2> QED
    BY ONLY <2>1, <2>2, <2>3, <2>4 DEF TypeOK
<1>7. TypeOK'
  BY <1>1, <1>3, <1>6, EnvType, TypeStep
<1> QED
  BY <1>1, <1>5, <1>7, EnvType DEF Typed

LEMMA RunTyped ==
    ASSUME Typed, NEW r \in Reqs, Run(r)
    PROVE  Typed'
<1> DEFINE o == Obj(NodeOf[r])
<1>1. UNCHANGED envVars
  BY DEF Run
<1>2. events # <<>> /\ events' = Rest
  BY DEF Run, Ready, Reached, Invoked
<1>3. events' \in Seq(Event) /\ ToSet(events') \subseteq ToSet(events)
  BY <1>2, RestType DEF Typed
<1>4. QueueWith(r) \in Seq(Reqs) /\ NodeOf[r] \in Nodes /\ o \in Objs
  BY QueueWithType, ObjType DEF Typed
<1>5. /\ deq' = [deq EXCEPT ![NodeOf[r]] = QueueWith(r)]
      /\ reqNode' = [reqNode EXCEPT ![r] = o]
      /\ nodeReq' = [nodeReq EXCEPT ![o] = IF r \in Futures THEN r ELSE @]
      /\ pend' = [pend EXCEPT ![o] = IF r \in HoldsPending THEN @ \cup {r} ELSE @]
      /\ executing' = executing \cup {r} /\ started' = Append(started, r)
      /\ joined' = joined \cup {r}
      /\ UNCHANGED <<delayed, result, dones, caller>>
  BY DEF Run, Ready, Reached
<1> HIDE DEF o
<1>6. SentOn'
  BY <1>3, <1>4, <1>5, SentStep DEF Sent, Typed, TypeOK
<1>7. started' \in Seq(Reqs)
  BY <1>5 DEF Typed, TypeOK
<1>8. /\ deq' \in [Nodes -> Seq(Reqs)] /\ joined' \subseteq Reqs /\ delayed' \subseteq Reqs
      /\ executing' \subseteq Reqs /\ reqNode' \in [Reqs -> Objs \cup {NoObj}]
      /\ result' \in [Reqs -> Reqs \cup {"none", "error", "cancel"}] /\ dones' \in [Reqs -> Nat]
      /\ caller' \in [Reqs -> CallerStates]
      /\ nodeReq' \in [Objs -> Reqs \cup {NoReq}]
  BY <1>4, <1>5 DEF Typed, TypeOK
<1>9. pend' \in [Objs -> SUBSET (Reqs \cup {Env})]
  BY <1>4, <1>5 DEF Typed, TypeOK
<1>10. TypeOK'
  BY <1>1, <1>3, <1>7, <1>8, <1>9, EnvType, TypeStep
<1> QED
  BY <1>1, <1>6, <1>10, EnvType DEF Typed

(* The ways out of _invoke that complete the request.                      *)
LEMMA EndsTyped ==
    ASSUME Typed, NEW r \in Reqs, NoNode(r) \/ WrongClass(r) \/ RunAtOnce(r)
    PROVE  Typed'
<1>1. UNCHANGED envVars /\ UNCHANGED <<delayed, executing, pend>>
  BY DEF NoNode, WrongClass, RunAtOnce
<1>2. events # <<>> /\ joined' \subseteq joined \cup {r}
  BY DEF NoNode, WrongClass, RunAtOnce, Ready, Reached, Invoked
<1>3. Rest \in Seq(Event) /\ ToSet(Rest) \subseteq ToSet(events)
  BY <1>2, RestType DEF Typed
<1>4. /\ QueueWith(r) \in Seq(Reqs) /\ NodeOf[r] \in Nodes /\ Obj(NodeOf[r]) \in Objs
      /\ deq[NodeOf[r]] \in Seq(Reqs) /\ reqNode[r] \in Objs \cup {NoObj}
  BY QueueWithType, ObjType DEF Typed, TypeOK
<1>5. \E a \in Reqs \cup {"error"}, o \in Objs \cup {NoObj}, q \in Seq(Reqs) : Done(r, a, o, q, Rest)
  <2>1. CASE NoNode(r)
    BY <1>4, <2>1 DEF NoNode
  <2>2. CASE WrongClass(r)
    BY <1>4, <2>2 DEF WrongClass
  <2>3. CASE RunAtOnce(r)
    BY <1>4, <2>3 DEF RunAtOnce
  <2> QED
    BY <2>1, <2>2, <2>3
<1>6. /\ deq' \in [Nodes -> Seq(Reqs)] /\ events' \in Seq(Event)
      /\ \A s \in Reqs : Evt("answer", s) \in ToSet(events') => Evt("answer", s) \in ToSet(Rest)
      /\ result' \in [Reqs -> Reqs \cup {"none", "error", "cancel"}] /\ dones' \in [Reqs -> Nat]
      /\ caller' \in [Reqs -> CallerStates]
      /\ nodeReq' \in [Objs -> Reqs \cup {NoReq}]
  BY <1>3, <1>5, DoneType DEF Typed
<1>7. /\ reqNode' = reqNode \/ reqNode' = [reqNode EXCEPT ![r] = Obj(NodeOf[r])]
      /\ started' = started \/ started' = Append(started, r)
  BY DEF NoNode, WrongClass, RunAtOnce
<1>8. /\ reqNode' \in [Reqs -> Objs \cup {NoObj}]
      /\ \A s \in Reqs : reqNode'[s] = reqNode[s] \/ reqNode'[s] \in Objs
  BY <1>4, <1>7 DEF Typed, TypeOK
<1>9. started' \in Seq(Reqs)
  <2>1. started \in Seq(Reqs)
    BY DEF Typed, TypeOK
  <2>2. Append(started, r) \in Seq(Reqs)
    BY <2>1, AppendProperties
  <2> QED
    BY <1>7, <2>1, <2>2
<1>10. /\ joined' \subseteq Reqs /\ delayed' \subseteq Reqs /\ executing' \subseteq Reqs
       /\ pend' \in [Objs -> SUBSET (Reqs \cup {Env})]
  BY <1>1, <1>2 DEF Typed, TypeOK
<1>11. SentOn'
  BY <1>1, <1>3, <1>6, <1>8, SentStep DEF Sent
<1>12. TypeOK'
  BY <1>1, <1>6, <1>8, <1>9, <1>10, EnvType, TypeStep
<1> QED
  BY <1>1, <1>11, <1>12, EnvType DEF Typed

LEMMA AnsweredTyped ==
    ASSUME Typed, NEW r \in Reqs, Answered(r)
    PROVE  Typed'
<1>1. UNCHANGED envVars /\ UNCHANGED <<joined, delayed, reqNode, started, executing>>
  BY DEF Answered
<1>2. events # <<>> /\ Head(events) = Evt("answer", r)
  BY DEF Answered
<1>3. Rest \in Seq(Event) /\ ToSet(Rest) \subseteq ToSet(events) /\ Evt("answer", r) \in ToSet(events)
  BY <1>2, RestType DEF Typed
<1>4. reqNode[r] \in Objs
  BY <1>3 DEF Typed, SentOn, Sent
<1>5. pend' \in [Objs -> SUBSET (Reqs \cup {Env})]
  <2>1. pend' = [pend EXCEPT ![reqNode[r]] = @ \ {r}]
    BY DEF Answered
  <2> QED
    BY <1>4, <2>1 DEF Typed, TypeOK
<1>6. \/ events' = Rest /\ UNCHANGED <<deq, result, dones, caller, nodeReq>>
      \/ \E q \in Reqs : Done(q, r, reqNode[q], deq[NodeOf[q]], Rest)
  <2>1. nodeReq[reqNode[r]] \in Reqs \cup {NoReq}
    BY <1>4 DEF Typed, TypeOK
  <2> QED
    BY <2>1 DEF Answered
<1>7. /\ deq' \in [Nodes -> Seq(Reqs)] /\ events' \in Seq(Event)
      /\ \A s \in Reqs : Evt("answer", s) \in ToSet(events') => Evt("answer", s) \in ToSet(Rest)
      /\ result' \in [Reqs -> Reqs \cup {"none", "error", "cancel"}] /\ dones' \in [Reqs -> Nat]
      /\ caller' \in [Reqs -> CallerStates]
      /\ nodeReq' \in [Objs -> Reqs \cup {NoReq}]
  <2>1. CASE events' = Rest /\ UNCHANGED <<deq, result, dones, caller, nodeReq>>
    BY <1>3, <2>1 DEF Typed, TypeOK
  <2>2. CASE \E q \in Reqs : Done(q, r, reqNode[q], deq[NodeOf[q]], Rest)
    <3>1. PICK q \in Reqs : Done(q, r, reqNode[q], deq[NodeOf[q]], Rest)
      BY <2>2
    <3>2. reqNode[q] \in Objs \cup {NoObj} /\ deq[NodeOf[q]] \in Seq(Reqs)
      BY RequestAssumption DEF Typed, TypeOK
    <3> QED
      BY <1>3, <3>1, <3>2, DoneType DEF Typed
  <2> QED
    BY <1>6, <2>1, <2>2
<1>8. /\ joined' \subseteq Reqs /\ delayed' \subseteq Reqs /\ executing' \subseteq Reqs
      /\ reqNode' \in [Reqs -> Objs \cup {NoObj}] /\ started' \in Seq(Reqs)
  BY <1>1 DEF Typed, TypeOK
<1>9. SentOn'
  BY <1>1, <1>3, <1>7, SentStep DEF Sent
<1>10. TypeOK'
  BY <1>1, <1>5, <1>7, <1>8, EnvType, TypeStep
<1> QED
  BY <1>1, <1>9, <1>10, EnvType DEF Typed

(* The caller's thread.                                                    *)
LEMMA TimeoutTyped ==
    ASSUME Typed, NEW r \in Reqs, Timeout(r)
    PROVE  Typed'
<1>1. UNCHANGED envVars /\ UNCHANGED <<joined, delayed, reqNode, started, executing, pend>>
  BY DEF Timeout, RequestTimeout, FutureExpires, FutureTimeoutError, CancelMark, CancelClear, CancelLeave, CancelPost
<1>2. \/ UNCHANGED <<deq, events>>
      \/ CancelLeave(r) /\ deq' # deq
      \/ CancelPost(r)
  BY DEF Timeout, RequestTimeout, FutureExpires, FutureTimeoutError, CancelMark, CancelClear, CancelLeave
<1>3. events \in Seq(Event) /\ deq[NodeOf[r]] \in Seq(Reqs) /\ deq \in [Nodes -> Seq(Reqs)]
  BY RequestAssumption DEF Typed, TypeOK, Event
<1>4. /\ deq' \in [Nodes -> Seq(Reqs)] /\ events' \in Seq(Event)
      /\ \A s \in Reqs : Evt("answer", s) \in ToSet(events') => Evt("answer", s) \in ToSet(events)
  <2>1. CASE UNCHANGED <<deq, events>>
    BY <1>3, <2>1
  <2>2. CASE CancelLeave(r) /\ deq' # deq
    <3>1. UNCHANGED events /\ deq' = [deq EXCEPT ![NodeOf[r]] = RemoveFirst(deq[NodeOf[r]], r)]
      BY <2>2 DEF CancelLeave
    <3>2. RemoveFirst(deq[NodeOf[r]], r) \in Seq(Reqs)
      BY <1>3, RemoveFirstSeq
    <3> QED
      BY <1>3, <3>1, <3>2
  <2>3. CASE CancelPost(r)
    <3> DEFINE q == deq[NodeOf[r]]
    <3>1. UNCHANGED deq /\ events' = IF q = <<>> THEN events ELSE Append(events, Evt("invoke", Head(q)))
      BY <2>3 DEF CancelPost
    <3> HIDE DEF q
    <3>2. CASE q = <<>>
      BY <1>3, <3>1, <3>2
    <3>3. CASE q # <<>>
      <4>1. Head(q) \in Reqs
        BY <1>3, <3>3, HeadTailProperties DEF q
      <4>2. Evt("invoke", Head(q)) \in Event
        BY <4>1, EvtType
      <4>3. events' \in Seq(Event) /\ ToSet(events') = ToSet(events) \cup {Evt("invoke", Head(q))}
        BY <1>3, <3>1, <3>3, <4>2, ToSetAppend
      <4>4. \A s \in Reqs : Evt("answer", s) # Evt("invoke", Head(q))
        BY DEF Evt
      <4> QED
        BY <1>3, <3>1, <4>3, <4>4
    <3> QED
      BY <3>2, <3>3
  <2> QED
    BY <1>2, <2>1, <2>2, <2>3
<1>5. /\ UNCHANGED result \/ result' = [result EXCEPT ![r] = "cancel"]
      /\ UNCHANGED dones \/ dones' = [dones EXCEPT ![r] = @ + 1]
      /\ UNCHANGED nodeReq \/ nodeReq' = [nodeReq EXCEPT ![reqNode[r]] = NoReq]
  BY DEF Timeout, RequestTimeout, FutureExpires, FutureTimeoutError, CancelMark, CancelClear, CancelLeave, CancelPost
<1>6. \E c \in {"returned", "timedout", "expired", "canceling", "leaving", "posting", "raised"} : caller' = [caller EXCEPT ![r] = c]
  BY DEF Timeout, RequestTimeout, FutureExpires, FutureTimeoutError, CancelMark, CancelClear, CancelLeave, CancelPost
<1>7. /\ result' \in [Reqs -> Reqs \cup {"none", "error", "cancel"}] /\ dones' \in [Reqs -> Nat]
      /\ nodeReq' \in [Objs -> Reqs \cup {NoReq}]
      /\ caller' \in [Reqs -> CallerStates]
  <2>1. result' \in [Reqs -> Reqs \cup {"none", "error", "cancel"}]
    BY <1>5 DEF Typed, TypeOK
  <2>2. dones' \in [Reqs -> Nat]
    <3>1. dones \in [Reqs -> Nat] /\ [dones EXCEPT ![r] = @ + 1] \in [Reqs -> Nat]
      BY DEF Typed, TypeOK
    <3> QED
      BY <1>5, <3>1, Zenon
  <2>3. nodeReq' \in [Objs -> Reqs \cup {NoReq}]
    BY <1>5 DEF Typed, TypeOK
  <2>4. caller' \in [Reqs -> CallerStates]
    BY <1>6 DEF Typed, TypeOK, CallerStates
  <2> QED
    BY <2>1, <2>2, <2>3, <2>4
<1>8. /\ joined' \subseteq Reqs /\ delayed' \subseteq Reqs /\ executing' \subseteq Reqs
      /\ reqNode' \in [Reqs -> Objs \cup {NoObj}] /\ started' \in Seq(Reqs)
      /\ pend' \in [Objs -> SUBSET (Reqs \cup {Env})]
  BY <1>1 DEF Typed, TypeOK
<1>9. SentOn'
  BY <1>1, <1>4, SentStep DEF Sent
<1>10. TypeOK'
  BY <1>1, <1>4, <1>7, <1>8, EnvType, TypeStep
<1> QED
  BY <1>1, <1>9, <1>10, EnvType DEF Typed

LEMMA EnvironmentTyped ==
    ASSUME Typed, Environment
    PROVE  Typed'
<1>1. UNCHANGED <<deq, joined, events, delayed, reqNode, result, dones, started, executing, caller, nodeReq>>
  BY DEF Environment, ManagerPending, ManagerReady, NodePending, NodeReady, RemoveNode, AddNode
<1>2. /\ deq' \in [Nodes -> Seq(Reqs)] /\ joined' \subseteq Reqs /\ events' \in Seq(Event)
      /\ delayed' \subseteq Reqs /\ executing' \subseteq Reqs /\ reqNode' \in [Reqs -> Objs \cup {NoObj}]
      /\ result' \in [Reqs -> Reqs \cup {"none", "error", "cancel"}] /\ dones' \in [Reqs -> Nat]
      /\ started' \in Seq(Reqs)
      /\ caller' \in [Reqs -> CallerStates]
      /\ nodeReq' \in [Objs -> Reqs \cup {NoReq}]
  BY <1>1 DEF Typed, TypeOK, Event
<1>3. SentOn'
  BY <1>1 DEF Typed, SentOn, Sent
<1>4. mgrReady' \in BOOLEAN
  BY Zenon DEF Typed, TypeOK, Environment, ManagerPending, ManagerReady, NodePending, NodeReady,
               RemoveNode, AddNode, envVars
<1>5. busy' \in Nat
  BY DEF Typed, TypeOK, Environment, Disturb, ManagerPending, ManagerReady, NodePending, NodeReady,
         RemoveNode, AddNode, envVars
<1>6. present' \subseteq Nodes /\ gen' \in [Nodes -> 0 .. MaxGen] /\ MayReturn'
  <2>1. CASE UNCHANGED <<present, gen>>
    BY <2>1 DEF Typed, TypeOK, MayReturn
  <2>2. ASSUME NEW n \in Nodes, RemoveNode(n) \/ AddNode(n)
        PROVE  present' \subseteq Nodes /\ gen' \in [Nodes -> 0 .. MaxGen] /\ MayReturn'
    <3>1. CASE RemoveNode(n)
      BY <3>1 DEF Typed, TypeOK, MayReturn, RemoveNode
    <3>2. CASE AddNode(n)
      <4>1. gen[n] < MaxGen /\ gen[n] \in 0 .. MaxGen /\ MaxGen \in Nat
        BY <3>2, RequestAssumption DEF Typed, TypeOK, MayReturn, AddNode
      <4>2. gen[n] + 1 \in 0 .. MaxGen
        BY <4>1
      <4>3. present' = present \cup {n} /\ gen' = [gen EXCEPT ![n] = gen[n] + 1]
        BY <3>2 DEF AddNode
      <4> QED
        BY <4>2, <4>3 DEF Typed, TypeOK, MayReturn
    <3> QED
      BY <2>2, <3>1, <3>2
  <2> QED
    BY <2>1, <2>2 DEF Environment, ManagerPending, ManagerReady, NodePending, NodeReady, envVars
<1>7. pend' \in [Objs -> SUBSET (Reqs \cup {Env})]
  <2>1. CASE UNCHANGED pend
    BY <2>1 DEF Typed, TypeOK
  <2>2. CASE \E n \in Nodes : NodePending(n) \/ NodeReady(n)
    <3>1. PICK n \in Nodes : \/ pend' = [pend EXCEPT ![Obj(n)] = @ \cup {Env}]
                            \/ pend' = [pend EXCEPT ![Obj(n)] = @ \ {Env}]
      BY <2>2 DEF NodePending, NodeReady
    <3>2. Obj(n) \in Objs
      BY ObjType DEF Typed
    <3> HIDE DEF Obj
    <3> QED
      BY <3>1, <3>2 DEF Typed, TypeOK
  <2> QED
    BY <2>1, <2>2 DEF Environment, ManagerPending, ManagerReady, RemoveNode, AddNode
<1>8. TypeOK'
  BY <1>2, <1>4, <1>5, <1>6, <1>7, TypeStep
<1> QED
  BY <1>3, <1>6, <1>8 DEF Typed

LEMMA NextTyped == Typed /\ [Next]_vars => Typed'
<1> SUFFICES ASSUME Typed, [Next]_vars PROVE Typed'
  OBVIOUS
<1>1. CASE UNCHANGED vars
  <2>1. UNCHANGED envVars
    BY <1>1 DEF vars
  <2>2. /\ deq' \in [Nodes -> Seq(Reqs)] /\ joined' \subseteq Reqs /\ events' \in Seq(Event)
        /\ delayed' \subseteq Reqs /\ executing' \subseteq Reqs /\ reqNode' \in [Reqs -> Objs \cup {NoObj}]
        /\ result' \in [Reqs -> Reqs \cup {"none", "error", "cancel"}] /\ dones' \in [Reqs -> Nat]
        /\ started' \in Seq(Reqs)
        /\ caller' \in [Reqs -> CallerStates]
        /\ pend' \in [Objs -> SUBSET (Reqs \cup {Env})] /\ nodeReq' \in [Objs -> Reqs \cup {NoReq}]
    BY <1>1 DEF vars, Typed, TypeOK, Event
  <2>3. SentOn'
    BY <1>1 DEF vars, Typed, SentOn, Sent
  <2> QED
    BY <2>1, <2>2, <2>3, EnvType, TypeStep DEF Typed
<1>2. ASSUME NEW r \in Reqs, Invoke(r) \/ Answered(r)
      PROVE  Typed'
  BY <1>2, WaitsTyped, EndsTyped, RunTyped, AnsweredTyped DEF Invoke
<1>3. ASSUME NEW r \in Reqs, Call(r) \/ Timeout(r) \/ Retry(r) \/ Answer(r)
      PROVE  Typed'
  BY <1>3, CallTyped, TimeoutTyped
<1>4. CASE Environment
  BY <1>4, EnvironmentTyped
<1> QED
  BY <1>1, <1>2, <1>3, <1>4 DEF Next, Dispatch

LEMMA TypedHolds == Spec => []Typed
BY InitTyped, NextTyped, PTL DEF Spec

(* The fields of request.py keep their types in every run, whatever is     *)
(* cancelled, removed or late.                                             *)
THEOREM TypeCorrect == Spec => []TypeOK
BY TypedHolds, PTL DEF Typed

-----------------------------------------------------------------------------
(* What moves a request on, given the parts of the state.                  *)
Load(q, d, x, r) ==
    Times(q, Evt("invoke", r)) + Times(q, Evt("answer", r))
      + (IF r \in d THEN 1 ELSE 0) + (IF r \in x THEN 1 ELSE 0)

LEMMA OneOf ==
    ASSUME NEW S, NEW r
    PROVE  Cardinality({r} \cap S) = IF r \in S THEN 1 ELSE 0
<1>1. CASE r \in S
  <2>1. {r} \cap S = {r}
    BY <1>1
  <2> QED
    BY <1>1, <2>1, FS_Singleton
<1>2. CASE r \notin S
  <2>1. {r} \cap S = {}
    BY <1>2
  <2> QED
    BY <1>2, <2>1, FS_EmptySet
<1> QED
  BY <1>1, <1>2

LEMMA DriversAre ==
    ASSUME NEW r
    PROVE  /\ Drivers(r) = Load(events, delayed, executing, r)
           /\ Drivers(r)' = Load(events', delayed', executing', r)
<1>1. /\ Cardinality({r} \cap delayed) = IF r \in delayed THEN 1 ELSE 0
      /\ Cardinality({r} \cap executing) = IF r \in executing THEN 1 ELSE 0
      /\ Cardinality({r} \cap delayed') = IF r \in delayed' THEN 1 ELSE 0
      /\ Cardinality({r} \cap executing') = IF r \in executing' THEN 1 ELSE 0
  BY OneOf
<1> QED
  BY <1>1, Zenon DEF Drivers, Load, Posted, Times

LEMMA LoadParts ==
    ASSUME NEW q \in Seq(Event), NEW d, NEW x, NEW r
    PROVE  /\ Times(q, Evt("invoke", r)) \in Nat /\ Times(q, Evt("answer", r)) \in Nat
           /\ Load(q, d, x, r) \in Nat
           /\ Evt("answer", r) \in ToSet(q) <=> Times(q, Evt("answer", r)) > 0
<1>1. Times(q, Evt("invoke", r)) \in Nat /\ Times(q, Evt("answer", r)) \in Nat
  BY TimesFinite
<1> QED
  BY <1>1, TimesPositive DEF Load

LEMMA LoadAppend ==
    ASSUME NEW q \in Seq(Event), NEW d, NEW x, NEW k \in {"invoke", "answer"}, NEW r \in Reqs, NEW s
    PROVE  Load(Append(q, Evt(k, r)), d, x, s) = Load(q, d, x, s) + (IF s = r THEN 1 ELSE 0)
<1>1. Evt(k, r) \in Event
  BY EvtType
<1>2. \A j \in {"invoke", "answer"} : Evt(k, r) = Evt(j, s) <=> k = j /\ r = s
  BY DEF Evt
<1>3. /\ Times(Append(q, Evt(k, r)), Evt("invoke", s))
            = Times(q, Evt("invoke", s)) + (IF k = "invoke" /\ r = s THEN 1 ELSE 0)
      /\ Times(Append(q, Evt(k, r)), Evt("answer", s))
            = Times(q, Evt("answer", s)) + (IF k = "answer" /\ r = s THEN 1 ELSE 0)
  BY <1>1, <1>2, TimesAppend
<1>4. Times(q, Evt("invoke", s)) \in Nat /\ Times(q, Evt("answer", s)) \in Nat
  BY LoadParts
<1>5. CASE k = "invoke"
  BY <1>3, <1>4, <1>5 DEF Load
<1>6. CASE k = "answer"
  BY <1>3, <1>4, <1>6 DEF Load
<1> QED
  BY <1>5, <1>6

LEMMA LoadTail ==
    ASSUME NEW q \in Seq(Event), q # <<>>, NEW d, NEW x, NEW k \in {"invoke", "answer"}, NEW r \in Reqs,
           Head(q) = Evt(k, r), NEW s
    PROVE  /\ Tail(q) \in Seq(Event)
           /\ Load(q, d, x, s) = Load(Tail(q), d, x, s) + (IF s = r THEN 1 ELSE 0)
           /\ Times(q, Evt("answer", s))
                = Times(Tail(q), Evt("answer", s)) + (IF k = "answer" /\ r = s THEN 1 ELSE 0)
<1>1. Tail(q) \in Seq(Event)
  BY HeadTailProperties
<1>2. \A j \in {"invoke", "answer"} : Evt(k, r) = Evt(j, s) <=> k = j /\ r = s
  BY DEF Evt
<1>3. /\ Times(q, Evt("invoke", s))
            = Times(Tail(q), Evt("invoke", s)) + (IF k = "invoke" /\ r = s THEN 1 ELSE 0)
      /\ Times(q, Evt("answer", s))
            = Times(Tail(q), Evt("answer", s)) + (IF k = "answer" /\ r = s THEN 1 ELSE 0)
  BY <1>2, TimesTail
<1>4. Times(Tail(q), Evt("invoke", s)) \in Nat /\ Times(Tail(q), Evt("answer", s)) \in Nat
  BY <1>1, LoadParts
<1>5. CASE k = "invoke"
  BY <1>1, <1>3, <1>4, <1>5 DEF Load
<1>6. CASE k = "answer"
  BY <1>1, <1>3, <1>4, <1>6 DEF Load
<1> QED
  BY <1>5, <1>6

-----------------------------------------------------------------------------
(* Nobody gives up on a future, and futures find their node: elsewhere the *)
(* code does not keep what follows (request.py:670, 721).                  *)
Steady ==
    /\ Timeouts \cap Futures = {} /\ Picky \cap Futures = {}
    /\ \A r \in Futures : NodeOf[r] \notin Removable

(* A queue has the requests of its node that joined it, each once.         *)
Lines ==
    \A n \in Nodes : Distinct(deq[n]) /\ \A r \in ToSet(deq[n]) : NodeOf[r] = n /\ r \in joined

InLine == \A r \in joined : dones[r] = 0 => Queued(r)

(* A request that was not called is nowhere, and nobody cancels.           *)
Idle ==
    \A r \in Reqs :
        /\ caller[r] = "idle" => Drivers(r) = 0 /\ dones[r] = 0 /\ r \notin joined
        /\ caller[r] \notin {"expired", "canceling", "leaving", "posting"}

(* A request that was started waits for its command until it is done, and  *)
(* node.request is the one whose command the node works on.                *)
Begun ==
    \A r \in Reqs :
        /\ Sent(r) => /\ r \in ToSet(started) /\ reqNode[r][1] = NodeOf[r]
                      /\ r \in UsesSelf => nodeReq[reqNode[r]] = r
        /\ r \in ToSet(started) => r \in joined /\ (dones[r] = 0 => Sent(r))

Stay == Nodes \ Removable \subseteq present

IInv == Typed /\ Lines /\ InLine /\ OneDriver /\ DoneOnce /\ Idle /\ Begun /\ Stay /\ OwnAnswer

LEMMA RunningIsSent ==
    ASSUME Typed, NEW r \in Reqs
    PROVE  /\ Running(r) <=> Sent(r)
           /\ Sent(r) => Drivers(r) > 0
           /\ r \in delayed => Drivers(r) > 0
           /\ Drivers(r) \in Nat
<1>1. events \in Seq(Event)
  BY DEF Typed, TypeOK, Event
<1>2. /\ Times(events, Evt("invoke", r)) \in Nat /\ Times(events, Evt("answer", r)) \in Nat
      /\ Evt("answer", r) \in ToSet(events) <=> Times(events, Evt("answer", r)) > 0
  BY <1>1, LoadParts
<1>3. Posted("answer", r) = Times(events, Evt("answer", r))
  BY DEF Posted, Times
<1>4. Drivers(r) = Load(events, delayed, executing, r)
  BY DriversAre
<1> QED
  BY <1>2, <1>3, <1>4 DEF Running, Sent, Load

(* Two heads of one queue are one.                                         *)
LEMMA HeadIsOne ==
    ASSUME IInv, NEW r \in Reqs, NEW s \in Reqs, NodeOf[r] = NodeOf[s], Drivers(r) > 0, Drivers(s) > 0,
           r \in joined, s \in joined
    PROVE  r = s
<1>1. /\ dones[r] \in Nat /\ dones[s] \in Nat /\ dones[r] <= 1 /\ dones[s] <= 1
      /\ dones[r] # 1 /\ dones[s] # 1
  BY DEF IInv, Typed, TypeOK, DoneOnce
<1>2. Queued(r) /\ Queued(s)
  BY <1>1 DEF IInv, InLine
<1>3. IsHead(r) /\ IsHead(s)
  BY <1>2 DEF IInv, OneDriver
<1> QED
  BY <1>3 DEF IsHead

LEMMA Serial == IInv => GroupSerial
<1> SUFFICES ASSUME IInv, NEW r \in Reqs, NEW s \in Reqs, Running(r), Running(s), NodeOf[r] = NodeOf[s]
             PROVE  r = s
  BY DEF GroupSerial
<1>1. Sent(r) /\ Sent(s) /\ Drivers(r) > 0 /\ Drivers(s) > 0
  BY RunningIsSent DEF IInv
<1>2. r \in joined /\ s \in joined
  BY <1>1 DEF IInv, Begun
<1> QED
  BY <1>1, <1>2, HeadIsOne

-----------------------------------------------------------------------------
(* The request of the callback that runs has no other driver.              *)
LEMMA Current ==
    ASSUME IInv, NEW k \in {"invoke", "answer"}, NEW r \in Reqs, events # <<>>, Head(events) = Evt(k, r)
    PROVE  /\ Drivers(r) = 1 /\ dones[r] = 0 /\ caller[r] # "idle"
           /\ r \notin delayed /\ r \notin executing
           /\ Rest \in Seq(Event)
           /\ Times(Rest, Evt("invoke", r)) = 0 /\ Times(Rest, Evt("answer", r)) = 0
           /\ Sent(r) <=> k = "answer"
           /\ \A s \in Reqs : Drivers(s) = Load(Rest, delayed, executing, s) + (IF s = r THEN 1 ELSE 0)
           /\ \A s \in Reqs : s # r => (Evt("answer", s) \in ToSet(events) <=> Evt("answer", s) \in ToSet(Rest))
<1>1. events \in Seq(Event)
  BY DEF IInv, Typed, TypeOK, Event
<1>2. Rest \in Seq(Event)
  BY <1>1, LoadTail DEF Rest
<1>3. ASSUME NEW s \in Reqs
      PROVE  /\ Drivers(s) = Load(Rest, delayed, executing, s) + (IF s = r THEN 1 ELSE 0)
             /\ Load(Rest, delayed, executing, s) \in Nat
             /\ Times(events, Evt("answer", s))
                  = Times(Rest, Evt("answer", s)) + (IF k = "answer" /\ r = s THEN 1 ELSE 0)
             /\ Times(Rest, Evt("answer", s)) \in Nat
             /\ (Evt("answer", s) \in ToSet(events)) = (Times(events, Evt("answer", s)) > 0)
             /\ (Evt("answer", s) \in ToSet(Rest)) = (Times(Rest, Evt("answer", s)) > 0)
  <2>1. Drivers(s) = Load(events, delayed, executing, s)
    BY DriversAre
  <2>2. /\ Load(events, delayed, executing, s) = Load(Rest, delayed, executing, s) + (IF s = r THEN 1 ELSE 0)
        /\ Times(events, Evt("answer", s))
             = Times(Rest, Evt("answer", s)) + (IF k = "answer" /\ r = s THEN 1 ELSE 0)
    BY <1>1, LoadTail DEF Rest
  <2>3. /\ Load(Rest, delayed, executing, s) \in Nat /\ Times(Rest, Evt("answer", s)) \in Nat
        /\ Evt("answer", s) \in ToSet(Rest) <=> Times(Rest, Evt("answer", s)) > 0
    BY <1>2, LoadParts
  <2>4. Evt("answer", s) \in ToSet(events) <=> Times(events, Evt("answer", s)) > 0
    BY <1>1, LoadParts
  <2> QED
    BY <2>1, <2>2, <2>3, <2>4
<1>4. Drivers(r) = 1 /\ Load(Rest, delayed, executing, r) = 0
  BY <1>3 DEF IInv, OneDriver
<1>5. dones[r] = 0 /\ caller[r] # "idle"
  BY <1>4 DEF IInv, DoneOnce, Idle, Typed, TypeOK
<1>6. Times(Rest, Evt("invoke", r)) \in Nat /\ Times(Rest, Evt("answer", r)) \in Nat
  BY <1>2, LoadParts
<1>7. /\ r \notin delayed /\ r \notin executing
      /\ Times(Rest, Evt("invoke", r)) = 0 /\ Times(Rest, Evt("answer", r)) = 0
  BY <1>4, <1>6 DEF Load
<1>8. Sent(r) <=> k = "answer"
  <2>1. Times(events, Evt("answer", r)) = IF k = "answer" THEN 1 ELSE 0
    BY <1>3, <1>7
  <2> QED
    BY <1>3, <1>7, <2>1 DEF Sent
<1>9. \A s \in Reqs : s # r => (Evt("answer", s) \in ToSet(events) <=> Evt("answer", s) \in ToSet(Rest))
  <2> SUFFICES ASSUME NEW s \in Reqs, s # r
               PROVE  Evt("answer", s) \in ToSet(events) <=> Evt("answer", s) \in ToSet(Rest)
    OBVIOUS
  <2>1. Times(events, Evt("answer", s)) = Times(Rest, Evt("answer", s))
    BY <1>3
  <2> QED
    BY <1>3, <2>1
<1> QED
  BY <1>2, <1>3, <1>4, <1>5, <1>7, <1>8, <1>9

(* The queue of a request at its head, and what is behind it.              *)
LEMMA AtHead ==
    ASSUME IInv, NEW r \in Reqs, dones[r] = 0,
           NEW L, L = QueueWith(r), L # <<>>, Head(L) = r
    PROVE  /\ L \in Seq(Reqs) /\ Tail(L) \in Seq(Reqs) /\ r \in ToSet(L)
           /\ RemoveFirst(L, r) = Tail(L)
           /\ Distinct(Tail(L)) /\ r \notin ToSet(Tail(L))
           /\ ToSet(Tail(L)) = ToSet(deq[NodeOf[r]]) \ {r}
           /\ \A s \in ToSet(Tail(L)) : NodeOf[s] = NodeOf[r] /\ s \in joined /\ Drivers(s) = 0 /\ s \in Reqs
<1>1. L \in Seq(Reqs) /\ NodeOf[r] \in Nodes /\ deq[NodeOf[r]] \in Seq(Reqs)
  BY QueueWithType DEF IInv, Typed, TypeOK
<1>2. Tail(L) \in Seq(Reqs) /\ ToSet(L) = {r} \cup ToSet(Tail(L))
  BY <1>1, ToSetTail
<1>3. RemoveFirst(L, r) = Tail(L)
  BY <1>1, RemoveFirstHead
<1>4. CASE r \in joined
  <2>1. L = deq[NodeOf[r]] /\ Distinct(L)
    BY <1>1, <1>4 DEF QueueWith, IInv, Lines
  <2>2. Distinct(Tail(L)) /\ r \notin ToSet(Tail(L))
    BY <1>1, <2>1, DistinctTail
  <2>3. ASSUME NEW s \in ToSet(Tail(L))
        PROVE  NodeOf[s] = NodeOf[r] /\ s \in joined /\ Drivers(s) = 0 /\ s \in Reqs
    <3>1. s \in ToSet(deq[NodeOf[r]]) /\ s # r
      BY <1>2, <2>1, <2>2
    <3>2. NodeOf[s] = NodeOf[r] /\ s \in joined /\ s \in Reqs
      BY <1>1, <3>1 DEF IInv, Lines, Typed, TypeOK
    <3>3. Queued(s) /\ ~IsHead(s)
      BY <2>1, <3>1, <3>2 DEF Queued, IsHead
    <3>4. Drivers(s) = 0
      BY <3>2, <3>3 DEF IInv, OneDriver
    <3> QED
      BY <3>2, <3>4
  <2> QED
    BY <1>1, <1>2, <1>3, <2>1, <2>2, <2>3
<1>5. CASE r \notin joined
  <2>1. L = Append(deq[NodeOf[r]], r)
    BY <1>5 DEF QueueWith
  <2>2. r \notin ToSet(deq[NodeOf[r]])
    BY <1>1, <1>5 DEF IInv, Lines
  <2>3. deq[NodeOf[r]] = <<>>
    <3> SUFFICES ASSUME deq[NodeOf[r]] # <<>> PROVE FALSE
      OBVIOUS
    <3>1. Head(L) = Head(deq[NodeOf[r]])
      BY <1>1, <2>1
    <3>2. Head(deq[NodeOf[r]]) \in ToSet(deq[NodeOf[r]])
      BY <1>1, ToSetTail
    <3> QED
      BY <2>2, <3>1, <3>2
  <2>4. L = <<r>> /\ Tail(L) = <<>>
    BY <2>1, <2>3
  <2>5. ToSet(<<>>) = {} /\ Distinct(<<>>)
    BY DEF ToSet, Distinct
  <2> QED
    BY <1>1, <1>2, <1>3, <2>3, <2>4, <2>5
<1> QED
  BY <1>4, <1>5

(* A request that completes at the head of its queue leaves it to its      *)
(* successor.                                                              *)
LEMMA Finishes ==
    ASSUME IInv, Typed', NEW k \in {"invoke", "answer"}, NEW r \in Reqs, events # <<>>, Head(events) = Evt(k, r),
           NEW L, L = QueueWith(r), L # <<>>, Head(L) = r, DoneRequest(r, L, Rest), joined' = joined \cup {r},
           UNCHANGED <<delayed, executing>>, dones' = [dones EXCEPT ![r] = @ + 1],
           \A s \in Reqs : caller'[s] \notin {"expired", "canceling", "leaving", "posting"} /\ (caller'[s] = "idle" => caller[s] = "idle")
    PROVE  /\ Lines' /\ InLine' /\ OneDriver' /\ DoneOnce' /\ Idle'
           /\ \A s \in Reqs : Sent(s)' <=> Sent(s) /\ s # r
<1> DEFINE n == NodeOf[r]
           T == Tail(L)
           h == Head(T)
<1>1. /\ Drivers(r) = 1 /\ dones[r] = 0 /\ caller[r] # "idle" /\ Rest \in Seq(Event)
      /\ r \notin executing /\ Times(Rest, Evt("answer", r)) = 0
      /\ \A s \in Reqs : Drivers(s) = Load(Rest, delayed, executing, s) + (IF s = r THEN 1 ELSE 0)
      /\ \A s \in Reqs : s # r => (Evt("answer", s) \in ToSet(events) <=> Evt("answer", s) \in ToSet(Rest))
  BY Current
<1>2. /\ L \in Seq(Reqs) /\ T \in Seq(Reqs)
      /\ RemoveFirst(L, r) = T
      /\ Distinct(T) /\ r \notin ToSet(T)
      /\ ToSet(T) = ToSet(deq[n]) \ {r}
      /\ \A s \in ToSet(T) : NodeOf[s] = n /\ s \in joined /\ Drivers(s) = 0 /\ s \in Reqs
  BY <1>1, AtHead
<1>3. n \in Nodes /\ deq \in [Nodes -> Seq(Reqs)] /\ dones \in [Reqs -> Nat] /\ joined \subseteq Reqs
      /\ NodeOf \in [Reqs -> Nodes]
  <2>1. NodeOf \in [Reqs -> Nodes] /\ n \in Nodes
    BY RequestAssumption
  <2>2. TypeOK
    BY DEF IInv, Typed
  <2> QED
    BY ONLY <2>1, <2>2 DEF TypeOK
<1>4. /\ deq' = [deq EXCEPT ![n] = T]
      /\ events' = IF T = <<>> THEN Rest ELSE Append(Rest, Evt("invoke", h))
  BY <1>2 DEF DoneRequest
<1>0. /\ n = NodeOf[r] /\ h = Head(T)
      /\ \A m \in Nodes : deq'[m] = IF m = n THEN T ELSE deq[m]
  BY <1>3, <1>4
<1> HIDE DEF T, h, n
<1>5. T # <<>> => h \in Reqs /\ h \in ToSet(T)
  <2> SUFFICES ASSUME T # <<>> PROVE h \in Reqs /\ h \in ToSet(T)
    OBVIOUS
  <2>1. T \in Seq(Reqs)
    BY <1>2
  <2>2. Head(T) \in Reqs /\ ToSet(T) = {Head(T)} \cup ToSet(Tail(T))
    BY ONLY <2>1, T # <<>>, ToSetTail
  <2> QED
    BY <1>0, <2>2
<1>6. ASSUME NEW s \in Reqs
      PROVE  /\ Drivers(s)' = Drivers(s) - (IF s = r THEN 1 ELSE 0) + (IF T # <<>> /\ s = h THEN 1 ELSE 0)
             /\ Drivers(s) \in Nat
  <2>1. Drivers(s)' = Load(events', delayed, executing, s)
    BY DriversAre
  <2>2. Load(Rest, delayed, executing, s) \in Nat
    BY <1>1, LoadParts
  <2>3. CASE T = <<>>
    BY <1>1, <1>4, <2>1, <2>2, <2>3
  <2>4. CASE T # <<>>
    <3>1. Load(events', delayed, executing, s) = Load(Rest, delayed, executing, s) + (IF s = h THEN 1 ELSE 0)
      <4>1. events' = Append(Rest, Evt("invoke", h)) /\ Rest \in Seq(Event) /\ h \in Reqs /\ "invoke" \in {"invoke", "answer"}
        BY <1>1, <1>4, <1>5, <2>4
      <4> QED
        BY ONLY <4>1, LoadAppend, SMTT(30)
    <3> QED
      BY <1>1, <2>1, <2>2, <2>4, <3>1
  <2> QED
    BY <2>3, <2>4
<1>7. ASSUME NEW s \in Reqs
      PROVE  /\ Queued(s)' <=> Queued(s) /\ s # r
             /\ NodeOf[s] = n => (IsHead(s)' <=> Queued(s)' /\ h = s)
             /\ NodeOf[s] # n => (IsHead(s)' <=> IsHead(s))
             /\ NodeOf[s] = n => (Queued(s)' <=> s \in ToSet(T))
  <2>1. NodeOf[s] \in Nodes
    BY <1>3
  <2>2. CASE NodeOf[s] = n
    <3>1. deq'[NodeOf[s]] = T
      BY <1>0, <2>1, <2>2
    <3> QED
      BY <1>0, <1>2, <2>2, <3>1 DEF Queued, IsHead
  <2>3. CASE NodeOf[s] # n
    <3>1. deq'[NodeOf[s]] = deq[NodeOf[s]] /\ s # r
      BY <1>0, <2>1, <2>3
    <3> QED
      BY <2>3, <3>1 DEF Queued, IsHead
  <2> QED
    BY <2>2, <2>3
<1>8. ASSUME NEW s \in Reqs
      PROVE  /\ Drivers(s)' <= 1 /\ (Queued(s)' => Drivers(s)' = (IF IsHead(s)' THEN 1 ELSE 0))
             /\ dones'[s] <= 1 /\ (dones'[s] = 1 => ~Queued(s)' /\ Drivers(s)' = 0)
  <2>1. /\ Drivers(s) <= 1 /\ (Queued(s) => Drivers(s) = (IF IsHead(s) THEN 1 ELSE 0))
        /\ dones[s] <= 1 /\ (dones[s] = 1 => ~Queued(s) /\ Drivers(s) = 0)
    BY DEF IInv, OneDriver, DoneOnce
  <2>2. CASE s = r
    <3>1. ~(T # <<>> /\ s = h)
      BY <1>2, <1>5, <2>2
    <3>2. Drivers(s)' = 0
      BY <1>1, <1>6, <2>2, <3>1
    <3>3. dones'[s] = 1 /\ ~Queued(s)'
      BY <1>1, <1>3, <1>7, <2>2
    <3> QED
      BY <3>2, <3>3
  <2>3. CASE s # r /\ T # <<>> /\ s = h
    <3>1. s \in ToSet(T) /\ Drivers(s) = 0 /\ NodeOf[s] = n
      BY <1>2, <1>5, <2>3
    <3>2. Drivers(s)' = 1
      BY <1>6, <2>3, <3>1
    <3>3. Queued(s)' /\ IsHead(s)' /\ Queued(s)
      BY <1>7, <2>3, <3>1
    <3>4. dones'[s] = dones[s] /\ dones[s] \in Nat
      BY <1>3, <2>3
    <3> QED
      BY <2>1, <3>2, <3>3, <3>4
  <2>4. CASE s # r /\ ~(T # <<>> /\ s = h)
    <3>1. Drivers(s)' = Drivers(s)
      BY <1>6, <2>4
    <3>2. dones'[s] = dones[s] /\ dones[s] \in Nat
      BY <1>3, <2>4
    <3>3. Queued(s)' <=> Queued(s)
      BY <1>7, <2>4
    <3>4. Queued(s)' => Drivers(s)' = (IF IsHead(s)' THEN 1 ELSE 0)
      <4>1. CASE NodeOf[s] # n
        BY <1>7, <2>1, <3>1, <3>3, <4>1
      <4>2. CASE NodeOf[s] = n
        <5> SUFFICES ASSUME Queued(s)' PROVE Drivers(s)' = (IF IsHead(s)' THEN 1 ELSE 0)
          OBVIOUS
        <5>1. s \in ToSet(T)
          BY <1>7, <4>2
        <5>2. T # <<>>
          BY <5>1 DEF ToSet
        <5>3. ~IsHead(s)'
          BY <1>7, <2>4, <4>2, <5>2
        <5> QED
          BY <1>2, <3>1, <5>1, <5>3
      <4> QED
        BY <4>1, <4>2
    <3> QED
      BY <2>1, <3>1, <3>2, <3>3, <3>4
  <2> QED
    BY <2>2, <2>3, <2>4
<1>9. OneDriver' /\ DoneOnce'
  BY <1>8 DEF OneDriver, DoneOnce
<1>10. Lines'
  <2> SUFFICES ASSUME NEW m \in Nodes
               PROVE  Distinct(deq'[m]) /\ \A s \in ToSet(deq'[m]) : NodeOf[s] = m /\ s \in joined'
    BY DEF Lines
  <2>1. CASE m = n
    <3>1. deq'[m] = T
      BY <1>0, <2>1
    <3> QED
      BY <1>2, <2>1, <3>1
  <2>2. CASE m # n
    <3>1. deq'[m] = deq[m]
      BY <1>0, <2>2
    <3> QED
      BY <3>1 DEF IInv, Lines
  <2> QED
    BY <2>1, <2>2
<1>11. InLine'
  <2> SUFFICES ASSUME NEW s \in joined', dones'[s] = 0 PROVE Queued(s)'
    BY DEF InLine
  <2>1. s \in Reqs /\ s # r
    BY <1>1, <1>3
  <2>2. dones[s] = 0 /\ s \in joined
    BY <1>3, <2>1
  <2> QED
    BY <1>7, <2>1, <2>2 DEF IInv, InLine
<1>12. Idle'
  <2> SUFFICES ASSUME NEW s \in Reqs
               PROVE  /\ caller'[s] = "idle" => Drivers(s)' = 0 /\ dones'[s] = 0 /\ s \notin joined'
                      /\ caller'[s] \notin {"expired", "canceling", "leaving", "posting"}
    BY DEF Idle
  <2> SUFFICES ASSUME caller'[s] = "idle" PROVE Drivers(s)' = 0 /\ dones'[s] = 0 /\ s \notin joined'
    OBVIOUS
  <2>1. caller[s] = "idle" /\ s # r
    BY <1>1
  <2>2. Drivers(s) = 0 /\ dones[s] = 0 /\ s \notin joined
    BY <2>1 DEF IInv, Idle
  <2>3. ~(T # <<>> /\ s = h)
    BY <1>2, <1>5, <2>2
  <2>4. Drivers(s)' = 0
    BY <1>6, <2>1, <2>2, <2>3
  <2>5. dones'[s] = 0 /\ s \notin joined'
    BY <1>3, <2>1, <2>2
  <2> QED
    BY <2>4, <2>5
<1>13. ASSUME NEW s \in Reqs
       PROVE  Sent(s)' <=> Sent(s) /\ s # r
  <2>1. Evt("answer", s) \in ToSet(events') <=> Evt("answer", s) \in ToSet(Rest)
    <3>1. CASE T = <<>>
      BY <1>4, <3>1
    <3>2. CASE T # <<>>
      <4>1. Evt("invoke", h) \in Event /\ Evt("answer", s) # Evt("invoke", h)
        BY <1>5, <3>2, EvtType DEF Evt
      <4>2. ToSet(events') = ToSet(Rest) \cup {Evt("invoke", h)}
        BY <1>1, <1>4, <3>2, <4>1, ToSetAppend
      <4> QED
        BY <4>1, <4>2
    <3> QED
      BY <3>1, <3>2
  <2>2. CASE s = r
    <3>1. Evt("answer", r) \notin ToSet(Rest)
      <4>1. Evt("answer", r) \in ToSet(Rest) <=> Times(Rest, Evt("answer", r)) > 0
        BY <1>1, LoadParts
      <4> QED
        BY <1>1, <4>1
    <3> QED
      BY <1>1, <2>1, <2>2, <3>1 DEF Sent
  <2>3. CASE s # r
    BY <1>1, <2>1, <2>3 DEF Sent
  <2> QED
    BY <2>2, <2>3
<1> QED
  BY <1>9, <1>10, <1>11, <1>12, <1>13
-----------------------------------------------------------------------------
LEMMA NoCancel ==
    ASSUME IInv, NEW r \in Reqs, Completed(r) \/ UNCHANGED caller
    PROVE  \A s \in Reqs : caller'[s] \notin {"expired", "canceling", "leaving", "posting"} /\ (caller'[s] = "idle" => caller[s] = "idle")
BY DEF IInv, Typed, TypeOK, Idle, Completed

(* A request whose callback runs is in the queue it finds.                 *)
LEMMA HasQueue ==
    ASSUME IInv, NEW r \in Reqs, dones[r] = 0
    PROVE  QueueWith(r) \in Seq(Reqs) /\ QueueWith(r) # <<>> /\ r \in ToSet(QueueWith(r))
<1>1. QueueWith(r) \in Seq(Reqs) /\ NodeOf[r] \in Nodes /\ deq[NodeOf[r]] \in Seq(Reqs)
  BY QueueWithType DEF IInv, Typed, TypeOK
<1>2. r \in ToSet(QueueWith(r))
  <2>1. CASE r \in joined
    BY <2>1 DEF QueueWith, IInv, InLine, Queued
  <2>2. CASE r \notin joined
    BY <1>1, <2>2, ToSetAppend DEF QueueWith
  <2> QED
    BY <2>1, <2>2
<1>3. QueueWith(r) # <<>>
  BY <1>2 DEF ToSet
<1> QED
  BY <1>1, <1>2, <1>3

(* The node works on no other command than that of the head.               *)
LEMMA Alone ==
    ASSUME IInv, NEW r \in Reqs, dones[r] = 0, Head(QueueWith(r)) = r, NEW s \in Reqs, s # r, Sent(s)
    PROVE  NodeOf[s] # NodeOf[r]
<1> SUFFICES ASSUME NodeOf[s] = NodeOf[r] PROVE FALSE
  OBVIOUS
<1>1. Drivers(s) > 0
  BY RunningIsSent DEF IInv
<1>2. s \in joined /\ dones[s] = 0
  BY <1>1 DEF IInv, Begun, DoneOnce, Typed, TypeOK
<1>3. s \in ToSet(deq[NodeOf[r]])
  BY <1>2 DEF IInv, InLine, Queued
<1>4. QueueWith(r) # <<>>
  BY HasQueue
<1>5. /\ ToSet(Tail(QueueWith(r))) = ToSet(deq[NodeOf[r]]) \ {r}
      /\ \A m \in ToSet(Tail(QueueWith(r))) : Drivers(m) = 0
  BY <1>4, AtHead
<1> QED
  BY <1>1, <1>3, <1>5

(* A request at the head that did not join yet found an empty queue.       *)
LEMMA NewAtHead ==
    ASSUME IInv, NEW r \in Reqs, dones[r] = 0, Head(QueueWith(r)) = r
    PROVE  /\ r \in joined => QueueWith(r) = deq[NodeOf[r]] /\ Groups!IsFirst(r)
           /\ r \notin joined => deq[NodeOf[r]] = <<>> /\ QueueWith(r) = <<r>>
<1>1. deq[NodeOf[r]] \in Seq(Reqs) /\ NodeOf[r] \in Nodes
  BY RequestAssumption DEF IInv, Typed, TypeOK
<1>2. CASE r \in joined
  <2>1. QueueWith(r) = deq[NodeOf[r]] /\ QueueWith(r) # <<>>
    BY <1>2, HasQueue DEF QueueWith
  <2> QED
    BY <1>2, <2>1 DEF Groups!IsFirst
<1>3. CASE r \notin joined
  <2>1. QueueWith(r) = Append(deq[NodeOf[r]], r) /\ r \notin ToSet(deq[NodeOf[r]])
    BY <1>1, <1>3 DEF QueueWith, IInv, Lines
  <2>2. deq[NodeOf[r]] = <<>>
    <3> SUFFICES ASSUME deq[NodeOf[r]] # <<>> PROVE FALSE
      OBVIOUS
    <3>1. Head(deq[NodeOf[r]]) = r
      BY <1>1, <2>1
    <3>2. Head(deq[NodeOf[r]]) \in ToSet(deq[NodeOf[r]])
      BY <1>1, ToSetTail
    <3> QED
      BY <2>1, <3>1, <3>2
  <2> QED
    BY <1>3, <2>1, <2>2
<1> QED
  BY <1>2, <1>3

LEMMA BegunStep ==
    ASSUME IInv, NEW r \in Reqs, joined \subseteq joined',
           \A s \in Reqs \ {r} :
               /\ Sent(s)' <=> Sent(s)
               /\ dones'[s] = dones[s] /\ reqNode'[s] = reqNode[s]
               /\ s \in ToSet(started') <=> s \in ToSet(started)
               /\ Sent(s) => nodeReq'[reqNode[s]] = nodeReq[reqNode[s]],
           Sent(r)' => /\ r \in ToSet(started') /\ reqNode'[r][1] = NodeOf[r]
                       /\ r \in UsesSelf => nodeReq'[reqNode'[r]] = r,
           r \in ToSet(started') => r \in joined' /\ (dones'[r] = 0 => Sent(r)')
    PROVE  Begun'
<1> SUFFICES ASSUME NEW s \in Reqs
             PROVE  /\ Sent(s)' => /\ s \in ToSet(started') /\ reqNode'[s][1] = NodeOf[s]
                                   /\ s \in UsesSelf => nodeReq'[reqNode'[s]] = s
                    /\ s \in ToSet(started') => s \in joined' /\ (dones'[s] = 0 => Sent(s)')
  BY DEF Begun
<1>1. CASE s = r
  BY <1>1
<1>2. CASE s # r
  BY <1>2 DEF IInv, Begun
<1> QED
  BY <1>1, <1>2

(* What a request started adds to the history.                             *)
LEMMA StartedStep ==
    ASSUME Typed, NEW r \in Reqs, started' = started \/ started' = Append(started, r)
    PROVE  \A s \in Reqs \ {r} : s \in ToSet(started') <=> s \in ToSet(started)
<1>1. started \in Seq(Reqs)
  BY DEF Typed, TypeOK
<1>2. ToSet(Append(started, r)) = ToSet(started) \cup {r}
  BY <1>1, ToSetAppend
<1> QED
  BY <1>2

(* A completion of a request that is in the queue.                         *)
LEMMA DoneQueued ==
    ASSUME IInv, NEW r \in Reqs, NEW a, NEW o \in Objs \cup {NoObj}, r \in Futures => o \in Objs,
           NEW q, r \in ToSet(q), NEW rest, Done(r, a, o, q, rest)
    PROVE  /\ DoneRequest(r, q, rest) /\ Completed(r)
           /\ result' = [result EXCEPT ![r] = a]
           /\ dones' = [dones EXCEPT ![r] = @ + 1]
           /\ \A p \in Objs : (r \in Futures => p # o) => nodeReq'[p] = nodeReq[p]
<1>1. NoObj \notin Objs
  BY RequestAssumption DEF Objs
<1>2. CASE r \in Futures
  <2>1. o # NoObj /\ FutureDone(r, a, o, q, rest)
    BY <1>1, <1>2 DEF Done
  <2>2. /\ DoneRequest(r, q, rest) /\ Completed(r)
        /\ result' = [result EXCEPT ![r] = a]
        /\ dones' = [dones EXCEPT ![r] = @ + 1]
        /\ nodeReq' = [nodeReq EXCEPT ![o] = NoReq]
    BY <2>1 DEF FutureDone
  <2>3. \A p \in Objs : p # o => nodeReq'[p] = nodeReq[p]
    BY <2>2 DEF IInv, Typed, TypeOK
  <2> QED
    BY <1>2, <2>2, <2>3
<1>3. CASE r \notin Futures
  BY <1>3 DEF Done, RequestDone
<1> QED
  BY <1>2, <1>3

(* The phases of QueueGroups.                                              *)
Phases == [r \in Reqs |-> PhaseOf(r)]

LEMMA PhaseStep ==
    ASSUME NEW r \in Reqs,
           \A s \in Reqs \ {r} :
               /\ dones'[s] = dones[s]
               /\ s \in ToSet(started') <=> s \in ToSet(started)
               /\ s \in joined' <=> s \in joined
    PROVE  /\ Phases[r] = PhaseOf(r)
           /\ Phases' = [Phases EXCEPT ![r] = PhaseOf(r)']
<1>1. \A s \in Reqs \ {r} : PhaseOf(s)' = PhaseOf(s)
  BY DEF PhaseOf
<1> QED
  BY <1>1 DEF Phases

(* A request that is new or waits.                                         *)
LEMMA PhaseNow ==
    ASSUME IInv, NEW r \in Reqs, dones[r] = 0
    PROVE  /\ r \notin joined => PhaseOf(r) = "new"
           /\ r \in joined => PhaseOf(r) \in {"queued", "running"}
           /\ r \in joined /\ ~Sent(r) => PhaseOf(r) = "queued"
BY DEF IInv, Begun, PhaseOf

(* A completion at the head of the queue keeps the invariant.              *)
LEMMA FinishStep ==
    ASSUME IInv, Typed', NEW k \in {"invoke", "answer"}, NEW r \in Reqs, events # <<>>, Head(events) = Evt(k, r),
           NEW o \in Objs \cup {NoObj}, r \in Futures => o \in Objs /\ o[1] = NodeOf[r],
           NEW a \in {"error", r}, Head(QueueWith(r)) = r, Done(r, a, o, QueueWith(r), Rest),
           joined' = joined \cup {r}, UNCHANGED <<delayed, executing, envVars>>,
           started' = started \/ started' = Append(started, r),
           reqNode' = reqNode \/ reqNode' = [reqNode EXCEPT ![r] = Obj(NodeOf[r])]
    PROVE  IInv' /\ (Groups!Finish(r) \/ Groups!Fail(r))
<1>1. dones[r] = 0
  BY Current
<1>2. QueueWith(r) # <<>> /\ r \in ToSet(QueueWith(r))
  BY <1>1, HasQueue
<1>3. /\ DoneRequest(r, QueueWith(r), Rest) /\ Completed(r)
      /\ result' = [result EXCEPT ![r] = a]
      /\ dones' = [dones EXCEPT ![r] = @ + 1]
      /\ \A p \in Objs : (r \in Futures => p # o) => nodeReq'[p] = nodeReq[p]
  <2>1. r \in Futures => o \in Objs
    OBVIOUS
  <2>2. Done(r, a, o, QueueWith(r), Rest) /\ r \in ToSet(QueueWith(r)) /\ IInv
    BY <1>2
  <2> QED
    BY ONLY <2>1, <2>2, DoneQueued, r \in Reqs, o \in Objs \cup {NoObj}, Zenon
<1>4. \A s \in Reqs : caller'[s] \notin {"expired", "canceling", "leaving", "posting"} /\ (caller'[s] = "idle" => caller[s] = "idle")
  BY <1>3, NoCancel
<1>5. /\ Lines' /\ InLine' /\ OneDriver' /\ DoneOnce' /\ Idle'
      /\ \A s \in Reqs : Sent(s)' <=> Sent(s) /\ s # r
  BY <1>2, <1>3, <1>4, Finishes
<1>6. Begun'
  <2>1. \A s \in Reqs \ {r} : Sent(s) => nodeReq'[reqNode[s]] = nodeReq[reqNode[s]]
    <3> SUFFICES ASSUME NEW s \in Reqs \ {r}, Sent(s) PROVE nodeReq'[reqNode[s]] = nodeReq[reqNode[s]]
      OBVIOUS
    <3>1. NodeOf[s] # NodeOf[r]
      BY <1>1, Alone
    <3>2. reqNode[s] \in Objs /\ reqNode[s][1] = NodeOf[s]
      BY DEF IInv, Typed, SentOn, Begun
    <3> QED
      BY <1>3, <3>1, <3>2
  <2>2. \A s \in Reqs \ {r} : dones'[s] = dones[s] /\ reqNode'[s] = reqNode[s]
    BY <1>3 DEF IInv, Typed, TypeOK
  <2>3. \A s \in Reqs \ {r} : s \in ToSet(started') <=> s \in ToSet(started)
    BY StartedStep DEF IInv
  <2>4. dones'[r] = 1
    BY <1>1, <1>3 DEF IInv, Typed, TypeOK
  <2> QED
    BY <1>5, <2>1, <2>2, <2>3, <2>4, BegunStep
<1>7. Stay'
  BY DEF IInv, Stay, envVars
<1>8. OwnAnswer'
  <2>1. result \in [Reqs -> Reqs \cup {"none", "error", "cancel"}] /\ "error" \notin Reqs
    BY RequestAssumption DEF IInv, Typed, TypeOK
  <2> QED
    BY <1>3, <2>1 DEF IInv, OwnAnswer
<1>9. Groups!Finish(r) \/ Groups!Fail(r)
  <2>1. \A s \in Reqs \ {r} : dones'[s] = dones[s] /\ (s \in ToSet(started') <=> s \in ToSet(started))
    BY <1>3, StartedStep DEF IInv, Typed, TypeOK
  <2>2. PhaseOf(r)' = "done"
    BY <1>1, <1>3 DEF IInv, Typed, TypeOK, PhaseOf
  <2>3. Phases[r] = PhaseOf(r) /\ Phases' = [Phases EXCEPT ![r] = "done"]
    BY <2>1, <2>2, PhaseStep
  <2>4. deq' = [deq EXCEPT ![NodeOf[r]] = Tail(QueueWith(r))]
    BY <1>1, <1>2, <1>3, AtHead DEF DoneRequest
  <2>5. deq \in [Nodes -> Seq(Reqs)] /\ NodeOf[r] \in Nodes
    BY RequestAssumption DEF IInv, Typed, TypeOK
  <2>6. CASE r \in joined
    <3>1. QueueWith(r) = deq[NodeOf[r]] /\ Groups!IsFirst(r)
      BY <1>1, <2>6, NewAtHead
    <3>2. Phases[r] \in {"queued", "running"}
      BY <1>1, <2>3, <2>6, PhaseNow
    <3> QED
      BY <2>3, <2>4, <3>1, <3>2 DEF Groups!Finish, Phases
  <2>7. CASE r \notin joined
    <3>1. deq[NodeOf[r]] = <<>> /\ Tail(QueueWith(r)) = <<>>
      <4>1. deq[NodeOf[r]] = <<>> /\ QueueWith(r) = <<r>>
        BY <1>1, <2>7, NewAtHead
      <4> QED
        BY <4>1
    <3>2. Phases[r] = "new"
      BY <1>1, <2>3, <2>7, PhaseNow
    <3>3. deq' = deq
      BY <2>4, <2>5, <3>1
    <3> QED
      BY <2>3, <3>2, <3>3 DEF Groups!Fail, Phases
  <2> QED
    BY <2>6, <2>7
<1> QED
  BY <1>5, <1>6, <1>7, <1>8, <1>9 DEF IInv

-----------------------------------------------------------------------------
LEMMA InitIInv == Init => Stay /\ Lines /\ InLine /\ OneDriver /\ DoneOnce /\ Idle /\ Begun /\ OwnAnswer
<1> SUFFICES ASSUME Init PROVE Stay /\ Lines /\ InLine /\ OneDriver /\ DoneOnce /\ Idle /\ Begun /\ OwnAnswer
  OBVIOUS
<1>1. ToSet(<<>>) = {} /\ Distinct(<<>>)
  BY DEF ToSet, Distinct
<1>2. \A r \in Reqs : Drivers(r) = 0
  <2> SUFFICES ASSUME NEW r \in Reqs PROVE Drivers(r) = 0
    OBVIOUS
  <2>1. Drivers(r) = Load(<<>>, {}, {}, r)
    BY DriversAre DEF Init
  <2>2. Load(<<>>, {}, {}, r) = 0
    BY TimesEmpty DEF Load
  <2> QED
    BY <2>1, <2>2
<1>3. Stay /\ Lines /\ InLine /\ Idle
  BY <1>1, <1>2 DEF Init, Stay, Lines, InLine, Idle
<1>4. \A r \in Reqs : ~Queued(r)
  BY <1>1, RequestAssumption DEF Init, Queued
<1>5. OneDriver /\ DoneOnce
  BY <1>2, <1>4 DEF Init, OneDriver, DoneOnce
<1>6. Begun
  BY <1>1 DEF Init, Begun, Sent
<1>7. OwnAnswer
  BY RequestAssumption DEF Init, OwnAnswer
<1> QED
  BY <1>3, <1>5, <1>6, <1>7

(* Steps that move no request of a queue.                                  *)
LEMMA Moves ==
    ASSUME IInv, Typed', \A s \in Reqs : Drivers(s)' = Drivers(s) /\ (Sent(s)' <=> Sent(s)),
           UNCHANGED <<deq, joined, dones, result, started, reqNode, nodeReq>>,
           \A s \in Reqs : caller'[s] \notin {"expired", "canceling", "leaving", "posting"} /\ (caller'[s] = "idle" => caller[s] = "idle"),
           Nodes \ Removable \subseteq present'
    PROVE  IInv'
<1>1. \A s \in Reqs : (Queued(s)' <=> Queued(s)) /\ (IsHead(s)' <=> IsHead(s))
  BY DEF Queued, IsHead
<1>2. Lines' /\ InLine' /\ Stay' /\ OwnAnswer'
  BY <1>1 DEF IInv, Lines, InLine, Stay, OwnAnswer, Typed, TypeOK
<1>3. OneDriver'
  BY <1>1 DEF IInv, OneDriver
<1>4. DoneOnce'
  BY <1>1 DEF IInv, DoneOnce
<1>5. Idle'
  BY DEF IInv, Idle
<1>6. Begun'
  BY DEF IInv, Begun
<1> QED
  BY <1>2, <1>3, <1>4, <1>5, <1>6 DEF IInv

(* A posted callback that is put into the timer, and back.                 *)
LEMMA RetryKeeps ==
    ASSUME IInv, Typed', NEW r \in Reqs, Retry(r) \/ Answer(r)
    PROVE  IInv'
<1>1. PICK k \in {"invoke", "answer"} :
        /\ events' = Append(events, Evt(k, r))
        /\ delayed' = IF k = "invoke" THEN delayed \ {r} ELSE delayed
        /\ executing' = IF k = "answer" THEN executing \ {r} ELSE executing
        /\ k = "invoke" => r \in delayed
        /\ k = "answer" => r \in executing
  BY DEF Retry, Answer
<1>2. events \in Seq(Event)
  BY DEF IInv, Typed, TypeOK, Event
<1>3. ASSUME NEW s \in Reqs
      PROVE  Drivers(s)' = Drivers(s)
  <2>1. Drivers(s)' = Load(events, delayed', executing', s) + (IF s = r THEN 1 ELSE 0)
    <3>1. Drivers(s)' = Load(events', delayed', executing', s)
      BY DriversAre
    <3>2. Load(Append(events, Evt(k, r)), delayed', executing', s)
            = Load(events, delayed', executing', s) + (IF s = r THEN 1 ELSE 0)
      BY <1>2, LoadAppend
    <3> QED
      BY <1>1, <3>1, <3>2
  <2>2. Drivers(s) = Load(events, delayed, executing, s)
    BY DriversAre
  <2>3. Times(events, Evt("invoke", s)) \in Nat /\ Times(events, Evt("answer", s)) \in Nat
    BY <1>2, LoadParts
  <2> QED
    BY <1>1, <2>1, <2>2, <2>3 DEF Load
<1>4. ASSUME NEW s \in Reqs
      PROVE  Sent(s)' <=> Sent(s)
  <2>1. ToSet(events') = ToSet(events) \cup {Evt(k, r)}
    BY <1>1, <1>2, EvtType, ToSetAppend
  <2>2. Evt(k, r) = Evt("answer", s) <=> k = "answer" /\ r = s
    BY DEF Evt
  <2> QED
    BY <1>1, <2>1, <2>2 DEF Sent
<1>5. /\ UNCHANGED <<deq, joined, dones, result, started, reqNode, nodeReq, caller>>
      /\ present' = present
  BY DEF Retry, Answer, envVars
<1>6. \A s \in Reqs : caller'[s] \notin {"expired", "canceling", "leaving", "posting"} /\ (caller'[s] = "idle" => caller[s] = "idle")
  BY <1>5, NoCancel
<1> QED
  BY <1>3, <1>4, <1>5, <1>6, Moves DEF IInv, Stay

LEMMA ManagerBusyKeeps ==
    ASSUME IInv, Typed', NEW r \in Reqs, ManagerBusy(r)
    PROVE  IInv'
<1>1. events # <<>> /\ Head(events) = Evt("invoke", r)
  BY DEF ManagerBusy, Invoked
<1>2. events' = Rest /\ delayed' = delayed \cup {r} /\ executing' = executing
  BY DEF ManagerBusy
<1>3. /\ r \notin delayed /\ ~Sent(r) /\ Rest \in Seq(Event) /\ Times(Rest, Evt("answer", r)) = 0
      /\ \A s \in Reqs : Drivers(s) = Load(Rest, delayed, executing, s) + (IF s = r THEN 1 ELSE 0)
      /\ \A s \in Reqs : s # r => (Evt("answer", s) \in ToSet(events) <=> Evt("answer", s) \in ToSet(Rest))
  BY <1>1, Current
<1>4. ASSUME NEW s \in Reqs
      PROVE  Drivers(s)' = Drivers(s)
  <2>1. Drivers(s)' = Load(Rest, delayed', executing, s)
    BY <1>2, DriversAre
  <2>2. Times(Rest, Evt("invoke", s)) \in Nat /\ Times(Rest, Evt("answer", s)) \in Nat
    BY <1>3, LoadParts
  <2> QED
    BY <1>2, <1>3, <2>1, <2>2 DEF Load
<1>5. ASSUME NEW s \in Reqs
      PROVE  Sent(s)' <=> Sent(s)
  <2>1. Evt("answer", r) \notin ToSet(Rest)
    BY <1>3, LoadParts
  <2> QED
    BY <1>2, <1>3, <2>1 DEF Sent
<1>6. /\ UNCHANGED <<deq, joined, dones, result, started, reqNode, nodeReq, caller>>
      /\ present' = present
  BY DEF ManagerBusy, envVars
<1>7. \A s \in Reqs : caller'[s] \notin {"expired", "canceling", "leaving", "posting"} /\ (caller'[s] = "idle" => caller[s] = "idle")
  BY <1>6, NoCancel
<1> QED
  BY <1>4, <1>5, <1>6, <1>7, Moves DEF IInv, Stay

LEMMA CallKeeps ==
    ASSUME IInv, Typed', NEW r \in Reqs, Call(r)
    PROVE  IInv'
<1>1. /\ events' = Append(events, Evt("invoke", r)) /\ caller[r] = "idle"
      /\ caller' = [caller EXCEPT ![r] = "waiting"]
      /\ UNCHANGED <<deq, joined, delayed, executing, dones, result, started, reqNode, nodeReq, present>>
  BY DEF Call, envVars
<1>2. events \in Seq(Event) /\ caller \in [Reqs -> CallerStates]
  BY DEF IInv, Typed, TypeOK, Event
<1>3. Drivers(r) = 0 /\ dones[r] = 0 /\ r \notin joined
  BY <1>1 DEF IInv, Idle
<1>4. ASSUME NEW s \in Reqs
      PROVE  Drivers(s)' = Drivers(s) + (IF s = r THEN 1 ELSE 0) /\ (Sent(s)' <=> Sent(s))
  <2>1. Drivers(s)' = Load(events, delayed, executing, s) + (IF s = r THEN 1 ELSE 0)
    <3>1. Drivers(s)' = Load(events', delayed, executing, s)
      BY <1>1, DriversAre
    <3>2. Load(Append(events, Evt("invoke", r)), delayed, executing, s)
            = Load(events, delayed, executing, s) + (IF s = r THEN 1 ELSE 0)
      <4>1. events \in Seq(Event) /\ "invoke" \in {"invoke", "answer"}
        BY <1>2
      <4> QED
        BY <4>1, LoadAppend, SMTT(30)
    <3> QED
      BY <1>1, <3>1, <3>2
  <2>2. ToSet(events') = ToSet(events) \cup {Evt("invoke", r)}
    BY <1>1, <1>2, EvtType, ToSetAppend
  <2>3. Evt("answer", s) # Evt("invoke", r)
    BY DEF Evt
  <2> QED
    BY <1>1, <2>1, <2>2, <2>3, DriversAre DEF Sent
<1>5. \A s \in Reqs : (Queued(s)' <=> Queued(s)) /\ (IsHead(s)' <=> IsHead(s))
  BY <1>1 DEF Queued, IsHead
<1>6. ~Queued(r)
  BY <1>3, RequestAssumption DEF IInv, Lines, Queued
<1>7. OneDriver'
  <2> SUFFICES ASSUME NEW s \in Reqs
               PROVE  Drivers(s)' <= 1 /\ (Queued(s)' => Drivers(s)' = (IF IsHead(s)' THEN 1 ELSE 0))
    BY DEF OneDriver
  <2>1. CASE s = r
    BY <1>3, <1>4, <1>5, <1>6, <2>1
  <2>2. CASE s # r
    <3>1. Drivers(s)' = Drivers(s) /\ Drivers(s) \in Nat
      BY <1>4, <2>2, RunningIsSent DEF IInv
    <3> QED
      BY <1>5, <3>1 DEF IInv, OneDriver
  <2> QED
    BY <2>1, <2>2
<1>8. DoneOnce'
  BY <1>1, <1>3, <1>4, <1>5 DEF IInv, DoneOnce
<1>9. Idle'
  BY <1>1, <1>2, <1>3, <1>4 DEF IInv, Idle
<1>10. Begun'
  BY <1>1, <1>4 DEF IInv, Begun
<1>11. Lines' /\ InLine' /\ Stay' /\ OwnAnswer'
  BY <1>1, <1>5 DEF IInv, Lines, InLine, Stay, OwnAnswer, Typed, TypeOK
<1> QED
  BY <1>7, <1>8, <1>9, <1>10, <1>11 DEF IInv
-----------------------------------------------------------------------------
(* A request joins the queue of its node; at its head it keeps a driver.   *)
LEMMA Joins ==
    ASSUME IInv, Typed', NEW r \in Reqs, Invoked(r),
           deq' = [deq EXCEPT ![NodeOf[r]] = QueueWith(r)], joined' = joined \cup {r},
           events' = Rest, UNCHANGED <<dones, caller>>,
           \A s \in Reqs \ {r} : (s \in delayed' <=> s \in delayed) /\ (s \in executing' <=> s \in executing),
           IF Head(QueueWith(r)) = r
             THEN (r \in delayed' /\ r \notin executing') \/ (r \notin delayed' /\ r \in executing')
             ELSE r \notin delayed' /\ r \notin executing'
    PROVE  /\ Lines' /\ InLine' /\ OneDriver' /\ DoneOnce' /\ Idle'
           /\ \A s \in Reqs \ {r} : Sent(s)' <=> Sent(s)
           /\ Sent(r)' <=> r \in executing'
<1> DEFINE n == NodeOf[r]
           L == QueueWith(r)
<1>1. events # <<>> /\ Head(events) = Evt("invoke", r)
  BY DEF Invoked
<1>2. /\ Drivers(r) = 1 /\ dones[r] = 0 /\ caller[r] # "idle" /\ Rest \in Seq(Event)
      /\ Times(Rest, Evt("invoke", r)) = 0 /\ Times(Rest, Evt("answer", r)) = 0
      /\ \A s \in Reqs : Drivers(s) = Load(Rest, delayed, executing, s) + (IF s = r THEN 1 ELSE 0)
      /\ \A s \in Reqs : s # r => (Evt("answer", s) \in ToSet(events) <=> Evt("answer", s) \in ToSet(Rest))
  BY <1>1, Current
<1>3. n \in Nodes /\ deq \in [Nodes -> Seq(Reqs)] /\ dones \in [Reqs -> Nat] /\ joined \subseteq Reqs
      /\ NodeOf \in [Reqs -> Nodes] /\ deq[n] \in Seq(Reqs)
  BY RequestAssumption DEF IInv, Typed, TypeOK
<1>4. L \in Seq(Reqs) /\ L # <<>> /\ r \in ToSet(L)
  BY <1>2, HasQueue
<1>5. /\ Distinct(L) /\ ToSet(L) = ToSet(deq[n]) \cup {r}
      /\ deq[n] # <<>> => Head(L) = Head(deq[n])
      /\ deq[n] = <<>> => Head(L) = r
  <2>1. CASE r \in joined
    <3>1. L = deq[n]
      BY <2>1 DEF QueueWith
    <3> QED
      BY <1>3, <1>4, <3>1 DEF IInv, Lines
  <2>2. CASE r \notin joined
    <3>1. L = Append(deq[n], r)
      BY <2>2 DEF QueueWith
    <3>2. r \notin ToSet(deq[n]) /\ Distinct(deq[n])
      BY <1>3, <2>2 DEF IInv, Lines
    <3>3. Distinct(L) /\ ToSet(L) = ToSet(deq[n]) \cup {r}
      BY <1>3, <3>1, <3>2, DistinctAppend, ToSetAppend
    <3>4. deq[n] # <<>> => Head(L) = Head(deq[n])
      BY <1>3, <3>1
    <3>5. deq[n] = <<>> => Head(L) = r
      BY <3>1
    <3> QED
      BY <3>3, <3>4, <3>5
  <2> QED
    BY <2>1, <2>2
<1>6. n = NodeOf[r] /\ \A m \in Nodes : deq'[m] = IF m = n THEN L ELSE deq[m]
  BY <1>3
<1>7. IF Head(L) = r
        THEN (r \in delayed' /\ r \notin executing') \/ (r \notin delayed' /\ r \in executing')
        ELSE r \notin delayed' /\ r \notin executing'
  OBVIOUS
<1> HIDE DEF L, n
<1>8. Drivers(r)' = IF Head(L) = r THEN 1 ELSE 0
  <2>1. Drivers(r)' = Load(Rest, delayed', executing', r)
    BY DriversAre
  <2> QED
    BY <1>2, <1>7, <2>1 DEF Load
<1>9. \A s \in Reqs \ {r} : Drivers(s)' = Drivers(s)
  <2> SUFFICES ASSUME NEW s \in Reqs \ {r} PROVE Drivers(s)' = Drivers(s)
    OBVIOUS
  <2>1. Drivers(s)' = Load(Rest, delayed', executing', s)
    BY DriversAre
  <2>2. Load(Rest, delayed', executing', s) = Load(Rest, delayed, executing, s)
    BY DEF Load
  <2>3. Load(Rest, delayed, executing, s) \in Nat
    BY <1>2, LoadParts
  <2> QED
    BY <1>2, <2>1, <2>2, <2>3
<1>10. \A s \in Reqs \ {r} : (Queued(s)' <=> Queued(s)) /\ (IsHead(s)' <=> IsHead(s))
  <2> SUFFICES ASSUME NEW s \in Reqs \ {r} PROVE (Queued(s)' <=> Queued(s)) /\ (IsHead(s)' <=> IsHead(s))
    OBVIOUS
  <2>1. NodeOf[s] \in Nodes
    BY <1>3
  <2>2. CASE NodeOf[s] # n
    BY <1>6, <2>1, <2>2 DEF Queued, IsHead
  <2>3. CASE NodeOf[s] = n
    <3>1. deq'[NodeOf[s]] = L /\ (Queued(s)' <=> Queued(s))
      BY <1>5, <1>6, <2>1, <2>3 DEF Queued
    <3>2. Queued(s) => deq[n] # <<>>
      BY <2>3 DEF Queued, ToSet
    <3> QED
      BY <1>5, <2>3, <3>1, <3>2 DEF IsHead
  <2> QED
    BY <2>2, <2>3
<1>11. Queued(r)' /\ (IsHead(r)' <=> Head(L) = r)
  BY <1>4, <1>6, <1>3 DEF Queued, IsHead
<1>12. OneDriver'
  <2> SUFFICES ASSUME NEW s \in Reqs
               PROVE  Drivers(s)' <= 1 /\ (Queued(s)' => Drivers(s)' = (IF IsHead(s)' THEN 1 ELSE 0))
    BY DEF OneDriver
  <2>1. CASE s = r
    BY <1>8, <1>11, <2>1
  <2>2. CASE s # r
    BY <1>9, <1>10, <2>2 DEF IInv, OneDriver
  <2> QED
    BY <2>1, <2>2
<1>13. DoneOnce'
  <2> SUFFICES ASSUME NEW s \in Reqs
               PROVE  dones'[s] <= 1 /\ (dones'[s] = 1 => ~Queued(s)' /\ Drivers(s)' = 0)
    BY DEF DoneOnce
  <2>1. CASE s = r
    BY <1>2, <2>1
  <2>2. CASE s # r
    BY <1>9, <1>10, <2>2 DEF IInv, DoneOnce
  <2> QED
    BY <2>1, <2>2
<1>14. Idle'
  BY <1>2, <1>9 DEF IInv, Idle
<1>15. Lines'
  <2> SUFFICES ASSUME NEW m \in Nodes
               PROVE  Distinct(deq'[m]) /\ \A s \in ToSet(deq'[m]) : NodeOf[s] = m /\ s \in joined'
    BY DEF Lines
  <2>1. CASE m = n
    BY <1>5, <1>6, <2>1 DEF IInv, Lines
  <2>2. CASE m # n
    BY <1>6, <2>2 DEF IInv, Lines
  <2> QED
    BY <2>1, <2>2
<1>16. InLine'
  <2> SUFFICES ASSUME NEW s \in joined', dones'[s] = 0 PROVE Queued(s)'
    BY DEF InLine
  <2>1. CASE s = r
    BY <1>11, <2>1
  <2>2. CASE s # r
    BY <1>3, <1>10, <2>2 DEF IInv, InLine
  <2> QED
    BY <2>1, <2>2
<1>17. \A s \in Reqs \ {r} : Sent(s)' <=> Sent(s)
  BY <1>2 DEF Sent
<1>18. Sent(r)' <=> r \in executing'
  <2>1. Evt("answer", r) \notin ToSet(Rest)
    BY <1>2, LoadParts
  <2> QED
    BY <2>1 DEF Sent
<1> QED
  BY <1>12, <1>13, <1>14, <1>15, <1>16, <1>17, <1>18

(* Behind others: a request that waits already has no callback posted.     *)
LEMMA WaitsKeeps ==
    ASSUME IInv, Typed', NEW r \in Reqs, NotFirst(r) \/ NodeBusy(r)
    PROVE  IInv'
<1>1. /\ Invoked(r) /\ joined' = joined \cup {r} /\ events' = Rest
      /\ deq' = [deq EXCEPT ![NodeOf[r]] = QueueWith(r)]
      /\ delayed' = IF Head(QueueWith(r)) = r THEN delayed \cup {r} ELSE delayed
      /\ UNCHANGED <<executing, dones, caller, started, reqNode, nodeReq, result, present>>
  <2>1. Invoked(r)
    BY DEF NotFirst, NodeBusy, Reached
  <2>2. QueueWith(r) # <<>>
    BY <2>1, Current, HasQueue DEF Invoked
  <2> QED
    BY <2>2 DEF NotFirst, NodeBusy, Reached, IsFirst, envVars
<1>2. r \notin delayed /\ r \notin executing /\ ~Sent(r) /\ dones[r] = 0
  BY <1>1, Current DEF Invoked
<1>3. /\ Lines' /\ InLine' /\ OneDriver' /\ DoneOnce' /\ Idle'
      /\ \A s \in Reqs \ {r} : Sent(s)' <=> Sent(s)
      /\ Sent(r)' <=> r \in executing'
  BY <1>1, <1>2, Joins
<1>4. Begun'
  BY <1>1, <1>2, <1>3, BegunStep DEF IInv, Begun
<1>5. Stay' /\ OwnAnswer'
  BY <1>1 DEF IInv, Stay, OwnAnswer
<1> QED
  BY <1>3, <1>4, <1>5 DEF IInv

LEMMA RunKeeps ==
    ASSUME IInv, Typed', NEW r \in Reqs, Run(r)
    PROVE  IInv'
<1> DEFINE o == Obj(NodeOf[r])
<1>1. /\ Invoked(r) /\ joined' = joined \cup {r} /\ events' = Rest /\ Head(QueueWith(r)) = r
      /\ deq' = [deq EXCEPT ![NodeOf[r]] = QueueWith(r)]
      /\ reqNode' = [reqNode EXCEPT ![r] = o]
      /\ nodeReq' = [nodeReq EXCEPT ![o] = IF r \in Futures THEN r ELSE @]
      /\ executing' = executing \cup {r} /\ started' = Append(started, r)
      /\ UNCHANGED <<delayed, dones, caller, result, present>>
  BY DEF Run, Ready, Reached, IsFirst, envVars
<1>2. r \notin delayed /\ r \notin executing /\ ~Sent(r) /\ dones[r] = 0
  BY <1>1, Current DEF Invoked
<1>3. /\ Lines' /\ InLine' /\ OneDriver' /\ DoneOnce' /\ Idle'
      /\ \A s \in Reqs \ {r} : Sent(s)' <=> Sent(s)
      /\ Sent(r)' <=> r \in executing'
  BY <1>1, <1>2, Joins
<1>4. o \in Objs /\ o[1] = NodeOf[r]
  BY ObjType, QueueWithType DEF IInv, Typed, Obj
<1> HIDE DEF o
<1>5. Begun'
  <2>1. \A s \in Reqs \ {r} : Sent(s) => nodeReq'[reqNode[s]] = nodeReq[reqNode[s]]
    <3> SUFFICES ASSUME NEW s \in Reqs \ {r}, Sent(s) PROVE nodeReq'[reqNode[s]] = nodeReq[reqNode[s]]
      OBVIOUS
    <3>1. NodeOf[s] # NodeOf[r]
      BY <1>1, <1>2, Alone
    <3>2. reqNode[s] \in Objs /\ reqNode[s][1] = NodeOf[s]
      BY DEF IInv, Typed, SentOn, Begun
    <3> QED
      BY <1>1, <1>4, <3>1, <3>2 DEF IInv, Typed, TypeOK
  <2>2. \A s \in Reqs \ {r} : dones'[s] = dones[s] /\ reqNode'[s] = reqNode[s]
    BY <1>1 DEF IInv, Typed, TypeOK
  <2>3. \A s \in Reqs \ {r} : s \in ToSet(started') <=> s \in ToSet(started)
    BY <1>1, StartedStep DEF IInv
  <2>4. r \in ToSet(started')
    <3>1. started \in Seq(Reqs)
      BY DEF IInv, Typed, TypeOK
    <3> QED
      BY <1>1, <3>1, ToSetAppend
  <2>5. reqNode'[r] = o /\ (r \in UsesSelf => nodeReq'[o] = r)
    BY <1>1, <1>4, RequestAssumption DEF IInv, Typed, TypeOK
  <2> QED
    BY <1>1, <1>3, <1>4, <2>1, <2>2, <2>3, <2>4, <2>5, BegunStep
<1>6. Stay' /\ OwnAnswer'
  BY <1>1 DEF IInv, Stay, OwnAnswer
<1> QED
  BY <1>3, <1>5, <1>6 DEF IInv
-----------------------------------------------------------------------------
(* Ready requests that end at once.                                        *)
LEMMA EndsKeeps ==
    ASSUME Steady, IInv, Typed', NEW r \in Reqs, WrongClass(r) \/ RunAtOnce(r)
    PROVE  IInv' /\ (Groups!Finish(r) \/ Groups!Fail(r))
<1>1. /\ events # <<>> /\ Head(events) = Evt("invoke", r) /\ joined' = joined \cup {r}
      /\ Head(QueueWith(r)) = r /\ UNCHANGED <<delayed, executing, envVars>>
  BY DEF WrongClass, RunAtOnce, Ready, Reached, IsFirst, Invoked
<1>2. Obj(NodeOf[r]) \in Objs /\ Obj(NodeOf[r])[1] = NodeOf[r] /\ reqNode[r] \in Objs \cup {NoObj}
  BY ObjType, QueueWithType DEF IInv, Typed, TypeOK, Obj
<1>3. CASE WrongClass(r)
  <2>1. Done(r, "error", reqNode[r], QueueWith(r), Rest) /\ started' = started /\ reqNode' = reqNode
    BY <1>3 DEF WrongClass
  <2>2. r \notin Futures
    BY <1>3 DEF WrongClass, Steady
  <2> QED
    BY <1>1, <1>2, <2>1, <2>2, FinishStep
<1>4. CASE RunAtOnce(r)
  <2>1. PICK a \in {"error", r} : Done(r, a, Obj(NodeOf[r]), QueueWith(r), Rest)
    BY <1>4 DEF RunAtOnce
  <2>2. started' = Append(started, r) /\ reqNode' = [reqNode EXCEPT ![r] = Obj(NodeOf[r])]
    BY <1>4 DEF RunAtOnce
  <2> QED
    BY <1>1, <1>2, <2>1, <2>2, FinishStep
<1> QED
  BY <1>3, <1>4

(* A request of a missing context ends, in its queue or before it joins.   *)
LEMMA NoNodeKeeps ==
    ASSUME Steady, IInv, Typed', NEW r \in Reqs, NoNode(r)
    PROVE  IInv' /\ (Groups!Finish(r) \/ Groups!Fail(r))
<1>1. /\ events # <<>> /\ Head(events) = Evt("invoke", r) /\ NodeOf[r] \notin present
      /\ Done(r, "error", reqNode[r], deq[NodeOf[r]], Rest)
      /\ UNCHANGED <<joined, delayed, reqNode, started, executing, envVars>>
  BY DEF NoNode, Invoked
<1>2. /\ Drivers(r) = 1 /\ dones[r] = 0 /\ caller[r] # "idle" /\ Rest \in Seq(Event) /\ ~Sent(r)
      /\ r \notin delayed /\ r \notin executing /\ Times(Rest, Evt("answer", r)) = 0
      /\ \A s \in Reqs : Drivers(s) = Load(Rest, delayed, executing, s) + (IF s = r THEN 1 ELSE 0)
      /\ \A s \in Reqs : s # r => (Evt("answer", s) \in ToSet(events) <=> Evt("answer", s) \in ToSet(Rest))
  BY <1>1, Current
<1>3. r \notin Futures /\ NodeOf[r] \in Nodes
  BY <1>1, RequestAssumption DEF Steady, IInv, Stay
<1>4. reqNode[r] \in Objs \cup {NoObj}
  BY DEF IInv, Typed, TypeOK
<1>5. CASE r \in joined
  <2>1. QueueWith(r) = deq[NodeOf[r]] /\ joined' = joined \cup {r}
    BY <1>1, <1>5 DEF QueueWith
  <2>2. Head(QueueWith(r)) = r
    BY <1>2, <1>5, <2>1 DEF IInv, InLine, OneDriver, IsHead
  <2> QED
    BY <1>1, <1>3, <1>4, <2>1, <2>2, FinishStep
<1>6. CASE r \notin joined
  <2>1. ~Queued(r)
    BY <1>3, <1>6 DEF IInv, Lines, Queued
  <2>2. /\ deq' = deq /\ events' = Rest /\ nodeReq' = nodeReq
        /\ result' = [result EXCEPT ![r] = "error"] /\ dones' = [dones EXCEPT ![r] = @ + 1]
        /\ Completed(r)
    BY <1>1, <1>3, <2>1 DEF Done, RequestDone, Queued
  <2>3. \A s \in Reqs : caller'[s] \notin {"expired", "canceling", "leaving", "posting"} /\ (caller'[s] = "idle" => caller[s] = "idle")
    BY <2>2, NoCancel
  <2>4. \A s \in Reqs : Drivers(s)' = Drivers(s) - (IF s = r THEN 1 ELSE 0) /\ Drivers(s) \in Nat
    <3> SUFFICES ASSUME NEW s \in Reqs
                 PROVE  Drivers(s)' = Drivers(s) - (IF s = r THEN 1 ELSE 0) /\ Drivers(s) \in Nat
      OBVIOUS
    <3>1. Drivers(s)' = Load(Rest, delayed, executing, s)
      BY <1>1, <2>2, DriversAre
    <3>2. Load(Rest, delayed, executing, s) \in Nat
      BY <1>2, LoadParts
    <3> QED
      BY <1>2, <3>1, <3>2
  <2>5. \A s \in Reqs : Sent(s)' <=> Sent(s)
    <3>1. Evt("answer", r) \notin ToSet(Rest)
      BY <1>2, LoadParts
    <3> QED
      BY <1>1, <1>2, <2>2, <3>1 DEF Sent
  <2>6. \A s \in Reqs : (Queued(s)' <=> Queued(s)) /\ (IsHead(s)' <=> IsHead(s))
    BY <2>2 DEF Queued, IsHead
  <2>7. dones \in [Reqs -> Nat] /\ result \in [Reqs -> Reqs \cup {"none", "error", "cancel"}]
    BY DEF IInv, Typed, TypeOK
  <2>8. OneDriver'
    <3> SUFFICES ASSUME NEW s \in Reqs
                 PROVE  Drivers(s)' <= 1 /\ (Queued(s)' => Drivers(s)' = (IF IsHead(s)' THEN 1 ELSE 0))
      BY DEF OneDriver
    <3>1. CASE s = r
      BY <1>2, <2>1, <2>4, <2>6, <3>1
    <3>2. CASE s # r
      <4>1. Drivers(s)' = Drivers(s)
        BY <2>4, <3>2
      <4> QED
        BY <2>6, <4>1 DEF IInv, OneDriver
    <3> QED
      BY <3>1, <3>2
  <2>9. DoneOnce'
    <3> SUFFICES ASSUME NEW s \in Reqs
                 PROVE  dones'[s] <= 1 /\ (dones'[s] = 1 => ~Queued(s)' /\ Drivers(s)' = 0)
      BY DEF DoneOnce
    <3>1. CASE s = r
      BY <1>2, <2>1, <2>2, <2>4, <2>6, <2>7, <3>1
    <3>2. CASE s # r
      <4>1. Drivers(s)' = Drivers(s) /\ dones'[s] = dones[s]
        BY <2>2, <2>4, <2>7, <3>2
      <4> QED
        BY <2>6, <4>1 DEF IInv, DoneOnce
    <3> QED
      BY <3>1, <3>2
  <2>10. Idle'
    <3> SUFFICES ASSUME NEW s \in Reqs, caller'[s] = "idle"
                 PROVE  Drivers(s)' = 0 /\ dones'[s] = 0 /\ s \notin joined'
      BY <2>3 DEF Idle
    <3>1. caller[s] = "idle" /\ s # r
      BY <1>2, <2>3
    <3> QED
      BY <1>1, <2>2, <2>4, <2>7, <3>1 DEF IInv, Idle
  <2>11. Begun'
    <3>1. \A s \in Reqs \ {r} : dones'[s] = dones[s]
      BY <2>2, <2>7
    <3>2. r \notin ToSet(started)
      BY <1>2 DEF IInv, Begun
    <3> QED
      BY <1>1, <1>2, <2>2, <2>5, <3>1, <3>2, BegunStep
  <2>12. Lines' /\ InLine' /\ Stay'
    <3>1. \A s \in joined : s \in Reqs /\ dones'[s] = dones[s]
      BY <1>6, <2>2, <2>7 DEF IInv, Typed, TypeOK
    <3>2. joined' = joined /\ present' = present
      BY <1>1 DEF envVars
    <3>3. Lines'
      BY <2>2, <3>2 DEF IInv, Lines
    <3>4. InLine'
      BY <2>6, <3>1, <3>2 DEF IInv, InLine
    <3> QED
      BY <3>2, <3>3, <3>4 DEF IInv, Stay
  <2>13. OwnAnswer'
    BY <2>2, <2>7, RequestAssumption DEF IInv, OwnAnswer
  <2>14. Groups!Fail(r)
    <3>1. \A s \in Reqs \ {r} : dones'[s] = dones[s]
      BY <2>2, <2>7
    <3>2. PhaseOf(r)' = "done"
      BY <1>2, <2>2, <2>7 DEF PhaseOf
    <3>3. Phases[r] = PhaseOf(r) /\ Phases' = [Phases EXCEPT ![r] = "done"]
      BY <1>1, <3>1, <3>2, PhaseStep
    <3>4. Phases[r] = "new"
      BY <1>2, <1>6, <3>3, PhaseNow
    <3> QED
      BY <2>2, <3>3, <3>4 DEF Groups!Fail, Phases
  <2> QED
    BY <2>8, <2>9, <2>10, <2>11, <2>12, <2>13, <2>14 DEF IInv
<1> QED
  BY <1>5, <1>6

(* The answer completes the request that sent the command, also when it is *)
(* looked up in node.request.                                              *)
LEMMA AnsweredKeeps ==
    ASSUME IInv, Typed', NEW r \in Reqs, Answered(r)
    PROVE  IInv' /\ (Groups!Finish(r) \/ Groups!Fail(r))
<1>1. /\ events # <<>> /\ Head(events) = Evt("answer", r)
      /\ UNCHANGED <<joined, delayed, reqNode, started, executing, envVars>>
  BY DEF Answered
<1>2. Sent(r) /\ Drivers(r) = 1 /\ dones[r] = 0
  BY <1>1, Current
<1>3. /\ r \in joined /\ reqNode[r] \in Objs /\ reqNode[r][1] = NodeOf[r]
      /\ r \in UsesSelf => nodeReq[reqNode[r]] = r
  BY <1>2 DEF IInv, Typed, SentOn, Begun
<1>4. QueueWith(r) = deq[NodeOf[r]] /\ joined' = joined \cup {r}
  BY <1>1, <1>3 DEF QueueWith
<1>5. Head(QueueWith(r)) = r
  BY <1>2, <1>3, <1>4 DEF IInv, InLine, OneDriver, IsHead
<1>6. Done(r, r, reqNode[r], QueueWith(r), Rest)
  <2>1. (IF r \in UsesSelf THEN nodeReq[reqNode[r]] ELSE r) = r /\ r # NoReq
    BY <1>3, RequestAssumption
  <2> QED
    BY <1>4, <2>1 DEF Answered
<1> QED
  BY <1>1, <1>3, <1>4, <1>5, <1>6, FinishStep

LEMMA TimeoutKeeps ==
    ASSUME Steady, IInv, Typed', NEW r \in Reqs, Timeout(r)
    PROVE  IInv'
<1>1. RequestTimeout(r)
  BY DEF Timeout, FutureExpires, FutureTimeoutError, CancelMark, CancelClear, CancelLeave, CancelPost, Steady, IInv, Idle
<1>2. /\ UNCHANGED <<deq, joined, events, delayed, executing, dones, result, started, reqNode, nodeReq, present>>
      /\ caller' = [caller EXCEPT ![r] = "timedout"]
  BY <1>1 DEF RequestTimeout, envVars
<1>3. \A s \in Reqs : Drivers(s)' = Drivers(s) /\ (Sent(s)' <=> Sent(s))
  BY <1>2 DEF Drivers, Posted, Sent
<1>4. \A s \in Reqs : caller'[s] \notin {"expired", "canceling", "leaving", "posting"} /\ (caller'[s] = "idle" => caller[s] = "idle")
  BY <1>2 DEF IInv, Idle, Typed, TypeOK
<1> QED
  BY <1>2, <1>3, <1>4, Moves DEF IInv, Stay

LEMMA EnvironmentKeeps ==
    ASSUME IInv, Typed', Environment \/ UNCHANGED vars
    PROVE  IInv'
<1>1. UNCHANGED <<deq, joined, events, delayed, executing, dones, result, started, reqNode, nodeReq, caller>>
  BY DEF Environment, ManagerPending, ManagerReady, NodePending, NodeReady, RemoveNode, AddNode, vars
<1>2. Nodes \ Removable \subseteq present'
  BY DEF IInv, Stay, Environment, ManagerPending, ManagerReady, NodePending, NodeReady, RemoveNode, AddNode,
         vars, envVars
<1>3. \A s \in Reqs : Drivers(s)' = Drivers(s) /\ (Sent(s)' <=> Sent(s))
  BY <1>1 DEF Drivers, Posted, Sent
<1>4. \A s \in Reqs : caller'[s] \notin {"expired", "canceling", "leaving", "posting"} /\ (caller'[s] = "idle" => caller[s] = "idle")
  BY <1>1 DEF IInv, Idle
<1> QED
  BY <1>1, <1>2, <1>3, <1>4, Moves

LEMMA NextIInv ==
    ASSUME Steady
    PROVE  IInv /\ [Next]_vars => IInv'
<1> SUFFICES ASSUME IInv, [Next]_vars PROVE IInv'
  OBVIOUS
<1>1. Typed'
  BY NextTyped DEF IInv
<1>2. CASE Environment \/ UNCHANGED vars
  BY <1>1, <1>2, EnvironmentKeeps
<1>3. ASSUME NEW r \in Reqs, Invoke(r)
      PROVE  IInv'
  <2>1. CASE ManagerBusy(r)
    BY <1>1, <2>1, ManagerBusyKeeps
  <2>2. CASE NoNode(r)
    BY <1>1, <2>2, NoNodeKeeps
  <2>3. CASE NotFirst(r) \/ NodeBusy(r)
    BY <1>1, <2>3, WaitsKeeps
  <2>4. CASE WrongClass(r) \/ RunAtOnce(r)
    BY <1>1, <2>4, EndsKeeps
  <2>5. CASE Run(r)
    BY <1>1, <2>5, RunKeeps
  <2> QED
    BY <1>3, <2>1, <2>2, <2>3, <2>4, <2>5 DEF Invoke
<1>4. ASSUME NEW r \in Reqs, Answered(r)
      PROVE  IInv'
  BY <1>1, <1>4, AnsweredKeeps
<1>5. ASSUME NEW r \in Reqs, Call(r) \/ Timeout(r) \/ Retry(r) \/ Answer(r)
      PROVE  IInv'
  BY <1>1, <1>5, CallKeeps, TimeoutKeeps, RetryKeeps
<1> QED
  BY <1>2, <1>3, <1>4, <1>5 DEF Next, Dispatch

LEMMA IInvHolds ==
    ASSUME Steady
    PROVE  Spec => []IInv
<1>1. Init => IInv
  BY InitTyped, InitIInv DEF IInv
<1>2. IInv /\ [Next]_vars => IInv'
  BY NextIInv
<1> QED
  BY <1>1, <1>2, PTL DEF Spec

(* A queue group never has two commands under way, whatever becomes of     *)
(* manager and nodes and though callers of CsRequestSync give up.          *)
THEOREM GroupIsSerial ==
    ASSUME Steady
    PROVE  Spec => []GroupSerial
<1>1. Spec => []IInv
  BY IInvHolds
<1> QED
  BY <1>1, Serial, PTL

(* No queue stalls: its head has exactly one callback, timer or command    *)
(* that moves it on, and the requests behind it have none.                 *)
THEOREM QueueNeverStalls ==
    ASSUME Steady
    PROVE  Spec => []OneDriver
<1>1. Spec => []IInv
  BY IInvHolds
<1>2. IInv => OneDriver
  BY DEF IInv
<1> QED
  BY <1>1, <1>2, PTL

(* done_run runs once for a request, which has then left its queue.        *)
THEOREM CompletedOnce ==
    ASSUME Steady
    PROVE  Spec => []DoneOnce
<1>1. Spec => []IInv
  BY IInvHolds
<1>2. IInv => DoneOnce
  BY DEF IInv
<1> QED
  BY <1>1, <1>2, PTL

(* A request gets the answer of its own command, also when the answer is   *)
(* handed to node.request.                                                 *)
THEOREM AnsweredByItsOwn ==
    ASSUME Steady
    PROVE  Spec => []OwnAnswer
<1>1. Spec => []IInv
  BY IInvHolds
<1>2. IInv => OwnAnswer
  BY DEF IInv
<1> QED
  BY <1>1, <1>2, PTL
-----------------------------------------------------------------------------
LEMMA SameGroups ==
    ASSUME UNCHANGED <<deq, dones, started, joined>>
    PROVE  UNCHANGED <<deq, Phases>>
BY DEF Phases, PhaseOf

LEMMA GroupsInit == Init => Groups!Init
<1> SUFFICES ASSUME Init PROVE Groups!Init
  OBVIOUS
<1>1. ToSet(<<>>) = {}
  BY DEF ToSet
<1>2. \A r \in Reqs : PhaseOf(r) = "new"
  BY <1>1 DEF Init, PhaseOf
<1> QED
  BY <1>2 DEF Init, Groups!Init

LEMMA WaitsGroups ==
    ASSUME IInv, NEW r \in Reqs, NotFirst(r) \/ NodeBusy(r)
    PROVE  Groups!Join(r) \/ UNCHANGED <<deq, Phases>>
<1>1. /\ Invoked(r) /\ joined' = joined \cup {r}
      /\ deq' = [deq EXCEPT ![NodeOf[r]] = QueueWith(r)]
      /\ UNCHANGED <<dones, started>>
  BY DEF NotFirst, NodeBusy, Reached
<1>2. dones[r] = 0 /\ ~Sent(r)
  BY <1>1, Current DEF Invoked
<1>3. deq \in [Nodes -> Seq(Reqs)] /\ NodeOf[r] \in Nodes
  BY RequestAssumption DEF IInv, Typed, TypeOK
<1>4. CASE r \in joined
  <2>1. deq' = deq /\ joined' = joined
    BY <1>1, <1>3, <1>4 DEF QueueWith
  <2> QED
    BY <1>1, <2>1, SameGroups
<1>5. CASE r \notin joined
  <2>1. deq' = [deq EXCEPT ![NodeOf[r]] = Append(deq[NodeOf[r]], r)]
    BY <1>1, <1>5 DEF QueueWith
  <2>2. PhaseOf(r)' = "queued"
    <3>1. r \notin ToSet(started)
      BY <1>2 DEF IInv, Begun
    <3> QED
      BY <1>1, <1>2, <3>1 DEF PhaseOf
  <2>3. Phases[r] = "new" /\ Phases' = [Phases EXCEPT ![r] = "queued"]
    BY <1>1, <1>2, <1>5, <2>2, PhaseStep, PhaseNow
  <2> QED
    BY <2>1, <2>3 DEF Groups!Join, Phases
<1> QED
  BY <1>4, <1>5

LEMMA RunGroups ==
    ASSUME IInv, NEW r \in Reqs, Run(r)
    PROVE  Groups!Start(r) \/ Groups!JoinAndStart(r)
<1>1. /\ Invoked(r) /\ joined' = joined \cup {r} /\ Head(QueueWith(r)) = r
      /\ deq' = [deq EXCEPT ![NodeOf[r]] = QueueWith(r)]
      /\ UNCHANGED dones /\ started' = Append(started, r)
  BY DEF Run, Ready, Reached, IsFirst
<1>2. dones[r] = 0 /\ ~Sent(r)
  BY <1>1, Current DEF Invoked
<1>3. deq \in [Nodes -> Seq(Reqs)] /\ NodeOf[r] \in Nodes /\ started \in Seq(Reqs)
  BY RequestAssumption DEF IInv, Typed, TypeOK
<1>4. PhaseOf(r)' = "running"
  <2>1. r \in ToSet(started')
    BY <1>1, <1>3, ToSetAppend
  <2> QED
    BY <1>1, <1>2, <2>1 DEF PhaseOf
<1>5. \A s \in Reqs \ {r} : s \in ToSet(started') <=> s \in ToSet(started)
  BY <1>1, StartedStep DEF IInv
<1>6. Phases[r] = PhaseOf(r) /\ Phases' = [Phases EXCEPT ![r] = "running"]
  BY <1>1, <1>4, <1>5, PhaseStep
<1>7. CASE r \in joined
  <2>1. QueueWith(r) = deq[NodeOf[r]] /\ Groups!IsFirst(r)
    BY <1>1, <1>2, <1>7, NewAtHead
  <2>2. deq' = deq
    BY <1>1, <1>3, <2>1
  <2>3. Phases[r] = "queued"
    BY <1>2, <1>6, <1>7, PhaseNow
  <2> QED
    BY <1>6, <2>1, <2>2, <2>3 DEF Groups!Start, Phases
<1>8. CASE r \notin joined
  <2>1. deq[NodeOf[r]] = <<>> /\ QueueWith(r) = <<r>>
    BY <1>1, <1>2, <1>8, NewAtHead
  <2>2. Phases[r] = "new"
    BY <1>2, <1>6, <1>8, PhaseNow
  <2> QED
    BY <1>1, <1>6, <2>1, <2>2 DEF Groups!JoinAndStart, Phases
<1> QED
  BY <1>7, <1>8
LEMMA NextGroups ==
    ASSUME Steady
    PROVE  IInv /\ [Next]_vars => [Groups!Next]_<<deq, Phases>>
<1> SUFFICES ASSUME IInv, [Next]_vars PROVE [Groups!Next]_<<deq, Phases>>
  OBVIOUS
<1>1. Typed'
  BY NextTyped DEF IInv
<1>2. CASE Environment \/ UNCHANGED vars
  BY <1>2, SameGroups
     DEF Environment, ManagerPending, ManagerReady, NodePending, NodeReady, RemoveNode, AddNode, vars
<1>3. ASSUME NEW r \in Reqs, Invoke(r) \/ Answered(r)
      PROVE  Groups!Next \/ UNCHANGED <<deq, Phases>>
  <2>1. CASE ManagerBusy(r)
    BY <2>1, SameGroups DEF ManagerBusy
  <2>2. CASE NotFirst(r) \/ NodeBusy(r)
    BY <2>2, WaitsGroups DEF Groups!Next
  <2>3. CASE NoNode(r) \/ WrongClass(r) \/ RunAtOnce(r) \/ Answered(r)
    BY <1>1, <2>3, EndsKeeps, NoNodeKeeps, AnsweredKeeps DEF Groups!Next
  <2>4. CASE Run(r)
    BY <2>4, RunGroups DEF Groups!Next
  <2> QED
    BY <1>3, <2>1, <2>2, <2>3, <2>4 DEF Invoke
<1>4. ASSUME NEW r \in Reqs, Call(r) \/ Timeout(r) \/ Retry(r) \/ Answer(r)
      PROVE  UNCHANGED <<deq, Phases>>
  <2>1. CASE Call(r) \/ Retry(r) \/ Answer(r)
    BY <2>1, SameGroups DEF Call, Retry, Answer
  <2>2. CASE Timeout(r)
    <3>1. RequestTimeout(r)
      BY <2>2 DEF Timeout, FutureExpires, FutureTimeoutError, CancelMark, CancelClear, CancelLeave, CancelPost, Steady, IInv, Idle
    <3> QED
      BY <3>1, SameGroups DEF RequestTimeout
  <2> QED
    BY <1>4, <2>1, <2>2
<1> QED
  BY <1>2, <1>3, <1>4 DEF Next, Dispatch

(* The queues of the nodes are queue groups: requests are handled one      *)
(* after the other, in the order they joined (dm.Node.queue_group).        *)
THEOREM QueuesAreGroups ==
    ASSUME Steady
    PROVE  Spec => GroupsSpec
<1>1. Spec => []IInv
  BY IInvHolds
<1>2. IInv /\ [Next]_vars => [Groups!Next]_<<deq, Phases>>
  BY NextGroups
<1>3. [Groups!Next]_<<deq, Phases>> <=> [Groups!Next]_(Groups!vars)
  BY DEF Groups!vars, Phases
<1> QED
  BY <1>1, <1>2, <1>3, GroupsInit, PTL DEF Spec, GroupsSpec, Groups!Spec
=============================================================================

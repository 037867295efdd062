------------------------ MODULE EventDispatcherProofs ------------------------
(***************************************************************************)
(* Proofs about the event dispatcher, for any number of threads, jobs and  *)
(* timers.  The invariant adds to the safety properties that the waiting   *)
(* flag tells the truth about the dispatch thread, and what holds of a job *)
(* that runs and of a thread that has returned.                            *)
(***************************************************************************)
EXTENDS EventDispatcher, SequenceLemmas

WaitingFlag == waiting <=> disp = "blocked"

RunsAJob == disp = "running" => cur \in Jobs

ReturnsDrained == disp = "returned" => queue = <<>> /\ shutdown

IInv ==
    /\ TypeOK
    /\ WaitingFlag
    /\ RunsAJob
    /\ NoLostWakeup
    /\ FifoDispatch
    /\ WaiterHasJob
    /\ ReturnsDrained

-----------------------------------------------------------------------------
(* EventQueue.invokeLater keeps the invariant's parts about the queue.     *)
LEMMA EnqueueKeeps ==
    ASSUME IInv, ~shutdown, NEW j \in Jobs, Enqueue(j), cur' = cur, ran' = ran
    PROVE  /\ queue' \in Seq(Jobs) /\ posted' \in Seq(Jobs)
           /\ ToSet(queue') = ToSet(queue) \cup {j}
           /\ waiting' = FALSE /\ disp' \in DispPcs /\ disp' # "blocked" /\ disp' # "returned"
           /\ disp' = "running" <=> disp = "running"
           /\ posted' = ran' \o Running' \o queue'
<1>. USE DEF IInv, TypeOK, WaitingFlag, DispPcs
<1>1. /\ queue' \in Seq(Jobs) /\ posted' \in Seq(Jobs)
      /\ ToSet(queue') = ToSet(queue) \cup {j}
  BY ToSetAppend DEF Enqueue
<1>2. /\ waiting' = FALSE /\ disp' \in DispPcs /\ disp' # "blocked" /\ disp' # "returned"
      /\ disp' = "running" <=> disp = "running"
  BY DEF Enqueue, ReturnsDrained
<1>3. posted' = ran' \o Running' \o queue'
  <2>1. Running' = Running /\ Running \in Seq(Jobs)
    BY <1>2 DEF Running, RunsAJob
  <2>2. ran \o Running \in Seq(Jobs)
    BY <2>1, ConcatProperties
  <2>3. <<j>> \in Seq(Jobs) /\ queue' = queue \o <<j>> /\ posted' = posted \o <<j>>
    BY AppendIsConcat DEF Enqueue
  <2>4. posted = (ran \o Running) \o queue
    BY DEF FifoDispatch
  <2>5. ((ran \o Running) \o queue) \o <<j>> = (ran \o Running) \o (queue \o <<j>>)
    <3>1. queue \in Seq(Jobs) /\ <<j>> \in Seq(Jobs)
      BY <2>3
    <3>. QED BY ONLY <2>2, <3>1, ConcatAssociative, SMTT(30)
  <2>. QED BY <2>1, <2>3, <2>4, <2>5
<1>. QED BY <1>1, <1>2, <1>3

-----------------------------------------------------------------------------
(* Every variable keeps its shape (the fields of EventQueue and protocol). *)
LEMMA InitIInv == Init => IInv
<1>. SUFFICES ASSUME Init PROVE IInv
  OBVIOUS
<1>1. TypeOK
  BY DispatcherAssumption, EmptySeq
     DEF Init, TypeOK, DispPcs, ClientPcs, StopperPcs, TimerPcs
<1>2. FifoDispatch
  <2>1. <<>> \in Seq(Jobs)
    OBVIOUS
  <2>2. <<>> \o <<>> = <<>>
    BY <2>1, ConcatEmptySeq
  <2>. QED BY <2>2 DEF Init, FifoDispatch, Running
<1>. QED BY <1>1, <1>2 DEF Init, IInv, WaitingFlag, RunsAJob, NoLostWakeup, WaiterHasJob, ReturnsDrained

(* A step that touches neither the queue nor a caller (timers, the stop,   *)
(* the clock) has only the types to preserve.                              *)
LEMMA FrameKeeps ==
    ASSUME IInv, UNCHANGED <<queueVars, client>>, TypeOK'
    PROVE  IInv'
  BY DEF IInv, queueVars, WaitingFlag, RunsAJob, NoLostWakeup, FifoDispatch, Running, WaiterHasJob,
         ReturnsDrained

(* One step per action of the dispatcher, its callers and its timers.      *)
LEMMA NextIInv == IInv /\ [Next]_vars => IInv'
<1>. SUFFICES ASSUME IInv, [Next]_vars PROVE IInv'
  OBVIOUS
<1>. USE DEF IInv
<1>q. queue \in Seq(Jobs) /\ posted \in Seq(Jobs) /\ ran \in Seq(Jobs) /\ timers \in Seq([due : Nat, job : Timed])
  BY DEF TypeOK
<1>1. ASSUME NEW j \in Posts, Post(j) PROVE IInv'
  <2>1. j \in Jobs
    BY DEF Jobs
  <2>. USE <1>1, <2>1, EnqueueKeeps DEF Post, timerVars
  <2>2. TypeOK'
    BY DEF TypeOK
  <2>3. FifoDispatch'
    BY DEF FifoDispatch
  <2>. QED BY <2>2, <2>3 DEF WaitingFlag, RunsAJob, NoLostWakeup, WaiterHasJob, ReturnsDrained
<1>2. ASSUME NEW c \in Clients, InvokeAndWait(c) PROVE IInv'
  <2>. USE <1>2 DEF InvokeAndWait, timerVars
  <2>1. CASE shutdown
    <3>1. client' \in [Clients -> ClientPcs]
      BY <2>1 DEF TypeOK, ClientPcs
    <3>2. TypeOK'
      BY <2>1, <3>1 DEF TypeOK
    <3>3. FifoDispatch' /\ NoLostWakeup' /\ ReturnsDrained'
      BY <2>1 DEF FifoDispatch, Running, NoLostWakeup, ReturnsDrained
    <3>4. WaiterHasJob'
      BY <2>1 DEF WaiterHasJob, TypeOK
    <3>. QED BY <2>1, <3>2, <3>3, <3>4 DEF WaitingFlag, RunsAJob
  <2>2. CASE ~shutdown
    <3>1. c \in Jobs /\ Enqueue(c)
      BY <2>2 DEF Jobs
    <3>2. TypeOK'
      BY <2>2, <3>1, EnqueueKeeps DEF TypeOK, ClientPcs
    <3>3. FifoDispatch'
      BY <2>2, <3>1, EnqueueKeeps DEF FifoDispatch
    <3>4. WaiterHasJob'
      BY <2>2, <3>1, EnqueueKeeps DEF WaiterHasJob, TypeOK
    <3>. QED BY <2>2, <3>1, <3>2, <3>3, <3>4, EnqueueKeeps
             DEF WaitingFlag, RunsAJob, NoLostWakeup, ReturnsDrained
  <2>. QED BY <2>1, <2>2
<1>3. ASSUME NEW c \in Clients, BeginWait(c) PROVE IInv'
  BY <1>3 DEF BeginWait, queueVars, timerVars, TypeOK, WaitingFlag, RunsAJob, NoLostWakeup,
              FifoDispatch, Running, WaiterHasJob, ReturnsDrained, ClientPcs
<1>4. ASSUME NEW j \in Timed, Schedule(j) PROVE IInv'
  <2>1. now + Delay[j] \in Nat
    BY DispatcherAssumption DEF TypeOK
  <2>2. timers' \in Seq([due : Nat, job : Timed])
    <3>. DEFINE t == [due |-> now + Delay[j], job |-> j]
                I == {i \in DOMAIN timers : timers[i].due <= t.due}
    <3>1. Cardinality(I) + 1 \in 1 .. Len(timers) + 1
      BY <1>q, PrefixCount
    <3>2. t \in [due : Nat, job : Timed]
      BY <2>1
    <3>3. InsertAt(timers, Cardinality(I) + 1, t) \in Seq([due : Nat, job : Timed])
      BY <1>q, <3>1, <3>2, InsertAtSeq
    <3>. QED BY <1>4, <3>3 DEF Schedule
  <2>3. due' \in [Timed -> Nat \cup {-1}] /\ timerPc' \in TimerPcs
    BY <1>4, <2>1 DEF Schedule, NotifyTimerThread, TypeOK, TimerPcs
  <2>4. UNCHANGED <<queueVars, client, stopper, alive, now>>
    BY <1>4 DEF Schedule
  <2>5. TypeOK'
    BY <2>2, <2>3, <2>4 DEF queueVars, TypeOK
  <2>. QED BY <2>4, <2>5, FrameKeeps
<1>5. ASSUME NEW j \in Timed, ScheduleNow(j) PROVE IInv'
  <2>1. j \in Jobs
    BY DEF Jobs
  <2>. USE <1>5, <2>1, EnqueueKeeps DEF ScheduleNow
  <2>2. TypeOK'
    BY DEF TypeOK
  <2>3. FifoDispatch'
    BY DEF FifoDispatch
  <2>. QED BY <2>2, <2>3 DEF WaitingFlag, RunsAJob, NoLostWakeup, WaiterHasJob, ReturnsDrained
<1>6. CASE Take
  <2>. USE <1>6 DEF Take, timerVars
  <2>1. /\ Head(queue) \in Jobs /\ Tail(queue) \in Seq(Jobs)
        /\ ToSet(queue) = {Head(queue)} \cup ToSet(Tail(queue))
        /\ queue = <<Head(queue)>> \o Tail(queue)
    BY <1>q, ToSetTail
  <2>2. TypeOK'
    BY <2>1 DEF TypeOK, DispPcs
  <2>3. FifoDispatch'
    <3>1. <<Head(queue)>> \in Seq(Jobs)
      BY <2>1
    <3>2. ran \o <<>> = ran
      BY <1>q, ConcatEmptySeq
    <3>3. (ran \o <<Head(queue)>>) \o Tail(queue) = ran \o (<<Head(queue)>> \o Tail(queue))
      BY <1>q, <2>1, <3>1, ConcatAssociative, SMTT(30)
    <3>. QED BY <2>1, <3>2, <3>3 DEF FifoDispatch, Running
  <2>4. WaiterHasJob'
    BY <2>1 DEF WaiterHasJob
  <2>5. WaitingFlag' /\ RunsAJob' /\ NoLostWakeup' /\ ReturnsDrained'
    BY <2>1 DEF WaitingFlag, RunsAJob, NoLostWakeup, ReturnsDrained
  <2>. QED BY <2>2, <2>3, <2>4, <2>5
<1>7. CASE Wait
  BY <1>7 DEF Wait, timerVars, TypeOK, WaitingFlag, RunsAJob, NoLostWakeup, FifoDispatch, Running,
              WaiterHasJob, ReturnsDrained, DispPcs
<1>8. CASE Return
  BY <1>8 DEF Return, timerVars, TypeOK, WaitingFlag, RunsAJob, NoLostWakeup, FifoDispatch, Running,
              WaiterHasJob, ReturnsDrained, DispPcs
<1>9. CASE Finish
  <2>. USE <1>9 DEF Finish, timerVars
  <2>1. cur \in Jobs
    BY DEF RunsAJob
  <2>2. TypeOK'
    BY <2>1 DEF TypeOK, DispPcs, ClientPcs
  <2>3. FifoDispatch'
    <3>1. Append(ran, cur) = ran \o <<cur>>
      BY <1>q, <2>1, AppendIsConcat
    <3>2. Append(ran, cur) \o <<>> = Append(ran, cur)
      BY <1>q, <2>1, AppendProperties, ConcatEmptySeq
    <3>. QED BY <3>1, <3>2 DEF FifoDispatch, Running
  <2>4. WaiterHasJob'
    BY DEF WaiterHasJob, TypeOK
  <2>. QED BY <2>2, <2>3, <2>4 DEF WaitingFlag, RunsAJob, NoLostWakeup, ReturnsDrained
<1>10. CASE Stop
  BY <1>10 DEF Stop, timerVars, TypeOK, WaitingFlag, RunsAJob, NoLostWakeup, FifoDispatch, Running,
               WaiterHasJob, ReturnsDrained, DispPcs, StopperPcs
<1>11. CASE Joined \/ StopTimers
  <2>1. stopper' \in StopperPcs /\ alive' \in BOOLEAN /\ timerPc' \in TimerPcs
    BY <1>11 DEF Joined, StopTimers, NotifyTimerThread, timerVars, TypeOK, StopperPcs, TimerPcs
  <2>2. UNCHANGED <<queueVars, client, timers, due, now>>
    BY <1>11 DEF Joined, StopTimers, timerVars
  <2>. QED BY <2>1, <2>2, FrameKeeps DEF queueVars, TypeOK
<1>12. CASE TimerStart \/ TimerExit \/ TimerWait \/ TimerWake
  <2>1. alive' \in BOOLEAN /\ timerPc' \in TimerPcs
    BY <1>12 DEF TimerStart, TimerExit, TimerWait, TimerWake, TypeOK, TimerPcs
  <2>2. UNCHANGED <<queueVars, client, stopper, timers, due, now>>
    BY <1>12 DEF TimerStart, TimerExit, TimerWait, TimerWake
  <2>. QED BY <2>1, <2>2, FrameKeeps DEF queueVars, TypeOK
<1>13. CASE TimerFire
  <2>. USE <1>13 DEF TimerFire
  <2>1. timers[1] \in [due : Nat, job : Timed] /\ Tail(timers) \in Seq([due : Nat, job : Timed])
    <3>. DEFINE T == [due : Nat, job : Timed]
    <3>1. timers \in Seq(T) /\ timers # <<>>
      BY <1>q
    <3>. HIDE DEF T
    <3>2. Head(timers) \in T /\ Tail(timers) \in Seq(T) /\ Len(timers) \in Nat \ {0}
      BY ONLY <3>1, HeadTailProperties, EmptySeq
    <3>3. timers[1] \in T
      BY ONLY <3>1, <3>2, ElementOfSeq
    <3>. QED BY <3>2, <3>3 DEF T
  <2>2. CASE shutdown
    <3>1. UNCHANGED <<queueVars, client>>
      BY <2>2 DEF queueVars
    <3>2. TypeOK'
      BY <2>1, <2>2 DEF TypeOK, TimerPcs
    <3>. QED BY <3>1, <3>2, FrameKeeps
  <2>3. CASE ~shutdown
    <3>1. /\ timers[1].job \in Jobs /\ Enqueue(timers[1].job)
          /\ cur' = cur /\ ran' = ran /\ client' = client /\ shutdown' = shutdown
      BY <2>1, <2>3 DEF Jobs
    <3>2. TypeOK'
      BY <2>1, <2>3, <3>1, EnqueueKeeps DEF TypeOK
    <3>3. FifoDispatch'
      BY <2>3, <3>1, EnqueueKeeps DEF FifoDispatch
    <3>. HIDE <1>13 DEF TimerFire
    <3>4. WaiterHasJob'
      BY <2>3, <3>1, EnqueueKeeps DEF WaiterHasJob
    <3>. QED BY <2>3, <3>1, <3>2, <3>3, <3>4, EnqueueKeeps
             DEF WaitingFlag, RunsAJob, NoLostWakeup, ReturnsDrained
  <2>. QED BY <2>2, <2>3
<1>14. CASE Tick
  <2>1. UNCHANGED <<queueVars, client>>
    BY <1>14 DEF Tick
  <2>2. TypeOK'
    BY <1>14 DEF Tick, queueVars, timerVars, TypeOK
  <2>. QED BY <2>1, <2>2, FrameKeeps
<1>15. CASE UNCHANGED vars
  BY <1>15, FrameKeeps DEF vars, queueVars, timerVars, TypeOK
<1>. QED
  BY <1>1, <1>2, <1>3, <1>4, <1>5, <1>6, <1>7, <1>8, <1>9, <1>10, <1>11, <1>12, <1>13, <1>14, <1>15
     DEF Next, Dispatch, TimerThread

-----------------------------------------------------------------------------
(* The inductive invariant holds in every state the dispatcher reaches.    *)
LEMMA Invariance == Spec => []IInv
  BY InitIInv, NextIInv, PTL DEF Spec

(* Type correctness: the fields of EventQueue and protocol keep their      *)
(* shapes in every interleaving of the threads.                            *)
THEOREM TypeCorrect == Spec => []TypeOK
  BY Invariance, PTL DEF IInv

(* "Events are dispatched in same order as queued" (protocol.invokeLater), *)
(* for any number of posting threads.                                      *)
THEOREM DispatchIsFifo == Spec => []FifoDispatch
  BY Invariance, PTL DEF IInv

(* The dispatch thread never sleeps on work (EventQueue.__call__ against   *)
(* invokeLater and shutdown).                                              *)
THEOREM WakeupsAreKept == Spec => []NoLostWakeup
  BY Invariance, PTL DEF IInv

(* A thread blocked in invokeAndWait has its DoRun ahead of it.            *)
THEOREM WaitersHaveJobs == Spec => []WaiterHasJob
  BY Invariance, PTL DEF IInv

(* EventQueue.__call__ returns with every posted job run.                  *)
THEOREM ReturnIsDrained == Spec => []DrainedOnReturn
<1>1. IInv => DrainedOnReturn
  <2>. SUFFICES ASSUME IInv, disp = "returned" PROVE ran = posted
    BY DEF DrainedOnReturn
  <2>1. ran \in Seq(Jobs) /\ queue = <<>> /\ posted = ran \o <<>> \o <<>>
    BY DEF IInv, TypeOK, ReturnsDrained, FifoDispatch, Running
  <2>. QED BY <2>1, ConcatEmptySeq
<1>. QED BY <1>1, Invariance, PTL

-----------------------------------------------------------------------------
(* The timers.  _timer_queue is sorted, and what it holds is what          *)
(* invokeLaterWithDelay was asked for.                                     *)
TimersSorted == \A i, j \in DOMAIN timers : i < j => timers[i].due <= timers[j].due

TimersAsAsked == \A i \in DOMAIN timers : due[timers[i].job] = timers[i].due

TimerInv == TimersSorted /\ TimersAsAsked

Timers == [due : Nat, job : Timed]

LEMMA TimersTail ==
    ASSUME TypeOK, TimerInv, timers # <<>>
    PROVE  /\ timers[1] \in Timers /\ 1 \in DOMAIN timers
           /\ Tail(timers) \in Seq(Timers)
           /\ \A i \in DOMAIN Tail(timers) :
                /\ i + 1 \in DOMAIN timers /\ Tail(timers)[i] = timers[i + 1]
                /\ timers[1].due <= Tail(timers)[i].due
<1>1. timers \in Seq(Timers)
  BY DEF TypeOK, Timers
<1>2. /\ Len(timers) \in Nat \ {0} /\ Tail(timers) \in Seq(Timers)
      /\ DOMAIN timers = 1 .. Len(timers) /\ DOMAIN Tail(timers) = 1 .. Len(timers) - 1
      /\ \A i \in 1 .. Len(timers) - 1 : Tail(timers)[i] = timers[i + 1]
  BY ONLY <1>1, timers # <<>>, HeadTailProperties, EmptySeq, LenProperties
<1>3. timers[1] \in Timers
  BY ONLY <1>1, <1>2, ElementOfSeq
<1>4. \A i \in 1 .. Len(timers) - 1 : timers[1].due <= timers[i + 1].due
  BY <1>2 DEF TimerInv, TimersSorted
<1>. QED BY <1>2, <1>3, <1>4

(* Append and sort puts a timer behind those that are due no later.        *)
LEMMA ScheduleSorts ==
    ASSUME TypeOK, TimerInv, NEW j \in Timed, Schedule(j)
    PROVE  TimerInv'
<1>. DEFINE t == [due |-> now + Delay[j], job |-> j]
            I == {i \in DOMAIN timers : timers[i].due <= t.due}
            k == Cardinality(I)
            r == InsertAt(timers, k + 1, t)
<1>0. timers \in Seq(Timers) /\ t \in Timers /\ t.due = now + Delay[j] /\ t.job = j
      /\ DOMAIN timers = 1 .. Len(timers) /\ Len(timers) \in Nat
  BY DispatcherAssumption, LenProperties DEF TypeOK, Timers
<1>1. timers' = r /\ due[j] = -1 /\ due' = [due EXCEPT ![j] = now + Delay[j]]
  BY DEF Schedule
<1>2. \A i \in 1 .. Len(timers) : timers[i] \in Timers
  BY <1>0, ElementOfSeq
<1>3. I = 1 .. k /\ k \in 0 .. Len(timers)
  <2>1. \A i \in I : \A m \in 1 .. i : m \in I
    <3>. SUFFICES ASSUME NEW i \in I, NEW m \in 1 .. i, m # i PROVE m \in I
      OBVIOUS
    <3>1. m \in DOMAIN timers /\ m < i
      BY <1>0
    <3>2. timers[m].due <= timers[i].due
      BY <3>1 DEF TimerInv, TimersSorted
    <3>. QED BY <1>0, <1>2, <3>1, <3>2 DEF Timers
  <2>2. I \in SUBSET (1 .. Len(timers))
    BY <1>0
  <2>. HIDE DEF I
  <2>. QED BY <1>0, <2>1, <2>2, DownwardsClosed
<1>4. \A i \in 1 .. Len(timers) : i <= k <=> timers[i].due <= t.due
  BY <1>0, <1>3
<1>. HIDE DEF I, k, t
<1>5. /\ Len(r) = Len(timers) + 1
      /\ \A i \in 1 .. k : r[i] = timers[i]
      /\ r[k + 1] = t
      /\ \A i \in k + 2 .. Len(timers) + 1 : r[i] = timers[i - 1]
  BY <1>0, <1>3, InsertAtElements
<1>6. r \in Seq(Timers)
  BY <1>0, <1>3, InsertAtSeq
<1>. HIDE DEF r
<1>7. DOMAIN r = 1 .. Len(timers) + 1
  BY <1>5, <1>6, LenProperties
<1>8. \A i, m \in 1 .. Len(timers) + 1 : i < m => r[i].due <= r[m].due
  <2>. SUFFICES ASSUME NEW i \in 1 .. Len(timers) + 1, NEW m \in 1 .. Len(timers) + 1, i < m
                PROVE  r[i].due <= r[m].due
    OBVIOUS
  <2>1. \A p, q \in 1 .. Len(timers) : p < q => timers[p].due <= timers[q].due
    BY <1>0 DEF TimerInv, TimersSorted
  <2>2. CASE m <= k
    BY <1>0, <1>3, <1>5, <2>1, <2>2
  <2>3. CASE m = k + 1
    BY <1>0, <1>3, <1>4, <1>5, <2>3
  <2>4. CASE m > k + 1 /\ i <= k
    BY <1>0, <1>3, <1>5, <2>1, <2>4
  <2>5. CASE m > k + 1 /\ i = k + 1
    <3>1. m - 1 \in 1 .. Len(timers) /\ ~(m - 1 <= k) /\ r[m] = timers[m - 1] /\ r[i] = t
      BY <1>0, <1>3, <1>5, <2>5
    <3>2. ~(timers[m - 1].due <= t.due) /\ timers[m - 1] \in Timers
      BY <1>2, <1>4, <3>1
    <3>. QED BY <1>0, <3>1, <3>2 DEF Timers
  <2>6. CASE m > k + 1 /\ i > k + 1
    <3>1. i - 1 \in 1 .. Len(timers) /\ m - 1 \in 1 .. Len(timers) /\ i - 1 < m - 1
          /\ r[i] = timers[i - 1] /\ r[m] = timers[m - 1]
      BY <1>0, <1>3, <1>5, <2>6
    <3>. QED BY <2>1, <3>1
  <2>. QED BY <1>3, <2>2, <2>3, <2>4, <2>5, <2>6
<1>9. \A i \in 1 .. Len(timers) + 1 : due'[r[i].job] = r[i].due
  <2>. SUFFICES ASSUME NEW i \in 1 .. Len(timers) + 1 PROVE due'[r[i].job] = r[i].due
    OBVIOUS
  <2>1. CASE i = k + 1
    BY <1>0, <1>1, <1>5, <2>1 DEF TypeOK
  <2>2. ASSUME NEW m \in 1 .. Len(timers), r[i] = timers[m]
        PROVE  due'[r[i].job] = r[i].due
    <3>1. timers[m] \in Timers /\ due[timers[m].job] = timers[m].due
      BY <1>0, <1>2 DEF TimerInv, TimersAsAsked
    <3>2. timers[m].job # j
      BY <1>1, <3>1 DEF Timers
    <3>. QED BY <1>1, <2>2, <3>1, <3>2 DEF TypeOK, Timers
  <2>3. CASE i <= k
    BY <1>0, <1>3, <1>5, <2>2, <2>3
  <2>4. CASE i > k + 1
    <3>1. i - 1 \in 1 .. Len(timers) /\ r[i] = timers[i - 1]
      BY <1>0, <1>3, <1>5, <2>4
    <3>. QED BY <2>2, <3>1
  <2>. QED BY <1>3, <2>1, <2>3, <2>4
<1>. QED BY <1>1, <1>7, <1>8, <1>9 DEF TimerInv, TimersSorted, TimersAsAsked

LEMMA FireKeepsSorted ==
    ASSUME TypeOK, TimerInv, TimerFire
    PROVE  TimerInv'
<1>1. timers # <<>> /\ timers' = Tail(timers) /\ due' = due
  BY DEF TimerFire
<1>2. \A i \in DOMAIN Tail(timers) : i + 1 \in DOMAIN timers /\ Tail(timers)[i] = timers[i + 1]
  BY <1>1, TimersTail
<1>3. DOMAIN timers = 1 .. Len(timers) /\ DOMAIN Tail(timers) \subseteq Int
  <2>1. timers \in Seq(Timers) /\ Tail(timers) \in Seq(Timers)
    BY <1>1, TimersTail DEF TypeOK, Timers
  <2>. QED BY <2>1, LenProperties
<1>4. TimersSorted'
  <2>. SUFFICES ASSUME NEW i \in DOMAIN Tail(timers), NEW m \in DOMAIN Tail(timers), i < m
                PROVE  Tail(timers)[i].due <= Tail(timers)[m].due
    BY <1>1 DEF TimersSorted
  <2>1. i + 1 < m + 1 /\ i + 1 \in DOMAIN timers /\ m + 1 \in DOMAIN timers
    BY <1>2, <1>3
  <2>2. timers[i + 1].due <= timers[m + 1].due
    BY <2>1 DEF TimerInv, TimersSorted
  <2>. QED BY <1>2, <2>2
<1>5. TimersAsAsked'
  BY <1>1, <1>2 DEF TimerInv, TimersAsAsked
<1>. QED BY <1>4, <1>5 DEF TimerInv

(* A job posted at once is not in _timer_queue.                            *)
LEMMA NowKeepsSorted ==
    ASSUME TypeOK, TimerInv, NEW j \in Timed, ScheduleNow(j)
    PROVE  TimerInv'
<1>1. due[j] = -1 /\ due' = [due EXCEPT ![j] = now] /\ timers' = timers
  BY DEF ScheduleNow
<1>2. \A i \in DOMAIN timers : timers[i] \in Timers
  <2>1. timers \in Seq(Timers) /\ DOMAIN timers = 1 .. Len(timers)
    BY LenProperties DEF TypeOK, Timers
  <2>. QED BY <2>1, ElementOfSeq
<1>3. \A i \in DOMAIN timers : timers[i].job # j
  BY <1>1, <1>2 DEF TimerInv, TimersAsAsked, Timers
<1>4. TimersAsAsked'
  BY <1>1, <1>2, <1>3 DEF TimerInv, TimersAsAsked, Timers, TypeOK
<1>. QED BY <1>1, <1>4 DEF TimerInv, TimersSorted

LEMMA NextTimerInv == TypeOK /\ TimerInv /\ [Next]_vars => TimerInv'
<1>. SUFFICES ASSUME TypeOK, TimerInv, [Next]_vars PROVE TimerInv'
  OBVIOUS
<1>1. CASE UNCHANGED <<timers, due>>
  BY <1>1 DEF TimerInv, TimersSorted, TimersAsAsked
<1>2. \/ UNCHANGED <<timers, due>>
      \/ TimerFire
      \/ \E j \in Timed : Schedule(j) \/ ScheduleNow(j)
  BY DEF Next, Post, InvokeAndWait, BeginWait, Dispatch, Take, Wait, Return, Finish, Stop, Joined,
         StopTimers, TimerThread, TimerStart, TimerExit, TimerWait, TimerWake, Tick, vars, timerVars
<1>. QED BY <1>1, <1>2, FireKeepsSorted, ScheduleSorts, NowKeepsSorted

(* Who posts a timed job: the timer thread the head of its queue, once it  *)
(* is due, or invokeLaterWithDelay one without delay.                      *)
LEMMA TimedArePosted ==
    ASSUME IInv, [Next]_vars, NEW j \in Timed, j \notin ToSet(posted), j \in ToSet(posted')
    PROVE  (TimerFire /\ timers[1].job = j) \/ ScheduleNow(j)
<1>1. posted \in Seq(Jobs) /\ j \notin Posts /\ j \notin Clients
  BY DispatcherAssumption DEF IInv, TypeOK
<1>2. ASSUME NEW x \in Jobs, posted' = Append(posted, x) PROVE x = j
  BY <1>1, <1>2, ToSetAppend
<1>3. ASSUME NEW i \in Posts, Post(i) PROVE FALSE
  <2>1. i \in Jobs /\ posted' = Append(posted, i)
    BY <1>3 DEF Post, Enqueue, Jobs
  <2>. QED BY <1>1, <1>2, <2>1
<1>4. ASSUME NEW c \in Clients, InvokeAndWait(c) PROVE FALSE
  <2>1. posted' = posted \/ (c \in Jobs /\ posted' = Append(posted, c))
    BY <1>4 DEF InvokeAndWait, Enqueue, Jobs
  <2>. QED BY <1>1, <1>2, <2>1
<1>5. ASSUME NEW i \in Timed, ScheduleNow(i) PROVE ScheduleNow(j)
  <2>1. i \in Jobs /\ posted' = Append(posted, i)
    BY <1>5 DEF ScheduleNow, Enqueue, Jobs
  <2>. QED BY <1>2, <1>5, <2>1
<1>6. CASE TimerFire
  <2>1. timers # <<>> /\ (posted' = posted \/ posted' = Append(posted, timers[1].job))
    BY <1>6 DEF TimerFire, Enqueue
  <2>2. timers[1].job \in Jobs
    <3>1. timers \in Seq(Timers)
      BY DEF IInv, TypeOK, Timers
    <3>2. Len(timers) \in Nat \ {0}
      BY <2>1, <3>1, EmptySeq, LenProperties
    <3>3. timers[1] \in Timers
      BY ONLY <3>1, <3>2, ElementOfSeq
    <3>. QED BY <3>3 DEF Timers, Jobs
  <2>. QED BY <1>2, <1>6, <2>1, <2>2
<1>7. posted' # posted
  OBVIOUS
<1>8. \/ \E i \in Posts : Post(i)
      \/ \E c \in Clients : InvokeAndWait(c)
      \/ \E i \in Timed : ScheduleNow(i)
      \/ TimerFire
  BY <1>7 DEF Next, BeginWait, Schedule, Dispatch, Take, Wait, Return, Finish, Stop, Joined,
         StopTimers, TimerThread, TimerStart, TimerExit, TimerWait, TimerWake, Tick, vars,
         queueVars
<1>. QED BY <1>3, <1>4, <1>5, <1>6, <1>8

LEMMA PostsInOrder ==
    ASSUME IInv, TimerInv, [Next]_vars, NEW j \in Timed, j \notin ToSet(posted), j \in ToSet(posted')
    PROVE  /\ due'[j] <= now
           /\ \A i \in DOMAIN timers' : due'[j] <= timers'[i].due \/ Delay[j] = 0
<1>0. TypeOK
  BY DEF IInv
<1>1. CASE TimerFire /\ timers[1].job = j
  <2>1. timers # <<>> /\ timers[1].due <= now /\ timers' = Tail(timers) /\ due' = due
    BY <1>1 DEF TimerFire
  <2>2. /\ 1 \in DOMAIN timers
        /\ \A i \in DOMAIN Tail(timers) : timers[1].due <= Tail(timers)[i].due
    BY <1>0, <2>1, TimersTail
  <2>3. due[j] = timers[1].due
    BY <1>1, <2>2 DEF TimerInv, TimersAsAsked
  <2>. QED BY <2>1, <2>2, <2>3
<1>2. CASE ScheduleNow(j)
  <2>1. due'[j] = now /\ Delay[j] = 0 /\ now \in Nat
    BY <1>0, <1>2 DEF ScheduleNow, TypeOK
  <2>. QED BY <2>1
<1>. QED BY <1>1, <1>2, TimedArePosted

(* A timer is posted when it is due and not ahead of one that is due       *)
(* before it, whenever and by whomever others are added meanwhile          *)
(* (protocol.Timer ordering, invokeLaterWithDelay and _dispatch_timers).   *)
THEOREM TimersKeepTheirOrder == Spec => TimersInOrder
<1>1. Init => TimerInv
  BY DEF Init, TimerInv, TimersSorted, TimersAsAsked
<1>2. Spec => [](IInv /\ TimerInv)
  <2>1. Init => IInv /\ TimerInv
    BY <1>1, InitIInv
  <2>2. (IInv /\ TimerInv) /\ [Next]_vars => (IInv /\ TimerInv)'
    BY NextIInv, NextTimerInv DEF IInv
  <2>. QED BY <2>1, <2>2, PTL DEF Spec
<1>3. IInv /\ TimerInv /\ [Next]_vars =>
        [\A j \in Timed : j \notin ToSet(posted) /\ j \in ToSet(posted')
          => /\ due'[j] <= now
             /\ \A i \in DOMAIN timers' : due'[j] <= timers'[i].due \/ Delay[j] = 0]_vars
  BY PostsInOrder
<1>. QED BY <1>2, <1>3, PTL DEF Spec, TimersInOrder
=============================================================================

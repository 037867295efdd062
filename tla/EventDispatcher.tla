--------------------------- MODULE EventDispatcher ---------------------------
(***************************************************************************)
(* The TCF event dispatcher of src/chipscopy/tcf: the thread that runs     *)
(* every callback (EventQueue.EventQueue), the timer thread that feeds it  *)
(* (protocol._dispatch_timers), and the entry points any thread may call   *)
(* (protocol.invokeLater, invokeLaterWithDelay, invokeAndWait,             *)
(* stopEventQueue).                                                        *)
(*                                                                         *)
(* A job is a callable: one per calling thread of invokeAndWait (its       *)
(* DoRun), and the members of Posts and Timed.  Code that runs under one   *)
(* lock is one step.  An exception of a job is logged by EventQueue and    *)
(* changes nothing else, so a job simply finishes.  An operator marked     *)
(* Faulty is a variant with a mistake in it, which no specification uses.  *)
(***************************************************************************)
EXTENDS Integers, FiniteSets, SequencesExt

CONSTANTS
    Clients,    \* threads that call invokeAndWait, each named like its job
    Discovery,  \* those of them that are the stopping thread in shutdownDiscovery
    Posts,      \* jobs given to invokeLater
    Timed,      \* jobs given to invokeLaterWithDelay
    Delay,      \* the delay of each timed job
    MaxTime,    \* bound: the clock stops here and no timer is due later
    NoJob       \* the dispatcher runs nothing

ASSUME DispatcherAssumption ==
    /\ Delay \in [Timed -> Nat]
    /\ MaxTime \in Nat
    /\ Discovery \subseteq Clients
    /\ Clients \cap Posts = {} /\ Clients \cap Timed = {} /\ Posts \cap Timed = {}
    /\ NoJob \notin Clients \cup Posts \cup Timed

VARIABLES
    queue,      \* EventQueue.__queue
    waiting,    \* EventQueue.__is_waiting
    shutdown,   \* EventQueue.__is_shutdown
    disp,       \* where the dispatch thread is
    cur,        \* the job it runs
    client,     \* where each calling thread of invokeAndWait is
    stopper,    \* where the caller of stopEventQueue is
    timers,     \* protocol._timer_queue, sorted
    alive,      \* protocol._timer_queue_alive
    timerPc,    \* where the timer thread is
    now,        \* the clock
    due,        \* history: when each timed job is due, -1 before it is given
    posted,     \* history: the jobs in the order they entered the queue
    ran         \* history: the jobs in the order they finished

queueVars == <<queue, waiting, shutdown, disp, cur, posted, ran>>
timerVars == <<timers, alive, timerPc, due>>
vars == <<queueVars, client, stopper, timerVars, now>>

Jobs == Clients \cup Posts \cup Timed

Init ==
    /\ queue = <<>> /\ waiting = FALSE /\ shutdown = FALSE
    /\ disp = "idle" /\ cur = NoJob
    /\ client = [c \in Clients |-> "idle"]
    /\ stopper = "none"
    /\ timers = <<>> /\ alive = FALSE /\ timerPc = "new"
    /\ now = 0
    /\ due = [j \in Timed |-> -1]
    /\ posted = <<>> /\ ran = <<>>

-----------------------------------------------------------------------------
(* Faulty: the wakeup is forgotten.                                        *)
EnqueueNoWake(j) ==
    /\ queue' = Append(queue, j)
    /\ posted' = Append(posted, j)
    /\ UNCHANGED <<waiting, disp>>

(* Faulty: the job goes to the front.                                      *)
EnqueueFront(j) ==
    /\ queue' = <<j>> \o queue
    /\ posted' = Append(posted, j)
    /\ waiting' = FALSE
    /\ disp' = IF waiting THEN "idle" ELSE disp

(* EventQueue.invokeLater after its shutdown test: append and wake the     *)
(* dispatch thread when its flag says that it waits.                       *)
Enqueue(j) ==
    /\ queue' = Append(queue, j)
    /\ posted' = Append(posted, j)
    /\ waiting' = FALSE
    /\ disp' = IF waiting THEN "idle" ELSE disp

Post(j) ==
    /\ ~shutdown
    /\ j \notin ToSet(posted)
    /\ Enqueue(j)
    /\ UNCHANGED <<shutdown, cur, ran, client, stopper, timerVars, now>>

(* The dispatch loop: pop the oldest job, wait for one, or return.         *)
Take ==
    /\ disp = "idle"
    /\ queue # <<>>
    /\ cur' = Head(queue) /\ queue' = Tail(queue)
    /\ disp' = "running"
    /\ UNCHANGED <<waiting, shutdown, posted, ran, client, stopper, timerVars, now>>

Wait ==
    /\ disp = "idle"
    /\ queue = <<>>
    /\ ~shutdown
    /\ waiting' = TRUE /\ disp' = "blocked"
    /\ UNCHANGED <<queue, shutdown, cur, posted, ran, client, stopper, timerVars, now>>

(* Faulty: shutdown is honoured before the queue is drained.               *)
ReturnEarly ==
    /\ disp = "idle"
    /\ shutdown
    /\ disp' = "returned"
    /\ UNCHANGED <<queue, waiting, shutdown, cur, posted, ran, client, stopper, timerVars, now>>

Return ==
    /\ disp = "idle"
    /\ queue = <<>>
    /\ shutdown
    /\ disp' = "returned"
    /\ UNCHANGED <<queue, waiting, shutdown, cur, posted, ran, client, stopper, timerVars, now>>

(* Faulty: DoRun notifies without the caller's lock.                       *)
FinishUnlocked ==
    /\ disp = "running"
    /\ stopper # "inline"
    /\ ran' = Append(ran, cur)
    /\ cur' = NoJob /\ disp' = "idle"
    /\ client' = [c \in Clients |->
                    IF c = cur /\ client[c] = "waiting" THEN "returned" ELSE client[c]]
    /\ UNCHANGED <<queue, waiting, shutdown, posted, stopper, timerVars, now>>

(* Faulty: the job is forgotten before it is recorded.                     *)
FinishAfterReset ==
    /\ disp = "running"
    /\ stopper # "inline"
    /\ \A c \in Clients : c = cur => client[c] # "holding"
    /\ ran' = Append(ran, NoJob)
    /\ cur' = NoJob /\ disp' = "idle"
    /\ client' = [c \in Clients |->
                    IF c = cur /\ client[c] = "waiting" THEN "returned" ELSE client[c]]
    /\ UNCHANGED <<queue, waiting, shutdown, posted, stopper, timerVars, now>>

(* A job ends.  A DoRun needs the caller's lock for its notify, which only *)
(* a caller already inside wait() hears.                                   *)
Finish ==
    /\ disp = "running"
    /\ stopper # "inline"
    /\ \A c \in Clients : c = cur => client[c] # "holding"
    /\ ran' = Append(ran, cur)
    /\ cur' = NoJob /\ disp' = "idle"
    /\ client' = [c \in Clients |->
                    IF c = cur /\ client[c] = "waiting" THEN "returned" ELSE client[c]]
    /\ UNCHANGED <<queue, waiting, shutdown, posted, stopper, timerVars, now>>

-----------------------------------------------------------------------------
(* invokeAndWait from another thread: the caller holds runLock from before *)
(* the post until wait() releases it.  After shutdown the post raises.     *)
(* The call shutdownDiscovery makes comes before the stop it is part of.   *)
InvokeAndWait(c) ==
    /\ client[c] = "idle"
    /\ c \in Discovery => stopper = "none"
    /\ \/ /\ shutdown
          /\ client' = [client EXCEPT ![c] = "refused"]
          /\ UNCHANGED <<queue, posted, waiting, disp>>
       \/ /\ ~shutdown
          /\ Enqueue(c)
          /\ client' = [client EXCEPT ![c] = "holding"]
    /\ UNCHANGED <<shutdown, cur, ran, stopper, timerVars, now>>

BeginWait(c) ==
    /\ client[c] = "holding"
    /\ client' = [client EXCEPT ![c] = "waiting"]
    /\ UNCHANGED <<queueVars, stopper, timerVars, now>>

(* Faulty: shutdown does not notify.                                       *)
StopNoWake ==
    /\ stopper = "none"
    /\ ~shutdown
    /\ shutdown' = TRUE
    /\ \/ /\ \A c \in Discovery : client[c] \in {"idle", "returned"}
          /\ stopper' = "joining"
       \/ /\ disp = "running" /\ \A c \in Discovery : client[c] = "idle"
          /\ stopper' = "inline"
    /\ UNCHANGED <<queue, waiting, disp, cur, posted, ran, client, timerVars, now>>

(* stopEventQueue, called by a job (its join of the own thread raises and  *)
(* is logged) or by another thread (which joins the dispatch thread).  The *)
(* hook __on_shutdown comes first: shutdownDiscovery, which does nothing   *)
(* without a locator, runs within a job, and is an invokeAndWait of        *)
(* another thread.  LocatorService.shutdown catches what it raises.        *)
Stop ==
    /\ stopper = "none"
    /\ ~shutdown
    /\ shutdown' = TRUE
    /\ waiting' = FALSE
    /\ disp' = IF waiting THEN "idle" ELSE disp
    /\ \/ /\ \A c \in Discovery : client[c] \in {"idle", "returned"}
          /\ stopper' = "joining"
       \/ /\ disp = "running" /\ \A c \in Discovery : client[c] = "idle"
          /\ stopper' = "inline"
    /\ UNCHANGED <<queue, cur, posted, ran, client, timerVars, now>>

Joined ==
    /\ stopper = "joining"
    /\ disp = "returned"
    /\ stopper' = "joined"
    /\ UNCHANGED <<queueVars, client, timerVars, now>>

NotifyTimerThread ==
    timerPc' = IF timerPc \in {"blocked", "sleeping"} THEN "check" ELSE timerPc

StopTimers ==
    /\ stopper \in {"joined", "inline"}
    /\ stopper' = "stopped"
    /\ alive' = FALSE
    /\ NotifyTimerThread
    /\ UNCHANGED <<queueVars, client, timers, due, now>>

-----------------------------------------------------------------------------
(* Faulty: the timer thread is not notified, the new timer goes first.     *)
ScheduleNoNotify(j) ==
    /\ due[j] = -1
    /\ Delay[j] > 0 /\ now + Delay[j] <= MaxTime
    /\ timers' = <<[due |-> now + Delay[j], job |-> j]>> \o timers
    /\ due' = [due EXCEPT ![j] = now + Delay[j]]
    /\ UNCHANGED <<queueVars, client, stopper, alive, timerPc, now>>

(* invokeLaterWithDelay: append and sort, so that a new timer goes behind  *)
(* those that are due no later; a delay of 0 posts at once.                *)
Schedule(j) ==
    /\ due[j] = -1
    /\ Delay[j] > 0 /\ now + Delay[j] <= MaxTime
    /\ LET t == [due |-> now + Delay[j], job |-> j]
           earlier == {i \in DOMAIN timers : timers[i].due <= t.due}
       IN  /\ timers' = InsertAt(timers, Cardinality(earlier) + 1, t)
           /\ due' = [due EXCEPT ![j] = t.due]
    /\ NotifyTimerThread
    /\ UNCHANGED <<queueVars, client, stopper, alive, now>>

ScheduleNow(j) ==
    /\ due[j] = -1
    /\ Delay[j] = 0
    /\ ~shutdown
    /\ Enqueue(j)
    /\ due' = [due EXCEPT ![j] = now]
    /\ UNCHANGED <<shutdown, cur, ran, client, stopper, timers, alive, timerPc, now>>

(* _dispatch_timers: the thread itself raises the alive flag, then loops.  *)
TimerStart ==
    /\ timerPc = "new"
    /\ alive' = TRUE
    /\ timerPc' = "check"
    /\ UNCHANGED <<queueVars, client, stopper, timers, due, now>>

TimerExit ==
    /\ timerPc = "check"
    /\ ~alive
    /\ timerPc' = "exited"
    /\ UNCHANGED <<queueVars, client, stopper, timers, alive, due, now>>

TimerWait ==
    /\ timerPc = "check"
    /\ alive
    /\ \/ timers = <<>> /\ timerPc' = "blocked"
       \/ timers # <<>> /\ timers[1].due > now /\ timerPc' = "sleeping"
    /\ UNCHANGED <<queueVars, client, stopper, timers, alive, due, now>>

TimerWake ==
    /\ timerPc = "sleeping"
    /\ timers[1].due <= now
    /\ timerPc' = "check"
    /\ UNCHANGED <<queueVars, client, stopper, timers, alive, due, now>>

(* Faulty: the due time is not tested.                                     *)
TimerFireEarly ==
    /\ timerPc = "check"
    /\ alive
    /\ timers # <<>>
    /\ timers' = Tail(timers)
    /\ \/ ~shutdown /\ Enqueue(timers[1].job) /\ UNCHANGED timerPc
       \/ shutdown /\ timerPc' = "exited" /\ UNCHANGED <<queue, posted, waiting, disp>>
    /\ UNCHANGED <<shutdown, cur, ran, client, stopper, alive, due, now>>

(* The head is due: pop it and post it; after shutdown the post raises and *)
(* the thread ends.                                                        *)
TimerFire ==
    /\ timerPc = "check"
    /\ alive
    /\ timers # <<>>
    /\ timers[1].due <= now
    /\ timers' = Tail(timers)
    /\ \/ ~shutdown /\ Enqueue(timers[1].job) /\ UNCHANGED timerPc
       \/ shutdown /\ timerPc' = "exited" /\ UNCHANGED <<queue, posted, waiting, disp>>
    /\ UNCHANGED <<shutdown, cur, ran, client, stopper, alive, due, now>>

Tick ==
    /\ now < MaxTime
    /\ now' = now + 1
    /\ UNCHANGED <<queueVars, client, stopper, timerVars>>

-----------------------------------------------------------------------------
Dispatch == Take \/ Wait \/ Return \/ Finish
TimerThread == TimerStart \/ TimerExit \/ TimerWait \/ TimerWake \/ TimerFire

Next ==
    \/ \E j \in Posts : Post(j)
    \/ \E c \in Clients : InvokeAndWait(c) \/ BeginWait(c)
    \/ \E j \in Timed : Schedule(j) \/ ScheduleNow(j)
    \/ Dispatch
    \/ Stop \/ Joined \/ StopTimers
    \/ TimerThread
    \/ Tick

(* Started threads keep running and callbacks return; nobody is obliged to *)
(* call anything, but a stop goes on once shutdownDiscovery has returned.  *)
Fairness ==
    /\ WF_vars(Dispatch)
    /\ WF_vars(TimerThread)
    /\ WF_vars(Tick)
    /\ WF_vars(Joined) /\ WF_vars(StopTimers)
    /\ WF_vars((\E c \in Discovery : client[c] = "returned") /\ Stop)
    /\ \A c \in Clients : WF_vars(BeginWait(c))

Spec == Init /\ [][Next]_vars /\ Fairness

-----------------------------------------------------------------------------
DispPcs == {"idle", "blocked", "running", "returned"}
ClientPcs == {"idle", "holding", "waiting", "returned", "refused"}
StopperPcs == {"none", "joining", "joined", "inline", "stopped"}
TimerPcs == {"new", "check", "blocked", "sleeping", "exited"}

(* Every variable keeps the shape the fields of EventQueue and protocol    *)
(* have.                                                                   *)
TypeOK ==
    /\ queue \in Seq(Jobs) /\ posted \in Seq(Jobs) /\ ran \in Seq(Jobs)
    /\ waiting \in BOOLEAN /\ shutdown \in BOOLEAN /\ alive \in BOOLEAN
    /\ disp \in DispPcs
    /\ cur \in Jobs \cup {NoJob}
    /\ client \in [Clients -> ClientPcs]
    /\ stopper \in StopperPcs
    /\ timers \in Seq([due : Nat, job : Timed])
    /\ timerPc \in TimerPcs
    /\ now \in Nat
    /\ due \in [Timed -> Nat \cup {-1}]

Running == IF disp = "running" THEN <<cur>> ELSE <<>>

(* "Events are dispatched in same order as queued" (protocol.invokeLater): *)
(* what finished, what runs and what waits is what was posted, in order,   *)
(* whichever threads posted it and across the shutdown.                    *)
FifoDispatch == posted = ran \o Running \o queue

(* The dispatch thread never sleeps on work or on a shutdown request       *)
(* (EventQueue.__call__ against invokeLater and shutdown).                 *)
NoLostWakeup ==
    disp = "blocked" => queue = <<>> /\ ~shutdown

(* A thread blocked in invokeAndWait still has its DoRun ahead of it, so a *)
(* notify will come (runLock is held from the post to the wait).           *)
WaiterHasJob ==
    \A c \in Clients :
        client[c] \in {"holding", "waiting"} => c \in ToSet(queue) \/ (disp = "running" /\ cur = c)

(* The dispatch thread returns only with every posted job run              *)
(* (EventQueue.__call__ drains its queue before it honours shutdown).      *)
DrainedOnReturn ==
    disp = "returned" => ran = posted

(* A timer fires neither early nor ahead of one that is due before it      *)
(* (protocol.Timer ordering and _dispatch_timers).                         *)
TimersInOrder ==
    [][\A j \in Timed : j \notin ToSet(posted) /\ j \in ToSet(posted')
          => /\ due'[j] <= now
             /\ \A i \in DOMAIN timers' : due'[j] <= timers'[i].due \/ Delay[j] = 0]_vars

(* A call of invokeAndWait returns, also when the queue is shut down while *)
(* it waits.                                                               *)
CallersReturn ==
    \A c \in Clients : client[c] = "holding" ~> client[c] = "returned"

(* A timed job is run unless the queue is shut down first                  *)
(* (invokeLaterWithDelay: no insertion is missed by the timer thread).     *)
TimersFire ==
    \A j \in Timed : due[j] >= 0 ~> (j \in ToSet(ran) \/ shutdown)

(* stopEventQueue returns, also when its shutdownDiscovery has to wait for *)
(* the dispatch thread it is about to stop.                                *)
StopReturns ==
    shutdown \/ (\E c \in Discovery : client[c] # "idle") ~> stopper = "stopped"

(* "Stop timer dispatcher" (the comment in protocol.stopEventQueue): once  *)
(* the call is over the timer thread ends.                                 *)
TimerThreadEnds == stopper = "stopped" ~> timerPc = "exited"
=============================================================================

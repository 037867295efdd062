# A TLA+ verification of ChipScoPy's client core

ChipScoPy is a Python client of two servers, `hw_server` and `cs_server`, that
debug FPGA designs.  User threads call blocking APIs; all protocol work runs on
one dispatch thread; each TCP channel adds a reader and a writer thread.  This
project models that core, checks it with TLC and proves parts of it with TLAPS.

## 1. Inventory

| Component | Source | State | Operations | Talks to |
|---|---|---|---|---|
| Event dispatcher | `tcf/EventQueue.py`, `tcf/protocol.py` | job queue, waiting and shutdown flags; timer list, alive flag | `invokeLater`, `invokeAndWait`, `invokeLaterWithDelay`, dispatch loop, timer loop, `stopEventQueue` | everything posts to it |
| TCF channel and commands | `tcf/channel/AbstractChannel.py`, `Command.py` | channel state, `out_queue`, `out_tokens`, listeners | open, send, cancel, receive, flow control, close, terminate | dispatcher, peer |
| Requests and queue groups | `dm/request.py`, `client/core.py`, `client/mem.py` | a deque for each queue group, node, result and error of a request, `node.request` | call, invoke, retry, run, answer, time-out, cancel | dispatcher, node tree, channel |
| Node tree | `dm/__init__.py` | nodes by context, children, pending tokens, listeners | add, remove, upgrade, set children, notify | requests, views |
| Server views | `dm/chipscope.py`, `debugcore.py`, `jtag.py`, `memory.py`, `xsdb.py` | managers filled by events and updates | update nodes, event handlers | channel, node tree |
| Poll scheduler | `dm/poll.py` | polls with reference counts and handlers | schedule, retain, release | channel |
| Client views | `client/view_info.py`, `server_info.py` | copy of a tree, queue of events | run events, read properties | node tree, requests |
| Transfers | `client/debug_core_client.py`, `jtagdevice.py` | outstanding chunks, first error | read, write, configure | channel |
| Core clients | `client/*_core_client.py` | `node.request` | one command each | requests |
| Sessions | `api/session.py` | connections with reference counts | connect, disconnect | client views |
| Watchlist | `api/_detail/property.py` | listeners and properties under a lock | add, remove, notify | node tree |
| User API | `api/` | devices, ILA, VIO, IBERT, NoC, DDR, ... | reads and conversions | core clients |
| TCF remainder | `tcf/util`, `tcf/services`, `tcf/transport.py`, loopback, proxy, discovery | tasks, caches, framing | | channel |

What is hard, and what makes each core component correct:

* **Dispatcher.**  Posts from any thread, a waiting flag that replaces a
  condition on the queue, callers blocked on a job, a stop with jobs queued,
  timers earlier than the one slept on.  Correct: jobs run in the order posted,
  no wakeup is lost, blocked callers return, the stop drains the queue, timers
  fire in order and not before their time.
* **Channel.**  The writer thread takes commands while the dispatch thread
  cancels them; reader, writer, handlers and user all end the channel.
  Correct: a command is settled once, a cancelled one is never transmitted and
  never answered, the order of messages is kept, a channel is torn down once,
  the end of stream is last, nobody who waits is forgotten.
* **Requests.**  Requests of a group run one at a time; the head of a deque is
  kept moving by posts, 1 ms retries and answers; a caller's time-out acts on
  the same fields from another thread.  Correct: no overlap, no stalled queue,
  no double completion, each request gets its own answer, callers return.
* **Transfers.**  A window of commands under way, answers in any order (those of a
  configuration in the order sent), errors in the middle and after the end.  Correct: one completion, a success has every piece,
  nothing is sent after the first error, the call ends.
* **Sessions.**  Threads share one `cs_server` by a count in a class table, any
  step of connect and disconnect may fail, and `disconnect_all_sessions` cuts in.  Correct:
  nobody's connection is closed under them, the count is that of the users, the last
  user closes, every call ends.
* **Node tree and client view.**  Answers to `get_children` interleave with events;
  additions and removals are queued apart; the view copies the tree later, on
  a user thread, and takes over lists of the manager that both then write.  Correct:
  when all is quiet, server, manager and view have the same tree.

`PROJECT.json` lists every part with its status and every hazard at its line.

## 2. Modules

| Module | Content | Model of |
|---|---|---|
| `EventDispatcher` | queue, dispatch thread, timers, stop | `EventQueue.py`, `protocol.py` |
| `MCEventDispatcher` | its instance | |
| `EventDispatcherProofs` | proofs about it | |
| `Channel` | one channel with its three threads and the peer | `AbstractChannel.py`, `Command.py` |
| `CommandLifecycle` | what a channel promises about a command | |
| `MCChannel` | its instance | |
| `ChannelProofs`, `ChannelOrderProofs` | proofs: completion and refinement; order, tokens and the close | |
| `RequestQueue` | requests, groups, callers' threads | `request.py`, parts of `dm/__init__.py` |
| `QueueGroups` | what a queue group promises | |
| `MCRequestQueue`, `RequestQueueProofs` | its instances, proofs | |
| `Transfers` | one transfer in pieces: read, write, configuration, register update | `debug_core_client.py`, `jtagdevice.py` |
| `MCTransfers`, `TransfersProofs` | instance, proofs | |
| `Sessions` | sessions that share a `cs_server`, and the thread of `disconnect_all_sessions` | `api/session.py` |
| `MCSessions`, `SessionsProofs` | instance, proofs | |
| `NodeTree` | server, manager and client view of one tree, composed | `dm/__init__.py`, `dm/chipscope.py`, `client/view_info.py` |
| `MCNodeTree`, `NodeTreeProofs` | instance, proofs | |
| `SequenceLemmas` | facts about sequences and filters used by the proofs | |

The other components do not EXTEND `EventDispatcher`.  They use what it
is shown to promise: each keeps the part of the dispatcher's queue that holds
its own callbacks (`disp`, `events`, `queue`) as a FIFO sequence, which
`FifoDispatch`, `TimersFire` and `DrainedOnReturn` justify, and a callback on
the dispatch thread is one step, because only one runs at a time.  Steps of
other threads interleave freely.

Definitions marked *Faulty* are variants of a code action with a plausible
mistake in them.  No specification uses them; each shows that a property fails
when the code is changed that way.

### EventDispatcher

`queue`, `waiting` and `shutdown` are the fields of `EventQueue`, and a critical
section of its lock is one action.  `Enqueue` is `invokeLater` after its shutdown
test; `Take`, `Wait` and `Return` are the ways out of the locked part of the loop;
`Finish` ends a job, including the `notify` of `invokeAndWait`'s `DoRun`, which needs
the caller's `runLock`.  The caller holds that lock from the post until `BeginWait`.
Time is a counter of `0 .. MaxTime`.  `timerPc` is where the timer thread is in
`_dispatch_timers`.  A stop, by another thread or by a job ("inline": its join raises
and is logged), goes through `stopEventQueue` in order: run the hook `__on_shutdown`, shut the queue,
join the dispatch thread, lower the alive flag.  The hook is `shutdownDiscovery`: with a locator, a stop by
another thread first does an `invokeAndWait`, which is the client in `Discovery`; in a job
it runs at once.  `LocatorService.shutdown` catches what it raises, so that the hook does not keep the flag down.  `posted`, `ran` and `due` are history.

### Channel

`state`, `outQueue`, `outTokens`, `isSent` and `isCanceled` are the fields of the
channel and of its messages; `Eos` stands for the `None` that ends the writer.
The writer's loop is split where it gives up `out_lock`: `WriterTake`, `WriterSkip`
and `WriterEnd` pop, `WriterWrite` and `WriterFail` write.  `Shut` is the common
body of `close` and `terminate`: replace the queue by `Eos`, join the writer, set the
state, post `Runnable`, which is `RunClosed`.  The join has a time-out, so the writer may
still be writing after it.  Each handler of `__handleInput` is an action, with the
terminate that an exception of a callback, of a command server or of the opening causes.
`SendCommand` posts an error when the channel is not open or the arguments cannot be encoded.
A cancel has three outcomes: it takes the token of an unsent command (`CancelCommand`, noted in
the history `withdrawn`), it finds the command sent and does nothing, or it finds an unsent command whose
token a faulty peer's answer took, and raises after the mark is set (`CancelAnswered`).  A peer action is a message that the
reader has read and posted; `DeliverExtra` counts those beyond Hello and answers,
of which a violation of the protocol (`PeerFault`) is one.  Payloads, services and
names are not modelled, since no property tells them apart.

### RequestQueue

`deq`, `node`, `_result`/`_error`, `node.request` and `node.pending` are
variables.  `_invoke` is split into one action for each way out of it:
manager busy, no node, not first, node busy, wrong class, run (with a command
sent) and run-at-once (a return or a raise).  The class of the node that the
second `get_node` needs may fit or not for the requests in `Picky`.
`FutureExpires`, `CancelMark`, `CancelClear`, `CancelLeave` and `CancelPost` are the steps of a future's
time-out on the caller's thread: the wait ends, the future is marked cancelled, `node.request` is cleared,
the queue is left, the next head is posted (the test for an empty queue and the read of the head are
one step).  No lock covers them and callbacks run between them.  A future that was completed after the wait
ended is cancelled as well: its done callback runs twice.  A head that was invoked after the
canceller left is posted all the same: it is invoked twice, or once more after it left the queue, where
`is_first` raises on the empty deque (`NotFirst`).  `GroupSerial` and `OwnAnswer` still hold where each command
holds a token on its node.  Two 1 ms timers of one request count as one in `delayed`.  `UsesSelf` are the functions, like
`get_profilers` in `client/mem.py`, that complete `self.request` instead of the request that sent
the command.  Environment steps make the manager or a node busy and remove and
add contexts.

### Transfers

A transfer is a set of closures over `local_pending`, `err`, `offset` and
`all_requests_sent`: here `pending`, `err`, `next` and `allSent`.  `Fill` is `request_data`
or `send_data`, which sends while less than `Window` commands are under way;
`ChunkAnswered` is the answer to a piece with every outcome the callbacks tell apart.
For a configuration, `Begun`, `Ended` and `Listed` are `config_started`,
`config_wait_for_dpc_ready` and `config_done`; for `update_regs` everything is sent at
once and the end is seen in `Node.pending`, which other commands on the node (`OtherStarts`)
share; up to `MaxOther` of them run.  For a configuration they count against the window.  A failed send is an answer with an error, because `Command` posts one, and
an ended channel answers everything: `CommandsSettle` of `Channel`.  An answer to
a read that is not a list of one dictionary counts as received but stores nothing (`skipped`).
Reads, writes and register updates are answered in any order.  The answers of a configuration come in the
order of its commands (`MayAnswer`): this is assumed of the server, and the code relies on it, because an early answer to
the end would complete the call with pieces under way.  The caller's own time-out is not modelled
(`request` is then `None` at `jtagdevice.py:380`).
A configuration that fails twice completes `self.request` when it is already `None` and raises
in the callback (`raised`, `jtagdevice.py:408`).

### Sessions

`hw`, `cs`, `listening`, `need` are fields of each session, `listed`, `count` and `server`
the class's two tables, `open` the connections that really are open.  All sessions name
one address.  `pc` is where each thread is in `connect` or `disconnect`; every call that
leaves the process is a step that may fail; `connect_cs_server` may fail for a session that would only join, too.
`listening` is none, some or all of the view listeners, which are added view by view.  `ScanDevices` and
`StoreDevices` are the two halves of a scan, with `NodeCallback` at any moment between: it is one step, in whichever thread runs
the view's events.  A part under `_session_lock` is one step, so the
lock shows only as "`disconnect_all_sessions` is not at work".  `torn` records that its
`ClearTables` emptied the table while a connection was open, because a session was between
`connect_cs_server` and `_add_connection`, or its disconnect failed; afterwards the code gives no
guarantee, and the invariants do not speak.  `leaked` counts the failures of `connect_remote`
after the count was raised (`session.py:243-248`), which nothing gives back.

### NodeTree

`nodes` and `kids` are `CsManager._nodes` and `Node.children`; `vnodes` and `vkids` are those
of the view, and `alias` has the nodes whose list in the view *is* the manager's list:
`GetNodes` puts the manager's list objects into events, and `set_children` of the view takes
them over (queued at `view_info.py:222`, done at `dm/__init__.py:463-477`).  `queue` holds the messages of the server and the posted
jobs of `notify_node_added` and `notify_node_removed`, which come after the immediate calls; `events` is the view's queue, of
which a user thread takes one per step.  `Freeze` and `Detach` say that a list which the manager
replaces or drops, with the children it has then, stays with the view as its own; an event may carry it too.
`Reach`, the nodes below a set of nodes by the lists, is the least set with the ones that has, with a node, those it
lists; `Walks` has the orders in which `add_children` may meet the nodes, as the lists are sets.  `OnChildren` is the whole of `done_get_children`:
`set_children`, an `add_node` and a further `get_children` for every child.

The server of the model sends answers and events in one order.  Therefore
`set_children` never finds a child to remove.  It tells of removals leaf by leaf, or
(`whole`) of the topmost context only, and then only when the tree is loaded and of contexts that do
not come back: otherwise the view's late removal, on the shared list, takes a new child out
of the manager's list before the manager removes the parent, and an orphan stays in `_nodes`.

## 3. Runs

| Run | Instance | Shows |
|---|---|---|
| `dispatcher` | one blocked caller, one post, timers with delays 0, 1, 2, a stop with `shutdownDiscovery` | all dispatcher properties |
| `channel` | two commands, one command of the peer, one further message (event, progress, flow or violation) | safety, refinement of `CommandLifecycle`, liveness of the channel |
| `request_groups` | a future and three `CsRequestSync` on two groups, one context removed and added | serial groups, one driver of each head, refinement of `QueueGroups`, callers return |
| `request_timeouts` | two futures and one `CsRequestSync` on one node, all with time-outs and pending tokens, two of which may find it of the wrong class | pending tokens keep groups serial and answers apart |
| `transfers` | all kinds, 0 to 5 pieces, a window of 2, two other commands | one completion, whole or with an error, nothing sent after it, the end |
| `sessions` | two sessions that share, one failure that leaks a count, one `disconnect_all_sessions` | nobody is cut off, the count, the last one closes, calls end |
| `node_tree` | a device with two cores, three events of the server, from before the first answer | the two trees come to agree with the server's |
| `dispatcher_timer_stop` | a stop before the timer thread's first step | violated, see 5 |
| `channel_listeners` | three listeners that remove themselves | violated, see 5 |
| `request_late_answer` | a cancelled future without a pending token | violated, see 5 |
| `request_wrong_class` | a future of the wrong class | violated, see 5 |
| `sessions_rescan` | one device leaves | violated, see 5 |

**Bounds.**  Two commands suffice for every property of the channel but
ordering, which compares two messages; cancel, answer and close of one may come at every point
of the other.  Two requests of a group give a head and a successor, a second
group shows that groups do not disturb each other.  `MaxExtra`, `MaxBusy` and
`MaxGen` bound what the environment does, not what the code does.  `MaxTime`
lets a timer be set while another is slept on, due earlier, at the same instant or later.
A window of two with
five pieces is filled and refilled, ends on a full and on a part-filled window, and has pieces beyond
the window after an error (the code's window is 8; the proofs are for every window of at least two).  Two sessions
give a first, a last and an only user.  A root with one child and two grandchildren gives
siblings, a parent to remove with its children, and depth.  Three events are enough to remove a context and add
it again beside one of another (343,899 states; four give 2,274,166, which passed too but take over three minutes).
`MaxOther` fills the window of a configuration with others' commands.  More messages beyond the answers of the channel make its state space too large for a routine run.

**Deadlock** is checked in `sessions`, whose sessions can always connect again.  In the others
it is not: when every command, request, job, transfer or event is done and the environment has
used its bounds, nothing is left to do.

**Fairness.**  Weak fairness throughout.  Dispatcher: the dispatch thread, the
timer thread, the clock, the thread that stops the queue, also after its `shutdownDiscovery`, and a caller
between its post and its wait go on.  Channel: the dispatch thread and the writer go on, and a peer whose
stream has not ended answers a command it got.  Requests: callbacks and 1 ms timers run,
waits with a time-out end, the server answers commands, pending work of managers and
nodes ends, and removed contexts come back.  Transfers: the call is made and every command
answered, those of a configuration in order.  Sessions: a thread in a call goes on (every call has a time-out or an error), and
`disconnect_all_sessions` is called finitely often, so that its lock becomes free.
Tree: the server answers, the dispatch thread works, and the user goes on
reading; the server's events end, as they must for a tree to settle.  Each is a running thread of the process, or
an answer the code waits for without a time-out of its own, so that nothing could be promised
without it.  No fairness is assumed of user calls, cancels, closes, a stop's
beginning, the reader's end, or anything a peer sends beside its answers.
`CallsReturn` does not speak of futures on contexts that may be missing: they
never return (run `request_wrong_class` is the same defect).

## 4. Properties

* `FifoDispatch`, `NoLostWakeup`, `WaiterHasJob`, `DrainedOnReturn`,
  `TimersInOrder`, `CallersReturn`, `TimersFire`, `StopReturns`: section 1.
* `CompletesOnce`: `Command.done` runs once, and not after a cancel that
  succeeded.  `CanceledNotTransmitted`: nor is the command sent.
  `NoInvalidToken`: a well-behaved peer never makes the channel fail on an
  unknown token, whatever was cancelled.  `TransmitOrder`: transmitted messages
  keep the order they were sent in.  `TeardownOnce`, `EosIsLast`,
  `CloseIsTold`, `CommandsSettle`: the end of a channel.
* `GroupSerial`: a group never has two commands under way.  After a
  cancel this rests on the pending token of the abandoned command: a future whose
  function holds none can overlap with the next request (`request.py:721` in the
  hazards), and the canceller's late post can invoke the next head a second time.  Therefore the
run with cancels (`request_timeouts`) gives every command a token; in `request_groups` nothing is cancelled.  `OneDriver`: the
  head of a queue has exactly one thing that will move it on, requests behind it
  none.  `DoneOnce`, `OwnAnswer`, `CallsReturn`.
* `CompletesOnce`, `SuccessIsWhole`, `NothingAfterError`, `TransferEnds`: a transfer.
  `TransferEnds` leaves out transfers of no bytes, which never complete because no answer
  comes, and an `update_regs` whose last answer finds another command pending on the node:
  it misses its end, since only answers of its own look.  It also leaves out a configuration beside a window
of other commands, which sends nothing and is not called again (`jtagdevice.py:355`).  `StopReturns`
includes the wait of `shutdownDiscovery`.
* `InUseIsOpen`, `CountIsUsers`, `OpenIsCounted`, `CallsEnd`: sessions.
* `InStep`: quiet, the three trees agree, lists included.  `SeesServer`: they come to.
* `LifecycleSpec` and `GroupsSpec`: the refinements.

## 5. Findings

* `tcf/protocol.py:453`: the timer thread raises its own alive flag, so a stop
  before its first step is undone and the thread stays (`TimerThreadEnds`).
* `tcf/channel/AbstractChannel.py:539`: the close walks the live list of
  listeners; a listener that removes itself, as
  `dm/chipscope.py:159-162` does, hides the next one (`AllListenersTold`).
* `client/mem.py:168`: a callback takes `self.request` for its own request;
  after a cancel it completes the next one (`OwnAnswer`).
* `dm/request.py:670`: a future whose node is missing or of the wrong class
  raises in its own completion, stays at the head of its queue and blocks the
  group (`QueueMovesOn`).
* `api/session.py:154`: when a device becomes invalid, `node_callback` asks for a scan and then
  calls `_set_device_with_lock`, which takes that back (443): the device list stays as it
  is (`RescanIsDue`).

## 6. Proofs

All results hold for every value of the constants under the modules' named
assumptions.

**EventDispatcherProofs.**  `TypeCorrect`, `DispatchIsFifo`, `WakeupsAreKept`,
`WaitersHaveJobs`, `ReturnIsDrained`.  The invariant joins the type
invariant with the FIFO relation between history and queue, and three facts that none
of the properties states: `WaitingFlag` (a waiting dispatch thread has its
flag up, without which a post would not notify), `RunsAJob` (the thread is in a
job only if it took one) and `ReturnsDrained` (a thread that has returned saw an
empty queue after the shutdown, and no post is accepted then).
`TimersKeepTheirOrder` proves the action property `TimersInOrder`.  Its invariant is `TimersSorted`
(the timer list is in the order of the due times, whatever the clock did between two calls) and
`TimersAsAsked` (an entry has the due time its caller was given).  `ScheduleSorts` is about the place
that `Schedule` looks for, `FireKeepsSorted` about the removal; `TimedArePosted` says that only
`TimerFire` and a delay of zero post a timed job, so that each other action satisfies the property by posting none.

**ChannelProofs.**  `TypeCorrect`, `CompletionIsUnique`, `CancelIsKept` and
`LifecycleIsImplemented`.  `CompletesOnce` is not inductive: an answer completes
a command because its token is in `out_tokens`, and a failed send completes it by a posted
error.  The invariant therefore adds `TokensWait` (a command in `out_tokens` is
neither done nor cancelled), `FailingWait` (so is one whose error is posted,
once, and it has no token), `SettledOnce` and `SentIsMarked` (what the writer took
is marked, which is what `cancel` reads).  `LifecycleIsImplemented` maps a
command's phase and shows that every step of the channel is a step of
`CommandLifecycle` or changes no phase; the close completes a set of commands in one step.

**ChannelOrderProofs.**  `TeardownIsUnique`, `MarkEndsTheStream`, `CommandsKeepTheirOrder` and
`CorrectPeersAreUnderstood`, about the same module, for any number of commands and of messages.
The invariant is the one of `ChannelProofs` with four parts.  `ClosedOnce` counts the
notification of the close, posted or run, and says that no command is registered after it ran.  `MarkPlace` and
`MarkLast` follow the end-of-stream mark: on the queue only after the close and then alone, never in the hand of a
writer that goes on, last on the wire.  `LineOrder` is stated of the whole line from the wire through
the message being written to the tail of the queue: each is in the order of issue and each is ahead of the
next; about the wire alone it would not be inductive.  `TokensSound` is the argument
for the peer: an answer that was read is about a command that was written, and the last about it
(`AnswersLast`); until the close its token is in the table (`ReplyKnown`); and a command that is queued and not
cancelled, or written and not answered, has its token (`OpenCommandsRegistered`).
The last needs that a cancel takes the token only of a command the writer has not taken, which is what `is_sent` under
`out_lock` is for.

**TransfersProofs.**  `TypeCorrect`, `CompletionIsOnce`, `SuccessIsComplete`,
`ErrorStopsSending`, for every number of pieces and every window of at least two.  That a success
is whole needs an account of each piece: `Accounted` (until an error, the pieces sent are
those stored, skipped or under way), `Tokens` (whose tokens are in `pending`, and that
`allSent` means the last was sent), `ConfigOrder` (the begin, the pieces, the
end and the children of a configuration follow each other) and `Outcome` (how a call ends).
With a window of one the code would notice that it ran out only with nothing under way:
`SendsInOrder` is where the assumption is used.

**SessionsProofs.**  `TypeCorrect`, `NobodyIsCutOff`, `CountIsExact`, `NothingStaysOpen`, for any
number of sessions, the last three if all of them share (`Sharing = Session`).  The three
invariants are inductive together with the types and `EntryCounts` (an entry has a positive
count); `CountIsUsers` is a fact about a cardinality, so each step says how `Users` changes.
A session that does not share overwrites the entry of one that does, and its
disconnect closes the other's server (`session.py:235`, 589-590): that is why the theorems
need their assumption.

**RequestQueueProofs.**  `TypeCorrect` holds without further assumptions; with the types goes
`SentOn` (a command that was sent was sent on a node object, which the answer needs) and
`MayReturn`.  `GroupIsSerial`, `QueueNeverStalls`, `CompletedOnce`, `AnsweredByItsOwn` and
`QueuesAreGroups` assume `Steady`: no future has a time-out, is of the wrong class or
names a context that may be removed, because there the code does not keep them (section 5); a
`CsRequestSync` may time out, meet any node or none.  None of these properties is
inductive.  A completion posts the next head, so that head must have had no driver: `OneDriver`
needs `Lines` (a queue has the joined requests of its node, each once) and `InLine` (a joined
request that is not done is in its queue).  `GroupSerial` then follows, since what is sent has a
driver and only heads have one.  `Begun` says that a started request waits for its command until it is
done and that `node.request` is the request whose command the node works on, which is what
`AnsweredByItsOwn` rests on.  `Times` of `SequenceLemmas` counts posted callbacks.  The refinement
maps every completion to `Finish` or `Fail`, the joining steps to `Join`, `Start` or
`JoinAndStart` and all others to stuttering.

**NodeTreeProofs.**  `TypeCorrect` and `TreesAgree`, for any finite tree and any number of events.
`InStep` speaks of the moments when nothing is under way, so the invariant `IInv` has to say, of every
other moment, that what is under way makes up the difference.
- From the server to the manager it says that there *is* a history (`History`): the server's contexts at
  each message in the queue, with each message telling of the step from one entry to the next.  The
  manager has the first entry, but for what lies below a context whose children it has still to
  get (`Loads`), and a list that is not right will be replaced by an answer (`OwnLists`).
- From the manager to the view it is about the order of the events: an addition of a node that
  is gone again is followed by its removal (`GoneIsTold`), what is added below a removed node comes after
  the removal and after its parent, a removal takes all below along, and a list follows the node
  whose list it is (`EventsInOrder`).  `ViewInOrder` compares the two trees
  up to these events, for the lists that the view has of its own (`Listed`, `ListsAreNodes`) and for those it
  shares (`Shared`): there a late addition or removal of the view changes the manager's list, and is
  harmless because the event says what the manager did already.
- `NoReturn` is for a server that tells of the topmost context only: no context comes back, without
  which `Shared` fails in the way section 2 describes.

There is one lemma per action.  Beneath are lemmas about what an action does to the events,
stated of any two sequences (`AddsInOrder` and `AddsInView` for an addition, `RemovesInOrder` and
`RemovesInView` for a removal, `ListsInOrder` for the first copy, `PopsInOrder` and the `Pop` lemmas for the
view), and lemmas about trees: `Above` and `Under` are least sets, so the acyclic `Parent` of
`TreeAssumption` gives what induction over the tree would.

**Only model-checked.**  Liveness, since fairness and ENABLED are out of the prover's reach
(`SeesServer` of `NodeTree` among them), and requests whose futures are cancelled (`request_timeouts`).
Each safety invariant that a passing run checks is a theorem, under the assumptions named above.

## 7. Not modelled, and the plan

Within the modelled components: starting a stopped queue again, `invokeAndWait`
by a job (it runs at once), redirect, proxies and linked channels, registration of listeners in
a running channel, progress callbacks, run functions that complete before they
return, calling a request object again.  The completion of a future
on the dispatch thread is one step: a time-out comes before or after it.  A transfer's caller does not time out in `Transfers`.  Contexts that move to another parent,
properties of nodes and two user threads in one view are not in `NodeTree`, a hw_server shared by
sessions is not in `Sessions`.  Other components: see `PROJECT.json`.

Planned next: `PollScheduler` (`dm/poll.py`): reference counts of polls against what the server
holds; contexts that move; the watchlist's lock.

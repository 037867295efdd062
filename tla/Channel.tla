------------------------------- MODULE Channel -------------------------------
(***************************************************************************)
(* One TCF channel (src/chipscopy/tcf/channel/AbstractChannel.py) with the *)
(* commands sent over it (Command.py): the dispatch thread, the writer and *)
(* the reader thread and the remote peer.                                  *)
(*                                                                         *)
(* events is the part of the dispatcher's queue that belongs to this       *)
(* channel.  What user code does on the dispatch thread (send, cancel,     *)
(* answer, close) may happen between any two events.  The reader and the   *)
(* network deliver in order, so a peer step stands for a message that the  *)
(* reader thread has read and posted.  Close and terminate hold the        *)
(* dispatch thread until the writer is done or a timeout ends; nothing     *)
(* else of the channel's state can change there, so they are one step.     *)
(* An operator marked Faulty is a variant with a mistake in it, which no   *)
(* specification uses.                                                     *)
(***************************************************************************)
EXTENDS Integers, SequencesExt, FiniteSets

CONSTANTS
    Cmds,           \* commands of the local user
    RCmds,          \* commands of the remote peer
    Listeners,      \* the channel listeners, in the order they were added
    SelfRemoving,   \* those that call removeChannelListener when told of the close
    MaxExtra,       \* bound on what the peer sends beside its Hello and its answers
    NoCmd

ASSUME ChannelAssumption ==
    /\ Cmds \cap RCmds = {}
    /\ NoCmd \notin Cmds \cup RCmds
    /\ MaxExtra \in Nat

VARIABLES
    state,          \* AbstractChannel.state
    outQueue,       \* out_queue
    outTokens,      \* the commands of out_tokens
    isSent,         \* Message.is_sent of each command
    isCanceled,     \* Message.is_canceled of each command
    writer,         \* the transmitter thread runs or has ended
    writing,        \* the message it has popped and not written yet, or none
    reader,         \* the reader thread runs or has ended
    events,         \* what is posted to the dispatch thread
    serving,        \* commands of the peer given to a command server
    told,           \* channel listeners that were told of the close
    closes,         \* how often the close notification ran
    issued,         \* history: the commands created, in order
    calls,          \* history: completions of each command
    withdrawn,      \* history: the commands whose cancel returned True
    sent,           \* history: the messages written, in order
    answered,       \* commands the peer has answered
    peerHello,      \* the peer has said Hello
    peerCmds,       \* commands the peer has sent
    extra,          \* its progress, event, command and faulty messages so far
    faulty          \* the peer has violated the protocol

chanVars == <<state, outQueue, outTokens, isSent, isCanceled, serving>>
cmdVars == <<issued, calls, withdrawn>>
writerVars == <<writer, writing, sent>>
noticeVars == <<told, closes>>
peerVars == <<reader, answered, peerHello, peerCmds, extra, faulty>>
vars == <<chanVars, cmdVars, writerVars, noticeVars, peerVars, events>>

Msg(t, c) == [type |-> t, cmd |-> c]
Eos == Msg("EOS", NoCmd)

Evt(k, t, c) == [kind |-> k, type |-> t, cmd |-> c]
Input(t, c) == Evt("input", t, c)
(* handleEOS and a posted terminate do the same to the channel.            *)
Terminate == Evt("terminate", "none", NoCmd)
Closed == Evt("closed", "none", NoCmd)

Init ==
    /\ state = "OPENING"
    /\ outQueue = <<>> /\ outTokens = {}
    /\ isSent = [c \in Cmds |-> FALSE] /\ isCanceled = [c \in Cmds |-> FALSE]
    /\ writer = "running" /\ writing = <<>> /\ reader = "running"
    /\ events = <<Evt("init", "none", NoCmd)>>
    /\ serving = {} /\ told = {} /\ closes = 0
    /\ issued = <<>> /\ calls = [c \in Cmds |-> 0] /\ withdrawn = {}
    /\ sent = <<>>
    /\ answered = {} /\ peerHello = FALSE /\ peerCmds = {} /\ extra = 0 /\ faulty = FALSE

-----------------------------------------------------------------------------
(* Steps of user code on the dispatch thread.                              *)

(* Faulty: the command goes to the front.                                  *)
SendUrgent(c) ==
    /\ c \notin ToSet(issued)
    /\ issued' = Append(issued, c)
    /\ state = "OPEN"
    /\ outTokens' = outTokens \cup {c}
    /\ outQueue' = <<Msg("C", c)>> \o outQueue
    /\ UNCHANGED <<state, isSent, isCanceled, serving, calls, withdrawn, writerVars, noticeVars, peerVars, events>>

(* Command.__init__ and sendCommand: registered and queued when the        *)
(* channel is open.  When it is not, or the arguments cannot be encoded,   *)
(* _error is posted instead.                                               *)
SendCommand(c) ==
    /\ c \notin ToSet(issued)
    /\ issued' = Append(issued, c)
    /\ \/ /\ state = "OPEN"
          /\ outTokens' = outTokens \cup {c}
          /\ outQueue' = Append(outQueue, Msg("C", c))
          /\ UNCHANGED events
       \/ /\ events' = Append(events, Evt("error", "none", c))
          /\ UNCHANGED <<outTokens, outQueue>>
    /\ UNCHANGED <<state, isSent, isCanceled, serving, calls, withdrawn, writerVars, noticeVars, peerVars>>

(* Faulty: is_sent is not tested.                                          *)
CancelSent(c) ==
    /\ state = "OPEN"
    /\ c \in outTokens
    /\ isCanceled' = [isCanceled EXCEPT ![c] = TRUE]
    /\ outTokens' = outTokens \ {c}
    /\ withdrawn' = withdrawn \cup {c}
    /\ UNCHANGED <<state, outQueue, isSent, serving, issued, calls, writerVars, noticeVars, peerVars, events>>

(* Faulty: the token stays registered.                                     *)
CancelKeepsToken(c) ==
    /\ state = "OPEN"
    /\ c \in outTokens
    /\ ~isSent[c]
    /\ isCanceled' = [isCanceled EXCEPT ![c] = TRUE]
    /\ withdrawn' = withdrawn \cup {c}
    /\ UNCHANGED <<state, outTokens, outQueue, isSent, serving, issued, calls, writerVars, noticeVars, peerVars, events>>

(* CancelableToken.cancel returning True; a cancel that returns False, or  *)
(* a second one, changes nothing.                                          *)
CancelCommand(c) ==
    /\ state = "OPEN"
    /\ c \in outTokens
    /\ ~isSent[c]
    /\ isCanceled' = [isCanceled EXCEPT ![c] = TRUE]
    /\ outTokens' = outTokens \ {c}
    /\ withdrawn' = withdrawn \cup {c}
    /\ UNCHANGED <<state, outQueue, isSent, serving, issued, calls, writerVars, noticeVars, peerVars, events>>

(* cancel of a command that waits in out_queue though its token is gone (a *)
(* peer has answered what it was not sent): the mark is set, then del      *)
(* raises.                                                                 *)
CancelAnswered(c) ==
    /\ state = "OPEN"
    /\ c \in ToSet(issued) \ outTokens
    /\ Msg("C", c) \in ToSet(outQueue)
    /\ ~isSent[c]
    /\ isCanceled' = [isCanceled EXCEPT ![c] = TRUE]
    /\ UNCHANGED <<state, outTokens, outQueue, isSent, serving, cmdVars, writerVars, noticeVars, peerVars, events>>

(* sendResult of a command server; on a channel that is not open it raises *)
(* and sends nothing.                                                      *)
SendResult(rc) ==
    /\ rc \in serving
    /\ serving' = serving \ {rc}
    /\ \/ state = "OPEN" /\ outQueue' = Append(outQueue, Msg("R", rc))
       \/ state # "OPEN" /\ UNCHANGED outQueue
    /\ UNCHANGED <<state, outTokens, isSent, isCanceled, cmdVars, writerVars, noticeVars, peerVars, events>>

(* Faulty: out_queue is not cleared.                                       *)
ShutKeepsQueue(later) ==
    /\ state' = "CLOSED"
    /\ outQueue' = Append(outQueue, Eos)
    /\ events' = Append(later, Closed)

(* Faulty: the state is not tested.                                        *)
ShutUnguarded(later) ==
    /\ state' = "CLOSED"
    /\ outQueue' = <<Eos>>
    /\ events' = Append(later, Closed)

(* close and terminate, from the first line of __sendEndOfStream to the    *)
(* last of _close: the queued messages give way to the end-of-stream mark  *)
(* and the notification is posted.  later is what else stays posted.       *)
Shut(later) ==
    IF state = "CLOSED"
      THEN events' = later /\ UNCHANGED <<state, outQueue>>
      ELSE /\ state' = "CLOSED"
           /\ outQueue' = <<Eos>>
           /\ events' = Append(later, Closed)

Close ==
    /\ state # "CLOSED"
    /\ Shut(events)
    /\ UNCHANGED <<outTokens, isSent, isCanceled, serving, cmdVars, writerVars, noticeVars, peerVars>>

-----------------------------------------------------------------------------
(* Steps of the dispatch thread on what is posted to it.                   *)
NextIs(k) == events # <<>> /\ Head(events).kind = k
NextInput(t) == NextIs("input") /\ Head(events).type = t
Rest == Tail(events)

(* __initServices: our Hello, unless the channel is closed already.        *)
InitServices ==
    /\ NextIs("init")
    /\ events' = Rest
    /\ \/ state # "CLOSED" /\ outQueue' = Append(outQueue, Msg("Hello", NoCmd))
       \/ state = "CLOSED" /\ UNCHANGED outQueue
    /\ UNCHANGED <<state, outTokens, isSent, isCanceled, serving, cmdVars, writerVars, noticeVars, peerVars>>

(* __handleInput drops what arrives on a closed channel.                   *)
HandleClosed ==
    /\ NextIs("input")
    /\ state = "CLOSED"
    /\ events' = Rest
    /\ UNCHANGED <<chanVars, cmdVars, writerVars, noticeVars, peerVars>>

(* __sendCongestionLevel: now and then a flow message goes to the head of  *)
(* the queue, or reuses the one that is there.                             *)
SendCongestionLevel ==
    \/ UNCHANGED outQueue
    \/ /\ state = "OPEN"
       /\ outQueue # <<>> => Head(outQueue).type # "F"
       /\ outQueue' = <<Msg("F", NoCmd)>> \o outQueue

(* Faulty: the token stays registered.                                     *)
HandleResultKeepsToken ==
    /\ NextInput("R") /\ Head(events).cmd \in outTokens
    /\ state # "CLOSED"
    /\ calls' = [calls EXCEPT ![Head(events).cmd] = @ + 1]
    /\ SendCongestionLevel /\ events' = Rest
    /\ UNCHANGED <<state, outTokens, isSent, isCanceled, serving, issued, withdrawn, writerVars, noticeVars, peerVars>>

(* An R or P for a registered command.  The callback may raise: then       *)
(* __handleInput terminates the channel.                                   *)
HandleResult ==
    /\ NextInput("R") /\ Head(events).cmd \in outTokens
    /\ state # "CLOSED"
    /\ outTokens' = outTokens \ {Head(events).cmd}
    /\ calls' = [calls EXCEPT ![Head(events).cmd] = @ + 1]
    /\ \/ SendCongestionLevel /\ events' = Rest /\ UNCHANGED state
       \/ Shut(Rest)
    /\ UNCHANGED <<isSent, isCanceled, serving, issued, withdrawn, writerVars, noticeVars, peerVars>>

HandleProgress ==
    /\ NextInput("P") /\ Head(events).cmd \in outTokens
    /\ state # "CLOSED"
    /\ \/ SendCongestionLevel /\ events' = Rest /\ UNCHANGED state
       \/ Shut(Rest)
    /\ UNCHANGED <<outTokens, isSent, isCanceled, serving, cmdVars, writerVars, noticeVars, peerVars>>

(* An N: the command is not recognized; no congestion message.             *)
HandleReject ==
    /\ NextInput("N") /\ Head(events).cmd \in outTokens
    /\ state # "CLOSED"
    /\ outTokens' = outTokens \ {Head(events).cmd}
    /\ calls' = [calls EXCEPT ![Head(events).cmd] = @ + 1]
    /\ \/ events' = Rest /\ UNCHANGED <<state, outQueue>>
       \/ Shut(Rest)
    /\ UNCHANGED <<isSent, isCanceled, serving, issued, withdrawn, writerVars, noticeVars, peerVars>>

(* "Invalid token received": the channel is terminated.                    *)
HandleInvalidToken ==
    /\ NextInput("P") \/ NextInput("R") \/ NextInput("N")
    /\ Head(events).cmd \notin outTokens
    /\ state # "CLOSED"
    /\ Shut(Rest)
    /\ UNCHANGED <<outTokens, isSent, isCanceled, serving, cmdVars, writerVars, noticeVars, peerVars>>

(* Faulty: one token table for both directions.                            *)
HandleCommandSharedTokens ==
    /\ NextInput("C")
    /\ state = "OPEN"
    /\ events' = Rest
    /\ serving' = serving \cup {Head(events).cmd}
    /\ outTokens' = outTokens \cup {Head(events).cmd}
    /\ UNCHANGED <<state, outQueue, isSent, isCanceled, cmdVars, writerVars, noticeVars, peerVars>>

(* A command of the peer: an error before Hello, else given to a command   *)
(* server or rejected because there is none.  A server that raises, with   *)
(* or without the command, ends the channel.                               *)
HandleCommand ==
    /\ NextInput("C")
    /\ state # "CLOSED"
    /\ \/ /\ state = "OPENING"
          /\ Shut(Rest)
          /\ UNCHANGED serving
       \/ /\ state = "OPEN"
          /\ Shut(Rest)
          /\ serving' \in {serving, serving \cup {Head(events).cmd}}
       \/ /\ state = "OPEN"
          /\ events' = Rest
          /\ \/ serving' = serving \cup {Head(events).cmd} /\ UNCHANGED outQueue
             \/ outQueue' = Append(outQueue, Msg("N", Head(events).cmd)) /\ UNCHANGED serving
          /\ UNCHANGED state
    /\ UNCHANGED <<outTokens, isSent, isCanceled, cmdVars, writerVars, noticeVars, peerVars>>

(* The peer's Hello opens the channel, unless its services cannot be read  *)
(* or a step of the opening raises; a second one breaks an assertion.      *)
HandleHello ==
    /\ NextInput("Hello")
    /\ state # "CLOSED"
    /\ \/ state = "OPENING" /\ state' = "OPEN" /\ events' = Rest /\ UNCHANGED outQueue
       \/ Shut(Rest)
    /\ UNCHANGED <<outTokens, isSent, isCanceled, serving, cmdVars, writerVars, noticeVars, peerVars>>

(* Another event: its listeners run and may raise.                         *)
HandleEvent ==
    /\ NextInput("E")
    /\ state # "CLOSED"
    /\ \/ SendCongestionLevel /\ events' = Rest /\ UNCHANGED state
       \/ Shut(Rest)
    /\ UNCHANGED <<outTokens, isSent, isCanceled, serving, cmdVars, writerVars, noticeVars, peerVars>>

(* A flow message of the peer sets the delay of the writer; one that is no *)
(* number ends the channel.                                                *)
HandleFlow ==
    /\ NextInput("F")
    /\ state # "CLOSED"
    /\ \/ events' = Rest /\ UNCHANGED <<state, outQueue>>
       \/ Shut(Rest)
    /\ UNCHANGED <<outTokens, isSent, isCanceled, serving, cmdVars, writerVars, noticeVars, peerVars>>

(* handleEOS and the terminate posted by a failing reader or writer: each  *)
(* ends the channel unless it is closed already.                           *)
HandleEnd ==
    /\ NextIs("terminate")
    /\ Shut(Rest)
    /\ UNCHANGED <<outTokens, isSent, isCanceled, serving, cmdVars, writerVars, noticeVars, peerVars>>

(* Command._error: the completion of a command that could not be sent.     *)
HandleError ==
    /\ NextIs("error")
    /\ calls' = [calls EXCEPT ![Head(events).cmd] = @ + 1]
    /\ events' = Rest
    /\ UNCHANGED <<chanVars, issued, withdrawn, writerVars, noticeVars, peerVars>>

(* The positions a loop over the live list visits: one that removes itself *)
(* makes the loop step over its successor.                                 *)
Visited ==
    LET v[i \in 0 .. Len(Listeners)] ==
          i > 0 /\ (i = 1 \/ ~(v[i - 1] /\ Listeners[i - 1] \in SelfRemoving))
    IN  {i \in DOMAIN Listeners : v[i]}

(* Faulty: the pending commands are forgotten.                             *)
RunClosedListenersOnly ==
    /\ NextIs("closed")
    /\ told' = told \cup {Listeners[i] : i \in Visited}
    /\ closes' = closes + 1
    /\ events' = Rest
    /\ UNCHANGED <<chanVars, cmdVars, writerVars, peerVars>>

(* The Runnable posted by _close: terminate the commands that are left,    *)
(* then tell the channel listeners.                                        *)
RunClosed ==
    /\ NextIs("closed")
    /\ calls' = [c \in Cmds |-> IF c \in outTokens THEN calls[c] + 1 ELSE calls[c]]
    /\ outTokens' = {}
    /\ told' = told \cup {Listeners[i] : i \in Visited}
    /\ closes' = closes + 1
    /\ events' = Rest
    /\ UNCHANGED <<state, outQueue, isSent, isCanceled, serving, issued, withdrawn, writerVars, peerVars>>

-----------------------------------------------------------------------------
(* __write_output, the transmitter thread: pop under the lock, and either  *)
(* end, skip a cancelled command, or mark the message sent and write it.   *)
Popped == Head(outQueue)

WriterEnd ==
    /\ writer = "running" /\ writing = <<>> /\ outQueue # <<>>
    /\ Popped = Eos
    /\ outQueue' = Tail(outQueue)
    /\ writer' = "ended"
    /\ \/ sent' = Append(sent, Eos) /\ UNCHANGED events
       \/ events' = Append(events, Terminate) /\ UNCHANGED sent
    /\ UNCHANGED <<state, outTokens, isSent, isCanceled, serving, cmdVars, writing, noticeVars, peerVars>>

(* The last message of the queue is followed by a flush, which may raise.  *)
WriterSkip ==
    /\ writer = "running" /\ writing = <<>> /\ outQueue # <<>>
    /\ Popped.type = "C" /\ isCanceled[Popped.cmd]
    /\ outQueue' = Tail(outQueue)
    /\ \/ UNCHANGED <<writer, events>>
       \/ outQueue' = <<>> /\ writer' = "ended" /\ events' = Append(events, Terminate)
    /\ UNCHANGED <<state, outTokens, isSent, isCanceled, serving, cmdVars, writing, sent, noticeVars, peerVars>>

(* Faulty: is_sent is not set.                                             *)
WriterTakeUnmarked ==
    /\ writer = "running" /\ writing = <<>> /\ outQueue # <<>>
    /\ Popped # Eos
    /\ ~(Popped.type = "C" /\ isCanceled[Popped.cmd])
    /\ outQueue' = Tail(outQueue)
    /\ writing' = <<Popped>>
    /\ UNCHANGED <<state, outTokens, isSent, isCanceled, serving, cmdVars, writer, sent, noticeVars, peerVars, events>>

WriterTake ==
    /\ writer = "running" /\ writing = <<>> /\ outQueue # <<>>
    /\ Popped # Eos
    /\ ~(Popped.type = "C" /\ isCanceled[Popped.cmd])
    /\ outQueue' = Tail(outQueue)
    /\ isSent' = [c \in Cmds |-> isSent[c] \/ Popped = Msg("C", c)]
    /\ writing' = <<Popped>>
    /\ UNCHANGED <<state, outTokens, isCanceled, serving, cmdVars, writer, sent, noticeVars, peerVars, events>>

WriterWrite ==
    /\ writing # <<>>
    /\ sent' = sent \o writing
    /\ writing' = <<>>
    /\ UNCHANGED <<chanVars, cmdVars, writer, noticeVars, peerVars, events>>

(* A write or the flush raises, before or after the message is out: the    *)
(* thread posts terminate and ends.                                        *)
WriterFail ==
    /\ writing # <<>>
    /\ sent' = sent \/ sent' = sent \o writing
    /\ writing' = <<>>
    /\ writer' = "ended"
    /\ events' = Append(events, Terminate)
    /\ UNCHANGED <<chanVars, cmdVars, noticeVars, peerVars>>

-----------------------------------------------------------------------------
(* The remote peer, through ReaderThread.run, which posts what it reads.   *)
Transmitted == {m.cmd : m \in {n \in ToSet(sent) : n.type = "C"}}

Deliver(t, c) ==
    /\ reader = "running"
    /\ events' = Append(events, Input(t, c))

DeliverExtra(t, c) ==
    /\ extra < MaxExtra
    /\ Deliver(t, c)
    /\ extra' = extra + 1

PeerHello ==
    /\ ~peerHello
    /\ Deliver("Hello", NoCmd)
    /\ peerHello' = TRUE
    /\ UNCHANGED <<chanVars, cmdVars, writerVars, noticeVars, reader, answered, peerCmds, extra, faulty>>

PeerAnswer(c) ==
    /\ c \in Transmitted \ answered
    /\ Deliver("R", c) \/ Deliver("N", c)
    /\ answered' = answered \cup {c}
    /\ UNCHANGED <<chanVars, cmdVars, writerVars, noticeVars, reader, peerHello, peerCmds, extra, faulty>>

PeerProgress(c) ==
    /\ c \in Transmitted \ answered
    /\ DeliverExtra("P", c)
    /\ UNCHANGED <<chanVars, cmdVars, writerVars, noticeVars, reader, answered, peerHello, peerCmds, faulty>>

PeerEvent ==
    /\ peerHello
    /\ DeliverExtra("E", NoCmd)
    /\ UNCHANGED <<chanVars, cmdVars, writerVars, noticeVars, reader, answered, peerHello, peerCmds, faulty>>

(* Flow messages overtake what a side has queued, its Hello included.      *)
PeerFlow ==
    /\ DeliverExtra("F", NoCmd)
    /\ UNCHANGED <<chanVars, cmdVars, writerVars, noticeVars, reader, answered, peerHello, peerCmds, faulty>>

PeerCommand(rc) ==
    /\ peerHello
    /\ rc \notin peerCmds
    /\ DeliverExtra("C", rc)
    /\ peerCmds' = peerCmds \cup {rc}
    /\ UNCHANGED <<chanVars, cmdVars, writerVars, noticeVars, reader, answered, peerHello, faulty>>

(* A peer that breaks the protocol: an answer to a command that is not     *)
(* open, a command before its Hello, a second Hello.                       *)
PeerFault ==
    /\ \/ \E c \in Cmds : DeliverExtra("R", c)
       \/ ~peerHello /\ \E rc \in RCmds : DeliverExtra("C", rc)
       \/ peerHello /\ DeliverExtra("Hello", NoCmd)
    /\ faulty' = TRUE
    /\ UNCHANGED <<chanVars, cmdVars, writerVars, noticeVars, reader, answered, peerHello, peerCmds>>

(* The stream ends with the peer's end-of-stream mark or with an error.    *)
ReaderEnd ==
    /\ reader = "running"
    /\ reader' = "ended"
    /\ events' = Append(events, Terminate)
    /\ UNCHANGED <<chanVars, cmdVars, writerVars, noticeVars, answered, peerHello, peerCmds, extra, faulty>>

-----------------------------------------------------------------------------
Dispatch ==
    \/ InitServices \/ HandleClosed \/ HandleResult \/ HandleProgress \/ HandleReject
    \/ HandleInvalidToken \/ HandleCommand \/ HandleHello \/ HandleEvent \/ HandleFlow \/ HandleEnd
    \/ HandleError \/ RunClosed

Writer == WriterEnd \/ WriterSkip \/ WriterTake \/ WriterWrite \/ WriterFail

User ==
    \/ \E c \in Cmds : SendCommand(c) \/ CancelCommand(c) \/ CancelAnswered(c)
    \/ \E rc \in RCmds : SendResult(rc)
    \/ Close

Peer ==
    \/ PeerHello \/ PeerEvent \/ PeerFlow \/ PeerFault \/ ReaderEnd
    \/ \E c \in Cmds : PeerAnswer(c) \/ PeerProgress(c)
    \/ \E rc \in RCmds : PeerCommand(rc)

Next == Dispatch \/ Writer \/ User \/ Peer

(* The threads keep running, and a connected peer answers what it gets.    *)
Fairness ==
    /\ WF_vars(Dispatch)
    /\ WF_vars(Writer)
    /\ \A c \in Cmds : WF_vars(PeerAnswer(c))

Spec == Init /\ [][Next]_vars /\ Fairness

-----------------------------------------------------------------------------
MsgTypes == {"C", "R", "N", "Hello", "F", "EOS"}
AllCmds == Cmds \cup RCmds \cup {NoCmd}
Msgs == [type : MsgTypes, cmd : AllCmds]
Evts ==
    {Input("C", rc) : rc \in RCmds}
      \cup {Input(t, c) : t \in {"P", "R", "N"}, c \in Cmds}
      \cup {Input(t, NoCmd) : t \in {"Hello", "E", "F"}}
      \cup {Evt("error", "none", c) : c \in Cmds}
      \cup {Evt(k, "none", NoCmd) : k \in {"init", "terminate", "closed"}}

(* Every variable keeps the shape the fields of AbstractChannel have.      *)
TypeOK ==
    /\ state \in {"OPENING", "OPEN", "CLOSED"}
    /\ outQueue \in Seq(Msgs) /\ sent \in Seq(Msgs) /\ writing \in Seq(Msgs)
    /\ outTokens \subseteq Cmds
    /\ isSent \in [Cmds -> BOOLEAN] /\ isCanceled \in [Cmds -> BOOLEAN]
    /\ writer \in {"running", "ended"} /\ reader \in {"running", "ended"}
    /\ events \in Seq(Evts)
    /\ serving \subseteq RCmds
    /\ issued \in Seq(Cmds)
    /\ calls \in [Cmds -> Nat] /\ withdrawn \subseteq Cmds
    /\ closes \in Nat
    /\ peerHello \in BOOLEAN
    /\ answered \subseteq Cmds /\ peerCmds \subseteq RCmds
    /\ extra \in Nat /\ faulty \in BOOLEAN

(* Command.done runs at most once for a command, and never for one whose   *)
(* cancel returned True, whatever answers, ends and faults come in from    *)
(* the peer (out_tokens, the __done assertions of Command).                *)
CompletesOnce ==
    \A c \in Cmds : calls[c] + (IF c \in withdrawn THEN 1 ELSE 0) <= 1

(* A cancelled command is not transmitted, not even when the writer pops   *)
(* it at the moment of the cancel (is_sent and is_canceled under the lock).*)
CanceledNotTransmitted ==
    \A c \in Cmds : isCanceled[c] => ~isSent[c] /\ Msg("C", c) \notin ToSet(sent \o writing)

(* Commands leave in the order they were issued, flow messages and         *)
(* cancels notwithstanding.                                                *)
TransmitOrder ==
    \A i, j \in DOMAIN sent :
        i < j /\ sent[i].type = "C" /\ sent[j].type = "C" =>
            \A a, b \in DOMAIN issued :
                issued[a] = sent[i].cmd /\ issued[b] = sent[j].cmd => a < b

(* The close notification is posted once however many of user, reader,     *)
(* writer and handlers end the channel, and it leaves no command behind.   *)
TeardownOnce ==
    /\ closes + Cardinality({i \in DOMAIN events : events[i] = Closed})
         = (IF state = "CLOSED" THEN 1 ELSE 0)
    /\ closes = 1 => outTokens = {}

(* Nothing is transmitted after the end-of-stream mark, and the messages   *)
(* still queued at the close are dropped (__sendEndOfStream).              *)
EosIsLast ==
    /\ \A i \in DOMAIN sent : sent[i] = Eos => i = Len(sent)
    /\ state = "CLOSED" => Len(outQueue) <= 1 /\ \A i \in DOMAIN outQueue : outQueue[i] = Eos

(* With a peer that keeps to the protocol the channel never sees an        *)
(* invalid token, even for a command whose cancel raced with the writer.   *)
NoInvalidToken ==
    ~faulty /\ NextIs("input") /\ state # "CLOSED" /\ Head(events).type \in {"P", "R", "N"}
        => Head(events).cmd \in outTokens

(* A command that was accepted is completed or cancelled: by its answer or *)
(* by the end of the channel.                                              *)
CommandsSettle ==
    \A c \in Cmds : c \in ToSet(issued) ~> (calls[c] = 1 \/ c \in withdrawn)

(* A closed channel tells its listeners and ends its transmitter.          *)
CloseIsTold ==
    state = "CLOSED" ~> (closes = 1 /\ writer = "ended")

(* "Called when channel closed" (ChannelListener.onChannelClosed): after   *)
(* the notification every listener has been told.                          *)
AllListenersTold ==
    closes = 1 => told = ToSet(Listeners)

(* The channel implements what it promises for each command.               *)
PhaseOf(c) ==
    IF calls[c] > 0 THEN "done"
    ELSE IF c \in withdrawn THEN "canceled"
    ELSE IF c \in ToSet(issued) THEN "pending" ELSE "new"

Lifecycle == INSTANCE CommandLifecycle WITH phase <- [c \in Cmds |-> PhaseOf(c)]

LifecycleSpec == Lifecycle!Spec
=============================================================================

-------------------------- MODULE ChannelOrderProofs --------------------------
(***************************************************************************)
(* Proofs about the order of things on a TCF channel, for any sets of      *)
(* commands and any number of messages: the one notification of the close, *)
(* the end-of-stream mark, the order of the commands on the wire, and what *)
(* the answers of a correct peer find in the token table.                  *)
(***************************************************************************)
EXTENDS ChannelProofs

(* The notification of the close is posted by the step that closes the     *)
(* channel, and the steps after it register no command.                    *)
ClosedOnce ==
    /\ closes + Times(events, Closed) = IF state = "CLOSED" THEN 1 ELSE 0
    /\ closes > 0 => outTokens = {}

(* The end-of-stream mark is put on the queue by the close alone; a writer *)
(* that has written it has ended, and one that writes has not written it.  *)
MarkPlace ==
    /\ state # "CLOSED" => Eos \notin ToSet(outQueue) \cup ToSet(sent)
    /\ state = "CLOSED" => outQueue \in {<<>>, <<Eos>>}
    /\ Eos \notin ToSet(writing)
    /\ writing # <<>> => Len(writing) = 1 /\ writer = "running"
    /\ Eos \in ToSet(sent) => writer = "ended"

MarkLast == \A i \in DOMAIN sent : sent[i] = Eos => i = Len(sent)

(* a was issued before b.                                                  *)
Before(a, b) == \E i, j \in DOMAIN issued : i < j /\ issued[i] = a /\ issued[j] = b

Ordered(m, n) == m.type = "C" /\ n.type = "C" => Before(m.cmd, n.cmd)

InOrder(s) == \A i, j \in DOMAIN s : i < j => Ordered(s[i], s[j])

Ahead(s, t) == \A m \in ToSet(s), n \in ToSet(t) : Ordered(m, n)

(* From the wire to the tail of the queue the commands stand in the order  *)
(* in which they were issued.                                              *)
LineOrder ==
    /\ Distinct(issued)
    /\ \A m \in ToSet(sent) \cup ToSet(writing) \cup ToSet(outQueue) :
         m.type = "C" => m.cmd \in ToSet(issued)
    /\ InOrder(sent) /\ InOrder(outQueue)
    /\ Ahead(sent, writing) /\ Ahead(sent, outQueue) /\ Ahead(writing, outQueue)

(* The inputs of a peer that keeps to the protocol: about commands on the  *)
(* wire, the answer last.                                                  *)
ReplyTypes == {"P", "R", "N"}
IsReply(e, c) == e.kind = "input" /\ e.type \in ReplyTypes /\ e.cmd = c
IsAnswer(e, c) == IsReply(e, c) /\ e.type # "P"

AnswersLast(s) ==
    \A i, j \in DOMAIN s, c \in Cmds : i < j /\ IsAnswer(s[i], c) => ~IsReply(s[j], c)

ReplyKnown(e) ==
    \A c \in Cmds :
        IsReply(e, c) =>
            /\ c \in Transmitted
            /\ state # "CLOSED" => c \in outTokens
            /\ IsAnswer(e, c) => c \in answered

(* A command that is written or will be, and not answered, has its token.  *)
OpenCommandsRegistered ==
    state # "CLOSED" =>
        \A c \in Cmds :
            \/ isSent[c] /\ c \notin answered
            \/ Msg("C", c) \in ToSet(outQueue) /\ ~isCanceled[c]
            => c \in outTokens

TokensSound ==
    ~faulty =>
        /\ AnswersLast(events)
        /\ \A e \in ToSet(events) : ReplyKnown(e)
        /\ OpenCommandsRegistered

OrderInv == ClosedOnce /\ MarkPlace /\ MarkLast /\ LineOrder /\ TokensSound

-----------------------------------------------------------------------------
(* What a step does to the channel's state and queue when it sends no      *)
(* command and is not the writer's.                                        *)
QueueMove ==
    \/ /\ outQueue' = outQueue
       /\ state' = state \/ (state = "OPENING" /\ state' = "OPEN")
    \/ /\ state # "CLOSED" /\ state' = state
       /\ \E m \in Msgs :
            /\ m.type \notin {"C", "EOS"}
            /\ outQueue' \in {Append(outQueue, m), <<m>> \o outQueue}
    \/ /\ state # "CLOSED" /\ state' = "CLOSED"
       /\ outQueue' = <<Eos>>

LEMMA ShutIsQueueMove ==
    ASSUME NEW later, Shut(later)
    PROVE  QueueMove
  BY DEF Shut, QueueMove

LEMMA AppendIsQueueMove ==
    ASSUME NEW t \in MsgTypes \ {"C", "EOS"}, NEW c \in AllCmds,
           state # "CLOSED", state' = state, outQueue' = Append(outQueue, Msg(t, c))
    PROVE  QueueMove
<1>1. Msg(t, c) \in Msgs /\ Msg(t, c).type \notin {"C", "EOS"}
  BY DEF Msg, Msgs
<1>. QED BY <1>1 DEF QueueMove

LEMMA CongestionIsQueueMove ==
    ASSUME SendCongestionLevel, UNCHANGED state
    PROVE  QueueMove
<1>1. Msg("F", NoCmd) \in Msgs /\ Msg("F", NoCmd).type \notin {"C", "EOS"}
  BY DEF Msg, Msgs, MsgTypes, AllCmds
<1>. QED BY <1>1 DEF SendCongestionLevel, QueueMove

(* The steps that leave the commands and the writer alone.                 *)
Beside ==
    \/ Dispatch \/ Peer \/ Close
    \/ \E c \in Cmds : CancelCommand(c) \/ CancelAnswered(c)
    \/ \E rc \in RCmds : SendResult(rc)
    \/ UNCHANGED vars

LEMMA BesideMoves ==
    ASSUME TypeOK, Beside
    PROVE  QueueMove /\ UNCHANGED <<issued, sent, writing, writer, isSent>>
<1>1. CASE HandleProgress \/ HandleEvent \/ HandleResult
  <2>1. \/ SendCongestionLevel /\ UNCHANGED state
        \/ Shut(Rest)
    BY <1>1 DEF HandleProgress, HandleEvent, HandleResult
  <2>2. QueueMove
    BY <2>1, ShutIsQueueMove, CongestionIsQueueMove
  <2>. QED BY <1>1, <2>2 DEF HandleProgress, HandleEvent, HandleResult, cmdVars, writerVars
<1>2. CASE HandleReject \/ HandleInvalidToken \/ HandleHello \/ HandleFlow \/ HandleEnd \/ Close
  <2>1. QueueMove
    <3>1. CASE \E later : Shut(later)
      BY <3>1, ShutIsQueueMove
    <3>2. CASE UNCHANGED outQueue /\ (state' = state \/ (state = "OPENING" /\ state' = "OPEN"))
      BY <3>2 DEF QueueMove
    <3>. QED BY <1>2, <3>1, <3>2 DEF HandleReject, HandleInvalidToken, HandleHello, HandleFlow,
                                     HandleEnd, Close
  <2>. QED
    BY <1>2, <2>1 DEF HandleReject, HandleInvalidToken, HandleHello, HandleFlow, HandleEnd,
                       Close, cmdVars, writerVars
<1>3. CASE InitServices
  <2>1. QueueMove
    <3>1. CASE state # "CLOSED" /\ outQueue' = Append(outQueue, Msg("Hello", NoCmd))
      <4>1. "Hello" \in MsgTypes \ {"C", "EOS"} /\ NoCmd \in AllCmds /\ state' = state
        BY <1>3 DEF MsgTypes, AllCmds, InitServices
      <4>. QED BY <3>1, <4>1, AppendIsQueueMove
    <3>2. CASE UNCHANGED outQueue
      BY <1>3, <3>2 DEF InitServices, QueueMove
    <3>. QED BY <1>3, <3>1, <3>2 DEF InitServices
  <2>. QED BY <1>3, <2>1 DEF InitServices, cmdVars, writerVars
<1>4. CASE HandleCommand
  <2>1. QueueMove
    <3>1. CASE Shut(Rest)
      BY <3>1, ShutIsQueueMove
    <3>2. CASE state # "CLOSED" /\ UNCHANGED state /\ outQueue' = Append(outQueue, Msg("N", Head(events).cmd))
      <4>1. "N" \in MsgTypes \ {"C", "EOS"} /\ Head(events).cmd \in AllCmds
        <5>1. NextInput("C") /\ events # <<>> /\ events \in Seq(Evts)
          BY <1>4 DEF HandleCommand, NextInput, NextIs, TypeOK
        <5>2. Head(events) \in Evts
          BY <5>1, ToSetTail
        <5>3. Head(events).cmd \in RCmds
          BY <5>1, <5>2 DEF NextInput, NextIs, Evts, Input, Evt
        <5>. QED BY <5>3 DEF MsgTypes, AllCmds
      <4>. QED BY <3>2, <4>1, AppendIsQueueMove
    <3>3. CASE UNCHANGED <<state, outQueue>>
      BY <3>3 DEF QueueMove
    <3>. QED BY <1>4, <3>1, <3>2, <3>3 DEF HandleCommand
  <2>. QED BY <1>4, <2>1 DEF HandleCommand, cmdVars, writerVars
<1>5. CASE \E rc \in RCmds : SendResult(rc)
  <2>. PICK rc \in RCmds : SendResult(rc)
    BY <1>5
  <2>1. QueueMove
    <3>1. CASE state = "OPEN" /\ outQueue' = Append(outQueue, Msg("R", rc))
      <4>1. "R" \in MsgTypes \ {"C", "EOS"} /\ rc \in AllCmds /\ state' = state
        BY DEF MsgTypes, AllCmds, SendResult
      <4>. QED BY <3>1, <4>1, AppendIsQueueMove
    <3>2. CASE UNCHANGED outQueue
      BY <3>2 DEF SendResult, QueueMove
    <3>. QED BY <3>1, <3>2 DEF SendResult
  <2>. QED BY <2>1 DEF SendResult, cmdVars, writerVars
<1>6. CASE \/ HandleClosed \/ HandleError \/ RunClosed \/ UNCHANGED vars
           \/ \E c \in Cmds : CancelCommand(c) \/ CancelAnswered(c)
  BY <1>6 DEF HandleClosed, HandleError, RunClosed, CancelCommand, CancelAnswered, QueueMove,
              vars, chanVars, cmdVars, writerVars
<1>7. CASE Peer
  BY <1>7 DEF Peer, PeerHello, PeerEvent, PeerFlow, PeerFault, ReaderEnd, PeerAnswer, PeerProgress,
              PeerCommand, QueueMove, chanVars, cmdVars, writerVars
<1>. QED BY <1>1, <1>2, <1>3, <1>4, <1>5, <1>6, <1>7 DEF Beside, Dispatch

LEMMA NextCases ==
    ASSUME [Next]_vars
    PROVE  Beside \/ Writer \/ \E c \in Cmds : SendCommand(c)
  BY DEF Next, User, Beside

-----------------------------------------------------------------------------
(* The end-of-stream mark.                                                 *)
LEMMA MarkBeside ==
    ASSUME TypeOK, MarkPlace, QueueMove, UNCHANGED <<sent, writing, writer>>
    PROVE  MarkPlace'
<1>0. outQueue \in Seq(Msgs)
  BY DEF TypeOK
<1>1. CASE outQueue' = outQueue /\ (state' = state \/ (state = "OPENING" /\ state' = "OPEN"))
  BY <1>1 DEF MarkPlace
<1>2. ASSUME NEW m \in Msgs, m.type \notin {"C", "EOS"}, state # "CLOSED", state' = state,
             outQueue' \in {Append(outQueue, m), <<m>> \o outQueue}
      PROVE  MarkPlace'
  <2>1. ToSet(outQueue') = ToSet(outQueue) \cup {m}
    <3>1. ToSet(Append(outQueue, m)) = ToSet(outQueue) \cup {m}
      BY <1>0, ToSetAppend
    <3>2. ToSet(<<m>> \o outQueue) = {m} \cup ToSet(outQueue)
      BY <1>0, PushProperties
    <3>. QED BY <1>2, <3>1, <3>2
  <2>2. m # Eos
    BY <1>2 DEF Eos, Msg
  <2>. QED BY <1>2, <2>1, <2>2 DEF MarkPlace
<1>3. CASE state # "CLOSED" /\ state' = "CLOSED" /\ outQueue' = <<Eos>>
  BY <1>3 DEF MarkPlace
<1>. QED BY <1>1, <1>2, <1>3 DEF QueueMove

LEMMA MarkSend ==
    ASSUME TypeOK, MarkPlace, NEW c \in Cmds, SendCommand(c)
    PROVE  MarkPlace'
<1>1. UNCHANGED <<state, sent, writing, writer>>
  BY DEF SendCommand, writerVars
<1>2. CASE state = "OPEN" /\ outQueue' = Append(outQueue, Msg("C", c))
  <2>1. Msg("C", c) \in Msgs /\ Msg("C", c) # Eos
    BY DEF Msg, Msgs, MsgTypes, AllCmds, Eos
  <2>2. ToSet(outQueue') = ToSet(outQueue) \cup {Msg("C", c)}
    BY <1>2, <2>1, ToSetAppend DEF TypeOK
  <2>. QED BY <1>1, <1>2, <2>1, <2>2 DEF MarkPlace
<1>3. CASE UNCHANGED outQueue
  BY <1>1, <1>3 DEF MarkPlace
<1>. QED BY <1>2, <1>3 DEF SendCommand

(* A message written after others without the mark keeps the mark last.    *)
LEMMA LastAppend ==
    ASSUME NEW s \in Seq(Msgs), NEW m \in Msgs, Eos \notin ToSet(s)
    PROVE  \A i \in DOMAIN Append(s, m) : Append(s, m)[i] = Eos => i = Len(Append(s, m))
<1>1. /\ DOMAIN s = 1 .. Len(s) /\ Len(s) \in Nat
      /\ DOMAIN Append(s, m) = 1 .. Len(s) + 1 /\ Len(Append(s, m)) = Len(s) + 1
      /\ \A i \in 1 .. Len(s) : Append(s, m)[i] = s[i]
  BY LenProperties, AppendProperties
<1>2. \A i \in 1 .. Len(s) : s[i] # Eos
  BY <1>1 DEF ToSet
<1>. QED BY <1>1, <1>2

(* What the writer holds is one message.                                   *)
LEMMA WrittenOne ==
    ASSUME TypeOK, MarkPlace, writing # <<>>
    PROVE  /\ Head(writing) \in Msgs /\ writing = <<Head(writing)>>
           /\ ToSet(writing) = {Head(writing)}
           /\ sent \o writing = Append(sent, Head(writing))
<1>1. writing \in Seq(Msgs) /\ Len(writing) = 1 /\ sent \in Seq(Msgs)
  BY DEF TypeOK, MarkPlace
<1>2. Head(writing) \in Msgs /\ writing = <<Head(writing)>>
  BY <1>1, ToSetTail
<1>3. ToSet(<<Head(writing)>>) = {Head(writing)}
  BY DEF ToSet
<1>4. sent \o <<Head(writing)>> = Append(sent, Head(writing))
  BY <1>1, <1>2
<1>. QED BY <1>2, <1>3, <1>4

LEMMA MarkWriter ==
    ASSUME TypeOK, MarkPlace, MarkLast, Writer
    PROVE  MarkPlace' /\ MarkLast'
<1>0. sent \in Seq(Msgs) /\ outQueue \in Seq(Msgs)
  BY DEF TypeOK
<1>a. ASSUME outQueue # <<>>
      PROVE  /\ Popped \in ToSet(outQueue) /\ Popped \in Msgs
             /\ ToSet(Tail(outQueue)) \subseteq ToSet(outQueue)
             /\ state = "CLOSED" => Popped = Eos /\ Tail(outQueue) = <<>>
  <2>1. /\ Popped \in ToSet(outQueue) /\ Popped \in Msgs
        /\ ToSet(Tail(outQueue)) \subseteq ToSet(outQueue)
    BY <1>0, <1>a, ToSetTail DEF Popped
  <2>2. outQueue = <<Eos>> => Popped = Eos /\ Tail(outQueue) = <<>>
    BY DEF Popped
  <2>. QED BY <1>a, <2>1, <2>2 DEF MarkPlace
<1>1. CASE WriterEnd
  <2>1. /\ outQueue # <<>> /\ Popped = Eos /\ writing = <<>> /\ writer = "running"
        /\ outQueue' = Tail(outQueue) /\ writer' = "ended"
        /\ UNCHANGED <<state, writing>>
        /\ sent' = sent \/ sent' = Append(sent, Eos)
    BY <1>1 DEF WriterEnd
  <2>2. state = "CLOSED" /\ outQueue' = <<>>
    BY <1>a, <2>1 DEF MarkPlace
  <2>3. Eos \notin ToSet(sent)
    BY <2>1 DEF MarkPlace
  <2>4. Eos \in Msgs
    BY DEF Eos, Msg, Msgs, MsgTypes, AllCmds
  <2>5. MarkLast'
    BY <1>0, <2>1, <2>3, <2>4, LastAppend DEF MarkLast
  <2>. QED BY <2>1, <2>2, <2>5 DEF MarkPlace
<1>2. CASE WriterSkip
  <2>1. /\ outQueue # <<>> /\ Popped.type = "C" /\ outQueue' = Tail(outQueue)
        /\ writing = <<>> /\ UNCHANGED <<state, writing, sent>>
        /\ writer' \in {writer, "ended"}
    BY <1>2 DEF WriterSkip
  <2>2. state # "CLOSED"
    BY <1>a, <2>1 DEF Eos, Msg
  <2>3. MarkPlace'
    BY <1>a, <2>1, <2>2 DEF MarkPlace
  <2>. QED BY <2>1, <2>3 DEF MarkLast
<1>3. CASE WriterTake
  <2>1. /\ outQueue # <<>> /\ Popped # Eos /\ outQueue' = Tail(outQueue)
        /\ writing' = <<Popped>> /\ writer = "running" /\ UNCHANGED <<state, writer, sent>>
    BY <1>3 DEF WriterTake
  <2>2. state # "CLOSED"
    BY <1>a, <2>1
  <2>3. ToSet(writing') = {Popped} /\ Len(writing') = 1
    <3>1. ToSet(<<Popped>>) = {Popped}
      BY DEF ToSet
    <3>. QED BY <2>1, <3>1
  <2>4. MarkPlace'
    BY <1>a, <2>1, <2>2, <2>3 DEF MarkPlace
  <2>. QED BY <2>1, <2>4 DEF MarkLast
<1>4. CASE WriterWrite \/ WriterFail
  <2>. DEFINE m == Head(writing)
  <2>1. /\ writing # <<>> /\ writing' = <<>> /\ UNCHANGED <<state, outQueue>>
        /\ sent' \in {sent, sent \o writing} /\ writer' \in {writer, "ended"}
    BY <1>4 DEF WriterWrite, WriterFail, chanVars
  <2>2. m \in Msgs /\ m # Eos /\ sent \o writing = Append(sent, m)
    BY <2>1, WrittenOne DEF MarkPlace
  <2>3. Eos \notin ToSet(sent)
    BY <2>1 DEF MarkPlace
  <2>. HIDE DEF m
  <2>4. ToSet(Append(sent, m)) = ToSet(sent) \cup {m}
    BY <1>0, <2>2, ToSetAppend
  <2>5. Eos \notin ToSet(sent')
    BY <2>1, <2>2, <2>3, <2>4
  <2>6. Eos \notin ToSet(writing')
    BY <2>1 DEF ToSet
  <2>7. MarkPlace'
    BY <2>1, <2>5, <2>6 DEF MarkPlace
  <2>8. MarkLast'
    <3>1. \A i \in DOMAIN Append(sent, m) :
            Append(sent, m)[i] = Eos => i = Len(Append(sent, m))
      BY <1>0, <2>2, <2>3, LastAppend
    <3>. QED BY <2>1, <2>2, <3>1 DEF MarkLast
  <2>. QED BY <2>7, <2>8
<1>. QED BY <1>1, <1>2, <1>3, <1>4 DEF Writer

LEMMA MarkKeeps ==
    ASSUME TypeOK, MarkPlace, MarkLast, [Next]_vars
    PROVE  MarkPlace' /\ MarkLast'
<1>1. CASE Beside
  <2>1. QueueMove /\ UNCHANGED <<sent, writing, writer>>
    BY <1>1, BesideMoves
  <2>. QED BY <2>1, MarkBeside DEF MarkLast
<1>2. CASE Writer
  BY <1>2, MarkWriter
<1>3. ASSUME NEW c \in Cmds, SendCommand(c)
      PROVE  MarkPlace' /\ MarkLast'
  <2>1. UNCHANGED sent
    BY <1>3 DEF SendCommand, writerVars
  <2>. QED BY <1>3, <2>1, MarkSend DEF MarkLast
<1>. QED BY <1>1, <1>2, <1>3, NextCases

-----------------------------------------------------------------------------
(* The notification of the close: how a step other than RunClosed counts.  *)
Counts ==
    /\ UNCHANGED closes
    /\ \/ /\ (state' = "CLOSED") = (state = "CLOSED")
          /\ Times(events', Closed) = Times(events, Closed)
       \/ /\ state # "CLOSED" /\ state' = "CLOSED"
          /\ Times(events', Closed) = Times(events, Closed) + 1

LEMMA ShutCounts ==
    ASSUME TypeOK, NEW later \in Seq(Evts), Times(later, Closed) = Times(events, Closed),
           Shut(later), UNCHANGED closes
    PROVE  Counts
<1>1. Closed \in Evts
  BY DEF Closed, Evts, Evt
<1>2. Times(Append(later, Closed), Closed) = Times(later, Closed) + 1
  BY <1>1, TimesAppend
<1>3. CASE state = "CLOSED"
  BY <1>3 DEF Shut, Counts
<1>4. CASE state # "CLOSED"
  <2>1. state' = "CLOSED" /\ events' = Append(later, Closed)
    BY <1>4 DEF Shut
  <2>. QED BY <1>2, <1>4, <2>1 DEF Counts
<1>. QED BY <1>3, <1>4

(* Taking an event that is not the notification.                           *)
LEMMA RestCounts ==
    ASSUME TypeOK, events # <<>>, Head(events).kind # "closed"
    PROVE  Rest \in Seq(Evts) /\ Times(Rest, Closed) = Times(events, Closed)
<1>1. events \in Seq(Evts) /\ Head(events) # Closed
  BY DEF TypeOK, Closed, Evt
<1>2. Rest \in Seq(Evts) /\ Times(Rest, Closed) \in Nat
  BY <1>1, ToSetTail, TimesFinite DEF Rest
<1>3. Times(events, Closed) = Times(Tail(events), Closed) + 0
  BY <1>1, TimesTail
<1>. QED BY <1>2, <1>3 DEF Rest

LEMMA PostCounts ==
    ASSUME TypeOK, NEW e \in Evts, e.kind # "closed"
    PROVE  Times(Append(events, e), Closed) = Times(events, Closed)
<1>1. events \in Seq(Evts) /\ e # Closed
  BY DEF TypeOK, Closed, Evt
<1>2. Times(events, Closed) \in Nat
  BY <1>1, TimesFinite
<1>3. Times(Append(events, e), Closed) = Times(events, Closed) + 0
  BY <1>1, TimesAppend
<1>. QED BY <1>2, <1>3

(* What the handlers of the dispatch thread do, the notification aside.    *)
LEMMA DispatchCounts ==
    ASSUME TypeOK, Dispatch, ~RunClosed
    PROVE  Counts
<1>1. events # <<>> /\ Head(events).kind # "closed" /\ UNCHANGED closes
  BY DEF Dispatch, InitServices, HandleClosed, HandleResult, HandleProgress, HandleReject,
         HandleInvalidToken, HandleCommand, HandleHello, HandleEvent, HandleFlow, HandleEnd, HandleError,
         NextInput, NextIs, noticeVars
<1>2. Rest \in Seq(Evts) /\ Times(Rest, Closed) = Times(events, Closed)
  BY <1>1, RestCounts
<1>3. \/ Shut(Rest)
      \/ events' = Rest /\ (state' = state \/ (state = "OPENING" /\ state' = "OPEN"))
  BY DEF Dispatch, InitServices, HandleClosed, HandleResult, HandleProgress, HandleReject,
         HandleInvalidToken, HandleCommand, HandleHello, HandleEvent, HandleFlow, HandleEnd, HandleError,
         RunClosed, chanVars
<1>4. CASE Shut(Rest)
  BY <1>1, <1>2, <1>4, ShutCounts
<1>5. CASE events' = Rest /\ (state' = state \/ (state = "OPENING" /\ state' = "OPEN"))
  BY <1>1, <1>2, <1>5 DEF Counts
<1>. QED BY <1>3, <1>4, <1>5

(* What the peer posts, and the writer when it ends.                       *)
LEMMA PeerPosts ==
    ASSUME Peer
    PROVE  \E e \in Evts : e.kind \in {"input", "terminate"} /\ events' = Append(events, e)
<1>. DEFINE P(e) == e \in Evts /\ e.kind \in {"input", "terminate"} /\ events' = Append(events, e)
<1>. SUFFICES \E e : P(e)
  OBVIOUS
<1>1. \A t \in {"P", "R", "N"}, c \in Cmds : Input(t, c) \in Evts /\ Input(t, c).kind = "input"
  BY DEF Evts, Input, Evt
<1>2. \A t \in {"Hello", "E", "F"} : Input(t, NoCmd) \in Evts /\ Input(t, NoCmd).kind = "input"
  BY DEF Evts, Input, Evt
<1>3. \A rc \in RCmds : Input("C", rc) \in Evts /\ Input("C", rc).kind = "input"
  BY DEF Evts, Input, Evt
<1>4. Terminate \in Evts /\ Terminate.kind = "terminate"
  BY DEF Evts, Terminate, Evt
<1>5. CASE PeerHello \/ PeerEvent \/ PeerFlow
  <2>1. \E t \in {"Hello", "E", "F"} : events' = Append(events, Input(t, NoCmd))
    BY <1>5 DEF PeerHello, PeerEvent, PeerFlow, DeliverExtra, Deliver
  <2>. QED BY <1>2, <2>1
<1>6. CASE \E c \in Cmds : PeerAnswer(c) \/ PeerProgress(c)
  <2>. PICK c \in Cmds : PeerAnswer(c) \/ PeerProgress(c)
    BY <1>6
  <2>1. \E t \in {"P", "R", "N"} : events' = Append(events, Input(t, c))
    BY DEF PeerAnswer, PeerProgress, DeliverExtra, Deliver
  <2>. QED BY <1>1, <2>1
<1>7. CASE \E rc \in RCmds : PeerCommand(rc)
  BY <1>3, <1>7 DEF PeerCommand, DeliverExtra, Deliver
<1>8. CASE PeerFault
  <2>1. CASE \E c \in Cmds : DeliverExtra("R", c)
    BY <1>1, <2>1 DEF DeliverExtra, Deliver
  <2>2. CASE \E rc \in RCmds : DeliverExtra("C", rc)
    BY <1>3, <2>2 DEF DeliverExtra, Deliver
  <2>3. CASE DeliverExtra("Hello", NoCmd)
    BY <1>2, <2>3 DEF DeliverExtra, Deliver
  <2>. QED BY <1>8, <2>1, <2>2, <2>3 DEF PeerFault
<1>9. CASE ReaderEnd
  BY <1>4, <1>9 DEF ReaderEnd
<1>. HIDE DEF P
<1>. QED BY <1>5, <1>6, <1>7, <1>8, <1>9 DEF Peer

LEMMA WriterPosts ==
    ASSUME Writer
    PROVE  events' = events \/ events' = Append(events, Terminate)
  BY DEF Writer, WriterEnd, WriterSkip, WriterTake, WriterWrite, WriterFail

LEMMA OthersCount ==
    ASSUME TypeOK, Writer \/ User \/ Peer \/ UNCHANGED vars
    PROVE  Counts
<1>1. UNCHANGED closes
  BY DEF Writer, WriterEnd, WriterSkip, WriterTake, WriterWrite, WriterFail, User, SendCommand,
         CancelCommand, CancelAnswered, SendResult, Close, Peer, PeerHello, PeerEvent, PeerFlow, PeerFault, ReaderEnd,
         PeerAnswer, PeerProgress, PeerCommand, vars, noticeVars
<1>2. CASE Close
  BY <1>1, <1>2, ShutCounts DEF Close, TypeOK
<1>3. CASE UNCHANGED state /\ events' = events
  BY <1>1, <1>3 DEF Counts
<1>4. ASSUME UNCHANGED state, NEW e \in Evts, e.kind # "closed", events' = Append(events, e)
      PROVE  Counts
  BY <1>1, <1>4, PostCounts DEF Counts
<1>5. CASE Writer
  <2>1. UNCHANGED state
    BY <1>5 DEF Writer, WriterEnd, WriterSkip, WriterTake, WriterWrite, WriterFail, chanVars
  <2>2. Terminate \in Evts /\ Terminate.kind # "closed"
    BY DEF Evts, Terminate, Evt
  <2>. QED BY <1>3, <1>4, <1>5, <2>1, <2>2, WriterPosts
<1>6. CASE Peer
  <2>1. UNCHANGED state
    BY <1>6 DEF Peer, PeerHello, PeerEvent, PeerFlow, PeerFault, ReaderEnd, PeerAnswer, PeerProgress,
                PeerCommand, chanVars
  <2>. QED BY <1>4, <1>6, <2>1, PeerPosts
<1>7. ASSUME NEW c \in Cmds, SendCommand(c)
      PROVE  Counts
  <2>1. Evt("error", "none", c) \in Evts /\ Evt("error", "none", c).kind # "closed"
    BY DEF Evts, Evt
  <2>2. UNCHANGED state
    BY <1>7 DEF SendCommand
  <2>3. events' = events \/ events' = Append(events, Evt("error", "none", c))
    BY <1>7 DEF SendCommand
  <2>. QED BY <1>3, <1>4, <2>1, <2>2, <2>3
<1>8. CASE \/ \E c \in Cmds : CancelCommand(c) \/ CancelAnswered(c)
           \/ \E rc \in RCmds : SendResult(rc)
           \/ UNCHANGED vars
  <2>1. UNCHANGED <<state, events>>
    BY <1>8 DEF CancelCommand, CancelAnswered, SendResult, vars, chanVars
  <2>. QED BY <1>3, <2>1
<1>. QED BY <1>2, <1>5, <1>6, <1>7, <1>8 DEF User

(* A command is registered on an open channel only.                        *)
LEMMA TokensGrowOpen ==
    ASSUME [Next]_vars, state = "CLOSED"
    PROVE  outTokens' \subseteq outTokens
  BY DEF Next, Dispatch, InitServices, HandleClosed, HandleResult, HandleProgress, HandleReject,
         HandleInvalidToken, HandleCommand, HandleHello, HandleEvent, HandleFlow, HandleEnd, HandleError,
         RunClosed, Writer, WriterEnd, WriterSkip, WriterTake, WriterWrite, WriterFail, User,
         SendCommand, CancelCommand, CancelAnswered, SendResult, Close, Peer, PeerHello, PeerEvent, PeerFlow, PeerFault,
         ReaderEnd, PeerAnswer, PeerProgress, PeerCommand, vars, chanVars

LEMMA ClosedOnceKeeps ==
    ASSUME TypeOK, ClosedOnce, [Next]_vars
    PROVE  ClosedOnce'
<1>0. closes \in Nat /\ Times(events, Closed) \in Nat
  BY TimesFinite DEF TypeOK
<1>1. CASE RunClosed
  <2>1. /\ events # <<>> /\ Head(events).kind = "closed" /\ events' = Tail(events)
        /\ closes' = closes + 1 /\ outTokens' = {} /\ UNCHANGED state
    BY <1>1 DEF RunClosed, NextIs, Rest
  <2>2. events \in Seq(Evts) /\ Head(events) \in Evts /\ Tail(events) \in Seq(Evts)
    BY <2>1, ToSetTail DEF TypeOK
  <2>3. Head(events) = Closed
    BY <2>1, <2>2 DEF Evts, Closed, Evt, Input
  <2>4. Times(events, Closed) = Times(Tail(events), Closed) + 1 /\ Times(Tail(events), Closed) \in Nat
    BY <2>1, <2>2, <2>3, TimesTail, TimesFinite
  <2>5. closes' + Times(events', Closed) = closes + Times(events, Closed)
    BY <1>0, <2>1, <2>4
  <2>. QED BY <2>1, <2>5 DEF ClosedOnce
<1>2. CASE ~RunClosed
  <2>1. Counts
    BY <1>2, DispatchCounts, OthersCount DEF Next
  <2>2. closes' + Times(events', Closed) = IF state' = "CLOSED" THEN 1 ELSE 0
    BY <1>0, <2>1 DEF Counts, ClosedOnce
  <2>3. ASSUME closes' > 0 PROVE outTokens' = {}
    <3>1. closes > 0 /\ state = "CLOSED"
      BY <1>0, <2>1, <2>3 DEF Counts, ClosedOnce
    <3>2. outTokens' \subseteq outTokens
      BY <3>1, TokensGrowOpen
    <3>. QED BY <3>1, <3>2 DEF ClosedOnce
  <2>. QED BY <2>2, <2>3 DEF ClosedOnce
<1>. QED BY <1>1, <1>2

-----------------------------------------------------------------------------
(* The order of the commands.  Issuing one keeps the order of the others.  *)
LEMMA BeforeGrows ==
    ASSUME issued \in Seq(Cmds), NEW c \in Cmds, issued' = Append(issued, c)
    PROVE  /\ \A a, b : Before(a, b) => Before(a, b)'
           /\ \A a \in ToSet(issued) : Before(a, c)'
<1>1. /\ DOMAIN issued = 1 .. Len(issued) /\ Len(issued) \in Nat
      /\ DOMAIN issued' = 1 .. Len(issued) + 1
      /\ \A i \in 1 .. Len(issued) : issued'[i] = issued[i]
      /\ issued'[Len(issued) + 1] = c
  BY LenProperties, AppendProperties
<1>2. ASSUME NEW a, NEW b, Before(a, b) PROVE Before(a, b)'
  <2>1. PICK i, j \in 1 .. Len(issued) : i < j /\ issued[i] = a /\ issued[j] = b
    BY <1>1, <1>2 DEF Before
  <2>2. i \in DOMAIN issued' /\ j \in DOMAIN issued' /\ issued'[i] = a /\ issued'[j] = b
    BY <1>1, <2>1
  <2>. QED BY <2>1, <2>2 DEF Before
<1>3. ASSUME NEW a \in ToSet(issued) PROVE Before(a, c)'
  <2>1. PICK i \in 1 .. Len(issued) : issued[i] = a
    BY <1>1 DEF ToSet
  <2>2. i \in DOMAIN issued' /\ Len(issued) + 1 \in DOMAIN issued' /\ issued'[i] = a
    BY <1>1, <2>1
  <2>3. i < Len(issued) + 1
    BY <1>1, <2>1
  <2>. QED BY <1>1, <2>2, <2>3 DEF Before
<1>. QED BY <1>2, <1>3

(* No command was issued before itself.                                    *)
LEMMA BeforeIsStrict ==
    ASSUME issued \in Seq(Cmds), Distinct(issued), NEW a
    PROVE  ~Before(a, a)
<1>1. DOMAIN issued = 1 .. Len(issued) /\ Len(issued) \in Nat
  BY LenProperties
<1>. QED BY <1>1 DEF Before, Distinct

LEMMA InOrderAppend ==
    ASSUME NEW s \in Seq(Msgs), NEW m \in Msgs, InOrder(s), \A x \in ToSet(s) : Ordered(x, m)
    PROVE  InOrder(Append(s, m))
<1>1. /\ DOMAIN s = 1 .. Len(s) /\ Len(s) \in Nat
      /\ DOMAIN Append(s, m) = 1 .. Len(s) + 1
      /\ \A i \in 1 .. Len(s) : Append(s, m)[i] = s[i]
      /\ Append(s, m)[Len(s) + 1] = m
  BY LenProperties, AppendProperties
<1>. SUFFICES ASSUME NEW i \in 1 .. Len(s) + 1, NEW j \in 1 .. Len(s) + 1, i < j
              PROVE  Ordered(Append(s, m)[i], Append(s, m)[j])
  BY <1>1 DEF InOrder
<1>2. i \in 1 .. Len(s) /\ Append(s, m)[i] = s[i] /\ s[i] \in ToSet(s)
  BY <1>1 DEF ToSet
<1>3. CASE j \in 1 .. Len(s)
  BY <1>1, <1>2, <1>3 DEF InOrder
<1>4. CASE j = Len(s) + 1
  BY <1>1, <1>2, <1>4
<1>. QED BY <1>1, <1>3, <1>4

LEMMA InOrderTail ==
    ASSUME NEW s \in Seq(Msgs), s # <<>>, InOrder(s)
    PROVE  InOrder(Tail(s)) /\ \A x \in ToSet(Tail(s)) : Ordered(Head(s), x)
<1>1. /\ Len(s) \in Nat \ {0} /\ Tail(s) \in Seq(Msgs) /\ Head(s) = s[1]
      /\ DOMAIN s = 1 .. Len(s) /\ DOMAIN Tail(s) = 1 .. Len(s) - 1
      /\ \A i \in 1 .. Len(s) - 1 : Tail(s)[i] = s[i + 1]
  BY HeadTailProperties, EmptySeq, LenProperties
<1>2. InOrder(Tail(s))
  <2>. SUFFICES ASSUME NEW i \in 1 .. Len(s) - 1, NEW j \in 1 .. Len(s) - 1, i < j
                PROVE  Ordered(Tail(s)[i], Tail(s)[j])
    BY <1>1 DEF InOrder
  <2>1. i + 1 \in DOMAIN s /\ j + 1 \in DOMAIN s /\ i + 1 < j + 1
    BY <1>1
  <2>2. Ordered(s[i + 1], s[j + 1])
    BY <2>1 DEF InOrder
  <2>. QED BY <1>1, <2>2
<1>3. ASSUME NEW x \in ToSet(Tail(s)) PROVE Ordered(Head(s), x)
  <2>1. PICK i \in 1 .. Len(s) - 1 : Tail(s)[i] = x
    BY <1>1 DEF ToSet
  <2>2. i + 1 \in DOMAIN s /\ 1 \in DOMAIN s /\ 1 < i + 1 /\ s[i + 1] = x
    BY <1>1, <2>1
  <2>3. Ordered(s[1], s[i + 1])
    BY <2>2 DEF InOrder
  <2>. QED BY <1>1, <2>2, <2>3
<1>. QED BY <1>2, <1>3

LEMMA InOrderPush ==
    ASSUME NEW s \in Seq(Msgs), NEW m \in Msgs, m.type # "C", InOrder(s)
    PROVE  InOrder(<<m>> \o s)
<1>. DEFINE t == <<m>> \o s
<1>1. /\ DOMAIN t = 1 .. Len(s) + 1 /\ t[1] = m
      /\ \A i \in 2 .. Len(s) + 1 : t[i] = s[i - 1]
      /\ DOMAIN s = 1 .. Len(s) /\ Len(s) \in Nat
  BY PushProperties, LenProperties
<1>. HIDE DEF t
<1>2. ASSUME NEW i \in 1 .. Len(s) + 1, NEW j \in 1 .. Len(s) + 1, i < j
      PROVE  Ordered(t[i], t[j])
  <2>1. CASE i = 1
    BY <1>1, <2>1 DEF Ordered
  <2>2. CASE i # 1
    <3>1. t[i] = s[i - 1] /\ t[j] = s[j - 1]
      BY <1>1, <1>2, <2>2
    <3>2. i - 1 \in DOMAIN s /\ j - 1 \in DOMAIN s /\ i - 1 < j - 1
      BY <1>1, <1>2, <2>2
    <3>3. Ordered(s[i - 1], s[j - 1])
      BY <3>2 DEF InOrder
    <3>. QED BY <3>1, <3>3
  <2>. QED BY <2>1, <2>2
<1>3. InOrder(t)
  BY <1>1, <1>2 DEF InOrder
<1>. QED BY <1>3 DEF t

(* A queue that gets no new command.                                       *)
LEMMA QueueMoveOrder ==
    ASSUME TypeOK, InOrder(outQueue), QueueMove
    PROVE  /\ InOrder(outQueue')
           /\ \A m \in ToSet(outQueue') : m.type = "C" => m \in ToSet(outQueue)
<1>0. outQueue \in Seq(Msgs)
  BY DEF TypeOK
<1>1. CASE outQueue' = outQueue
  BY <1>1
<1>2. ASSUME NEW m \in Msgs, m.type \notin {"C", "EOS"},
             outQueue' \in {Append(outQueue, m), <<m>> \o outQueue}
      PROVE  /\ InOrder(outQueue')
             /\ \A n \in ToSet(outQueue') : n.type = "C" => n \in ToSet(outQueue)
  <2>1. InOrder(Append(outQueue, m)) /\ ToSet(Append(outQueue, m)) = ToSet(outQueue) \cup {m}
    <3>1. \A x \in ToSet(outQueue) : Ordered(x, m)
      BY <1>2 DEF Ordered
    <3>. QED BY <1>0, <3>1, InOrderAppend, ToSetAppend
  <2>2. InOrder(<<m>> \o outQueue) /\ ToSet(<<m>> \o outQueue) = {m} \cup ToSet(outQueue)
    BY <1>0, <1>2, InOrderPush, PushProperties
  <2>3. CASE outQueue' = Append(outQueue, m)
    BY <1>2, <2>1, <2>3
  <2>4. CASE outQueue' = <<m>> \o outQueue
    BY <1>2, <2>2, <2>4
  <2>. QED BY <1>2, <2>3, <2>4
<1>3. CASE outQueue' = <<Eos>>
  <2>1. DOMAIN <<Eos>> = {1} /\ <<Eos>>[1] = Eos /\ Eos.type # "C"
    BY DEF Eos, Msg
  <2>2. InOrder(<<Eos>>)
    BY <2>1 DEF InOrder, Ordered
  <2>3. ToSet(<<Eos>>) = {Eos}
    BY DEF ToSet
  <2>. QED BY <1>3, <2>1, <2>2, <2>3
<1>. QED BY <1>1, <1>2, <1>3 DEF QueueMove

LEMMA OrderBeside ==
    ASSUME TypeOK, LineOrder, QueueMove, UNCHANGED <<issued, sent, writing>>
    PROVE  LineOrder'
<1>1. /\ InOrder(outQueue')
      /\ \A m \in ToSet(outQueue') : m.type = "C" => m \in ToSet(outQueue)
  BY QueueMoveOrder DEF LineOrder
<1>2. InOrder(outQueue)' /\ InOrder(sent)' /\ Ahead(sent, writing)'
  BY <1>1 DEF LineOrder, InOrder, Ahead, Ordered, Before
<1>3. Ahead(sent, outQueue)' /\ Ahead(writing, outQueue)'
  BY <1>1 DEF LineOrder, Ahead, Ordered, Before
<1>4. \A m \in ToSet(sent') \cup ToSet(writing') \cup ToSet(outQueue') :
        m.type = "C" => m.cmd \in ToSet(issued')
  BY <1>1 DEF LineOrder
<1>. QED BY <1>2, <1>3, <1>4 DEF LineOrder

(* sendCommand puts the newest command behind all others.                  *)
LEMMA OrderSend ==
    ASSUME TypeOK, LineOrder, NEW c \in Cmds, SendCommand(c)
    PROVE  LineOrder'
<1>. DEFINE m == Msg("C", c)
<1>1. /\ c \notin ToSet(issued) /\ issued' = Append(issued, c)
      /\ UNCHANGED <<sent, writing>> /\ issued \in Seq(Cmds) /\ outQueue \in Seq(Msgs)
      /\ outQueue' = outQueue \/ outQueue' = Append(outQueue, m)
  BY DEF SendCommand, writerVars, TypeOK
<1>2. m \in Msgs /\ m.type = "C" /\ m.cmd = c
  BY DEF Msg, Msgs, MsgTypes, AllCmds
<1>. HIDE DEF m
<1>3. Distinct(issued') /\ ToSet(issued') = ToSet(issued) \cup {c}
  BY <1>1, DistinctAppend, ToSetAppend DEF LineOrder
<1>4. /\ \A a, b : Before(a, b) => Before(a, b)'
      /\ \A a \in ToSet(issued) : Before(a, c)'
  BY <1>1, BeforeGrows
<1>5. \A x, y : Ordered(x, y) => Ordered(x, y)'
  BY <1>4 DEF Ordered
<1>6. \A x \in ToSet(sent) \cup ToSet(writing) \cup ToSet(outQueue) : Ordered(x, m)'
  BY <1>2, <1>4 DEF Ordered, LineOrder
<1>7. InOrder(sent)' /\ Ahead(sent, writing)'
  BY <1>1, <1>5 DEF LineOrder, InOrder, Ahead
<1>8. CASE outQueue' = outQueue
  <2>1. InOrder(outQueue)' /\ Ahead(sent, outQueue)' /\ Ahead(writing, outQueue)'
    BY <1>1, <1>5, <1>8 DEF LineOrder, InOrder, Ahead
  <2>. QED BY <1>1, <1>3, <1>7, <1>8, <2>1 DEF LineOrder
<1>9. CASE outQueue' = Append(outQueue, m)
  <2>1. ToSet(outQueue') = ToSet(outQueue) \cup {m}
    BY <1>1, <1>2, <1>9, ToSetAppend
  <2>2. Ahead(sent, outQueue)' /\ Ahead(writing, outQueue)'
    BY <1>1, <1>5, <1>6, <2>1 DEF LineOrder, Ahead
  <2>3. InOrder(outQueue)'
    <3>1. /\ DOMAIN outQueue = 1 .. Len(outQueue) /\ Len(outQueue) \in Nat
          /\ DOMAIN outQueue' = 1 .. Len(outQueue) + 1
          /\ \A i \in 1 .. Len(outQueue) : outQueue'[i] = outQueue[i]
          /\ outQueue'[Len(outQueue) + 1] = m
      BY <1>1, <1>2, <1>9, LenProperties, AppendProperties
    <3>. SUFFICES ASSUME NEW i \in 1 .. Len(outQueue) + 1, NEW j \in 1 .. Len(outQueue) + 1, i < j
                  PROVE  Ordered(outQueue[i], outQueue[j])'
      BY <3>1 DEF InOrder
    <3>2. i \in 1 .. Len(outQueue) /\ outQueue'[i] = outQueue[i] /\ outQueue[i] \in ToSet(outQueue)
      BY <3>1 DEF ToSet
    <3>3. CASE j \in 1 .. Len(outQueue)
      <4>1. Ordered(outQueue[i], outQueue[j]) /\ outQueue'[j] = outQueue[j]
        BY <3>1, <3>2, <3>3 DEF LineOrder, InOrder
      <4>. QED BY <1>5, <3>2, <4>1 DEF Ordered, Before
    <3>4. CASE j = Len(outQueue) + 1
      BY <1>6, <3>1, <3>2, <3>4 DEF Ordered, Before
    <3>. QED BY <3>1, <3>3, <3>4
  <2>4. \A x \in ToSet(sent') \cup ToSet(writing') \cup ToSet(outQueue') :
          x.type = "C" => x.cmd \in ToSet(issued')
    BY <1>1, <1>2, <1>3, <2>1 DEF LineOrder
  <2>. QED BY <1>3, <1>7, <2>2, <2>3, <2>4 DEF LineOrder
<1>. QED BY <1>1, <1>8, <1>9

(* The writer moves the head of the queue to the end of what is sent.      *)
LEMMA OrderWriter ==
    ASSUME TypeOK, MarkPlace, LineOrder, Writer
    PROVE  LineOrder'
<1>0. /\ sent \in Seq(Msgs) /\ outQueue \in Seq(Msgs)
      /\ UNCHANGED issued
      /\ InOrder(sent) /\ InOrder(outQueue)
      /\ Ahead(sent, writing) /\ Ahead(sent, outQueue) /\ Ahead(writing, outQueue)
  BY DEF TypeOK, LineOrder, Writer, WriterEnd, WriterSkip, WriterTake, WriterWrite, WriterFail, cmdVars
<1>. DEFINE Known(s) == \A m \in ToSet(s) : m.type = "C" => m.cmd \in ToSet(issued)
<1>k. Known(sent) /\ Known(writing) /\ Known(outQueue) /\ Distinct(issued)
  BY DEF LineOrder
<1>s. ASSUME InOrder(sent'), InOrder(outQueue'),
             Ahead(sent', writing'), Ahead(sent', outQueue'), Ahead(writing', outQueue'),
             Known(sent'), Known(writing'), Known(outQueue')
      PROVE  LineOrder'
  <2>1. InOrder(sent)' /\ InOrder(outQueue)'
    BY <1>0, <1>s DEF InOrder, Ordered, Before
  <2>2. Ahead(sent, writing)' /\ Ahead(sent, outQueue)' /\ Ahead(writing, outQueue)'
    BY <1>0, <1>s DEF Ahead, Ordered, Before
  <2>. QED BY <1>0, <1>k, <1>s, <2>1, <2>2 DEF LineOrder
<1>. HIDE DEF Known
<1>a. ASSUME outQueue # <<>>
      PROVE  /\ Popped \in ToSet(outQueue) /\ Popped \in Msgs
             /\ ToSet(Tail(outQueue)) \subseteq ToSet(outQueue)
             /\ InOrder(Tail(outQueue)) /\ \A x \in ToSet(Tail(outQueue)) : Ordered(Popped, x)
             /\ Ahead(sent, Tail(outQueue)) /\ Ahead(writing, Tail(outQueue))
             /\ Known(Tail(outQueue))
  <2>1. /\ Popped \in ToSet(outQueue) /\ Popped \in Msgs
        /\ ToSet(Tail(outQueue)) \subseteq ToSet(outQueue)
    BY <1>0, <1>a, ToSetTail DEF Popped
  <2>2. InOrder(Tail(outQueue)) /\ \A x \in ToSet(Tail(outQueue)) : Ordered(Popped, x)
    BY <1>0, <1>a, InOrderTail DEF Popped
  <2>. QED BY <1>0, <1>k, <2>1, <2>2 DEF Ahead, Known
<1>n. ToSet(<<>>) = {}
  BY DEF ToSet
<1>1. CASE WriterEnd
  <2>1. /\ outQueue # <<>> /\ outQueue' = Tail(outQueue) /\ writing' = writing
        /\ sent' = sent \/ sent' = Append(sent, Eos)
    BY <1>1 DEF WriterEnd
  <2>2. Eos \in Msgs /\ Eos.type # "C"
    BY DEF Eos, Msg, Msgs, MsgTypes, AllCmds
  <2>3. ToSet(Append(sent, Eos)) = ToSet(sent) \cup {Eos}
    BY <1>0, <2>2, ToSetAppend
  <2>4. \A x : Ordered(x, Eos) /\ Ordered(Eos, x)
    BY <2>2 DEF Ordered
  <2>5. InOrder(Append(sent, Eos))
    BY <1>0, <2>2, <2>4, InOrderAppend
  <2>6. InOrder(sent')
    BY <1>0, <2>1, <2>5
  <2>7. \A x \in ToSet(sent') : x \in ToSet(sent) \/ x = Eos
    BY <2>1, <2>3
  <2>8. Ahead(sent', writing') /\ Ahead(sent', outQueue') /\ Known(sent')
    BY <1>0, <1>a, <1>k, <2>1, <2>2, <2>4, <2>7 DEF Ahead, Known
  <2>. QED BY <1>a, <1>k, <1>s, <2>1, <2>6, <2>8
<1>2. CASE WriterSkip
  <2>1. outQueue # <<>> /\ outQueue' = Tail(outQueue) /\ UNCHANGED <<writing, sent>>
    BY <1>2 DEF WriterSkip
  <2>. QED BY <1>0, <1>a, <1>k, <1>s, <2>1
<1>3. CASE WriterTake
  <2>1. /\ outQueue # <<>> /\ outQueue' = Tail(outQueue) /\ UNCHANGED sent
        /\ writing' = <<Popped>>
    BY <1>3 DEF WriterTake
  <2>2. ToSet(writing') = {Popped}
    <3>1. ToSet(<<Popped>>) = {Popped}
      BY DEF ToSet
    <3>. QED BY <2>1, <3>1
  <2>3. Ahead(sent', writing') /\ Ahead(writing', outQueue') /\ Known(writing')
    BY <1>0, <1>a, <1>k, <2>1, <2>2 DEF Ahead, Known
  <2>. QED BY <1>0, <1>a, <1>k, <1>s, <2>1, <2>3
<1>4. CASE WriterWrite \/ WriterFail
  <2>. DEFINE m == Head(writing)
  <2>1. /\ writing # <<>> /\ writing' = <<>> /\ UNCHANGED outQueue
        /\ sent' \in {sent, sent \o writing}
    BY <1>4 DEF WriterWrite, WriterFail, chanVars
  <2>2. m \in Msgs /\ ToSet(writing) = {m} /\ sent \o writing = Append(sent, m)
    BY <2>1, WrittenOne
  <2>. HIDE DEF m
  <2>3. \A x \in ToSet(sent) : Ordered(x, m)
    BY <1>0, <2>2 DEF Ahead
  <2>4. InOrder(Append(sent, m)) /\ ToSet(Append(sent, m)) = ToSet(sent) \cup {m}
    BY <1>0, <2>2, <2>3, InOrderAppend, ToSetAppend
  <2>5. Ahead(Append(sent, m), outQueue) /\ Known(Append(sent, m))
    BY <1>0, <1>k, <2>2, <2>4 DEF Ahead, Known
  <2>6. InOrder(sent') /\ Ahead(sent', outQueue') /\ Known(sent')
    BY <1>0, <1>k, <2>1, <2>2, <2>4, <2>5
  <2>7. Ahead(sent', writing') /\ Ahead(writing', outQueue') /\ Known(writing')
    BY <1>n, <2>1 DEF Ahead, Known
  <2>. QED BY <1>0, <1>k, <1>s, <2>1, <2>6, <2>7
<1>. QED BY <1>1, <1>2, <1>3, <1>4 DEF Writer

LEMMA OrderKeeps ==
    ASSUME TypeOK, MarkPlace, LineOrder, [Next]_vars
    PROVE  LineOrder'
<1>1. CASE Beside
  BY <1>1, BesideMoves, OrderBeside
<1>. QED BY <1>1, NextCases, OrderSend, OrderWriter

(* A command on the wire is on the queue no more, nor is it written again. *)
LEMMA WrittenIsGone ==
    ASSUME TypeOK, LineOrder, NEW c \in Cmds, c \in Transmitted
    PROVE  Msg("C", c) \notin ToSet(outQueue) \cup ToSet(writing)
<1>1. PICK m \in ToSet(sent) : m.type = "C" /\ m.cmd = c
  BY DEF Transmitted
<1>2. Msg("C", c).type = "C" /\ Msg("C", c).cmd = c
  BY DEF Msg
<1>3. ~Before(c, c)
  BY BeforeIsStrict DEF TypeOK, LineOrder
<1>. QED BY <1>1, <1>2, <1>3 DEF LineOrder, Ahead, Ordered

-----------------------------------------------------------------------------
(* The answers of a correct peer.                                          *)
LEMMA AnswersLastAppend ==
    ASSUME NEW s \in Seq(Evts), NEW e \in Evts, AnswersLast(s),
           \A x \in ToSet(s), c \in Cmds : IsAnswer(x, c) => ~IsReply(e, c)
    PROVE  AnswersLast(Append(s, e))
<1>1. /\ DOMAIN s = 1 .. Len(s) /\ Len(s) \in Nat
      /\ DOMAIN Append(s, e) = 1 .. Len(s) + 1
      /\ \A i \in 1 .. Len(s) : Append(s, e)[i] = s[i]
      /\ Append(s, e)[Len(s) + 1] = e
  BY LenProperties, AppendProperties
<1>. SUFFICES ASSUME NEW i \in 1 .. Len(s) + 1, NEW j \in 1 .. Len(s) + 1, NEW c \in Cmds,
                     i < j, IsAnswer(Append(s, e)[i], c)
              PROVE  ~IsReply(Append(s, e)[j], c)
  BY <1>1 DEF AnswersLast
<1>2. i \in 1 .. Len(s) /\ Append(s, e)[i] = s[i] /\ s[i] \in ToSet(s)
  BY <1>1 DEF ToSet
<1>3. CASE j \in 1 .. Len(s)
  BY <1>1, <1>2, <1>3 DEF AnswersLast
<1>4. CASE j = Len(s) + 1
  BY <1>1, <1>2, <1>4
<1>. QED BY <1>1, <1>3, <1>4

LEMMA AnswersLastTail ==
    ASSUME NEW s \in Seq(Evts), s # <<>>, AnswersLast(s)
    PROVE  /\ AnswersLast(Tail(s))
           /\ \A x \in ToSet(Tail(s)), c \in Cmds : IsAnswer(Head(s), c) => ~IsReply(x, c)
<1>1. /\ Len(s) \in Nat \ {0} /\ Tail(s) \in Seq(Evts) /\ Head(s) = s[1]
      /\ DOMAIN s = 1 .. Len(s) /\ DOMAIN Tail(s) = 1 .. Len(s) - 1
      /\ \A i \in 1 .. Len(s) - 1 : Tail(s)[i] = s[i + 1]
  BY HeadTailProperties, EmptySeq, LenProperties
<1>2. AnswersLast(Tail(s))
  <2>. SUFFICES ASSUME NEW i \in 1 .. Len(s) - 1, NEW j \in 1 .. Len(s) - 1, NEW c \in Cmds,
                       i < j, IsAnswer(Tail(s)[i], c)
                PROVE  ~IsReply(Tail(s)[j], c)
    BY <1>1 DEF AnswersLast
  <2>1. i + 1 \in DOMAIN s /\ j + 1 \in DOMAIN s /\ i + 1 < j + 1
    BY <1>1
  <2>2. Tail(s)[i] = s[i + 1] /\ Tail(s)[j] = s[j + 1]
    BY <1>1
  <2>. QED BY <2>1, <2>2 DEF AnswersLast
<1>3. ASSUME NEW x \in ToSet(Tail(s)), NEW c \in Cmds, IsAnswer(Head(s), c)
      PROVE  ~IsReply(x, c)
  <2>1. PICK i \in 1 .. Len(s) - 1 : Tail(s)[i] = x
    BY <1>1 DEF ToSet
  <2>2. i + 1 \in DOMAIN s /\ 1 \in DOMAIN s /\ 1 < i + 1 /\ s[i + 1] = x
    BY <1>1, <2>1
  <2>. QED BY <1>1, <1>3, <2>2 DEF AnswersLast
<1>. QED BY <1>2, <1>3

(* A step that posts no reply: it may take an event, and post another.     *)
NoReply(e) == \A c \in Cmds : ~IsReply(e, c)

NoReplyPosted ==
    \/ events' = events
    \/ \E e \in Evts : NoReply(e) /\ events' = Append(events, e)
    \/ events # <<>> /\ (events' = Rest \/ events' = Append(Rest, Closed))

LEMMA NoReplyKeeps ==
    ASSUME TypeOK, AnswersLast(events), NoReplyPosted
    PROVE  /\ AnswersLast(events')
           /\ \A x \in ToSet(events') : x \in ToSet(events) \/ NoReply(x)
<1>0. events \in Seq(Evts)
  BY DEF TypeOK
<1>a. ASSUME NEW s \in Seq(Evts), AnswersLast(s), NEW e \in Evts, NoReply(e)
      PROVE  /\ AnswersLast(Append(s, e))
             /\ ToSet(Append(s, e)) = ToSet(s) \cup {e}
  <2>1. \A x \in ToSet(s), c \in Cmds : IsAnswer(x, c) => ~IsReply(e, c)
    BY <1>a DEF NoReply
  <2>. QED BY <1>a, <2>1, AnswersLastAppend, ToSetAppend
<1>1. CASE events' = events
  BY <1>1
<1>2. ASSUME NEW e \in Evts, NoReply(e), events' = Append(events, e)
      PROVE  /\ AnswersLast(events')
             /\ \A x \in ToSet(events') : x \in ToSet(events) \/ NoReply(x)
  BY <1>0, <1>a, <1>2
<1>3. CASE events # <<>> /\ (events' = Rest \/ events' = Append(Rest, Closed))
  <2>1. Rest \in Seq(Evts) /\ AnswersLast(Rest) /\ ToSet(Rest) \subseteq ToSet(events)
    BY <1>0, <1>3, ToSetTail, AnswersLastTail DEF Rest
  <2>2. Closed \in Evts /\ NoReply(Closed)
    BY DEF Closed, Evts, Evt, NoReply, IsReply
  <2>3. AnswersLast(Append(Rest, Closed)) /\ ToSet(Append(Rest, Closed)) = ToSet(Rest) \cup {Closed}
    BY <1>a, <2>1, <2>2
  <2>. QED BY <1>3, <2>1, <2>2, <2>3
<1>. QED BY <1>1, <1>2, <1>3 DEF NoReplyPosted

(* A step that posts no reply and takes no token from an open channel.     *)
LEMMA TokensQuiet ==
    ASSUME TypeOK, TokensSound, NoReplyPosted, UNCHANGED faulty,
           ToSet(sent) \subseteq ToSet(sent'), answered \subseteq answered',
           state' # "CLOSED" => state # "CLOSED" /\ outTokens \subseteq outTokens',
           ~faulty => OpenCommandsRegistered'
    PROVE  TokensSound'
<1>. SUFFICES ASSUME ~faulty
              PROVE  /\ AnswersLast(events)'
                     /\ (\A e \in ToSet(events) : ReplyKnown(e))'
  BY DEF TokensSound
<1>1. /\ AnswersLast(events')
      /\ \A x \in ToSet(events') : x \in ToSet(events) \/ NoReply(x)
  BY NoReplyKeeps DEF TokensSound
<1>2. Transmitted \subseteq Transmitted'
  BY DEF Transmitted
<1>3. (\A e \in ToSet(events) : ReplyKnown(e))'
  BY <1>1, <1>2 DEF TokensSound, ReplyKnown, NoReply
<1>4. AnswersLast(events)'
  BY <1>1 DEF AnswersLast
<1>. QED BY <1>3, <1>4

LEMMA RegisteredBeside ==
    ASSUME TypeOK, LineOrder, QueueMove, OpenCommandsRegistered,
           UNCHANGED <<isSent, isCanceled>>, answered \subseteq answered',
           outTokens \subseteq outTokens'
    PROVE  OpenCommandsRegistered'
<1>1. \A m \in ToSet(outQueue') : m.type = "C" => m \in ToSet(outQueue)
  BY QueueMoveOrder DEF LineOrder
<1>2. state' # "CLOSED" => state # "CLOSED"
  BY DEF QueueMove
<1>3. \A c \in Cmds : Msg("C", c) \in ToSet(outQueue') => Msg("C", c) \in ToSet(outQueue)
  BY <1>1 DEF Msg
<1>. QED BY <1>2, <1>3 DEF OpenCommandsRegistered

(* The handlers that complete no command.                                  *)
LEMMA TokensQuietDispatch ==
    ASSUME TypeOK, LineOrder, TokensSound, QuietDispatch
    PROVE  TokensSound'
<1>1. UNCHANGED <<outTokens, isSent, isCanceled, sent, answered, faulty>>
  BY DEF QuietDispatch, InitServices, HandleClosed, HandleProgress, HandleInvalidToken,
         HandleCommand, HandleHello, HandleEvent, HandleFlow, HandleEnd, chanVars, writerVars, peerVars
<1>2. events # <<>> /\ (events' = Rest \/ events' = Append(Rest, Closed))
  BY DEF QuietDispatch, InitServices, HandleClosed, HandleProgress, HandleInvalidToken,
         HandleCommand, HandleHello, HandleEvent, HandleFlow, HandleEnd, NextInput, NextIs, Shut
<1>3. QueueMove
  BY BesideMoves DEF Beside, Dispatch, QuietDispatch
<1>4. ~faulty => OpenCommandsRegistered'
  BY <1>1, <1>3, RegisteredBeside DEF TokensSound
<1>5. state' # "CLOSED" => state # "CLOSED"
  BY <1>3 DEF QueueMove
<1>6. NoReplyPosted
  BY <1>2 DEF NoReplyPosted
<1>. QED BY <1>1, <1>4, <1>5, <1>6, TokensQuiet

LEMMA TokensErrorOrClosed ==
    ASSUME TypeOK, LineOrder, ClosedOnce, TokensSound, HandleError \/ RunClosed
    PROVE  TokensSound'
<1>1. /\ events # <<>> /\ events' = Rest
      /\ UNCHANGED <<state, outQueue, isSent, isCanceled, sent, answered, faulty>>
  BY DEF HandleError, RunClosed, NextIs, chanVars, writerVars, peerVars
<1>2. state # "CLOSED" => UNCHANGED outTokens
  <2>1. CASE HandleError
    BY <2>1 DEF HandleError, chanVars
  <2>2. CASE RunClosed
    <3>1. events \in Seq(Evts) /\ Head(events) \in ToSet(events) /\ Head(events) \in Evts
      BY <1>1, ToSetTail DEF TypeOK
    <3>2. Head(events) = Closed
      BY <2>2, <3>1 DEF RunClosed, NextIs, Evts, Closed, Evt, Input
    <3>3. Times(events, Closed) > 0 /\ Times(events, Closed) \in Nat /\ closes \in Nat
      BY <3>1, <3>2, TimesPositive, TimesFinite DEF TypeOK
    <3>4. state = "CLOSED"
      BY <3>3 DEF ClosedOnce
    <3>. QED BY <3>4
  <2>. QED BY <2>1, <2>2
<1>3. NoReplyPosted
  BY <1>1 DEF NoReplyPosted
<1>4. ~faulty => OpenCommandsRegistered'
  BY <1>1, <1>2 DEF TokensSound, OpenCommandsRegistered
<1>. QED BY <1>1, <1>2, <1>3, <1>4, TokensQuiet

(* An answer takes the token of its command: of a correct peer it is the   *)
(* last reply to it, and the command is off the queue.                     *)
LEMMA TokensAnswer ==
    ASSUME TypeOK, LineOrder, TokensSound, HandleResult \/ HandleReject
    PROVE  TokensSound'
<1>. DEFINE c == Head(events).cmd
<1>1. /\ events # <<>> /\ c \in outTokens /\ outTokens' = outTokens \ {c}
      /\ events' = Rest \/ (events' = Append(Rest, Closed) /\ state' = "CLOSED")
      /\ Head(events).kind = "input" /\ Head(events).type \in {"R", "N"}
      /\ UNCHANGED <<isSent, isCanceled, sent, answered, faulty>>
      /\ state # "CLOSED"
  BY DEF HandleResult, HandleReject, NextInput, NextIs, Shut, writerVars, peerVars
<1>2. c \in Cmds /\ IsAnswer(Head(events), c) /\ events \in Seq(Evts)
  BY <1>1 DEF TypeOK, IsAnswer, IsReply, ReplyTypes
<1>. HIDE DEF c
<1>. SUFFICES ASSUME ~faulty
              PROVE  /\ AnswersLast(events)'
                     /\ (\A e \in ToSet(events) : ReplyKnown(e))'
                     /\ OpenCommandsRegistered'
  BY <1>1 DEF TokensSound
<1>3. QueueMove
  BY BesideMoves DEF Beside, Dispatch
<1>4. /\ AnswersLast(events')
      /\ \A x \in ToSet(events') : x \in ToSet(events) \/ NoReply(x)
  BY <1>1, NoReplyKeeps DEF TokensSound, NoReplyPosted
<1>5. c \in Transmitted /\ c \in answered
  <2>1. Head(events) \in ToSet(events)
    BY <1>1, <1>2, ToSetTail
  <2>. QED BY <1>2, <2>1 DEF TokensSound, ReplyKnown, IsAnswer
<1>6. (\A e \in ToSet(events) : ReplyKnown(e))'
  <2>1. Transmitted' = Transmitted
    BY <1>1 DEF Transmitted
  <2>2. ASSUME NEW e \in ToSet(events'), NEW d \in Cmds, IsReply(e, d)
        PROVE  /\ d \in Transmitted /\ (IsAnswer(e, d) => d \in answered)
               /\ state' # "CLOSED" => d \in outTokens'
    <3>1. e \in ToSet(events)
      BY <1>4, <2>2 DEF NoReply
    <3>2. d \in Transmitted /\ (IsAnswer(e, d) => d \in answered) /\ d \in outTokens
      BY <1>1, <2>2, <3>1 DEF TokensSound, ReplyKnown
    <3>3. ASSUME state' # "CLOSED" PROVE d # c
      <4>1. e \in ToSet(Tail(events))
        BY <1>1, <2>2, <3>3 DEF Rest
      <4>2. ~IsReply(e, c)
        BY <1>1, <1>2, <4>1, AnswersLastTail DEF TokensSound
      <4>. QED BY <2>2, <4>2
    <3>. QED BY <1>1, <3>2, <3>3
  <2>. QED BY <1>1, <2>1, <2>2 DEF ReplyKnown
<1>7. OpenCommandsRegistered'
  <2>1. \A m \in ToSet(outQueue') : m.type = "C" => m \in ToSet(outQueue)
    BY <1>3, QueueMoveOrder DEF LineOrder
  <2>2. \A d \in Cmds : Msg("C", d) \in ToSet(outQueue') => Msg("C", d) \in ToSet(outQueue)
    BY <2>1 DEF Msg
  <2>3. Msg("C", c) \notin ToSet(outQueue)
    BY <1>2, <1>5, WrittenIsGone
  <2>. QED BY <1>1, <1>5, <2>2, <2>3 DEF TokensSound, OpenCommandsRegistered
<1>8. AnswersLast(events)'
  BY <1>4 DEF AnswersLast
<1>. QED BY <1>6, <1>7, <1>8

(* A command is sent or cancelled; a result is sent; the channel is closed. *)
LEMMA TokensUser ==
    ASSUME IInv, LineOrder, TokensSound, User
    PROVE  TokensSound'
<1>0. TypeOK
  BY DEF IInv
<1>1. CASE Close \/ \E rc \in RCmds : SendResult(rc)
  <2>1. /\ UNCHANGED <<outTokens, isSent, isCanceled, sent, answered, faulty>>
        /\ events' = events \/ events' = Append(events, Closed)
    BY <1>1 DEF Close, Shut, SendResult, writerVars, peerVars
  <2>2. QueueMove
    BY <1>0, <1>1, BesideMoves DEF Beside
  <2>3. NoReplyPosted
    <3>1. Closed \in Evts /\ NoReply(Closed)
      BY DEF Closed, Evts, Evt, NoReply, IsReply
    <3>. QED BY <2>1, <3>1 DEF NoReplyPosted
  <2>4. ~faulty => OpenCommandsRegistered'
    BY <1>0, <2>1, <2>2, RegisteredBeside DEF TokensSound
  <2>5. state' # "CLOSED" => state # "CLOSED"
    BY <2>2 DEF QueueMove
  <2>. QED BY <1>0, <2>1, <2>3, <2>4, <2>5, TokensQuiet
<1>2. ASSUME NEW c \in Cmds, SendCommand(c)
      PROVE  TokensSound'
  <2>1. /\ UNCHANGED <<state, isSent, isCanceled, sent, answered, faulty>>
        /\ \/ /\ outTokens' = outTokens \cup {c} /\ events' = events
              /\ outQueue' = Append(outQueue, Msg("C", c))
           \/ /\ events' = Append(events, Evt("error", "none", c))
              /\ UNCHANGED <<outTokens, outQueue>>
    BY <1>2 DEF SendCommand, writerVars, peerVars
  <2>2. NoReplyPosted
    <3>1. Evt("error", "none", c) \in Evts /\ NoReply(Evt("error", "none", c))
      BY DEF Evts, Evt, NoReply, IsReply
    <3>. QED BY <2>1, <3>1 DEF NoReplyPosted
  <2>3. ~faulty => OpenCommandsRegistered'
    <3>1. CASE outTokens' = outTokens \cup {c} /\ outQueue' = Append(outQueue, Msg("C", c))
      <4>1. Msg("C", c) \in Msgs /\ outQueue \in Seq(Msgs)
        BY <1>0 DEF Msg, Msgs, MsgTypes, AllCmds, TypeOK
      <4>2. ToSet(outQueue') = ToSet(outQueue) \cup {Msg("C", c)}
        BY <3>1, <4>1, ToSetAppend
      <4>3. \A d \in Cmds : Msg("C", d) = Msg("C", c) => d = c
        BY DEF Msg
      <4>. QED BY <2>1, <3>1, <4>2, <4>3 DEF TokensSound, OpenCommandsRegistered
    <3>2. CASE UNCHANGED <<outTokens, outQueue>>
      BY <2>1, <3>2 DEF TokensSound, OpenCommandsRegistered
    <3>. QED BY <2>1, <3>1, <3>2
  <2>. QED BY <1>0, <2>1, <2>2, <2>3, TokensQuiet
<1>3. ASSUME NEW c \in Cmds, CancelCommand(c)
      PROVE  TokensSound'
  <2>1. /\ ~isSent[c] /\ outTokens' = outTokens \ {c}
        /\ isCanceled' = [isCanceled EXCEPT ![c] = TRUE]
        /\ UNCHANGED <<state, outQueue, isSent, sent, answered, faulty, events>>
    BY <1>3 DEF CancelCommand, writerVars, peerVars
  <2>2. isCanceled'[c] /\ \A d \in Cmds \ {c} : isCanceled'[d] = isCanceled[d]
    BY <1>0, <2>1 DEF TypeOK
  <2>3. c \notin Transmitted
    <3>1. ASSUME c \in Transmitted PROVE FALSE
      <4>1. PICK m \in ToSet(sent) : m.type = "C" /\ m.cmd = c
        BY <3>1 DEF Transmitted
      <4>2. m \in Msgs
        BY <1>0, <4>1, SeqHolds DEF TypeOK
      <4>3. m = Msg("C", c)
        BY <4>1, <4>2 DEF Msgs, Msg
      <4>. QED BY <2>1, <4>1, <4>3 DEF IInv, SentIsMarked
    <3>. QED BY <3>1
  <2>4. Transmitted' = Transmitted
    BY <2>1 DEF Transmitted
  <2>5. ~faulty => (\A e \in ToSet(events) : ReplyKnown(e))'
    BY <2>1, <2>3, <2>4 DEF TokensSound, ReplyKnown
  <2>6. ~faulty => OpenCommandsRegistered'
    BY <2>1, <2>2 DEF TokensSound, OpenCommandsRegistered
  <2>7. ~faulty => AnswersLast(events)'
    BY <2>1 DEF TokensSound, AnswersLast
  <2>. QED BY <2>1, <2>5, <2>6, <2>7 DEF TokensSound
<1>4. ASSUME NEW c \in Cmds, CancelAnswered(c)
      PROVE  TokensSound'
  <2>1. /\ isCanceled' = [isCanceled EXCEPT ![c] = TRUE]
        /\ UNCHANGED <<state, outQueue, outTokens, isSent, sent, answered, faulty, events>>
    BY <1>4 DEF CancelAnswered, writerVars, peerVars
  <2>2. \A d \in Cmds : isCanceled[d] => isCanceled'[d]
    BY <1>0, <2>1 DEF TypeOK
  <2>3. ~faulty => OpenCommandsRegistered'
    BY <2>1, <2>2 DEF TokensSound, OpenCommandsRegistered
  <2>4. NoReplyPosted
    BY <2>1 DEF NoReplyPosted
  <2>. QED BY <1>0, <2>1, <2>3, <2>4, TokensQuiet
<1>. QED BY <1>1, <1>2, <1>3, <1>4 DEF User

(* The writer marks a command when it takes it off the queue.              *)
LEMMA TokensWriter ==
    ASSUME TypeOK, MarkPlace, TokensSound, Writer
    PROVE  TokensSound'
<1>1. UNCHANGED <<state, outTokens, isCanceled, answered, faulty>>
  BY DEF Writer, WriterEnd, WriterSkip, WriterTake, WriterWrite, WriterFail, chanVars, peerVars
<1>2. NoReplyPosted
  <2>1. Terminate \in Evts /\ NoReply(Terminate)
    BY DEF Terminate, Evts, Evt, NoReply, IsReply
  <2>. QED BY <2>1, WriterPosts DEF NoReplyPosted
<1>3. ToSet(sent) \subseteq ToSet(sent')
  <2>0. sent \in Seq(Msgs) /\ Eos \in Msgs
    BY DEF TypeOK, Eos, Msg, Msgs, MsgTypes, AllCmds
  <2>1. CASE WriterEnd
    <3>1. ToSet(Append(sent, Eos)) = ToSet(sent) \cup {Eos}
      BY <2>0, ToSetAppend
    <3>. QED BY <2>1, <3>1 DEF WriterEnd
  <2>2. CASE WriterSkip \/ WriterTake
    BY <2>2 DEF WriterSkip, WriterTake
  <2>3. CASE WriterWrite \/ WriterFail
    <3>1. writing # <<>> /\ sent' \in {sent, sent \o writing} /\ writing \in Seq(Msgs)
      BY <2>3 DEF WriterWrite, WriterFail, TypeOK
    <3>2. ToSet(sent \o writing) = ToSet(sent) \cup ToSet(writing)
      BY <2>0, <3>1, ToSetConcat
    <3>. QED BY <3>1, <3>2
  <2>. QED BY <2>1, <2>2, <2>3 DEF Writer
<1>4. ~faulty => OpenCommandsRegistered'
  <2>1. CASE WriterEnd \/ WriterSkip \/ WriterTake
    <3>1. /\ outQueue # <<>> /\ outQueue' = Tail(outQueue)
          /\ \/ UNCHANGED isSent
             \/ /\ ~(Popped.type = "C" /\ isCanceled[Popped.cmd])
                /\ isSent' = [c \in Cmds |-> isSent[c] \/ Popped = Msg("C", c)]
      BY <2>1 DEF WriterEnd, WriterSkip, WriterTake
    <3>2. Popped \in ToSet(outQueue) /\ ToSet(outQueue') \subseteq ToSet(outQueue)
      BY <3>1, ToSetTail DEF TypeOK, Popped
    <3>3. ASSUME NEW c \in Cmds, isSent'[c], ~isSent[c]
          PROVE  Msg("C", c) \in ToSet(outQueue) /\ ~isCanceled[c]
      <4>1. Popped = Msg("C", c) /\ ~(Popped.type = "C" /\ isCanceled[Popped.cmd])
        BY <3>1, <3>3
      <4>2. Msg("C", c).type = "C" /\ Msg("C", c).cmd = c
        BY DEF Msg
      <4>. QED BY <3>2, <4>1, <4>2
    <3>. QED BY <1>1, <3>2, <3>3 DEF TokensSound, OpenCommandsRegistered
  <2>2. CASE WriterWrite \/ WriterFail
    BY <1>1, <2>2 DEF WriterWrite, WriterFail, chanVars, TokensSound, OpenCommandsRegistered
  <2>. QED BY <2>1, <2>2 DEF Writer
<1>. QED BY <1>1, <1>2, <1>3, <1>4, TokensQuiet

(* The peer replies to a command it was sent and has not answered.         *)
LEMMA TokensReply ==
    ASSUME IInv, TokensSound, NEW c \in Cmds, PeerAnswer(c) \/ PeerProgress(c)
    PROVE  TokensSound'
<1>1. PICK t \in ReplyTypes :
        /\ events' = Append(events, Input(t, c))
        /\ c \in Transmitted \ answered
        /\ answered' = IF t = "P" THEN answered ELSE answered \cup {c}
        /\ UNCHANGED <<state, outQueue, outTokens, isSent, isCanceled, sent, faulty>>
  <2>1. CASE PeerAnswer(c)
    BY <2>1 DEF PeerAnswer, Deliver, ReplyTypes, chanVars, writerVars
  <2>2. CASE PeerProgress(c)
    BY <2>2 DEF PeerProgress, DeliverExtra, Deliver, ReplyTypes, chanVars, writerVars
  <2>. QED BY <2>1, <2>2
<1>. DEFINE e == Input(t, c)
<1>2. /\ e \in Evts
      /\ \A d \in Cmds : IsReply(e, d) => d = c
      /\ IsAnswer(e, c) => c \in answered'
  BY <1>1 DEF Evts, Input, Evt, IsReply, IsAnswer, ReplyTypes
<1>. SUFFICES ASSUME ~faulty
              PROVE  /\ AnswersLast(events)'
                     /\ (\A x \in ToSet(events) : ReplyKnown(x))'
                     /\ OpenCommandsRegistered'
  BY <1>1 DEF TokensSound
<1>3. events \in Seq(Evts) /\ events' = Append(events, e)
  BY <1>1 DEF IInv, TypeOK
<1>. HIDE DEF e
<1>4. \A x \in ToSet(events), d \in Cmds : IsAnswer(x, d) => d \in answered
  BY DEF TokensSound, ReplyKnown, IsAnswer
<1>5. AnswersLast(events')
  <2>1. \A x \in ToSet(events), d \in Cmds : IsAnswer(x, d) => ~IsReply(e, d)
    BY <1>1, <1>2, <1>4
  <2>. QED BY <1>2, <1>3, <2>1, AnswersLastAppend DEF TokensSound
<1>6. state # "CLOSED" => c \in outTokens
  <2>1. PICK m \in ToSet(sent) : m.type = "C" /\ m.cmd = c
    BY <1>1 DEF Transmitted
  <2>2. m \in Msgs
    BY <2>1, SeqHolds DEF IInv, TypeOK
  <2>3. m = Msg("C", c)
    BY <2>1, <2>2 DEF Msgs, Msg
  <2>4. isSent[c]
    BY <2>1, <2>3 DEF IInv, SentIsMarked
  <2>. QED BY <1>1, <2>4 DEF TokensSound, OpenCommandsRegistered
<1>7. (\A x \in ToSet(events) : ReplyKnown(x))'
  <2>1. ToSet(events') = ToSet(events) \cup {e} /\ Transmitted' = Transmitted
    BY <1>1, <1>2, <1>3, ToSetAppend DEF Transmitted
  <2>2. ReplyKnown(e)'
    BY <1>1, <1>2, <1>6, <2>1 DEF ReplyKnown
  <2>3. \A x \in ToSet(events) : ReplyKnown(x)'
    BY <1>1, <2>1 DEF TokensSound, ReplyKnown
  <2>. QED BY <2>1, <2>2, <2>3
<1>8. OpenCommandsRegistered'
  BY <1>1 DEF TokensSound, OpenCommandsRegistered
<1>9. AnswersLast(events)'
  BY <1>5 DEF AnswersLast
<1>. QED BY <1>7, <1>8, <1>9

LEMMA TokensPeer ==
    ASSUME IInv, TokensSound, Peer
    PROVE  TokensSound'
<1>1. CASE PeerFault
  BY <1>1 DEF PeerFault, TokensSound
<1>2. CASE \E c \in Cmds : PeerAnswer(c) \/ PeerProgress(c)
  BY <1>2, TokensReply
<1>3. CASE PeerHello \/ PeerEvent \/ PeerFlow \/ ReaderEnd \/ \E rc \in RCmds : PeerCommand(rc)
  <2>1. UNCHANGED <<state, outQueue, outTokens, isSent, isCanceled, sent, answered, faulty>>
    BY <1>3 DEF PeerHello, PeerEvent, PeerFlow, ReaderEnd, PeerCommand, chanVars, writerVars
  <2>2. NoReplyPosted
    <3>1. /\ \A t \in {"Hello", "E", "F"} : Input(t, NoCmd) \in Evts /\ NoReply(Input(t, NoCmd))
          /\ \A rc \in RCmds : Input("C", rc) \in Evts /\ NoReply(Input("C", rc))
          /\ Terminate \in Evts /\ NoReply(Terminate)
      BY DEF Evts, Input, Terminate, Evt, NoReply, IsReply, ReplyTypes
    <3>2. \/ \E t \in {"Hello", "E", "F"} : events' = Append(events, Input(t, NoCmd))
          \/ \E rc \in RCmds : events' = Append(events, Input("C", rc))
          \/ events' = Append(events, Terminate)
      BY <1>3 DEF PeerHello, PeerEvent, PeerFlow, ReaderEnd, PeerCommand, DeliverExtra, Deliver
    <3>. QED BY <3>1, <3>2 DEF NoReplyPosted
  <2>3. ~faulty => OpenCommandsRegistered'
    BY <2>1 DEF TokensSound, OpenCommandsRegistered
  <2>. QED BY <2>1, <2>2, <2>3, TokensQuiet DEF IInv
<1>. QED BY <1>1, <1>2, <1>3 DEF Peer

LEMMA TokensKeep ==
    ASSUME IInv, ClosedOnce, MarkPlace, LineOrder, TokensSound, [Next]_vars
    PROVE  TokensSound'
<1>0. TypeOK
  BY DEF IInv
<1>1. CASE Dispatch
  BY <1>0, <1>1, TokensQuietDispatch, TokensErrorOrClosed, TokensAnswer DEF Dispatch, QuietDispatch
<1>2. CASE Writer
  BY <1>0, <1>2, TokensWriter
<1>3. CASE User
  BY <1>3, TokensUser
<1>4. CASE Peer
  BY <1>4, TokensPeer
<1>5. CASE UNCHANGED vars
  BY <1>5 DEF vars, chanVars, writerVars, peerVars, TokensSound, AnswersLast, ReplyKnown,
              Transmitted, OpenCommandsRegistered
<1>. QED BY <1>1, <1>2, <1>3, <1>4, <1>5 DEF Next

-----------------------------------------------------------------------------
LEMMA InitOrderInv == Init => OrderInv
<1>. SUFFICES ASSUME Init PROVE OrderInv
  OBVIOUS
<1>. DEFINE e == Evt("init", "none", NoCmd)
<1>1. e \in Evts /\ e # Closed /\ NoReply(e)
  BY DEF Evts, Evt, Closed, NoReply, IsReply
<1>2. /\ state = "OPENING" /\ outQueue = <<>> /\ writing = <<>> /\ sent = <<>> /\ issued = <<>>
      /\ closes = 0 /\ events = <<e>> /\ isSent = [c \in Cmds |-> FALSE]
  BY DEF Init
<1>. HIDE DEF e
<1>3. ToSet(<<>>) = {} /\ ToSet(<<e>>) = {e}
  BY DEF ToSet
<1>4. ClosedOnce
  <2>. DEFINE s == <<>>
  <2>0. Append(s, e) = <<e>> /\ Times(s, Closed) = 0
    BY TimesEmpty
  <2>s. s \in Seq(Evts)
    OBVIOUS
  <2>. HIDE DEF s
  <2>1. Times(Append(s, e), Closed) = Times(s, Closed) + (IF e = Closed THEN 1 ELSE 0)
    BY ONLY <1>1, <2>s, TimesAppend
  <2>2. Times(<<e>>, Closed) = 0
    BY <1>1, <2>0, <2>1
  <2>3. Times(events, Closed) = 0
    BY <1>2, <2>2
  <2>. QED BY <1>2, <2>3 DEF ClosedOnce
<1>5. MarkPlace /\ MarkLast
  BY <1>2, <1>3 DEF MarkPlace, MarkLast
<1>6. LineOrder
  BY <1>2, <1>3 DEF LineOrder, InOrder, Ahead, Distinct
<1>7. TokensSound
  <2>1. AnswersLast(events)
    <3>1. DOMAIN <<e>> = {1}
      OBVIOUS
    <3>. QED BY <1>2, <3>1 DEF AnswersLast
  <2>2. \A x \in ToSet(events) : ReplyKnown(x)
    BY <1>1, <1>2, <1>3 DEF ReplyKnown, NoReply
  <2>3. OpenCommandsRegistered
    BY <1>2, <1>3 DEF OpenCommandsRegistered
  <2>. QED BY <2>1, <2>2, <2>3 DEF TokensSound
<1>. QED BY <1>4, <1>5, <1>6, <1>7 DEF OrderInv

LEMMA NextOrderInv == IInv /\ OrderInv /\ [Next]_vars => OrderInv'
<1>. SUFFICES ASSUME IInv, OrderInv, [Next]_vars PROVE OrderInv'
  OBVIOUS
<1>0. TypeOK
  BY DEF IInv
<1>1. ClosedOnce'
  BY <1>0, ClosedOnceKeeps DEF OrderInv
<1>2. MarkPlace' /\ MarkLast'
  BY <1>0, MarkKeeps DEF OrderInv
<1>3. LineOrder'
  BY <1>0, OrderKeeps DEF OrderInv
<1>4. TokensSound'
  BY TokensKeep DEF OrderInv
<1>. QED BY <1>1, <1>2, <1>3, <1>4 DEF OrderInv

LEMMA OrderInvariance == Spec => [](IInv /\ OrderInv)
<1>1. Init => IInv /\ OrderInv
  BY InitIInv, InitOrderInv
<1>2. (IInv /\ OrderInv) /\ [Next]_vars => (IInv /\ OrderInv)'
  BY NextIInv, NextOrderInv
<1>. QED BY <1>1, <1>2, PTL DEF Spec

(* However many of the user, the handlers, the reader and the writer end   *)
(* the channel, the notification is posted once, and after it has run no   *)
(* command is left in the token table (close, terminate, _close).          *)
THEOREM TeardownIsUnique == Spec => []TeardownOnce
<1>1. IInv /\ OrderInv => TeardownOnce
  <2>. SUFFICES ASSUME IInv, OrderInv PROVE TeardownOnce
    OBVIOUS
  <2>1. Cardinality({i \in DOMAIN events : events[i] = Closed}) = Times(events, Closed)
    BY DEF Times
  <2>. QED BY <2>1 DEF OrderInv, ClosedOnce, TeardownOnce
<1>. QED BY <1>1, OrderInvariance, PTL

(* Nothing follows the end-of-stream mark on the wire, and the messages    *)
(* that were queued when the channel was closed are dropped, although the  *)
(* writer may be in the middle of one (__sendEndOfStream, __write_output). *)
THEOREM MarkEndsTheStream == Spec => []EosIsLast
<1>1. OrderInv => EosIsLast
  <2>. SUFFICES ASSUME OrderInv PROVE EosIsLast
    OBVIOUS
  <2>1. state = "CLOSED" => Len(outQueue) <= 1 /\ \A i \in DOMAIN outQueue : outQueue[i] = Eos
    <3>1. CASE outQueue = <<>>
      BY <3>1
    <3>2. CASE outQueue = <<Eos>>
      <4>1. Len(outQueue) = 1 /\ outQueue[1] = Eos /\ DOMAIN outQueue = {1}
        BY <3>2
      <4>. QED BY <4>1
    <3>. QED BY <3>1, <3>2 DEF OrderInv, MarkPlace
  <2>. QED BY <2>1 DEF OrderInv, MarkLast, EosIsLast
<1>. QED BY <1>1, OrderInvariance, PTL

(* Commands are written in the order in which they were issued, whatever   *)
(* is cancelled, flow controlled or answered between (sendCommand,         *)
(* __sendCongestionLevel, __write_output).                                 *)
THEOREM CommandsKeepTheirOrder == Spec => []TransmitOrder
<1>1. IInv /\ OrderInv => TransmitOrder
  <2>. SUFFICES ASSUME IInv, OrderInv,
                       NEW i \in DOMAIN sent, NEW j \in DOMAIN sent, i < j,
                       sent[i].type = "C", sent[j].type = "C",
                       NEW a \in DOMAIN issued, NEW b \in DOMAIN issued,
                       issued[a] = sent[i].cmd, issued[b] = sent[j].cmd
                PROVE  a < b
    BY DEF TransmitOrder
  <2>1. Before(sent[i].cmd, sent[j].cmd)
    BY DEF OrderInv, LineOrder, InOrder, Ordered
  <2>2. PICK p, q \in DOMAIN issued : p < q /\ issued[p] = sent[i].cmd /\ issued[q] = sent[j].cmd
    BY <2>1 DEF Before
  <2>3. DOMAIN issued = 1 .. Len(issued)
    BY LenProperties DEF IInv, TypeOK
  <2>4. p = a /\ q = b
    BY <2>2, <2>3 DEF OrderInv, LineOrder, Distinct
  <2>. QED BY <2>2, <2>4
<1>. QED BY <1>1, OrderInvariance, PTL

(* With a peer that keeps to the protocol no reply meets an open channel   *)
(* that has no token for it: a command is written only if its cancel lost, *)
(* and its token stays until its one answer (__handleInput, is_sent).      *)
THEOREM CorrectPeersAreUnderstood == Spec => []NoInvalidToken
<1>1. IInv /\ OrderInv => NoInvalidToken
  <2>. SUFFICES ASSUME IInv, OrderInv, ~faulty, NextIs("input"), state # "CLOSED",
                       Head(events).type \in {"P", "R", "N"}
                PROVE  Head(events).cmd \in outTokens
    BY DEF NoInvalidToken
  <2>1. events # <<>> /\ events \in Seq(Evts) /\ Head(events).kind = "input"
    BY DEF NextIs, IInv, TypeOK
  <2>2. Head(events) \in Evts /\ Head(events) \in ToSet(events)
    BY <2>1, ToSetTail
  <2>3. Head(events).cmd \in Cmds
    BY <2>1, <2>2 DEF Evts, Input, Evt
  <2>4. IsReply(Head(events), Head(events).cmd)
    BY <2>1 DEF IsReply, ReplyTypes
  <2>. QED BY <2>2, <2>3, <2>4 DEF OrderInv, TokensSound, ReplyKnown
<1>. QED BY <1>1, OrderInvariance, PTL
=============================================================================

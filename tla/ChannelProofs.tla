---------------------------- MODULE ChannelProofs ----------------------------
(***************************************************************************)
(* Proofs about a TCF channel, for any sets of commands and any number of  *)
(* messages.  The invariant follows a command through the places where its *)
(* completion may come from: the token table, an error event that is still *)
(* posted, or nowhere once it is completed or cancelled.                   *)
(***************************************************************************)
EXTENDS Channel, SequenceLemmas

ErrorEvt(c) == Evt("error", "none", c)

(* The commands whose failure to be sent is still posted.                  *)
Failing(s) == {c \in Cmds : ErrorEvt(c) \in ToSet(s)}

(* It is posted once.                                                      *)
OnceFailing(s) ==
    \A i, j \in DOMAIN s : s[i].kind = "error" /\ s[i] = s[j] => i = j

(* A command that still waits for its completion has had none.             *)
Waiting(c) == calls[c] = 0 /\ c \notin withdrawn /\ c \in ToSet(issued)

TokensWait == \A c \in outTokens : Waiting(c) /\ c \notin Failing(events)

FailingWait == OnceFailing(events) /\ \A c \in Failing(events) : Waiting(c)

SettledOnce ==
    \A c \in Cmds :
        /\ calls[c] <= 1
        /\ c \in withdrawn => calls[c] = 0
        /\ isCanceled[c] => ~isSent[c]
        /\ calls[c] > 0 \/ isCanceled[c] \/ c \in withdrawn => c \in ToSet(issued)

SentIsMarked ==
    \A c \in Cmds : Msg("C", c) \in ToSet(sent) \cup ToSet(writing) => isSent[c]

IInv == TypeOK /\ TokensWait /\ FailingWait /\ SettledOnce /\ SentIsMarked

-----------------------------------------------------------------------------
(* Events: what posting to and taking from the dispatcher's queue keeps.   *)
LEMMA PostOther ==
    ASSUME NEW s \in Seq(Evts), NEW e \in Evts, e.kind # "error", OnceFailing(s)
    PROVE  /\ Append(s, e) \in Seq(Evts)
           /\ OnceFailing(Append(s, e))
           /\ Failing(Append(s, e)) = Failing(s)
<1>1. Append(s, e) \in Seq(Evts) /\ ToSet(Append(s, e)) = ToSet(s) \cup {e}
  BY ToSetAppend
<1>2. /\ DOMAIN s = 1 .. Len(s) /\ Len(s) \in Nat
      /\ DOMAIN Append(s, e) = 1 .. Len(s) + 1
      /\ \A i \in 1 .. Len(s) : Append(s, e)[i] = s[i]
      /\ Append(s, e)[Len(s) + 1] = e
  BY LenProperties, AppendProperties
<1>3. OnceFailing(Append(s, e))
  BY <1>2 DEF OnceFailing
<1>4. \A c \in Cmds : ErrorEvt(c) # e
  BY DEF ErrorEvt, Evt
<1>. QED BY <1>1, <1>3, <1>4 DEF Failing

LEMMA PostError ==
    ASSUME NEW s \in Seq(Evts), NEW c \in Cmds, c \notin Failing(s), OnceFailing(s)
    PROVE  /\ Append(s, ErrorEvt(c)) \in Seq(Evts)
           /\ OnceFailing(Append(s, ErrorEvt(c)))
           /\ Failing(Append(s, ErrorEvt(c))) = Failing(s) \cup {c}
<1>. DEFINE e == ErrorEvt(c)
<1>0. e \in Evts
  BY DEF ErrorEvt, Evts
<1>1. Append(s, e) \in Seq(Evts) /\ ToSet(Append(s, e)) = ToSet(s) \cup {e}
  BY <1>0, ToSetAppend
<1>2. /\ DOMAIN s = 1 .. Len(s) /\ Len(s) \in Nat
      /\ DOMAIN Append(s, e) = 1 .. Len(s) + 1
      /\ \A i \in 1 .. Len(s) : Append(s, e)[i] = s[i]
      /\ Append(s, e)[Len(s) + 1] = e
  BY <1>0, LenProperties, AppendProperties
<1>3. \A i \in 1 .. Len(s) : s[i] # e
  BY <1>2 DEF Failing, ToSet
<1>4. OnceFailing(Append(s, e))
  <2>. HIDE DEF e
  <2>. QED BY <1>2, <1>3 DEF OnceFailing
<1>5. \A d \in Cmds : ErrorEvt(d) = e => d = c
  BY DEF ErrorEvt, Evt
<1>. QED BY <1>1, <1>4, <1>5 DEF Failing

LEMMA TakeEvent ==
    ASSUME NEW s \in Seq(Evts), s # <<>>, OnceFailing(s)
    PROVE  /\ Head(s) \in Evts /\ Tail(s) \in Seq(Evts)
           /\ OnceFailing(Tail(s))
           /\ Failing(Tail(s)) \subseteq Failing(s)
           /\ Head(s).kind = "error" =>
                /\ Head(s).cmd \in Failing(s)
                /\ Head(s).cmd \notin Failing(Tail(s))
<1>1. /\ Head(s) \in Evts /\ Tail(s) \in Seq(Evts)
      /\ ToSet(s) = {Head(s)} \cup ToSet(Tail(s))
  BY ToSetTail
<1>2. /\ Len(s) \in Nat \ {0} /\ DOMAIN s = 1 .. Len(s)
      /\ DOMAIN Tail(s) = 1 .. Len(s) - 1
      /\ Head(s) = s[1]
      /\ \A i \in 1 .. Len(s) - 1 : Tail(s)[i] = s[i + 1]
  BY <1>1, LenProperties, HeadTailProperties, EmptySeq
<1>3. OnceFailing(Tail(s))
  <2>. SUFFICES ASSUME NEW i \in 1 .. Len(s) - 1, NEW j \in 1 .. Len(s) - 1,
                       Tail(s)[i].kind = "error", Tail(s)[i] = Tail(s)[j]
                PROVE  i = j
    BY <1>2 DEF OnceFailing
  <2>1. i + 1 \in DOMAIN s /\ j + 1 \in DOMAIN s /\ s[i + 1] = s[j + 1] /\ s[i + 1].kind = "error"
    BY <1>2
  <2>. QED BY <2>1, <1>2 DEF OnceFailing
<1>4. Failing(Tail(s)) \subseteq Failing(s)
  BY <1>1 DEF Failing
<1>5. ASSUME Head(s).kind = "error"
      PROVE  Head(s).cmd \in Failing(s) /\ Head(s).cmd \notin Failing(Tail(s))
  <2>1. Head(s) = ErrorEvt(Head(s).cmd) /\ Head(s).cmd \in Cmds
    BY <1>1, <1>5 DEF Evts, ErrorEvt, Evt, Input
  <2>2. Head(s) \notin ToSet(Tail(s))
    <3>. SUFFICES ASSUME NEW i \in 1 .. Len(s) - 1, Tail(s)[i] = Head(s) PROVE FALSE
      BY <1>2 DEF ToSet
    <3>1. i + 1 \in DOMAIN s /\ 1 \in DOMAIN s /\ s[i + 1] = s[1] /\ s[1].kind = "error"
      BY <1>2, <1>5
    <3>. QED BY <3>1, <1>2 DEF OnceFailing
  <2>. QED BY <1>1, <2>1, <2>2 DEF Failing
<1>. QED BY <1>1, <1>3, <1>4, <1>5

(* How a step that fails no command moves the posted events.               *)
Delivered == \E e \in Evts : e.kind # "error" /\ events' = Append(events, e)

Taken == events # <<>> /\ (events' = Rest \/ events' = Append(Rest, Closed))

EventMove == events' = events \/ Delivered \/ Taken

LEMMA EventMoveKeeps ==
    ASSUME events \in Seq(Evts), OnceFailing(events), EventMove
    PROVE  /\ events' \in Seq(Evts)
           /\ OnceFailing(events')
           /\ Failing(events') \subseteq Failing(events)
<1>1. CASE events' = events
  BY <1>1
<1>2. CASE Delivered
  BY <1>2, PostOther DEF Delivered
<1>3. CASE Taken
  <2>1. Rest \in Seq(Evts) /\ OnceFailing(Rest) /\ Failing(Rest) \subseteq Failing(events)
    BY <1>3, TakeEvent DEF Taken, Rest
  <2>2. Closed \in Evts /\ Closed.kind # "error"
    BY DEF Closed, Evts, Evt
  <2>. QED BY <1>3, <2>1, <2>2, PostOther DEF Taken
<1>. QED BY <1>1, <1>2, <1>3 DEF EventMove

(* Closing the channel after an event was taken, or by the user.           *)
LEMMA ShutKeeps ==
    ASSUME TypeOK, NEW later, Shut(later)
    PROVE  /\ state' \in {"OPENING", "OPEN", "CLOSED"}
           /\ outQueue' \in Seq(Msgs)
           /\ events' = later \/ events' = Append(later, Closed)
<1>1. <<Eos>> \in Seq(Msgs)
  BY DEF Eos, Msg, Msgs, MsgTypes, AllCmds
<1>. QED BY <1>1 DEF Shut, TypeOK

LEMMA ShutMoves ==
    ASSUME TypeOK, events # <<>>, Shut(Rest)
    PROVE  state' \in {"OPENING", "OPEN", "CLOSED"} /\ outQueue' \in Seq(Msgs) /\ EventMove
  BY ShutKeeps DEF EventMove, Taken

LEMMA CongestionKeeps ==
    ASSUME TypeOK, SendCongestionLevel
    PROVE  outQueue' \in Seq(Msgs)
<1>1. <<Msg("F", NoCmd)>> \in Seq(Msgs)
  BY DEF Msg, Msgs, MsgTypes, AllCmds
<1>2. outQueue \in Seq(Msgs)
  BY DEF TypeOK
<1>3. <<Msg("F", NoCmd)>> \o outQueue \in Seq(Msgs)
  BY ONLY <1>1, <1>2, ConcatProperties
<1>. QED BY <1>2, <1>3 DEF SendCongestionLevel

LEMMA QueueAppend ==
    ASSUME TypeOK, NEW m \in Msgs
    PROVE  Append(outQueue, m) \in Seq(Msgs)
  BY AppendProperties DEF TypeOK

(* The peer's steps post one input.                                        *)
LEMMA DeliverMoves ==
    ASSUME NEW t, NEW c, Deliver(t, c), Input(t, c) \in Evts
    PROVE  EventMove
<1>1. Input(t, c).kind # "error"
  BY DEF Input, Evt
<1>. QED BY <1>1 DEF Deliver, EventMove, Delivered

-----------------------------------------------------------------------------
(* A step that settles, issues and transmits no command.                   *)
LEMMA QuietKeeps ==
    ASSUME IInv, TypeOK', EventMove,
           UNCHANGED <<outTokens, isSent, isCanceled, issued, calls, withdrawn, sent, writing>>
    PROVE  IInv'
<1>1. OnceFailing(events') /\ Failing(events') \subseteq Failing(events)
  BY EventMoveKeeps DEF IInv, TypeOK, FailingWait
<1>2. TokensWait' /\ FailingWait'
  BY <1>1 DEF IInv, TokensWait, FailingWait, Waiting
<1>3. SettledOnce' /\ SentIsMarked'
  BY DEF IInv, SettledOnce, SentIsMarked
<1>. QED BY <1>2, <1>3 DEF IInv

(* Init establishes the invariant.                                         *)
LEMMA InitIInv == Init => IInv
<1>. SUFFICES ASSUME Init PROVE IInv
  OBVIOUS
<1>. DEFINE e == Evt("init", "none", NoCmd)
<1>1. e \in Evts /\ e.kind # "error" /\ events = <<e>>
  BY DEF Init, Evts, Evt
<1>. HIDE DEF e
<1>2. events \in Seq(Evts) /\ DOMAIN events = {1} /\ events[1] = e
  <2>1. events \in Seq(Evts) /\ Len(events) = 1 /\ events[1] = e
    BY ONLY <1>1
  <2>2. DOMAIN events = 1 .. 1
    BY ONLY <2>1, LenProperties
  <2>. QED BY <2>1, <2>2
<1>3. OnceFailing(events) /\ Failing(events) = {}
  BY <1>1, <1>2 DEF e, OnceFailing, Failing, ToSet, ErrorEvt, Evt
<1>4. TypeOK
  <2>1. /\ isSent \in [Cmds -> BOOLEAN] /\ isCanceled \in [Cmds -> BOOLEAN]
        /\ calls \in [Cmds -> Nat]
    BY DEF Init
  <2>2. /\ outQueue \in Seq(Msgs) /\ sent \in Seq(Msgs) /\ writing \in Seq(Msgs)
        /\ issued \in Seq(Cmds)
    BY EmptySeq DEF Init
  <2>. QED BY <1>2, <2>1, <2>2 DEF Init, TypeOK
<1>5. ToSet(<<>>) = {}
  BY DEF ToSet
<1>. QED BY <1>3, <1>4, <1>5 DEF Init, IInv, TokensWait, FailingWait, SettledOnce, SentIsMarked

(* What the dispatch thread finds when it takes an event.                  *)
LEMMA TakenEvent ==
    ASSUME IInv, events # <<>>
    PROVE  /\ Head(events) \in Evts
           /\ Rest \in Seq(Evts)
           /\ NextInput("C") => Head(events).cmd \in RCmds
           /\ events' = Rest => EventMove
<1>1. Head(events) \in Evts /\ Rest \in Seq(Evts)
  BY TakeEvent DEF IInv, TypeOK, FailingWait, Rest
<1>2. NextInput("C") => Head(events).cmd \in RCmds
  BY <1>1 DEF NextInput, NextIs, Evts, Input, Evt
<1>. QED BY <1>1, <1>2 DEF EventMove, Taken

(* The steps of the dispatch thread that settle no command.                *)
QuietDispatch ==
    \/ InitServices \/ HandleClosed \/ HandleProgress \/ HandleInvalidToken
    \/ HandleCommand \/ HandleHello \/ HandleEvent \/ HandleFlow \/ HandleEnd

LEMMA QuietDispatchKeeps == IInv /\ QuietDispatch => IInv'
<1>. SUFFICES ASSUME IInv, QuietDispatch PROVE IInv'
  OBVIOUS
<1>. USE DEF IInv
<1>0. TypeOK /\ events # <<>>
  BY DEF QuietDispatch, InitServices, HandleClosed, HandleProgress, HandleInvalidToken,
         HandleCommand, HandleHello, HandleEvent, HandleFlow, HandleEnd, NextInput, NextIs
<1>m. EventMove => events' \in Seq(Evts)
  BY <1>0, EventMoveKeeps DEF TypeOK, FailingWait
<1>1. CASE InitServices
  <2>1. Msg("Hello", NoCmd) \in Msgs
    BY DEF Msg, Msgs, MsgTypes, AllCmds
  <2>2. outQueue' \in Seq(Msgs)
    BY <1>0, <1>1, <2>1, QueueAppend DEF InitServices, TypeOK
  <2>3. EventMove
    BY <1>0, <1>1, TakenEvent DEF InitServices
  <2>4. TypeOK'
    BY <1>0, <1>1, <1>m, <2>2, <2>3
       DEF InitServices, TypeOK, cmdVars, writerVars, noticeVars, peerVars
  <2>. QED BY <1>1, <2>3, <2>4, QuietKeeps DEF InitServices, cmdVars, writerVars
<1>2. CASE HandleClosed
  <2>1. EventMove
    BY <1>0, <1>2, TakenEvent DEF HandleClosed
  <2>2. TypeOK'
    BY <1>0, <1>2, <1>m, <2>1
       DEF HandleClosed, TypeOK, chanVars, cmdVars, writerVars, noticeVars, peerVars
  <2>. QED BY <1>2, <2>1, <2>2, QuietKeeps DEF HandleClosed, chanVars, cmdVars, writerVars
<1>3. CASE HandleProgress \/ HandleEvent
  <2>1. /\ state' \in {"OPENING", "OPEN", "CLOSED"} /\ outQueue' \in Seq(Msgs) /\ EventMove
    <3>1. \/ SendCongestionLevel /\ events' = Rest /\ UNCHANGED state
          \/ Shut(Rest)
      BY <1>3 DEF HandleProgress, HandleEvent
    <3>. QED BY <1>0, <3>1, ShutMoves, CongestionKeeps, TakenEvent DEF TypeOK
  <2>2. UNCHANGED <<outTokens, isSent, isCanceled, serving, cmdVars, writerVars, noticeVars, peerVars>>
    BY <1>3 DEF HandleProgress, HandleEvent
  <2>3. TypeOK'
    BY <1>0, <1>m, <2>1, <2>2 DEF TypeOK, cmdVars, writerVars, noticeVars, peerVars
  <2>. QED BY <2>1, <2>2, <2>3, QuietKeeps DEF cmdVars, writerVars
<1>4. CASE HandleInvalidToken \/ HandleEnd
  <2>1. /\ state' \in {"OPENING", "OPEN", "CLOSED"} /\ outQueue' \in Seq(Msgs) /\ EventMove
    BY <1>0, <1>4, ShutMoves DEF HandleInvalidToken, HandleEnd
  <2>2. UNCHANGED <<outTokens, isSent, isCanceled, serving, cmdVars, writerVars, noticeVars, peerVars>>
    BY <1>4 DEF HandleInvalidToken, HandleEnd
  <2>3. TypeOK'
    BY <1>0, <1>m, <2>1, <2>2 DEF TypeOK, cmdVars, writerVars, noticeVars, peerVars
  <2>. QED BY <2>1, <2>2, <2>3, QuietKeeps DEF cmdVars, writerVars
<1>5. CASE HandleCommand
  <2>1. Head(events).cmd \in RCmds
    BY <1>0, <1>5, TakenEvent DEF HandleCommand
  <2>2. Msg("N", Head(events).cmd) \in Msgs
    BY <2>1 DEF Msg, Msgs, MsgTypes, AllCmds
  <2>3. /\ state' \in {"OPENING", "OPEN", "CLOSED"} /\ outQueue' \in Seq(Msgs) /\ EventMove
        /\ serving' \subseteq RCmds
    <3>1. CASE Shut(Rest) /\ serving' \in {serving, serving \cup {Head(events).cmd}}
      BY <1>0, <2>1, <3>1, ShutMoves DEF TypeOK
    <3>2. CASE /\ events' = Rest /\ UNCHANGED state
               /\ \/ serving' = serving \cup {Head(events).cmd} /\ UNCHANGED outQueue
                  \/ outQueue' = Append(outQueue, Msg("N", Head(events).cmd)) /\ UNCHANGED serving
      BY <1>0, <2>1, <2>2, <3>2, QueueAppend, TakenEvent DEF TypeOK
    <3>. QED BY <1>5, <3>1, <3>2 DEF HandleCommand
  <2>4. UNCHANGED <<outTokens, isSent, isCanceled, cmdVars, writerVars, noticeVars, peerVars>>
    BY <1>5 DEF HandleCommand
  <2>5. TypeOK'
    BY <1>0, <1>m, <2>3, <2>4 DEF TypeOK, cmdVars, writerVars, noticeVars, peerVars
  <2>. QED BY <2>3, <2>4, <2>5, QuietKeeps DEF cmdVars, writerVars
<1>6. CASE HandleHello \/ HandleFlow
  <2>1. /\ state' \in {"OPENING", "OPEN", "CLOSED"} /\ outQueue' \in Seq(Msgs) /\ EventMove
    BY <1>0, <1>6, ShutMoves, TakenEvent DEF HandleHello, HandleFlow, TypeOK
  <2>2. UNCHANGED <<outTokens, isSent, isCanceled, serving, cmdVars, writerVars, noticeVars, peerVars>>
    BY <1>6 DEF HandleHello, HandleFlow
  <2>3. TypeOK'
    BY <1>0, <1>m, <2>1, <2>2 DEF TypeOK, cmdVars, writerVars, noticeVars, peerVars
  <2>. QED BY <2>1, <2>2, <2>3, QuietKeeps DEF cmdVars, writerVars
<1>. QED BY <1>1, <1>2, <1>3, <1>4, <1>5, <1>6 DEF QuietDispatch

(* The steps of the peer and of the reader thread.                         *)
LEMMA PeerKeeps == IInv /\ Peer => IInv'
<1>. SUFFICES ASSUME IInv, Peer PROVE IInv'
  OBVIOUS
<1>. USE ChannelAssumption DEF IInv
<1>1. EventMove
  <2>1. CASE PeerHello \/ PeerEvent \/ PeerFlow
    <3>1. \A t \in {"Hello", "E", "F"} : Input(t, NoCmd) \in Evts
      BY DEF Evts
    <3>. QED BY <2>1, <3>1, DeliverMoves DEF PeerHello, PeerEvent, PeerFlow, DeliverExtra
  <2>2. ASSUME NEW c \in Cmds, PeerAnswer(c) \/ PeerProgress(c) PROVE EventMove
    <3>1. Input("R", c) \in Evts /\ Input("N", c) \in Evts /\ Input("P", c) \in Evts
      BY DEF Evts
    <3>. QED BY <2>2, <3>1, DeliverMoves DEF PeerAnswer, PeerProgress, DeliverExtra
  <2>3. ASSUME NEW rc \in RCmds, PeerCommand(rc) PROVE EventMove
    <3>1. Input("C", rc) \in Evts
      BY DEF Evts
    <3>. QED BY <2>3, <3>1, DeliverMoves DEF PeerCommand, DeliverExtra
  <2>4. CASE PeerFault
    <3>1. /\ Input("Hello", NoCmd) \in Evts
          /\ \A c \in Cmds : Input("R", c) \in Evts
          /\ \A rc \in RCmds : Input("C", rc) \in Evts
      BY DEF Evts
    <3>. QED BY <2>4, <3>1, DeliverMoves DEF PeerFault, DeliverExtra
  <2>5. CASE ReaderEnd
    <3>1. Terminate \in Evts /\ Terminate.kind # "error"
      BY DEF Terminate, Evts, Evt
    <3>. QED BY <2>5, <3>1 DEF ReaderEnd, EventMove, Delivered
  <2>. QED BY <2>1, <2>2, <2>3, <2>4, <2>5 DEF Peer
<1>2. events' \in Seq(Evts)
  BY <1>1, EventMoveKeeps DEF TypeOK, FailingWait
<1>3. UNCHANGED <<chanVars, cmdVars, writerVars, noticeVars>>
  BY DEF Peer, PeerHello, PeerEvent, PeerFlow, PeerFault, ReaderEnd, PeerAnswer, PeerProgress, PeerCommand
<1>4. /\ reader' \in {"running", "ended"} /\ peerHello' \in BOOLEAN
      /\ answered' \subseteq Cmds /\ peerCmds' \subseteq RCmds
      /\ extra' \in Nat /\ faulty' \in BOOLEAN
  <2>1. CASE PeerHello \/ PeerEvent \/ PeerFlow \/ PeerFault \/ ReaderEnd
    <3>1. CASE PeerHello
      BY <3>1 DEF PeerHello, TypeOK
    <3>2. CASE PeerEvent \/ PeerFlow
      BY <3>2 DEF PeerEvent, PeerFlow, DeliverExtra, TypeOK
    <3>3. CASE PeerFault
      BY <3>3 DEF PeerFault, DeliverExtra, TypeOK
    <3>4. CASE ReaderEnd
      BY <3>4 DEF ReaderEnd, TypeOK
    <3>. QED BY <2>1, <3>1, <3>2, <3>3, <3>4
  <2>2. ASSUME NEW c \in Cmds, PeerAnswer(c)
        PROVE  /\ answered' \subseteq Cmds
               /\ UNCHANGED <<reader, peerHello, peerCmds, extra, faulty>>
    BY <2>2 DEF PeerAnswer, TypeOK
  <2>3. ASSUME NEW c \in Cmds, PeerProgress(c)
        PROVE  /\ extra' \in Nat
               /\ UNCHANGED <<reader, answered, peerHello, peerCmds, faulty>>
    BY <2>3 DEF PeerProgress, DeliverExtra, TypeOK
  <2>4. ASSUME NEW rc \in RCmds, PeerCommand(rc)
        PROVE  /\ peerCmds' \subseteq RCmds /\ extra' \in Nat
               /\ UNCHANGED <<reader, answered, peerHello, faulty>>
    BY <2>4 DEF PeerCommand, DeliverExtra, TypeOK
  <2>. QED BY <2>1, <2>2, <2>3, <2>4 DEF Peer, TypeOK
<1>5. TypeOK'
  BY <1>2, <1>3, <1>4 DEF TypeOK, chanVars, cmdVars, writerVars, noticeVars
<1>. QED BY <1>1, <1>3, <1>5, QuietKeeps DEF chanVars, cmdVars, writerVars

(* The steps of user code that settle no command.                          *)
LEMMA QuietUserKeeps ==
    ASSUME IInv, Close \/ \E rc \in RCmds : SendResult(rc)
    PROVE  IInv'
<1>. USE DEF IInv
<1>1. ASSUME NEW rc \in RCmds, SendResult(rc) PROVE IInv'
  <2>1. Msg("R", rc) \in Msgs
    BY DEF Msg, Msgs, MsgTypes, AllCmds
  <2>2. outQueue' \in Seq(Msgs) /\ serving' \subseteq RCmds
    BY <1>1, <2>1, QueueAppend DEF SendResult, TypeOK
  <2>3. UNCHANGED <<state, outTokens, isSent, isCanceled, cmdVars, writerVars, noticeVars, peerVars, events>>
    BY <1>1 DEF SendResult
  <2>4. TypeOK'
    BY <2>2, <2>3 DEF TypeOK, cmdVars, writerVars, noticeVars, peerVars
  <2>. QED BY <2>3, <2>4, QuietKeeps DEF cmdVars, writerVars, EventMove
<1>2. CASE Close
  <2>1. /\ state' \in {"OPENING", "OPEN", "CLOSED"} /\ outQueue' \in Seq(Msgs)
        /\ events' = events \/ events' = Append(events, Closed)
    BY <1>2, ShutKeeps DEF Close
  <2>2. Closed \in Evts /\ Closed.kind # "error"
    BY DEF Closed, Evts, Evt
  <2>3. EventMove
    BY <2>1, <2>2 DEF EventMove, Delivered
  <2>4. events' \in Seq(Evts)
    BY <2>3, EventMoveKeeps DEF TypeOK, FailingWait
  <2>5. UNCHANGED <<outTokens, isSent, isCanceled, serving, cmdVars, writerVars, noticeVars, peerVars>>
    BY <1>2 DEF Close
  <2>6. TypeOK'
    BY <2>1, <2>4, <2>5 DEF TypeOK, cmdVars, writerVars, noticeVars, peerVars
  <2>. QED BY <2>3, <2>5, <2>6, QuietKeeps DEF cmdVars, writerVars
<1>. QED BY <1>1, <1>2

(* The steps of the transmitter thread: only a message it has marked as    *)
(* sent is written, and a message it pops was not cancelled.               *)
LEMMA WriterKeeps == IInv /\ Writer => IInv'
<1>. SUFFICES ASSUME IInv, Writer PROVE IInv'
  OBVIOUS
<1>. USE DEF IInv
<1>0. /\ outQueue \in Seq(Msgs) /\ sent \in Seq(Msgs) /\ writing \in Seq(Msgs)
      /\ events \in Seq(Evts) /\ OnceFailing(events)
  BY DEF TypeOK, FailingWait
<1>p. outQueue # <<>> => Popped \in Msgs /\ Tail(outQueue) \in Seq(Msgs)
  BY <1>0, HeadTailProperties DEF Popped
<1>t. Terminate \in Evts /\ Terminate.kind # "error"
  BY DEF Terminate, Evts, Evt
<1>1. CASE WriterEnd
  <2>1. Eos \in Msgs /\ \A c \in Cmds : Msg("C", c) # Eos
    BY DEF Eos, Msg, Msgs, MsgTypes, AllCmds
  <2>2. sent' \in Seq(Msgs) /\ ToSet(sent') \subseteq ToSet(sent) \cup {Eos}
    <3>1. Append(sent, Eos) \in Seq(Msgs) /\ ToSet(Append(sent, Eos)) = ToSet(sent) \cup {Eos}
      BY <1>0, <2>1, ToSetAppend
    <3>2. sent' = Append(sent, Eos) \/ sent' = sent
      BY <1>1 DEF WriterEnd
    <3>3. CASE sent' = Append(sent, Eos)
      BY <3>1, <3>3
    <3>4. CASE sent' = sent
      BY <1>0, <3>4, Zenon
    <3>. QED BY <3>2, <3>3, <3>4
  <2>3. UNCHANGED <<state, outTokens, isSent, isCanceled, serving, cmdVars, writing, noticeVars, peerVars>>
    BY <1>1 DEF WriterEnd
  <2>e. /\ events' \in Seq(Evts) /\ OnceFailing(events') /\ Failing(events') = Failing(events)
    BY <1>0, <1>1, <1>t, PostOther DEF WriterEnd
  <2>4. TypeOK'
    BY <1>1, <1>p, <2>2, <2>3, <2>e DEF WriterEnd, TypeOK, cmdVars, noticeVars, peerVars
  <2>5. TokensWait' /\ FailingWait' /\ SettledOnce'
    BY <2>3, <2>e DEF TokensWait, FailingWait, SettledOnce, Waiting, cmdVars
  <2>6. SentIsMarked'
    BY <2>1, <2>2, <2>3 DEF SentIsMarked
  <2>. QED BY <2>4, <2>5, <2>6
<1>2. CASE WriterSkip
  <2>1. UNCHANGED <<state, outTokens, isSent, isCanceled, serving, cmdVars, writing, sent, noticeVars, peerVars>>
    BY <1>2 DEF WriterSkip
  <2>2. writer' \in {"running", "ended"} /\ EventMove
    BY <1>2, <1>t DEF WriterSkip, TypeOK, EventMove, Delivered
  <2>3. events' \in Seq(Evts)
    BY <1>0, <2>2, EventMoveKeeps
  <2>4. TypeOK'
    BY <1>2, <1>p, <2>1, <2>2, <2>3 DEF WriterSkip, TypeOK, cmdVars, noticeVars, peerVars
  <2>. QED BY <2>1, <2>2, <2>4, QuietKeeps DEF cmdVars
<1>3. CASE WriterTake
  <2>1. /\ Popped \in Msgs /\ Tail(outQueue) \in Seq(Msgs)
        /\ writing = <<>> /\ writing' = <<Popped>> /\ outQueue' = Tail(outQueue)
        /\ ~(Popped.type = "C" /\ isCanceled[Popped.cmd])
    BY <1>3, <1>p DEF WriterTake
  <2>2. /\ isSent' = [c \in Cmds |-> isSent[c] \/ Popped = Msg("C", c)]
        /\ UNCHANGED <<state, outTokens, isCanceled, serving, cmdVars, writer, sent, noticeVars, peerVars, events>>
    BY <1>3 DEF WriterTake
  <2>3. <<Popped>> \in Seq(Msgs) /\ ToSet(<<Popped>>) = {Popped}
    BY <2>1 DEF ToSet
  <2>4. TypeOK'
    BY <2>1, <2>2, <2>3 DEF TypeOK, cmdVars, noticeVars, peerVars
  <2>5. TokensWait' /\ FailingWait'
    BY <2>2 DEF TokensWait, FailingWait, Waiting, cmdVars
  <2>6. SettledOnce'
    <3>1. \A c \in Cmds : Popped = Msg("C", c) => ~isCanceled[c]
      BY <2>1 DEF Msg
    <3>. QED BY <2>2, <3>1 DEF SettledOnce, cmdVars
  <2>7. SentIsMarked'
    BY <2>1, <2>2, <2>3 DEF SentIsMarked
  <2>. QED BY <2>4, <2>5, <2>6, <2>7
<1>4. CASE WriterWrite
  <2>1. /\ sent' = sent \o writing /\ writing' = <<>>
        /\ UNCHANGED <<chanVars, cmdVars, writer, noticeVars, peerVars, events>>
    BY <1>4 DEF WriterWrite
  <2>2. sent' \in Seq(Msgs) /\ ToSet(sent') = ToSet(sent) \cup ToSet(writing)
    BY <1>0, <2>1, ToSetConcat
  <2>3. TypeOK'
    BY <2>1, <2>2 DEF TypeOK, chanVars, cmdVars, noticeVars, peerVars
  <2>4. TokensWait' /\ FailingWait' /\ SettledOnce'
    BY <2>1 DEF TokensWait, FailingWait, SettledOnce, Waiting, chanVars, cmdVars
  <2>5. SentIsMarked'
    BY <2>1, <2>2 DEF SentIsMarked, ToSet, chanVars
  <2>. QED BY <2>3, <2>4, <2>5
<1>5. CASE WriterFail
  <2>1. /\ writing' = <<>> /\ writer' = "ended" /\ events' = Append(events, Terminate)
        /\ UNCHANGED <<chanVars, cmdVars, noticeVars, peerVars>>
    BY <1>5 DEF WriterFail
  <2>2. sent' \in Seq(Msgs) /\ ToSet(sent') \subseteq ToSet(sent) \cup ToSet(writing)
    <3>1. /\ sent \o writing \in Seq(Msgs)
          /\ ToSet(sent \o writing) = ToSet(sent) \cup ToSet(writing)
      BY <1>0, ToSetConcat
    <3>2. CASE sent' = sent \o writing
      BY <3>1, <3>2
    <3>3. CASE sent' = sent
      BY <1>0, <3>3, Zenon
    <3>. QED BY <1>5, <3>2, <3>3 DEF WriterFail
  <2>3. /\ events' \in Seq(Evts) /\ OnceFailing(events') /\ Failing(events') = Failing(events)
    BY <1>0, <1>t, <2>1, PostOther
  <2>4. TypeOK'
    BY <2>1, <2>2, <2>3 DEF TypeOK, chanVars, cmdVars, noticeVars, peerVars
  <2>5. TokensWait' /\ FailingWait' /\ SettledOnce'
    BY <2>1, <2>3 DEF TokensWait, FailingWait, SettledOnce, Waiting, chanVars, cmdVars
  <2>6. SentIsMarked'
    BY <2>1, <2>2 DEF SentIsMarked, ToSet, chanVars
  <2>. QED BY <2>4, <2>5, <2>6
<1>. QED BY <1>1, <1>2, <1>3, <1>4, <1>5 DEF Writer

(* An answer completes the command whose token it takes from the table.    *)
LEMMA AnswerKeeps == IInv /\ (HandleResult \/ HandleReject) => IInv'
<1>. SUFFICES ASSUME IInv, HandleResult \/ HandleReject PROVE IInv'
  OBVIOUS
<1>. USE DEF IInv
<1>. DEFINE c == Head(events).cmd
<1>1. /\ events # <<>> /\ c \in outTokens
      /\ outTokens' = outTokens \ {c}
      /\ calls' = [calls EXCEPT ![c] = @ + 1]
      /\ UNCHANGED <<isSent, isCanceled, serving, issued, withdrawn, writerVars, noticeVars, peerVars>>
  BY DEF HandleResult, HandleReject, NextInput, NextIs
<1>2. /\ state' \in {"OPENING", "OPEN", "CLOSED"} /\ outQueue' \in Seq(Msgs) /\ EventMove
  <2>1. CASE Shut(Rest)
    BY <1>1, <2>1, ShutMoves
  <2>2. CASE events' = Rest /\ UNCHANGED state /\ (SendCongestionLevel \/ UNCHANGED outQueue)
    BY <1>1, <2>2, CongestionKeeps, TakenEvent DEF TypeOK
  <2>. QED BY <2>1, <2>2 DEF HandleResult, HandleReject
<1>. HIDE DEF c
<1>3. events' \in Seq(Evts) /\ OnceFailing(events') /\ Failing(events') \subseteq Failing(events)
  BY <1>2, EventMoveKeeps DEF TypeOK, FailingWait
<1>4. c \in Cmds /\ calls[c] = 0 /\ calls \in [Cmds -> Nat]
  BY <1>1 DEF TypeOK, TokensWait, Waiting
<1>5. calls'[c] = 1 /\ \A d \in Cmds \ {c} : calls'[d] = calls[d]
  BY <1>1, <1>4
<1>6. TypeOK'
  <2>1. calls' \in [Cmds -> Nat] /\ outTokens' \subseteq Cmds
    BY <1>1, <1>4 DEF TypeOK
  <2>. QED BY <1>1, <1>2, <1>3, <2>1 DEF TypeOK, writerVars, noticeVars, peerVars
<1>7. TokensWait'
  BY <1>1, <1>3, <1>5 DEF TypeOK, TokensWait, Waiting
<1>8. FailingWait'
  <2>1. c \notin Failing(events)
    BY <1>1 DEF TokensWait
  <2>2. Failing(events) \subseteq Cmds
    BY DEF Failing
  <2>. QED BY <1>1, <1>3, <1>5, <2>1, <2>2 DEF FailingWait, Waiting
<1>9. SettledOnce'
  <2>1. c \notin withdrawn /\ c \in ToSet(issued)
    BY <1>1 DEF TokensWait, Waiting
  <2>. QED BY <1>1, <1>5, <2>1 DEF SettledOnce
<1>10. SentIsMarked'
  BY <1>1 DEF SentIsMarked, writerVars
<1>. QED BY <1>6, <1>7, <1>8, <1>9, <1>10

(* Command._error completes a command that was never registered.           *)
LEMMA ErrorKeeps == IInv /\ HandleError => IInv'
<1>. SUFFICES ASSUME IInv, HandleError PROVE IInv'
  OBVIOUS
<1>. USE DEF IInv
<1>. DEFINE c == Head(events).cmd
<1>1. /\ events # <<>> /\ Head(events).kind = "error"
      /\ calls' = [calls EXCEPT ![c] = @ + 1]
      /\ events' = Rest
      /\ UNCHANGED <<chanVars, issued, withdrawn, writerVars, noticeVars, peerVars>>
  BY DEF HandleError, NextIs
<1>2. /\ events' \in Seq(Evts) /\ OnceFailing(events') /\ Failing(events') \subseteq Failing(events)
      /\ c \in Failing(events) /\ c \notin Failing(events')
  BY <1>1, TakeEvent DEF Rest, TypeOK, FailingWait
<1>. HIDE DEF c
<1>3. c \in Cmds /\ Waiting(c) /\ calls \in [Cmds -> Nat]
  BY <1>2 DEF Failing, FailingWait, TypeOK
<1>4. calls'[c] = 1 /\ \A d \in Cmds \ {c} : calls'[d] = calls[d]
  BY <1>1, <1>3 DEF Waiting
<1>5. c \notin outTokens
  BY <1>2 DEF TokensWait
<1>6. TypeOK'
  <2>1. calls' \in [Cmds -> Nat]
    BY <1>1, <1>3
  <2>. QED BY <1>1, <1>2, <2>1 DEF TypeOK, chanVars, writerVars, noticeVars, peerVars
<1>7. TokensWait'
  BY <1>1, <1>2, <1>4, <1>5 DEF TypeOK, TokensWait, Waiting, chanVars
<1>8. FailingWait'
  <2>1. Failing(events) \subseteq Cmds
    BY DEF Failing
  <2>. QED BY <1>1, <1>2, <1>4, <2>1 DEF FailingWait, Waiting, chanVars
<1>9. SettledOnce'
  BY <1>1, <1>3, <1>4 DEF SettledOnce, Waiting, chanVars
<1>10. SentIsMarked'
  BY <1>1 DEF SentIsMarked, writerVars, chanVars
<1>. QED BY <1>6, <1>7, <1>8, <1>9, <1>10

(* The Runnable posted by _close completes all that is registered.         *)
LEMMA ClosedKeeps == IInv /\ RunClosed => IInv'
<1>. SUFFICES ASSUME IInv, RunClosed PROVE IInv'
  OBVIOUS
<1>. USE DEF IInv
<1>1. /\ events # <<>> /\ events' = Rest
      /\ calls' = [c \in Cmds |-> IF c \in outTokens THEN calls[c] + 1 ELSE calls[c]]
      /\ outTokens' = {} /\ closes' = closes + 1
      /\ UNCHANGED <<state, outQueue, isSent, isCanceled, serving, issued, withdrawn, writerVars, peerVars>>
  BY DEF RunClosed, NextIs
<1>2. EventMove
  BY <1>1, TakenEvent
<1>3. events' \in Seq(Evts) /\ OnceFailing(events') /\ Failing(events') \subseteq Failing(events)
  BY <1>2, EventMoveKeeps DEF TypeOK, FailingWait
<1>4. \A c \in Cmds : c \in outTokens => Waiting(c) /\ calls'[c] = 1 /\ c \notin Failing(events)
  BY <1>1 DEF TokensWait, Waiting
<1>5. \A c \in Cmds : c \notin outTokens => calls'[c] = calls[c]
  BY <1>1
<1>6. TypeOK'
  <2>1. calls' \in [Cmds -> Nat] /\ closes' \in Nat
    BY <1>1 DEF TypeOK
  <2>. QED BY <1>1, <1>3, <2>1 DEF TypeOK, writerVars, peerVars
<1>7. TokensWait'
  BY <1>1 DEF TokensWait
<1>8. FailingWait'
  <2>1. Failing(events) \subseteq Cmds
    BY DEF Failing
  <2>. QED BY <1>1, <1>3, <1>4, <1>5, <2>1 DEF FailingWait, Waiting
<1>9. SettledOnce'
  BY <1>1, <1>4, <1>5 DEF SettledOnce, Waiting
<1>10. SentIsMarked'
  BY <1>1 DEF SentIsMarked, writerVars
<1>. QED BY <1>6, <1>7, <1>8, <1>9, <1>10

(* Sending and cancelling a command.                                       *)
LEMMA SendKeeps ==
    ASSUME IInv, NEW c \in Cmds, SendCommand(c)
    PROVE  IInv'
<1>. USE DEF IInv
<1>1. /\ c \notin ToSet(issued) /\ issued' = Append(issued, c)
      /\ UNCHANGED <<state, isSent, isCanceled, serving, calls, withdrawn, writerVars, noticeVars, peerVars>>
  BY DEF SendCommand
<1>2. issued' \in Seq(Cmds) /\ ToSet(issued') = ToSet(issued) \cup {c}
  BY <1>1, ToSetAppend DEF TypeOK
<1>3. calls[c] = 0 /\ c \notin withdrawn /\ c \notin outTokens /\ c \notin Failing(events)
  BY <1>1 DEF TypeOK, SettledOnce, TokensWait, FailingWait, Waiting
<1>4. SettledOnce' /\ SentIsMarked'
  BY <1>1, <1>2 DEF SettledOnce, SentIsMarked, writerVars
<1>5. CASE /\ outTokens' = outTokens \cup {c}
           /\ outQueue' = Append(outQueue, Msg("C", c))
           /\ UNCHANGED events
  <2>1. Msg("C", c) \in Msgs
    BY DEF Msg, Msgs, MsgTypes, AllCmds
  <2>2. outQueue' \in Seq(Msgs)
    BY <1>5, <2>1, QueueAppend
  <2>3. TypeOK'
    BY <1>1, <1>2, <1>5, <2>2 DEF TypeOK, writerVars, noticeVars, peerVars
  <2>4. TokensWait' /\ FailingWait'
    BY <1>1, <1>2, <1>3, <1>5 DEF TokensWait, FailingWait, Waiting
  <2>. QED BY <1>4, <2>3, <2>4
<1>6. CASE /\ events' = Append(events, ErrorEvt(c))
           /\ UNCHANGED <<outTokens, outQueue>>
  <2>1. /\ events' \in Seq(Evts) /\ OnceFailing(events')
        /\ Failing(events') = Failing(events) \cup {c}
    BY <1>3, <1>6, PostError DEF TypeOK, FailingWait
  <2>2. TypeOK'
    BY <1>1, <1>2, <1>6, <2>1 DEF TypeOK, writerVars, noticeVars, peerVars
  <2>3. TokensWait' /\ FailingWait'
    BY <1>1, <1>2, <1>3, <1>6, <2>1 DEF TokensWait, FailingWait, Waiting
  <2>. QED BY <1>4, <2>2, <2>3
<1>. QED BY <1>5, <1>6 DEF SendCommand, ErrorEvt

LEMMA CancelKeeps ==
    ASSUME IInv, NEW c \in Cmds, CancelCommand(c)
    PROVE  IInv'
<1>. USE DEF IInv
<1>1. /\ c \in outTokens /\ ~isSent[c]
      /\ isCanceled' = [isCanceled EXCEPT ![c] = TRUE]
      /\ outTokens' = outTokens \ {c} /\ withdrawn' = withdrawn \cup {c}
      /\ UNCHANGED <<state, outQueue, isSent, serving, issued, calls, writerVars, noticeVars, peerVars, events>>
  BY DEF CancelCommand
<1>2. isCanceled'[c] /\ \A d \in Cmds \ {c} : isCanceled'[d] = isCanceled[d]
  BY <1>1 DEF TypeOK
<1>3. Waiting(c) /\ c \notin Failing(events)
  BY <1>1 DEF TokensWait
<1>4. TypeOK'
  BY <1>1 DEF TypeOK, cmdVars, writerVars, noticeVars, peerVars
<1>5. TokensWait'
  BY <1>1, <1>2 DEF TypeOK, TokensWait, Waiting, cmdVars
<1>6. FailingWait'
  <2>1. Failing(events) \subseteq Cmds
    BY DEF Failing
  <2>. QED BY <1>1, <1>2, <1>3, <2>1 DEF FailingWait, Waiting, cmdVars
<1>7. SettledOnce'
  BY <1>1, <1>2, <1>3 DEF SettledOnce, Waiting, cmdVars
<1>8. SentIsMarked'
  BY <1>1 DEF SentIsMarked, writerVars
<1>. QED BY <1>4, <1>5, <1>6, <1>7, <1>8

(* The cancel that raises has marked a message that is not sent yet.       *)
LEMMA CancelAnsweredKeeps ==
    ASSUME IInv, NEW c \in Cmds, CancelAnswered(c)
    PROVE  IInv'
<1>. USE DEF IInv
<1>1. /\ c \in ToSet(issued) /\ ~isSent[c]
      /\ isCanceled' = [isCanceled EXCEPT ![c] = TRUE]
      /\ UNCHANGED <<state, outTokens, outQueue, isSent, serving, cmdVars, writerVars, noticeVars,
                     peerVars, events>>
  BY DEF CancelAnswered
<1>2. TypeOK'
  BY <1>1 DEF TypeOK, cmdVars, writerVars, noticeVars, peerVars
<1>3. TokensWait' /\ FailingWait' /\ SentIsMarked'
  BY <1>1 DEF TokensWait, FailingWait, SentIsMarked, Waiting, cmdVars, writerVars
<1>4. SettledOnce'
  BY <1>1 DEF TypeOK, SettledOnce, cmdVars
<1>. QED BY <1>2, <1>3, <1>4

-----------------------------------------------------------------------------
(* Every step keeps the invariant.                                         *)
LEMMA NextIInv == IInv /\ [Next]_vars => IInv'
<1>. SUFFICES ASSUME IInv, [Next]_vars PROVE IInv'
  OBVIOUS
<1>1. CASE Dispatch
  BY <1>1, QuietDispatchKeeps, AnswerKeeps, ErrorKeeps, ClosedKeeps DEF Dispatch, QuietDispatch
<1>2. CASE Writer
  BY <1>2, WriterKeeps
<1>3. CASE User
  BY <1>3, SendKeeps, CancelKeeps, CancelAnsweredKeeps, QuietUserKeeps DEF User
<1>4. CASE Peer
  BY <1>4, PeerKeeps
<1>5. CASE UNCHANGED vars
  <2>1. TypeOK'
    BY <1>5 DEF vars, chanVars, cmdVars, writerVars, noticeVars, peerVars, IInv, TypeOK
  <2>. QED BY <1>5, <2>1, QuietKeeps DEF vars, chanVars, cmdVars, writerVars, EventMove
<1>. QED BY <1>1, <1>2, <1>3, <1>4, <1>5 DEF Next

LEMMA Invariance == Spec => []IInv
  BY InitIInv, NextIInv, PTL DEF Spec

(* Type correctness: the fields of AbstractChannel keep their shapes, and  *)
(* an event names a command of the side that may have sent it.             *)
THEOREM TypeCorrect == Spec => []TypeOK
  BY Invariance, PTL DEF IInv

(* Command.done runs at most once, and never after a cancel that returned  *)
(* True (sendCommand, __cancelCommand, __handleInput and _close).          *)
THEOREM CompletionIsUnique == Spec => []CompletesOnce
<1>1. IInv => CompletesOnce
  BY DEF IInv, TypeOK, SettledOnce, CompletesOnce
<1>. QED BY <1>1, Invariance, PTL

(* A command whose cancel returned True is not transmitted (is_sent and    *)
(* is_canceled, written under the lock of out_queue).                      *)
THEOREM CancelIsKept == Spec => []CanceledNotTransmitted
<1>1. IInv => CanceledNotTransmitted
  <2>. SUFFICES ASSUME IInv, NEW c \in Cmds, isCanceled[c]
                PROVE  ~isSent[c] /\ Msg("C", c) \notin ToSet(sent \o writing)
    BY DEF CanceledNotTransmitted
  <2>1. ToSet(sent \o writing) = ToSet(sent) \cup ToSet(writing)
    BY ToSetConcat DEF IInv, TypeOK
  <2>. QED BY <2>1 DEF IInv, SettledOnce, SentIsMarked
<1>. QED BY <1>1, Invariance, PTL

-----------------------------------------------------------------------------
(* The channel implements CommandLifecycle: every step issues a command,   *)
(* cancels one, completes some, or leaves all phases as they are.          *)
Phases == [c \in Cmds |-> PhaseOf(c)]

LEMMA QuietStutters ==
    UNCHANGED cmdVars => UNCHANGED Phases
  BY DEF cmdVars, Phases, PhaseOf

LEMMA TokensPending ==
    ASSUME IInv, NEW c \in Cmds, Waiting(c)
    PROVE  PhaseOf(c) = "pending"
  BY DEF Waiting, PhaseOf

LEMMA SendIssues ==
    ASSUME IInv, NEW c \in Cmds, SendCommand(c)
    PROVE  Lifecycle!Issue(c)
<1>1. /\ c \notin ToSet(issued) /\ issued' = Append(issued, c)
      /\ UNCHANGED <<withdrawn, calls>>
  BY DEF SendCommand
<1>2. ToSet(issued') = ToSet(issued) \cup {c}
  BY <1>1, ToSetAppend DEF IInv, TypeOK
<1>3. calls[c] = 0 /\ c \notin withdrawn
  BY <1>1 DEF IInv, TypeOK, SettledOnce
<1>4. PhaseOf(c) = "new" /\ PhaseOf(c)' = "pending"
  BY <1>1, <1>2, <1>3 DEF PhaseOf
<1>5. \A d \in Cmds \ {c} : PhaseOf(d)' = PhaseOf(d)
  BY <1>1, <1>2 DEF PhaseOf
<1>. QED BY <1>4, <1>5 DEF Lifecycle!Issue

LEMMA CancelCancels ==
    ASSUME IInv, NEW c \in Cmds, CancelCommand(c)
    PROVE  Lifecycle!Cancel(c)
<1>1. /\ c \in outTokens /\ withdrawn' = withdrawn \cup {c}
      /\ UNCHANGED <<issued, calls>>
  BY DEF CancelCommand
<1>2. Waiting(c)
  BY <1>1 DEF IInv, TypeOK, TokensWait
<1>3. PhaseOf(c) = "pending" /\ PhaseOf(c)' = "canceled"
  BY <1>1, <1>2 DEF Waiting, PhaseOf
<1>4. \A d \in Cmds \ {c} : PhaseOf(d)' = PhaseOf(d)
  BY <1>1, <1>2 DEF PhaseOf
<1>. QED BY <1>3, <1>4 DEF Lifecycle!Cancel

(* A step that runs the completions of a set of waiting commands.          *)
LEMMA SettlingCompletes ==
    ASSUME IInv, NEW S \in SUBSET Cmds, \A c \in S : Waiting(c),
           \A c \in Cmds : calls'[c] = IF c \in S THEN 1 ELSE calls[c],
           UNCHANGED <<issued, withdrawn>>
    PROVE  Lifecycle!Complete(S)
<1>1. \A c \in S : PhaseOf(c) = "pending" /\ PhaseOf(c)' = "done"
  BY DEF Waiting, PhaseOf
<1>2. \A c \in Cmds \ S : PhaseOf(c)' = PhaseOf(c)
  BY DEF PhaseOf
<1>. QED BY <1>1, <1>2 DEF Lifecycle!Complete

LEMMA CompletionCompletes ==
    ASSUME IInv, HandleResult \/ HandleReject \/ HandleError \/ RunClosed
    PROVE  \E S \in SUBSET Cmds : Lifecycle!Complete(S)
<1>. USE DEF IInv
<1>1. CASE HandleResult \/ HandleReject
  <2>. DEFINE c == Head(events).cmd
  <2>1. /\ c \in outTokens /\ calls' = [calls EXCEPT ![c] = @ + 1]
        /\ UNCHANGED <<issued, withdrawn>>
    BY <1>1 DEF HandleResult, HandleReject, NextInput, NextIs
  <2>. HIDE DEF c
  <2>2. c \in Cmds /\ Waiting(c) /\ calls \in [Cmds -> Nat]
    BY <2>1 DEF TypeOK, TokensWait
  <2>3. \A d \in Cmds : calls'[d] = IF d \in {c} THEN 1 ELSE calls[d]
    BY <2>1, <2>2 DEF Waiting
  <2>4. Lifecycle!Complete({c})
    BY <2>1, <2>2, <2>3, SettlingCompletes
  <2>. QED BY <2>2, <2>4
<1>2. CASE HandleError
  <2>. DEFINE c == Head(events).cmd
  <2>1. /\ events # <<>> /\ Head(events).kind = "error" /\ calls' = [calls EXCEPT ![c] = @ + 1]
        /\ UNCHANGED <<issued, withdrawn>>
    BY <1>2 DEF HandleError, NextIs, chanVars
  <2>2. c \in Failing(events)
    BY <2>1, TakeEvent DEF TypeOK, FailingWait
  <2>. HIDE DEF c
  <2>3. c \in Cmds /\ Waiting(c) /\ calls \in [Cmds -> Nat]
    BY <2>2 DEF TypeOK, FailingWait, Failing
  <2>4. \A d \in Cmds : calls'[d] = IF d \in {c} THEN 1 ELSE calls[d]
    BY <2>1, <2>3 DEF Waiting
  <2>5. Lifecycle!Complete({c})
    BY <2>1, <2>3, <2>4, SettlingCompletes
  <2>. QED BY <2>3, <2>5
<1>3. CASE RunClosed
  <2>1. /\ calls' = [c \in Cmds |-> IF c \in outTokens THEN calls[c] + 1 ELSE calls[c]]
        /\ UNCHANGED <<issued, withdrawn>>
    BY <1>3 DEF RunClosed
  <2>2. outTokens \in SUBSET Cmds /\ \A c \in outTokens : Waiting(c)
    BY DEF TypeOK, TokensWait
  <2>3. \A d \in Cmds : calls'[d] = IF d \in outTokens THEN 1 ELSE calls[d]
    BY <2>1, <2>2 DEF Waiting
  <2>4. Lifecycle!Complete(outTokens)
    BY <2>1, <2>2, <2>3, SettlingCompletes
  <2>. QED BY <2>2, <2>4
<1>. QED BY <1>1, <1>2, <1>3

LEMMA QuietSteps ==
    ASSUME \/ QuietDispatch \/ Writer \/ Peer \/ Close
           \/ (\E rc \in RCmds : SendResult(rc)) \/ (\E c \in Cmds : CancelAnswered(c))
    PROVE  UNCHANGED cmdVars
<1>1. CASE QuietDispatch
  BY <1>1 DEF QuietDispatch, InitServices, HandleClosed, HandleProgress, HandleInvalidToken,
         HandleCommand, HandleHello, HandleEvent, HandleFlow, HandleEnd, chanVars, cmdVars
<1>2. CASE Writer
  BY <1>2 DEF Writer, WriterEnd, WriterSkip, WriterTake, WriterWrite, WriterFail, chanVars, cmdVars
<1>3. CASE Peer
  BY <1>3 DEF Peer, PeerHello, PeerEvent, PeerFlow, PeerFault, ReaderEnd, PeerAnswer, PeerProgress,
         PeerCommand, chanVars, cmdVars
<1>4. CASE Close \/ (\E rc \in RCmds : SendResult(rc)) \/ (\E c \in Cmds : CancelAnswered(c))
  BY <1>4 DEF Close, SendResult, CancelAnswered, cmdVars
<1>. QED BY <1>1, <1>2, <1>3, <1>4

LEMMA NextRefines == IInv /\ [Next]_vars => [Lifecycle!Next]_Phases
<1>. SUFFICES ASSUME IInv, [Next]_vars PROVE Lifecycle!Next \/ UNCHANGED Phases
  OBVIOUS
<1>1. CASE \/ QuietDispatch \/ Writer \/ Peer \/ Close
           \/ (\E rc \in RCmds : SendResult(rc)) \/ (\E c \in Cmds : CancelAnswered(c))
  BY <1>1, QuietSteps, QuietStutters
<1>2. CASE HandleResult \/ HandleReject \/ HandleError \/ RunClosed
  BY <1>2, CompletionCompletes DEF Lifecycle!Next
<1>3. CASE \E c \in Cmds : SendCommand(c) \/ CancelCommand(c)
  BY <1>3, SendIssues, CancelCancels DEF Lifecycle!Next
<1>4. CASE UNCHANGED vars
  BY <1>4, QuietStutters DEF vars
<1>. QED BY <1>1, <1>2, <1>3, <1>4 DEF Next, Dispatch, User, QuietDispatch

(* The channel implements the promise it makes for its commands: whatever  *)
(* ends the channel and whatever the peer sends, a command is issued, then *)
(* settled once by a completion or a successful cancel (Command, Token).   *)
THEOREM LifecycleIsImplemented == Spec => LifecycleSpec
<1>1. Init => Lifecycle!Init
  <2>. SUFFICES ASSUME Init PROVE \A c \in Cmds : PhaseOf(c) = "new"
    BY DEF Lifecycle!Init
  <2>1. ToSet(<<>>) = {}
    BY DEF ToSet
  <2>. QED BY <2>1 DEF Init, PhaseOf
<1>. QED BY <1>1, Invariance, NextRefines, PTL DEF Spec, LifecycleSpec, Lifecycle!Spec, Phases
=============================================================================

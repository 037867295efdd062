------------------------------ MODULE Transfers ------------------------------
(***************************************************************************)
(* One transfer in pieces (src/chipscopy/client/debug_core_client.py and   *)
(* jtagdevice.py): read_bytes and write_bytes of a debug core, config of a *)
(* JTAG device, and its update_regs, which sends everything at once.       *)
(*                                                                         *)
(* Everything runs on the dispatch thread, so a callback is one step.  A   *)
(* command that cannot be sent is answered with an error (Command.__init__)*)
(* and so is every command of a channel that ends.  The last piece has an  *)
(* error or not like any other.  A piece stands for its address, offset    *)
(* and data.  For config and update_regs, pending is Node.pending, which   *)
(* holds the tokens of other commands on the node too.                     *)
(***************************************************************************)
EXTENDS Integers, FiniteSets

CONSTANTS
    Kinds,      \* "read", "write", "config" or "regs"
    MaxChunks,  \* bound on the pieces of a transfer
    Window,     \* commands under way at most: 8 in the code
    MaxOther    \* bound on the commands of others on the node

ASSUME TransferAssumption ==
    /\ Kinds \subseteq {"read", "write", "config", "regs"}
    /\ MaxChunks \in Nat /\ MaxOther \in Nat
    /\ Window \in Nat \ {0, 1}

VARIABLES
    kind, size, \* the call
    called,     \* it was made
    next,       \* pieces sent so far
    pending,    \* local_pending, or Node.pending
    allSent,    \* all_requests_sent, all_sent
    err,        \* err
    stored,     \* pieces copied into the buffer, or confirmed
    skipped,    \* pieces whose answer had an unexpected shape
    dones,      \* completions of the call
    raised,     \* a callback completed the call again and raised
    others      \* other commands so far

vars == <<kind, size, called, next, pending, allSent, err, stored, skipped, dones, raised, others>>

Chunk == 1 .. size
Begin == 0
End == MaxChunks + 1
Kids == MaxChunks + 2
Others == Kids + 1 .. Kids + MaxOther

Streamed == kind \in {"read", "write"}

Init ==
    /\ kind \in Kinds /\ size \in 0 .. MaxChunks
    /\ called = FALSE
    /\ next = 0 /\ pending = {} /\ allSent = FALSE
    /\ err = FALSE /\ stored = {} /\ skipped = {}
    /\ dones = 0 /\ raised = FALSE /\ others = 0

-----------------------------------------------------------------------------
(* Faulty: the sender does not stop at the last piece.                     *)
LastSentOverruns(p) == next + Window - Cardinality(p)

(* The last piece sent once there is no room left beside p.                *)
LastSent(p) ==
    LET last == next + Window - Cardinality(p)
    IN  IF last < next THEN next ELSE IF last > size THEN size ELSE last

(* Faulty: the end is noticed only with nothing under way.                 *)
RanOutLate(p) == next = size /\ p = {}

(* The sender asks for a piece beyond the last when room is left.          *)
RanOut(p) == Cardinality(p) + LastSent(p) - next < Window

(* request_data and the two send_data without an error: send while there   *)
(* is room beside p; config sends config_end behind its last piece.        *)
Fill(p) ==
    /\ next' = LastSent(p)
    /\ pending' = p \cup (next + 1 .. LastSent(p))
                    \cup {t \in {End} : kind = "config" /\ next < size /\ LastSent(p) = size}
    /\ allSent' = (allSent \/ (Streamed /\ RanOut(p)))

(* read_done, write_done, config_done and the done of update_regs.  The    *)
(* future of a config is node.request, which is None once it is complete:  *)
(* a second completion raises.                                             *)
Complete ==
    IF kind = "config" /\ dones > 0
      THEN raised' = TRUE /\ UNCHANGED dones
      ELSE dones' = dones + 1 /\ UNCHANGED raised

Start ==
    /\ ~called /\ called' = TRUE
    /\ \/ Streamed /\ Fill({}) /\ UNCHANGED <<err, dones>>
       \/ /\ kind = "config" /\ pending' = {Begin}
          /\ UNCHANGED <<next, allSent, err, dones>>
       \/ /\ kind = "regs"
          /\ next' = size /\ pending' = Chunk /\ allSent' = TRUE
          /\ IF size = 0 THEN err' = TRUE /\ dones' = 1     \* "No registers to update"
                         ELSE UNCHANGED <<err, dones>>
    /\ UNCHANGED <<kind, size, stored, skipped, raised, others>>

(* What is left when an answer changes nothing but the pending set.        *)
Ignored(t) ==
    /\ pending' = pending \ {t}
    /\ UNCHANGED <<next, allSent, err, stored, skipped, dones, raised>>

(* receive_data or send_confirmation without an error; an answer to a read *)
(* that is not one list of one dictionary is taken for a stored piece.     *)
StreamOk(c) ==
    /\ Streamed
    /\ \/ stored' = stored \cup {c} /\ UNCHANGED skipped
       \/ kind = "read" /\ skipped' = skipped \cup {c} /\ UNCHANGED stored
    /\ IF allSent /\ pending = {c}
         THEN /\ Complete
              /\ pending' = {}
              /\ UNCHANGED <<next, allSent>>
         ELSE /\ Fill(pending \ {c})
              /\ UNCHANGED <<dones, raised>>
    /\ UNCHANGED err

(* config_progress without an error.                                       *)
ConfigOk(c) ==
    /\ kind = "config"
    /\ stored' = stored \cup {c}
    /\ Fill(pending \ {c})
    /\ UNCHANGED <<err, skipped, dones, raised>>

(* Faulty: the error is not kept.                                          *)
FailedForgets(c) ==
    /\ pending' = pending \ {c}
    /\ Complete
    /\ UNCHANGED <<err, next, allSent, stored, skipped>>

(* The first error completes the call at once, whatever is under way; data *)
(* a read is given beyond the end of its buffer is an error as well.       *)
Failed(c) ==
    /\ err' = TRUE
    /\ pending' = pending \ {c}
    /\ Complete
    /\ UNCHANGED <<next, allSent, stored, skipped>>

(* Faulty: an answer after the first error is not told apart.              *)
SettledNever == FALSE

(* The callbacks ignore what follows the first error.                      *)
Settled == IF kind = "regs" THEN dones > 0 ELSE err

(* Faulty: only its own token counts.                                      *)
RegOkAlone(c) ==
    /\ kind = "regs"
    /\ stored' = stored \cup {c}
    /\ pending' = pending \ {c}
    /\ Complete
    /\ UNCHANGED <<err, next, allSent, skipped>>

(* done_update: complete when the node has nothing pending.                *)
RegOk(c) ==
    /\ kind = "regs"
    /\ stored' = stored \cup {c}
    /\ pending' = pending \ {c}
    /\ IF pending = {c} THEN Complete ELSE UNCHANGED <<dones, raised>>
    /\ UNCHANGED <<err, next, allSent, skipped>>

(* The server configures in the order it is told; other answers come in    *)
(* any order.                                                              *)
MayAnswer(t) ==
    /\ t \in pending
    /\ kind = "config" => \A u \in pending \ Others : t <= u

ChunkAnswered(c) ==
    /\ c \in Chunk /\ MayAnswer(c)
    /\ IF Settled THEN Ignored(c)
                  ELSE StreamOk(c) \/ ConfigOk(c) \/ RegOk(c) \/ Failed(c)
    /\ UNCHANGED <<kind, size, called, others>>

(* config_started.                                                         *)
Begun ==
    /\ MayAnswer(Begin)
    /\ \/ Fill(pending \ {Begin}) /\ UNCHANGED <<err, stored, skipped, dones, raised>>
       \/ Failed(Begin)
    /\ UNCHANGED <<kind, size, called, others>>

(* config_wait_for_dpc_ready: ask for the children whatever the answer.    *)
Ended ==
    /\ MayAnswer(End)
    /\ pending' = (pending \ {End}) \cup {Kids}
    /\ \E e \in BOOLEAN : err' = (err \/ e)
    /\ UNCHANGED <<kind, size, called, next, allSent, stored, skipped, dones, raised, others>>

(* config_done.                                                            *)
Listed ==
    /\ MayAnswer(Kids)
    /\ pending' = pending \ {Kids}
    /\ \E e \in BOOLEAN : err' = (err \/ e)
    /\ Complete
    /\ UNCHANGED <<kind, size, called, next, allSent, stored, skipped, others>>

(* Another command on the node of a config or an update_regs.              *)
OtherStarts ==
    /\ called /\ dones = 0 /\ ~Streamed
    /\ others < MaxOther /\ others' = others + 1
    /\ pending' = pending \cup {Kids + others'}
    /\ UNCHANGED <<kind, size, called, next, allSent, err, stored, skipped, dones, raised>>

OtherEnds ==
    /\ \E t \in Others \cap pending : pending' = pending \ {t}
    /\ UNCHANGED <<kind, size, called, next, allSent, err, stored, skipped, dones, raised, others>>

Answer == (\E c \in Chunk : ChunkAnswered(c)) \/ Begun \/ Ended \/ Listed

Next == Start \/ Answer \/ OtherStarts \/ OtherEnds

(* The call is made, and every command is answered or told of an error     *)
(* (Channel!CommandsSettle).                                               *)
Spec == Init /\ [][Next]_vars /\ WF_vars(Start) /\ WF_vars(Answer) /\ WF_vars(OtherEnds)

-----------------------------------------------------------------------------
(* Every variable keeps the shape it has in the closures of a transfer.    *)
TypeOK ==
    /\ kind \in Kinds /\ size \in 0 .. MaxChunks /\ next \in 0 .. size
    /\ called \in BOOLEAN /\ allSent \in BOOLEAN /\ err \in BOOLEAN /\ raised \in BOOLEAN
    /\ pending \subseteq 0 .. Kids + MaxOther
    /\ stored \subseteq Chunk /\ skipped \subseteq Chunk
    /\ dones \in Nat /\ others \in Nat

(* A call completes once, whatever is still answered after an error.  Only *)
(* a config whose failure was told already may try again and raise.        *)
CompletesOnce ==
    dones <= 1 /\ (raised => kind = "config" /\ err)

(* A call that completes without an error has every piece in its place and *)
(* nothing of its own under way.                                           *)
SuccessIsWhole ==
    dones > 0 /\ ~err => stored \cup skipped = Chunk /\ pending \subseteq Others

(* No piece is sent after the first error (debug_core_client.py:94, 202,   *)
(* jtagdevice.py:352).                                                     *)
NothingAfterError == [][err => next' = next]_vars

(* A transfer of at least one piece completes, with a window of at least   *)
(* two.  The commands of others count against it: update_regs may miss its *)
(* end when one of them held the node, and config sends nothing, and is    *)
(* not called again, when they fill the window (jtagdevice.py:355).        *)
TransferEnds ==
    called /\ size > 0 ~> \/ dones > 0
                          \/ kind = "regs" /\ others > 0
                          \/ kind = "config" /\ others >= Window
=============================================================================

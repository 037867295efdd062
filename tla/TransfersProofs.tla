--------------------------- MODULE TransfersProofs ---------------------------
(***************************************************************************)
(* What holds of every transfer, whatever its size and the window.         *)
(***************************************************************************)
EXTENDS Transfers, FiniteSetTheorems, TLAPS

(* Before the call nothing is under way.                                   *)
NotCalled ==
    ~called => /\ next = 0 /\ pending = {} /\ dones = 0 /\ ~err
               /\ stored = {} /\ skipped = {} /\ ~allSent

(* Until an error, each piece sent is stored, skipped or under way.        *)
Accounted == ~err => 1 .. next = stored \cup skipped \cup (pending \cap Chunk)

(* Which tokens may be under way.                                          *)
Tokens ==
    /\ pending \cap Chunk \subseteq 1 .. next
    /\ Streamed => pending \subseteq Chunk
    /\ kind = "regs" => pending \subseteq Chunk \cup Others
    /\ allSent => next = size
    /\ kind = "regs" /\ called => allSent

(* The steps of a configuration come one after the other.                  *)
ConfigOrder ==
    kind = "config" =>
        /\ Begin \in pending => next = 0 /\ pending \subseteq {Begin} \cup Others /\ dones = 0 /\ ~err
        /\ End \in pending => next = size
        /\ Kids \in pending => next = size /\ pending \subseteq {Kids} \cup Others

(* How a call ends.                                                        *)
Outcome ==
    /\ dones <= 1
    /\ err /\ kind # "config" => dones = 1
    /\ dones = 1 /\ ~err => next = size /\ pending \subseteq Others
    /\ raised => kind = "config" /\ err

IInv == TypeOK /\ NotCalled /\ Accounted /\ Tokens /\ ConfigOrder /\ Outcome

-----------------------------------------------------------------------------
LEMMA PendingIsFinite ==
    ASSUME TypeOK, NEW p, p \subseteq pending
    PROVE  IsFiniteSet(p) /\ Cardinality(p) \in Nat
<1>1. Kids + MaxOther \in Int
  BY TransferAssumption DEF Kids
<1>2. IsFiniteSet(0 .. Kids + MaxOther)
  BY <1>1, FS_Interval
<1>3. p \subseteq 0 .. Kids + MaxOther
  BY DEF TypeOK
<1> QED
  BY <1>2, <1>3, FS_Subset, FS_CardinalityType

(* The sender goes on from where it is and never beyond the last piece,    *)
(* and it asks for one beyond the last only after that one was sent.       *)
LEMMA SendsInOrder ==
    ASSUME TypeOK, NEW p, p \subseteq pending
    PROVE  /\ LastSent(p) \in next .. size
           /\ RanOut(p) => LastSent(p) = size
<1>1. Cardinality(p) \in Nat
  BY PendingIsFinite
<1>2. next \in Nat /\ size \in Nat /\ next <= size /\ Window \in Nat
  BY TransferAssumption DEF TypeOK
<1>3. LastSent(p) \in next .. size
  BY <1>1, <1>2 DEF LastSent
<1>4. RanOut(p) => LastSent(p) = size
  BY <1>1, <1>2 DEF LastSent, RanOut
<1> QED
  BY <1>3, <1>4

(* The special tokens and those of others are none of the pieces.          *)
LEMMA TokensDiffer ==
    ASSUME TypeOK
    PROVE  /\ size \in Nat /\ next \in Nat /\ next <= size
           /\ Begin \notin Chunk /\ End \notin Chunk /\ Kids \notin Chunk /\ Chunk \cap Others = {}
           /\ Begin \notin Others /\ End \notin Others /\ Kids \notin Others
           /\ End # Kids /\ Begin # Kids /\ Begin # End
           /\ \A c \in Chunk : c < End /\ c < Kids /\ c \in 0 .. Kids + MaxOther
           /\ {Begin, End, Kids} \cup Others \subseteq 0 .. Kids + MaxOther
           /\ End < Kids
BY TransferAssumption DEF TypeOK, Chunk, Begin, End, Kids, Others

(* The type invariant after a step, from the types of what changed.        *)
LEMMA TypeStep ==
    ASSUME TypeOK, kind' = kind, size' = size,
           next' \in 0 .. size, pending' \subseteq 0 .. Kids + MaxOther,
           stored' \subseteq Chunk, skipped' \subseteq Chunk, dones' \in Nat, others' \in Nat,
           called' \in BOOLEAN, allSent' \in BOOLEAN, err' \in BOOLEAN, raised' \in BOOLEAN
    PROVE  TypeOK'
<1>1. Chunk' = Chunk /\ (0 .. Kids + MaxOther)' = 0 .. Kids + MaxOther
  BY DEF Chunk, Kids
<1> QED
  BY <1>1 DEF TypeOK

LEMMA InitHolds == Init => IInv
<1> SUFFICES ASSUME Init PROVE IInv
  OBVIOUS
<1>1. size \in Nat /\ MaxChunks \in Nat
  BY TransferAssumption DEF Init
<1>2. TypeOK
  <2>1. kind \in Kinds /\ size \in 0 .. MaxChunks /\ next \in 0 .. size
    BY <1>1 DEF Init
  <2>3. called \in BOOLEAN /\ allSent \in BOOLEAN /\ err \in BOOLEAN /\ raised \in BOOLEAN
    BY Zenon DEF Init
  <2>2. /\ pending \subseteq 0 .. Kids + MaxOther /\ stored \subseteq Chunk /\ skipped \subseteq Chunk
        /\ dones \in Nat /\ others \in Nat
    BY DEF Init
  <2> QED
    BY <2>1, <2>2, <2>3 DEF TypeOK
<1>3. Accounted
  BY <1>1 DEF Init, Accounted
<1>4. NotCalled /\ Tokens /\ ConfigOrder /\ Outcome
  BY DEF Init, NotCalled, Tokens, ConfigOrder, Outcome
<1> QED
  BY <1>2, <1>3, <1>4 DEF IInv

(* What sending keeps: p is what stays under way, d what was dealt with.   *)
LEMMA FillKeeps ==
    ASSUME IInv, NEW p, p \subseteq pending, Fill(p),
           UNCHANGED <<kind, size, err, dones, raised, others>>, called' = TRUE,
           stored' \subseteq Chunk, skipped' \subseteq Chunk,
           stored \cup skipped \cup (pending \cap Chunk) = stored' \cup skipped' \cup (p \cap Chunk),
           ~err, dones = 0, kind # "regs", Begin \notin p, Kids \notin p
    PROVE  IInv'
<1>1. LastSent(p) \in next .. size /\ (RanOut(p) => LastSent(p) = size)
  BY SendsInOrder DEF IInv
<1>2. /\ next' = LastSent(p)
      /\ pending' = p \cup (next + 1 .. next') \cup {t \in {End} : kind = "config" /\ next < size /\ next' = size}
      /\ allSent' = (allSent \/ (Streamed /\ RanOut(p)))
  BY DEF Fill
<1>3. size \in Nat /\ next \in Nat /\ next' \in Nat /\ next <= next' /\ next' <= size
  BY <1>1, <1>2, TokensDiffer DEF IInv
<1>4. TypeOK'
  <2>1. next + 1 .. next' \subseteq Chunk
    BY <1>3 DEF Chunk
  <2>2. pending' \subseteq 0 .. Kids + MaxOther
    BY <1>2, <2>1, TokensDiffer DEF IInv, TypeOK
  <2> QED
    BY <1>2, <1>3, <2>2 DEF IInv, TypeOK, Chunk, Kids, Fill
<1>5. Accounted'
  <2>1. 1 .. next' = (1 .. next) \cup (next + 1 .. next')
    BY <1>3
  <2>2. pending' \cap Chunk = (p \cap Chunk) \cup (next + 1 .. next')
    <3>1. next + 1 .. next' \subseteq Chunk
      BY <1>3 DEF Chunk
    <3> QED
      BY <1>2, <3>1, TokensDiffer DEF IInv
  <2>3. Chunk' = Chunk
    BY DEF Chunk
  <2> QED
    BY <2>1, <2>2, <2>3 DEF IInv, Accounted
<1>6. Tokens'
  <2>1. pending' \cap Chunk \subseteq 1 .. next'
    <3>1. p \cap Chunk \subseteq 1 .. next
      BY DEF IInv, Tokens
    <3> QED
      BY <1>2, <1>3, <3>1, TokensDiffer DEF IInv
  <2>2. Streamed => pending' \subseteq Chunk
    BY <1>2, <1>3 DEF IInv, Tokens, Streamed, Chunk
  <2>3. allSent' => next' = size
    <3>1. CASE allSent
      BY <1>3, <3>1 DEF IInv, Tokens
    <3>2. CASE ~allSent
      BY <1>1, <1>2, <3>2
    <3> QED
      BY <3>1, <3>2
  <2> QED
    BY <2>1, <2>2, <2>3 DEF Tokens, Streamed, Chunk
<1>7. ConfigOrder'
  <2>1. Begin \notin pending' /\ Kids \notin pending'
    BY <1>2, <1>3, TransferAssumption DEF Begin, Kids, End, IInv, TypeOK
  <2>2. kind = "config" /\ End \in pending' => next' = size
    <3>1. End \notin next + 1 .. next'
      BY <1>3, TransferAssumption DEF End, IInv, TypeOK
    <3> QED
      BY <1>2, <1>3, <3>1 DEF IInv, ConfigOrder
  <2> QED
    BY <2>1, <2>2 DEF ConfigOrder, Begin, End, Kids
<1>8. NotCalled' /\ Outcome'
  BY DEF IInv, NotCalled, Outcome
<1> QED
  BY <1>4, <1>5, <1>6, <1>7, <1>8 DEF IInv
-----------------------------------------------------------------------------
LEMMA StartKeeps == IInv /\ Start => IInv'
<1> SUFFICES ASSUME IInv, Start PROVE IInv'
  OBVIOUS
<1>1. /\ next = 0 /\ pending = {} /\ dones = 0 /\ ~err /\ stored = {} /\ skipped = {} /\ ~allSent
      /\ called' /\ UNCHANGED <<kind, size, stored, skipped, raised, others>>
  BY DEF IInv, NotCalled, Start
<1>2. size \in Nat
  BY TokensDiffer DEF IInv
<1>3. CASE Streamed /\ Fill({}) /\ UNCHANGED <<err, dones>>
  <2>1. kind # "regs" /\ {} \subseteq pending /\ called' = TRUE
    BY <1>3 DEF Streamed, Start
  <2>2. stored' \subseteq Chunk /\ skipped' \subseteq Chunk
    BY <1>1
  <2> QED
    BY <1>1, <1>3, <2>1, <2>2, FillKeeps
<1>4. CASE kind = "config" /\ pending' = {Begin} /\ UNCHANGED <<next, allSent, err, dones>>
  <2>1. TypeOK'
    <3>1. pending' \subseteq 0 .. Kids + MaxOther
      BY <1>1, <1>4, TokensDiffer DEF IInv
    <3>2. /\ kind' = kind /\ size' = size /\ next' = next /\ stored' = stored /\ skipped' = skipped
          /\ dones' = dones /\ others' = others /\ called' \in BOOLEAN /\ allSent' = allSent
          /\ err' = err /\ raised' = raised
      BY <1>1, <1>4
    <3>3. allSent' \in BOOLEAN /\ err' \in BOOLEAN /\ raised' \in BOOLEAN
      BY <3>2, Zenon DEF IInv, TypeOK
    <3> QED
      BY <3>1, <3>2, <3>3, TypeStep DEF IInv, TypeOK
  <2>2. Accounted'
    BY <1>1, <1>4, TokensDiffer DEF IInv, Accounted, Chunk
  <2>3. Tokens' /\ ConfigOrder' /\ Outcome' /\ NotCalled'
    BY <1>1, <1>4, TokensDiffer DEF IInv, Tokens, ConfigOrder, Outcome, NotCalled, Chunk, Streamed, Begin, End, Kids, Others
  <2> QED
    BY <2>1, <2>2, <2>3 DEF IInv
<1>5. CASE /\ kind = "regs" /\ next' = size /\ pending' = Chunk /\ allSent' = TRUE
           /\ IF size = 0 THEN err' = TRUE /\ dones' = 1 ELSE UNCHANGED <<err, dones>>
  <2>1. Chunk' = Chunk /\ Chunk \subseteq 0 .. Kids + MaxOther
    BY <1>1, TokensDiffer DEF IInv, Chunk
  <2>2. TypeOK'
    <3>1. /\ kind' = kind /\ size' = size /\ next' = size /\ pending' = Chunk /\ dones' \in Nat
          /\ others' = others /\ stored' = stored /\ skipped' = skipped
      BY <1>1, <1>5
    <3>2. called' \in BOOLEAN /\ allSent' \in BOOLEAN /\ err' \in BOOLEAN /\ raised' \in BOOLEAN
      <4>1. CASE size = 0
        BY <1>1, <1>5, <4>1, Zenon DEF IInv, TypeOK
      <4>2. CASE size # 0
        BY <1>1, <1>5, <4>2, Zenon DEF IInv, TypeOK
      <4> QED
        BY <4>1, <4>2
    <3> QED
      BY <1>2, <2>1, <3>1, <3>2, TypeStep DEF IInv, TypeOK
  <2>3. Accounted' /\ Tokens'
    BY <1>1, <1>2, <1>5, <2>1 DEF IInv, Accounted, Tokens, Chunk, Streamed
  <2>4. Outcome' /\ NotCalled' /\ ConfigOrder'
    BY <1>1, <1>2, <1>5 DEF IInv, Outcome, NotCalled, ConfigOrder, TypeOK
  <2> QED
    BY <2>2, <2>3, <2>4 DEF IInv
<1> QED
  BY <1>3, <1>4, <1>5 DEF Start
-----------------------------------------------------------------------------
(* An answer that matters finds the call neither failed nor complete.      *)
LEMMA AnswerFindsOpen ==
    ASSUME IInv, NEW c \in Chunk, c \in pending, ~Settled
    PROVE  ~err /\ dones = 0 /\ called /\ Begin \notin pending /\ Kids \notin pending
<1>1. c \notin Others /\ c # Begin /\ c # Kids
  BY TokensDiffer DEF IInv
<1>2. called
  BY DEF IInv, NotCalled
<1>3. dones \in Nat /\ dones <= 1
  BY DEF IInv, TypeOK, Outcome
<1>4. ~err
  BY <1>3 DEF IInv, Settled, Outcome
<1>5. dones = 0
  BY <1>1, <1>3, <1>4 DEF IInv, Outcome
<1>6. kind \in {"read", "write", "config", "regs"}
  BY TransferAssumption DEF IInv, TypeOK
<1>7. Begin \notin pending /\ Kids \notin pending
  <2>1. CASE kind = "config"
    BY <1>1, <2>1 DEF IInv, ConfigOrder
  <2>2. CASE kind # "config"
    BY <1>6, <2>2, TokensDiffer DEF IInv, Tokens, Streamed
  <2> QED
    BY <2>1, <2>2
<1> QED
  BY <1>2, <1>4, <1>5, <1>7

(* A step that takes a token away and sends nothing keeps the order.       *)
LEMMA TakenKeeps ==
    ASSUME IInv, pending' \subseteq pending, UNCHANGED <<kind, size, next>>,
           called' = called, called, allSent' = allSent,
           \/ err' = err /\ dones' = dones
           \/ kind # "config"
           \/ Begin \notin pending'
    PROVE  Tokens' /\ ConfigOrder' /\ NotCalled'
<1>1. Tokens'
  BY DEF IInv, Tokens, Chunk, Streamed
<1>2. ConfigOrder'
  BY DEF IInv, ConfigOrder, Begin, End, Kids
<1>3. NotCalled'
  BY DEF NotCalled
<1> QED
  BY <1>1, <1>2, <1>3

LEMMA FailedKeeps ==
    ASSUME IInv, NEW t, Failed(t), called, ~err, dones = 0,
           kind = "config" => Begin \notin pending \/ t = Begin,
           UNCHANGED <<kind, size, called, others>>
    PROVE  IInv'
<1>1. /\ err' = TRUE /\ pending' = pending \ {t} /\ dones' = 1 /\ raised' = raised
      /\ UNCHANGED <<next, allSent, stored, skipped>>
  BY DEF Failed, Complete
<1>2. TypeOK'
  <2>1. /\ next' \in 0 .. size /\ pending' \subseteq 0 .. Kids + MaxOther /\ stored' \subseteq Chunk /\ skipped' \subseteq Chunk
        /\ dones' \in Nat /\ others' \in Nat
    BY <1>1 DEF IInv, TypeOK
  <2>2. called' \in BOOLEAN /\ allSent' \in BOOLEAN /\ err' \in BOOLEAN /\ raised' \in BOOLEAN
    BY <1>1, Zenon DEF IInv, TypeOK
  <2> QED
    BY <2>1, <2>2, TypeStep DEF IInv
<1>3. Tokens' /\ ConfigOrder' /\ NotCalled'
  <2>1. pending' \subseteq pending /\ (kind = "config" => Begin \notin pending')
    BY <1>1
  <2> QED
    BY <1>1, <2>1, TakenKeeps
<1>4. Accounted' /\ Outcome'
  BY <1>1 DEF IInv, Accounted, Outcome
<1> QED
  BY <1>2, <1>3, <1>4 DEF IInv

LEMMA ChunkAnsweredKeeps ==
    ASSUME IInv, NEW c, ChunkAnswered(c)
    PROVE  IInv'
<1>1. /\ c \in Chunk /\ c \in pending
      /\ kind' = kind /\ size' = size /\ called' = called /\ others' = others
  BY DEF ChunkAnswered, MayAnswer
<1>2. c \notin Others /\ called
  BY <1>1, TokensDiffer DEF IInv, NotCalled
<1>3. CASE Settled /\ Ignored(c)
  <2>1. /\ pending' = pending \ {c} /\ next' = next /\ allSent' = allSent /\ err' = err /\ stored' = stored
        /\ skipped' = skipped /\ dones' = dones /\ raised' = raised
    BY <1>3 DEF Ignored
  <2>2. TypeOK'
    <3>1. called' \in BOOLEAN /\ allSent' \in BOOLEAN /\ err' \in BOOLEAN /\ raised' \in BOOLEAN
      BY <1>1, <2>1, Zenon DEF IInv, TypeOK
    <3> QED
      BY <1>1, <2>1, <3>1, TypeStep DEF IInv, TypeOK
  <2>3. Tokens' /\ ConfigOrder' /\ NotCalled'
    BY <1>1, <1>2, <2>1, TakenKeeps
  <2>4. err
    <3>1. dones > 0 /\ ~err => c \in Others
      BY <1>1 DEF IInv, TypeOK, Outcome
    <3> QED
      BY <1>2, <1>3, <3>1 DEF Settled
  <2>5. Accounted' /\ Outcome'
    BY <2>1, <2>4, <1>1 DEF IInv, Accounted, Outcome
  <2> QED
    BY <2>2, <2>3, <2>5 DEF IInv
<1>4. CASE ~Settled /\ StreamOk(c)
  <2>1. ~err /\ dones = 0 /\ Begin \notin pending /\ Kids \notin pending
    BY <1>1, <1>4, AnswerFindsOpen
  <2>2. Streamed /\ kind # "regs" /\ kind # "config" /\ err' = err
    BY <1>4 DEF StreamOk, Streamed
  <2>3. /\ stored' \subseteq Chunk /\ skipped' \subseteq Chunk
        /\ stored' \cup skipped' = stored \cup skipped \cup {c}
    BY <1>1, <1>4 DEF StreamOk, IInv, TypeOK
  <2>4. CASE /\ allSent /\ pending = {c} /\ Complete /\ pending' = {} /\ UNCHANGED <<next, allSent>>
    <3>1. next' = next /\ allSent' = allSent /\ dones' = 1 /\ raised' = raised
      BY <2>1, <2>2, <2>4 DEF Complete
    <3>2. TypeOK'
      <4>1. called' \in BOOLEAN /\ allSent' \in BOOLEAN /\ err' \in BOOLEAN /\ raised' \in BOOLEAN
        BY <1>1, <2>2, <3>1, Zenon DEF IInv, TypeOK
      <4>2. next' \in 0 .. size /\ pending' \subseteq 0 .. Kids + MaxOther /\ dones' \in Nat /\ others' \in Nat
        BY <1>1, <2>4, <3>1 DEF IInv, TypeOK
      <4> QED
        BY <1>1, <2>3, <4>1, <4>2, TypeStep DEF IInv
    <3>3. Tokens' /\ ConfigOrder' /\ NotCalled'
      BY <1>1, <1>2, <2>2, <2>4, <3>1, TakenKeeps
    <3>4. Accounted'
      BY <1>1, <2>1, <2>3, <2>4, <3>1 DEF IInv, Accounted, Chunk
    <3>5. Outcome'
      BY <1>1, <2>1, <2>2, <2>4, <3>1 DEF IInv, Outcome, Tokens
    <3> QED
      BY <3>2, <3>3, <3>4, <3>5 DEF IInv
  <2>5. CASE Fill(pending \ {c}) /\ UNCHANGED <<dones, raised>>
    <3>1. stored \cup skipped \cup (pending \cap Chunk)
            = stored' \cup skipped' \cup ((pending \ {c}) \cap Chunk)
      BY <1>1, <2>3
    <3>2. pending \ {c} \subseteq pending /\ Begin \notin pending \ {c} /\ Kids \notin pending \ {c}
      BY <2>1
    <3>3. called' = TRUE
      BY <1>1, <1>2, Zenon DEF IInv, TypeOK
    <3> QED
      BY <1>1, <2>1, <2>2, <2>3, <2>5, <3>1, <3>2, <3>3, FillKeeps
  <2> QED
    BY <1>4, <2>4, <2>5 DEF StreamOk
<1>5. CASE ~Settled /\ ConfigOk(c)
  <2>1. ~err /\ dones = 0 /\ Begin \notin pending /\ Kids \notin pending
    BY <1>1, <1>5, AnswerFindsOpen
  <2>2. /\ kind # "regs" /\ Fill(pending \ {c}) /\ UNCHANGED <<err, skipped, dones, raised>>
        /\ stored' = stored \cup {c}
    BY <1>5 DEF ConfigOk
  <2>3. stored \cup skipped \cup (pending \cap Chunk)
          = stored' \cup skipped' \cup ((pending \ {c}) \cap Chunk)
    BY <1>1, <2>2
  <2>4. /\ pending \ {c} \subseteq pending /\ Begin \notin pending \ {c} /\ Kids \notin pending \ {c}
        /\ stored' \subseteq Chunk /\ skipped' \subseteq Chunk
    BY <1>1, <2>1, <2>2 DEF IInv, TypeOK
  <2>5. called' = TRUE
    BY <1>1, <1>2, Zenon DEF IInv, TypeOK
  <2> QED
    BY <1>1, <2>1, <2>2, <2>3, <2>4, <2>5, FillKeeps
<1>6. CASE ~Settled /\ RegOk(c)
  <2>1. ~err /\ dones = 0
    BY <1>1, <1>6, AnswerFindsOpen
  <2>2. /\ kind = "regs" /\ stored' = stored \cup {c} /\ pending' = pending \ {c} /\ err' = err
        /\ next' = next /\ allSent' = allSent /\ skipped' = skipped /\ raised' = raised
        /\ dones' = IF pending = {c} THEN 1 ELSE 0
    BY <1>6, <2>1 DEF RegOk, Complete
  <2>3. TypeOK'
    <3>1. called' \in BOOLEAN /\ allSent' \in BOOLEAN /\ err' \in BOOLEAN /\ raised' \in BOOLEAN
      BY <1>1, <2>2, Zenon DEF IInv, TypeOK
    <3>2. /\ next' \in 0 .. size /\ pending' \subseteq 0 .. Kids + MaxOther /\ stored' \subseteq Chunk
          /\ skipped' \subseteq Chunk /\ dones' \in Nat /\ others' \in Nat
      BY <1>1, <2>2 DEF IInv, TypeOK
    <3> QED
      BY <1>1, <3>1, <3>2, TypeStep DEF IInv
  <2>4. Tokens' /\ ConfigOrder' /\ NotCalled'
    BY <1>1, <1>2, <2>2, TakenKeeps
  <2>5. Accounted'
    BY <1>1, <2>1, <2>2 DEF IInv, Accounted, Chunk
  <2>6. Outcome'
    BY <1>1, <1>2, <2>1, <2>2 DEF IInv, Outcome, Tokens
  <2> QED
    BY <2>3, <2>4, <2>5, <2>6 DEF IInv
<1>7. CASE ~Settled /\ Failed(c)
  BY <1>1, <1>2, <1>7, AnswerFindsOpen, FailedKeeps
<1> QED
  BY <1>3, <1>4, <1>5, <1>6, <1>7 DEF ChunkAnswered
-----------------------------------------------------------------------------

(* Only a configuration has one of the three special tokens under way.     *)
LEMMA OnlyConfig ==
    ASSUME IInv, NEW t \in {Begin, End, Kids}, t \in pending
    PROVE  kind = "config" /\ called
<1>1. t \notin Chunk /\ t \notin Others
  BY TokensDiffer DEF IInv
<1>2. kind \in {"read", "write", "config", "regs"}
  BY TransferAssumption DEF IInv, TypeOK
<1> QED
  BY <1>1, <1>2 DEF IInv, Tokens, Streamed, NotCalled

LEMMA BegunKeeps == IInv /\ Begun => IInv'
<1> SUFFICES ASSUME IInv, Begun PROVE IInv'
  OBVIOUS
<1>1. Begin \in pending /\ UNCHANGED <<kind, size, called, others>>
  BY DEF Begun, MayAnswer
<1>2. kind = "config" /\ called
  BY <1>1, OnlyConfig
<1>3. next = 0 /\ pending \subseteq {Begin} \cup Others /\ dones = 0 /\ ~err
  BY <1>1, <1>2 DEF IInv, ConfigOrder
<1>4. CASE Fill(pending \ {Begin}) /\ UNCHANGED <<err, stored, skipped, dones, raised>>
  <2>1. /\ pending \ {Begin} \subseteq pending
        /\ Begin \notin pending \ {Begin} /\ Kids \notin pending \ {Begin}
        /\ pending \cap Chunk = (pending \ {Begin}) \cap Chunk
    BY <1>3, TokensDiffer DEF IInv
  <2>2. stored' \subseteq Chunk /\ skipped' \subseteq Chunk
    BY <1>4 DEF IInv, TypeOK
  <2>3. called' = TRUE
    BY <1>1, <1>2, Zenon DEF IInv, TypeOK
  <2> QED
    BY <1>1, <1>2, <1>3, <1>4, <2>1, <2>2, <2>3, FillKeeps
<1>5. CASE Failed(Begin)
  BY <1>1, <1>2, <1>3, <1>5, FailedKeeps
<1> QED
  BY <1>4, <1>5 DEF Begun

LEMMA EndedKeeps == IInv /\ Ended => IInv'
<1> SUFFICES ASSUME IInv, Ended PROVE IInv'
  OBVIOUS
<1> PICK e \in BOOLEAN : err' = (err \/ e)
  BY DEF Ended
<1>1. /\ End \in pending /\ pending' = (pending \ {End}) \cup {Kids}
      /\ UNCHANGED <<kind, size, called, next, allSent, stored, skipped, dones, raised, others>>
  BY DEF Ended, MayAnswer
<1>2. kind = "config" /\ called
  BY <1>1, OnlyConfig
<1>3. pending \subseteq {End} \cup Others /\ next = size
  <2>1. next = size /\ (Kids \in pending => End \in {Kids} \cup Others)
    BY <1>1, <1>2 DEF IInv, ConfigOrder
  <2>2. Kids \notin pending
    BY <2>1, TokensDiffer DEF IInv
  <2>3. \A u \in pending \ Others : u \in 0 .. Kids + MaxOther /\ End <= u
    BY <1>2 DEF Ended, MayAnswer, IInv, TypeOK
  <2>4. \A u \in 0 .. Kids + MaxOther : u \notin Others /\ u # Kids /\ End <= u => u = End
    BY TransferAssumption DEF End, Kids, Others
  <2> QED
    BY <2>1, <2>2, <2>3, <2>4
<1>4. TypeOK'
  <2>1. called' \in BOOLEAN /\ allSent' \in BOOLEAN /\ err' \in BOOLEAN /\ raised' \in BOOLEAN
    <3>1. err' \in BOOLEAN
      BY Zenon DEF IInv, TypeOK
    <3> QED
      BY <1>1, <3>1, Zenon DEF IInv, TypeOK
  <2>2. /\ next' \in 0 .. size /\ pending' \subseteq 0 .. Kids + MaxOther /\ stored' \subseteq Chunk
        /\ skipped' \subseteq Chunk /\ dones' \in Nat /\ others' \in Nat
    BY <1>1, TokensDiffer DEF IInv, TypeOK
  <2> QED
    BY <1>1, <2>1, <2>2, TypeStep DEF IInv
<1>5. Accounted'
  <2>1. pending' \cap Chunk = pending \cap Chunk
    BY <1>1, TokensDiffer DEF IInv
  <2> QED
    BY <1>1, <2>1 DEF IInv, Accounted, Chunk
<1>6. Tokens' /\ NotCalled'
  <2>1. pending' \cap Chunk \subseteq 1 .. next'
    BY <1>1, TokensDiffer DEF IInv, Tokens
  <2> QED
    BY <1>1, <1>2, <2>1 DEF IInv, Tokens, Streamed, Chunk, NotCalled
<1>7. ConfigOrder'
  <2>1. pending' \subseteq {Kids} \cup Others /\ next' = size
    BY <1>1, <1>3
  <2> QED
    BY <1>1, <2>1, TokensDiffer DEF IInv, ConfigOrder, Begin, End, Kids, Others
<1>8. Outcome'
  <2>1. End \notin Others /\ (dones = 1 /\ ~err => pending \subseteq Others)
    BY TokensDiffer DEF IInv, Outcome
  <2> QED
    BY <1>1, <1>2, <2>1 DEF IInv, Outcome
<1> QED
  BY <1>4, <1>5, <1>6, <1>7, <1>8 DEF IInv

LEMMA ListedKeeps == IInv /\ Listed => IInv'
<1> SUFFICES ASSUME IInv, Listed PROVE IInv'
  OBVIOUS
<1> PICK e \in BOOLEAN : err' = (err \/ e)
  BY DEF Listed
<1>1. /\ Kids \in pending /\ pending' = pending \ {Kids} /\ Complete
      /\ UNCHANGED <<kind, size, called, next, allSent, stored, skipped, others>>
  BY DEF Listed, MayAnswer
<1>2. kind = "config" /\ called
  BY <1>1, OnlyConfig
<1>3. next = size /\ pending \subseteq {Kids} \cup Others
  BY <1>1, <1>2 DEF IInv, ConfigOrder
<1>4. dones \in Nat /\ dones <= 1 /\ (dones = 1 => err)
  BY <1>1, TokensDiffer DEF IInv, TypeOK, Outcome
<1>5. dones' = 1 /\ (raised' = raised \/ (raised' = TRUE /\ err))
  BY <1>1, <1>2, <1>4 DEF Complete
<1>6. TypeOK'
  <2>1. called' \in BOOLEAN /\ allSent' \in BOOLEAN /\ err' \in BOOLEAN
    <3>1. err' \in BOOLEAN
      BY Zenon DEF IInv, TypeOK
    <3> QED
      BY <1>1, <3>1, Zenon DEF IInv, TypeOK
  <2>2. raised' \in BOOLEAN
    BY <1>5, Zenon DEF IInv, TypeOK
  <2>3. /\ next' \in 0 .. size /\ pending' \subseteq 0 .. Kids + MaxOther /\ stored' \subseteq Chunk
        /\ skipped' \subseteq Chunk /\ dones' \in Nat /\ others' \in Nat
    BY <1>1, <1>5 DEF IInv, TypeOK
  <2> QED
    BY <1>1, <2>1, <2>2, <2>3, TypeStep DEF IInv
<1>7. Accounted'
  <2>1. pending' \cap Chunk = pending \cap Chunk
    BY <1>1, TokensDiffer DEF IInv
  <2> QED
    BY <1>1, <2>1 DEF IInv, Accounted, Chunk
<1>8. Tokens' /\ ConfigOrder' /\ NotCalled'
  <2>1. pending' \subseteq pending /\ Begin \notin pending'
    BY <1>1, <1>3, TokensDiffer DEF IInv
  <2> QED
    BY <1>1, <1>2, <2>1, TakenKeeps
<1>9. Outcome'
  <2>1. pending' \subseteq Others /\ kind' = "config" /\ next' = size'
    BY <1>1, <1>2, <1>3
  <2>2. raised' => err
    BY <1>5, Zenon DEF IInv, Outcome
  <2>3. err => err'
    BY Zenon
  <2>4. dones' <= 1 /\ dones' = 1
    BY <1>5
  <2>5. raised' => kind' = "config" /\ err'
    BY <2>1, <2>2, <2>3, Zenon
  <2> QED
    BY <2>1, <2>4, <2>5, Zenon DEF Outcome
<1> QED
  BY <1>6, <1>7, <1>8, <1>9 DEF IInv

(* The other commands on the node change nothing but the pending set.      *)
LEMMA OtherKeeps == IInv /\ (OtherStarts \/ OtherEnds) => IInv'
<1> SUFFICES ASSUME IInv, OtherStarts \/ OtherEnds PROVE IInv'
  OBVIOUS
<1>1. /\ pending \ Others = pending' \ Others /\ pending' \subseteq pending \cup Others
      /\ others' \in Nat /\ called' = called /\ kind' = kind /\ size' = size /\ next' = next /\ allSent' = allSent
      /\ err' = err /\ stored' = stored /\ skipped' = skipped /\ dones' = dones /\ raised' = raised
  <2>1. CASE OtherStarts
    <3>1. Kids + others' \in Others
      BY <2>1, TransferAssumption DEF IInv, TypeOK, OtherStarts, Others, Kids
    <3> QED
      BY <2>1, <3>1 DEF IInv, TypeOK, OtherStarts
  <2>2. CASE OtherEnds
    BY <2>2 DEF IInv, TypeOK, OtherEnds
  <2> QED
    BY <2>1, <2>2
<1>2. called /\ (pending' \cap Others # {} => ~Streamed)
  BY TokensDiffer DEF IInv, OtherStarts, OtherEnds, NotCalled, Tokens
<1>3. TypeOK'
  <2>1. called' \in BOOLEAN /\ allSent' \in BOOLEAN /\ err' \in BOOLEAN /\ raised' \in BOOLEAN
    BY <1>1, Zenon DEF IInv, TypeOK
  <2>2. pending' \subseteq 0 .. Kids + MaxOther
    BY <1>1, TokensDiffer DEF IInv, TypeOK
  <2> QED
    BY <1>1, <2>1, <2>2, TypeStep DEF IInv, TypeOK
<1>4. pending' \cap Chunk = pending \cap Chunk /\ Chunk' = Chunk
  BY <1>1, TokensDiffer DEF IInv, Chunk
<1>5. Accounted'
  BY <1>1, <1>4 DEF IInv, Accounted
<1>6. Tokens' /\ NotCalled'
  BY <1>1, <1>2, <1>4 DEF IInv, Tokens, Streamed, NotCalled
<1>7. ConfigOrder'
  <2>1. \A t \in {Begin, End, Kids} : t \in pending' <=> t \in pending
    BY <1>1, TokensDiffer DEF IInv
  <2> QED
    BY <1>1, <2>1 DEF IInv, ConfigOrder, Begin, End, Kids, Others
<1>8. Outcome'
  BY <1>1 DEF IInv, Outcome
<1> QED
  BY <1>3, <1>5, <1>6, <1>7, <1>8 DEF IInv

LEMMA StutterKeeps == IInv /\ UNCHANGED vars => IInv'
BY DEF IInv, vars, TypeOK, NotCalled, Accounted, Tokens, ConfigOrder, Outcome, Chunk, Others, Streamed, Begin, End, Kids

-----------------------------------------------------------------------------
(* The inductive invariant: what was sent is accounted for until an error, *)
(* and the steps of a configuration exclude one another.                   *)
THEOREM Invariant == Spec => []IInv
<1>1. IInv /\ [Next]_vars => IInv'
  BY StartKeeps, ChunkAnsweredKeeps, BegunKeeps, EndedKeeps, ListedKeeps, OtherKeeps, StutterKeeps
     DEF Next, Answer
<1> QED
  BY InitHolds, <1>1, PTL DEF Spec

(* The variables of a transfer keep their types (debug_core_client.py:65-  *)
(* 144, jtagdevice.py:298-413).                                            *)
THEOREM TypeCorrect == Spec => []TypeOK
BY Invariant, PTL DEF IInv

(* A transfer never tells its caller twice, in any order of the answers    *)
(* (debug_core_client.py:105-144, jtagdevice.py:369-410).                  *)
THEOREM CompletionIsOnce == Spec => []CompletesOnce
<1>1. IInv => CompletesOnce
  BY DEF IInv, Outcome, CompletesOnce
<1> QED
  BY Invariant, <1>1, PTL

(* A transfer that reports success has dealt with every piece, for every   *)
(* size and every window (debug_core_client.py:102-132).                   *)
THEOREM SuccessIsComplete == Spec => []SuccessIsWhole
<1>1. IInv => SuccessIsWhole
  <2> SUFFICES ASSUME IInv, dones > 0, ~err
               PROVE  stored \cup skipped = Chunk /\ pending \subseteq Others
    BY DEF SuccessIsWhole
  <2>1. next = size /\ pending \subseteq Others
    BY DEF IInv, Outcome, TypeOK
  <2>2. pending \cap Chunk = {}
    BY <2>1, TokensDiffer DEF IInv
  <2> QED
    BY <2>1, <2>2 DEF IInv, Accounted, Chunk
<1> QED
  BY Invariant, <1>1, PTL

(* Once a call has failed it sends no further piece (debug_core_client.py: *)
(* 94, 202, jtagdevice.py:352).                                            *)
THEOREM ErrorStopsSending == Spec => NothingAfterError
<1>1. IInv /\ [Next]_vars => [err => next' = next]_vars
  <2> SUFFICES ASSUME IInv, Next, err PROVE next' = next
    OBVIOUS
  <2>1. CASE Start
    BY <2>1 DEF Start, IInv, NotCalled
  <2>2. ASSUME NEW c \in Chunk, ChunkAnswered(c) PROVE next' = next
    <3>1. c \in pending
      BY <2>2 DEF ChunkAnswered, MayAnswer
    <3>2. Settled
      BY <3>1, AnswerFindsOpen
    <3> QED
      BY <2>2, <3>2 DEF ChunkAnswered, Ignored
  <2>3. CASE Begun
    <3>1. Begin \in pending
      BY <2>3 DEF Begun, MayAnswer
    <3>2. kind = "config"
      BY <3>1, OnlyConfig
    <3> QED
      BY <3>1, <3>2 DEF IInv, ConfigOrder
  <2>4. CASE Ended \/ Listed \/ OtherStarts \/ OtherEnds
    BY <2>4 DEF Ended, Listed, OtherStarts, OtherEnds
  <2> QED
    BY <2>1, <2>2, <2>3, <2>4 DEF Next, Answer
<1> QED
  BY Invariant, <1>1, PTL DEF Spec, NothingAfterError
=============================================================================

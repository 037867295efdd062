--------------------------- MODULE SequenceLemmas ---------------------------
(* Facts about sequences that the proofs of several components rest on.    *)
EXTENDS Integers, FiniteSets, SequencesExt, SequenceTheorems, FiniteSetTheorems, TLAPS

(* What a queue holds after an append (EventQueue.invokeLater).            *)
LEMMA ToSetAppend ==
    ASSUME NEW S, NEW s \in Seq(S), NEW e \in S
    PROVE  /\ Append(s, e) \in Seq(S)
           /\ ToSet(Append(s, e)) = ToSet(s) \cup {e}
  BY AppendProperties DEF ToSet

(* What a queue holds is of the kind of its messages.                      *)
LEMMA SeqHolds ==
    ASSUME NEW S, NEW s \in Seq(S), NEW e \in ToSet(s)
    PROVE  e \in S
<1>1. PICK i \in 1 .. Len(s) : s[i] = e
  BY LenProperties DEF ToSet
<1>. QED BY <1>1, ElementOfSeq

(* What two sequences hold together (the messages the writer has written). *)
LEMMA ToSetConcat ==
    ASSUME NEW S, NEW s \in Seq(S), NEW t \in Seq(S)
    PROVE  /\ s \o t \in Seq(S)
           /\ ToSet(s \o t) = ToSet(s) \cup ToSet(t)
<1>1. /\ s \o t \in Seq(S)
      /\ DOMAIN s = 1 .. Len(s) /\ DOMAIN t = 1 .. Len(t)
      /\ DOMAIN (s \o t) = 1 .. Len(s) + Len(t)
      /\ Len(s) \in Nat /\ Len(t) \in Nat
  BY LenProperties, ConcatProperties
<1>2. \A i \in 1 .. Len(s) + Len(t) :
        (s \o t)[i] = IF i <= Len(s) THEN s[i] ELSE t[i - Len(s)]
  BY ConcatProperties
<1>3. \A x \in ToSet(s) : x \in ToSet(s \o t)
  BY <1>1, <1>2 DEF ToSet
<1>4. \A x \in ToSet(t) : x \in ToSet(s \o t)
  <2>. SUFFICES ASSUME NEW i \in 1 .. Len(t) PROVE t[i] \in ToSet(s \o t)
    BY <1>1 DEF ToSet
  <2>1. Len(s) + i \in 1 .. Len(s) + Len(t) /\ (s \o t)[Len(s) + i] = t[i]
    BY <1>1, <1>2
  <2>. QED BY <1>1, <2>1 DEF ToSet
<1>5. \A x \in ToSet(s \o t) : x \in ToSet(s) \cup ToSet(t)
  <2>. SUFFICES ASSUME NEW i \in 1 .. Len(s) + Len(t)
                PROVE  (s \o t)[i] \in ToSet(s) \cup ToSet(t)
    BY <1>1 DEF ToSet
  <2>1. CASE i <= Len(s)
    BY <1>1, <1>2, <2>1 DEF ToSet
  <2>2. CASE ~(i <= Len(s))
    <3>1. i - Len(s) \in 1 .. Len(t) /\ (s \o t)[i] = t[i - Len(s)]
      BY <1>1, <1>2, <2>2
    <3>. QED BY <1>1, <3>1 DEF ToSet
  <2>. QED BY <2>1, <2>2
<1>. QED BY <1>1, <1>3, <1>4, <1>5

(* What is left of a queue after a pop (EventQueue.__call__).              *)
LEMMA ToSetTail ==
    ASSUME NEW S, NEW s \in Seq(S), s # <<>>
    PROVE  /\ Head(s) \in S /\ Tail(s) \in Seq(S)
           /\ ToSet(s) = {Head(s)} \cup ToSet(Tail(s))
           /\ s = <<Head(s)>> \o Tail(s)
<1>1. Head(s) \in S /\ Tail(s) \in Seq(S) /\ Len(s) \in Nat \ {0} /\ Len(Tail(s)) = Len(s) - 1
  BY HeadTailProperties, EmptySeq
<1>2. \A i \in 1 .. Len(Tail(s)) : Tail(s)[i] = s[i + 1]
  BY HeadTailProperties
<1>3. ToSet(s) = {Head(s)} \cup ToSet(Tail(s))
  <2>1. \A x \in ToSet(s) : x \in {Head(s)} \cup ToSet(Tail(s))
    <3> SUFFICES ASSUME NEW i \in 1 .. Len(s) PROVE s[i] \in {Head(s)} \cup ToSet(Tail(s))
      BY LenProperties DEF ToSet
    <3>1. CASE i = 1
      BY <3>1
    <3>2. CASE i # 1
      <4>1. i - 1 \in 1 .. Len(Tail(s)) /\ s[i] = Tail(s)[i - 1]
        BY <1>1, <1>2, <3>2
      <4>. QED BY <1>1, <4>1, LenProperties DEF ToSet
    <3>. QED BY <3>1, <3>2
  <2>2. \A x \in ToSet(Tail(s)) : x \in ToSet(s)
    <3> SUFFICES ASSUME NEW i \in 1 .. Len(Tail(s)) PROVE Tail(s)[i] \in ToSet(s)
      BY <1>1, LenProperties DEF ToSet
    <3>1. i + 1 \in 1 .. Len(s) /\ Tail(s)[i] = s[i + 1]
      BY <1>1, <1>2
    <3>. QED BY <3>1, LenProperties DEF ToSet
  <2>3. Head(s) \in ToSet(s)
    <3>1. 1 \in 1 .. Len(s) /\ Head(s) = s[1]
      BY <1>1
    <3>. QED BY <3>1, LenProperties DEF ToSet
  <2>. QED BY <2>1, <2>2, <2>3
<1>4. s = <<Head(s)>> \o Tail(s)
  BY <1>1
<1>. QED BY <1>1, <1>3, <1>4

(* A message that goes to the head of a queue (deque.appendleft).          *)
LEMMA PushProperties ==
    ASSUME NEW S, NEW s \in Seq(S), NEW e \in S
    PROVE  /\ <<e>> \o s \in Seq(S)
           /\ DOMAIN (<<e>> \o s) = 1 .. Len(s) + 1
           /\ (<<e>> \o s)[1] = e
           /\ \A i \in 2 .. Len(s) + 1 : (<<e>> \o s)[i] = s[i - 1]
           /\ ToSet(<<e>> \o s) = {e} \cup ToSet(s)
<1>. DEFINE t == <<e>>
<1>1. t \in Seq(S) /\ Len(t) = 1 /\ t[1] = e
  OBVIOUS
<1>2. ToSet(t) = {e}
  BY DEF ToSet
<1>. HIDE DEF t
<1>3. t \o s \in Seq(S) /\ ToSet(t \o s) = ToSet(t) \cup ToSet(s)
  BY <1>1, ToSetConcat
<1>4. /\ Len(t \o s) = Len(s) + 1 /\ Len(s) \in Nat
      /\ \A i \in 1 .. Len(s) + 1 : (t \o s)[i] = IF i <= 1 THEN t[i] ELSE s[i - 1]
  <2>1. /\ Len(t \o s) = Len(t) + Len(s)
        /\ \A i \in 1 .. Len(t) + Len(s) : (t \o s)[i] = IF i <= Len(t) THEN t[i] ELSE s[i - Len(t)]
    BY ONLY <1>1, s \in Seq(S), ConcatProperties
  <2>2. Len(s) \in Nat /\ Len(t) + Len(s) = Len(s) + 1
    BY <1>1, LenProperties
  <2>. QED BY <1>1, <2>1, <2>2
<1>5. DOMAIN (t \o s) = 1 .. Len(s) + 1
  BY <1>3, <1>4, LenProperties
<1>6. (t \o s)[1] = e /\ \A i \in 2 .. Len(s) + 1 : (t \o s)[i] = s[i - 1]
  BY <1>1, <1>4
<1>. QED BY <1>2, <1>3, <1>5, <1>6 DEF t

(* An element inserted in order keeps the queue a sequence (invokeLaterWithDelay). *)
LEMMA InsertAtSeq ==
    ASSUME NEW S, NEW s \in Seq(S), NEW e \in S, NEW i \in 1 .. Len(s) + 1
    PROVE  InsertAt(s, i, e) \in Seq(S)
<1>1. \A k \in 1 .. i - 1 : s[k] \in S
  BY ElementOfSeq, LenProperties
<1>2. \A k \in i .. Len(s) : s[k] \in S
  BY ElementOfSeq, LenProperties
<1>3. i \in Int /\ Len(s) \in Int
  BY LenProperties
<1>4. SubSeq(s, 1, i - 1) \in Seq(S)
  BY <1>1, <1>3, SubSeqProperties
<1>5. SubSeq(s, i, Len(s)) \in Seq(S)
  BY <1>2, <1>3, SubSeqProperties
<1>6. <<e>> \in Seq(S)
  OBVIOUS
<1>7. SubSeq(s, 1, i - 1) \o <<e>> \in Seq(S)
  BY <1>4, <1>6, ConcatProperties
<1>. QED BY <1>5, <1>7, ConcatProperties DEF InsertAt

(* The indices of a sequence that satisfy a test are at most its length.   *)
LEMMA PrefixCount ==
    ASSUME NEW S, NEW s \in Seq(S), NEW I \in SUBSET (DOMAIN s)
    PROVE  Cardinality(I) + 1 \in 1 .. Len(s) + 1
<1>1. DOMAIN s = 1 .. Len(s) /\ Len(s) \in Nat
  BY LenProperties
<1>2. IsFiniteSet(1 .. Len(s)) /\ Cardinality(1 .. Len(s)) = Len(s)
  <2>1. 1 \in Int /\ Len(s) \in Int
    BY <1>1
  <2>2. IsFiniteSet(1 .. Len(s)) /\ Cardinality(1 .. Len(s)) = IF 1 > Len(s) THEN 0 ELSE Len(s) - 1 + 1
    BY ONLY <2>1, FS_Interval
  <2>. QED BY <1>1, <2>2
<1>3. IsFiniteSet(I) /\ Cardinality(I) <= Len(s)
  BY <1>1, <1>2, FS_Subset
<1>4. Cardinality(I) \in Nat
  BY <1>3, FS_CardinalityType
<1>. QED BY <1>1, <1>3, <1>4

-----------------------------------------------------------------------------
(* How often a sequence holds an element (a callback that is posted).      *)
Times(s, e) == Cardinality({i \in DOMAIN s : s[i] = e})

LEMMA TimesFinite ==
    ASSUME NEW S, NEW s \in Seq(S), NEW e
    PROVE  IsFiniteSet({i \in DOMAIN s : s[i] = e}) /\ Times(s, e) \in Nat
<1>1. DOMAIN s = 1 .. Len(s) /\ Len(s) \in Int /\ 1 \in Int
  BY LenProperties
<1>2. IsFiniteSet(1 .. Len(s))
  BY ONLY <1>1, FS_Interval
<1>3. {i \in DOMAIN s : s[i] = e} \subseteq 1 .. Len(s)
  BY <1>1
<1>4. IsFiniteSet({i \in DOMAIN s : s[i] = e})
  BY <1>2, <1>3, FS_Subset
<1> QED
  BY <1>4, FS_CardinalityType DEF Times

LEMMA TimesEmpty ==
    ASSUME NEW e
    PROVE  Times(<<>>, e) = 0
<1>1. {i \in DOMAIN <<>> : <<>>[i] = e} = {}
  OBVIOUS
<1> QED
  BY <1>1, FS_EmptySet DEF Times

LEMMA TimesPositive ==
    ASSUME NEW S, NEW s \in Seq(S), NEW e
    PROVE  e \in ToSet(s) <=> Times(s, e) > 0
<1> DEFINE I == {i \in DOMAIN s : s[i] = e}
<1>1. IsFiniteSet(I) /\ Cardinality(I) \in Nat /\ Times(s, e) = Cardinality(I)
  BY TimesFinite DEF Times
<1>2. DOMAIN s = 1 .. Len(s)
  BY LenProperties
<1>3. e \in ToSet(s) <=> I # {}
  BY <1>2 DEF ToSet
<1>4. I = {} <=> Cardinality(I) = 0
  <2> HIDE DEF I
  <2> QED
    BY <1>1, FS_EmptySet
<1> HIDE DEF I
<1> QED
  BY <1>1, <1>3, <1>4

LEMMA TimesAppend ==
    ASSUME NEW S, NEW s \in Seq(S), NEW d \in S, NEW e
    PROVE  Times(Append(s, d), e) = Times(s, e) + (IF d = e THEN 1 ELSE 0)
<1> DEFINE I == {i \in DOMAIN s : s[i] = e}
           J == {i \in DOMAIN Append(s, d) : Append(s, d)[i] = e}
<1>1. /\ DOMAIN s = 1 .. Len(s) /\ Len(s) \in Nat
      /\ DOMAIN Append(s, d) = 1 .. Len(s) + 1
      /\ \A i \in 1 .. Len(s) : Append(s, d)[i] = s[i]
      /\ Append(s, d)[Len(s) + 1] = d
  BY AppendProperties, LenProperties
<1>2. IsFiniteSet(I) /\ Cardinality(I) \in Nat
  BY TimesFinite DEF Times
<1>3. CASE d = e
  <2>1. \A i \in 1 .. Len(s) + 1 : i \in 1 .. Len(s) \/ i = Len(s) + 1
    BY <1>1
  <2>2. Len(s) + 1 \notin 1 .. Len(s) /\ 1 .. Len(s) \subseteq 1 .. Len(s) + 1 /\ Len(s) + 1 \in 1 .. Len(s) + 1
    BY <1>1
  <2>3. J = I \cup {Len(s) + 1} /\ Len(s) + 1 \notin I
    BY <1>1, <1>3, <2>1, <2>2
  <2>4. Cardinality(J) = Cardinality(I) + 1
    BY <1>2, <2>3, FS_AddElement
  <2> QED
    BY <1>3, <2>4 DEF Times
<1>4. CASE d # e
  <2>1. J = I
    BY <1>1, <1>4
  <2>2. Times(Append(s, d), e) = Cardinality(I) /\ Times(s, e) = Cardinality(I)
    BY <2>1 DEF Times
  <2> HIDE DEF I
  <2> QED
    BY <1>2, <1>4, <2>2
<1> QED
  BY <1>3, <1>4

LEMMA TimesTail ==
    ASSUME NEW S, NEW s \in Seq(S), s # <<>>, NEW e
    PROVE  Times(s, e) = Times(Tail(s), e) + (IF Head(s) = e THEN 1 ELSE 0)
<1> DEFINE I == {i \in DOMAIN s : s[i] = e}
           J == {i \in DOMAIN Tail(s) : Tail(s)[i] = e}
           K == {i \in I : i # 1}
           f == [j \in J |-> j + 1]
<1>1. /\ Tail(s) \in Seq(S) /\ Len(s) \in Nat \ {0} /\ Len(Tail(s)) = Len(s) - 1
      /\ DOMAIN s = 1 .. Len(s) /\ DOMAIN Tail(s) = 1 .. Len(s) - 1
      /\ \A i \in 1 .. Len(s) - 1 : Tail(s)[i] = s[i + 1]
      /\ Head(s) = s[1]
  BY HeadTailProperties, EmptySeq, LenProperties
<1>2. IsFiniteSet(I) /\ IsFiniteSet(J) /\ Cardinality(J) \in Nat
  BY <1>1, TimesFinite DEF Times
<1>3. f \in Bijection(J, K)
  <2>1. f \in [J -> K]
    BY <1>1
  <2>2. \A a, b \in J : f[a] = f[b] => a = b
    BY <1>1
  <2>3. \A k \in K : \E j \in J : f[j] = k
    <3> SUFFICES ASSUME NEW k \in K PROVE \E j \in J : f[j] = k
      OBVIOUS
    <3>1. k - 1 \in J /\ f[k - 1] = k
      BY <1>1
    <3> QED
      BY <3>1
  <2> QED
    BY <2>1, <2>2, <2>3 DEF Bijection, Injection, IsInjective, Surjection
<1>4. Cardinality(K) = Cardinality(J) /\ IsFiniteSet(K)
  <2>1. ExistsBijection(J, K)
    BY <1>3, Zenon DEF ExistsBijection
  <2> HIDE DEF J, K
  <2> QED
    BY <1>2, <2>1, FS_Bijection
<1>5. CASE Head(s) = e
  <2>1. I = K \cup {1} /\ 1 \notin K
    BY <1>1, <1>5
  <2>2. Cardinality(I) = Cardinality(K) + 1
    BY <1>4, <2>1, FS_AddElement
  <2> QED
    BY <1>4, <1>5, <2>2 DEF Times
<1>6. CASE Head(s) # e
  <2>1. I = K
    BY <1>1, <1>6
  <2>2. Times(s, e) = Cardinality(I) /\ Times(Tail(s), e) = Cardinality(J)
    BY DEF Times
  <2> HIDE DEF I, J, K
  <2> QED
    BY <1>2, <1>4, <1>6, <2>1, <2>2
<1> QED
  BY <1>5, <1>6

(* Taking the first element out of a sequence (deque.remove of the head).  *)
LEMMA RemoveFirstHead ==
    ASSUME NEW S, NEW s \in Seq(S), s # <<>>
    PROVE  RemoveFirst(s, Head(s)) = Tail(s)
<1> DEFINE I == {i \in 1 .. Len(s) : s[i] = Head(s)}
<1>1. Len(s) \in Nat \ {0} /\ Head(s) = s[1]
  BY HeadTailProperties, EmptySeq, LenProperties
<1>2. 1 \in I /\ \A i \in I : 1 <= i
  BY <1>1
<1>3. Min(I) = 1
  BY <1>1, <1>2 DEF Min
<1>4. SelectInSeq(s, LAMBDA v : v = Head(s)) = 1
  BY <1>2, <1>3 DEF SelectInSeq
<1>5. RemoveFirst(s, Head(s)) = SubSeq(s, 1, 0) \o SubSeq(s, 2, Len(s))
  <2>1. \E i \in 1 .. Len(s) : s[i] = Head(s)
    BY <1>1
  <2>2. RemoveFirst(s, Head(s)) = RemoveAt(s, SelectInSeq(s, LAMBDA v : v = Head(s)))
    BY <2>1, Zenon DEF RemoveFirst
  <2>3. RemoveFirst(s, Head(s)) = RemoveAt(s, 1)
    BY <1>4, <2>2, Zenon
  <2> QED
    BY <2>3 DEF RemoveAt
<1>6. SubSeq(s, 1, 0) = <<>> /\ SubSeq(s, 2, Len(s)) = Tail(s) /\ Tail(s) \in Seq(S)
  BY <1>1, HeadTailProperties
<1> QED
  BY <1>5, <1>6, ConcatEmptySeq

(* No element twice (the requests of a queue).                             *)
Distinct(s) == \A i, j \in 1 .. Len(s) : s[i] = s[j] => i = j

LEMMA DistinctAppend ==
    ASSUME NEW S, NEW s \in Seq(S), NEW e \in S, Distinct(s), e \notin ToSet(s)
    PROVE  Distinct(Append(s, e))
<1>1. /\ Len(s) \in Nat /\ DOMAIN s = 1 .. Len(s) /\ Len(Append(s, e)) = Len(s) + 1
      /\ \A i \in 1 .. Len(s) : Append(s, e)[i] = s[i]
      /\ Append(s, e)[Len(s) + 1] = e
  BY AppendProperties, LenProperties
<1>2. \A i \in 1 .. Len(s) : s[i] # e
  BY <1>1 DEF ToSet
<1> QED
  BY <1>1, <1>2 DEF Distinct

LEMMA DistinctTail ==
    ASSUME NEW S, NEW s \in Seq(S), s # <<>>, Distinct(s)
    PROVE  Distinct(Tail(s)) /\ Head(s) \notin ToSet(Tail(s))
<1>1. /\ Len(s) \in Nat \ {0} /\ Len(Tail(s)) = Len(s) - 1 /\ Head(s) = s[1]
      /\ DOMAIN Tail(s) = 1 .. Len(s) - 1
      /\ \A i \in 1 .. Len(s) - 1 : Tail(s)[i] = s[i + 1]
  BY HeadTailProperties, EmptySeq, LenProperties
<1> QED
  BY <1>1 DEF Distinct, ToSet

-----------------------------------------------------------------------------
LEMMA MinIsLeast ==
    ASSUME NEW I \in SUBSET Nat, I # {}
    PROVE  Min(I) \in I /\ \A i \in I : Min(I) <= i
<1>1. \E m \in I : \A i \in I : ~(<<i, m>> \in OpToRel(<, Nat))
  BY NatLessThanWellFounded, WFMin
<1>2. PICK m \in I : \A i \in I : ~(<<i, m>> \in OpToRel(<, Nat))
  BY <1>1
<1>3. \A i \in I : m <= i
  <2> SUFFICES ASSUME NEW i \in I, i < m PROVE FALSE
    OBVIOUS
  <2>1. <<i, m>> \in OpToRel(<, Nat)
    BY DEF OpToRel
  <2> QED
    BY <1>2, <2>1
<1> QED
  BY <1>3 DEF Min

(* Taking any element out of a sequence keeps it one (deque.remove).       *)
LEMMA RemoveFirstSeq ==
    ASSUME NEW S, NEW s \in Seq(S), NEW e
    PROVE  RemoveFirst(s, e) \in Seq(S)
<1> DEFINE I == {i \in 1 .. Len(s) : s[i] = e}
<1>1. CASE I = {}
  <2>1. ~\E i \in 1 .. Len(s) : s[i] = e
    BY <1>1
  <2>2. RemoveFirst(s, e) = s
    BY <2>1, Zenon DEF RemoveFirst
  <2> QED
    BY <2>2
<1>2. CASE I # {}
  <2>1. \E i \in 1 .. Len(s) : s[i] = e
    BY <1>2
  <2>2. RemoveFirst(s, e) = RemoveAt(s, SelectInSeq(s, LAMBDA v : v = e))
    BY <2>1, Zenon DEF RemoveFirst
  <2>3. SelectInSeq(s, LAMBDA v : v = e) = Min(I)
    BY <1>2 DEF SelectInSeq
  <2>4. Min(I) \in 1 .. Len(s) /\ Len(s) \in Nat
    <3>1. Len(s) \in Nat
      BY LenProperties
    <3>2. I \subseteq 1 .. Len(s) /\ I \in SUBSET Nat
      BY <3>1
    <3> HIDE DEF I
    <3>3. Min(I) \in I
      BY <1>2, <3>2, MinIsLeast
    <3> QED
      BY <3>1, <3>2, <3>3
  <2>5. RemoveFirst(s, e) = SubSeq(s, 1, Min(I) - 1) \o SubSeq(s, Min(I) + 1, Len(s))
    BY <2>2, <2>3, Zenon DEF RemoveAt
  <2> HIDE DEF I
  <2>6. /\ \A k \in 1 .. Min(I) - 1 : s[k] \in S
        /\ \A k \in Min(I) + 1 .. Len(s) : s[k] \in S
    BY <2>4, ElementOfSeq
  <2>7. SubSeq(s, 1, Min(I) - 1) \in Seq(S) /\ SubSeq(s, Min(I) + 1, Len(s)) \in Seq(S)
    BY <2>4, <2>6, SubSeqProperties
  <2> QED
    BY <2>5, <2>7, ConcatProperties
<1> QED
  BY <1>1, <1>2

(* A set of indices closed downwards is an interval (the timers that are   *)
(* due no later than a new one).                                           *)
LEMMA DownwardsClosed ==
    ASSUME NEW n \in Nat, NEW I \in SUBSET (1 .. n), \A i \in I : \A j \in 1 .. i : j \in I
    PROVE  I = 1 .. Cardinality(I) /\ Cardinality(I) \in 0 .. n
<1>. DEFINE J == (1 .. n) \ I
<1>1. ASSUME NEW m \in 0 .. n, I = 1 .. m
      PROVE  Cardinality(I) = m
  <2>1. 1 \in Int /\ m \in Int
    BY <1>1
  <2>2. Cardinality(1 .. m) = IF 1 > m THEN 0 ELSE m - 1 + 1
    BY ONLY <2>1, FS_Interval
  <2>. QED BY <1>1, <2>2
<1>2. CASE J = {}
  <2>1. I = 1 .. n
    BY <1>2
  <2>. QED BY <1>1, <2>1
<1>3. CASE J # {}
  <2>1. J \in SUBSET Nat
    OBVIOUS
  <2>. DEFINE m == Min(J)
  <2>. HIDE DEF J
  <2>2. m \in J /\ \A i \in J : m <= i
    BY <1>3, <2>1, MinIsLeast
  <2>. HIDE DEF m
  <2>. USE DEF J
  <2>3. m - 1 \in 0 .. n /\ \A i \in 1 .. m - 1 : i \in I
    BY <2>2
  <2>4. \A i \in I : i \in 1 .. m - 1
    <3>. SUFFICES ASSUME NEW i \in I, i >= m PROVE FALSE
      BY <2>2
    <3>1. m \in 1 .. i
      BY <2>2
    <3>. QED BY <2>2, <3>1
  <2>5. I = 1 .. (m - 1)
    BY <2>3, <2>4
  <2>6. Cardinality(I) = m - 1
    BY <1>1, <2>3, <2>5
  <2>. QED BY <2>3, <2>5, <2>6
<1>. QED BY <1>2, <1>3

(* Where the elements are after one was inserted (invokeLaterWithDelay).   *)
LEMMA InsertAtElements ==
    ASSUME NEW S, NEW s \in Seq(S), NEW e \in S, NEW k \in 0 .. Len(s)
    PROVE  /\ Len(InsertAt(s, k + 1, e)) = Len(s) + 1
           /\ \A i \in 1 .. k : InsertAt(s, k + 1, e)[i] = s[i]
           /\ InsertAt(s, k + 1, e)[k + 1] = e
           /\ \A i \in k + 2 .. Len(s) + 1 : InsertAt(s, k + 1, e)[i] = s[i - 1]
<1>. DEFINE a == SubSeq(s, 1, k)
            b == SubSeq(s, k + 1, Len(s))
<1>0. Len(s) \in Nat /\ k \in Nat /\ k + 1 - 1 = k
  BY LenProperties
<1>1. InsertAt(s, k + 1, e) = (a \o <<e>>) \o b
  <2>1. InsertAt(s, k + 1, e) = (SubSeq(s, 1, (k + 1) - 1) \o <<e>>) \o SubSeq(s, k + 1, Len(s))
    BY Zenon DEF InsertAt
  <2>2. SubSeq(s, 1, (k + 1) - 1) = a
    BY <1>0
  <2>. QED BY <2>1, <2>2 DEF b
<1>2. a \in Seq(S) /\ Len(a) = k /\ \A i \in 1 .. k : a[i] = s[i]
  <2>1. \A i \in 1 .. k : s[i] \in S
    BY <1>0, ElementOfSeq
  <2>. QED BY <1>0, <2>1, SubSeqProperties
<1>3. b \in Seq(S) /\ Len(b) = Len(s) - k /\ \A i \in 1 .. Len(s) - k : b[i] = s[k + i]
  <2>1. \A i \in k + 1 .. Len(s) : s[i] \in S
    BY <1>0, ElementOfSeq
  <2>. QED BY <1>0, <2>1, SubSeqProperties
<1>. HIDE DEF a, b
<1>4. a \o <<e>> = Append(a, e)
  BY <1>2, AppendIsConcat
<1>. DEFINE c == Append(a, e)
<1>5. c \in Seq(S) /\ Len(c) = k + 1 /\ c[k + 1] = e /\ \A i \in 1 .. k : c[i] = s[i]
  BY <1>0, <1>2, AppendProperties
<1>. HIDE DEF c
<1>6. /\ Len(c \o b) = Len(c) + Len(b)
      /\ \A i \in 1 .. Len(c) + Len(b) : (c \o b)[i] = IF i <= Len(c) THEN c[i] ELSE b[i - Len(c)]
  BY <1>3, <1>5, ConcatProperties
<1>7. Len(c \o b) = Len(s) + 1
  BY <1>0, <1>3, <1>5, <1>6
<1>8. \A i \in 1 .. Len(s) + 1 : (c \o b)[i] = IF i <= k + 1 THEN c[i] ELSE b[i - (k + 1)]
  BY <1>0, <1>3, <1>5, <1>6
<1>9. \A i \in k + 2 .. Len(s) + 1 : (c \o b)[i] = s[i - 1]
  <2>. SUFFICES ASSUME NEW i \in k + 2 .. Len(s) + 1 PROVE (c \o b)[i] = s[i - 1]
    OBVIOUS
  <2>1. i \in 1 .. Len(s) + 1 /\ ~(i <= k + 1) /\ i - (k + 1) \in 1 .. Len(s) - k /\ k + (i - (k + 1)) = i - 1
    BY <1>0
  <2>. QED BY <1>3, <1>8, <2>1
<1>10. InsertAt(s, k + 1, e) = c \o b
  BY <1>1, <1>4 DEF c
<1>11. \A i \in 1 .. k : (c \o b)[i] = s[i]
  <2>. SUFFICES ASSUME NEW i \in 1 .. k PROVE (c \o b)[i] = s[i]
    OBVIOUS
  <2>1. i \in 1 .. Len(s) + 1 /\ i <= k + 1
    BY <1>0
  <2>. QED BY <1>5, <1>8, <2>1
<1>12. (c \o b)[k + 1] = e
  <2>1. k + 1 \in 1 .. Len(s) + 1 /\ k + 1 <= k + 1
    BY <1>0
  <2>. QED BY <1>5, <1>8, <2>1
<1>. QED BY <1>7, <1>9, <1>10, <1>11, <1>12, Zenon
=============================================================================

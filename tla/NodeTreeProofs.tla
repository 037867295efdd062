--------------------------- MODULE NodeTreeProofs ---------------------------
(***************************************************************************)
(* Proofs about NodeTree, for any finite tree of contexts and any number   *)
(* of events: the types, and that the server, the manager and the view     *)
(* agree when nothing is under way.                                        *)
(***************************************************************************)
EXTENDS NodeTree, SequenceLemmas

(* The contexts on the way from c to the root, c and Root included.        *)
Above(c) ==
    {a \in Node : \A T \in SUBSET Node :
                    c \in T /\ (\A d \in T \ {Root} : Parent[d] \in T) => a \in T}

Under(a) == {c \in Ctx : a \in Above(c)}

Closed(S) == \A c \in S : Parent[c] \in S \cup {Root}

-----------------------------------------------------------------------------
(* The tree of contexts.                                                   *)
LEMMA AboveLeast ==
    ASSUME NEW c \in Node, NEW T \in SUBSET Node,
           c \in T, \A d \in T \ {Root} : Parent[d] \in T
    PROVE  Above(c) \subseteq T
  BY DEF Above

(* The way to the root starts at c and goes on to each parent.             *)
LEMMA AboveProperties ==
    ASSUME NEW c \in Node
    PROVE  /\ c \in Above(c) /\ Above(c) \subseteq Node
           /\ \A d \in Above(c) \ {Root} : Parent[d] \in Above(c)
<1>1. c \in Above(c) /\ Above(c) \subseteq Node
  BY DEF Above
<1>2. ASSUME NEW d \in Above(c) \ {Root} PROVE Parent[d] \in Above(c)
  <2>1. d \in Ctx /\ Parent[d] \in Node
    BY <1>1, TreeAssumption DEF Node
  <2>. SUFFICES ASSUME NEW T \in SUBSET Node, c \in T, \A b \in T \ {Root} : Parent[b] \in T
               PROVE  Parent[d] \in T
    BY <2>1 DEF Above
  <2>. QED BY AboveLeast
<1>. QED BY <1>1, <1>2

(* A tree has no cycles, so that every context is below the root.          *)
LEMMA RootAbove ==
    ASSUME NEW c \in Node
    PROVE  Root \in Above(c)
<1>. SUFFICES ASSUME Root \notin Above(c) PROVE FALSE
  OBVIOUS
<1>1. Above(c) \in SUBSET Ctx /\ Above(c) # {}
  BY AboveProperties DEF Node
<1>2. PICK d \in Above(c) : Parent[d] \notin Above(c)
  BY <1>1, TreeAssumption
<1>. QED BY <1>2, AboveProperties

(* No context is its own parent.                                           *)
LEMMA OtherParent ==
    ASSUME NEW c \in Ctx
    PROVE  Parent[c] # c /\ Parent[c] \in Node /\ c \in Node /\ c # Root
<1>1. {c} \in SUBSET Ctx /\ {c} # {}
  OBVIOUS
<1>2. PICK d \in {c} : Parent[d] \notin {c}
  BY <1>1, TreeAssumption
<1>. QED BY <1>2, TreeAssumption DEF Node

(* What is above b is above everything below b.                            *)
LEMMA AboveTransitive ==
    ASSUME NEW c \in Node, NEW b \in Above(c)
    PROVE  Above(b) \subseteq Above(c)
<1>1. b \in Node /\ Above(c) \in SUBSET Node
  BY AboveProperties
<1>. QED BY <1>1, AboveLeast, AboveProperties

(* Nothing is above the root.                                              *)
LEMMA AboveRoot == Above(Root) = {Root}
<1>1. Root \in Node /\ {Root} \in SUBSET Node
  BY DEF Node
<1>2. Above(Root) \subseteq {Root}
  BY <1>1, AboveLeast
<1>. QED BY <1>1, <1>2, AboveProperties

(* What is above c is c, or above the parent of c.                         *)
LEMMA AboveParent ==
    ASSUME NEW c \in Ctx, NEW a \in Above(c), a # c
    PROVE  a \in Above(Parent[c])
<1>. DEFINE T == {c} \cup Above(Parent[c])
<1>1. T \in SUBSET Node /\ c \in T /\ c \in Node
  BY OtherParent, AboveProperties
<1>2. \A d \in T \ {Root} : Parent[d] \in T
  BY OtherParent, AboveProperties
<1>. HIDE DEF T
<1>3. Above(c) \subseteq T
  BY <1>1, <1>2, AboveLeast
<1>. QED BY <1>3 DEF T

(* On the way from c to a there is a child of a.                           *)
LEMMA ChildOnTheWay ==
    ASSUME NEW c \in Ctx, NEW a \in Above(c), a # c
    PROVE  \E b \in Above(c) : b \in Ctx /\ Parent[b] = a
<1>. SUFFICES ASSUME \A b \in Above(c) : b \in Ctx => Parent[b] # a PROVE FALSE
  OBVIOUS
<1>. DEFINE T == Above(c) \ {a}
<1>1. T \in SUBSET Node /\ c \in T /\ c \in Node
  BY OtherParent, AboveProperties
<1>2. \A d \in T \ {Root} : Parent[d] \in T
  BY OtherParent, AboveProperties DEF Node
<1>3. Above(c) \subseteq T
  BY <1>1, <1>2, AboveLeast
<1>. QED BY <1>3

(* Below a are a itself, the children of what is below, and no others.     *)
LEMMA UnderProperties ==
    ASSUME NEW a \in Ctx
    PROVE  /\ a \in Under(a) /\ Under(a) \subseteq Ctx
           /\ \A c \in Ctx : Parent[c] \in Under(a) => c \in Under(a)
           /\ \A c \in Under(a) : c # a => Parent[c] \in Under(a)
           /\ \A c \in Under(a) : Under(c) \subseteq Under(a)
<1>1. a \in Under(a) /\ Under(a) \subseteq Ctx
  BY AboveProperties, OtherParent DEF Under
<1>2. ASSUME NEW c \in Ctx, Parent[c] \in Under(a) PROVE c \in Under(a)
  <2>1. Parent[c] \in Above(c)
    BY OtherParent, AboveProperties
  <2>. QED BY <1>2, <2>1, AboveTransitive, OtherParent DEF Under
<1>3. ASSUME NEW c \in Under(a), c # a PROVE Parent[c] \in Under(a)
  <2>1. c \in Ctx /\ a \in Above(Parent[c])
    BY <1>3, AboveParent DEF Under
  <2>2. Parent[c] # Root
    BY <2>1, AboveRoot, OtherParent
  <2>. QED BY <2>1, <2>2, OtherParent DEF Under, Node
<1>4. ASSUME NEW c \in Under(a), NEW d \in Under(c) PROVE d \in Under(a)
  BY AboveTransitive, OtherParent DEF Under
<1>. QED BY <1>1, <1>2, <1>3, <1>4

(* A set with the parents of its contexts has what is above them.          *)
LEMMA ClosedAbove ==
    ASSUME NEW S \in SUBSET Ctx, Closed(S), NEW c \in S
    PROVE  Above(c) \subseteq S \cup {Root}
<1>1. S \cup {Root} \in SUBSET Node /\ c \in S \cup {Root} /\ c \in Node
  BY DEF Node
<1>2. \A d \in (S \cup {Root}) \ {Root} : Parent[d] \in S \cup {Root}
  BY DEF Closed
<1>. QED BY <1>1, <1>2, AboveLeast

(* Nothing is below a context that a closed set has not.                   *)
LEMMA ClosedUnder ==
    ASSUME NEW S \in SUBSET Ctx, Closed(S), NEW a \in Ctx, a \notin S
    PROVE  Under(a) \cap S = {}
  BY ClosedAbove, OtherParent DEF Under

(* A context may join a closed set that has its parent.                    *)
LEMMA ClosedGrows ==
    ASSUME NEW S \in SUBSET Ctx, Closed(S), NEW a \in Ctx, Parent[a] \in S \cup {Root}
    PROVE  Closed(S \cup {a})
  BY DEF Closed

(* A closed set stays closed without all that is below a context.          *)
LEMMA ClosedShrinks ==
    ASSUME NEW S \in SUBSET Ctx, Closed(S), NEW a \in Ctx
    PROVE  Closed(S \ Under(a))
  BY UnderProperties DEF Closed

(* Below a context without children there is only itself.                  *)
LEMMA LeafUnder ==
    ASSUME NEW S \in SUBSET Ctx, Closed(S), NEW a \in S, KidsOf(S, a) = {}
    PROVE  Under(a) \cap S = {a}
<1>. SUFFICES ASSUME NEW c \in Under(a) \cap S, c # a PROVE FALSE
  BY UnderProperties
<1>1. PICK b \in Above(c) : b \in Ctx /\ Parent[b] = a
  BY ChildOnTheWay DEF Under
<1>2. b \in S
  BY <1>1, ClosedAbove, OtherParent
<1>. QED BY <1>1, <1>2 DEF KidsOf

-----------------------------------------------------------------------------
(* What remove_node reaches.                                               *)
LEMMA ReachProperties ==
    ASSUME NEW n \in SUBSET Ctx, NEW k \in [Node -> SUBSET Ctx], NEW S
    PROVE  /\ Reach(n, k, S) \subseteq n /\ S \cap n \subseteq Reach(n, k, S)
           /\ \A d \in Reach(n, k, S) : k[d] \cap n \subseteq Reach(n, k, S)
<1>1. Reach(n, k, S) \subseteq n /\ S \cap n \subseteq Reach(n, k, S)
  BY DEF Reach
<1>2. ASSUME NEW d \in Reach(n, k, S), NEW c \in k[d] \cap n PROVE c \in Reach(n, k, S)
  BY DEF Reach
<1>. QED BY <1>1, <1>2

(* Reach is within each set that has S and what it lists.                  *)
LEMMA ReachLeast ==
    ASSUME NEW n \in SUBSET Ctx, NEW k, NEW S, NEW T \in SUBSET Ctx,
           S \cap n \subseteq T, \A d \in T \cap n : k[d] \cap n \subseteq T
    PROVE  Reach(n, k, S) \subseteq T
<1>1. T \cap n \in SUBSET n
  OBVIOUS
<1>2. S \cap n \subseteq T \cap n /\ \A d \in T \cap n : k[d] \cap n \subseteq T \cap n
  OBVIOUS
<1>. QED BY <1>1, <1>2 DEF Reach

(* Where the lists have children only, it is below.                        *)
LEMMA ReachBelow ==
    ASSUME NEW n \in SUBSET Ctx, NEW k \in [Node -> SUBSET Ctx], NEW a \in Ctx,
           \A p \in Node : k[p] \subseteq KidsOf(Ctx, p)
    PROVE  Reach(n, k, {a}) \subseteq Under(a)
<1>1. Under(a) \in SUBSET Ctx /\ {a} \cap n \subseteq Under(a)
  BY UnderProperties
<1>2. ASSUME NEW d \in Under(a) \cap n, NEW c \in k[d] \cap n PROVE c \in Under(a)
  <2>1. d \in Node /\ c \in Ctx /\ Parent[c] = d
    BY <1>1 DEF Node, KidsOf
  <2>. QED BY <2>1, UnderProperties
<1>. QED BY <1>1, <1>2, ReachLeast

(* Where they have them all, it is all that is below.                      *)
LEMMA ReachAll ==
    ASSUME NEW n \in SUBSET Ctx, Closed(n), NEW k \in [Node -> SUBSET Ctx], NEW a \in n,
           \A p \in Node : k[p] \subseteq KidsOf(Ctx, p), \A p \in n : KidsOf(n, p) \subseteq k[p]
    PROVE  Reach(n, k, {a}) = Under(a) \cap n
<1>. DEFINE R == Reach(n, k, {a})
<1>1. R \subseteq Under(a) \cap n
  BY ReachBelow, ReachProperties
<1>2. ASSUME NEW c \in Under(a) \cap n PROVE c \in R
  <2>. SUFFICES ASSUME c \notin R PROVE FALSE
    OBVIOUS
  <2>. DEFINE T == Above(c) \ R
  <2>1. T \in SUBSET Node /\ c \in T /\ c \in Node
    BY AboveProperties, OtherParent
  <2>2. a \in R /\ R \subseteq n /\ \A d \in R : k[d] \cap n \subseteq R
    BY ReachProperties
  <2>3. ASSUME NEW d \in T \ {Root} PROVE Parent[d] \in T
    <3>1. d \in Ctx /\ d \in n /\ Parent[d] \in Above(c)
      BY AboveProperties, ClosedAbove DEF Node
    <3>2. ASSUME Parent[d] \in R PROVE FALSE
      <4>1. d \in KidsOf(n, Parent[d]) /\ Parent[d] \in n
        BY <2>2, <3>1, <3>2 DEF KidsOf
      <4>. QED BY <2>2, <3>1, <3>2, <4>1
    <3>. QED BY <3>1, <3>2
  <2>. HIDE DEF R
  <2>4. Above(c) \subseteq T
    BY <2>1, <2>3, AboveLeast
  <2>. QED BY <2>2, <2>4 DEF Under
<1>. QED BY <1>1, <1>2

-----------------------------------------------------------------------------
(* What a sequence holds, anywhere, after and before a place.              *)
Holds(e, m) == \E i \in DOMAIN e : e[i] = m
Later(e, i, m) == \E j \in DOMAIN e : i < j /\ e[j] = m
Earlier(e, i, m) == \E j \in DOMAIN e : j < i /\ e[j] = m

(* f is e without its first.                                               *)
Advances(e, f) ==
    /\ 1 \in DOMAIN e
    /\ \A i \in DOMAIN f : i \in Nat /\ i + 1 \in DOMAIN e /\ f[i] = e[i + 1]
    /\ \A i \in DOMAIN e : i \in Nat /\ (i = 1 \/ i - 1 \in DOMAIN f)
    /\ \A m : Holds(e, m) <=> m = e[1] \/ Holds(f, m)
    /\ \A m : Later(e, 1, m) <=> Holds(f, m)
    /\ \A i \in DOMAIN f : \A m : Later(e, i + 1, m) <=> Later(f, i, m)
    /\ \A i \in DOMAIN f : \A m : Earlier(e, i + 1, m) <=> m = e[1] \/ Earlier(f, i, m)

(* What follows and precedes a place once the head is taken.               *)
LEMMA TailPlaces ==
    ASSUME NEW S, NEW e \in Seq(S), e # <<>>
    PROVE  Tail(e) \in Seq(S) /\ e[1] = Head(e) /\ Head(e) \in S /\ Advances(e, Tail(e))
<1>. DEFINE f == Tail(e)
<1>1. /\ f \in Seq(S) /\ Len(e) \in Nat \ {0} /\ DOMAIN e = 1 .. Len(e)
      /\ DOMAIN f = 1 .. Len(e) - 1 /\ Head(e) = e[1] /\ Head(e) \in S
      /\ \A i \in 1 .. Len(e) - 1 : f[i] = e[i + 1]
  BY HeadTailProperties, EmptySeq, LenProperties
<1>. HIDE DEF f
<1>2. \A i \in DOMAIN e : i = 1 \/ (i - 1 \in DOMAIN f /\ e[i] = f[i - 1])
  BY <1>1
<1>3. \A i \in DOMAIN f : i \in Nat /\ i + 1 \in DOMAIN e /\ f[i] = e[i + 1]
  BY <1>1
<1>4. \A m : Holds(e, m) <=> m = Head(e) \/ Holds(f, m)
  BY <1>1, <1>2, <1>3 DEF Holds
<1>5. \A m : Later(e, 1, m) <=> Holds(f, m)
  <2>. SUFFICES ASSUME NEW m PROVE Later(e, 1, m) <=> Holds(f, m)
    OBVIOUS
  <2>1. ASSUME NEW j \in DOMAIN e, 1 < j, e[j] = m PROVE Holds(f, m)
    BY <1>1, <1>2, <2>1 DEF Holds
  <2>2. ASSUME NEW j \in DOMAIN f, f[j] = m PROVE Later(e, 1, m)
    <3>1. j + 1 \in DOMAIN e /\ 1 < j + 1 /\ e[j + 1] = m
      BY <1>1, <1>3, <2>2
    <3>. QED BY <3>1 DEF Later
  <2>. QED BY <2>1, <2>2 DEF Later, Holds
<1>6. ASSUME NEW i \in DOMAIN f, NEW m
      PROVE  Later(e, i + 1, m) <=> Later(f, i, m)
  <2>1. ASSUME NEW j \in DOMAIN e, i + 1 < j, e[j] = m PROVE Later(f, i, m)
    <3>1. j - 1 \in DOMAIN f /\ i < j - 1 /\ f[j - 1] = m
      BY <1>1, <1>2, <2>1
    <3>. QED BY <3>1 DEF Later
  <2>2. ASSUME NEW j \in DOMAIN f, i < j, f[j] = m PROVE Later(e, i + 1, m)
    <3>1. j + 1 \in DOMAIN e /\ i + 1 < j + 1 /\ e[j + 1] = m
      BY <1>1, <1>3, <2>2
    <3>. QED BY <3>1 DEF Later
  <2>. QED BY <2>1, <2>2 DEF Later
<1>7. ASSUME NEW i \in DOMAIN f, NEW m
      PROVE  Earlier(e, i + 1, m) <=> m = Head(e) \/ Earlier(f, i, m)
  <2>1. ASSUME NEW j \in DOMAIN e, j < i + 1, e[j] = m, m # Head(e) PROVE Earlier(f, i, m)
    <3>1. j - 1 \in DOMAIN f /\ j - 1 < i /\ f[j - 1] = m
      BY <1>1, <1>2, <2>1
    <3>. QED BY <3>1 DEF Earlier
  <2>2. ASSUME NEW j \in DOMAIN f, j < i, f[j] = m PROVE Earlier(e, i + 1, m)
    <3>1. j + 1 \in DOMAIN e /\ j + 1 < i + 1 /\ e[j + 1] = m
      BY <1>1, <1>3, <2>2
    <3>. QED BY <3>1 DEF Earlier
  <2>3. ASSUME m = Head(e) PROVE Earlier(e, i + 1, m)
    <3>1. 1 \in DOMAIN e /\ 1 < i + 1 /\ e[1] = m
      BY <1>1, <2>3
    <3>. QED BY <3>1 DEF Earlier
  <2>. QED BY <2>1, <2>2, <2>3 DEF Earlier
<1>8. \A i \in DOMAIN e : i \in Nat /\ (i = 1 \/ i - 1 \in DOMAIN f)
  BY <1>1, <1>2
<1>9. Advances(e, f)
  BY <1>1, <1>3, <1>4, <1>5, <1>6, <1>7, <1>8 DEF Advances
<1>. QED BY <1>1, <1>9 DEF f

(* g is e, and t behind it.                                                *)
Joins(e, t, g) ==
    /\ \A i \in DOMAIN e : i \in DOMAIN g /\ g[i] = e[i]
    /\ \A i \in DOMAIN g : i \in Nat /\ (i \in DOMAIN e \/ Holds(t, g[i]))
    /\ \A i \in DOMAIN g, j \in DOMAIN e : i \notin DOMAIN e => j < i
    /\ \A m : Holds(g, m) <=> Holds(e, m) \/ Holds(t, m)
    /\ \A i \in DOMAIN e : \A m : Later(g, i, m) <=> Later(e, i, m) \/ Holds(t, m)
    /\ \A i \in DOMAIN e : \A m : Earlier(e, i, m) => Earlier(g, i, m)
    /\ \A i \in DOMAIN g : \A m : i \notin DOMAIN e /\ Holds(e, m) => Earlier(g, i, m)

(* What follows and precedes a place once a tail is appended.              *)
LEMMA ConcatPlaces ==
    ASSUME NEW S, NEW e \in Seq(S), NEW t \in Seq(S), NEW g, g = e \o t
    PROVE  g \in Seq(S) /\ Joins(e, t, g)
<1>1. /\ g \in Seq(S) /\ Len(e) \in Nat /\ Len(t) \in Nat
      /\ DOMAIN e = 1 .. Len(e) /\ DOMAIN t = 1 .. Len(t) /\ DOMAIN g = 1 .. Len(e) + Len(t)
      /\ \A i \in 1 .. Len(e) + Len(t) : g[i] = IF i <= Len(e) THEN e[i] ELSE t[i - Len(e)]
  <2>1. g \in Seq(S) /\ Len(g) = Len(e) + Len(t)
    BY ConcatProperties
  <2>. QED BY <2>1, ConcatProperties, LenProperties
<1>2. \A i \in DOMAIN e : i \in DOMAIN g /\ g[i] = e[i]
  BY <1>1
<1>3. \A i \in DOMAIN g : i \in DOMAIN e \/ (i - Len(e) \in DOMAIN t /\ g[i] = t[i - Len(e)])
  BY <1>1
<1>4. \A j \in DOMAIN t : Len(e) + j \in DOMAIN g /\ g[Len(e) + j] = t[j]
  BY <1>1
<1>5. \A i \in DOMAIN g, j \in DOMAIN e : i \notin DOMAIN e => j < i
  BY <1>1
<1>6. ASSUME NEW m PROVE Holds(g, m) <=> Holds(e, m) \/ Holds(t, m)
  <2>1. Holds(e, m) \/ Holds(t, m) => Holds(g, m)
    BY <1>2, <1>4 DEF Holds
  <2>2. Holds(g, m) => Holds(e, m) \/ Holds(t, m)
    BY <1>2, <1>3 DEF Holds
  <2>. QED BY <2>1, <2>2
<1>7. \A i \in DOMAIN g : i \in DOMAIN e \/ Holds(t, g[i])
  BY <1>3 DEF Holds
<1>8. ASSUME NEW i \in DOMAIN e, NEW m
      PROVE  Later(g, i, m) <=> Later(e, i, m) \/ Holds(t, m)
  <2>1. ASSUME Later(e, i, m) PROVE Later(g, i, m)
    BY <1>2, <2>1 DEF Later
  <2>2. ASSUME NEW j \in DOMAIN t, t[j] = m PROVE Later(g, i, m)
    <3>1. Len(e) + j \in DOMAIN g /\ i < Len(e) + j /\ g[Len(e) + j] = m
      BY <1>1, <1>4, <2>2
    <3>. QED BY <3>1 DEF Later
  <2>3. ASSUME NEW j \in DOMAIN g, i < j, g[j] = m PROVE Later(e, i, m) \/ Holds(t, m)
    BY <1>2, <1>7, <2>3 DEF Later
  <2>. QED BY <2>1, <2>2, <2>3 DEF Later, Holds
<1>9. \A i \in DOMAIN e : \A m : Earlier(e, i, m) => Earlier(g, i, m)
  BY <1>2 DEF Earlier
<1>10. \A i \in DOMAIN g : \A m : i \notin DOMAIN e /\ Holds(e, m) => Earlier(g, i, m)
  BY <1>2, <1>5 DEF Earlier, Holds
<1>11. \A i \in DOMAIN g : i \in Nat /\ (i \in DOMAIN e \/ Holds(t, g[i]))
  BY <1>1, <1>7
<1>12. Joins(e, t, g)
  BY <1>2, <1>5, <1>6, <1>8, <1>9, <1>10, <1>11 DEF Joins
<1>. QED BY <1>1, <1>12

(* SetToSeq lists the elements of a set (the deques of added nodes).       *)
LEMMA SetToSeqProperties ==
    ASSUME NEW S, IsFiniteSet(S)
    PROVE  SetToSeq(S) \in Seq(S) /\ ToSet(SetToSeq(S)) = S
<1>. DEFINE N == Cardinality(S)
            f == SetToSeq(S)
<1>1. N \in Nat /\ \E b : b \in Bijection(1 .. N, S)
  BY FS_CardinalityType DEF ExistsBijection
<1>2. \E b \in [1 .. N -> S] : IsInjective(b)
  BY <1>1 DEF Bijection, Injection
<1>3. f \in [1 .. N -> S] /\ IsInjective(f)
  BY <1>2 DEF SetToSeq
<1>. HIDE DEF f
<1>4. f \in Injection(1 .. N, S)
  BY <1>3 DEF Injection
<1>5. IsFiniteSet(1 .. N) /\ Cardinality(1 .. N) = N
  <2>1. 1 \in Int /\ N \in Int
    BY <1>1
  <2>2. IsFiniteSet(1 .. N) /\ Cardinality(1 .. N) = IF 1 > N THEN 0 ELSE N - 1 + 1
    BY ONLY <2>1, FS_Interval
  <2>. QED BY <1>1, <2>2
<1>6. f \in Surjection(1 .. N, S)
  BY <1>4, <1>5, FS_Injection
<1>7. f \in Seq(S) /\ DOMAIN f = 1 .. N
  BY <1>1, <1>3
<1>8. ToSet(f) = S
  BY <1>3, <1>6, <1>7 DEF Surjection, ToSet
<1>. QED BY <1>7, <1>8 DEF f

-----------------------------------------------------------------------------
(* The messages of the queue, and the events of the view.                  *)
Telling == [kind : {"tellAdded", "tellRemoved"}, ctx : {Root}]
Changing == [kind : {"added", "changed", "removed"}, ctx : Ctx]
Answer == [kind : {"children"}, ctx : Node, ok : BOOLEAN, list : SUBSET Ctx]
Message == Telling \cup Changing \cup Answer
GivenList == {m \in [kind : {"setOwn"}, ctx : Ctx, list : SUBSET Ctx] : m.list \subseteq KidsOf(Ctx, m.ctx)}
Event == [kind : {"add", "remove"}, ctx : Ctx] \cup [kind : {"set"}, ctx : Node] \cup GivenList

(* A list has children only.                                               *)
Lists == {k \in [Node -> SUBSET Ctx] : \A p \in Node : k[p] \subseteq KidsOf(Ctx, p)}

Shapes ==
    /\ queue \in Seq(Message) /\ events \in Seq(Event) /\ removed = <<>>
    /\ \A p \in Node : kids[p] \subseteq KidsOf(Ctx, p) /\ vkids[p] \subseteq KidsOf(Ctx, p)

(* What the view has before it is open, and that it opens once the tree is *)
(* loaded.                                                                 *)
Stages ==
    /\ stage = "none" => events = <<>> /\ added = <<>>
    /\ stage # "open" => /\ vnodes = {} /\ alias = {} /\ \A p \in Node : vkids[p] = {}
                         /\ \A i \in DOMAIN events : events[i].kind \in {"add", "remove"}
    /\ stage = "open" => asked = <<>> /\ (Root \in alias \/ Holds(events, Msg("set", Root)))

-----------------------------------------------------------------------------
(* A message m that the server sent when it had S, after which it had T,   *)
(* with what is asked now (as).                                            *)
Tells(m, S, T, as, wh) ==
    /\ m.kind = "added" => m.ctx \notin S /\ T = S \cup {m.ctx}
    /\ m.kind = "changed" => m.ctx \in S
    /\ m.kind = "removed" => /\ m.ctx \in S /\ T = S \ Under(m.ctx)
                             /\ wh => as = <<>>
                             /\ ~wh => KidsOf(S, m.ctx) = {}
    /\ m.kind = "children" => /\ as # <<>> /\ m.ctx = Head(as)
                              /\ m.ok <=> m.ctx \in S \cup {Root}
                              /\ m.ok => m.list = KidsOf(S, m.ctx)
    /\ m.kind \notin {"added", "removed"} => T = S

(* h has the contexts of the server at each message that is under way, and *)
(* last those it has now.                                                  *)
History(h, q, s, as, wh) ==
    /\ Len(h) = Len(q) + 1 /\ h[Len(h)] = s
    /\ \A i \in DOMAIN h : Closed(h[i])
    /\ \A i \in DOMAIN q : Tells(q[i], h[i], h[i + 1], as, wh)
    /\ \A i, j \in DOMAIN q : q[i].kind = "children" /\ q[j].kind = "children" => i = j

(* A context of s that the manager (with n) does not have is below one     *)
(* whose children it has asked for.                                        *)
Loads(s, n, as, go) ==
    /\ n \subseteq s
    /\ \A c \in s \ n : \E a \in ToSet(as) : a \in Above(c) /\ a # c
    /\ ToSet(as) \subseteq n \cup {Root} \cup go

(* The list of p will be replaced.                                         *)
Awaited(p, as, go) == \E a \in ToSet(as) : a \in Above(p) /\ (a = p => p \notin go)

(* A list that the view has not taken over.                                *)
OwnLists(n, k, al, as, go) ==
    \A p \in (n \cup {Root}) \ al :
        /\ k[p] \subseteq n
        /\ k[p] = KidsOf(n, p) \/ Awaited(p, as, go)

(* Where a server tells of the topmost context only, none comes back.      *)
NoReturn(h, q, e, wh, de) ==
    wh => /\ \A i, j \in DOMAIN h : i < j => (h[i] \ h[i + 1]) \cap h[j] = {}
          /\ \A i \in DOMAIN q : h[i] \ h[i + 1] \subseteq de
          /\ \A c \in Ctx : Holds(e, Msg("remove", c)) => c \in de /\ \A i \in DOMAIN h : c \notin h[i]

-----------------------------------------------------------------------------
(* The events e of the view, when the manager has the nodes n.  What was   *)
(* added and is gone will be removed.                                      *)
GoneIsTold(e, n) ==
    \A i \in DOMAIN e : e[i].kind = "add" /\ e[i].ctx \notin n => Later(e, i, Msg("remove", e[i].ctx))

(* What was below a removed context and is there has come after it.        *)
ReturnIsTold(e, n, s) ==
    \A i \in DOMAIN e : e[i].kind = "remove" =>
        \A c \in Under(e[i].ctx) \cap s : c \in n /\ Later(e, i, Msg("add", c))

(* And after its parent.                                                   *)
ReturnInOrder(e) ==
    \A i, j \in DOMAIN e :
        i < j /\ e[i].kind = "remove" /\ e[j].kind = "add" /\ e[j].ctx \in Under(e[i].ctx) \ {e[i].ctx} =>
            \E m \in DOMAIN e : i < m /\ m < j /\ e[m] = Msg("add", Parent[e[j].ctx])

(* A removed context takes with it what was added below.                   *)
RemovalIsWhole(e) ==
    \A i, j \in DOMAIN e :
        i < j /\ e[i].kind = "add" /\ e[j].kind = "remove" /\ e[i].ctx \in Under(e[j].ctx) =>
            Later(e, i, Msg("remove", e[i].ctx))

(* The lists that are on their way to the view: one that the manager gave  *)
(* up, ...                                                                 *)
GivenUp(e) ==
    \A i \in DOMAIN e : e[i].kind = "setOwn" => Later(e, i, Msg("remove", e[i].ctx))

(* ... one that it has, behind the node whose list it is ...               *)
SetsFollow(e, n, vn) ==
    \A i \in DOMAIN e : e[i].kind = "set" =>
        /\ e[i].ctx \in n \cup {Root}
        /\ e[i].ctx # Root =>
             IF i = 1 THEN e[i].ctx \in vn ELSE i - 1 \in DOMAIN e /\ e[i - 1] = Msg("add", e[i].ctx)

(* ... and is not removed.                                                 *)
SetsLast(e, al) ==
    \A i \in DOMAIN e : e[i].kind = "remove" =>
        /\ Under(e[i].ctx) \cap al = {}
        /\ \A j \in DOMAIN e : j < i /\ e[j].kind = "set" => e[j].ctx \notin Under(e[i].ctx)

(* What is said of the events by themselves.                               *)
EventsInOrder(e, n, s, vn, al) ==
    /\ GoneIsTold(e, n) /\ ReturnIsTold(e, n, s) /\ ReturnInOrder(e) /\ RemovalIsWhole(e)
    /\ GivenUp(e) /\ SetsFollow(e, n, vn) /\ SetsLast(e, al)

-----------------------------------------------------------------------------
(* The view.  It has what the manager has unless it will be told.          *)
ViewNodes(e, n, vn) ==
    \A c \in Ctx : Holds(e, Msg("add", c)) \/ Holds(e, Msg("remove", c)) \/ (c \in vn <=> c \in n)

(* A parent is there in time.                                              *)
ParentInTime(e, vn) ==
    \A i \in DOMAIN e : e[i].kind = "add" =>
        \/ Parent[e[i].ctx] \in vn \cup {Root}
        \/ Earlier(e, i, Msg("add", Parent[e[i].ctx]))
        \/ Later(e, i, Msg("set", Parent[e[i].ctx])) \/ Later(e, i, Msg("remove", e[i].ctx))

(* Its own lists have what it has ...                                      *)
Listed(e, vn, vk, al) ==
    \A c \in vn :
        \/ Parent[c] \in al \cup {Root} \/ (Parent[c] \in vn /\ c \in vk[Parent[c]])
        \/ Holds(e, Msg("set", Parent[c])) \/ Holds(e, Msg("remove", c))

(* ... and nothing else.                                                   *)
ListsAreNodes(e, vn, vk, al) ==
    \A p \in vn \ al : vk[p] \subseteq vn \/ Holds(e, Msg("remove", p))

(* The lists that it shares with the manager.                              *)
Shared(e, n, k, vn, al, wh) ==
    /\ al \subseteq (n \cap vn) \cup {Root}
    /\ \A c \in Ctx : Parent[c] \in al =>
         /\ c \in n \ k[Parent[c]] => ~wh /\ c \notin vn /\ Holds(e, Msg("add", c))
         /\ c \in k[Parent[c]] \ n => c \in vn /\ Holds(e, Msg("remove", c))

ViewInOrder(e, n, k, vn, vk, al, wh) ==
    /\ ViewNodes(e, n, vn) /\ ParentInTime(e, vn)
    /\ Listed(e, vn, vk, al) /\ ListsAreNodes(e, vn, vk, al) /\ Shared(e, n, k, vn, al, wh)

-----------------------------------------------------------------------------
(* What is under way, told as it happened.                                 *)
UnderWay(h) ==
    /\ h \in Seq(SUBSET Ctx)
    /\ History(h, queue, srv, asked, whole) /\ Loads(h[1], nodes, asked, gone)
    /\ NoReturn(h, queue, events, whole, dead)
    /\ EventsInOrder(events, nodes, h[1], vnodes, alias)

Opened == stage = "open" => ViewInOrder(events, nodes, kids, vnodes, vkids, alias, whole)

IInv ==
    /\ TypeOK /\ Shapes /\ Stages /\ Opened
    /\ OwnLists(nodes, kids, alias, asked, gone) /\ \E h \in Seq(SUBSET Ctx) : UnderWay(h)

-----------------------------------------------------------------------------
(* The events when some are added: contexts that the manager has (Told),   *)
(* whose parents the server has.                                           *)
Adds(t, m, s) == \A j \in DOMAIN t : t[j].kind = "add" /\ t[j].ctx \in m /\ Parent[t[j].ctx] \in s \cup {Root}
AddsAll(t, S) == \A c \in S : Holds(t, Msg("add", c))
AddsNew(e, t, m, s, r) == r \ s \subseteq m /\ (DOMAIN e = {} \/ AddsAll(t, r \ s))

(* Additions at the end keep the events in order.                          *)
LEMMA AddsInOrder ==
    ASSUME NEW e \in Seq(Event), NEW t \in Seq(Event), NEW g, g = e \o t,
           NEW n \in SUBSET Ctx, NEW m \in SUBSET Ctx, NEW s \in SUBSET Ctx, NEW r \in SUBSET Ctx,
           NEW vn \in SUBSET Ctx, NEW al \in SUBSET Node,
           EventsInOrder(e, n, s, vn, al), n \subseteq m,
           Adds(t, m, s), AddsNew(e, t, m, s, r)
    PROVE  EventsInOrder(g, m, r, vn, al)
<1>. USE DEF Adds, AddsAll, AddsNew
<1>1. /\ \A i \in DOMAIN e : i \in DOMAIN g /\ g[i] = e[i]
      /\ \A i \in DOMAIN g : i \in DOMAIN e \/ Holds(t, g[i])
      /\ \A i \in DOMAIN g, j \in DOMAIN e : i \notin DOMAIN e => j < i
      /\ \A i \in DOMAIN e : \A x : Later(g, i, x) <=> Later(e, i, x) \/ Holds(t, x)
      /\ DOMAIN g \subseteq Nat
  <2>1. Joins(e, t, g)
    BY ConcatPlaces
  <2>. QED BY <2>1 DEF Joins
<1>2. \A i \in DOMAIN g : i \in DOMAIN e \/ (g[i].kind = "add" /\ g[i].ctx \in m /\ Parent[g[i].ctx] \in s \cup {Root})
  BY <1>1 DEF Holds
<1>3. GoneIsTold(g, m)
  BY <1>1, <1>2 DEF EventsInOrder, GoneIsTold
<1>4. ReturnIsTold(g, m, r)
  <2>. SUFFICES ASSUME NEW i \in DOMAIN g, g[i].kind = "remove", NEW c \in Under(g[i].ctx) \cap r
               PROVE  c \in m /\ Later(g, i, Msg("add", c))
    BY DEF ReturnIsTold
  <2>1. i \in DOMAIN e /\ g[i] = e[i]
    BY <1>1, <1>2
  <2>2. CASE c \in s
    BY <1>1, <2>1, <2>2 DEF EventsInOrder, ReturnIsTold
  <2>3. CASE c \notin s
    BY <1>1, <2>1, <2>3
  <2>. QED BY <2>2, <2>3
<1>5. ReturnInOrder(g)
  <2>. SUFFICES ASSUME NEW i \in DOMAIN g, NEW j \in DOMAIN g,
                      i < j, g[i].kind = "remove", g[j].kind = "add", g[j].ctx \in Under(g[i].ctx) \ {g[i].ctx}
               PROVE  \E l \in DOMAIN g : i < l /\ l < j /\ g[l] = Msg("add", Parent[g[j].ctx])
    BY SMTT(30) DEF ReturnInOrder
  <2>1. i \in DOMAIN e /\ g[i] = e[i]
    BY <1>1, <1>2
  <2>2. CASE j \in DOMAIN e
    <3>1. PICK l \in DOMAIN e : i < l /\ l < j /\ e[l] = Msg("add", Parent[e[j].ctx])
      <4>1. ReturnInOrder(e)
        BY DEF EventsInOrder
      <4>2. i \in DOMAIN e /\ e[i].kind = "remove" /\ e[j].kind = "add" /\ e[j].ctx \in Under(e[i].ctx) \ {e[i].ctx}
        BY <1>1, <2>1, <2>2
      <4>. QED BY SMTT(30), <2>2, <4>1, <4>2 DEF ReturnInOrder
    <3>. QED BY <1>1, <2>2, <3>1
  <2>3. CASE j \notin DOMAIN e
    <3>1. e[i].ctx \in Ctx
      <4>1. e[i] \in Event
        BY <2>1, LenProperties, ElementOfSeq
      <4>. QED BY <2>1, <4>1 DEF Event, GivenList
    <3>2. Parent[g[j].ctx] \in Under(e[i].ctx)
      BY <2>1, <3>1, UnderProperties
    <3>3. Parent[g[j].ctx] \in s
      <4>1. Parent[g[j].ctx] # Root
        BY <3>1, <3>2, UnderProperties, TreeAssumption
      <4>. QED BY <1>2, <2>3, <4>1
    <3>4. Later(e, i, Msg("add", Parent[g[j].ctx]))
      BY <2>1, <3>2, <3>3 DEF EventsInOrder, ReturnIsTold
    <3>5. PICK l \in DOMAIN e : i < l /\ e[l] = Msg("add", Parent[g[j].ctx])
      BY <3>4 DEF Later
    <3>. QED BY <1>1, <2>3, <3>5
  <2>. QED BY <2>2, <2>3
<1>6. RemovalIsWhole(g)
  <2>. SUFFICES ASSUME NEW i \in DOMAIN g, NEW j \in DOMAIN g,
                      i < j, g[i].kind = "add", g[j].kind = "remove", g[i].ctx \in Under(g[j].ctx)
               PROVE  Later(g, i, Msg("remove", g[i].ctx))
    BY DEF RemovalIsWhole
  <2>1. j \in DOMAIN e /\ g[j] = e[j]
    BY <1>1, <1>2
  <2>2. i \in DOMAIN e /\ g[i] = e[i]
    <3>1. i \notin DOMAIN e => j < i
      BY <1>1, <2>1
    <3>. QED BY <1>1, <3>1
  <2>3. Later(e, i, Msg("remove", e[i].ctx))
    BY <2>1, <2>2 DEF EventsInOrder, RemovalIsWhole
  <2>. QED BY <1>1, <2>2, <2>3
<1>7. GivenUp(g)
  BY <1>1, <1>2 DEF EventsInOrder, GivenUp
<1>8. SetsFollow(g, m, vn)
  <2>. SUFFICES ASSUME NEW i \in DOMAIN g, g[i].kind = "set"
               PROVE  /\ g[i].ctx \in m \cup {Root}
                      /\ g[i].ctx # Root =>
                           IF i = 1 THEN g[i].ctx \in vn ELSE i - 1 \in DOMAIN g /\ g[i - 1] = Msg("add", g[i].ctx)
    BY DEF SetsFollow
  <2>1. i \in DOMAIN e /\ g[i] = e[i]
    BY <1>1, <1>2
  <2>2. /\ e[i].ctx \in n \cup {Root}
        /\ e[i].ctx # Root =>
             IF i = 1 THEN e[i].ctx \in vn ELSE i - 1 \in DOMAIN e /\ e[i - 1] = Msg("add", e[i].ctx)
    BY <2>1 DEF EventsInOrder, SetsFollow
  <2>. QED BY <1>1, <2>1, <2>2
<1>9. SetsLast(g, al)
  <2>. SUFFICES ASSUME NEW i \in DOMAIN g, g[i].kind = "remove"
               PROVE  /\ Under(g[i].ctx) \cap al = {}
                      /\ \A j \in DOMAIN g : j < i /\ g[j].kind = "set" => g[j].ctx \notin Under(g[i].ctx)
    BY DEF SetsLast
  <2>1. i \in DOMAIN e /\ g[i] = e[i]
    BY <1>1, <1>2
  <2>2. \A j \in DOMAIN g : g[j].kind = "set" => j \in DOMAIN e /\ g[j] = e[j]
    BY <1>1, <1>2
  <2>. QED BY <2>1, <2>2 DEF EventsInOrder, SetsLast
<1>. QED BY <1>3, <1>4, <1>5, <1>6, <1>7, <1>8, <1>9 DEF EventsInOrder

(* What the view has, in the same case, once the tree is loaded: S is      *)
(* added to the lists that it shares.                                      *)
SharedGrow(k, l, al, S) == \A c \in Ctx : Parent[c] \in al => (c \in l[Parent[c]] <=> c \in k[Parent[c]] \/ c \in S)

(* And they tell the view of all that the manager has gained.              *)
LEMMA AddsInView ==
    ASSUME NEW e \in Seq(Event), NEW t \in Seq(Event), NEW g, g = e \o t,
           NEW n \in SUBSET Ctx, NEW m \in SUBSET Ctx,
           NEW vn \in SUBSET Ctx, NEW al \in SUBSET Node,
           NEW wh, NEW k, NEW l, NEW vk,
           EventsInOrder(e, n, n, vn, al), ViewInOrder(e, n, k, vn, vk, al, wh), n \subseteq m,
           Adds(t, m, n), AddsAll(t, m \ n), SharedGrow(k, l, al, m \ n)
    PROVE  ViewInOrder(g, m, l, vn, vk, al, wh)
<1>. USE DEF Adds, AddsAll, SharedGrow
<1>1. /\ \A i \in DOMAIN e : i \in DOMAIN g /\ g[i] = e[i]
      /\ \A i \in DOMAIN g : i \in DOMAIN e \/ Holds(t, g[i])
      /\ \A x : Holds(g, x) <=> Holds(e, x) \/ Holds(t, x)
      /\ \A i \in DOMAIN e : \A x : Later(g, i, x) <=> Later(e, i, x) \/ Holds(t, x)
      /\ \A i \in DOMAIN e : \A x : Earlier(e, i, x) => Earlier(g, i, x)
      /\ \A i \in DOMAIN g : \A x : i \notin DOMAIN e /\ Holds(e, x) => Earlier(g, i, x)
  <2>1. Joins(e, t, g)
    BY ConcatPlaces
  <2>. QED BY <2>1 DEF Joins
<1>2. \A i \in DOMAIN g : i \in DOMAIN e \/ (g[i].kind = "add" /\ g[i].ctx \in m /\ Parent[g[i].ctx] \in n \cup {Root})
  BY <1>1 DEF Holds
<1>3. ViewNodes(g, m, vn)
  BY <1>1 DEF ViewInOrder, ViewNodes
<1>4. ParentInTime(g, vn)
  <2>. SUFFICES ASSUME NEW i \in DOMAIN g, g[i].kind = "add"
               PROVE  \/ Parent[g[i].ctx] \in vn \cup {Root}
                      \/ Earlier(g, i, Msg("add", Parent[g[i].ctx]))
                      \/ Later(g, i, Msg("set", Parent[g[i].ctx])) \/ Later(g, i, Msg("remove", g[i].ctx))
    BY DEF ParentInTime
  <2>1. CASE i \in DOMAIN e
    BY <1>1, <2>1 DEF ViewInOrder, ParentInTime
  <2>2. CASE i \notin DOMAIN e
    <3>. DEFINE p == Parent[g[i].ctx]
    <3>1. p = Root \/ p \in n
      BY <1>2, <2>2
    <3>2. CASE p \in n
      <4>1. Holds(e, Msg("add", p)) \/ Holds(e, Msg("remove", p)) \/ p \in vn
        BY <3>2 DEF ViewInOrder, ViewNodes
      <4>2. ASSUME Holds(e, Msg("remove", p)) PROVE Holds(e, Msg("add", p))
        <5>1. PICK j \in DOMAIN e : e[j] = Msg("remove", p)
          BY <4>2 DEF Holds
        <5>2. e[j].kind = "remove" /\ e[j].ctx = p
          BY <5>1 DEF Msg
        <5>3. p \in Under(p) \cap n
          BY <3>2, UnderProperties
        <5>4. Later(e, j, Msg("add", p))
          BY <5>2, <5>3 DEF EventsInOrder, ReturnIsTold
        <5>. QED BY <5>4 DEF Later, Holds
      <4>. QED BY <1>1, <2>2, <4>1, <4>2
    <3>. QED BY <3>1, <3>2
  <2>. QED BY <2>1, <2>2
<1>5. Listed(g, vn, vk, al)
  BY <1>1 DEF ViewInOrder, Listed
<1>6. ListsAreNodes(g, vn, vk, al)
  BY <1>1 DEF ViewInOrder, ListsAreNodes
<1>7. Shared(g, m, l, vn, al, wh)
  <2>1. al \subseteq (m \cap vn) \cup {Root}
    BY DEF ViewInOrder, Shared
  <2>2. ASSUME NEW c \in Ctx, Parent[c] \in al, c \in m \ l[Parent[c]]
        PROVE  ~wh /\ c \notin vn /\ Holds(g, Msg("add", c))
    <3>1. c \in n \ k[Parent[c]]
      BY <2>2
    <3>. QED BY <1>1, <2>2, <3>1 DEF ViewInOrder, Shared
  <2>3. ASSUME NEW c \in Ctx, Parent[c] \in al, c \in l[Parent[c]] \ m
        PROVE  c \in vn /\ Holds(g, Msg("remove", c))
    <3>1. c \in k[Parent[c]] \ n
      BY <2>3
    <3>. QED BY <1>1, <2>3, <3>1 DEF ViewInOrder, Shared
  <2>. QED BY <2>1, <2>2, <2>3 DEF Shared
<1>. QED BY <1>3, <1>4, <1>5, <1>6, <1>7 DEF ViewInOrder

-----------------------------------------------------------------------------
(* The events when the manager gives up the lists of D (Freeze).           *)
Frozen(e, f, D) ==
    /\ f \in Seq(Event) /\ DOMAIN f = DOMAIN e
    /\ \A i \in DOMAIN e : IF e[i].kind = "set" /\ e[i].ctx \in D
                             THEN f[i].kind = "setOwn" /\ f[i].ctx = e[i].ctx ELSE f[i] = e[i]

(* The fields of a message.                                                *)
LEMMA MsgFields == \A k, c : Msg(k, c).kind = k /\ Msg(k, c).ctx = c
  BY DEF Msg

(* Freezing changes the kind of lists only.                                *)
LEMMA FrozenPlaces ==
    ASSUME NEW e \in Seq(Event), NEW D, NEW f, Frozen(e, f, D), NEW c, NEW k \in {"add", "remove"}
    PROVE  /\ Holds(f, Msg(k, c)) <=> Holds(e, Msg(k, c))
           /\ \A i \in DOMAIN e : Later(f, i, Msg(k, c)) <=> Later(e, i, Msg(k, c))
           /\ \A i \in DOMAIN e : Earlier(f, i, Msg(k, c)) <=> Earlier(e, i, Msg(k, c))
           /\ c \notin D => Holds(f, Msg("set", c)) <=> Holds(e, Msg("set", c))
           /\ c \notin D => \A i \in DOMAIN e : Later(f, i, Msg("set", c)) <=> Later(e, i, Msg("set", c))
<1>1. \A i \in DOMAIN e : f[i] = Msg(k, c) <=> e[i] = Msg(k, c)
  BY DEF Frozen, Msg
<1>2. \A i \in DOMAIN e : c \notin D => (f[i] = Msg("set", c) <=> e[i] = Msg("set", c))
  BY DEF Frozen, Msg
<1>3. DOMAIN f = DOMAIN e
  BY DEF Frozen
<1>. QED BY <1>1, <1>2, <1>3 DEF Holds, Later, Earlier

(* And when it removes what is below x: all of it is told of.              *)
Removes(t, D) ==
    /\ \A j \in DOMAIN t : t[j].kind = "remove" /\ t[j].ctx \in D
    /\ \A c \in D : Holds(t, Msg("remove", c))

(* Removals at the end keep the events in order.                           *)
LEMMA RemovesInOrder ==
    ASSUME NEW e \in Seq(Event), NEW t \in Seq(Event), NEW f, NEW g, g = f \o t, NEW x \in Ctx,
           NEW n \in SUBSET Ctx, NEW s \in SUBSET Ctx, NEW vn \in SUBSET Ctx, NEW al \in SUBSET Node,
           NEW D, D = Under(x) \cap n, Frozen(e, f, D),
           EventsInOrder(e, n, s, vn, al), al \subseteq n \cup {Root}, Removes(t, D)
    PROVE  EventsInOrder(g, n \ D, s \ Under(x), vn, al \ D)
<1>. USE DEF Removes
<1>. DEFINE m == n \ D
            r == s \ Under(x)
<1>1. /\ \A i \in DOMAIN e : i \in DOMAIN g /\ g[i] = f[i]
      /\ \A i \in DOMAIN g : i \in Nat /\ (i \in DOMAIN e \/ (g[i].kind = "remove" /\ g[i].ctx \in D))
      /\ \A i \in DOMAIN g, j \in DOMAIN e : i \notin DOMAIN e => j < i
      /\ \A i \in DOMAIN e : \A y : Later(g, i, y) <=> Later(f, i, y) \/ Holds(t, y)
  <2>1. Joins(f, t, g)
    BY ConcatPlaces DEF Frozen
  <2>. QED BY <2>1 DEF Joins, Holds, Frozen
<1>2. \A i \in DOMAIN e :
        \/ e[i].kind = "set" /\ e[i].ctx \in D /\ g[i].kind = "setOwn" /\ g[i].ctx = e[i].ctx
        \/ ~(e[i].kind = "set" /\ e[i].ctx \in D) /\ g[i] = e[i]
  <2>. SUFFICES ASSUME NEW i \in DOMAIN e
               PROVE  \/ e[i].kind = "set" /\ e[i].ctx \in D /\ g[i].kind = "setOwn" /\ g[i].ctx = e[i].ctx
                      \/ ~(e[i].kind = "set" /\ e[i].ctx \in D) /\ g[i] = e[i]
    OBVIOUS
  <2>1. g[i] = f[i]
    BY <1>1
  <2>. QED BY <2>1 DEF Frozen
<1>3. \A i \in DOMAIN e : \A c : /\ Later(e, i, Msg("add", c)) => Later(g, i, Msg("add", c))
                                 /\ Later(e, i, Msg("remove", c)) => Later(g, i, Msg("remove", c))
  BY <1>1, FrozenPlaces
<1>4. D \subseteq Under(x) /\ D \subseteq Ctx /\ \A c \in D : Under(c) \subseteq Under(x)
  BY UnderProperties
<1>5. \A i \in DOMAIN e, c \in D : Later(g, i, Msg("remove", c))
  BY <1>1
<1>6. GoneIsTold(g, m)
  <2>. SUFFICES ASSUME NEW i \in DOMAIN g, g[i].kind = "add", g[i].ctx \notin m
               PROVE  Later(g, i, Msg("remove", g[i].ctx))
    BY DEF GoneIsTold
  <2>1. i \in DOMAIN e /\ g[i] = e[i]
    BY <1>1, <1>2
  <2>2. CASE e[i].ctx \in n
    BY <1>5, <2>1, <2>2
  <2>3. CASE e[i].ctx \notin n
    BY <1>3, <2>1, <2>3 DEF EventsInOrder, GoneIsTold
  <2>. QED BY <2>2, <2>3
<1>7. ReturnIsTold(g, m, r)
  <2>. SUFFICES ASSUME NEW i \in DOMAIN g, g[i].kind = "remove", NEW c \in Under(g[i].ctx) \cap r
               PROVE  c \in m /\ Later(g, i, Msg("add", c))
    BY DEF ReturnIsTold
  <2>1. CASE i \in DOMAIN e
    <3>1. g[i] = e[i]
      BY <1>2, <2>1
    <3>2. c \in n /\ Later(e, i, Msg("add", c))
      BY <2>1, <3>1 DEF EventsInOrder, ReturnIsTold
    <3>. QED BY <1>3, <2>1, <3>2
  <2>2. CASE i \notin DOMAIN e
    <3>1. g[i].ctx \in D
      BY <1>1, <2>2
    <3>. QED BY <1>4, <3>1
  <2>. QED BY <2>1, <2>2
<1>8. ReturnInOrder(g)
  <2>. SUFFICES ASSUME NEW i \in DOMAIN g, NEW j \in DOMAIN g,
                      i < j, g[i].kind = "remove", g[j].kind = "add", g[j].ctx \in Under(g[i].ctx) \ {g[i].ctx}
               PROVE  \E l \in DOMAIN g : i < l /\ l < j /\ g[l] = Msg("add", Parent[g[j].ctx])
    BY SMTT(30) DEF ReturnInOrder
  <2>1. j \in DOMAIN e /\ g[j] = e[j]
    BY <1>1, <1>2
  <2>2. i \in DOMAIN e /\ g[i] = e[i]
    <3>1. i \notin DOMAIN e => j < i
      BY <1>1, <2>1
    <3>2. i \in DOMAIN e
      BY <1>1, <3>1
    <3>. QED BY <1>2, <3>2
  <2>3. PICK l \in DOMAIN e : i < l /\ l < j /\ e[l] = Msg("add", Parent[e[j].ctx])
    BY <2>1, <2>2 DEF EventsInOrder, ReturnInOrder
  <2>4. l \in DOMAIN g /\ g[l] = e[l]
    <3>1. e[l].kind = "add"
      BY <2>3, MsgFields
    <3>. QED BY <1>1, <1>2, <3>1
  <2>. QED BY <2>1, <2>3, <2>4
<1>9. RemovalIsWhole(g)
  <2>. SUFFICES ASSUME NEW i \in DOMAIN g, NEW j \in DOMAIN g,
                      i < j, g[i].kind = "add", g[j].kind = "remove", g[i].ctx \in Under(g[j].ctx)
               PROVE  Later(g, i, Msg("remove", g[i].ctx))
    BY DEF RemovalIsWhole
  <2>1. i \in DOMAIN e /\ g[i] = e[i]
    BY <1>1, <1>2
  <2>2. CASE j \in DOMAIN e
    <3>1. g[j] = e[j]
      BY <1>2, <2>2
    <3>2. Later(e, i, Msg("remove", e[i].ctx))
      BY <2>1, <2>2, <3>1 DEF EventsInOrder, RemovalIsWhole
    <3>. QED BY <1>3, <2>1, <3>2
  <2>3. CASE j \notin DOMAIN e
    <3>1. g[j].ctx \in D
      BY <1>1, <2>3
    <3>2. g[i].ctx \notin m
      BY <1>4, <3>1
    <3>. QED BY <1>6, <3>2 DEF GoneIsTold
  <2>. QED BY <2>2, <2>3
<1>10. GivenUp(g)
  <2>. SUFFICES ASSUME NEW i \in DOMAIN g, g[i].kind = "setOwn"
               PROVE  Later(g, i, Msg("remove", g[i].ctx))
    BY DEF GivenUp
  <2>1. i \in DOMAIN e
    BY <1>1
  <2>2. CASE e[i].kind = "set" /\ e[i].ctx \in D
    <3>1. g[i].ctx = e[i].ctx
      BY <1>2, <2>1, <2>2
    <3>. QED BY <1>5, <2>1, <2>2, <3>1
  <2>3. CASE ~(e[i].kind = "set" /\ e[i].ctx \in D)
    <3>1. g[i] = e[i]
      BY <1>2, <2>1, <2>3
    <3>. QED BY <1>3, <2>1, <3>1 DEF EventsInOrder, GivenUp
  <2>. QED BY <2>2, <2>3
<1>11. SetsFollow(g, m, vn)
  <2>. SUFFICES ASSUME NEW i \in DOMAIN g, g[i].kind = "set"
               PROVE  /\ g[i].ctx \in m \cup {Root}
                      /\ g[i].ctx # Root =>
                           IF i = 1 THEN g[i].ctx \in vn ELSE i - 1 \in DOMAIN g /\ g[i - 1] = Msg("add", g[i].ctx)
    BY DEF SetsFollow
  <2>1. i \in DOMAIN e /\ g[i] = e[i] /\ e[i].ctx \notin D
    BY <1>1, <1>2
  <2>2. /\ e[i].ctx \in n \cup {Root}
        /\ e[i].ctx # Root =>
             IF i = 1 THEN e[i].ctx \in vn ELSE i - 1 \in DOMAIN e /\ e[i - 1] = Msg("add", e[i].ctx)
    BY <2>1 DEF EventsInOrder, SetsFollow
  <2>3. ASSUME i - 1 \in DOMAIN e, e[i - 1] = Msg("add", e[i].ctx)
        PROVE  i - 1 \in DOMAIN g /\ g[i - 1] = e[i - 1]
    <3>1. e[i - 1].kind = "add"
      BY <2>3, MsgFields
    <3>. QED BY <1>1, <1>2, <2>3, <3>1
  <2>. QED BY <2>1, <2>2, <2>3
<1>12. SetsLast(g, al \ D)
  <2>. SUFFICES ASSUME NEW i \in DOMAIN g, g[i].kind = "remove"
               PROVE  /\ Under(g[i].ctx) \cap (al \ D) = {}
                      /\ \A j \in DOMAIN g : j < i /\ g[j].kind = "set" => g[j].ctx \notin Under(g[i].ctx)
    BY DEF SetsLast
  <2>1. \A j \in DOMAIN g : g[j].kind = "set" => j \in DOMAIN e /\ g[j] = e[j] /\ e[j].ctx \notin D
    BY <1>1, <1>2
  <2>2. CASE i \in DOMAIN e
    <3>1. g[i] = e[i]
      BY <1>2, <2>2
    <3>. QED BY <2>1, <2>2, <3>1 DEF EventsInOrder, SetsLast
  <2>3. CASE i \notin DOMAIN e
    <3>1. Under(g[i].ctx) \subseteq Under(x) /\ Under(x) \subseteq Ctx
      BY <1>1, <1>4, <2>3, UnderProperties
    <3>2. Under(g[i].ctx) \cap (al \ D) = {}
      BY <3>1, TreeAssumption
    <3>3. \A j \in DOMAIN e : e[j].kind = "set" => e[j].ctx \in n \cup {Root}
      BY DEF EventsInOrder, SetsFollow
    <3>. QED BY <2>1, <3>1, <3>2, <3>3, TreeAssumption
  <2>. QED BY <2>2, <2>3
<1>. QED BY <1>6, <1>7, <1>8, <1>9, <1>10, <1>11, <1>12 DEF EventsInOrder

ListsLose(k, l, D) == \A p \in Node : p \notin D => l[p] = k[p] \ D
KeptOutside(k, l, S) == \A p \in Node : p \notin S => l[p] = k[p]

(* And they tell the view of all that the manager has lost.                *)
LEMMA RemovesInView ==
    ASSUME NEW e \in Seq(Event), NEW t \in Seq(Event), NEW f, NEW g, g = f \o t, NEW x \in Ctx,
           NEW n \in SUBSET Ctx, NEW vn \in SUBSET Ctx, NEW al \in SUBSET Node,
           NEW D, D = Under(x) \cap n, Frozen(e, f, D),
           EventsInOrder(g, n \ D, n \ D, vn, al \ D),
           NEW wh, NEW k, NEW l, NEW vk, NEW vl, ViewInOrder(e, n, k, vn, vk, al, wh),
           Removes(t, D), ListsLose(k, l, D), KeptOutside(vk, vl, al \cap D)
    PROVE  ViewInOrder(g, n \ D, l, vn, vl, al \ D, wh)
<1>. USE DEF Removes, ListsLose, KeptOutside
<1>1. /\ \A i \in DOMAIN e : i \in DOMAIN g /\ g[i] = f[i]
      /\ \A i \in DOMAIN g : i \in DOMAIN e \/ g[i].kind = "remove"
      /\ \A y : Holds(g, y) <=> Holds(f, y) \/ Holds(t, y)
      /\ \A i \in DOMAIN e : \A y : Later(g, i, y) <=> Later(f, i, y) \/ Holds(t, y)
      /\ \A i \in DOMAIN e : \A y : Earlier(f, i, y) => Earlier(g, i, y)
  <2>1. Joins(f, t, g)
    BY ConcatPlaces DEF Frozen
  <2>2. DOMAIN f = DOMAIN e
    BY DEF Frozen
  <2>3. \A i \in DOMAIN g : i \in DOMAIN e \/ Holds(t, g[i])
    BY <2>1, <2>2 DEF Joins
  <2>4. \A i \in DOMAIN g : i \in DOMAIN e \/ g[i].kind = "remove"
    BY <2>3 DEF Holds
  <2>. QED BY <2>1, <2>2, <2>4 DEF Joins
<1>2. \A c : /\ Holds(e, Msg("add", c)) => Holds(g, Msg("add", c))
             /\ Holds(e, Msg("remove", c)) => Holds(g, Msg("remove", c))
             /\ c \notin D /\ Holds(e, Msg("set", c)) => Holds(g, Msg("set", c))
  BY <1>1, FrozenPlaces
<1>3. \A i \in DOMAIN e : \A c : /\ Later(e, i, Msg("remove", c)) => Later(g, i, Msg("remove", c))
                                 /\ c \notin D /\ Later(e, i, Msg("set", c)) => Later(g, i, Msg("set", c))
                                 /\ Earlier(e, i, Msg("add", c)) => Earlier(g, i, Msg("add", c))
  BY <1>1, FrozenPlaces
<1>4. \A c \in D : Holds(g, Msg("remove", c))
  BY <1>1
<1>5. D \subseteq Ctx /\ \A c \in Ctx : Parent[c] \in D => c \in Under(x) /\ c \notin n \ D
  BY UnderProperties
<1>6. ViewNodes(g, n \ D, vn)
  BY <1>2, <1>4 DEF ViewInOrder, ViewNodes
(* What the view has and the manager has not is removed.                   *)
<1>7. ASSUME NEW c \in vn, c \notin n \ D PROVE Holds(g, Msg("remove", c))
  <2>1. Holds(g, Msg("add", c)) \/ Holds(g, Msg("remove", c))
    BY <1>6, <1>7 DEF ViewNodes
  <2>2. ASSUME NEW i \in DOMAIN g, g[i] = Msg("add", c) PROVE Holds(g, Msg("remove", c))
    <3>1. Later(g, i, Msg("remove", c))
      BY <1>7, <2>2 DEF EventsInOrder, GoneIsTold, Msg
    <3>. QED BY <3>1 DEF Later, Holds
  <2>. QED BY <2>1, <2>2 DEF Holds
<1>8. ParentInTime(g, vn)
  <2>. SUFFICES ASSUME NEW i \in DOMAIN g, g[i].kind = "add"
               PROVE  \/ Parent[g[i].ctx] \in vn \cup {Root}
                      \/ Earlier(g, i, Msg("add", Parent[g[i].ctx]))
                      \/ Later(g, i, Msg("set", Parent[g[i].ctx])) \/ Later(g, i, Msg("remove", g[i].ctx))
    BY DEF ParentInTime
  <2>. SUFFICES ASSUME g[i].ctx \in n \ D
               PROVE  \/ Parent[g[i].ctx] \in vn \cup {Root}
                      \/ Earlier(g, i, Msg("add", Parent[g[i].ctx]))
                      \/ Later(g, i, Msg("set", Parent[g[i].ctx])) \/ Later(g, i, Msg("remove", g[i].ctx))
    BY DEF EventsInOrder, GoneIsTold
  <2>1. Parent[g[i].ctx] \notin D
    BY <1>5
  <2>2. i \in DOMAIN e /\ g[i] = e[i]
    BY <1>1 DEF Frozen, Msg
  <2>. QED BY <1>3, <2>1, <2>2 DEF ViewInOrder, ParentInTime
<1>9. Listed(g, vn, vl, al \ D)
  <2>. SUFFICES ASSUME NEW c \in vn
               PROVE  \/ Parent[c] \in (al \ D) \cup {Root} \/ (Parent[c] \in vn /\ c \in vl[Parent[c]])
                      \/ Holds(g, Msg("set", Parent[c])) \/ Holds(g, Msg("remove", c))
    BY DEF Listed
  <2>1. CASE Parent[c] \in D
    BY <1>5, <1>7, <2>1
  <2>2. CASE Parent[c] \notin D
    <3>1. vl[Parent[c]] = vk[Parent[c]]
      BY <2>2, OtherParent
    <3>. QED BY <1>2, <2>2, <3>1 DEF ViewInOrder, Listed
  <2>. QED BY <2>1, <2>2
<1>10. ListsAreNodes(g, vn, vl, al \ D)
  <2>. SUFFICES ASSUME NEW p \in vn, p \notin al \ D
               PROVE  vl[p] \subseteq vn \/ Holds(g, Msg("remove", p))
    BY DEF ListsAreNodes
  <2>1. CASE p \in D
    BY <1>4, <2>1
  <2>2. CASE p \notin D
    <3>1. vl[p] = vk[p]
      BY <2>2, OtherParent
    <3>. QED BY <1>2, <2>2, <3>1 DEF ViewInOrder, ListsAreNodes
  <2>. QED BY <2>1, <2>2
<1>11. Shared(g, n \ D, l, vn, al \ D, wh)
  <2>1. al \ D \subseteq ((n \ D) \cap vn) \cup {Root}
    BY DEF ViewInOrder, Shared
  <2>2. \A c \in Ctx : Parent[c] \in al \ D => l[Parent[c]] = k[Parent[c]] \ D
    BY OtherParent
  <2>3. \A c \in Ctx : Parent[c] \in al => 
         /\ c \in n \ k[Parent[c]] => ~wh /\ c \notin vn /\ Holds(e, Msg("add", c))
         /\ c \in k[Parent[c]] \ n => c \in vn /\ Holds(e, Msg("remove", c))
    BY DEF ViewInOrder, Shared
  <2>4. ASSUME NEW c \in Ctx, Parent[c] \in al \ D
        PROVE  /\ c \in (n \ D) \ l[Parent[c]] => ~wh /\ c \notin vn /\ Holds(g, Msg("add", c))
               /\ c \in l[Parent[c]] \ (n \ D) => c \in vn /\ Holds(g, Msg("remove", c))
    BY <1>2, <2>2, <2>3, <2>4
  <2>. QED BY <2>1, <2>4 DEF Shared
<1>. QED BY <1>6, <1>8, <1>9, <1>10, <1>11 DEF ViewInOrder

-----------------------------------------------------------------------------
(* The tree with its lists that GetNodes puts into the queue: the list of  *)
(* the root first, each node behind its parent and before its list.        *)
ListsAll(t, n) ==
    /\ t \in Seq(Event) /\ Len(t) > 0 /\ t[1] = Msg("set", Root)
    /\ \A i \in 2 .. Len(t) :
         /\ t[i].kind \in {"add", "set"} /\ t[i].ctx \in n
         /\ t[i].kind = "set" => t[i - 1] = Msg("add", t[i].ctx)
         /\ t[i].kind = "add" => Parent[t[i].ctx] = Root \/ Earlier(t, i, Msg("add", Parent[t[i].ctx]))
    /\ \A c \in n : Holds(t, Msg("add", c)) /\ Holds(t, Msg("set", c))

OldEvents(e) == \A i \in DOMAIN e : e[i].kind \in {"add", "remove"}

(* The first copy of the tree brings the view what it needs.               *)
LEMMA ListsInOrder ==
    ASSUME NEW e \in Seq(Event), NEW t, NEW g, g = e \o t, NEW n \in SUBSET Ctx, Closed(n), ListsAll(t, n),
           NEW wh, NEW k, NEW vk, OldEvents(e), EventsInOrder(e, n, n, {}, {})
    PROVE  /\ EventsInOrder(g, n, n, {}, {}) /\ ViewInOrder(g, n, k, {}, vk, {}, wh)
           /\ Holds(g, Msg("set", Root))
<1>. USE DEF OldEvents
<1>. DEFINE L == Len(e)
<1>1. /\ L \in Nat /\ DOMAIN e = 1 .. L /\ Len(t) \in Nat /\ DOMAIN t = 1 .. Len(t) /\ DOMAIN g = 1 .. L + Len(t)
      /\ \A i \in 1 .. L : g[i] = e[i]
      /\ \A i \in 1 .. Len(t) : g[L + i] = t[i]
  <2>1. t \in Seq(Event)
    BY DEF ListsAll
  <2>. QED BY <2>1, ConcatProperties, LenProperties
<1>. HIDE DEF L
<1>2. Joins(e, t, g)
  BY ConcatPlaces DEF ListsAll
<1>3. /\ \A m : Holds(g, m) <=> Holds(e, m) \/ Holds(t, m)
      /\ \A i \in DOMAIN e : \A m : Later(g, i, m) <=> Later(e, i, m) \/ Holds(t, m)
  BY <1>2 DEF Joins
<1>4. \A i \in DOMAIN g : i \in DOMAIN e \/ \E j \in 1 .. Len(t) : i = L + j /\ g[i] = t[j]
  <2>. SUFFICES ASSUME NEW i \in DOMAIN g, i \notin DOMAIN e
               PROVE  \E j \in 1 .. Len(t) : i = L + j /\ g[i] = t[j]
    OBVIOUS
  <2>1. i - L \in 1 .. Len(t) /\ i = L + (i - L)
    BY <1>1
  <2>. QED BY <1>1, <2>1
<1>5. /\ t[1].kind = "set" /\ t[1].ctx = Root
      /\ \A j \in 1 .. Len(t) : t[j].kind \in {"add", "set"} /\ (t[j].kind = "add" => j # 1)
      /\ \A j \in 2 .. Len(t) : t[j].ctx \in n
  <2>1. t[1] = Msg("set", Root) /\ Len(t) > 0
    BY DEF ListsAll
  <2>2. t[1].kind = "set" /\ t[1].ctx = Root
    BY <2>1, MsgFields
  <2>3. \A j \in 1 .. Len(t) : j = 1 \/ j \in 2 .. Len(t)
    BY <1>1
  <2>. QED BY <2>2, <2>3 DEF ListsAll
<1>6. \A i \in DOMAIN g : /\ g[i].kind = "remove" => i \in DOMAIN e
                          /\ g[i].kind = "set" => i \notin DOMAIN e
                          /\ g[i].kind # "setOwn"
  BY <1>1, <1>4, <1>5
<1>7. \A i \in DOMAIN e, j \in DOMAIN g : j < i => j \in DOMAIN e
  BY <1>1
<1>8. GoneIsTold(g, n)
  <2>. SUFFICES ASSUME NEW i \in DOMAIN g, g[i].kind = "add", g[i].ctx \notin n
               PROVE  Later(g, i, Msg("remove", g[i].ctx))
    BY DEF GoneIsTold
  <2>1. i \in DOMAIN e
    <3>. SUFFICES ASSUME NEW j \in 1 .. Len(t), g[i] = t[j] PROVE FALSE
      BY <1>4
    <3>1. j \in 2 .. Len(t)
      BY <1>1, <1>5
    <3>. QED BY <1>5, <3>1
  <2>. QED BY <1>1, <1>3, <2>1 DEF EventsInOrder, GoneIsTold
<1>9. ReturnIsTold(g, n, n)
  BY <1>1, <1>3, <1>6 DEF EventsInOrder, ReturnIsTold
<1>10. ReturnInOrder(g)
  <2>. SUFFICES ASSUME NEW i \in DOMAIN g, NEW j \in DOMAIN g,
                      i < j, g[i].kind = "remove", g[j].kind = "add", g[j].ctx \in Under(g[i].ctx) \ {g[i].ctx}
               PROVE  \E l \in DOMAIN g : i < l /\ l < j /\ g[l] = Msg("add", Parent[g[j].ctx])
    BY SMTT(30) DEF ReturnInOrder
  <2>1. i \in DOMAIN e /\ g[i] = e[i]
    BY <1>1, <1>6
  <2>2. CASE j \in DOMAIN e
    <3>1. PICK l \in DOMAIN e : i < l /\ l < j /\ e[l] = Msg("add", Parent[e[j].ctx])
      <4>1. ReturnInOrder(e)
        BY DEF EventsInOrder
      <4>2. i \in DOMAIN e /\ e[i].kind = "remove" /\ e[j].kind = "add" /\ e[j].ctx \in Under(e[i].ctx) \ {e[i].ctx}
        BY <1>1, <2>1, <2>2
      <4>. QED BY SMTT(30), <2>2, <4>1, <4>2 DEF ReturnInOrder
    <3>. QED BY <1>1, <2>2, <3>1
  <2>3. CASE j \notin DOMAIN e
    <3>1. e[i].ctx \in Ctx
      <4>1. e[i] \in Event
        BY <2>1, LenProperties, ElementOfSeq
      <4>. QED BY <2>1, <4>1 DEF Event, GivenList
    <3>2. Parent[g[j].ctx] \in Under(e[i].ctx)
      BY <2>1, <3>1, UnderProperties
    <3>3. Parent[g[j].ctx] \in n
      <4>1. g[j].ctx \in n
        <5>. SUFFICES ASSUME NEW a \in 1 .. Len(t), g[j] = t[a] PROVE g[j].ctx \in n
          BY <1>4, <2>3
        <5>1. a \in 2 .. Len(t)
          BY <1>1, <1>5
        <5>. QED BY <1>5, <5>1
      <4>2. Parent[g[j].ctx] # Root
        BY <3>1, <3>2, UnderProperties, TreeAssumption
      <4>. QED BY <4>1, <4>2 DEF Closed
    <3>4. Later(e, i, Msg("add", Parent[g[j].ctx]))
      BY <2>1, <3>2, <3>3 DEF EventsInOrder, ReturnIsTold
    <3>5. PICK l \in DOMAIN e : i < l /\ e[l] = Msg("add", Parent[g[j].ctx])
      BY <3>4 DEF Later
    <3>6. l \in DOMAIN g /\ g[l] = e[l] /\ l < j
      BY <1>1, <2>3, <3>5
    <3>. QED BY <3>5, <3>6
  <2>. QED BY <2>2, <2>3
<1>11. RemovalIsWhole(g)
  <2>. SUFFICES ASSUME NEW i \in DOMAIN g, NEW j \in DOMAIN g,
                      i < j, g[i].kind = "add", g[j].kind = "remove", g[i].ctx \in Under(g[j].ctx)
               PROVE  Later(g, i, Msg("remove", g[i].ctx))
    BY DEF RemovalIsWhole
  <2>1. j \in DOMAIN e /\ i \in DOMAIN e
    BY <1>6, <1>7
  <2>. QED BY <1>1, <1>3, <2>1 DEF EventsInOrder, RemovalIsWhole
<1>12. GivenUp(g)
  BY <1>6 DEF GivenUp
<1>13. SetsFollow(g, n, {})
  <2>. SUFFICES ASSUME NEW i \in DOMAIN g, g[i].kind = "set"
               PROVE  /\ g[i].ctx \in n \cup {Root}
                      /\ g[i].ctx # Root =>
                           i # 1 /\ i - 1 \in DOMAIN g /\ g[i - 1] = Msg("add", g[i].ctx)
    BY DEF SetsFollow
  <2>1. PICK j \in 1 .. Len(t) : i = L + j /\ g[i] = t[j]
    BY <1>4, <1>6
  <2>2. CASE j = 1
    BY <1>5, <2>1, <2>2
  <2>3. CASE j # 1
    <3>1. j \in 2 .. Len(t) /\ j - 1 \in 1 .. Len(t) /\ i - 1 = L + (j - 1) /\ i - 1 \in DOMAIN g /\ i # 1
      <4>1. L \in Nat /\ Len(t) \in Nat /\ DOMAIN g = 1 .. L + Len(t) /\ i = L + j /\ j \in 1 .. Len(t) /\ j # 1
        BY <1>1, <2>1, <2>3
      <4>2. PICK M : M = Len(t)
        OBVIOUS
      <4>3. j \in 2 .. M /\ j - 1 \in 1 .. M /\ i - 1 = L + (j - 1) /\ i - 1 \in 1 .. L + M /\ i # 1
        BY <4>1, <4>2
      <4>. QED BY <4>1, <4>2, <4>3
    <3>2. g[i - 1] = t[j - 1]
      BY <1>1, <3>1
    <3>3. t[j - 1] = Msg("add", t[j].ctx) /\ t[j].ctx \in n
      BY <2>1, <3>1 DEF ListsAll
    <3>. QED BY <2>1, <3>1, <3>2, <3>3
  <2>. QED BY <2>2, <2>3
<1>14. SetsLast(g, {})
  BY <1>6, <1>7 DEF SetsLast
<1>15. ViewNodes(g, n, {})
  BY <1>3 DEF ListsAll, ViewNodes
<1>16. ParentInTime(g, {})
  <2>. SUFFICES ASSUME NEW i \in DOMAIN g, g[i].kind = "add"
               PROVE  \/ Parent[g[i].ctx] = Root
                      \/ Earlier(g, i, Msg("add", Parent[g[i].ctx]))
                      \/ Later(g, i, Msg("set", Parent[g[i].ctx])) \/ Later(g, i, Msg("remove", g[i].ctx))
    BY DEF ParentInTime
  <2>1. CASE i \in DOMAIN e /\ g[i].ctx \in n
    <3>1. Parent[g[i].ctx] = Root \/ Holds(t, Msg("set", Parent[g[i].ctx]))
      BY <2>1 DEF ListsAll, Closed
    <3>. QED BY <1>3, <2>1, <3>1
  <2>2. CASE g[i].ctx \notin n
    BY <1>8, <2>2 DEF GoneIsTold
  <2>3. CASE i \notin DOMAIN e
    <3>1. PICK j \in 1 .. Len(t) : i = L + j /\ g[i] = t[j]
      BY <1>4, <2>3
    <3>2. j \in 2 .. Len(t)
      BY <1>1, <1>5, <3>1
    <3>3. CASE Earlier(t, j, Msg("add", Parent[t[j].ctx]))
      <4>1. PICK a \in DOMAIN t : a < j /\ t[a] = Msg("add", Parent[t[j].ctx])
        BY <3>3 DEF Earlier
      <4>2. L + a \in DOMAIN g /\ L + a < i /\ g[L + a] = t[a]
        BY <1>1, <3>1, <4>1
      <4>. QED BY <3>1, <4>1, <4>2 DEF Earlier
    <3>. QED BY <3>1, <3>2, <3>3 DEF ListsAll
  <2>. QED BY <2>1, <2>2, <2>3
<1>17. Listed(g, {}, vk, {}) /\ ListsAreNodes(g, {}, vk, {}) /\ Shared(g, n, k, {}, {}, wh)
  BY DEF Listed, ListsAreNodes, Shared
<1>18. Holds(g, Msg("set", Root))
  <2>1. 1 \in DOMAIN t /\ t[1] = Msg("set", Root)
    BY <1>1 DEF ListsAll
  <2>. QED BY <1>3, <2>1 DEF Holds
<1>. QED BY <1>8, <1>9, <1>10, <1>11, <1>12, <1>13, <1>14, <1>15, <1>16, <1>17, <1>18
     DEF EventsInOrder, ViewInOrder

(* Where the lists have all that is below, a walk does that.               *)
LEMMA ReachFromRoot ==
    ASSUME NEW n \in SUBSET Ctx, Closed(n), NEW k \in [Node -> SUBSET Ctx],
           \A p \in n \cup {Root} : k[p] = KidsOf(n, p)
    PROVE  Reach(n, k, k[Root]) = n
<1>. SUFFICES ASSUME NEW c \in n, NEW T \in SUBSET n, k[Root] \cap n \subseteq T,
                     \A d \in T : k[d] \cap n \subseteq T
              PROVE  c \in T
  BY DEF Reach
<1>. SUFFICES ASSUME c \notin T PROVE FALSE
  OBVIOUS
<1>1. PICK b \in n \ T : Parent[b] \notin n \ T
  BY TreeAssumption
<1>2. Parent[b] \in T \cup {Root}
  BY <1>1 DEF Closed
<1>3. b \in k[Parent[b]]
  BY <1>1, <1>2 DEF KidsOf
<1>. QED BY <1>1, <1>2, <1>3

(* GetNodes queues such a copy, whichever way it walks.                    *)
LEMMA SnapshotListsAll ==
    ASSUME nodes \in SUBSET Ctx, Closed(nodes), kids \in [Node -> SUBSET Ctx],
           \A p \in nodes \cup {Root} : kids[p] = KidsOf(nodes, p), NEW w \in Walks
    PROVE  ListsAll(Snapshot(w), nodes)
<1>. DEFINE N == Cardinality(nodes)
            v == <<Root>> \o w
            t == Snapshot(w)
<1>1. Reach(nodes, kids, kids[Root]) = nodes
  BY ReachFromRoot
<1>2. /\ w \in [1 .. N -> nodes]
      /\ \A c \in nodes : \E i \in DOMAIN w : w[i] = c
      /\ \A i \in DOMAIN w : w[i] \in kids[Root] \/ \E j \in 1 .. i - 1 : w[i] \in kids[w[j]]
  BY <1>1 DEF Walks
<1>3. N \in Nat
  BY TreeAssumption, FS_Subset, FS_CardinalityType
<1>. HIDE DEF N
<1>4. w \in Seq(nodes) /\ Len(w) = N /\ DOMAIN w = 1 .. N
  BY <1>2, <1>3
<1>5. <<Root>> \in Seq(Node) /\ Len(<<Root>>) = 1 /\ <<Root>>[1] = Root /\ w \in Seq(Node)
  BY <1>2, <1>3, TreeAssumption DEF Node
<1>6. /\ Len(v) = N + 1 /\ v[1] = Root
      /\ \A i \in 1 .. N : v[1 + i] = w[i]
  BY <1>3, <1>4, <1>5, ConcatProperties
<1>. HIDE DEF v
<1>7. t = [i \in 1 .. 2 * (N + 1) - 1 |-> Msg(IF i % 2 = 0 THEN "add" ELSE "set", v[1 + i \div 2])]
  BY <1>6 DEF Snapshot, v
<1>. HIDE DEF t
<1>8. \A i \in 1 .. N : /\ 2 * i \in 1 .. 2 * (N + 1) - 1 /\ (2 * i) % 2 = 0 /\ (2 * i) \div 2 = i
                        /\ 2 * i + 1 \in 1 .. 2 * (N + 1) - 1 /\ (2 * i + 1) % 2 # 0 /\ (2 * i + 1) \div 2 = i
  BY <1>3
<1>9. \A i \in 1 .. N : t[2 * i] = Msg("add", w[i]) /\ t[2 * i + 1] = Msg("set", w[i])
  BY <1>6, <1>7, <1>8
<1>10. t[1] = Msg("set", Root)
  <2>1. 1 \in 1 .. 2 * (N + 1) - 1 /\ 1 % 2 # 0 /\ 1 + 1 \div 2 = 1
    BY <1>3
  <2>. QED BY <1>6, <1>7, <2>1
<1>11. \A i \in 2 .. 2 * (N + 1) - 1 : \E j \in 1 .. N : i = 2 * j \/ i = 2 * j + 1
  <2>. TAKE i \in 2 .. 2 * (N + 1) - 1
  <2>1. i \div 2 \in 1 .. N /\ (i = 2 * (i \div 2) \/ i = 2 * (i \div 2) + 1)
    BY <1>3
  <2>. QED BY <2>1
<1>12. DOMAIN t = 1 .. 2 * (N + 1) - 1 /\ 2 * (N + 1) - 1 \in Nat
  BY <1>3, <1>7
<1>13. \A i \in DOMAIN t : t[i] \in Event
  <2>. SUFFICES ASSUME NEW i \in DOMAIN t PROVE t[i] \in Event
    OBVIOUS
  <2>1. CASE i = 1
    BY <1>10, <2>1 DEF Msg, Event, GivenList, Node
  <2>2. CASE i # 1
    <3>1. i \in 2 .. 2 * (N + 1) - 1
      BY <1>3, <1>12, <2>2
    <3>2. PICK j \in 1 .. N : i = 2 * j \/ i = 2 * j + 1
      BY <1>11, <3>1
    <3>3. w[j] \in Ctx
      BY <1>2
    <3>4. t[i] = Msg("add", w[j]) \/ t[i] = Msg("set", w[j])
      BY <1>9, <3>2
    <3>. QED BY <3>3, <3>4 DEF Msg, Event, GivenList, Node
  <2>. QED BY <2>1, <2>2
<1>14. t \in Seq(Event) /\ Len(t) = 2 * (N + 1) - 1
  <2>1. t \in [1 .. 2 * (N + 1) - 1 -> Event]
    BY <1>7, <1>12, <1>13
  <2>. QED BY <1>12, <2>1
<1>15. ASSUME NEW i \in 2 .. Len(t)
       PROVE  /\ t[i].kind \in {"add", "set"} /\ t[i].ctx \in nodes
              /\ t[i].kind = "set" => t[i - 1] = Msg("add", t[i].ctx)
              /\ t[i].kind = "add" => Parent[t[i].ctx] = Root \/ Earlier(t, i, Msg("add", Parent[t[i].ctx]))
  <2>1. PICK j \in 1 .. N : i = 2 * j \/ i = 2 * j + 1
    BY <1>11, <1>14
  <2>2. w[j] \in nodes
    BY <1>2
  <2>3. CASE i = 2 * j + 1
    <3>1. t[i] = Msg("set", w[j]) /\ i - 1 = 2 * j
      BY <1>9, <2>3
    <3>2. t[i - 1] = Msg("add", w[j])
      BY <1>9, <3>1
    <3>. QED BY <2>2, <3>1, <3>2 DEF Msg
  <2>4. CASE i = 2 * j
    <3>1. t[i].kind = "add" /\ t[i].ctx = w[j]
      <4>1. t[i] = Msg("add", w[j])
        BY <1>9, <2>4
      <4>. QED BY <4>1, MsgFields
    <3>2. ASSUME NEW a \in 1 .. j - 1, w[j] \in kids[w[a]]
          PROVE  Earlier(t, i, Msg("add", Parent[w[j]]))
      <4>1. a \in 1 .. N /\ 2 * a \in DOMAIN t /\ 2 * a < i
        BY <1>3, <1>8, <1>12, <2>4
      <4>2. w[a] \in nodes
        BY <1>2, <4>1
      <4>3. Parent[w[j]] = w[a]
        BY <3>2, <4>2 DEF KidsOf
      <4>4. t[2 * a] = Msg("add", w[a])
        BY <1>9, <4>1
      <4>. QED BY <4>1, <4>3, <4>4 DEF Earlier
    <3>3. w[j] \in kids[Root] => Parent[w[j]] = Root
      BY DEF KidsOf
    <3>4. w[j] \in kids[Root] \/ \E a \in 1 .. j - 1 : w[j] \in kids[w[a]]
      BY <1>2, <1>4
    <3>. QED BY <2>2, <3>1, <3>2, <3>3, <3>4
  <2>. QED BY <2>1, <2>3, <2>4
<1>16. \A c \in nodes : Holds(t, Msg("add", c)) /\ Holds(t, Msg("set", c))
  <2>. TAKE c \in nodes
  <2>1. PICK j \in 1 .. N : w[j] = c
    BY <1>2, <1>4
  <2>2. 2 * j \in DOMAIN t /\ 2 * j + 1 \in DOMAIN t
    BY <1>8, <1>12
  <2>. QED BY <1>9, <2>1, <2>2 DEF Holds
<1>17. Len(t) > 0
  BY <1>3, <1>14
<1>18. ListsAll(t, nodes)
  BY <1>10, <1>14, <1>15, <1>16, <1>17 DEF ListsAll
<1>. QED BY <1>18 DEF t

-----------------------------------------------------------------------------
(* The view takes the first event: f is left of e.                         *)
LEMMA ParentNotUnder ==
    ASSUME NEW a \in Ctx
    PROVE  Parent[a] \notin Under(a)
<1>. SUFFICES ASSUME Parent[a] \in Under(a) PROVE FALSE
  OBVIOUS
<1>. DEFINE S == Under(a) \cap Above(Parent[a])
<1>1. Parent[a] \in Ctx /\ a \in Ctx /\ a \in Above(Parent[a]) /\ Parent[a] \in Above(Parent[a]) /\ a # Root
  BY AboveProperties, OtherParent, UnderProperties DEF Under
<1>2. a \in S /\ S \subseteq Ctx
  BY <1>1, UnderProperties
<1>3. PICK c \in S : Parent[c] \notin S
  BY <1>2, TreeAssumption
<1>4. Parent[c] \in Under(a)
  BY <1>3, UnderProperties
<1>5. Parent[c] \in Above(Parent[a])
  BY <1>1, <1>2, <1>3, AboveProperties, OtherParent
<1>. QED BY <1>3, <1>4, <1>5

(* Below a context, itself left out, are the children and what is below.   *)
LEMMA UnderChildren ==
    ASSUME NEW a \in Ctx, NEW c \in Ctx, Parent[c] \in Under(a)
    PROVE  c \in Under(a) \ {a}
BY UnderProperties, ParentNotUnder

(* What the first event brings: vm has what it adds, and bl no list that   *)
(* al has not but the one that it sets.                                    *)
Begins(e, m) == e[1] = m
Brings(e, vm, al, bl) ==
    /\ e[1].kind = "add" => e[1].ctx \in vm
    /\ \A p \in bl : p \in al \/ (e[1].kind = "set" /\ p = e[1].ctx)

(* The head of the events may be taken.                                    *)
LEMMA PopsInOrder ==
    ASSUME NEW e \in Seq(Event), NEW f \in Seq(Event), Advances(e, f),
           NEW n \in SUBSET Ctx, NEW s \in SUBSET Ctx, NEW vn \in SUBSET Ctx, NEW al \in SUBSET Node,
           NEW vm \in SUBSET Ctx, NEW bl \in SUBSET Node,
           EventsInOrder(e, n, s, vn, al), Brings(e, vm, al, bl)
    PROVE  EventsInOrder(f, n, s, vm, bl)
<1>. USE DEF Brings
<1>1. /\ 1 \in DOMAIN e
      /\ \A i \in DOMAIN f : i \in Nat /\ i + 1 \in DOMAIN e /\ f[i] = e[i + 1]
      /\ \A i \in DOMAIN e : i \in Nat /\ (i = 1 \/ i - 1 \in DOMAIN f)
      /\ \A i \in DOMAIN f : \A m : Later(e, i + 1, m) <=> Later(f, i, m)
  BY DEF Advances
<1>2. GoneIsTold(f, n)
  BY <1>1 DEF EventsInOrder, GoneIsTold
<1>3. ReturnIsTold(f, n, s)
  BY <1>1 DEF EventsInOrder, ReturnIsTold
<1>4. ReturnInOrder(f)
  <2>. SUFFICES ASSUME NEW i \in DOMAIN f, NEW j \in DOMAIN f,
                      i < j, f[i].kind = "remove", f[j].kind = "add", f[j].ctx \in Under(f[i].ctx) \ {f[i].ctx}
               PROVE  \E l \in DOMAIN f : i < l /\ l < j /\ f[l] = Msg("add", Parent[f[j].ctx])
    BY SMTT(30) DEF ReturnInOrder
  <2>1. i + 1 \in DOMAIN e /\ j + 1 \in DOMAIN e /\ i + 1 < j + 1 /\ f[i] = e[i + 1] /\ f[j] = e[j + 1]
    BY <1>1
  <2>2. PICK l \in DOMAIN e : i + 1 < l /\ l < j + 1 /\ e[l] = Msg("add", Parent[f[j].ctx])
    BY <2>1 DEF EventsInOrder, ReturnInOrder
  <2>3. l - 1 \in DOMAIN f /\ i < l - 1 /\ l - 1 < j /\ (l - 1) + 1 = l
    <3>1. l \in Nat /\ i \in Nat /\ j \in Nat /\ (l = 1 \/ l - 1 \in DOMAIN f)
      BY <1>1
    <3>. QED BY <2>2, <3>1
  <2>. QED BY <1>1, <2>2, <2>3
<1>5. RemovalIsWhole(f)
  <2>. SUFFICES ASSUME NEW i \in DOMAIN f, NEW j \in DOMAIN f,
                      i < j, f[i].kind = "add", f[j].kind = "remove", f[i].ctx \in Under(f[j].ctx)
               PROVE  Later(f, i, Msg("remove", f[i].ctx))
    BY DEF RemovalIsWhole
  <2>1. i + 1 \in DOMAIN e /\ j + 1 \in DOMAIN e /\ i + 1 < j + 1 /\ f[i] = e[i + 1] /\ f[j] = e[j + 1]
    BY <1>1
  <2>2. Later(e, i + 1, Msg("remove", f[i].ctx))
    BY <2>1 DEF EventsInOrder, RemovalIsWhole
  <2>. QED BY <1>1, <2>2
<1>6. GivenUp(f)
  BY <1>1 DEF EventsInOrder, GivenUp
<1>7. SetsFollow(f, n, vm)
  <2>. SUFFICES ASSUME NEW i \in DOMAIN f, f[i].kind = "set"
               PROVE  /\ f[i].ctx \in n \cup {Root}
                      /\ f[i].ctx # Root =>
                           IF i = 1 THEN f[i].ctx \in vm ELSE i - 1 \in DOMAIN f /\ f[i - 1] = Msg("add", f[i].ctx)
    BY DEF SetsFollow
  <2>1. i \in Nat /\ i + 1 \in DOMAIN e /\ f[i] = e[i + 1] /\ i + 1 # 1 /\ (i + 1) - 1 = i /\ i \in DOMAIN e
    BY <1>1
  <2>2. f[i].ctx \in n \cup {Root} /\ (f[i].ctx # Root => e[i] = Msg("add", f[i].ctx))
    BY <2>1 DEF EventsInOrder, SetsFollow
  <2>3. CASE i = 1
    BY <2>2, <2>3, MsgFields
  <2>4. CASE i # 1
    <3>1. i - 1 \in DOMAIN f /\ f[i - 1] = e[i]
      BY <1>1, <2>1, <2>4
    <3>. QED BY <2>2, <2>4, <3>1
  <2>. QED BY <2>3, <2>4
<1>8. SetsLast(f, bl)
  <2>. SUFFICES ASSUME NEW i \in DOMAIN f, f[i].kind = "remove"
               PROVE  /\ Under(f[i].ctx) \cap bl = {}
                      /\ \A j \in DOMAIN f : j < i /\ f[j].kind = "set" => f[j].ctx \notin Under(f[i].ctx)
    BY DEF SetsLast
  <2>1. i \in Nat /\ i + 1 \in DOMAIN e /\ f[i] = e[i + 1] /\ 1 < i + 1
    BY <1>1
  <2>2. /\ Under(f[i].ctx) \cap al = {}
        /\ \A j \in DOMAIN e : j < i + 1 /\ e[j].kind = "set" => e[j].ctx \notin Under(f[i].ctx)
    BY <2>1 DEF EventsInOrder, SetsLast
  <2>3. Under(f[i].ctx) \cap bl = {}
    BY <1>1, <2>1, <2>2
  <2>4. ASSUME NEW j \in DOMAIN f, j < i, f[j].kind = "set" PROVE f[j].ctx \notin Under(f[i].ctx)
    <3>1. j + 1 \in DOMAIN e /\ f[j] = e[j + 1] /\ j + 1 < i + 1
      BY <1>1, <2>4
    <3>. QED BY <2>2, <2>4, <3>1
  <2>. QED BY <2>3, <2>4
<1>. QED BY <1>2, <1>3, <1>4, <1>5, <1>6, <1>7, <1>8 DEF EventsInOrder

(* The view runs an event e[1], with f left: what it meets.                *)
Meets(e, f, n, k, vn, vk, al, wh) ==
    /\ e \in Seq(Event) /\ f \in Seq(Event) /\ Advances(e, f)
    /\ n \in SUBSET Ctx /\ Closed(n) /\ vn \in SUBSET Ctx /\ al \in SUBSET Node /\ k \in Lists /\ vk \in Lists
    /\ EventsInOrder(e, n, n, vn, al) /\ ViewInOrder(e, n, k, vn, vk, al, wh)
    /\ \A p \in (n \cup {Root}) \ al : k[p] = KidsOf(n, p)

(* A node is added: l and vl are the lists after it.                       *)
ListsGain(k, l, S, X) == \A p \in X : l[p] = k[p] \cup KidsOf(S, p)
NewLists(l, S) == \A c \in S : l[c] = {}

(* The view adds a node.                                                   *)
LEMMA PopAdd ==
    ASSUME NEW e \in Seq(Event), NEW f \in Seq(Event), Advances(e, f), NEW x \in Ctx, Begins(e, Msg("add", x)),
           NEW n \in SUBSET Ctx, NEW vn \in SUBSET Ctx, NEW al \in SUBSET Node,
           EventsInOrder(e, n, n, vn, al),
           NEW wh, NEW k, NEW vk, ViewInOrder(e, n, k, vn, vk, al, wh),
           NEW l, NEW vl, NEW S, S = {x} \ vn, NEW X, X = vn \ al,
           ListsGain(k, l, S, al), ListsGain(vk, vl, S, X), NewLists(vl, S)
    PROVE  ViewInOrder(f, n, l, vn \cup {x}, vl, al, wh)
<1>. USE DEF Begins, ListsGain, NewLists
<1>. DEFINE vm == vn \cup {x}
<1>1. /\ \A i \in DOMAIN f : i + 1 \in DOMAIN e /\ f[i] = e[i + 1]
      /\ \A m : m # Msg("add", x) => (Holds(e, m) <=> Holds(f, m))
      /\ \A m : Later(e, 1, m) <=> Holds(f, m)
      /\ \A i \in DOMAIN f : \A m : Later(e, i + 1, m) <=> Later(f, i, m)
      /\ \A i \in DOMAIN f : \A m : Earlier(e, i + 1, m) => m = Msg("add", x) \/ Earlier(f, i, m)
      /\ 1 \in DOMAIN e /\ e[1].kind = "add" /\ e[1].ctx = x
  BY MsgFields DEF Advances
<1>2. /\ \A c : Holds(e, Msg("remove", c)) <=> Holds(f, Msg("remove", c))
      /\ \A c : Holds(e, Msg("set", c)) <=> Holds(f, Msg("set", c))
      /\ \A c : c # x => (Holds(e, Msg("add", c)) <=> Holds(f, Msg("add", c)))
  <2>1. /\ \A c : Msg("remove", c) # Msg("add", x) /\ Msg("set", c) # Msg("add", x)
        /\ \A c : c # x => Msg("add", c) # Msg("add", x)
    BY DEF Msg
  <2>. QED BY <1>1, <2>1
<1>3. x \notin n => Holds(f, Msg("remove", x))
  BY <1>1 DEF EventsInOrder, GoneIsTold
<1>4. ViewNodes(f, n, vm)
  BY <1>2, <1>3 DEF ViewInOrder, ViewNodes
<1>5. ParentInTime(f, vm)
  <2>. SUFFICES ASSUME NEW i \in DOMAIN f, f[i].kind = "add"
               PROVE  \/ Parent[f[i].ctx] \in vm \cup {Root}
                      \/ Earlier(f, i, Msg("add", Parent[f[i].ctx]))
                      \/ Later(f, i, Msg("set", Parent[f[i].ctx])) \/ Later(f, i, Msg("remove", f[i].ctx))
    BY DEF ParentInTime
  <2>1. \/ Parent[f[i].ctx] \in vn \cup {Root}
        \/ Earlier(e, i + 1, Msg("add", Parent[f[i].ctx]))
        \/ Later(e, i + 1, Msg("set", Parent[f[i].ctx])) \/ Later(e, i + 1, Msg("remove", f[i].ctx))
    <3>1. i + 1 \in DOMAIN e /\ f[i] = e[i + 1]
      BY <1>1
    <3>2. ParentInTime(e, vn)
      BY DEF ViewInOrder
    <3>. QED BY <3>1, <3>2 DEF ParentInTime
  <2>2. Msg("add", Parent[f[i].ctx]) = Msg("add", x) => Parent[f[i].ctx] = x
    BY DEF Msg
  <2>. QED BY <1>1, <2>1, <2>2
<1>6. Listed(f, vm, vl, al)
  <2>. SUFFICES ASSUME NEW c \in vm
               PROVE  \/ Parent[c] \in al \cup {Root} \/ (Parent[c] \in vm /\ c \in vl[Parent[c]])
                      \/ Holds(f, Msg("set", Parent[c])) \/ Holds(f, Msg("remove", c))
    BY DEF Listed
  <2>1. CASE c \in vn
    <3>1. \/ Parent[c] \in al \cup {Root} \/ (Parent[c] \in vn /\ c \in vk[Parent[c]])
          \/ Holds(e, Msg("set", Parent[c])) \/ Holds(e, Msg("remove", c))
      BY <2>1 DEF ViewInOrder, Listed
    <3>. QED BY <1>2, <3>1
  <2>2. CASE c \notin vn
    <3>1. c = x
      BY <2>2
    <3>2. ~Earlier(e, 1, Msg("add", Parent[x]))
      BY DEF Earlier, Advances
    <3>3. Parent[x] \in vn \cup {Root} \/ Holds(f, Msg("set", Parent[x])) \/ Holds(f, Msg("remove", x))
      BY <1>1, <3>2 DEF ViewInOrder, ParentInTime
    <3>4. Parent[x] \in vn \ al => x \in vl[Parent[x]]
      BY <2>2, <3>1 DEF KidsOf
    <3>. QED BY <3>1, <3>3, <3>4
  <2>. QED BY <2>1, <2>2
<1>7. ListsAreNodes(f, vm, vl, al)
  <2>. SUFFICES ASSUME NEW p \in vm, p \notin al
               PROVE  vl[p] \subseteq vm \/ Holds(f, Msg("remove", p))
    BY DEF ListsAreNodes
  <2>1. CASE p \in vn
    <3>1. vl[p] \subseteq vk[p] \cup {x}
      BY <2>1 DEF KidsOf
    <3>. QED BY <1>2, <2>1, <3>1 DEF ViewInOrder, ListsAreNodes
  <2>2. CASE p \notin vn
    BY <2>2
  <2>. QED BY <2>1, <2>2
<1>8. Shared(f, n, l, vm, al, wh)
  <2>1. al \subseteq (n \cap vm) \cup {Root}
    BY DEF ViewInOrder, Shared
  <2>2. \A c \in Ctx : Parent[c] \in al =>
         /\ c \in n \ k[Parent[c]] => ~wh /\ c \notin vn /\ Holds(e, Msg("add", c))
         /\ c \in k[Parent[c]] \ n => c \in vn /\ Holds(e, Msg("remove", c))
    BY DEF ViewInOrder, Shared
  <2>3. \A c \in Ctx : Parent[c] \in al => (c \in l[Parent[c]] <=> c \in k[Parent[c]] \/ (c = x /\ x \notin vn))
    BY DEF KidsOf
  <2>4. ASSUME NEW c \in Ctx, Parent[c] \in al
        PROVE  /\ c \in n \ l[Parent[c]] => ~wh /\ c \notin vm /\ Holds(f, Msg("add", c))
               /\ c \in l[Parent[c]] \ n => c \in vm /\ Holds(f, Msg("remove", c))
    BY <1>2, <1>3, <2>2, <2>3, <2>4
  <2>. QED BY <2>1, <2>4 DEF Shared
<1>. QED BY <1>4, <1>5, <1>6, <1>7, <1>8 DEF ViewInOrder

(* A node is removed, and D is what the view had below it.                 *)
StaysAway(x, n, wh) == wh => x \notin n
ViewLists(V0, k, vk, al) == V0 \in Lists /\ \A p \in Node : V0[p] = IF p \in al THEN k[p] ELSE vk[p]
ListsLoseIn(k, l, D, X) == \A p \in X : l[p] = k[p] \ D

TakenBelow(D, vn, V0, x) == D = Reach(vn, V0, {x})
Apart(D, al) == D \cap al = {}

(* The view removes a node and all below it.                               *)
LEMMA PopRemove ==
    ASSUME NEW e, NEW f, NEW n, NEW k, NEW vn, NEW vk, NEW al, NEW wh, Meets(e, f, n, k, vn, vk, al, wh),
           NEW x \in Ctx, Begins(e, Msg("remove", x)), StaysAway(x, n, wh),
           NEW V0, ViewLists(V0, k, vk, al), NEW D, TakenBelow(D, vn, V0, x), NEW vm, vm = vn \ D,
           NEW l, NEW vl, ListsLoseIn(k, l, D, al), ListsLose(vk, vl, D)
    PROVE  Apart(D, al) /\ ViewInOrder(f, n, l, vm, vl, al, wh)
<1>. USE DEF Begins, StaysAway, ListsLoseIn, ListsLose
<1>a. /\ e \in Seq(Event) /\ f \in Seq(Event) /\ Advances(e, f) /\ n \in SUBSET Ctx /\ Closed(n)
      /\ vn \in SUBSET Ctx /\ al \in SUBSET Node /\ D = Reach(vn, V0, {x})
      /\ EventsInOrder(e, n, n, vn, al) /\ ViewInOrder(e, n, k, vn, vk, al, wh)
  BY DEF Meets, TakenBelow
<1>. USE <1>a
<1>0. V0 \in [Node -> SUBSET Ctx] /\ (\A p \in Node : V0[p] \subseteq KidsOf(Ctx, p))
      /\ \A p \in Node : V0[p] = IF p \in al THEN k[p] ELSE vk[p]
  BY DEF ViewLists, Lists
<1>1. /\ \A i \in DOMAIN f : i \in Nat /\ i + 1 \in DOMAIN e /\ f[i] = e[i + 1]
      /\ \A m : m # Msg("remove", x) => (Holds(e, m) <=> Holds(f, m))
      /\ \A m : Later(e, 1, m) <=> Holds(f, m)
      /\ \A i \in DOMAIN f : \A m : Later(e, i + 1, m) <=> Later(f, i, m)
      /\ \A i \in DOMAIN f : \A m : Earlier(e, i + 1, m) => m = Msg("remove", x) \/ Earlier(f, i, m)
      /\ \A i \in DOMAIN e : i \in Nat /\ (i = 1 \/ i - 1 \in DOMAIN f)
      /\ 1 \in DOMAIN e /\ e[1].kind = "remove" /\ e[1].ctx = x
  BY MsgFields DEF Advances
<1>2. /\ \A c : c # x => (Holds(e, Msg("remove", c)) <=> Holds(f, Msg("remove", c)))
      /\ \A c : Holds(e, Msg("set", c)) <=> Holds(f, Msg("set", c))
      /\ \A c : Holds(e, Msg("add", c)) <=> Holds(f, Msg("add", c))
      /\ \A i \in DOMAIN f : \A c : Earlier(e, i + 1, Msg("add", c)) => Earlier(f, i, Msg("add", c))
  <2>1. /\ \A c : Msg("set", c) # Msg("remove", x) /\ Msg("add", c) # Msg("remove", x)
        /\ \A c : c # x => Msg("remove", c) # Msg("remove", x)
    BY DEF Msg
  <2>. QED BY <1>1, <2>1
<1>3. D \subseteq Under(x) /\ D \subseteq vn /\ (x \in vn => x \in D) /\ \A p \in D : V0[p] \cap vn \subseteq D
  BY <1>0, ReachBelow, ReachProperties
<1>4. D \cap al = {}
  BY <1>1, <1>3 DEF EventsInOrder, SetsLast
<1>5. \A c \in Under(x) \cap n : Holds(f, Msg("add", c))
  BY <1>1 DEF EventsInOrder, ReturnIsTold
<1>6. ViewNodes(f, n, vm)
  <2>. SUFFICES ASSUME NEW c \in Ctx
               PROVE  Holds(f, Msg("add", c)) \/ Holds(f, Msg("remove", c)) \/ (c \in vm <=> c \in n)
    BY DEF ViewNodes
  <2>1. CASE c \in D \/ c = x
    <3>1. c \in Under(x) /\ c \notin vm
      BY <1>3, <2>1, UnderProperties
    <3>. QED BY <1>5, <3>1
  <2>2. CASE c \notin D /\ c # x
    BY <1>2, <2>2 DEF ViewInOrder, ViewNodes
  <2>. QED BY <2>1, <2>2
<1>7. ParentInTime(f, vm)
  <2>. SUFFICES ASSUME NEW i \in DOMAIN f, f[i].kind = "add"
               PROVE  \/ Parent[f[i].ctx] \in vm \cup {Root}
                      \/ Earlier(f, i, Msg("add", Parent[f[i].ctx]))
                      \/ Later(f, i, Msg("set", Parent[f[i].ctx])) \/ Later(f, i, Msg("remove", f[i].ctx))
    BY DEF ParentInTime
  <2>. DEFINE c == f[i].ctx
  <2>1. i + 1 \in DOMAIN e /\ f[i] = e[i + 1] /\ 1 < i + 1
    <3>1. i \in Nat /\ i # 0
      BY LenProperties
    <3>. QED BY <1>1, <3>1
  <2>2. c \in Ctx
    <3>1. f[i] \in Event
      BY LenProperties, ElementOfSeq
    <3>. QED BY <3>1 DEF Event, GivenList
  <2>3. \/ Parent[c] \in vn \cup {Root} \/ Earlier(e, i + 1, Msg("add", Parent[c]))
        \/ Later(e, i + 1, Msg("set", Parent[c])) \/ Later(e, i + 1, Msg("remove", c))
    BY <2>1 DEF ViewInOrder, ParentInTime
  <2>4. ASSUME Parent[c] \in D PROVE Earlier(f, i, Msg("add", Parent[c]))
    <3>1. c \in Under(x) \ {x}
      BY <1>3, <2>2, <2>4, UnderChildren
    <3>2. PICK j \in DOMAIN e : 1 < j /\ j < i + 1 /\ e[j] = Msg("add", Parent[c])
      <4>1. ReturnInOrder(e)
        BY DEF EventsInOrder
      <4>2. /\ 1 \in DOMAIN e /\ i + 1 \in DOMAIN e /\ 1 < i + 1 /\ e[1].kind = "remove" /\ e[1].ctx = x
            /\ e[i + 1].kind = "add" /\ e[i + 1].ctx = c
        BY <1>1, <2>1
      <4>. HIDE DEF c
      <4>. QED BY <3>1, <4>1, <4>2 DEF ReturnInOrder
    <3>3. Earlier(e, i + 1, Msg("add", Parent[c]))
      BY <3>2 DEF Earlier
    <3>. QED BY <1>2, <3>3
  <2>. QED BY <1>1, <1>2, <2>3, <2>4
<1>8. Listed(f, vm, vl, al)
  <2>. SUFFICES ASSUME NEW c \in vm
               PROVE  \/ Parent[c] \in al \cup {Root} \/ (Parent[c] \in vm /\ c \in vl[Parent[c]])
                      \/ Holds(f, Msg("set", Parent[c])) \/ Holds(f, Msg("remove", c))
    BY DEF Listed
  <2>1. \/ Parent[c] \in al \cup {Root} \/ (Parent[c] \in vn /\ c \in vk[Parent[c]])
        \/ Holds(e, Msg("set", Parent[c])) \/ Holds(e, Msg("remove", c))
    BY DEF ViewInOrder, Listed
  <2>2. c # x /\ Parent[c] \in Node
    BY <1>3, OtherParent
  <2>3. Parent[c] \in D => c \notin vk[Parent[c]]
    BY <1>0, <1>3, <1>4, <2>2
  <2>. QED BY <1>2, <2>1, <2>2, <2>3
<1>9. ListsAreNodes(f, vm, vl, al)
  <2>. SUFFICES ASSUME NEW p \in vm, p \notin al
               PROVE  vl[p] \subseteq vm \/ Holds(f, Msg("remove", p))
    BY DEF ListsAreNodes
  <2>1. p # x /\ p \in Node \ D
    BY <1>3, OtherParent
  <2>2. vk[p] \subseteq vn \/ Holds(e, Msg("remove", p))
    BY DEF ViewInOrder, ListsAreNodes
  <2>3. vl[p] = vk[p] \ D
    BY <2>1
  <2>4. vk[p] \subseteq vn => vl[p] \subseteq vm
    BY <2>3
  <2>. QED BY <1>2, <2>1, <2>2, <2>4
<1>10. Shared(f, n, l, vm, al, wh)
  <2>1. al \subseteq (n \cap vm) \cup {Root}
    BY <1>4 DEF ViewInOrder, Shared
  <2>2. \A c \in Ctx : Parent[c] \in al =>
         /\ c \in n \ k[Parent[c]] => ~wh /\ c \notin vn /\ Holds(e, Msg("add", c))
         /\ c \in k[Parent[c]] \ n => c \in vn /\ Holds(e, Msg("remove", c))
    BY DEF ViewInOrder, Shared
  <2>3. \A c \in D \cap n : ~wh /\ Holds(f, Msg("add", c))
    BY <1>3, <1>5, ClosedUnder
  <2>4. ASSUME NEW c \in Ctx, Parent[c] \in al
        PROVE  /\ c \in n \ l[Parent[c]] => ~wh /\ c \notin vm /\ Holds(f, Msg("add", c))
               /\ c \in l[Parent[c]] \ n => c \in vm /\ Holds(f, Msg("remove", c))
    <3>1. l[Parent[c]] = k[Parent[c]] \ D
      BY <2>4
    <3>2. c \in n \ l[Parent[c]] => ~wh /\ c \notin vm /\ Holds(f, Msg("add", c))
      BY <1>2, <2>2, <2>3, <2>4, <3>1
    <3>3. ASSUME c \in l[Parent[c]] \ n PROVE c \in vm /\ Holds(f, Msg("remove", c))
      <4>1. c \in vn /\ Holds(e, Msg("remove", c)) /\ c \notin D
        BY <2>2, <2>4, <3>1, <3>3
      <4>. QED BY <1>2, <1>3, <4>1
    <3>. QED BY <3>2, <3>3
  <2>. QED BY <2>1, <2>4 DEF Shared
<1>. QED BY <1>4, <1>6, <1>7, <1>8, <1>9, <1>10 DEF ViewInOrder, Apart

(* A list of the manager is taken over.                                    *)
TakenFrom(D, vn, V0, k, q) == D = Reach(vn, V0, V0[q] \ k[q])
ListsLoseBut(k, l, D, q) == \A p \in Node \ D : p # q => l[p] = k[p] \ D

(* The view takes over a list of the manager's.                            *)
LEMMA PopSet ==
    ASSUME NEW e, NEW f, NEW n, NEW k, NEW vn, NEW vk, NEW al, NEW wh, Meets(e, f, n, k, vn, vk, al, wh),
           NEW q \in Node, Begins(e, Msg("set", q)), NEW bl, bl = al \cup {q},
           NEW V0, ViewLists(V0, k, vk, al), NEW D, TakenFrom(D, vn, V0, k, q), NEW vm, vm = vn \ D,
           NEW vl, ListsLoseBut(vk, vl, D, q)
    PROVE  Apart(D, bl) /\ ViewInOrder(f, n, k, vm, vl, bl, wh)
<1>. DEFINE T == {c \in Ctx \ n : Parent[c] = q \/ Parent[c] \notin n \cup {Root}}
            S == V0[q] \ k[q]
<1>. USE DEF Begins, ListsLoseBut
<1>a. /\ e \in Seq(Event) /\ f \in Seq(Event) /\ Advances(e, f) /\ n \in SUBSET Ctx /\ Closed(n)
      /\ vn \in SUBSET Ctx /\ al \in SUBSET Node /\ D = Reach(vn, V0, S)
      /\ EventsInOrder(e, n, n, vn, al) /\ ViewInOrder(e, n, k, vn, vk, al, wh)
  BY DEF Meets, TakenFrom
<1>. USE <1>a
<1>0. V0 \in [Node -> SUBSET Ctx] /\ (\A p \in Node : V0[p] \subseteq KidsOf(Ctx, p))
      /\ \A p \in Node : V0[p] = IF p \in al THEN k[p] ELSE vk[p]
  BY DEF ViewLists, Lists
<1>1. /\ \A i \in DOMAIN f : i \in Nat /\ i + 1 \in DOMAIN e /\ f[i] = e[i + 1]
      /\ \A m : m # Msg("set", q) => (Holds(e, m) <=> Holds(f, m))
      /\ \A i \in DOMAIN f : \A m : Later(e, i + 1, m) <=> Later(f, i, m)
      /\ \A i \in DOMAIN f : \A m : Earlier(e, i + 1, m) => m = Msg("set", q) \/ Earlier(f, i, m)
      /\ 1 \in DOMAIN e /\ e[1].kind = "set" /\ e[1].ctx = q
  BY MsgFields DEF Advances
<1>2. /\ \A c : Holds(e, Msg("remove", c)) <=> Holds(f, Msg("remove", c))
      /\ \A c : c # q => (Holds(e, Msg("set", c)) <=> Holds(f, Msg("set", c)))
      /\ \A c : Holds(e, Msg("add", c)) <=> Holds(f, Msg("add", c))
      /\ \A i \in DOMAIN f : \A c : Earlier(e, i + 1, Msg("add", c)) => Earlier(f, i, Msg("add", c))
  <2>1. /\ \A c : Msg("remove", c) # Msg("set", q) /\ Msg("add", c) # Msg("set", q)
        /\ \A c : c # q => Msg("set", c) # Msg("set", q)
    BY DEF Msg
  <2>. QED BY <1>1, <2>1
<1>3. q \in n \cup {Root} /\ (q # Root => q \in vn)
  BY <1>1 DEF EventsInOrder, SetsFollow
<1>b. q \notin al => k[q] = KidsOf(n, q)
  BY <1>3 DEF Meets
<1>4. al \subseteq (n \cap vn) \cup {Root}
  BY DEF ViewInOrder, Shared
<1>5. D \subseteq vn /\ (\A p \in D : V0[p] \cap vn \subseteq D) /\ S \cap vn \subseteq D
  <2>1. D = Reach(vn, V0, S)
    OBVIOUS
  <2>. HIDE DEF S
  <2>. QED BY <1>0, <2>1, ReachProperties
<1>6. D \subseteq T /\ (q \in al => D = {})
  <2>1. CASE q \in al
    <3>1. V0[q] \ k[q] = {}
      BY <1>0, <2>1
    <3>2. D \subseteq {}
      <4>. DEFINE E == {}
      <4>1. /\ D = Reach(vn, V0, S) /\ S \cap vn \subseteq E
            /\ E \in SUBSET Ctx /\ \A d \in E \cap vn : V0[d] \cap vn \subseteq E
        BY <3>1
      <4>. HIDE DEF S, E
      <4>2. D \subseteq E
        BY <4>1, ReachLeast
      <4>. QED BY <4>2 DEF E
    <3>. QED BY <3>2
  <2>2. CASE q \notin al
    <3>1. (V0[q] \ k[q]) \cap vn \subseteq T
      BY <1>0, <1>b, <2>2 DEF KidsOf
    <3>2. \A d \in T \cap vn : V0[d] \cap vn \subseteq T
      <4>. SUFFICES ASSUME NEW d \in T, NEW c \in V0[d] PROVE c \in T
        OBVIOUS
      <4>1. c \in Ctx /\ Parent[c] = d /\ d \in Ctx \ n
        BY <1>0, OtherParent DEF KidsOf
      <4>2. d # Root
        BY <4>1, OtherParent
      <4>. QED BY <4>1, <4>2 DEF Closed
    <3>3. D = Reach(vn, V0, S) /\ S \cap vn \subseteq T /\ T \in SUBSET Ctx
      BY <3>1
    <3>. HIDE DEF S, T
    <3>. QED BY <2>2, <3>2, <3>3, ReachLeast
  <2>. QED BY <2>1, <2>2
<1>7. D \cap n = {} /\ D \cap bl = {} /\ Root \notin D
  <2>1. \A c \in D : c \in Ctx \ n /\ c # Root
    BY <1>6, OtherParent
  <2>2. D \cap n = {} /\ Root \notin D
    BY <2>1
  <2>3. \A p \in bl : p \in n \cup {Root}
    BY <1>3, <1>4
  <2>. QED BY <2>2, <2>3
<1>8. \A c \in Ctx : Parent[c] \in al /\ Parent[c] # q => c \notin D
  BY <1>4, <1>6
<1>9. ViewNodes(f, n, vm)
  BY <1>2, <1>7 DEF ViewInOrder, ViewNodes
<1>10. ParentInTime(f, vm)
  <2>. SUFFICES ASSUME NEW i \in DOMAIN f, f[i].kind = "add"
               PROVE  \/ Parent[f[i].ctx] \in vm \cup {Root}
                      \/ Earlier(f, i, Msg("add", Parent[f[i].ctx]))
                      \/ Later(f, i, Msg("set", Parent[f[i].ctx])) \/ Later(f, i, Msg("remove", f[i].ctx))
    BY DEF ParentInTime
  <2>. DEFINE c == f[i].ctx
  <2>1. i + 1 \in DOMAIN e /\ f[i] = e[i + 1]
    BY <1>1
  <2>2. \/ Parent[c] \in vn \cup {Root} \/ Earlier(e, i + 1, Msg("add", Parent[c]))
        \/ Later(e, i + 1, Msg("set", Parent[c])) \/ Later(e, i + 1, Msg("remove", c))
    BY <2>1 DEF ViewInOrder, ParentInTime
  <2>3. ASSUME Parent[c] \in D PROVE Later(e, i + 1, Msg("remove", c))
    <3>1. c \notin n
      BY <1>7, <2>3 DEF Closed
    <3>. QED BY <2>1, <3>1 DEF EventsInOrder, GoneIsTold
  <2>. QED BY <1>1, <1>2, <2>2, <2>3
<1>11. Listed(f, vm, vl, bl)
  <2>. SUFFICES ASSUME NEW c \in vm
               PROVE  \/ Parent[c] \in bl \cup {Root} \/ (Parent[c] \in vm /\ c \in vl[Parent[c]])
                      \/ Holds(f, Msg("set", Parent[c])) \/ Holds(f, Msg("remove", c))
    BY DEF Listed
  <2>1. \/ Parent[c] \in al \cup {Root} \/ (Parent[c] \in vn /\ c \in vk[Parent[c]])
        \/ Holds(e, Msg("set", Parent[c])) \/ Holds(e, Msg("remove", c))
    BY DEF ViewInOrder, Listed
  <2>2. Parent[c] \in Node
    BY OtherParent
  <2>3. Parent[c] \in D => c \notin vk[Parent[c]]
    BY <1>0, <1>5, <1>7, <2>2
  <2>. QED BY <1>2, <2>1, <2>2, <2>3
<1>12. ListsAreNodes(f, vm, vl, bl)
  <2>. SUFFICES ASSUME NEW p \in vm, p \notin bl
               PROVE  vl[p] \subseteq vm \/ Holds(f, Msg("remove", p))
    BY DEF ListsAreNodes
  <2>1. p # q /\ p \in Node \ D /\ p \in vn \ al
    BY OtherParent
  <2>2. vk[p] \subseteq vn \/ Holds(e, Msg("remove", p))
    BY <2>1 DEF ViewInOrder, ListsAreNodes
  <2>3. vl[p] = vk[p] \ D
    BY <2>1
  <2>4. vk[p] \subseteq vn => vl[p] \subseteq vm
    BY <2>3
  <2>. QED BY <1>2, <2>1, <2>2, <2>4
<1>13. Shared(f, n, k, vm, bl, wh)
  <2>1. bl \subseteq (n \cap vm) \cup {Root}
    BY <1>3, <1>4, <1>7
  <2>2. \A c \in Ctx : Parent[c] \in al =>
         /\ c \in n \ k[Parent[c]] => ~wh /\ c \notin vn /\ Holds(e, Msg("add", c))
         /\ c \in k[Parent[c]] \ n => c \in vn /\ Holds(e, Msg("remove", c))
    BY DEF ViewInOrder, Shared
  <2>3. ASSUME NEW c \in Ctx, Parent[c] \in bl
        PROVE  /\ c \in n \ k[Parent[c]] => ~wh /\ c \notin vm /\ Holds(f, Msg("add", c))
               /\ c \in k[Parent[c]] \ n => c \in vm /\ Holds(f, Msg("remove", c))
    <3>1. CASE Parent[c] \in al
      <4>1. c \notin D
        BY <1>6, <1>8, <3>1
      <4>. QED BY <1>2, <2>2, <3>1, <4>1
    <3>2. CASE Parent[c] \notin al
      <4>1. Parent[c] = q /\ k[q] = KidsOf(n, q)
        BY <1>b, <2>3, <3>2
      <4>. QED BY <4>1 DEF KidsOf
    <3>. QED BY <3>1, <3>2
  <2>. QED BY <2>1, <2>3 DEF Shared
<1>. QED BY <1>7, <1>9, <1>10, <1>11, <1>12, <1>13 DEF ViewInOrder, Apart

(* A list that the manager gave up meanwhile.                              *)
TakenOwn(D, vn, V0, q, l) == D = Reach(vn, V0, V0[q] \ l)

(* The view is given a list that the manager has dropped.                  *)
LEMMA PopSetOwn ==
    ASSUME NEW e, NEW f, NEW n, NEW k, NEW vn, NEW vk, NEW al, NEW wh, Meets(e, f, n, k, vn, vk, al, wh),
           NEW m0, Begins(e, m0), m0.kind = "setOwn", NEW q \in Ctx, q = m0.ctx,
           NEW V0, ViewLists(V0, k, vk, al), NEW D, NEW vl, TakenOwn(D, vn, V0, q, vl[q]),
           NEW vm, vm = vn \ D, ListsLoseBut(vk, vl, D, q)
    PROVE  Apart(D \cup {q}, al) /\ ViewInOrder(f, n, k, vm, vl, al, wh)
<1>. USE DEF Begins, ListsLoseBut
<1>a. /\ e \in Seq(Event) /\ f \in Seq(Event) /\ Advances(e, f) /\ n \in SUBSET Ctx /\ Closed(n)
      /\ vn \in SUBSET Ctx /\ al \in SUBSET Node /\ D = Reach(vn, V0, V0[q] \ vl[q])
      /\ EventsInOrder(e, n, n, vn, al) /\ ViewInOrder(e, n, k, vn, vk, al, wh)
  BY DEF Meets, TakenOwn
<1>. USE <1>a
<1>0. V0 \in [Node -> SUBSET Ctx] /\ (\A p \in Node : V0[p] \subseteq KidsOf(Ctx, p))
      /\ \A p \in Node : V0[p] = IF p \in al THEN k[p] ELSE vk[p]
  BY DEF ViewLists, Lists
<1>1. /\ \A i \in DOMAIN f : i \in Nat /\ i + 1 \in DOMAIN e /\ f[i] = e[i + 1]
      /\ \A m : m # m0 => (Holds(e, m) <=> Holds(f, m))
      /\ \A m : Later(e, 1, m) <=> Holds(f, m)
      /\ \A i \in DOMAIN f : \A m : Later(e, i + 1, m) <=> Later(f, i, m)
      /\ \A i \in DOMAIN f : \A m : Earlier(e, i + 1, m) => m = m0 \/ Earlier(f, i, m)
      /\ \A i \in DOMAIN e : i \in Nat
      /\ 1 \in DOMAIN e /\ e[1].kind = "setOwn" /\ e[1].ctx = q
  BY MsgFields DEF Advances
<1>2. /\ \A c : Holds(e, Msg("remove", c)) <=> Holds(f, Msg("remove", c))
      /\ \A c : Holds(e, Msg("set", c)) <=> Holds(f, Msg("set", c))
      /\ \A c : Holds(e, Msg("add", c)) <=> Holds(f, Msg("add", c))
      /\ \A i \in DOMAIN f : \A c : Earlier(e, i + 1, Msg("add", c)) => Earlier(f, i, Msg("add", c))
  <2>1. \A c : Msg("remove", c) # m0 /\ Msg("add", c) # m0 /\ Msg("set", c) # m0
    BY DEF Msg
  <2>. QED BY <1>1, <2>1
(* The removal of q is behind.                                             *)
<1>3. PICK r \in DOMAIN e : 1 < r /\ e[r] = Msg("remove", q)
  BY <1>1 DEF EventsInOrder, GivenUp, Later
<1>4. r \in Nat /\ e[r].kind = "remove" /\ e[r].ctx = q
  BY <1>1, <1>3, MsgFields
<1>5. Under(q) \cap al = {} /\ q \in Under(q)
  BY <1>4, UnderProperties DEF EventsInOrder, SetsLast
<1>6. D \subseteq vn /\ (\A p \in D : V0[p] \cap vn \subseteq D) /\ (V0[q] \ vl[q]) \cap vn \subseteq D
  <2>1. PICK A : A = V0[q] \ vl[q]
    OBVIOUS
  <2>2. D = Reach(vn, V0, A)
    BY <2>1
  <2>3. D \subseteq vn /\ (\A p \in D : V0[p] \cap vn \subseteq D) /\ A \cap vn \subseteq D
    BY <1>0, <2>2, ReachProperties
  <2>. QED BY <2>1, <2>3
<1>7. D \subseteq Under(q) \ {q}
  <2>. DEFINE T == Under(q) \ {q}
  <2>1. \A p \in Under(q) : V0[p] \subseteq T
    <3>. SUFFICES ASSUME NEW p \in Under(q), NEW c \in V0[p] PROVE c \in T
      OBVIOUS
    <3>1. p \in Node
      BY UnderProperties, OtherParent
    <3>2. c \in Ctx /\ Parent[c] = p
      BY <1>0, <3>1 DEF KidsOf
    <3>. QED BY <3>2, UnderChildren
  <2>2. (V0[q] \ vl[q]) \cap vn \subseteq T /\ T \in SUBSET Ctx /\ \A d \in T \cap vn : V0[d] \cap vn \subseteq T
    BY <1>5, <2>1, UnderProperties
  <2>. HIDE DEF T
  <2>3. D \subseteq T
    BY <2>2, ReachLeast
  <2>. QED BY <2>3 DEF T
<1>8. D \cap al = {} /\ q \notin al
  BY <1>5, <1>7
<1>9. \A c \in Under(q) \cap n : Holds(f, Msg("add", c))
  <2>1. \A c \in Under(q) \cap n : Later(e, r, Msg("add", c))
    BY <1>4 DEF EventsInOrder, ReturnIsTold
  <2>. QED BY <1>2, <2>1 DEF Later, Holds
<1>10. ViewNodes(f, n, vm)
  <2>. SUFFICES ASSUME NEW c \in Ctx
               PROVE  Holds(f, Msg("add", c)) \/ Holds(f, Msg("remove", c)) \/ (c \in vm <=> c \in n)
    BY DEF ViewNodes
  <2>1. CASE c \in D
    BY <1>7, <1>9, <2>1
  <2>2. CASE c \notin D
    BY <1>2, <2>2 DEF ViewInOrder, ViewNodes
  <2>. QED BY <2>1, <2>2
<1>11. ParentInTime(f, vm)
  <2>. SUFFICES ASSUME NEW i \in DOMAIN f, f[i].kind = "add"
               PROVE  \/ Parent[f[i].ctx] \in vm \cup {Root}
                      \/ Earlier(f, i, Msg("add", Parent[f[i].ctx]))
                      \/ Later(f, i, Msg("set", Parent[f[i].ctx])) \/ Later(f, i, Msg("remove", f[i].ctx))
    BY DEF ParentInTime
  <2>. DEFINE c == f[i].ctx
  <2>1. i + 1 \in DOMAIN e /\ f[i] = e[i + 1] /\ i \in Nat
    BY <1>1
  <2>2. c \in Ctx
    <3>1. f[i] \in Event
      BY LenProperties, ElementOfSeq
    <3>. QED BY <3>1 DEF Event, GivenList
  <2>3. \/ Parent[c] \in vn \cup {Root} \/ Earlier(e, i + 1, Msg("add", Parent[c]))
        \/ Later(e, i + 1, Msg("set", Parent[c])) \/ Later(e, i + 1, Msg("remove", c))
    BY <2>1 DEF ViewInOrder, ParentInTime
  <2>4. ASSUME Parent[c] \in D
        PROVE  Earlier(e, i + 1, Msg("add", Parent[c])) \/ Later(e, i + 1, Msg("remove", c))
    <3>1. c \in Under(q) \ {q}
      BY <1>7, <2>2, <2>4, UnderChildren
    <3>2. r # i + 1
      BY <1>4, <2>1
    <3>3. CASE i + 1 < r
      BY <1>4, <2>1, <3>1, <3>3 DEF EventsInOrder, RemovalIsWhole
    <3>4. CASE r < i + 1
      <4>1. PICK j \in DOMAIN e : r < j /\ j < i + 1 /\ e[j] = Msg("add", Parent[c])
        BY <1>4, <2>1, <3>1, <3>4 DEF EventsInOrder, ReturnInOrder
      <4>. QED BY <4>1 DEF Earlier
    <3>. QED BY <1>4, <2>1, <3>2, <3>3, <3>4
  <2>. QED BY <1>1, <1>2, <2>3, <2>4
<1>12. Listed(f, vm, vl, al)
  <2>. SUFFICES ASSUME NEW c \in vm
               PROVE  \/ Parent[c] \in al \cup {Root} \/ (Parent[c] \in vm /\ c \in vl[Parent[c]])
                      \/ Holds(f, Msg("set", Parent[c])) \/ Holds(f, Msg("remove", c))
    BY DEF Listed
  <2>1. \/ Parent[c] \in al \cup {Root} \/ (Parent[c] \in vn /\ c \in vk[Parent[c]])
        \/ Holds(e, Msg("set", Parent[c])) \/ Holds(e, Msg("remove", c))
    BY DEF ViewInOrder, Listed
  <2>2. Parent[c] \in Node
    BY OtherParent
  <2>3. Parent[c] \in D => c \notin vk[Parent[c]]
    BY <1>0, <1>6, <1>8, <2>2
  <2>4. Parent[c] = q /\ c \in vk[q] => c \in vl[q]
    BY <1>0, <1>6, <1>8, <2>2
  <2>5. q \notin D
    BY <1>7
  <2>6. ASSUME Parent[c] \in vn, c \in vk[Parent[c]], Parent[c] # q PROVE Parent[c] \in vm /\ c \in vl[Parent[c]]
    <3>1. Parent[c] \in Node \ D /\ c \notin D
      BY <2>2, <2>3, <2>6
    <3>2. vl[Parent[c]] = vk[Parent[c]] \ D
      BY <2>6, <3>1
    <3>. QED BY <2>6, <3>1, <3>2
  <2>7. Parent[c] = q /\ Parent[c] \in vn => Parent[c] \in vm
    BY <2>5
  <2>. QED BY <1>2, <2>1, <2>4, <2>6, <2>7
<1>13. ListsAreNodes(f, vm, vl, al)
  <2>. SUFFICES ASSUME NEW p \in vm, p \notin al
               PROVE  vl[p] \subseteq vm \/ Holds(f, Msg("remove", p))
    BY DEF ListsAreNodes
  <2>1. p \in Node \ D /\ p \in vn \ al
    BY OtherParent
  <2>2. vk[p] \subseteq vn \/ Holds(e, Msg("remove", p))
    BY <2>1 DEF ViewInOrder, ListsAreNodes
  <2>3. CASE p = q
    BY <1>2, <1>3, <2>3 DEF Holds
  <2>4. CASE p # q
    <3>1. vl[p] \subseteq vk[p] \ D
      BY <2>1, <2>4
    <3>2. vk[p] \subseteq vn => vl[p] \subseteq vm
      BY <3>1
    <3>. QED BY <1>2, <2>2, <3>2
  <2>. QED BY <2>3, <2>4
<1>14. Shared(f, n, k, vm, al, wh)
  <2>1. al \subseteq (n \cap vm) \cup {Root}
    BY <1>8 DEF ViewInOrder, Shared
  <2>2. \A c \in Ctx : Parent[c] \in al =>
         /\ c \in n \ k[Parent[c]] => ~wh /\ c \notin vn /\ Holds(e, Msg("add", c))
         /\ c \in k[Parent[c]] \ n => c \in vn /\ Holds(e, Msg("remove", c))
    BY DEF ViewInOrder, Shared
  <2>3. \A c \in Ctx : Parent[c] \in al => c \notin D
    BY <1>5, <1>7, UnderProperties
  <2>4. ASSUME NEW c \in Ctx, Parent[c] \in al
        PROVE  /\ c \in n \ k[Parent[c]] => ~wh /\ c \notin vm /\ Holds(f, Msg("add", c))
               /\ c \in k[Parent[c]] \ n => c \in vm /\ Holds(f, Msg("remove", c))
    BY <1>2, <2>2, <2>3, <2>4
  <2>. QED BY <2>1, <2>4 DEF Shared
<1>. QED BY <1>8, <1>10, <1>11, <1>12, <1>13, <1>14 DEF ViewInOrder, Apart

-----------------------------------------------------------------------------
(* A set of numbers has an increasing enumeration: the number at a place   *)
(* has that many members up to it.                                         *)
Increasing(f, K) ==
    /\ f \in [1 .. Cardinality(K) -> K]
    /\ \A i, j \in DOMAIN f : i < j => f[i] < f[j]

(* A finite set of numbers can be put in order.                            *)
LEMMA IncreasingExists ==
    ASSUME NEW K \in SUBSET Int, IsFiniteSet(K)
    PROVE  \E f : Increasing(f, K)
<1>. DEFINE N == Cardinality(K)
            Upto(j) == {m \in K : m <= j}
            rank == [j \in K |-> Cardinality(Upto(j))]
            f == [i \in 1 .. N |-> CHOOSE j \in K : rank[j] = i]
<1>1. N \in Nat
  BY FS_CardinalityType
<1>2. \A j \in K : IsFiniteSet(Upto(j)) /\ Cardinality(Upto(j)) \in Nat /\ Cardinality(Upto(j)) <= N
  <2>. TAKE j \in K
  <2>1. Upto(j) \in SUBSET K
    OBVIOUS
  <2>. HIDE DEF Upto
  <2>. QED BY <2>1, FS_Subset, FS_CardinalityType
<1>3. \A i, j \in K : i < j => Cardinality(Upto(i)) < Cardinality(Upto(j))
  <2>. SUFFICES ASSUME NEW i \in K, NEW j \in K, i < j PROVE Cardinality(Upto(i)) < Cardinality(Upto(j))
    OBVIOUS
  <2>1. Upto(i) \in SUBSET Upto(j) /\ Upto(i) # Upto(j)
    <3>1. j \in Upto(j) /\ j \notin Upto(i)
      OBVIOUS
    <3>2. Upto(i) \subseteq Upto(j)
      <4>1. i \in Int /\ j \in Int /\ \A m \in K : m \in Int
        OBVIOUS
      <4>2. \A m \in K : m <= i => m <= j
        BY <4>1
      <4>. QED BY <4>2
    <3>. QED BY <3>1, <3>2
  <2>2. IsFiniteSet(Upto(j)) /\ Cardinality(Upto(i)) \in Nat /\ Cardinality(Upto(j)) \in Nat
    BY <1>2
  <2>. HIDE DEF Upto
  <2>3. Cardinality(Upto(i)) <= Cardinality(Upto(j)) /\ (Cardinality(Upto(i)) = Cardinality(Upto(j)) => Upto(i) = Upto(j))
    BY <2>1, <2>2, FS_Subset
  <2>. QED BY <2>1, <2>2, <2>3
<1>4. \A j \in K : Cardinality(Upto(j)) # 0
  <2>. TAKE j \in K
  <2>1. IsFiniteSet(Upto(j)) /\ j \in Upto(j)
    BY <1>2
  <2>. HIDE DEF Upto
  <2>. QED BY <2>1, FS_EmptySet
<1>. HIDE DEF N, Upto
<1>5. \A j \in K : rank[j] \in 1 .. N
  BY <1>1, <1>2, <1>4
<1>6. rank \in Injection(K, 1 .. N)
  <2>1. rank \in [K -> 1 .. N]
    BY <1>5
  <2>2. \A i, j \in K : rank[i] = rank[j] => i = j
    <3>. SUFFICES ASSUME NEW i \in K, NEW j \in K, rank[i] = rank[j], i # j PROVE FALSE
      OBVIOUS
    <3>1. Cardinality(Upto(i)) = Cardinality(Upto(j)) /\ Cardinality(Upto(i)) \in Nat
      BY <1>2
    <3>2. i \in Int /\ j \in Int /\ (i < j \/ j < i)
      OBVIOUS
    <3>. QED BY <1>3, <3>1, <3>2
  <2>. QED BY <2>1, <2>2 DEF Injection, IsInjective
<1>7. IsFiniteSet(1 .. N) /\ Cardinality(1 .. N) = N
  <2>1. 1 \in Int /\ N \in Int
    BY <1>1
  <2>2. IsFiniteSet(1 .. N) /\ Cardinality(1 .. N) = IF 1 > N THEN 0 ELSE N - 1 + 1
    BY ONLY <2>1, FS_Interval
  <2>. QED BY <1>1, <2>2
<1>8. rank \in Surjection(K, 1 .. N)
  <2>1. Cardinality(K) = Cardinality(1 .. N)
    BY <1>7 DEF N
  <2>. HIDE DEF rank
  <2>. QED BY <1>6, <1>7, <2>1, FS_Injection
<1>9. \A i \in 1 .. N : \E j \in K : rank[j] = i
  BY <1>8 DEF Surjection
<1>10. \A i \in 1 .. N : f[i] \in K /\ rank[f[i]] = i
  BY <1>9
<1>. HIDE DEF f
<1>11. ASSUME NEW i \in 1 .. N, NEW j \in 1 .. N, i < j PROVE f[i] < f[j]
  <2>1. f[i] \in K /\ f[j] \in K /\ Cardinality(Upto(f[i])) = i /\ Cardinality(Upto(f[j])) = j
    BY <1>10
  <2>2. f[i] \in Int /\ f[j] \in Int
    BY <2>1
  <2>3. f[j] < f[i] => j < i
    BY <1>3, <2>1
  <2>4. f[j] = f[i] => j = i
    BY <2>1
  <2>. QED BY <1>1, <1>11, <2>2, <2>3, <2>4
<1>12. f \in [1 .. N -> K]
  BY <1>10 DEF f
<1>13. \A i, j \in DOMAIN f : i < j => f[i] < f[j]
  BY <1>11, <1>12
<1>. QED BY <1>12, <1>13 DEF Increasing, N

(* The order has all of the numbers.                                       *)
LEMMA IncreasingReaches ==
    ASSUME NEW K \in SUBSET Int, IsFiniteSet(K), NEW f, Increasing(f, K)
    PROVE  \A k \in K : \E i \in DOMAIN f : f[i] = k
<1>. DEFINE N == Cardinality(K)
<1>1. N \in Nat
  BY FS_CardinalityType
<1>2. IsFiniteSet(1 .. N) /\ Cardinality(1 .. N) = N
  <2>1. 1 \in Int /\ N \in Int
    BY <1>1
  <2>2. IsFiniteSet(1 .. N) /\ Cardinality(1 .. N) = IF 1 > N THEN 0 ELSE N - 1 + 1
    BY ONLY <2>1, FS_Interval
  <2>. QED BY <1>1, <2>2
<1>3. f \in Injection(1 .. N, K)
  <2>1. f \in [1 .. N -> K]
    BY DEF Increasing
  <2>2. \A i, j \in 1 .. N : f[i] = f[j] => i = j
    <3>. SUFFICES ASSUME NEW i \in 1 .. N, NEW j \in 1 .. N, i < j PROVE f[i] # f[j]
      BY <1>1
    <3>1. f[i] < f[j] /\ f[i] \in Int
      BY <2>1 DEF Increasing
    <3>. QED BY <3>1
  <2>. QED BY <2>1, <2>2 DEF Injection, IsInjective
<1>4. f \in Surjection(1 .. N, K)
  <2>1. Cardinality(1 .. N) = Cardinality(K)
    BY <1>2
  <2>. HIDE DEF N
  <2>. QED BY <1>2, <1>3, <2>1, FS_Injection
<1>5. DOMAIN f = 1 .. N
  BY DEF Increasing
<1>. QED BY <1>4, <1>5 DEF Surjection

(* What _node_added tells: what is left of the deque.                      *)
LEMMA ToldProperties ==
    ASSUME NEW q \in Seq(Ctx), NEW n \in SUBSET Ctx, NEW t, t = Told(q, n)
    PROVE  /\ t \in Seq(Event)
           /\ \A j \in DOMAIN t : t[j].kind = "add" /\ t[j].ctx \in n
           /\ \A c \in ToSet(q) \cap n : Holds(t, Msg("add", c))
           /\ \A c : ~Holds(t, Msg("remove", c))
           /\ q = <<>> => t = <<>>
<1>. DEFINE K == {i \in DOMAIN q : q[i] \in n}
            f == Kept(q, n)
            N == Cardinality(K)
<1>1. DOMAIN q = 1 .. Len(q) /\ Len(q) \in Nat /\ \A i \in DOMAIN q : q[i] \in Ctx
  BY LenProperties, ElementOfSeq
<1>2. K \in SUBSET Int /\ IsFiniteSet(K)
  <2>1. 1 \in Int /\ Len(q) \in Int
    BY <1>1
  <2>2. IsFiniteSet(1 .. Len(q))
    BY ONLY <2>1, FS_Interval
  <2>3. K \in SUBSET (1 .. Len(q))
    BY <1>1
  <2>4. IsFiniteSet(K)
    BY ONLY <2>2, <2>3, FS_Subset
  <2>. QED BY <1>1, <2>4
<1>3. Increasing(f, K)
  <2>1. f = CHOOSE g \in [1 .. Cardinality(K) -> K] : \A i, j \in DOMAIN g : i < j => g[i] < g[j]
    BY DEF Kept
  <2>2. \E g \in [1 .. Cardinality(K) -> K] : \A i, j \in DOMAIN g : i < j => g[i] < g[j]
    <3>. HIDE DEF K
    <3>. QED BY <1>2, IncreasingExists DEF Increasing
  <2>. HIDE DEF f, K
  <2>. QED BY <2>1, <2>2 DEF Increasing
<1>4. \A k \in K : \E i \in DOMAIN f : f[i] = k
  <2>. HIDE DEF f, K
  <2>. QED BY <1>2, <1>3, IncreasingReaches
<1>5. f \in [1 .. N -> K] /\ N \in Nat
  BY <1>2, <1>3, FS_CardinalityType DEF Increasing
<1>. HIDE DEF N
<1>6. DOMAIN f = 1 .. N /\ \A i \in 1 .. N : f[i] \in DOMAIN q /\ q[f[i]] \in n
  BY <1>5
<1>7. t = [i \in 1 .. N |-> Msg("add", q[f[i]])]
  BY <1>6 DEF Told
<1>. HIDE DEF f, K
<1>8. \A i \in 1 .. N : t[i] = Msg("add", q[f[i]]) /\ t[i] \in Event
  <2>. TAKE i \in 1 .. N
  <2>1. q[f[i]] \in Ctx
    BY <1>6
  <2>. QED BY <1>7, <2>1 DEF Msg, Event
<1>9. DOMAIN t = 1 .. N
  BY <1>7
<1>10. t \in Seq(Event)
  <2>1. t \in [1 .. N -> Event]
    BY <1>7, <1>8
  <2>. QED BY <1>5, <2>1
<1>11. \A j \in DOMAIN t : t[j].kind = "add" /\ t[j].ctx \in n
  BY <1>6, <1>8, <1>9, MsgFields
<1>12. ASSUME NEW c \in ToSet(q) \cap n PROVE Holds(t, Msg("add", c))
  <2>1. PICK k \in DOMAIN q : q[k] = c
    BY DEF ToSet
  <2>2. k \in K
    BY <2>1 DEF K
  <2>3. PICK i \in DOMAIN f : f[i] = k
    BY <1>4, <2>2
  <2>. QED BY <1>6, <1>8, <1>9, <2>1, <2>3 DEF Holds
<1>13. \A c : ~Holds(t, Msg("remove", c))
  BY <1>11, MsgFields DEF Holds
<1>14. q = <<>> => t = <<>>
  <2>. SUFFICES ASSUME q = <<>> PROVE t = <<>>
    OBVIOUS
  <2>1. 1 \notin 1 .. N
    BY <1>6
  <2>2. N = 0
    BY <1>5, <2>1
  <2>. QED BY <1>5, <1>8, <1>9, <1>10, <2>2, EmptySeq
<1>. QED BY <1>10, <1>11, <1>12, <1>13, <1>14

(* And _node_removed: all of it.                                           *)
LEMMA UntoldProperties ==
    ASSUME NEW q \in Seq(Ctx), NEW t, t = Untold(q)
    PROVE  /\ t \in Seq(Event)
           /\ \A j \in DOMAIN t : t[j].kind = "remove" /\ t[j].ctx \in ToSet(q)
           /\ \A c \in ToSet(q) : Holds(t, Msg("remove", c))
           /\ q = <<>> => t = <<>>
<1>1. DOMAIN q = 1 .. Len(q) /\ Len(q) \in Nat /\ \A i \in DOMAIN q : q[i] \in Ctx
  BY LenProperties, ElementOfSeq
<1>2. t = [i \in 1 .. Len(q) |-> Msg("remove", q[i])]
  BY <1>1 DEF Untold
<1>3. \A i \in 1 .. Len(q) : t[i] = Msg("remove", q[i]) /\ t[i] \in Event
  BY <1>1, <1>2 DEF Msg, Event
<1>4. t \in [1 .. Len(q) -> Event] /\ DOMAIN t = 1 .. Len(q)
  BY <1>2, <1>3
<1>5. t \in Seq(Event)
  BY <1>1, <1>4
<1>6. \A j \in DOMAIN t : t[j].kind = "remove" /\ t[j].ctx = q[j]
  BY <1>3, <1>4, MsgFields
<1>7. q = <<>> => t = <<>>
  BY <1>4, <1>5, EmptySeq
<1>. QED BY <1>1, <1>3, <1>4, <1>5, <1>6, <1>7 DEF ToSet, Holds

(* The deques.                                                             *)
LEMMA NotedProperties ==
    ASSUME NEW q \in Seq(Ctx), NEW S \in SUBSET Ctx
    PROVE  /\ Noted(q, S) \in Seq(Ctx)
           /\ Listened => ToSet(Noted(q, S)) = ToSet(q) \cup S
           /\ ~Listened => Noted(q, S) = q
           /\ S = {} => Noted(q, S) = q
<1>. DEFINE T == S \ ToSet(q)
            u == SetToSeq(T)
<1>1. T \in SUBSET Ctx /\ IsFiniteSet(T)
  <2>1. T \in SUBSET Ctx
    OBVIOUS
  <2>2. IsFiniteSet(Ctx)
    BY TreeAssumption
  <2>. HIDE DEF T
  <2>. QED BY <2>1, <2>2, FS_Subset
<1>2. u \in Seq(T) /\ ToSet(u) = T
  <2>. HIDE DEF T
  <2>. QED BY <1>1, SetToSeqProperties
<1>3. u \in Seq(Ctx)
  BY <1>2
<1>. HIDE DEF u
<1>4. q \o u \in Seq(Ctx) /\ ToSet(q \o u) = ToSet(q) \cup T
  BY <1>2, <1>3, ToSetConcat
<1>5. S = {} => q \o u = q
  <2>. SUFFICES ASSUME S = {} PROVE q \o u = q
    OBVIOUS
  <2>1. ToSet(u) = {}
    BY <1>2
  <2>2. DOMAIN u = 1 .. Len(u) /\ Len(u) \in Nat
    BY <1>3, LenProperties
  <2>3. Len(u) = 0
    <3>1. 1 \in DOMAIN u => u[1] \in ToSet(u)
      BY DEF ToSet
    <3>. QED BY <2>1, <2>2, <3>1
  <2>. QED BY <1>3, <2>3, ConcatEmptySeq, EmptySeq
<1>6. Noted(q, S) = IF Listened THEN q \o u ELSE q
  BY DEF Noted, u
<1>7. ToSet(q) \cup T = ToSet(q) \cup S
  OBVIOUS
<1>. HIDE DEF T
<1>. QED BY <1>4, <1>5, <1>6, <1>7

(* Freeze is what FrozenPlaces is about.                                   *)
LEMMA FreezeFrozen ==
    ASSUME events \in Seq(Event), \A p \in Node : kids[p] \subseteq KidsOf(Ctx, p), NEW D \in SUBSET Ctx
    PROVE  Frozen(events, Freeze(D), D)
<1>. DEFINE f == Freeze(D)
            own(c) == [kind |-> "setOwn", ctx |-> c, list |-> kids[c]]
<1>1. DOMAIN events = 1 .. Len(events) /\ Len(events) \in Nat /\ \A i \in DOMAIN events : events[i] \in Event
  BY LenProperties, ElementOfSeq
<1>2. f = [i \in 1 .. Len(events) |-> IF events[i].ctx \in D /\ events[i].kind = "set"
                                        THEN own(events[i].ctx) ELSE events[i]]
  BY <1>1 DEF Freeze
<1>. HIDE DEF f
<1>3. \A i \in 1 .. Len(events) :
        /\ events[i].kind = "set" /\ events[i].ctx \in D => f[i] = own(events[i].ctx)
        /\ ~(events[i].kind = "set" /\ events[i].ctx \in D) => f[i] = events[i]
  BY <1>2
<1>4. \A c \in D : own(c) \in Event /\ own(c).kind = "setOwn" /\ own(c).ctx = c
  <2>1. \A c \in D : c \in Node /\ kids[c] \subseteq KidsOf(Ctx, c) /\ KidsOf(Ctx, c) \subseteq Ctx
    BY DEF Node, KidsOf
  <2>. QED BY <2>1 DEF Event, GivenList
<1>. HIDE DEF own
<1>5. \A i \in 1 .. Len(events) : f[i] \in Event
  BY <1>1, <1>3, <1>4
<1>6. f \in Seq(Event) /\ DOMAIN f = 1 .. Len(events)
  BY <1>1, <1>2, <1>5
<1>. QED BY <1>1, <1>3, <1>4, <1>6 DEF Frozen, f

(* Without a list of the manager it changes nothing.                       *)
LEMMA FreezeNone ==
    ASSUME events \in Seq(Event), NEW D, \A i \in DOMAIN events : events[i].kind # "set"
    PROVE  Freeze(D) = events
<1>1. events = [i \in DOMAIN events |-> events[i]]
  BY LenProperties
<1>. QED BY <1>1 DEF Freeze

(* Without an event there is nothing to keep in order.                     *)
LEMMA NoEventsInOrder ==
    ASSUME NEW n, NEW s, NEW vn, NEW al
    PROVE  EventsInOrder(<<>>, n, s, vn, al)
<1>. DEFINE e == <<>>
<1>1. DOMAIN e = {}
  OBVIOUS
<1>. HIDE DEF e
<1>2. EventsInOrder(e, n, s, vn, al)
  BY <1>1 DEF EventsInOrder, GoneIsTold, ReturnIsTold, ReturnInOrder, RemovalIsWhole, GivenUp, SetsFollow, SetsLast
<1>. QED BY <1>2 DEF e

(* More nodes of the manager, or fewer of the server, keep the order.      *)
LEMMA OrderGrows ==
    ASSUME NEW e, NEW n, NEW m, n \subseteq m, NEW s, NEW r, r \subseteq s, NEW vn, NEW al,
           EventsInOrder(e, n, s, vn, al)
    PROVE  EventsInOrder(e, m, r, vn, al)
<1>1. GoneIsTold(e, m)
  BY DEF EventsInOrder, GoneIsTold
<1>2. ReturnIsTold(e, m, r)
  BY DEF EventsInOrder, ReturnIsTold
<1>3. SetsFollow(e, m, vn)
  BY DEF EventsInOrder, SetsFollow
<1>. QED BY <1>1, <1>2, <1>3 DEF EventsInOrder

-----------------------------------------------------------------------------
(* A message joins the queue, ...                                          *)
OneAnswer(m, q) == m.kind = "children" => \A i \in DOMAIN q : q[i].kind # "children"
Counted(s, t, de, df, wh) == de \subseteq df /\ (wh => s \ t \subseteq df /\ (t \ s) \cap de = {})

(* The history goes on with what the server has then.                      *)
LEMMA HistoryAppend ==
    ASSUME NEW h \in Seq(SUBSET Ctx), NEW q \in Seq(Message), NEW s \in SUBSET Ctx, NEW as, NEW wh,
           NEW m \in Message, NEW t \in SUBSET Ctx, NEW g, g = Append(h, t), NEW q2, q2 = Append(q, m),
           History(h, q, s, as, wh), Closed(t), Tells(m, s, t, as, wh), OneAnswer(m, q)
    PROVE  g \in Seq(SUBSET Ctx) /\ q2 \in Seq(Message) /\ History(g, q2, t, as, wh)
<1>1. /\ Len(q) \in Nat /\ Len(h) = Len(q) + 1 /\ h[Len(q) + 1] = s
      /\ DOMAIN q = 1 .. Len(q) /\ DOMAIN h = 1 .. Len(q) + 1
      /\ \A i \in 1 .. Len(q) + 1 : Closed(h[i])
      /\ \A i \in 1 .. Len(q) : Tells(q[i], h[i], h[i + 1], as, wh)
      /\ \A i, j \in 1 .. Len(q) : q[i].kind = "children" /\ q[j].kind = "children" => i = j
  BY LenProperties DEF History
<1>. DEFINE L == Len(q)
<1>2. /\ g \in Seq(SUBSET Ctx) /\ Len(g) = L + 2 /\ DOMAIN g = 1 .. L + 2
      /\ \A i \in 1 .. L + 1 : g[i] = h[i]
      /\ g[L + 2] = t
  BY <1>1, AppendProperties
<1>3. /\ q2 \in Seq(Message) /\ Len(q2) = L + 1 /\ DOMAIN q2 = 1 .. L + 1
      /\ \A i \in 1 .. L : q2[i] = q[i]
      /\ q2[L + 1] = m
  BY <1>1, AppendProperties
<1>. HIDE DEF L
<1>4. L \in Nat /\ \A i \in 1 .. L + 1 : i \in 1 .. L \/ i = L + 1
  BY <1>1 DEF L
<1>5. \A i \in 1 .. L + 2 : i \in 1 .. L + 1 \/ i = L + 2
  BY <1>4
<1>6. \A i \in 1 .. L : i \in 1 .. L + 1 /\ i + 1 \in 1 .. L + 1
  BY <1>4
<1>7. \A i \in 1 .. L + 2 : Closed(g[i])
  BY <1>1, <1>2, <1>5 DEF L
<1>8. \A i \in 1 .. L + 1 : Tells(q2[i], g[i], g[i + 1], as, wh)
  <2>. TAKE i \in 1 .. L + 1
  <2>1. CASE i \in 1 .. L
    <3>1. q2[i] = q[i] /\ g[i] = h[i] /\ g[i + 1] = h[i + 1]
      BY <1>2, <1>3, <1>6, <2>1
    <3>. QED BY <1>1, <2>1, <3>1 DEF L
  <2>2. CASE i = L + 1
    <3>1. q2[i] = m /\ g[i] = s /\ i + 1 = L + 2
      BY <1>1, <1>2, <1>3, <1>4, <2>2 DEF L
    <3>. QED BY <1>2, <3>1
  <2>. QED BY <1>4, <2>1, <2>2
<1>9. \A i, j \in 1 .. L + 1 : q2[i].kind = "children" /\ q2[j].kind = "children" => i = j
  BY <1>1, <1>3, <1>4 DEF L, OneAnswer
<1>10. History(g, q2, t, as, wh)
  <2>1. Len(g) = Len(q2) + 1 /\ g[Len(g)] = t
    BY <1>2, <1>3, <1>4
  <2>2. \A i \in DOMAIN g : Closed(g[i])
    BY <1>2, <1>7
  <2>3. \A i \in DOMAIN q2 : Tells(q2[i], g[i], g[i + 1], as, wh)
    BY <1>3, <1>8
  <2>4. \A i, j \in DOMAIN q2 : q2[i].kind = "children" /\ q2[j].kind = "children" => i = j
    BY <1>3, <1>9
  <2>. QED BY <2>1, <2>2, <2>3, <2>4 DEF History
<1>. QED BY <1>2, <1>3, <1>10

(* No context comes back if none of those that the server adds was there.  *)
LEMMA NoReturnAppend ==
    ASSUME NEW h \in Seq(SUBSET Ctx), NEW q \in Seq(Message), NEW s \in SUBSET Ctx, NEW as, NEW wh,
           NEW m \in Message, NEW t \in SUBSET Ctx, NEW g, g = Append(h, t), NEW q2, q2 = Append(q, m),
           History(h, q, s, as, wh),
           NEW e, NEW de, NEW df, NoReturn(h, q, e, wh, de), Counted(s, t, de, df, wh)
    PROVE  NoReturn(g, q2, e, wh, df)
<1>1. /\ Len(q) \in Nat /\ Len(h) = Len(q) + 1 /\ h[Len(q) + 1] = s
      /\ DOMAIN q = 1 .. Len(q) /\ DOMAIN h = 1 .. Len(q) + 1
      /\ \A i \in 1 .. Len(q) + 1 : Closed(h[i])
      /\ \A i \in 1 .. Len(q) : Tells(q[i], h[i], h[i + 1], as, wh)
      /\ \A i, j \in 1 .. Len(q) : q[i].kind = "children" /\ q[j].kind = "children" => i = j
  BY LenProperties DEF History
<1>. DEFINE L == Len(q)
<1>2. /\ g \in Seq(SUBSET Ctx) /\ Len(g) = L + 2 /\ DOMAIN g = 1 .. L + 2
      /\ \A i \in 1 .. L + 1 : g[i] = h[i]
      /\ g[L + 2] = t
  BY <1>1, AppendProperties
<1>3. /\ q2 \in Seq(Message) /\ Len(q2) = L + 1 /\ DOMAIN q2 = 1 .. L + 1
      /\ \A i \in 1 .. L : q2[i] = q[i]
      /\ q2[L + 1] = m
  BY <1>1, AppendProperties
<1>. HIDE DEF L
<1>4. L \in Nat /\ \A i \in 1 .. L + 1 : i \in 1 .. L \/ i = L + 1
  BY <1>1 DEF L
<1>5. \A i \in 1 .. L + 2 : i \in 1 .. L + 1 \/ i = L + 2
  BY <1>4
<1>6. \A i \in 1 .. L : i \in 1 .. L + 1 /\ i + 1 \in 1 .. L + 1
  BY <1>4
<1>7. NoReturn(g, q2, e, wh, df)
  <2>. SUFFICES ASSUME wh
                PROVE  /\ \A i, j \in 1 .. L + 2 : i < j => (g[i] \ g[i + 1]) \cap g[j] = {}
                       /\ \A i \in 1 .. L + 1 : g[i] \ g[i + 1] \subseteq df
                       /\ \A c \in Ctx : Holds(e, Msg("remove", c)) => c \in df /\ \A i \in 1 .. L + 2 : c \notin g[i]
    BY <1>2, <1>3 DEF NoReturn
  <2>1. /\ \A i, j \in 1 .. L + 1 : i < j => (h[i] \ h[i + 1]) \cap h[j] = {}
        /\ \A i \in 1 .. L : h[i] \ h[i + 1] \subseteq de
        /\ \A c \in Ctx : Holds(e, Msg("remove", c)) => c \in de /\ \A i \in 1 .. L + 1 : c \notin h[i]
    BY <1>1 DEF NoReturn, L
  <2>2. s \ t \subseteq df /\ (t \ s) \cap de = {} /\ de \subseteq df
    BY DEF Counted
  <2>3. h[L + 1] = s
    BY <1>1 DEF L
  <2>4. ASSUME NEW i \in 1 .. L + 2, NEW j \in 1 .. L + 2, i < j PROVE (g[i] \ g[i + 1]) \cap g[j] = {}
    <3>1. i \in 1 .. L + 1
      BY <1>4, <2>4
    <3>2. CASE i = L + 1
      <4>1. g[i + 1] = t /\ j = L + 2
        BY <1>2, <1>4, <2>4, <3>2
      <4>. QED BY <1>2, <4>1
    <3>3. CASE i \in 1 .. L
      <4>1. g[i] = h[i] /\ g[i + 1] = h[i + 1]
        BY <1>2, <1>6, <3>3
      <4>2. CASE j \in 1 .. L + 1
        BY <1>2, <1>6, <2>1, <2>4, <3>3, <4>1, <4>2
      <4>3. CASE j = L + 2
        <5>1. L + 1 \in 1 .. L + 1 /\ i < L + 1 /\ i \in 1 .. L + 1
          BY <1>4, <3>3
        <5>2. (h[i] \ h[i + 1]) \cap s = {} /\ h[i] \ h[i + 1] \subseteq de
          BY <2>1, <2>3, <3>3, <5>1
        <5>. QED BY <1>2, <2>2, <4>1, <4>3, <5>2
      <4>. QED BY <1>5, <4>2, <4>3
    <3>. QED BY <1>4, <3>1, <3>2, <3>3
  <2>5. ASSUME NEW i \in 1 .. L + 1 PROVE g[i] \ g[i + 1] \subseteq df
    <3>1. CASE i = L + 1
      <4>1. g[i] = s /\ g[i + 1] = t
        BY <1>2, <1>4, <2>3, <3>1
      <4>. QED BY <2>2, <4>1
    <3>2. CASE i \in 1 .. L
      <4>1. g[i] = h[i] /\ g[i + 1] = h[i + 1]
        BY <1>2, <1>6, <3>2
      <4>. QED BY <2>1, <2>2, <3>2, <4>1
    <3>. QED BY <1>4, <3>1, <3>2
  <2>6. ASSUME NEW c \in Ctx, Holds(e, Msg("remove", c)) PROVE c \in df /\ \A i \in 1 .. L + 2 : c \notin g[i]
    <3>1. c \in de /\ \A i \in 1 .. L + 1 : c \notin h[i]
      BY <2>1, <2>6
    <3>2. c \notin s
      <4>1. L + 1 \in 1 .. L + 1
        BY <1>4
      <4>. QED BY <2>3, <3>1, <4>1
    <3>3. c \notin t
      BY <2>2, <3>1, <3>2
    <3>. QED BY <1>2, <1>5, <2>2, <3>1, <3>3
  <2>. QED BY <2>4, <2>5, <2>6
<1>. QED BY <1>7
(* ... and the first leaves it.                                            *)
LEMMA HistoryHead ==
    ASSUME NEW h \in Seq(SUBSET Ctx), NEW q \in Seq(Message), NEW s \in SUBSET Ctx, NEW as, NEW wh, q # <<>>,
           History(h, q, s, as, wh)
    PROVE  /\ Head(q) \in Message /\ Tells(Head(q), h[1], Tail(h)[1], as, wh)
           /\ h[1] \in SUBSET Ctx /\ Tail(h)[1] \in SUBSET Ctx /\ Closed(h[1]) /\ Closed(Tail(h)[1])
<1>1. /\ Len(q) \in Nat \ {0} /\ Len(h) = Len(q) + 1 /\ h[Len(q) + 1] = s
      /\ DOMAIN q = 1 .. Len(q) /\ DOMAIN h = 1 .. Len(q) + 1
      /\ \A i \in 1 .. Len(q) + 1 : Closed(h[i]) /\ h[i] \in SUBSET Ctx
      /\ \A i \in 1 .. Len(q) : Tells(q[i], h[i], h[i + 1], as, wh)
      /\ \A i, j \in 1 .. Len(q) : q[i].kind = "children" /\ q[j].kind = "children" => i = j
  <2>1. Len(q) \in Nat /\ Len(q) # 0 /\ DOMAIN q = 1 .. Len(q)
    BY LenProperties, EmptySeq
  <2>2. Len(h) = Len(q) + 1 /\ h[Len(q) + 1] = s
    BY DEF History
  <2>3. DOMAIN h = 1 .. Len(q) + 1 /\ \A i \in 1 .. Len(q) + 1 : h[i] \in SUBSET Ctx
    BY <2>1, <2>2, LenProperties, ElementOfSeq
  <2>4. \A i \in 1 .. Len(q) + 1 : Closed(h[i])
    BY <2>3 DEF History
  <2>. QED BY <2>1, <2>2, <2>3, <2>4 DEF History
<1>2. h # <<>> /\ Head(q) = q[1] /\ Head(q) \in Message
  <2>1. h # <<>>
    BY <1>1, EmptySeq
  <2>. QED BY <2>1, HeadTailProperties
<1>3. Tail(h)[1] = h[1 + 1] /\ 1 \in 1 .. Len(q) /\ 1 \in 1 .. Len(q) + 1 /\ 1 + 1 \in 1 .. Len(q) + 1
  <2>1. Len(Tail(h)) = Len(h) - 1 /\ \A i \in 1 .. Len(Tail(h)) : Tail(h)[i] = h[i + 1]
    BY <1>2, HeadTailProperties
  <2>. QED BY <1>1, <2>1
<1>. QED BY <1>1, <1>2, <1>3

(* Taking the head leaves a history of the rest.                           *)
LEMMA HistoryTail ==
    ASSUME NEW h \in Seq(SUBSET Ctx), NEW q \in Seq(Message), NEW s \in SUBSET Ctx, NEW as, NEW wh,
           NEW g, g = Tail(h), NEW q2, q2 = Tail(q), q # <<>>,
           History(h, q, s, as, wh), NEW at, at = as \/ Head(q).kind = "children"
    PROVE  g \in Seq(SUBSET Ctx) /\ q2 \in Seq(Message) /\ History(g, q2, s, at, wh)
<1>1. /\ Len(q) \in Nat \ {0} /\ Len(h) = Len(q) + 1 /\ h[Len(q) + 1] = s
      /\ DOMAIN q = 1 .. Len(q) /\ DOMAIN h = 1 .. Len(q) + 1
      /\ \A i \in 1 .. Len(q) + 1 : Closed(h[i]) /\ h[i] \in SUBSET Ctx
      /\ \A i \in 1 .. Len(q) : Tells(q[i], h[i], h[i + 1], as, wh)
      /\ \A i, j \in 1 .. Len(q) : q[i].kind = "children" /\ q[j].kind = "children" => i = j
  <2>1. Len(q) \in Nat /\ Len(q) # 0 /\ DOMAIN q = 1 .. Len(q)
    BY LenProperties, EmptySeq
  <2>2. Len(h) = Len(q) + 1 /\ h[Len(q) + 1] = s
    BY DEF History
  <2>3. DOMAIN h = 1 .. Len(q) + 1 /\ \A i \in 1 .. Len(q) + 1 : h[i] \in SUBSET Ctx
    BY <2>1, <2>2, LenProperties, ElementOfSeq
  <2>4. \A i \in 1 .. Len(q) + 1 : Closed(h[i])
    BY <2>3 DEF History
  <2>. QED BY <2>1, <2>2, <2>3, <2>4 DEF History
<1>. DEFINE L == Len(q) - 1
<1>2. h # <<>> /\ Head(q) = q[1] /\ Head(q) \in Message
  <2>1. h # <<>>
    BY <1>1, EmptySeq
  <2>. QED BY <2>1, HeadTailProperties
<1>3. /\ g \in Seq(SUBSET Ctx) /\ Len(g) = L + 1 /\ DOMAIN g = 1 .. L + 1
      /\ \A i \in 1 .. L + 1 : g[i] = h[i + 1]
  <2>1. g \in Seq(SUBSET Ctx) /\ Len(g) = Len(h) - 1 /\ \A i \in 1 .. Len(g) : g[i] = h[i + 1]
    BY <1>2, HeadTailProperties
  <2>. QED BY <1>1, <2>1, LenProperties
<1>4. /\ q2 \in Seq(Message) /\ Len(q2) = L /\ DOMAIN q2 = 1 .. L
      /\ \A i \in 1 .. L : q2[i] = q[i + 1]
  <2>1. q2 \in Seq(Message) /\ Len(q2) = Len(q) - 1 /\ \A i \in 1 .. Len(q2) : q2[i] = q[i + 1]
    BY HeadTailProperties
  <2>. QED BY <1>1, <2>1, LenProperties
<1>5. L \in Nat /\ Len(q) = L + 1
  BY <1>1
<1>. HIDE DEF L
<1>6. /\ \A i \in 1 .. L + 1 : i \in 1 .. L + 2 /\ i + 1 \in 1 .. L + 2
      /\ \A i \in 1 .. L : i \in 1 .. L + 1 /\ i + 1 \in 1 .. L + 1 /\ i + 1 \in 2 .. L + 1
      /\ 1 \in 1 .. L + 1 /\ 1 \in 1 .. L + 2 /\ 2 \in 1 .. L + 2 /\ L + 1 + 1 = L + 2
  BY <1>5
<1>7. /\ h[L + 2] = s /\ DOMAIN q = 1 .. L + 1 /\ DOMAIN h = 1 .. L + 2
      /\ \A i \in 1 .. L + 2 : Closed(h[i]) /\ h[i] \in SUBSET Ctx
      /\ \A i \in 1 .. L + 1 : Tells(q[i], h[i], h[i + 1], as, wh)
      /\ \A i, j \in 1 .. L + 1 : q[i].kind = "children" /\ q[j].kind = "children" => i = j
  BY <1>1, <1>5, <1>6
<1>8. Tells(Head(q), h[1], g[1], as, wh)
  <2>1. Tells(q[1], h[1], h[1 + 1], as, wh)
    BY <1>6, <1>7
  <2>. QED BY <1>2, <1>3, <1>6, <2>1
<1>9. \A i \in 1 .. L : Tells(q2[i], g[i], g[i + 1], at, wh)
  <2>. TAKE i \in 1 .. L
  <2>1. Tells(q[i + 1], h[i + 1], h[i + 1 + 1], as, wh) /\ q2[i] = q[i + 1] /\ g[i] = h[i + 1] /\ g[i + 1] = h[i + 1 + 1]
    BY <1>3, <1>4, <1>6, <1>7
  <2>2. CASE at = as
    BY <2>1, <2>2
  <2>3. CASE Head(q).kind = "children"
    <3>1. q2[i].kind # "children"
      <4>1. q[i + 1].kind = "children" => i + 1 = 1
        BY <1>2, <1>6, <1>7, <2>3
      <4>2. i + 1 # 1
        BY <1>5
      <4>. QED BY <2>1, <4>1, <4>2
    <3>2. as # <<>>
      BY <1>8, <2>3 DEF Tells
    <3>. QED BY <2>1, <3>1, <3>2 DEF Tells
  <2>. QED BY <2>2, <2>3
<1>10. \A i, j \in 1 .. L : q2[i].kind = "children" /\ q2[j].kind = "children" => i = j
  <2>. SUFFICES ASSUME NEW i \in 1 .. L, NEW j \in 1 .. L, q2[i].kind = "children", q2[j].kind = "children" PROVE i = j
    OBVIOUS
  <2>1. i + 1 = j + 1
    BY <1>4, <1>6, <1>7
  <2>. QED BY <1>5, <2>1
<1>11. History(g, q2, s, at, wh)
  <2>1. L + 1 \in 1 .. L + 1 /\ g[L + 1] = s
    BY <1>3, <1>5, <1>6, <1>7
  <2>. QED BY <1>3, <1>4, <1>6, <1>7, <1>9, <1>10, <2>1 DEF History
<1>. QED BY <1>3, <1>4, <1>11

(* f are the events then.                                                  *)
LEMMA NoReturnTail ==
    ASSUME NEW h \in Seq(SUBSET Ctx), NEW q \in Seq(Message), NEW s \in SUBSET Ctx, NEW as, NEW wh,
           NEW g, g = Tail(h), NEW q2, q2 = Tail(q), q # <<>>,
           History(h, q, s, as, wh),
           NEW e, NEW f, NEW de, NoReturn(h, q, e, wh, de),
           \A c \in Ctx : Holds(f, Msg("remove", c)) => Holds(e, Msg("remove", c)) \/ c \in h[1] \ g[1]
    PROVE  NoReturn(g, q2, f, wh, de)
<1>1. /\ Len(q) \in Nat \ {0} /\ Len(h) = Len(q) + 1 /\ h[Len(q) + 1] = s
      /\ DOMAIN q = 1 .. Len(q) /\ DOMAIN h = 1 .. Len(q) + 1
      /\ \A i \in 1 .. Len(q) + 1 : Closed(h[i]) /\ h[i] \in SUBSET Ctx
      /\ \A i \in 1 .. Len(q) : Tells(q[i], h[i], h[i + 1], as, wh)
      /\ \A i, j \in 1 .. Len(q) : q[i].kind = "children" /\ q[j].kind = "children" => i = j
  <2>1. Len(q) \in Nat /\ Len(q) # 0 /\ DOMAIN q = 1 .. Len(q)
    BY LenProperties, EmptySeq
  <2>2. Len(h) = Len(q) + 1 /\ h[Len(q) + 1] = s
    BY DEF History
  <2>3. DOMAIN h = 1 .. Len(q) + 1 /\ \A i \in 1 .. Len(q) + 1 : h[i] \in SUBSET Ctx
    BY <2>1, <2>2, LenProperties, ElementOfSeq
  <2>4. \A i \in 1 .. Len(q) + 1 : Closed(h[i])
    BY <2>3 DEF History
  <2>. QED BY <2>1, <2>2, <2>3, <2>4 DEF History
<1>. DEFINE L == Len(q) - 1
<1>2. h # <<>> /\ Head(q) = q[1] /\ Head(q) \in Message
  <2>1. h # <<>>
    BY <1>1, EmptySeq
  <2>. QED BY <2>1, HeadTailProperties
<1>3. /\ g \in Seq(SUBSET Ctx) /\ Len(g) = L + 1 /\ DOMAIN g = 1 .. L + 1
      /\ \A i \in 1 .. L + 1 : g[i] = h[i + 1]
  <2>1. g \in Seq(SUBSET Ctx) /\ Len(g) = Len(h) - 1 /\ \A i \in 1 .. Len(g) : g[i] = h[i + 1]
    BY <1>2, HeadTailProperties
  <2>. QED BY <1>1, <2>1, LenProperties
<1>4. /\ q2 \in Seq(Message) /\ Len(q2) = L /\ DOMAIN q2 = 1 .. L
      /\ \A i \in 1 .. L : q2[i] = q[i + 1]
  <2>1. q2 \in Seq(Message) /\ Len(q2) = Len(q) - 1 /\ \A i \in 1 .. Len(q2) : q2[i] = q[i + 1]
    BY HeadTailProperties
  <2>. QED BY <1>1, <2>1, LenProperties
<1>5. L \in Nat /\ Len(q) = L + 1
  BY <1>1
<1>. HIDE DEF L
<1>6. /\ \A i \in 1 .. L + 1 : i \in 1 .. L + 2 /\ i + 1 \in 1 .. L + 2
      /\ \A i \in 1 .. L : i \in 1 .. L + 1 /\ i + 1 \in 1 .. L + 1 /\ i + 1 \in 2 .. L + 1
      /\ 1 \in 1 .. L + 1 /\ 1 \in 1 .. L + 2 /\ 2 \in 1 .. L + 2 /\ L + 1 + 1 = L + 2
  BY <1>5
<1>7. /\ h[L + 2] = s /\ DOMAIN q = 1 .. L + 1 /\ DOMAIN h = 1 .. L + 2
      /\ \A i \in 1 .. L + 2 : Closed(h[i]) /\ h[i] \in SUBSET Ctx
      /\ \A i \in 1 .. L + 1 : Tells(q[i], h[i], h[i + 1], as, wh)
      /\ \A i, j \in 1 .. L + 1 : q[i].kind = "children" /\ q[j].kind = "children" => i = j
  BY <1>1, <1>5, <1>6
<1>8. NoReturn(g, q2, f, wh, de)
  <2>0. DOMAIN g = 1 .. L + 1 /\ DOMAIN q2 = 1 .. L
    BY <1>3, <1>4
  <2>. SUFFICES ASSUME wh
                PROVE  /\ \A i, j \in DOMAIN g : i < j => (g[i] \ g[i + 1]) \cap g[j] = {}
                       /\ \A i \in DOMAIN q2 : g[i] \ g[i + 1] \subseteq de
                       /\ \A c \in Ctx : Holds(f, Msg("remove", c)) => c \in de /\ \A i \in DOMAIN g : c \notin g[i]
    BY DEF NoReturn
  <2>. SUFFICES /\ \A i, j \in 1 .. L + 1 : i < j => (g[i] \ g[i + 1]) \cap g[j] = {}
                /\ \A i \in 1 .. L : g[i] \ g[i + 1] \subseteq de
                /\ \A c \in Ctx : Holds(f, Msg("remove", c)) => c \in de /\ \A i \in 1 .. L + 1 : c \notin g[i]
    BY <2>0
  <2>1. /\ \A i, j \in 1 .. L + 2 : i < j => (h[i] \ h[i + 1]) \cap h[j] = {}
        /\ \A i \in 1 .. L + 1 : h[i] \ h[i + 1] \subseteq de
        /\ \A c \in Ctx : Holds(e, Msg("remove", c)) => c \in de /\ \A i \in 1 .. L + 2 : c \notin h[i]
    BY <1>7 DEF NoReturn
  <2>2. ASSUME NEW i \in 1 .. L + 1, NEW j \in 1 .. L + 1, i < j PROVE (g[i] \ g[i + 1]) \cap g[j] = {}
    <3>1. i \in 1 .. L /\ i + 1 < j + 1
      BY <1>5, <2>2
    <3>2. g[i] = h[i + 1] /\ g[i + 1] = h[i + 1 + 1] /\ g[j] = h[j + 1]
      BY <1>3, <1>6, <3>1
    <3>. QED BY <1>6, <2>1, <3>1, <3>2
  <2>3. ASSUME NEW i \in 1 .. L PROVE g[i] \ g[i + 1] \subseteq de
    <3>1. g[i] = h[i + 1] /\ g[i + 1] = h[i + 1 + 1]
      BY <1>3, <1>6
    <3>. QED BY <1>6, <2>1, <3>1
  <2>4. ASSUME NEW c \in h[1] \ g[1] PROVE c \in de /\ \A i \in 1 .. L + 1 : c \notin g[i]
    <3>1. g[1] = h[1 + 1]
      BY <1>3, <1>6
    <3>2. c \in de
      BY <1>6, <2>1, <3>1
    <3>3. ASSUME NEW i \in 1 .. L + 1 PROVE c \notin g[i]
      <4>1. g[i] = h[i + 1] /\ 1 < i + 1
        BY <1>3, <1>5
      <4>. QED BY <1>6, <2>1, <3>1, <4>1
    <3>. QED BY <3>2, <3>3
  <2>5. ASSUME NEW c \in Ctx, Holds(f, Msg("remove", c)) PROVE c \in de /\ \A i \in 1 .. L + 1 : c \notin g[i]
    <3>1. Holds(e, Msg("remove", c)) \/ c \in h[1] \ g[1]
      BY <2>5
    <3>2. CASE Holds(e, Msg("remove", c))
      BY <1>3, <1>6, <2>1, <3>2
    <3>. QED BY <2>4, <3>1, <3>2
  <2>. QED BY <2>2, <2>3, <2>5
<1>. QED BY <1>8


-----------------------------------------------------------------------------
(* The steps of the server.                                                *)
LEMMA ContextsOf ==
    /\ \A q \in Seq(Message) : \A i \in DOMAIN q : q[i].ctx \in Node
    /\ \A e \in Seq(Event) : \A i \in DOMAIN e : e[i].ctx \in Node
<1>1. ASSUME NEW q \in Seq(Message), NEW i \in DOMAIN q PROVE q[i].ctx \in Node
  <2>1. q[i] \in Message
    BY LenProperties, ElementOfSeq
  <2>. QED BY <2>1 DEF Message, Telling, Changing, Answer, Node
<1>2. ASSUME NEW e \in Seq(Event), NEW i \in DOMAIN e PROVE e[i].ctx \in Node
  <2>1. e[i] \in Event
    BY LenProperties, ElementOfSeq
  <2>. QED BY <2>1 DEF Event, GivenList, Node
<1>. QED BY <1>1, <1>2

(* A message of the server keeps the invariant if it tells what happened.  *)
LEMMA Sent ==
    ASSUME IInv, NEW m \in Message, queue' = Append(queue, m),
           srv' \in SUBSET Ctx, Closed(srv'), changes' \in 0 .. MaxChanges, dead' \in SUBSET Ctx,
           dead \subseteq dead', whole => srv \ srv' \subseteq dead' /\ (srv' \ srv) \cap dead = {},
           Tells(m, srv, srv', asked, whole),
           m.kind = "children" => \A i \in DOMAIN queue : queue[i].kind # "children",
           UNCHANGED <<whole, asked, nodes, kids, gone, added, removed, events, view>>
    PROVE  IInv'
<1>. USE DEF view
<1>1. PICK h \in Seq(SUBSET Ctx) : UnderWay(h)
  BY DEF IInv
<1>2. queue \in Seq(Message) /\ srv \in SUBSET Ctx /\ whole \in BOOLEAN
  BY DEF IInv, TypeOK, Shapes
<1>3. PICK g, q, q2, s, r, as, wh, e, de, df :
        /\ g = Append(h, r) /\ q = queue /\ q2 = queue' /\ s = srv /\ r = srv'
        /\ as = asked /\ wh = whole /\ e = events /\ de = dead /\ df = dead'
  OBVIOUS
<1>4. /\ g \in Seq(SUBSET Ctx) /\ queue' \in Seq(Message) /\ History(g, queue', srv', asked, whole) /\ g[1] = h[1]
      /\ NoReturn(g, queue', events, whole, dead')
  <2>1. /\ q \in Seq(Message) /\ s \in SUBSET Ctx /\ wh \in BOOLEAN
        /\ History(h, q, s, as, wh) /\ NoReturn(h, q, e, wh, de)
    BY <1>1, <1>2, <1>3 DEF UnderWay
  <2>2. /\ r \in SUBSET Ctx /\ Closed(r) /\ Tells(m, s, r, as, wh) /\ q2 = Append(q, m) /\ g = Append(h, r)
        /\ OneAnswer(m, q)
    BY <1>3 DEF OneAnswer
  <2>3. \A c \in dead : c \in dead'
    OBVIOUS
  <2>4. de \subseteq df
    BY <1>3, <2>3
  <2>5. Counted(s, r, de, df, wh)
    BY <1>3, <2>4 DEF Counted
  <2>6. g \in Seq(SUBSET Ctx) /\ q2 \in Seq(Message) /\ History(g, q2, r, as, wh)
    BY <2>1, <2>2, HistoryAppend
  <2>7. NoReturn(g, q2, e, wh, df)
    BY <2>1, <2>2, <2>5, NoReturnAppend
  <2>8. g[1] = h[1]
    <3>1. Len(h) \in Nat \ {0}
      BY <2>1, LenProperties DEF History
    <3>. QED BY <2>2, <3>1, AppendProperties
  <2>. QED BY <1>3, <2>6, <2>7, <2>8
<1>5. UnderWay(g)'
  BY <1>1, <1>4 DEF UnderWay
<1>6. Shapes'
  BY <1>4 DEF IInv, Shapes
<1>7. Stages' /\ Opened'
  BY DEF IInv, Stages, Opened
<1>8. OwnLists(nodes, kids, alias, asked, gone)'
  BY DEF IInv
<1>9. TypeOK'
  <2>1. added # <<>> => \E i \in DOMAIN queue' : queue'[i].kind = "tellAdded"
    <3>. SUFFICES ASSUME added # <<>> PROVE \E i \in DOMAIN queue' : queue'[i].kind = "tellAdded"
      OBVIOUS
    <3>1. PICK i \in DOMAIN queue : queue[i].kind = "tellAdded"
      BY DEF IInv, TypeOK
    <3>2. i \in DOMAIN queue' /\ queue'[i] = queue[i]
      BY <1>2, AppendProperties, LenProperties
    <3>. QED BY <3>1, <3>2
  <2>2. \A i \in DOMAIN queue' : queue'[i].ctx \in Node
    BY <1>4, ContextsOf
  <2>. QED BY <2>1, <2>2 DEF IInv, TypeOK
<1>. QED BY <1>4, <1>5, <1>6, <1>7, <1>8, <1>9 DEF IInv

(* The server has the parents of what it has.                              *)
LEMMA ServerClosed ==
    ASSUME IInv
    PROVE  Closed(srv)
<1>1. PICK h \in Seq(SUBSET Ctx) : UnderWay(h)
  BY DEF IInv
<1>2. Len(h) = Len(queue) + 1 /\ h[Len(h)] = srv /\ \A i \in DOMAIN h : Closed(h[i])
  BY <1>1 DEF UnderWay, History
<1>3. Len(h) \in DOMAIN h
  BY <1>2, LenProperties DEF IInv, Shapes
<1>. QED BY <1>2, <1>3

(* The server adds a context.                                              *)
LEMMA ServerAddsStep ==
    ASSUME IInv, NEW c \in Ctx, ServerAdds(c)
    PROVE  IInv'
<1>. DEFINE m == Msg("added", c)
<1>1. m \in Message /\ m.kind = "added" /\ m.ctx = c
  BY DEF Msg, Message, Changing
<1>2. srv' = srv \cup {c} /\ queue' = Append(queue, m) /\ c \notin srv
  BY DEF ServerAdds, Tell
<1>3. changes' \in 0 .. MaxChanges
  BY TreeAssumption DEF ServerAdds, Tell, IInv, TypeOK
<1>4. srv \in SUBSET Ctx /\ Closed(srv')
  <2>1. srv \in SUBSET Ctx /\ Parent[c] \in srv \cup {Root}
    BY DEF IInv, TypeOK, ServerAdds
  <2>. QED BY <1>2, <2>1, ServerClosed, ClosedGrows
<1>5. Tells(m, srv, srv', asked, whole)
  BY <1>1, <1>2 DEF Tells
<1>6. /\ UNCHANGED <<whole, asked, nodes, kids, gone, added, removed, events, view>> /\ dead' = dead
      /\ dead \in SUBSET Ctx /\ (whole => c \notin dead)
  BY DEF ServerAdds, IInv, TypeOK
<1>7. whole => srv \ srv' \subseteq dead' /\ (srv' \ srv) \cap dead = {}
  BY <1>2, <1>6
<1>. HIDE DEF m
<1>. QED BY <1>1, <1>2, <1>3, <1>4, <1>5, <1>6, <1>7, Sent

(* What ServerRemoves takes away is all below the context.                 *)
LEMMA ServerReach ==
    ASSUME NEW S \in SUBSET Ctx, Closed(S), NEW c \in S
    PROVE  Reach(S, Tree(S), {c}) = Under(c) \cap S
<1>1. \A p \in Node : Tree(S)[p] = KidsOf(S, p)
  BY DEF Tree
<1>2. Tree(S) \in [Node -> SUBSET Ctx]
  BY DEF Tree, KidsOf
<1>3. \A p \in Node : Tree(S)[p] \subseteq KidsOf(Ctx, p)
  BY <1>1 DEF KidsOf
<1>4. \A p \in S : KidsOf(S, p) \subseteq Tree(S)[p]
  BY <1>1, OtherParent
<1>. QED BY <1>2, <1>3, <1>4, ReachAll

(* The server removes a context.                                           *)
LEMMA ServerRemovesStep ==
    ASSUME IInv, NEW c \in Ctx, ServerRemoves(c)
    PROVE  IInv'
<1>. DEFINE m == Msg("removed", c)
            D == Reach(srv, Tree(srv), {c})
<1>1. m \in Message /\ m.kind = "removed" /\ m.ctx = c
  BY DEF Msg, Message, Changing
<1>2. srv \in SUBSET Ctx /\ Closed(srv) /\ c \in srv
  BY ServerClosed DEF IInv, TypeOK, ServerRemoves
<1>3. D = Under(c) \cap srv
  BY <1>2, ServerReach
<1>4. /\ srv' = srv \ D /\ queue' = Append(queue, m)
      /\ whole => asked = <<>> /\ dead' = dead \cup D
      /\ ~whole => KidsOf(srv, c) = {} /\ dead' = dead
      /\ UNCHANGED <<whole, asked, nodes, kids, gone, added, removed, events, view>>
  BY DEF ServerRemoves, Tell
<1>5. changes' \in 0 .. MaxChanges
  BY TreeAssumption DEF ServerRemoves, Tell, IInv, TypeOK
<1>6. dead \in SUBSET Ctx /\ whole \in BOOLEAN
  BY DEF IInv, TypeOK
<1>. HIDE DEF D, m
<1>7. srv' = srv \ Under(c) /\ Closed(srv') /\ srv' \in SUBSET Ctx
  BY <1>2, <1>3, <1>4, ClosedShrinks
<1>8. Tells(m, srv, srv', asked, whole)
  BY <1>1, <1>2, <1>4, <1>7 DEF Tells
<1>9. dead' \in SUBSET Ctx /\ dead \subseteq dead'
  <2>1. CASE whole
    BY <1>2, <1>3, <1>4, <1>6, <2>1
  <2>2. CASE ~whole
    BY <1>4, <1>6, <2>2
  <2>. QED BY <2>1, <2>2
<1>10. whole => srv \ srv' \subseteq dead' /\ (srv' \ srv) \cap dead = {}
  BY <1>4
<1>. QED BY <1>1, <1>4, <1>5, <1>7, <1>8, <1>9, <1>10, Sent

(* The server changes a context.                                           *)
LEMMA ServerChangesStep ==
    ASSUME IInv, NEW c \in Ctx, ServerChanges(c)
    PROVE  IInv'
<1>. DEFINE m == Msg("changed", c)
<1>1. m \in Message /\ m.kind = "changed" /\ m.ctx = c
  BY DEF Msg, Message, Changing
<1>2. /\ srv' = srv /\ dead' = dead /\ queue' = Append(queue, m) /\ c \in srv
      /\ UNCHANGED <<whole, asked, nodes, kids, gone, added, removed, events, view>>
  BY DEF ServerChanges, Tell
<1>3. changes' \in 0 .. MaxChanges
  BY TreeAssumption DEF ServerChanges, Tell, IInv, TypeOK
<1>4. srv \in SUBSET Ctx /\ Closed(srv) /\ dead \in SUBSET Ctx
  BY ServerClosed DEF IInv, TypeOK
<1>. HIDE DEF m
<1>5. Tells(m, srv, srv', asked, whole)
  BY <1>1, <1>2 DEF Tells
<1>. QED BY <1>1, <1>2, <1>3, <1>4, <1>5, Sent

(* The server answers.                                                     *)
LEMMA ServerAnswersStep ==
    ASSUME IInv, ServerAnswers
    PROVE  IInv'
<1>. DEFINE p == Head(asked)
            known == p \in srv \cup {Root}
            list == IF known THEN KidsOf(srv, p) ELSE {}
            m == [kind |-> "children", ctx |-> p, ok |-> known, list |-> list]
<1>1. srv \in SUBSET Ctx /\ Closed(srv) /\ dead \in SUBSET Ctx /\ changes \in 0 .. MaxChanges /\ asked \in Seq(Node)
  BY ServerClosed DEF IInv, TypeOK
<1>2. /\ srv' = srv /\ dead' = dead /\ changes' = changes /\ asked # <<>>
      /\ queue' = Append(queue, m) /\ \A i \in DOMAIN queue : queue[i].kind # "children"
      /\ UNCHANGED <<whole, asked, nodes, kids, gone, added, removed, events, view>>
  BY DEF ServerAnswers, server
<1>3. p \in Node
  BY <1>1, <1>2, HeadTailProperties
<1>4. list \in SUBSET Ctx /\ known \in BOOLEAN
  BY <1>1 DEF KidsOf
<1>5. m \in Message
  <2>. HIDE DEF known, list
  <2>. QED BY <1>3, <1>4 DEF Message, Answer
<1>6. m.kind = "children" /\ m.ctx = p /\ (m.ok <=> known) /\ m.list = list
  OBVIOUS
<1>. HIDE DEF m
<1>7. Tells(m, srv, srv', asked, whole)
  BY <1>2, <1>6 DEF Tells
<1>. QED BY <1>1, <1>2, <1>5, <1>7, Sent

-----------------------------------------------------------------------------
(* The steps of the dispatch thread.  What the invariant says when a       *)
(* message leaves the queue.                                               *)
LEMMA Popped ==
    ASSUME IInv, NEW h \in Seq(SUBSET Ctx), UnderWay(h), queue # <<>>,
           NEW g, g = Tail(h), NEW q2, q2 = Tail(queue), NEW at, at = asked \/ Head(queue).kind = "children"
    PROVE  /\ g \in Seq(SUBSET Ctx) /\ q2 \in Seq(Message) /\ History(g, q2, srv, at, whole)
           /\ Head(queue) \in Message /\ g[1] \in SUBSET Ctx /\ h[1] \in SUBSET Ctx /\ Closed(h[1]) /\ Closed(g[1])
           /\ Tells(Head(queue), h[1], g[1], asked, whole)
           /\ \A i \in DOMAIN queue : queue[i] = Head(queue) \/ Holds(q2, queue[i])
<1>1. PICK q, s, as, wh : q = queue /\ s = srv /\ as = asked /\ wh = whole
  OBVIOUS
<1>2. /\ q \in Seq(Message) /\ s \in SUBSET Ctx /\ q # <<>> /\ q2 = Tail(q)
      /\ History(h, q, s, as, wh) /\ (at = as \/ Head(q).kind = "children")
  BY <1>1 DEF UnderWay, IInv, TypeOK, Shapes
<1>3. /\ g \in Seq(SUBSET Ctx) /\ q2 \in Seq(Message) /\ History(g, q2, s, at, wh)
      /\ Head(q) \in Message /\ g[1] \in SUBSET Ctx /\ h[1] \in SUBSET Ctx /\ Closed(h[1]) /\ Closed(g[1])
      /\ Tells(Head(q), h[1], g[1], as, wh)
  <2>1. g \in Seq(SUBSET Ctx) /\ q2 \in Seq(Message) /\ History(g, q2, s, at, wh)
    BY <1>2, HistoryTail
  <2>2. /\ Head(q) \in Message /\ Tells(Head(q), h[1], Tail(h)[1], as, wh)
        /\ h[1] \in SUBSET Ctx /\ Tail(h)[1] \in SUBSET Ctx /\ Closed(h[1]) /\ Closed(Tail(h)[1])
    BY <1>2, HistoryHead
  <2>. QED BY <2>1, <2>2
<1>4. \A i \in DOMAIN q : q[i] = Head(q) \/ Holds(q2, q[i])
  <2>1. Advances(q, q2) /\ q[1] = Head(q)
    BY <1>2, TailPlaces
  <2>. QED BY <2>1 DEF Advances, Holds
<1>. QED BY <1>1, <1>3, <1>4

(* No context comes back when the head is taken.                           *)
LEMMA PoppedReturn ==
    ASSUME IInv, NEW h \in Seq(SUBSET Ctx), UnderWay(h), queue # <<>>,
           NEW g, g = Tail(h), NEW q2, q2 = Tail(queue), NEW f,
           \A c \in Ctx : Holds(f, Msg("remove", c)) => Holds(events, Msg("remove", c)) \/ c \in h[1] \ g[1]
    PROVE  NoReturn(g, q2, f, whole, dead)
<1>1. PICK q, s, as, wh, e, de : q = queue /\ s = srv /\ as = asked /\ wh = whole /\ e = events /\ de = dead
  OBVIOUS
<1>2. /\ q \in Seq(Message) /\ s \in SUBSET Ctx /\ q # <<>> /\ q2 = Tail(q)
      /\ History(h, q, s, as, wh) /\ NoReturn(h, q, e, wh, de)
      /\ \A c \in Ctx : Holds(f, Msg("remove", c)) => Holds(e, Msg("remove", c)) \/ c \in h[1] \ g[1]
  BY <1>1 DEF UnderWay, IInv, TypeOK, Shapes
<1>3. NoReturn(g, q2, f, wh, de)
  BY <1>2, NoReturnTail
<1>. QED BY <1>1, <1>3

(* Once no answer is awaited the manager has what the server had.          *)
LEMMA Loaded ==
    ASSUME IInv, NEW h \in Seq(SUBSET Ctx), UnderWay(h), asked = <<>>
    PROVE  /\ nodes = h[1] /\ nodes \in SUBSET Ctx /\ Closed(nodes)
           /\ \A p \in (nodes \cup {Root}) \ alias : kids[p] = KidsOf(nodes, p)
<1>1. ToSet(asked) = {}
  BY DEF ToSet
<1>2. nodes = h[1]
  BY <1>1 DEF UnderWay, Loads
<1>3. Closed(h[1])
  <2>1. Len(h) = Len(queue) + 1 /\ \A i \in DOMAIN h : Closed(h[i])
    BY DEF UnderWay, History
  <2>2. 1 \in DOMAIN h
    BY <2>1, LenProperties DEF IInv, Shapes
  <2>. QED BY <2>1, <2>2
<1>4. \A p \in (nodes \cup {Root}) \ alias : kids[p] = KidsOf(nodes, p)
  BY <1>1 DEF IInv, OwnLists, Awaited
<1>. QED BY <1>2, <1>3, <1>4 DEF IInv, TypeOK

(* What is added to the events is in the end of them.                      *)
LEMMA EventsGrow ==
    ASSUME IInv, NEW t \in Seq(Event), NEW g, g = events \o t,
           stage = "none" => t = <<>>, \A j \in DOMAIN t : t[j].kind \in {"add", "remove"}
    PROVE  /\ g \in Seq(Event) /\ \A i \in DOMAIN g : g[i].ctx \in Node
           /\ stage = "none" => g = <<>>
           /\ stage # "open" => \A i \in DOMAIN g : g[i].kind \in {"add", "remove"}
           /\ Holds(events, Msg("set", Root)) => Holds(g, Msg("set", Root))
<1>1. events \in Seq(Event)
  BY DEF IInv, Shapes
<1>2. g \in Seq(Event) /\ Joins(events, t, g)
  BY <1>1, ConcatPlaces
<1>3. stage = "none" => g = <<>>
  BY ConcatEmptySeq DEF IInv, Stages
<1>4. stage # "open" => \A i \in DOMAIN g : g[i].kind \in {"add", "remove"}
  <2>1. \A i \in DOMAIN g : i \in DOMAIN events \/ Holds(t, g[i])
    BY <1>2 DEF Joins
  <2>2. \A i \in DOMAIN events : g[i] = events[i]
    BY <1>2 DEF Joins
  <2>. QED BY <2>1, <2>2 DEF Holds, IInv, Stages
<1>5. Holds(events, Msg("set", Root)) => Holds(g, Msg("set", Root))
  BY <1>2 DEF Joins
<1>. QED BY <1>2, <1>3, <1>4, <1>5, ContextsOf

(* A change of a known node changes nothing.                               *)
LEMMA OnKnownStep ==
    ASSUME IInv, OnKnown
    PROVE  IInv'
<1>. USE DEF view, server
<1>1. PICK h \in Seq(SUBSET Ctx) : UnderWay(h)
  BY DEF IInv
<1>2. PICK g, q2, at : g = Tail(h) /\ q2 = Tail(queue) /\ at = asked
  OBVIOUS
<1>3. /\ queue # <<>> /\ Head(queue).kind = "changed" /\ queue' = Tail(queue)
      /\ UNCHANGED <<server, asked, nodes, kids, gone, added, removed, events, view>>
  BY DEF OnKnown, First
<1>4. /\ g \in Seq(SUBSET Ctx) /\ q2 \in Seq(Message) /\ History(g, q2, srv, at, whole)
      /\ Tells(Head(queue), h[1], g[1], asked, whole)
      /\ \A i \in DOMAIN queue : queue[i] = Head(queue) \/ Holds(q2, queue[i])
  BY <1>1, <1>2, <1>3, Popped
<1>5. g[1] = h[1]
  BY <1>3, <1>4 DEF Tells
<1>6. NoReturn(g, q2, events, whole, dead)
  BY <1>1, <1>2, <1>3, PoppedReturn
<1>7. UnderWay(g)'
  BY <1>1, <1>2, <1>3, <1>4, <1>5, <1>6 DEF UnderWay
<1>8. Shapes' /\ Stages' /\ Opened' /\ OwnLists(nodes, kids, alias, asked, gone)'
  BY <1>2, <1>3, <1>4 DEF IInv, Shapes, Stages, Opened
<1>9. TypeOK'
  <2>1. \A i \in DOMAIN queue' : queue'[i].ctx \in Node
    BY <1>2, <1>3, <1>4, ContextsOf
  <2>2. added # <<>> => \E i \in DOMAIN queue' : queue'[i].kind = "tellAdded"
    BY <1>2, <1>3, <1>4 DEF IInv, TypeOK, Holds
  <2>. QED BY <1>3, <2>1, <2>2 DEF IInv, TypeOK
<1>. QED BY <1>4, <1>7, <1>8, <1>9 DEF IInv

(* add_node.                                                               *)
Grows(n, k, S, l) ==
    /\ l \in Lists
    /\ \A p \in Node : p \in S \ n => l[p] = KidsOf(S, p)
    /\ \A p \in n \cup {Root} : l[p] = k[p] \cup KidsOf(S \ n, p)

(* What Grown does to the lists.                                           *)
LEMMA GrownProperties ==
    ASSUME NEW n \in SUBSET Ctx, NEW k \in Lists, NEW S \in SUBSET Ctx, NEW l, l = Grown(n, k, S)
    PROVE  Grows(n, k, S, l)
<1>2. \A p \in n \cup {Root} : p \in Node /\ p \notin S \ n
  BY TreeAssumption DEF Node
<1>3. l = [p \in Node |-> IF p \in S \ n THEN KidsOf(S, p)
                          ELSE IF p \in n \cup {Root} THEN k[p] \cup KidsOf(S \ n, p) ELSE k[p]]
  BY DEF Grown
<1>4. \A p \in Node : l[p] = IF p \in S \ n THEN KidsOf(S, p)
                             ELSE IF p \in n \cup {Root} THEN k[p] \cup KidsOf(S \ n, p) ELSE k[p]
  BY <1>3
<1>6. ASSUME NEW p \in Node PROVE l[p] \in SUBSET Ctx /\ l[p] \subseteq KidsOf(Ctx, p)
  <2>1. KidsOf(S, p) \subseteq KidsOf(Ctx, p) /\ KidsOf(S \ n, p) \subseteq KidsOf(Ctx, p) /\ KidsOf(Ctx, p) \subseteq Ctx
    BY DEF KidsOf
  <2>2. k[p] \subseteq KidsOf(Ctx, p)
    BY DEF Lists
  <2>3. l[p] \subseteq KidsOf(Ctx, p)
    BY <1>4, <2>1, <2>2
  <2>. QED BY <2>1, <2>3
<1>7. l \in [Node -> SUBSET Ctx]
  BY <1>3, <1>6
<1>8. l \in Lists
  BY <1>6, <1>7 DEF Lists
<1>. QED BY <1>2, <1>4, <1>8 DEF Grows

(* A new node: its parent's list has it, and its own list is complete, or  *)
(* will be replaced.                                                       *)
LEMMA OwnListsGrow ==
    ASSUME NEW n \in SUBSET Ctx, NEW k \in [Node -> SUBSET Ctx], NEW c \in Ctx, c \notin n, NEW l,
           l[c] = {}, \A p \in n \cup {Root} : l[p] = k[p] \cup KidsOf({c}, p),
           NEW al, NEW as, NEW go, OwnLists(n, k, al, as, go),
           KidsOf(n, c) = {} \/ Awaited(c, as, go)
    PROVE  OwnLists(n \cup {c}, l, al, as, go)
<1>. SUFFICES ASSUME NEW p \in ((n \cup {c}) \cup {Root}) \ al
              PROVE  l[p] \subseteq n \cup {c} /\ (l[p] = KidsOf(n \cup {c}, p) \/ Awaited(p, as, go))
  BY DEF OwnLists
<1>1. CASE p = c
  <2>1. l[p] = {} /\ KidsOf(n \cup {c}, p) = KidsOf(n, c)
    BY <1>1, OtherParent DEF KidsOf
  <2>. QED BY <1>1, <2>1
<1>2. CASE p # c
  <2>1. p \in (n \cup {Root}) \ al /\ l[p] = k[p] \cup KidsOf({c}, p)
    BY <1>2
  <2>2. k[p] \subseteq n /\ (k[p] = KidsOf(n, p) \/ Awaited(p, as, go))
    BY <2>1 DEF OwnLists
  <2>3. KidsOf(n \cup {c}, p) = KidsOf(n, p) \cup KidsOf({c}, p) /\ KidsOf({c}, p) \subseteq {c}
    BY DEF KidsOf
  <2>. QED BY <2>1, <2>2, <2>3
<1>. QED BY <1>1, <1>2

(* A job may join the queue in the same step.                              *)
JoinsHistory(g, q, P, q2, s, as, wh, e, de) ==
    \E g2 \in Seq(SUBSET Ctx) :
      /\ q2 \in Seq(Message) /\ History(g2, q2, s, as, wh) /\ g2[1] = g[1] /\ NoReturn(g2, q2, e, wh, de)
      /\ \A x : Holds(q2, x) <=> Holds(q, x) \/ Holds(P, x)

(* A posted job does not change what the server has.                       *)
LEMMA PostedJoins ==
    ASSUME NEW g \in Seq(SUBSET Ctx), NEW q \in Seq(Message), NEW s \in SUBSET Ctx, NEW as, NEW wh, Closed(s),
           History(g, q, s, as, wh), NEW e, NEW de, NoReturn(g, q, e, wh, de),
           NEW kd \in {"tellAdded", "tellRemoved"}, NEW P \in {<<>>, <<Msg(kd, Root)>>}, NEW q2, q2 = q \o P
    PROVE  JoinsHistory(g, q, P, q2, s, as, wh, e, de)
<1>. SUFFICES \E g2 \in Seq(SUBSET Ctx) :
                /\ q2 \in Seq(Message) /\ History(g2, q2, s, as, wh) /\ g2[1] = g[1] /\ NoReturn(g2, q2, e, wh, de)
                /\ \A x : Holds(q2, x) <=> Holds(q, x) \/ Holds(P, x)
  BY DEF JoinsHistory
<1>. DEFINE m == Msg(kd, Root)
<1>1. m \in Message /\ m.kind = kd
  BY DEF Msg, Message, Telling
<1>2. q \o <<>> = q
  BY ConcatEmptySeq
<1>3. P \in Seq(Message)
  <2>. HIDE DEF m
  <2>1. <<m>> \in Seq(Message) /\ <<>> \in Seq(Message)
    BY <1>1
  <2>2. P \in {<<>>, <<m>>}
    BY DEF m
  <2>. QED BY <2>1, <2>2
<1>4. q2 \in Seq(Message) /\ \A x : Holds(q2, x) <=> Holds(q, x) \/ Holds(P, x)
  <2>1. q2 \in Seq(Message) /\ Joins(q, P, q2)
    BY <1>2, <1>3, ConcatPlaces
  <2>. QED BY <2>1 DEF Joins
<1>5. CASE P = <<>>
  <2>1. q2 = q
    BY <1>2, <1>5
  <2>. QED BY <1>4, <2>1
<1>6. CASE P = <<m>>
  <2>. HIDE DEF m
  <2>1. PICK g2, x : g2 = Append(g, s) /\ x = m
    OBVIOUS
  <2>2. q2 = Append(q, x) /\ x \in Message
    BY <1>1, <1>2, <1>6, <2>1, AppendIsConcat
  <2>3. Tells(x, s, s, as, wh)
    BY <1>1, <2>1 DEF Tells
  <2>4. OneAnswer(x, q) /\ Counted(s, s, de, de, wh)
    BY <1>1, <2>1 DEF OneAnswer, Counted
  <2>5. g2 \in Seq(SUBSET Ctx) /\ q2 \in Seq(Message) /\ History(g2, q2, s, as, wh)
    BY <2>1, <2>2, <2>3, <2>4, HistoryAppend
  <2>6. NoReturn(g2, q2, e, wh, de)
    BY <2>1, <2>2, <2>4, NoReturnAppend
  <2>7. g2[1] = g[1]
    <3>1. Len(g) \in Nat \ {0}
      BY LenProperties DEF History
    <3>. QED BY <2>1, <3>1, AppendProperties
  <2>. QED BY <1>4, <2>5, <2>6, <2>7
<1>. QED BY <1>5, <1>6

(* The manager adds a node and tells of it.                                *)
LEMMA OnAddedStep ==
    ASSUME IInv, OnAdded
    PROVE  IInv'
<1>. USE DEF view, server
<1>1. PICK h \in Seq(SUBSET Ctx) : UnderWay(h)
  BY DEF IInv
<1>. DEFINE c == Head(queue).ctx
<1>2. PICK g, q2, at, s, r : g = Tail(h) /\ q2 = Tail(queue) /\ at = asked /\ s = h[1] /\ r = g[1]
  OBVIOUS
<1>3. /\ queue # <<>>
      /\ Head(queue).kind = "added" \/ (Head(queue).kind = "changed" /\ c \notin nodes)
      /\ UNCHANGED <<server, asked, gone, removed, view>> /\ added' = <<>>
  BY <1>2 DEF OnAdded, First
<1>4. /\ g \in Seq(SUBSET Ctx) /\ q2 \in Seq(Message) /\ History(g, q2, srv, at, whole)
      /\ Head(queue) \in Message /\ r \in SUBSET Ctx /\ s \in SUBSET Ctx /\ Closed(s) /\ Closed(r)
      /\ Tells(Head(queue), s, r, asked, whole)
  BY <1>1, <1>2, <1>3, Popped
<1>5. Loads(s, nodes, asked, gone) /\ EventsInOrder(events, nodes, s, vnodes, alias)
  BY <1>1, <1>2 DEF UnderWay
<1>6. c \in Ctx
  BY <1>3, <1>4 DEF Message, Telling, Changing, Answer
<1>7. /\ nodes \in SUBSET Ctx /\ kids \in [Node -> SUBSET Ctx] /\ \A p \in Node : kids[p] \subseteq KidsOf(Ctx, p)
      /\ added \in Seq(Ctx) /\ events \in Seq(Event) /\ vnodes \in SUBSET Ctx /\ alias \in SUBSET Node
      /\ whole \in BOOLEAN
  BY DEF IInv, TypeOK, Shapes
<1>8. /\ nodes \subseteq s /\ c \notin nodes /\ s \subseteq r /\ c \in r /\ r \subseteq s \cup {c}
      /\ Head(queue).kind = "added" => c \notin s
      /\ Head(queue).kind = "changed" => c \in s
  BY <1>3, <1>4, <1>5 DEF Tells, Loads
<1>9. Parent[c] \in s \cup {Root}
  BY <1>4, <1>6, <1>8, OtherParent DEF Closed
<1>. DEFINE q == Noted(added, {c})
            t == Told(q, nodes \cup {c})
            L == Grown(nodes, kids, {c})
            f == events \o t
<1>10. {c} \ nodes = {c}
  BY <1>8
<1>11. nodes' = nodes \cup {c} /\ kids' = L /\ events' = f /\ queue' = q2 \o Posted(added, {c}, "tellAdded")
  BY <1>2, <1>10 DEF OnAdded
<1>12. /\ q \in Seq(Ctx) /\ (stage # "none" => c \in ToSet(q)) /\ (stage = "none" => q = added)
  <2>1. {c} \in SUBSET Ctx
    BY <1>6
  <2>. QED BY <1>7, <2>1, NotedProperties DEF Listened
<1>. HIDE DEF q, c
<1>13. nodes \cup {c} \in SUBSET Ctx
  BY <1>6, <1>7
<1>14. /\ t \in Seq(Event) /\ \A j \in DOMAIN t : t[j].kind = "add" /\ t[j].ctx \in nodes \cup {c}
       /\ \A x \in ToSet(q) \cap (nodes \cup {c}) : Holds(t, Msg("add", x))
       /\ \A x : ~Holds(t, Msg("remove", x))
       /\ q = <<>> => t = <<>>
  BY <1>12, <1>13, ToldProperties
<1>15. stage = "none" => t = <<>> /\ events = <<>>
  BY <1>12, <1>14 DEF IInv, Stages
<1>. HIDE DEF t
<1>16. /\ L \in [Node -> SUBSET Ctx] /\ \A p \in Node : L[p] \subseteq KidsOf(Ctx, p)
       /\ L[c] = {}
       /\ \A p \in nodes \cup {Root} : L[p] = kids[p] \cup KidsOf({c}, p)
  <2>1. /\ L \in Lists
        /\ \A p \in Node : p \in {c} \ nodes => L[p] = KidsOf({c}, p)
        /\ \A p \in nodes \cup {Root} : L[p] = kids[p] \cup KidsOf({c} \ nodes, p)
    <3>1. PICK C, n, k : C = {c} /\ n = nodes /\ k = kids
      OBVIOUS
    <3>2. C \in SUBSET Ctx /\ n \in SUBSET Ctx /\ k \in Lists /\ L = Grown(n, k, C)
      BY <1>6, <1>7, <3>1 DEF Lists
    <3>. HIDE DEF L
    <3>3. Grows(n, k, C, L)
      BY <3>2, GrownProperties
    <3>. QED BY <3>1, <3>3 DEF Grows
  <2>2. KidsOf({c}, c) = {} /\ c \in Node
    BY <1>6, OtherParent DEF KidsOf
  <2>. HIDE DEF L
  <2>. QED BY <1>10, <2>1, <2>2 DEF Lists
<1>. HIDE DEF L
<1>17. Loads(r, nodes \cup {c}, asked, gone)
  BY <1>5, <1>8 DEF Loads
<1>18. OwnLists(nodes \cup {c}, L, alias, asked, gone)
  <2>1. OwnLists(nodes, kids, alias, asked, gone)
    BY DEF IInv
  <2>2. KidsOf(nodes, c) = {} \/ Awaited(c, asked, gone)
    <3>1. CASE Head(queue).kind = "added"
      BY <1>4, <1>6, <1>7, <1>8, <3>1, TreeAssumption DEF KidsOf, Closed
    <3>2. CASE Head(queue).kind = "changed"
      <4>1. \E a \in ToSet(asked) : a \in Above(c) /\ a # c
        BY <1>5, <1>8, <3>2 DEF Loads
      <4>. QED BY <4>1 DEF Awaited
    <3>. QED BY <1>3, <3>1, <3>2
  <2>. QED BY <1>6, <1>7, <1>8, <1>16, <2>1, <2>2, OwnListsGrow
<1>19. \A j \in DOMAIN t : Parent[t[j].ctx] \in s \cup {Root}
  <2>1. \A d \in nodes \cup {c} : Parent[d] \in s \cup {Root}
    BY <1>4, <1>8, <1>9 DEF Closed
  <2>. QED BY <1>14, <2>1
<1>20. DOMAIN events = {} \/ Holds(t, Msg("add", c))
  <2>1. CASE stage = "none"
    BY <1>15, <2>1
  <2>2. CASE stage # "none"
    BY <1>12, <1>14, <2>2
  <2>. QED BY <2>1, <2>2
<1>. DEFINE m == nodes \cup {c}
<1>21. EventsInOrder(f, m, r, vnodes, alias)
  <2>1. m \in SUBSET Ctx /\ nodes \subseteq m
    BY <1>13
  <2>2. AddsNew(events, t, m, s, r)
    BY <1>8, <1>20 DEF AddsAll, AddsNew
  <2>3. Adds(t, m, s)
    BY <1>14, <1>19 DEF Adds
  <2>4. PICK e, vn, al, n : e = events /\ vn = vnodes /\ al = alias /\ n = nodes
    OBVIOUS
  <2>. HIDE DEF m, f
  <2>5. /\ e \in Seq(Event) /\ n \in SUBSET Ctx /\ vn \in SUBSET Ctx /\ al \in SUBSET Node /\ f = e \o t
        /\ EventsInOrder(e, n, s, vn, al) /\ n \subseteq m /\ AddsNew(e, t, m, s, r)
    BY <1>5, <1>7, <2>1, <2>2, <2>4 DEF f
  <2>6. EventsInOrder(f, m, r, vn, al)
    BY <1>4, <1>14, <2>1, <2>2, <2>3, <2>5, AddsInOrder
  <2>. QED BY <2>4, <2>6
<1>22. \A x \in Ctx : Holds(f, Msg("remove", x)) => Holds(events, Msg("remove", x))
  <2>1. Joins(events, t, f)
    BY <1>7, <1>14, ConcatPlaces
  <2>. QED BY <1>14, <2>1 DEF Joins
<1>23. stage = "open" => ViewInOrder(f, m, L, vnodes, vkids, alias, whole)
  <2>. SUFFICES ASSUME stage = "open" PROVE ViewInOrder(f, m, L, vnodes, vkids, alias, whole)
    OBVIOUS
  <2>1. asked = <<>> /\ ViewInOrder(events, nodes, kids, vnodes, vkids, alias, whole)
    BY DEF IInv, Stages, Opened
  <2>2. nodes = s
    BY <1>1, <1>2, <2>1, Loaded
  <2>3. AddsAll(t, m \ nodes)
    BY <1>12, <1>14 DEF AddsAll
  <2>4. SharedGrow(kids, L, alias, m \ nodes)
    <3>. SUFFICES ASSUME NEW x \in Ctx, Parent[x] \in alias
                  PROVE  x \in L[Parent[x]] <=> x \in kids[Parent[x]] \/ x \in m \ nodes
      BY DEF SharedGrow
    <3>1. Parent[x] \in nodes \cup {Root}
      BY <2>1 DEF ViewInOrder, Shared
    <3>2. L[Parent[x]] = kids[Parent[x]] \cup KidsOf({c}, Parent[x])
      BY <1>16, <3>1
    <3>3. x \in KidsOf({c}, Parent[x]) <=> x = c
      BY DEF KidsOf
    <3>4. x \in m \ nodes <=> x = c
      BY <1>8
    <3>. QED BY <3>2, <3>3, <3>4
  <2>5. m \in SUBSET Ctx /\ nodes \subseteq m
    BY <1>13
  <2>6. Adds(t, m, nodes)
    BY <1>14, <1>19, <2>2 DEF Adds
  <2>7. PICK e, n, vn, al, wh, k, vk :
          e = events /\ n = nodes /\ vn = vnodes /\ al = alias /\ wh = whole /\ k = kids /\ vk = vkids
    OBVIOUS
  <2>. HIDE DEF m, f
  <2>8. /\ EventsInOrder(e, n, n, vn, al) /\ ViewInOrder(e, n, k, vn, vk, al, wh)
        /\ n \subseteq m /\ m \in SUBSET Ctx /\ n \in SUBSET Ctx /\ vn \in SUBSET Ctx /\ al \in SUBSET Node
        /\ e \in Seq(Event) /\ f = e \o t /\ Adds(t, m, n) /\ AddsAll(t, m \ n) /\ SharedGrow(k, L, al, m \ n)
    BY <1>5, <1>7, <2>1, <2>2, <2>3, <2>4, <2>5, <2>6, <2>7 DEF f
  <2>9. ViewInOrder(f, m, L, vn, vk, al, wh)
    BY <1>14, <2>8, AddsInView
  <2>. QED BY <2>7, <2>9
<1>. HIDE DEF m
<1>24. /\ f \in Seq(Event) /\ \A i \in DOMAIN f : f[i].ctx \in Node
       /\ stage = "none" => f = <<>>
       /\ stage # "open" => \A i \in DOMAIN f : f[i].kind \in {"add", "remove"}
       /\ Holds(events, Msg("set", Root)) => Holds(f, Msg("set", Root))
  <2>1. \A j \in DOMAIN t : t[j].kind \in {"add", "remove"}
    BY <1>14
  <2>. QED BY <1>14, <1>15, <2>1, EventsGrow
<1>25. NoReturn(g, q2, f, whole, dead)
  BY <1>1, <1>2, <1>3, <1>22, PoppedReturn
<1>26. nodes' = m
  BY <1>11 DEF m
<1>. HIDE DEF f
<1>27. PICK g2 \in Seq(SUBSET Ctx) :
         /\ queue' \in Seq(Message) /\ History(g2, queue', srv, asked, whole) /\ g2[1] = r
         /\ NoReturn(g2, queue', f, whole, dead)
  <2>1. PICK P, kd, T, as, wh, e, de, q3 :
          /\ P = Posted(added, {c}, "tellAdded") /\ kd = "tellAdded" /\ T = srv /\ as = asked /\ wh = whole
          /\ e = f /\ de = dead /\ q3 = queue'
    OBVIOUS
  <2>2. /\ T \in SUBSET Ctx /\ Closed(T) /\ History(g, q2, T, as, wh) /\ NoReturn(g, q2, e, wh, de)
        /\ q3 = q2 \o P
    BY <1>2, <1>4, <1>11, <1>25, <2>1, ServerClosed DEF IInv, TypeOK
  <2>3. kd \in {"tellAdded", "tellRemoved"} /\ P \in {<<>>, <<Msg(kd, Root)>>}
    BY <2>1 DEF Posted
  <2>4. JoinsHistory(g, q2, P, q3, T, as, wh, e, de)
    BY <1>4, <2>2, <2>3, PostedJoins
  <2>. QED BY <1>2, <2>1, <2>4 DEF JoinsHistory
<1>28. UnderWay(g2)'
  <2>1. Loads(r, m, asked, gone)
    BY <1>17 DEF m
  <2>. QED BY <1>3, <1>11, <1>21, <1>26, <1>27, <2>1 DEF UnderWay
<1>29. Shapes' /\ Stages' /\ Opened'
  <2>1. Shapes'
    BY <1>3, <1>11, <1>16, <1>24, <1>27 DEF Shapes, IInv
  <2>2. Stages'
    BY <1>3, <1>11, <1>24 DEF Stages, IInv
  <2>3. Opened'
    BY <1>3, <1>11, <1>23, <1>26 DEF Opened
  <2>. QED BY <2>1, <2>2, <2>3
<1>30. OwnLists(nodes, kids, alias, asked, gone)'
  BY <1>3, <1>11, <1>18
<1>31. TypeOK'
  <2>1. \A i \in DOMAIN queue' : queue'[i].ctx \in Node
    BY <1>27, ContextsOf
  <2>2. <<>> \in Seq(Ctx)
    OBVIOUS
  <2>. QED BY <1>3, <1>11, <1>13, <1>16, <1>24, <2>1, <2>2 DEF IInv, TypeOK
<1>. QED BY <1>28, <1>29, <1>30, <1>31 DEF IInv

(* remove_node, and the lists of the manager that it gives up.             *)
LEMMA DroppedProperties ==
    ASSUME NEW k \in Lists, NEW D, NEW l, l = Dropped(k, D)
    PROVE  l \in Lists /\ ListsLose(k, l, D)
<1>1. l = [p \in Node |-> IF p \in D THEN {} ELSE k[p] \ D]
  BY DEF Dropped
<1>2. \A p \in Node : l[p] \subseteq k[p] /\ k[p] \subseteq KidsOf(Ctx, p) /\ k[p] \in SUBSET Ctx
  BY <1>1 DEF Lists
<1>3. \A p \in Node : l[p] \in SUBSET Ctx /\ l[p] \subseteq KidsOf(Ctx, p)
  BY <1>2
<1>. QED BY <1>1, <1>3 DEF Lists, ListsLose

(* Lists that lose what is removed stay right.                             *)
LEMMA OwnListsShrink ==
    ASSUME NEW n \in SUBSET Ctx, NEW k, NEW D \in SUBSET n, NEW l, ListsLose(k, l, D),
           NEW al, NEW as, NEW go, OwnLists(n, k, al, as, go)
    PROVE  OwnLists(n \ D, l, al \ D, as, go \cup D)
<1>. SUFFICES ASSUME NEW p \in ((n \ D) \cup {Root}) \ (al \ D)
              PROVE  /\ l[p] \subseteq n \ D
                     /\ l[p] = KidsOf(n \ D, p) \/ Awaited(p, as, go \cup D)
  BY DEF OwnLists
<1>1. p \in (n \cup {Root}) \ al /\ p \notin D /\ p \in Node
  BY TreeAssumption DEF Node
<1>2. l[p] = k[p] \ D
  BY <1>1 DEF ListsLose
<1>3. k[p] \subseteq n /\ (k[p] = KidsOf(n, p) \/ Awaited(p, as, go))
  BY <1>1 DEF OwnLists
<1>4. Awaited(p, as, go) => Awaited(p, as, go \cup D)
  BY <1>1 DEF Awaited
<1>5. KidsOf(n \ D, p) = KidsOf(n, p) \ D
  BY DEF KidsOf
<1>. QED BY <1>2, <1>3, <1>4, <1>5

(* What Detach does to the lists of the view.                              *)
LEMMA Detached ==
    ASSUME IInv, NEW D, Detach(D)
    PROVE  /\ vkids' \in Lists /\ KeptOutside(vkids, vkids', alias \cap D)
           /\ alias' = alias \ D /\ stage' = stage /\ vnodes' = vnodes
<1>1. vkids' = [p \in Node |-> IF p \in alias \cap D THEN kids[p] ELSE vkids[p]]
  BY DEF Detach
<1>2. /\ kids \in [Node -> SUBSET Ctx] /\ vkids \in [Node -> SUBSET Ctx]
      /\ \A p \in Node : kids[p] \subseteq KidsOf(Ctx, p) /\ vkids[p] \subseteq KidsOf(Ctx, p)
  BY DEF IInv, TypeOK, Shapes
<1>3. vkids' \in [Node -> SUBSET Ctx]
  BY <1>1, <1>2
<1>4. \A p \in Node : vkids'[p] \subseteq KidsOf(Ctx, p)
  BY <1>1, <1>2
<1>. QED BY <1>1, <1>3, <1>4 DEF Detach, Lists, KeptOutside

(* What goes is all that there is below.                                   *)
LEMMA RemovesAll ==
    ASSUME IInv, NEW h \in Seq(SUBSET Ctx), UnderWay(h), NEW s \in SUBSET Ctx, s = h[1], Closed(s), NEW x \in s,
           whole => asked = <<>>, ~whole => KidsOf(s, x) = {}
    PROVE  Below(nodes, kids, {x}) = Under(x) \cap nodes
<1>. DEFINE D == Reach(nodes, kids, {x})
<1>1. /\ nodes \in SUBSET Ctx /\ kids \in [Node -> SUBSET Ctx] /\ x \in Ctx /\ nodes \subseteq s
      /\ \A p \in Node : kids[p] \subseteq KidsOf(Ctx, p)
  BY DEF IInv, TypeOK, Shapes, UnderWay, Loads
<1>2. D = Under(x) \cap nodes
  <2>1. CASE whole
    <3>1. nodes = s /\ \A p \in (nodes \cup {Root}) \ alias : kids[p] = KidsOf(nodes, p)
      BY <2>1, Loaded
    <3>2. \A p \in nodes : KidsOf(nodes, p) \subseteq kids[p]
      <4>. SUFFICES ASSUME NEW p \in nodes PROVE KidsOf(nodes, p) \subseteq kids[p]
        OBVIOUS
      <4>1. CASE p \in alias
        <5>1. stage = "open"
          BY <4>1 DEF IInv, Stages
        <5>2. \A c \in Ctx : Parent[c] \in alias => c \notin nodes \ kids[Parent[c]]
          BY <2>1, <5>1 DEF IInv, Opened, ViewInOrder, Shared
        <5>. QED BY <1>1, <4>1, <5>2 DEF KidsOf
      <4>2. CASE p \notin alias
        BY <3>1, <4>2
      <4>. QED BY <4>1, <4>2
    <3>. QED BY <1>1, <3>1, <3>2, ReachAll
  <2>2. CASE ~whole
    <3>1. Under(x) \cap s = {x}
      BY <2>2, LeafUnder
    <3>2. {x} \cap nodes \subseteq D /\ D \subseteq nodes
      BY <1>1, ReachProperties
    <3>3. D \subseteq Under(x)
      BY <1>1, ReachBelow
    <3>. QED BY <1>1, <3>1, <3>2, <3>3
  <2>. QED BY <2>1, <2>2
<1>. QED BY <1>2 DEF Below

(* _node_removed tells of it at once.                                      *)
LEMMA RemovesTold ==
    ASSUME IInv, NEW D \in SUBSET Ctx, NEW t, t = Untold(Noted(removed, D)), NEW f, f = Freeze(D), NEW g, g = f \o t
    PROVE  /\ t \in Seq(Event) /\ g \in Seq(Event) /\ Frozen(events, f, D)
           /\ stage = "none" => g = <<>>
           /\ stage # "none" => Removes(t, D)
           /\ \A c \in Ctx : Holds(g, Msg("remove", c)) => Holds(events, Msg("remove", c)) \/ c \in D
           /\ stage # "open" => \A i \in DOMAIN g : g[i].kind \in {"add", "remove"}
           /\ Holds(events, Msg("set", Root)) => Holds(g, Msg("set", Root))
<1>1. /\ events \in Seq(Event) /\ removed = <<>> /\ <<>> \in Seq(Ctx)
      /\ stage = "none" => events = <<>>
      /\ stage # "open" => \A i \in DOMAIN events : events[i].kind \in {"add", "remove"}
  BY DEF IInv, Shapes, Stages
<1>2. PICK q : q = Noted(removed, D)
  OBVIOUS
<1>3. q \in Seq(Ctx) /\ (stage # "none" => ToSet(q) = D) /\ (stage = "none" => q = <<>>)
  <2>1. PICK rm : rm = removed
    OBVIOUS
  <2>2. /\ Noted(rm, D) \in Seq(Ctx) /\ (stage # "none" => ToSet(Noted(rm, D)) = ToSet(rm) \cup D)
        /\ stage = "none" => Noted(rm, D) = rm
    BY <1>1, <2>1, NotedProperties DEF Listened
  <2>3. ToSet(<<>>) = {}
    BY DEF ToSet
  <2>. QED BY <1>1, <1>2, <2>1, <2>2, <2>3
<1>4. /\ t \in Seq(Event) /\ \A j \in DOMAIN t : t[j].kind = "remove" /\ t[j].ctx \in ToSet(q)
      /\ \A c \in ToSet(q) : Holds(t, Msg("remove", c))
      /\ q = <<>> => t = <<>>
  BY <1>2, <1>3, UntoldProperties
<1>5. Frozen(events, f, D)
  <2>1. \A p \in Node : kids[p] \subseteq KidsOf(Ctx, p)
    BY DEF IInv, Shapes
  <2>. QED BY <1>1, <2>1, FreezeFrozen
<1>6. stage # "open" => f = events
  BY <1>1, FreezeNone
<1>7. f \in Seq(Event)
  BY <1>5 DEF Frozen
<1>8. g \in Seq(Event) /\ Joins(f, t, g)
  BY <1>4, <1>7, ConcatPlaces
<1>9. stage = "none" => g = <<>>
  BY <1>1, <1>3, <1>4, <1>6, ConcatEmptySeq
<1>10. stage # "none" => Removes(t, D)
  BY <1>3, <1>4 DEF Removes
<1>11. ASSUME NEW c \in Ctx, Holds(g, Msg("remove", c)) PROVE Holds(events, Msg("remove", c)) \/ c \in D
  <2>1. Holds(f, Msg("remove", c)) \/ Holds(t, Msg("remove", c))
    BY <1>8, <1>11 DEF Joins
  <2>2. Holds(f, Msg("remove", c)) => Holds(events, Msg("remove", c))
    <3>1. PICK e : e = events
      OBVIOUS
    <3>. QED BY <1>1, <1>5, <3>1, FrozenPlaces
  <2>3. ASSUME Holds(t, Msg("remove", c)) PROVE c \in D
    <3>1. c \in ToSet(q)
      BY <1>4, <2>3, MsgFields DEF Holds
    <3>2. stage # "none"
      BY <1>3, <1>4, <2>3 DEF Holds
    <3>. QED BY <1>3, <3>1, <3>2
  <2>. QED BY <2>1, <2>2, <2>3
<1>12. stage # "open" => \A i \in DOMAIN g : g[i].kind \in {"add", "remove"}
  <2>1. \A i \in DOMAIN g : (i \in DOMAIN f /\ g[i] = f[i]) \/ Holds(t, g[i])
    BY <1>8 DEF Joins
  <2>. QED BY <1>1, <1>4, <1>6, <2>1 DEF Holds
<1>13. Holds(events, Msg("set", Root)) => Holds(g, Msg("set", Root))
  <2>1. Root \notin D
    BY TreeAssumption
  <2>2. PICK e, c : e = events /\ c = Root
    OBVIOUS
  <2>3. Holds(e, Msg("set", c)) => Holds(f, Msg("set", c))
    BY <1>1, <1>5, <2>1, <2>2, FrozenPlaces
  <2>. QED BY <1>8, <2>2, <2>3 DEF Joins
<1>. QED BY <1>4, <1>5, <1>8, <1>9, <1>10, <1>11, <1>12, <1>13

(* The manager removes a node with all below it, and tells of them.        *)
LEMMA OnRemovedStep ==
    ASSUME IInv, OnRemoved
    PROVE  IInv'
<1>. USE DEF server
<1>1. PICK h \in Seq(SUBSET Ctx) : UnderWay(h)
  BY DEF IInv
<1>. DEFINE x == Head(queue).ctx
            D == Below(nodes, kids, {x})
<1>2. PICK g, q2, at, s, r : g = Tail(h) /\ q2 = Tail(queue) /\ at = asked /\ s = h[1] /\ r = g[1]
  OBVIOUS
<1>3. /\ queue # <<>> /\ queue' = q2 \o Posted(removed, D, "tellRemoved") /\ Head(queue).kind = "removed"
      /\ UNCHANGED <<server, asked, added>>
      /\ nodes' = nodes \ D /\ kids' = Dropped(kids, D) /\ Detach(D) /\ gone' = gone \cup D
      /\ IF D = {} THEN UNCHANGED <<events, removed>>
         ELSE events' = Freeze(D) \o Untold(Noted(removed, D)) /\ removed' = <<>>
  BY <1>2 DEF OnRemoved, First
<1>4. /\ g \in Seq(SUBSET Ctx) /\ q2 \in Seq(Message) /\ History(g, q2, srv, at, whole)
      /\ Head(queue) \in Message /\ r \in SUBSET Ctx /\ s \in SUBSET Ctx /\ Closed(s) /\ Closed(r)
      /\ Tells(Head(queue), s, r, asked, whole)
      /\ \A i \in DOMAIN queue : queue[i] = Head(queue) \/ Holds(q2, queue[i])
  BY <1>1, <1>2, <1>3, Popped
<1>5. Loads(s, nodes, asked, gone) /\ EventsInOrder(events, nodes, s, vnodes, alias)
  BY <1>1, <1>2 DEF UnderWay
<1>6. x \in s /\ r = s \ Under(x) /\ (whole => asked = <<>>) /\ (~whole => KidsOf(s, x) = {})
  BY <1>3, <1>4 DEF Tells
<1>7. /\ nodes \in SUBSET Ctx /\ kids \in Lists /\ vkids \in Lists
      /\ events \in Seq(Event) /\ vnodes \in SUBSET Ctx /\ alias \in SUBSET Node /\ removed = <<>>
  BY DEF IInv, TypeOK, Shapes, Lists
<1>8. D = Under(x) \cap nodes
  <2>. HIDE DEF x, D
  <2>1. Below(nodes, kids, {x}) = Under(x) \cap nodes
    BY <1>1, <1>2, <1>4, <1>6, RemovesAll
  <2>. QED BY <2>1 DEF D
<1>. HIDE DEF D, x
<1>9. x \in Ctx /\ D \subseteq Under(x) /\ D \subseteq Ctx /\ D \subseteq nodes /\ nodes \subseteq s /\ Root \notin D
  <2>1. x \in Ctx /\ nodes \subseteq s
    BY <1>4, <1>5, <1>6 DEF Loads
  <2>. QED BY <1>7, <1>8, <2>1, TreeAssumption
<1>10. PICK l, vl : l = kids' /\ vl = vkids'
  OBVIOUS
<1>11. l \in Lists /\ ListsLose(kids, l, D)
  <2>1. PICK k : k = kids
    OBVIOUS
  <2>2. k \in Lists /\ l = Dropped(k, D)
    BY <1>3, <1>7, <1>10, <2>1
  <2>. QED BY <2>1, <2>2, DroppedProperties
<1>12. vl \in Lists /\ KeptOutside(vkids, vl, alias \cap D) /\ alias' = alias \ D /\ stage' = stage /\ vnodes' = vnodes
  BY <1>3, <1>10, Detached
<1>13. Loads(r, nodes \ D, asked, gone \cup D)
  BY <1>5, <1>6, <1>8, <1>9 DEF Loads
<1>14. OwnLists(nodes \ D, l, alias \ D, asked, gone \cup D)
  <2>1. PICK n, k, al, as, go : n = nodes /\ k = kids /\ al = alias /\ as = asked /\ go = gone
    OBVIOUS
  <2>2. n \in SUBSET Ctx /\ D \in SUBSET n /\ ListsLose(k, l, D) /\ OwnLists(n, k, al, as, go)
    BY <1>7, <1>9, <1>11, <2>1 DEF IInv
  <2>3. OwnLists(n \ D, l, al \ D, as, go \cup D)
    BY <2>2, OwnListsShrink
  <2>. QED BY <2>1, <2>3
(* The events.                                                             *)
<1>15. PICK e2 : e2 = events'
  OBVIOUS
<1>16. /\ EventsInOrder(e2, nodes \ D, r, vnodes, alias \ D)
       /\ stage = "open" => ViewInOrder(e2, nodes \ D, l, vnodes, vl, alias \ D, whole)
       /\ e2 \in Seq(Event) /\ removed' = <<>>
       /\ stage = "none" => e2 = <<>>
       /\ \A c \in Ctx : Holds(e2, Msg("remove", c)) => Holds(events, Msg("remove", c)) \/ c \in D
       /\ stage # "open" => \A i \in DOMAIN e2 : e2[i].kind \in {"add", "remove"}
       /\ Holds(events, Msg("set", Root)) => Holds(e2, Msg("set", Root))
  <2>1. CASE D = {}
    <3>1. e2 = events /\ removed' = <<>> /\ nodes \ D = nodes /\ alias \ D = alias
      BY <1>3, <1>7, <1>15, <2>1
    <3>2. EventsInOrder(e2, nodes \ D, r, vnodes, alias \ D)
      <4>1. PICK n, vn, al : n = nodes /\ vn = vnodes /\ al = alias
        OBVIOUS
      <4>2. EventsInOrder(e2, n, s, vn, al) /\ r \subseteq s
        BY <1>5, <1>6, <3>1, <4>1
      <4>3. EventsInOrder(e2, n, r, vn, al)
        BY <4>2, OrderGrows
      <4>. QED BY <3>1, <4>1, <4>3
    <3>3. l = kids /\ vl = vkids
      <4>1. (\A p \in Node : l[p] = kids[p]) /\ (\A p \in Node : vl[p] = vkids[p])
        BY <1>11, <1>12, <2>1 DEF ListsLose, KeptOutside
      <4>2. kids \in [Node -> SUBSET Ctx] /\ vkids \in [Node -> SUBSET Ctx]
            /\ l \in [Node -> SUBSET Ctx] /\ vl \in [Node -> SUBSET Ctx]
        BY <1>7, <1>11, <1>12 DEF Lists
      <4>. QED BY <4>1, <4>2
    <3>4. stage = "open" => ViewInOrder(e2, nodes \ D, l, vnodes, vl, alias \ D, whole)
      BY <3>1, <3>3 DEF IInv, Opened
    <3>. QED BY <1>7, <3>1, <3>2, <3>4 DEF IInv, Stages
  <2>2. CASE D # {}
    <3>1. PICK t, f : t = Untold(Noted(removed, D)) /\ f = Freeze(D)
      OBVIOUS
    <3>2. e2 = f \o t /\ removed' = <<>>
      BY <1>3, <1>15, <2>2, <3>1
    <3>3. /\ t \in Seq(Event) /\ e2 \in Seq(Event) /\ Frozen(events, f, D)
          /\ stage = "none" => e2 = <<>>
          /\ stage # "none" => Removes(t, D)
          /\ \A c \in Ctx : Holds(e2, Msg("remove", c)) => Holds(events, Msg("remove", c)) \/ c \in D
          /\ stage # "open" => \A i \in DOMAIN e2 : e2[i].kind \in {"add", "remove"}
          /\ Holds(events, Msg("set", Root)) => Holds(e2, Msg("set", Root))
      BY <1>9, <3>1, <3>2, RemovesTold
    <3>4. PICK e, n, k, vn, vk, al, wh : e = events /\ n = nodes /\ k = kids /\ vn = vnodes /\ vk = vkids /\ al = alias /\ wh = whole
      OBVIOUS
    <3>5. /\ e \in Seq(Event) /\ n \in SUBSET Ctx /\ vn \in SUBSET Ctx /\ al \in SUBSET Node
          /\ D = Under(x) \cap n /\ Frozen(e, f, D) /\ EventsInOrder(e, n, s, vn, al)
          /\ ListsLose(k, l, D) /\ KeptOutside(vk, vl, al \cap D)
      BY <1>5, <1>7, <1>8, <1>11, <1>12, <3>3, <3>4
    <3>6. EventsInOrder(e2, n \ D, s \ Under(x), vn, al \ D)
      <4>1. CASE stage = "none"
        <5>1. \A m, b, c, d : EventsInOrder(<<>>, m, b, c, d)
          BY NoEventsInOrder
        <5>2. e2 = <<>>
          BY <3>3, <4>1
        <5>. QED BY <5>1, <5>2
      <4>2. CASE stage # "none"
        <5>1. al \subseteq n \cup {Root}
          <6>1. CASE stage = "open"
            BY <3>4, <6>1 DEF IInv, Opened, ViewInOrder, Shared
          <6>2. CASE stage # "open"
            BY <3>4, <6>2 DEF IInv, Stages
          <6>. QED BY <6>1, <6>2
        <5>2. Removes(t, D)
          BY <3>3, <4>2
        <5>. QED BY <1>4, <1>9, <3>2, <3>3, <3>5, <5>1, <5>2, RemovesInOrder
      <4>. QED BY <4>1, <4>2
    <3>7. ASSUME stage = "open" PROVE ViewInOrder(e2, n \ D, l, vn, vl, al \ D, wh)
      <4>1. asked = <<>> /\ ViewInOrder(e, n, k, vn, vk, al, wh)
        BY <3>4, <3>7 DEF IInv, Stages, Opened
      <4>2. n = s
        BY <1>1, <1>2, <3>4, <4>1, Loaded
      <4>3. EventsInOrder(e2, n \ D, n \ D, vn, al \ D) /\ Removes(t, D)
        <5>1. s \ Under(x) = n \ D
          BY <3>5, <4>2
        <5>. QED BY <3>3, <3>6, <3>7, <5>1
      <4>. QED BY <1>9, <3>2, <3>3, <3>5, <4>1, <4>3, RemovesInView
    <3>. QED BY <1>6, <3>2, <3>3, <3>4, <3>6, <3>7
  <2>. QED BY <2>1, <2>2
<1>17. NoReturn(g, q2, e2, whole, dead)
  <2>1. \A c \in Ctx : Holds(e2, Msg("remove", c)) => Holds(events, Msg("remove", c)) \/ c \in h[1] \ g[1]
    BY <1>2, <1>6, <1>9, <1>16
  <2>. QED BY <1>1, <1>2, <1>3, <2>1, PoppedReturn
<1>18. PICK g2 \in Seq(SUBSET Ctx) :
         /\ queue' \in Seq(Message) /\ History(g2, queue', srv, asked, whole) /\ g2[1] = r
         /\ NoReturn(g2, queue', e2, whole, dead) /\ \A c : Holds(q2, c) => Holds(queue', c)
  <2>1. PICK P, kd, T, as, wh, de, q3 :
          /\ P = Posted(removed, D, "tellRemoved") /\ kd = "tellRemoved" /\ T = srv /\ as = asked /\ wh = whole
          /\ de = dead /\ q3 = queue'
    OBVIOUS
  <2>2. /\ T \in SUBSET Ctx /\ Closed(T) /\ History(g, q2, T, as, wh) /\ NoReturn(g, q2, e2, wh, de)
        /\ q3 = q2 \o P
    BY <1>2, <1>3, <1>4, <1>17, <2>1, ServerClosed DEF IInv, TypeOK
  <2>3. kd \in {"tellAdded", "tellRemoved"} /\ P \in {<<>>, <<Msg(kd, Root)>>}
    BY <2>1 DEF Posted
  <2>4. JoinsHistory(g, q2, P, q3, T, as, wh, e2, de)
    BY <1>4, <2>2, <2>3, PostedJoins
  <2>. QED BY <1>2, <2>1, <2>4 DEF JoinsHistory
<1>19. PICK m, al2 : m = nodes \ D /\ al2 = alias \ D
  OBVIOUS
<1>20. nodes' = m /\ alias' = al2 /\ kids' = l /\ vkids' = vl /\ events' = e2 /\ gone' = gone \cup D
  BY <1>3, <1>10, <1>12, <1>15, <1>19
<1>21. UnderWay(g2)'
  <2>1. Loads(r, m, asked, gone \cup D) /\ EventsInOrder(e2, m, r, vnodes, al2)
    BY <1>13, <1>16, <1>19
  <2>. QED BY <1>3, <1>12, <1>18, <1>20, <2>1 DEF UnderWay
<1>22. Shapes'
  <2>1. \A p \in Node : l[p] \subseteq KidsOf(Ctx, p) /\ vl[p] \subseteq KidsOf(Ctx, p)
    BY <1>11, <1>12 DEF Lists
  <2>. QED BY <1>16, <1>18, <1>20, <2>1 DEF Shapes
<1>23. Stages'
  <2>1. stage # "open" => alias = {} /\ vnodes = {} /\ \A p \in Node : vkids[p] = {}
    BY DEF IInv, Stages
  <2>2. stage # "open" => al2 = {} /\ \A p \in Node : vl[p] = {}
    BY <1>12, <1>19, <2>1 DEF KeptOutside
  <2>3. stage = "open" => asked = <<>> /\ (Root \in al2 \/ Holds(e2, Msg("set", Root)))
    BY <1>9, <1>16, <1>19 DEF IInv, Stages
  <2>4. stage = "none" => e2 = <<>> /\ added = <<>>
    BY <1>16 DEF IInv, Stages
  <2>. QED BY <1>3, <1>12, <1>16, <1>20, <2>1, <2>2, <2>3, <2>4 DEF Stages
<1>24. Opened'
  BY <1>3, <1>12, <1>16, <1>19, <1>20 DEF Opened
<1>25. OwnLists(nodes, kids, alias, asked, gone)'
  BY <1>3, <1>14, <1>19, <1>20
<1>26. TypeOK'
  <2>1. \A i \in DOMAIN queue' : queue'[i].ctx \in Node
    BY <1>18, ContextsOf
  <2>2. \A i \in DOMAIN e2 : e2[i].ctx \in Node
    BY <1>16, ContextsOf
  <2>3. m \in SUBSET Ctx /\ al2 \in SUBSET Node /\ gone \cup D \in SUBSET Ctx
    BY <1>7, <1>9, <1>19 DEF IInv, TypeOK
  <2>4. l \in [Node -> SUBSET Ctx] /\ vl \in [Node -> SUBSET Ctx] /\ removed' \in Seq(Ctx)
    BY <1>11, <1>12, <1>16 DEF Lists
  <2>5. added # <<>> => \E i \in DOMAIN queue' : queue'[i].kind = "tellAdded"
    <3>. SUFFICES ASSUME added # <<>> PROVE \E y : Holds(queue', y) /\ y.kind = "tellAdded"
      BY DEF Holds
    <3>1. PICK i \in DOMAIN queue : queue[i].kind = "tellAdded"
      BY DEF IInv, TypeOK
    <3>2. Holds(q2, queue[i])
      BY <1>3, <1>4, <3>1
    <3>. QED BY <1>18, <3>1, <3>2
  <2>. QED BY <1>3, <1>12, <1>20, <2>1, <2>2, <2>3, <2>4, <2>5 DEF IInv, TypeOK
<1>. QED BY <1>21, <1>22, <1>23, <1>24, <1>25, <1>26 DEF IInv

(* The posted _node_added tells of what is still there.                    *)
LEMMA TellPostedStep ==
    ASSUME IInv, TellPosted
    PROVE  IInv'
<1>. USE DEF view, server
<1>1. PICK h \in Seq(SUBSET Ctx) : UnderWay(h)
  BY DEF IInv
<1>2. PICK g, q2, at, s, r : g = Tail(h) /\ q2 = Tail(queue) /\ at = asked /\ s = h[1] /\ r = g[1]
  OBVIOUS
<1>3. queue # <<>> /\ (Head(queue).kind = "tellAdded" \/ Head(queue).kind = "tellRemoved")
  BY DEF TellPosted, First
<1>4. /\ g \in Seq(SUBSET Ctx) /\ q2 \in Seq(Message) /\ History(g, q2, srv, at, whole)
      /\ Head(queue) \in Message /\ r \in SUBSET Ctx /\ s \in SUBSET Ctx /\ Closed(s) /\ Closed(r)
      /\ Tells(Head(queue), s, r, asked, whole)
      /\ \A i \in DOMAIN queue : queue[i] = Head(queue) \/ Holds(q2, queue[i])
  BY <1>1, <1>2, <1>3, Popped
<1>5. removed = <<>> /\ Untold(removed) = <<>>
  <2>1. removed = <<>>
    BY DEF IInv, Shapes
  <2>2. DOMAIN removed = {}
    BY <2>1
  <2>. QED BY <2>1, <2>2 DEF Untold
<1>6. r = s
  BY <1>3, <1>4 DEF Tells
<1>7. PICK t, f : /\ t = IF Head(queue).kind = "tellAdded" THEN Told(added, nodes) ELSE <<>>
                  /\ f = events \o t
  OBVIOUS
<1>8. /\ queue' = q2 /\ events' = f /\ removed' = removed
      /\ added' = IF Head(queue).kind = "tellAdded" THEN <<>> ELSE added
      /\ UNCHANGED <<server, asked, nodes, kids, gone, view>>
  BY <1>2, <1>3, <1>5, <1>7 DEF TellPosted, First
<1>9. /\ nodes \in SUBSET Ctx /\ added \in Seq(Ctx) /\ events \in Seq(Event)
      /\ vnodes \in SUBSET Ctx /\ alias \in SUBSET Node
  BY DEF IInv, TypeOK, Shapes
<1>10. Loads(s, nodes, asked, gone) /\ EventsInOrder(events, nodes, s, vnodes, alias) /\ nodes \subseteq s
  BY <1>1, <1>2 DEF UnderWay, Loads
<1>11. /\ t \in Seq(Event) /\ \A j \in DOMAIN t : t[j].kind = "add" /\ t[j].ctx \in nodes
       /\ \A c : ~Holds(t, Msg("remove", c))
       /\ added = <<>> => t = <<>>
  <2>1. PICK q, n : q = added /\ n = nodes
    OBVIOUS
  <2>2. q \in Seq(Ctx) /\ n \in SUBSET Ctx /\ (t = Told(q, n) \/ t = <<>>)
    BY <1>7, <1>9, <2>1
  <2>3. /\ t \in Seq(Event) /\ \A j \in DOMAIN t : t[j].kind = "add" /\ t[j].ctx \in n
        /\ \A c : ~Holds(t, Msg("remove", c))
        /\ q = <<>> => t = <<>>
    <3>1. CASE t = Told(q, n)
      BY <2>2, <3>1, ToldProperties
    <3>2. CASE t = <<>>
      BY <3>2 DEF Holds
    <3>. QED BY <2>2, <3>1, <3>2
  <2>. QED BY <2>1, <2>3
<1>12. /\ f \in Seq(Event) /\ \A i \in DOMAIN f : f[i].ctx \in Node
       /\ stage = "none" => f = <<>>
       /\ stage # "open" => \A i \in DOMAIN f : f[i].kind \in {"add", "remove"}
       /\ Holds(events, Msg("set", Root)) => Holds(f, Msg("set", Root))
  <2>1. \A j \in DOMAIN t : t[j].kind \in {"add", "remove"}
    BY <1>11
  <2>2. stage = "none" => t = <<>>
    BY <1>11 DEF IInv, Stages
  <2>. QED BY <1>7, <1>11, <2>1, <2>2, EventsGrow
<1>13. PICK e, n, k, vn, vk, al, wh :
         e = events /\ n = nodes /\ k = kids /\ vn = vnodes /\ vk = vkids /\ al = alias /\ wh = whole
  OBVIOUS
<1>14. /\ e \in Seq(Event) /\ n \in SUBSET Ctx /\ vn \in SUBSET Ctx /\ al \in SUBSET Node /\ f = e \o t
       /\ EventsInOrder(e, n, s, vn, al) /\ Adds(t, n, s) /\ AddsNew(e, t, n, s, r) /\ n \subseteq n
  <2>1. Adds(t, n, s)
    BY <1>4, <1>10, <1>11, <1>13 DEF Adds, Closed
  <2>2. AddsNew(e, t, n, s, r)
    BY <1>6 DEF AddsNew, AddsAll
  <2>. QED BY <1>7, <1>9, <1>10, <1>13, <2>1, <2>2
<1>15. EventsInOrder(f, n, r, vn, al)
  BY <1>4, <1>11, <1>14, AddsInOrder
<1>16. ASSUME stage = "open" PROVE ViewInOrder(f, n, k, vn, vk, al, wh)
  <2>1. asked = <<>> /\ ViewInOrder(e, n, k, vn, vk, al, wh)
    BY <1>13, <1>16 DEF IInv, Stages, Opened
  <2>2. n = s
    BY <1>1, <1>2, <1>13, <2>1, Loaded
  <2>3. EventsInOrder(e, n, n, vn, al) /\ Adds(t, n, n) /\ AddsAll(t, n \ n) /\ SharedGrow(k, k, al, n \ n)
    BY <1>14, <2>2 DEF AddsAll, SharedGrow
  <2>. QED BY <1>11, <1>14, <2>1, <2>3, AddsInView
<1>17. NoReturn(g, q2, f, whole, dead)
  <2>1. Joins(events, t, f)
    BY <1>7, <1>9, <1>11, ConcatPlaces
  <2>2. \A c \in Ctx : Holds(f, Msg("remove", c)) => Holds(events, Msg("remove", c))
    BY <1>11, <2>1 DEF Joins
  <2>. QED BY <1>1, <1>2, <1>3, <2>2, PoppedReturn
<1>18. UnderWay(g)'
  BY <1>2, <1>4, <1>6, <1>8, <1>10, <1>13, <1>15, <1>17 DEF UnderWay
<1>19. Shapes' /\ Stages'
  BY <1>4, <1>8, <1>12 DEF IInv, Shapes, Stages
<1>20. Opened' /\ OwnLists(nodes, kids, alias, asked, gone)'
  BY <1>8, <1>13, <1>16 DEF IInv, Opened
<1>21. TypeOK'
  <2>1. (\A i \in DOMAIN queue' : queue'[i].ctx \in Node) /\ <<>> \in Seq(Ctx)
    BY <1>4, <1>8, ContextsOf
  <2>2. added' # <<>> => \E i \in DOMAIN queue' : queue'[i].kind = "tellAdded"
    BY <1>4, <1>8 DEF IInv, TypeOK, Holds
  <2>. QED BY <1>8, <1>9, <1>12, <2>1, <2>2 DEF IInv, TypeOK
<1>. QED BY <1>4, <1>18, <1>19, <1>20, <1>21 DEF IInv

(* done_get_children of a node that the server has no more.                *)
LEMMA OnNoChildrenStep ==
    ASSUME IInv, OnChildren, ~Head(queue).ok
    PROVE  IInv'
<1>. USE DEF view, server
<1>1. PICK h \in Seq(SUBSET Ctx) : UnderWay(h)
  BY DEF IInv
<1>2. PICK g, q2, at, s, p : g = Tail(h) /\ q2 = Tail(queue) /\ at = Tail(asked) /\ s = h[1] /\ p = Head(queue).ctx
  OBVIOUS
<1>3. /\ queue # <<>> /\ Head(queue).kind = "children" /\ queue' = q2 /\ asked' = at
      /\ UNCHANGED <<server, nodes, kids, gone, added, removed, events, view>>
  BY <1>2 DEF OnChildren, First
<1>4. /\ g \in Seq(SUBSET Ctx) /\ q2 \in Seq(Message) /\ History(g, q2, srv, at, whole)
      /\ s \in SUBSET Ctx /\ Closed(s)
      /\ Tells(Head(queue), s, g[1], asked, whole)
      /\ \A i \in DOMAIN queue : queue[i] = Head(queue) \/ Holds(q2, queue[i])
  BY <1>1, <1>2, <1>3, Popped
<1>5. Loads(s, nodes, asked, gone) /\ EventsInOrder(events, nodes, s, vnodes, alias)
  BY <1>1, <1>2 DEF UnderWay
<1>6. asked # <<>> /\ p = Head(asked) /\ p \notin s \cup {Root} /\ g[1] = s
  BY <1>2, <1>3, <1>4 DEF Tells
<1>7. asked \in Seq(Node) /\ stage # "open" /\ nodes \in SUBSET Ctx
  BY <1>6 DEF IInv, TypeOK, Stages
<1>8. at \in Seq(Node) /\ ToSet(asked) = {p} \cup ToSet(at)
  BY <1>2, <1>6, <1>7, ToSetTail
<1>9. \A c \in s \cup {Root} : p \notin Above(c)
  BY <1>4, <1>6, ClosedAbove, AboveRoot
<1>10. Loads(s, nodes, at, gone)
  BY <1>5, <1>8, <1>9 DEF Loads
<1>11. OwnLists(nodes, kids, alias, at, gone)
  <2>1. \A c \in nodes \cup {Root} : Awaited(c, asked, gone) => Awaited(c, at, gone)
    BY <1>5, <1>8, <1>9 DEF Awaited, Loads
  <2>. QED BY <2>1 DEF IInv, OwnLists
<1>12. NoReturn(g, q2, events, whole, dead)
  BY <1>1, <1>2, <1>3, PoppedReturn
<1>13. UnderWay(g)'
  BY <1>3, <1>4, <1>5, <1>6, <1>10, <1>12 DEF UnderWay
<1>14. Shapes' /\ Stages' /\ Opened'
  BY <1>3, <1>4, <1>7 DEF IInv, Shapes, Stages, Opened
<1>15. TypeOK'
  <2>1. \A i \in DOMAIN queue' : queue'[i].ctx \in Node
    BY <1>3, <1>4, ContextsOf
  <2>2. added # <<>> => \E i \in DOMAIN queue' : queue'[i].kind = "tellAdded"
    BY <1>3, <1>4 DEF IInv, TypeOK, Holds
  <2>. QED BY <1>3, <1>8, <2>1, <2>2 DEF IInv, TypeOK
<1>. QED BY <1>3, <1>4, <1>11, <1>13, <1>14, <1>15 DEF IInv

(* The lists of the manager once the children of p are known: it asks for  *)
(* theirs.                                                                 *)
Asks(as, at, p, list) ==
    ToSet(as) \subseteq {p} \cup ToSet(at) /\ ToSet(at) \subseteq ToSet(as) \cup list /\ list \subseteq ToSet(at)
Answered(n, s, go, p, list) ==
    n \subseteq s /\ p \in s \cup {Root} /\ p \in n \cup {Root} \cup go /\ list = KidsOf(s, p)
Relisted(m, l, go, p, list) == \A c \in Node : l[c] = IF c = p /\ p \notin go THEN list ELSE m[c]

(* An answer brings the children, and asks for theirs.                     *)
LEMMA LoadsMore ==
    ASSUME NEW s \in SUBSET Ctx, Closed(s), NEW n \in SUBSET Ctx, NEW as, NEW at, NEW go, Loads(s, n, as, go),
           NEW p \in Node, NEW list, Answered(n, s, go, p, list), Asks(as, at, p, list)
    PROVE  Loads(s, n \cup list, at, go \ list)
<1>. USE DEF Answered, Asks
<1>1. list \subseteq s /\ n \subseteq s /\ ToSet(as) \subseteq n \cup {Root} \cup go
  BY DEF KidsOf, Loads
<1>2. ASSUME NEW c \in s \ (n \cup list) PROVE \E a \in ToSet(at) : a \in Above(c) /\ a # c
  <2>1. PICK a \in ToSet(as) : a \in Above(c) /\ a # c
    BY DEF Loads
  <2>2. CASE a = p
    <3>1. PICK b \in Above(c) : b \in Ctx /\ Parent[b] = p
      BY <2>1, <2>2, ChildOnTheWay
    <3>2. b \in s
      BY <3>1, ClosedAbove, TreeAssumption
    <3>3. b \in list
      BY <3>1, <3>2 DEF KidsOf
    <3>. QED BY <1>2, <3>1, <3>3
  <2>. QED BY <2>1, <2>2
<1>. QED BY <1>1, <1>2 DEF Loads

(* The lists after an answer.                                              *)
LEMMA OwnListsLoad ==
    ASSUME NEW s \in SUBSET Ctx, Closed(s), NEW n \in SUBSET Ctx,
           NEW k, NEW as, NEW at, NEW go, OwnLists(n, k, {}, as, go),
           NEW p \in Node, NEW list, Answered(n, s, go, p, list), Asks(as, at, p, list),
           NEW m, Grows(n, k, list \ n, m), NEW l, Relisted(m, l, go, p, list)
    PROVE  OwnLists(n \cup list, l, {}, at, go \ list)
<1>. USE DEF Answered, Asks, Relisted
<1>. DEFINE S == list \ n
<1>1. /\ S \ n = S /\ S \subseteq s /\ list \subseteq s /\ \A c \in list : Parent[c] = p
      /\ p \notin list
  BY OtherParent DEF KidsOf
<1>2. /\ \A c \in Node : c \in S => m[c] = KidsOf(S, c)
      /\ \A c \in n \cup {Root} : m[c] = k[c] \cup KidsOf(S, c)
  BY <1>1 DEF Grows
<1>3. \A c : KidsOf(S, c) = IF c = p THEN S ELSE {}
  BY <1>1 DEF KidsOf
<1>4. \A c : KidsOf(n \cup list, c) = KidsOf(n, c) \cup KidsOf(S, c)
  BY DEF KidsOf
<1>. SUFFICES ASSUME NEW c \in (n \cup list) \cup {Root}
              PROVE  l[c] \subseteq n \cup list /\ (l[c] = KidsOf(n \cup list, c) \/ Awaited(c, at, go \ list))
  BY DEF OwnLists
<1>6. c \in Node /\ c \in s \cup {Root}
  BY <1>1 DEF Node
<1>7. CASE c \in S
  <2>1. l[c] = {}
    BY <1>1, <1>2, <1>3, <1>6, <1>7
  <2>2. c \in ToSet(at) /\ c \in Above(c) /\ c \notin go \ list
    BY <1>6, <1>7, AboveProperties
  <2>. QED BY <2>1, <2>2 DEF Awaited
<1>8. CASE c = p /\ p \notin go
  <2>1. l[c] = list
    BY <1>6, <1>8
  <2>2. KidsOf(n \cup list, c) = list
    BY <1>8 DEF KidsOf
  <2>. QED BY <2>1, <2>2
<1>9. CASE c \notin S /\ ~(c = p /\ p \notin go)
  <2>1. c \in n \cup {Root} /\ l[c] = k[c] \cup KidsOf(S, c)
    BY <1>2, <1>6, <1>9
  <2>2. k[c] \subseteq n /\ (k[c] = KidsOf(n, c) \/ Awaited(c, as, go))
    BY <2>1 DEF OwnLists
  <2>3. l[c] \subseteq n \cup list
    BY <1>3, <2>1, <2>2
  <2>4. ASSUME Awaited(c, as, go) PROVE Awaited(c, at, go \ list)
    <3>1. PICK a \in ToSet(as) : a \in Above(c) /\ (a = c => c \notin go)
      BY <2>4 DEF Awaited
    <3>2. CASE a = p
      <4>1. p # c
        BY <1>9, <3>1, <3>2
      <4>2. c \in Ctx
        BY <1>6, <3>1, <3>2, <4>1, AboveRoot DEF Node
      <4>3. PICK b \in Above(c) : b \in Ctx /\ Parent[b] = p
        BY <3>1, <3>2, <4>1, <4>2, ChildOnTheWay
      <4>4. b \in s
        BY <1>6, <4>2, <4>3, ClosedAbove, TreeAssumption
      <4>5. b \in list
        BY <4>3, <4>4 DEF KidsOf
      <4>. QED BY <4>3, <4>5 DEF Awaited
    <3>3. CASE a # p
      BY <3>1, <3>3 DEF Awaited
    <3>. QED BY <3>2, <3>3
  <2>. QED BY <1>4, <2>1, <2>2, <2>3, <2>4
<1>. QED BY <1>7, <1>8, <1>9

(* done_get_children: what changes.                                        *)
LoadsChildren(p, list, S) ==
    /\ nodes' = nodes \cup list /\ gone' = gone \ list
    /\ kids' \in Lists /\ \E m : Grows(nodes, kids, S, m) /\ Relisted(m, kids', gone, p, list)
    /\ vkids' = vkids /\ alias' = alias /\ stage' = stage /\ vnodes' = vnodes /\ events' = events
    /\ removed' = removed /\ added' = Noted(added, S)
    /\ queue' = (Tail(queue) \o <<>>) \o Posted(added, S, "tellAdded")
    /\ asked' = Tail(asked) \o SetToSeq(list)
    /\ UNCHANGED server

(* done_get_children removes nothing and adds the children.                *)
LEMMA ChildrenLoaded ==
    ASSUME IInv, OnChildren, Head(queue).ok, NEW h \in Seq(SUBSET Ctx), UnderWay(h), NEW s \in SUBSET Ctx, s = h[1],
           Closed(s), NEW p \in Node, p = Head(queue).ctx, p = Head(asked), p \in s \cup {Root}, asked # <<>>,
           NEW list, list = Head(queue).list, list = KidsOf(s, p), NEW S, S = list \ nodes
    PROVE  LoadsChildren(p, list, S)
<1>. USE DEF Relisted
<1>. DEFINE D == Replaced(p, list)
            l0 == Grown(nodes \ D, Dropped(kids, D), list \ (nodes \ D))
<1>1. /\ nodes' = (nodes \ D) \cup list
      /\ kids' = [l0 EXCEPT ![p] = IF p \in gone THEN @ ELSE list]
      /\ Detach(D \cup {p}) /\ events' = Freeze(D \cup {p}) /\ gone' = (gone \cup D) \ list
      /\ removed' = Noted(removed, D) /\ added' = Noted(added, list \ (nodes \ D))
      /\ queue' = Tail(queue) \o Posted(removed, D, "tellRemoved") \o Posted(added, list \ (nodes \ D), "tellAdded")
      /\ asked' = Tail(asked) \o SetToSeq(list)
      /\ UNCHANGED server
  BY DEF OnChildren
<1>2. /\ nodes \in SUBSET Ctx /\ kids \in Lists /\ vkids \in Lists /\ events \in Seq(Event) /\ removed = <<>>
      /\ stage # "open" /\ alias = {} /\ \A i \in DOMAIN events : events[i].kind # "set"
  <2>1. stage # "open"
    BY DEF IInv, Stages
  <2>2. \A i \in DOMAIN events : events[i].kind \in {"add", "remove"}
    BY <2>1 DEF IInv, Stages
  <2>. QED BY <2>1, <2>2 DEF IInv, TypeOK, Shapes, Stages, Lists
<1>3. nodes \subseteq s /\ ToSet(asked) \subseteq nodes \cup {Root} \cup gone /\ p \in ToSet(asked)
  <2>1. p \in ToSet(asked)
    BY ToSetTail DEF IInv, TypeOK
  <2>. QED BY <2>1 DEF UnderWay, Loads
<1>4. D = {}
  <2>1. CASE p \in gone
    BY <2>1 DEF Replaced
  <2>2. CASE p \notin gone
    <3>1. kids[p] \subseteq nodes /\ kids[p] \subseteq KidsOf(Ctx, p)
      BY <1>2, <1>3, <2>2 DEF IInv, OwnLists, Lists
    <3>2. kids[p] \ list = {}
      BY <1>3, <3>1 DEF KidsOf
    <3>3. PICK n, k, T : n = nodes /\ k = kids /\ T = kids[p] \ list
      OBVIOUS
    <3>4. D = Reach(n, k, T) /\ T = {} /\ n \in SUBSET Ctx
      BY <1>2, <2>2, <3>2, <3>3 DEF Replaced, Below
    <3>5. PICK E \in SUBSET Ctx : E = {}
      OBVIOUS
    <3>6. T \cap n \subseteq E /\ \A d \in E \cap n : k[d] \cap n \subseteq E
      BY <3>4, <3>5
    <3>7. Reach(n, k, T) \subseteq E
      BY <3>4, <3>6, ReachLeast
    <3>. QED BY <3>4, <3>5, <3>7
  <2>. QED BY <2>1, <2>2
<1>. HIDE DEF D
<1>5. nodes \ D = nodes /\ list \ (nodes \ D) = S /\ D \cup {p} = {p}
  BY <1>4
<1>6. Dropped(kids, D) = kids
  <2>1. PICK k, l : k = kids /\ l = Dropped(kids, D)
    OBVIOUS
  <2>2. k \in Lists /\ l = Dropped(k, D)
    BY <1>2, <2>1
  <2>3. l \in Lists /\ ListsLose(k, l, D)
    BY <2>2, DroppedProperties
  <2>4. \A c \in Node : l[c] = k[c]
    BY <1>4, <2>3 DEF ListsLose
  <2>5. l \in [Node -> SUBSET Ctx] /\ k \in [Node -> SUBSET Ctx]
    BY <2>2, <2>3 DEF Lists
  <2>6. l = k
    BY <2>4, <2>5
  <2>. QED BY <2>1, <2>6
<1>7. l0 = Grown(nodes, kids, S)
  BY <1>5, <1>6
<1>. HIDE DEF l0
<1>8. Grows(nodes, kids, S, l0)
  <2>1. PICK n, k : n = nodes /\ k = kids
    OBVIOUS
  <2>2. n \in SUBSET Ctx /\ k \in Lists /\ l0 = Grown(n, k, S) /\ S \in SUBSET Ctx
    BY <1>2, <1>7, <2>1 DEF KidsOf
  <2>3. Grows(n, k, S, l0)
    BY <2>2, GrownProperties
  <2>. QED BY <2>1, <2>3
<1>9. \A c \in Node : kids'[c] = IF c = p /\ p \notin gone THEN list ELSE l0[c]
  BY <1>1, <1>8 DEF Grows, Lists
<1>10. kids' \in Lists
  <2>1. list \subseteq KidsOf(Ctx, p) /\ list \in SUBSET Ctx
    BY DEF KidsOf
  <2>2. l0 \in [Node -> SUBSET Ctx] /\ \A c \in Node : l0[c] \subseteq KidsOf(Ctx, c)
    BY <1>8 DEF Grows, Lists
  <2>3. kids' \in [Node -> SUBSET Ctx]
    BY <1>1, <2>1, <2>2
  <2>4. \A c \in Node : kids'[c] \subseteq KidsOf(Ctx, c)
    BY <1>9, <2>1, <2>2
  <2>. QED BY <2>3, <2>4 DEF Lists
<1>11. vkids' = vkids /\ alias' = alias /\ stage' = stage /\ vnodes' = vnodes
  <2>1. PICK E : E = {p}
    OBVIOUS
  <2>2. Detach(E)
    BY <1>1, <1>5, <2>1
  <2>3. /\ vkids' \in Lists /\ KeptOutside(vkids, vkids', alias \cap E)
        /\ alias' = alias \ E /\ stage' = stage /\ vnodes' = vnodes
    BY <2>2, Detached
  <2>4. \A c \in Node : vkids'[c] = vkids[c]
    BY <1>2, <2>3 DEF KeptOutside
  <2>5. vkids' \in [Node -> SUBSET Ctx] /\ vkids \in [Node -> SUBSET Ctx]
    BY <1>2, <2>3 DEF Lists
  <2>6. vkids' = vkids
    BY <2>4, <2>5
  <2>. QED BY <1>2, <2>3, <2>6
<1>12. events' = events
  BY <1>1, <1>2, FreezeNone
<1>13. removed' = removed /\ Posted(removed, D, "tellRemoved") = <<>>
  <2>1. PICK q : q = removed
    OBVIOUS
  <2>2. q \in Seq(Ctx) /\ D \in SUBSET Ctx
    BY <1>2, <1>4, <2>1
  <2>3. Noted(q, D) = q
    BY <1>4, <2>2, NotedProperties
  <2>. QED BY <1>1, <1>4, <2>1, <2>3 DEF Posted
<1>14. Relisted(l0, kids', gone, p, list)
  BY <1>9
<1>. QED BY <1>1, <1>4, <1>5, <1>8, <1>10, <1>11, <1>12, <1>13, <1>14 DEF LoadsChildren

(* The manager takes the children of a node from an answer.                *)
LEMMA OnChildrenStep ==
    ASSUME IInv, OnChildren, Head(queue).ok
    PROVE  IInv'
<1>. USE DEF view, server
<1>1. PICK h \in Seq(SUBSET Ctx) : UnderWay(h)
  BY DEF IInv
<1>2. PICK g, q2, at, s, p, list, S :
        /\ g = Tail(h) /\ q2 = Tail(queue) /\ at = Tail(asked) \o SetToSeq(list) /\ s = h[1]
        /\ p = Head(queue).ctx /\ list = Head(queue).list /\ S = list \ nodes
  OBVIOUS
<1>3. queue # <<>> /\ Head(queue).kind = "children"
  BY DEF OnChildren, First
<1>4. /\ g \in Seq(SUBSET Ctx) /\ q2 \in Seq(Message) /\ History(g, q2, srv, at, whole)
      /\ s \in SUBSET Ctx /\ Closed(s) /\ Head(queue) \in Message
      /\ Tells(Head(queue), s, g[1], asked, whole)
      /\ \A i \in DOMAIN queue : queue[i] = Head(queue) \/ Holds(q2, queue[i])
  BY <1>1, <1>2, <1>3, Popped
<1>5. Loads(s, nodes, asked, gone) /\ EventsInOrder(events, nodes, s, vnodes, alias)
  BY <1>1, <1>2 DEF UnderWay
<1>6. asked # <<>> /\ p = Head(asked) /\ p \in s \cup {Root} /\ list = KidsOf(s, p) /\ g[1] = s
  BY <1>2, <1>3, <1>4 DEF Tells
<1>7. /\ asked \in Seq(Node) /\ stage # "open" /\ alias = {} /\ nodes \in SUBSET Ctx /\ nodes \subseteq s
      /\ list \in SUBSET Ctx /\ S \in SUBSET Ctx /\ added \in Seq(Ctx) /\ gone \in SUBSET Ctx
      /\ srv \in SUBSET Ctx /\ removed = <<>>
  <2>1. asked \in Seq(Node) /\ nodes \in SUBSET Ctx /\ added \in Seq(Ctx) /\ gone \in SUBSET Ctx /\ srv \in SUBSET Ctx
    BY DEF IInv, TypeOK
  <2>2. stage # "open" /\ alias = {} /\ removed = <<>>
    BY <1>6 DEF IInv, Stages, Shapes
  <2>3. nodes \subseteq s
    BY <1>5 DEF Loads
  <2>4. list \in SUBSET Ctx
    BY <1>4, <1>6 DEF KidsOf
  <2>. QED BY <1>2, <2>1, <2>2, <2>3, <2>4
<1>8. p \in Node
  BY <1>4, <1>6 DEF Node
<1>9. /\ nodes' = nodes \cup list /\ gone' = gone \ list
      /\ kids' \in Lists /\ \E m : Grows(nodes, kids, S, m) /\ Relisted(m, kids', gone, p, list)
      /\ vkids' = vkids /\ alias' = alias /\ stage' = stage /\ vnodes' = vnodes /\ events' = events
      /\ removed' = removed /\ added' = Noted(added, S)
      /\ queue' = (q2 \o <<>>) \o Posted(added, S, "tellAdded")
      /\ asked' = at
      /\ UNCHANGED server
  <2>1. LoadsChildren(p, list, S)
    BY <1>1, <1>2, <1>4, <1>6, <1>8, ChildrenLoaded
  <2>. QED BY <1>2, <2>1 DEF LoadsChildren
<1>10. at \in Seq(Node) /\ Asks(asked, at, p, list) /\ p \in ToSet(asked)
  <2>1. Tail(asked) \in Seq(Node) /\ ToSet(asked) = {p} \cup ToSet(Tail(asked))
    BY <1>6, <1>7, ToSetTail
  <2>2. PICK u : u = SetToSeq(list)
    OBVIOUS
  <2>3. IsFiniteSet(list)
    BY <1>7, TreeAssumption, FS_Subset
  <2>4. u \in Seq(list) /\ ToSet(u) = list
    BY <2>2, <2>3, SetToSeqProperties
  <2>5. u \in Seq(Node)
    BY <1>7, <2>4 DEF Node
  <2>6. PICK v : v = Tail(asked)
    OBVIOUS
  <2>7. v \in Seq(Node) /\ at = v \o u
    BY <1>2, <2>1, <2>2, <2>6
  <2>8. at \in Seq(Node) /\ ToSet(at) = ToSet(v) \cup ToSet(u)
    BY <2>5, <2>7, ToSetConcat
  <2>. QED BY <2>1, <2>4, <2>6, <2>8 DEF Asks
<1>11. Loads(s, nodes \cup list, at, gone \ list)
  <2>1. PICK n, as, go : n = nodes /\ as = asked /\ go = gone
    OBVIOUS
  <2>2. n \in SUBSET Ctx /\ Loads(s, n, as, go) /\ Asks(as, at, p, list) /\ Answered(n, s, go, p, list)
    BY <1>5, <1>6, <1>7, <1>10, <2>1 DEF Answered, Loads
  <2>3. Loads(s, n \cup list, at, go \ list)
    BY <1>4, <1>8, <2>2, LoadsMore
  <2>. QED BY <2>1, <2>3
<1>12. OwnLists(nodes, kids, alias, asked, gone)'
  <2>1. PICK m : Grows(nodes, kids, S, m) /\ Relisted(m, kids', gone, p, list)
    BY <1>9
  <2>2. PICK n, k, as, go, l : n = nodes /\ k = kids /\ as = asked /\ go = gone /\ l = kids'
    OBVIOUS
  <2>3. /\ n \in SUBSET Ctx /\ OwnLists(n, k, {}, as, go)
        /\ Grows(n, k, list \ n, m) /\ Relisted(m, l, go, p, list) /\ Asks(as, at, p, list)
    BY <1>2, <1>7, <1>10, <2>1, <2>2 DEF IInv
  <2>4. Answered(n, s, go, p, list)
    BY <1>5, <1>6, <1>7, <1>10, <2>2 DEF Answered, Loads
  <2>5. OwnLists(n \cup list, l, {}, at, go \ list)
    BY <1>4, <1>8, <2>3, <2>4, OwnListsLoad
  <2>. QED BY <1>7, <1>9, <2>2, <2>5
<1>13. EventsInOrder(events, nodes \cup list, s, vnodes, alias)
  <2>1. PICK e, n, m, vn, al : e = events /\ n = nodes /\ m = nodes \cup list /\ vn = vnodes /\ al = alias
    OBVIOUS
  <2>2. n \subseteq m /\ s \subseteq s /\ EventsInOrder(e, n, s, vn, al)
    BY <1>5, <2>1
  <2>3. EventsInOrder(e, m, s, vn, al)
    BY <2>2, OrderGrows
  <2>. QED BY <2>1, <2>3
<1>14. NoReturn(g, q2, events, whole, dead)
  BY <1>1, <1>2, <1>3, PoppedReturn
<1>15. PICK P : P = Posted(added, S, "tellAdded")
  OBVIOUS
<1>16. /\ P \in {<<>>, <<Msg("tellAdded", Root)>>}
       /\ stage # "none" /\ added = <<>> /\ S # {} => P = <<Msg("tellAdded", Root)>>
  BY <1>15 DEF Posted, Listened
<1>17. PICK g2 \in Seq(SUBSET Ctx) :
         /\ queue' \in Seq(Message) /\ History(g2, queue', srv, at, whole) /\ g2[1] = s
         /\ NoReturn(g2, queue', events, whole, dead)
         /\ \A m : Holds(queue', m) <=> Holds(q2, m) \/ Holds(P, m)
  <2>1. PICK t, as, wh, e, de, q3 : t = srv /\ as = at /\ wh = whole /\ e = events /\ de = dead /\ q3 = queue'
    OBVIOUS
  <2>2. /\ t \in SUBSET Ctx /\ Closed(t) /\ History(g, q2, t, as, wh) /\ NoReturn(g, q2, e, wh, de)
        /\ q3 = q2 \o P
    <3>1. q2 \o <<>> = q2
      BY <1>4, ConcatEmptySeq
    <3>. QED BY <1>4, <1>7, <1>9, <1>14, <1>15, <2>1, <3>1, ServerClosed
  <2>3. JoinsHistory(g, q2, P, q3, t, as, wh, e, de)
    BY <1>4, <1>16, <2>2, PostedJoins
  <2>. QED BY <1>6, <2>1, <2>3 DEF JoinsHistory
<1>18. UnderWay(g2)'
  <2>1. PICK m, gn : m = nodes \cup list /\ gn = gone \ list
    OBVIOUS
  <2>2. nodes' = m /\ gone' = gn /\ Loads(s, m, at, gn) /\ EventsInOrder(events, m, s, vnodes, alias)
    BY <1>9, <1>11, <1>13, <2>1
  <2>. QED BY <1>9, <1>17, <2>2 DEF UnderWay
<1>19. added' \in Seq(Ctx) /\ (stage = "none" => added' = added) /\ (S = {} => added' = added)
  <2>1. PICK q : q = added
    OBVIOUS
  <2>2. Noted(q, S) \in Seq(Ctx) /\ (stage = "none" => Noted(q, S) = q) /\ (S = {} => Noted(q, S) = q)
    BY <1>7, <2>1, NotedProperties DEF Listened
  <2>. QED BY <1>9, <2>1, <2>2
<1>20. Shapes'
  <2>1. \A c \in Node : kids'[c] \subseteq KidsOf(Ctx, c)
    BY <1>9 DEF Lists
  <2>. QED BY <1>9, <1>17, <2>1 DEF IInv, Shapes
<1>21. Stages' /\ Opened'
  BY <1>7, <1>9, <1>19 DEF IInv, Stages, Opened
<1>22. TypeOK'
  <2>1. \A i \in DOMAIN queue' : queue'[i].ctx \in Node
    BY <1>17, ContextsOf
  <2>2. added' # <<>> => \E i \in DOMAIN queue' : queue'[i].kind = "tellAdded"
    <3>. SUFFICES ASSUME added' # <<>> PROVE \E m : Holds(queue', m) /\ m.kind = "tellAdded"
      BY DEF Holds
    <3>1. CASE added # <<>>
      BY <1>3, <1>4, <1>17, <3>1 DEF IInv, TypeOK, Holds
    <3>2. CASE added = <<>>
      <4>1. S # {} /\ stage # "none"
        BY <1>19, <3>2
      <4>2. P = <<Msg("tellAdded", Root)>>
        BY <1>16, <3>2, <4>1
      <4>3. Holds(P, Msg("tellAdded", Root)) /\ Msg("tellAdded", Root).kind = "tellAdded"
        BY <4>2, MsgFields DEF Holds
      <4>. QED BY <1>17, <4>3
    <3>. QED BY <3>1, <3>2
  <2>3. nodes' \in SUBSET Ctx /\ gone' \in SUBSET Ctx /\ kids' \in [Node -> SUBSET Ctx]
    BY <1>7, <1>9 DEF Lists
  <2>. QED BY <1>9, <1>10, <1>19, <2>1, <2>2, <2>3 DEF IInv, TypeOK
<1>. QED BY <1>12, <1>17, <1>18, <1>20, <1>21, <1>22 DEF IInv

-----------------------------------------------------------------------------
(* The steps of the user thread: the queue and the manager's nodes stay.   *)
NoMoreRemoved(e, f) == \A c \in Ctx : Holds(f, Msg("remove", c)) => Holds(e, Msg("remove", c))

(* What a step of the user thread has to keep.                             *)
LEMMA UserMoves ==
    ASSUME IInv, NEW h \in Seq(SUBSET Ctx), UnderWay(h), NEW s, s = h[1],
           UNCHANGED <<server, asked, queue, nodes, gone, added, removed>>,
           events' \in Seq(Event), NoMoreRemoved(events, events'), kids' \in Lists, vkids' \in Lists,
           stage' \in {"listening", "open"}, vnodes' \in SUBSET Ctx, alias' \in SUBSET Node,
           EventsInOrder(events', nodes, s, vnodes', alias'),
           OwnLists(nodes, kids', alias', asked, gone), Stages', Opened'
    PROVE  IInv'
<1>. USE DEF server
<1>1. NoReturn(h, queue, events', whole, dead)
  BY DEF UnderWay, NoReturn, NoMoreRemoved
<1>2. UnderWay(h)'
  BY <1>1 DEF UnderWay
<1>3. Shapes'
  BY DEF IInv, Shapes, Lists
<1>4. TypeOK'
  <2>1. \A i \in DOMAIN events' : events'[i].ctx \in Node
    BY ContextsOf
  <2>. QED BY <2>1 DEF IInv, TypeOK, Lists
<1>. QED BY <1>2, <1>3, <1>4 DEF IInv

(* The view listens.                                                       *)
LEMMA ListenStep ==
    ASSUME IInv, Listen
    PROVE  IInv'
<1>. USE DEF server, manager
<1>1. PICK h \in Seq(SUBSET Ctx) : UnderWay(h)
  BY DEF IInv
<1>2. PICK s : s = h[1]
  OBVIOUS
<1>3. /\ stage = "none" /\ stage' = "listening"
      /\ UNCHANGED <<server, manager, events, vnodes, vkids, alias>>
  BY DEF Listen
<1>4. /\ events' \in Seq(Event) /\ kids' \in Lists /\ vkids' \in Lists
      /\ vnodes' \in SUBSET Ctx /\ alias' \in SUBSET Node /\ stage' \in {"listening", "open"}
  BY <1>3 DEF IInv, TypeOK, Shapes, Lists
<1>5. EventsInOrder(events', nodes, s, vnodes', alias') /\ OwnLists(nodes, kids', alias', asked, gone)
  BY <1>1, <1>2, <1>3 DEF IInv, UnderWay
<1>6. Stages' /\ Opened' /\ NoMoreRemoved(events, events')
  BY <1>3 DEF IInv, Stages, Opened, NoMoreRemoved
<1>. QED BY <1>1, <1>2, <1>3, <1>4, <1>5, <1>6, UserMoves

(* The view asks for the tree.                                             *)
LEMMA GetNodesStep ==
    ASSUME IInv, GetNodes
    PROVE  IInv'
<1>. USE DEF server, manager
<1>1. PICK h \in Seq(SUBSET Ctx) : UnderWay(h)
  BY DEF IInv
<1>2. PICK w \in Walks : events' = events \o Snapshot(w)
  BY DEF GetNodes
<1>3. PICK e, t, g, n, k, vk, wh, s :
        /\ e = events /\ t = Snapshot(w) /\ g = events' /\ n = nodes /\ k = kids /\ vk = vkids /\ wh = whole
        /\ s = h[1]
  OBVIOUS
<1>4. /\ stage = "listening" /\ asked = <<>> /\ stage' = "open"
      /\ UNCHANGED <<server, manager, vnodes, vkids, alias>>
  BY DEF GetNodes, MayGetNodes
<1>5. /\ e \in Seq(Event) /\ k \in Lists /\ vk \in Lists /\ vnodes = {} /\ alias = {}
      /\ \A i \in DOMAIN e : e[i].kind \in {"add", "remove"}
  BY <1>3, <1>4 DEF IInv, TypeOK, Shapes, Lists, Stages
<1>6. /\ nodes = h[1] /\ nodes \in SUBSET Ctx /\ Closed(nodes)
      /\ \A p \in (nodes \cup {Root}) \ alias : kids[p] = KidsOf(nodes, p)
  BY <1>1, <1>4, Loaded
<1>7. EventsInOrder(e, n, n, {}, {})
  BY <1>1, <1>3, <1>5, <1>6 DEF UnderWay
<1>8. ListsAll(t, n)
  <2>1. kids \in [Node -> SUBSET Ctx] /\ \A p \in nodes \cup {Root} : kids[p] = KidsOf(nodes, p)
    BY <1>5, <1>6 DEF IInv, TypeOK
  <2>2. ListsAll(Snapshot(w), nodes)
    BY <1>6, <2>1, SnapshotListsAll
  <2>. QED BY <1>3, <2>2
<1>9. OldEvents(e) /\ g = e \o t /\ n \in SUBSET Ctx /\ Closed(n)
  BY <1>2, <1>3, <1>5, <1>6 DEF OldEvents
<1>10. EventsInOrder(g, n, n, {}, {}) /\ ViewInOrder(g, n, k, {}, vk, {}, wh) /\ Holds(g, Msg("set", Root))
  BY <1>5, <1>7, <1>8, <1>9, ListsInOrder
<1>11. t \in Seq(Event) /\ \A c : ~Holds(t, Msg("remove", c))
  <2>1. t \in Seq(Event) /\ DOMAIN t = 1 .. Len(t) /\ Len(t) \in Nat
    BY <1>8, LenProperties DEF ListsAll
  <2>2. \A i \in DOMAIN t : t[i].kind # "remove"
    <3>. SUFFICES ASSUME NEW i \in DOMAIN t PROVE t[i].kind # "remove"
      OBVIOUS
    <3>1. CASE i = 1
      BY <1>8, <3>1, MsgFields DEF ListsAll
    <3>2. CASE i # 1
      BY <1>8, <2>1, <3>2 DEF ListsAll
    <3>. QED BY <3>1, <3>2
  <2>. QED BY <2>1, <2>2, MsgFields DEF Holds
<1>12. g \in Seq(Event) /\ NoMoreRemoved(e, g)
  <2>1. g \in Seq(Event) /\ Joins(e, t, g)
    BY <1>5, <1>9, <1>11, ConcatPlaces
  <2>. QED BY <1>11, <2>1 DEF Joins, NoMoreRemoved
<1>13. /\ events' \in Seq(Event) /\ NoMoreRemoved(events, events') /\ kids' \in Lists /\ vkids' \in Lists
       /\ vnodes' \in SUBSET Ctx /\ alias' \in SUBSET Node /\ stage' \in {"listening", "open"}
  BY <1>3, <1>4, <1>5, <1>12
<1>14. EventsInOrder(events', nodes, s, vnodes', alias')
  BY <1>3, <1>4, <1>5, <1>6, <1>10
<1>15. OwnLists(nodes, kids', alias', asked, gone)
  BY <1>4 DEF IInv
<1>16. Stages' /\ Opened'
  BY <1>3, <1>4, <1>5, <1>10 DEF Stages, Opened
<1>. QED BY <1>1, <1>3, <1>4, <1>13, <1>14, <1>15, <1>16, UserMoves

(* Before the view takes an event.                                         *)
LEMMA ViewMeets ==
    ASSUME IInv, NEW h \in Seq(SUBSET Ctx), UnderWay(h), stage = "open", events # <<>>, NEW f, f = Tail(events)
    PROVE  /\ Meets(events, f, nodes, kids, vnodes, vkids, alias, whole) /\ NoMoreRemoved(events, f)
           /\ asked = <<>> /\ nodes = h[1] /\ Begins(events, Head(events)) /\ Head(events) \in Event
           /\ Root \in alias \/ Holds(f, Msg("set", Root)) \/ Head(events) = Msg("set", Root)
<1>1. /\ asked = <<>> /\ ViewInOrder(events, nodes, kids, vnodes, vkids, alias, whole)
      /\ events \in Seq(Event) /\ kids \in Lists /\ vkids \in Lists
      /\ vnodes \in SUBSET Ctx /\ alias \in SUBSET Node
      /\ Root \in alias \/ Holds(events, Msg("set", Root))
  BY DEF IInv, TypeOK, Shapes, Lists, Stages, Opened
<1>2. /\ nodes = h[1] /\ nodes \in SUBSET Ctx /\ Closed(nodes)
      /\ \A p \in (nodes \cup {Root}) \ alias : kids[p] = KidsOf(nodes, p)
  BY <1>1, Loaded
<1>3. EventsInOrder(events, nodes, nodes, vnodes, alias)
  BY <1>2 DEF UnderWay
<1>4. PICK e : e = events
  OBVIOUS
<1>5. f \in Seq(Event) /\ e[1] = Head(e) /\ Head(e) \in Event /\ Advances(e, f)
  BY <1>1, <1>4, TailPlaces
<1>6. NoMoreRemoved(e, f) /\ (Root \in alias \/ Holds(f, Msg("set", Root)) \/ Head(e) = Msg("set", Root))
  BY <1>1, <1>4, <1>5 DEF Advances, NoMoreRemoved
<1>. QED BY <1>1, <1>2, <1>3, <1>4, <1>5, <1>6 DEF Meets, Begins

(* The lists of the view.                                                  *)
LEMMA ViewListsV ==
    ASSUME IInv
    PROVE  ViewLists(V, kids, vkids, alias)
<1>1. kids \in Lists /\ vkids \in Lists
  BY DEF IInv, TypeOK, Shapes, Lists
<1>. QED BY <1>1 DEF V, ViewLists, Lists

(* Lists that are right need no answer.                                    *)
LEMMA ExactLists ==
    ASSUME NEW n, NEW k, NEW al, NEW as, NEW go, \A p \in (n \cup {Root}) \ al : k[p] = KidsOf(n, p)
    PROVE  OwnLists(n, k, al, as, go)
  BY DEF OwnLists, KidsOf

(* The view takes an addition.                                             *)
LEMMA ViewAddsStep ==
    ASSUME IInv, ViewAdds
    PROVE  IInv'
<1>. USE DEF server
<1>1. PICK h \in Seq(SUBSET Ctx) : UnderWay(h)
  BY DEF IInv
<1>2. PICK e, f, n, k, vn, vk, al, wh, s :
        /\ e = events /\ f = Tail(events) /\ n = nodes /\ k = kids /\ vn = vnodes /\ vk = vkids
        /\ al = alias /\ wh = whole /\ s = h[1]
  OBVIOUS
<1>3. PICK x, V0, k2, vk2 : x = Head(events).ctx /\ V0 = V /\ k2 = kids' /\ vk2 = vkids'
  OBVIOUS
<1>4. PICK l : l = Grown(vn, V0, {x})
  OBVIOUS
<1>5. /\ stage = "open" /\ events # <<>> /\ Head(events).kind = "add" /\ events' = f
      /\ k2 = [p \in Node |-> IF p \in al THEN l[p] ELSE k[p]]
      /\ vk2 = [p \in Node |-> IF p \in al THEN vk[p] ELSE l[p]]
      /\ vnodes' = vn \cup {x}
      /\ UNCHANGED <<server, asked, queue, nodes, gone, added, removed, stage, alias>>
  BY <1>2, <1>3, <1>4 DEF ViewAdds, Run
<1>6. /\ Meets(e, f, n, k, vn, vk, al, wh) /\ NoMoreRemoved(e, f) /\ asked = <<>> /\ n = s
      /\ Begins(e, Head(events)) /\ Head(events) \in Event
      /\ Root \in al \/ Holds(f, Msg("set", Root)) \/ Head(events) = Msg("set", Root)
  BY <1>1, <1>2, <1>5, ViewMeets
<1>7. /\ x \in Ctx /\ Begins(e, Msg("add", x)) /\ (Root \in al \/ Holds(f, Msg("set", Root)))
  <2>1. x \in Ctx /\ Head(events) = Msg("add", x)
    BY <1>3, <1>5, <1>6 DEF Event, GivenList, Msg
  <2>2. Head(events) # Msg("set", Root)
    BY <1>5, MsgFields
  <2>. QED BY <1>6, <2>1, <2>2
<1>8. ViewLists(V0, k, vk, al)
  BY <1>2, <1>3, ViewListsV
<1>9. /\ e \in Seq(Event) /\ f \in Seq(Event) /\ Advances(e, f) /\ n \in SUBSET Ctx /\ Closed(n)
      /\ vn \in SUBSET Ctx /\ al \in SUBSET Node /\ k \in Lists /\ vk \in Lists
      /\ EventsInOrder(e, n, n, vn, al) /\ ViewInOrder(e, n, k, vn, vk, al, wh)
      /\ \A p \in (n \cup {Root}) \ al : k[p] = KidsOf(n, p)
  BY <1>6 DEF Meets
<1>10. PICK C, S, X, vm : C = {x} /\ S = {x} \ vn /\ X = vn \ al /\ vm = vn \cup {x}
  OBVIOUS
<1>11. Grows(vn, V0, C, l)
  <2>1. V0 \in Lists /\ C \in SUBSET Ctx /\ l = Grown(vn, V0, C)
    BY <1>4, <1>7, <1>8, <1>10 DEF ViewLists
  <2>. QED BY <1>9, <2>1, GrownProperties
<1>12. /\ l \in Lists
       /\ \A p \in Node : p \in S => l[p] = KidsOf(C, p)
       /\ \A p \in vn \cup {Root} : l[p] = V0[p] \cup KidsOf(S, p)
  BY <1>10, <1>11 DEF Grows
<1>13. al \subseteq (n \cap vn) \cup {Root} /\ \A p \in vn \cup {Root} : p \in Node
  BY <1>9, OtherParent DEF ViewInOrder, Shared, Node
<1>14. ListsGain(k, k2, S, al)
  <2>1. \A p \in al : p \in Node /\ p \in vn \cup {Root} /\ V0[p] = k[p] /\ k2[p] = l[p]
    BY <1>5, <1>8, <1>9, <1>13 DEF ViewLists
  <2>. QED BY <1>12, <2>1 DEF ListsGain
<1>15. ListsGain(vk, vk2, S, X)
  <2>1. \A p \in X : p \in Node /\ p \in vn \cup {Root} /\ V0[p] = vk[p] /\ vk2[p] = l[p]
    BY <1>5, <1>8, <1>10, <1>13 DEF ViewLists
  <2>. QED BY <1>12, <2>1 DEF ListsGain
<1>16. NewLists(vk2, S)
  <2>. SUFFICES ASSUME NEW c \in S PROVE vk2[c] = {}
    BY DEF NewLists
  <2>1. c = x /\ c \notin vn /\ c \in Node /\ c # Root /\ Parent[c] # c
    BY <1>7, <1>10, OtherParent
  <2>2. vk2[c] = l[c]
    BY <1>5, <1>13, <2>1
  <2>3. KidsOf(C, c) = {}
    BY <1>10, <2>1 DEF KidsOf
  <2>. QED BY <1>12, <2>1, <2>2, <2>3
<1>17. ViewInOrder(f, n, k2, vm, vk2, al, wh)
  BY <1>7, <1>9, <1>10, <1>14, <1>15, <1>16, PopAdd
<1>18. EventsInOrder(f, n, n, vm, al)
  <2>1. Brings(e, vm, al, al)
    BY <1>7, <1>10, MsgFields DEF Begins, Brings
  <2>2. vm \in SUBSET Ctx
    BY <1>7, <1>9, <1>10
  <2>. QED BY <1>9, <2>1, <2>2, PopsInOrder
<1>19. k2 \in Lists /\ vk2 \in Lists
  BY <1>5, <1>9, <1>12 DEF Lists
<1>20. OwnLists(n, k2, al, asked, gone)
  <2>1. PICK as, go : as = asked /\ go = gone
    OBVIOUS
  <2>2. \A p \in (n \cup {Root}) \ al : k2[p] = KidsOf(n, p)
    BY <1>5, <1>9, OtherParent DEF Node
  <2>3. OwnLists(n, k2, al, as, go)
    BY <2>2, ExactLists
  <2>. QED BY <2>1, <2>3
<1>21. Stages'
  BY <1>2, <1>5, <1>6, <1>7 DEF Stages
<1>22. Opened'
  BY <1>2, <1>3, <1>5, <1>10, <1>17 DEF Opened
<1>23. /\ events' \in Seq(Event) /\ NoMoreRemoved(events, events') /\ kids' \in Lists /\ vkids' \in Lists
       /\ stage' \in {"listening", "open"} /\ vnodes' \in SUBSET Ctx /\ alias' \in SUBSET Node
  BY <1>2, <1>3, <1>5, <1>6, <1>7, <1>9, <1>19
<1>24. EventsInOrder(events', nodes, s, vnodes', alias') /\ OwnLists(nodes, kids', alias', asked, gone)
  BY <1>2, <1>3, <1>5, <1>6, <1>10, <1>18, <1>20
<1>. QED BY <1>1, <1>2, <1>5, <1>21, <1>22, <1>23, <1>24, UserMoves

(* The view takes a removal.                                               *)
LEMMA ViewRemovesStep ==
    ASSUME IInv, ViewRemoves
    PROVE  IInv'
<1>. USE DEF server
<1>1. PICK h \in Seq(SUBSET Ctx) : UnderWay(h)
  BY DEF IInv
<1>2. PICK e, f, n, k, vn, vk, al, wh, s :
        /\ e = events /\ f = Tail(events) /\ n = nodes /\ k = kids /\ vn = vnodes /\ vk = vkids
        /\ al = alias /\ wh = whole /\ s = h[1]
  OBVIOUS
<1>3. PICK x, V0, k2, vk2 : x = Head(events).ctx /\ V0 = V /\ k2 = kids' /\ vk2 = vkids'
  OBVIOUS
<1>4. PICK D : D = Reach(vn, V0, {x})
  OBVIOUS
<1>5. /\ stage = "open" /\ events # <<>> /\ Head(events).kind = "remove" /\ events' = f
      /\ k2 = [p \in Node |-> IF p \in al \ D THEN k[p] \ D ELSE k[p]]
      /\ vk2 = Dropped(vk, D) /\ vnodes' = vn \ D /\ alias' = al \ D
      /\ UNCHANGED <<server, asked, queue, nodes, gone, added, removed, stage>>
  BY <1>2, <1>3, <1>4 DEF ViewRemoves, Run, Below
<1>6. /\ Meets(e, f, n, k, vn, vk, al, wh) /\ NoMoreRemoved(e, f) /\ asked = <<>> /\ n = s
      /\ Begins(e, Head(events)) /\ Head(events) \in Event
      /\ Root \in al \/ Holds(f, Msg("set", Root)) \/ Head(events) = Msg("set", Root)
  BY <1>1, <1>2, <1>5, ViewMeets
<1>7. /\ x \in Ctx /\ Begins(e, Msg("remove", x)) /\ (Root \in al \/ Holds(f, Msg("set", Root)))
  <2>1. x \in Ctx /\ Head(events) = Msg("remove", x)
    BY <1>3, <1>5, <1>6 DEF Event, GivenList, Msg
  <2>2. Head(events) # Msg("set", Root)
    BY <1>5, MsgFields
  <2>. QED BY <1>6, <2>1, <2>2
<1>8. ViewLists(V0, k, vk, al)
  BY <1>2, <1>3, ViewListsV
<1>9. /\ e \in Seq(Event) /\ f \in Seq(Event) /\ Advances(e, f) /\ n \in SUBSET Ctx /\ Closed(n)
      /\ vn \in SUBSET Ctx /\ al \in SUBSET Node /\ k \in Lists /\ vk \in Lists
      /\ EventsInOrder(e, n, n, vn, al) /\ ViewInOrder(e, n, k, vn, vk, al, wh)
      /\ \A p \in (n \cup {Root}) \ al : k[p] = KidsOf(n, p)
  BY <1>6 DEF Meets
<1>10. D \subseteq Ctx
  BY <1>4, <1>9 DEF Reach
(* Where the server tells of the topmost only, none comes back.            *)
<1>11. StaysAway(x, n, wh)
  <2>1. Holds(e, Msg("remove", x))
    BY <1>7, <1>9 DEF Begins, Holds, Advances
  <2>2. NoReturn(h, queue, e, wh, dead) /\ Len(h) = Len(queue) + 1 /\ queue \in Seq(Message)
    BY <1>1, <1>2 DEF UnderWay, History, IInv, Shapes
  <2>3. 1 \in DOMAIN h
    BY <2>2, LenProperties
  <2>4. wh => x \notin h[1]
    BY <1>7, <2>1, <2>2, <2>3 DEF NoReturn
  <2>. QED BY <1>2, <1>6, <2>4 DEF StaysAway
<1>12. vk2 \in Lists /\ ListsLose(vk, vk2, D)
  BY <1>5, <1>9, <1>10, DroppedProperties
<1>13. k2 \in Lists
  BY <1>5, <1>9 DEF Lists
<1>14. PICK l, vm : l = [p \in Node |-> k[p] \ D] /\ vm = vn \ D
  OBVIOUS
<1>15. ListsLoseIn(k, l, D, al) /\ TakenBelow(D, vn, V0, x)
  BY <1>4, <1>9, <1>14 DEF ListsLoseIn, TakenBelow
<1>16. Apart(D, al)
  BY <1>6, <1>7, <1>8, <1>11, <1>12, <1>14, <1>15, PopRemove
<1>17. ListsLoseIn(k, k2, D, al) /\ alias' = al
  BY <1>5, <1>9, <1>16 DEF ListsLoseIn, Apart
<1>18. vm \in SUBSET Ctx
  BY <1>9, <1>14
<1>19. ViewInOrder(f, n, k2, vm, vk2, al, wh)
  BY <1>6, <1>7, <1>8, <1>11, <1>12, <1>14, <1>15, <1>17, PopRemove
<1>20. EventsInOrder(f, n, n, vm, al)
  <2>1. Brings(e, vm, al, al)
    BY <1>7, MsgFields DEF Begins, Brings
  <2>. QED BY <1>9, <1>18, <2>1, PopsInOrder
<1>21. OwnLists(n, k2, al, asked, gone)
  <2>1. PICK as, go : as = asked /\ go = gone
    OBVIOUS
  <2>2. \A p \in (n \cup {Root}) \ al : k2[p] = KidsOf(n, p)
    BY <1>5, <1>9, OtherParent DEF Node
  <2>3. OwnLists(n, k2, al, as, go)
    BY <2>2, ExactLists
  <2>. QED BY <2>1, <2>3
<1>22. Stages'
  BY <1>2, <1>5, <1>6, <1>7, <1>17 DEF Stages
<1>23. Opened'
  BY <1>2, <1>3, <1>5, <1>14, <1>17, <1>19 DEF Opened
<1>24. /\ events' \in Seq(Event) /\ NoMoreRemoved(events, events') /\ kids' \in Lists /\ vkids' \in Lists
       /\ stage' \in {"listening", "open"} /\ vnodes' \in SUBSET Ctx /\ alias' \in SUBSET Node
  BY <1>2, <1>3, <1>5, <1>6, <1>9, <1>12, <1>13, <1>17
<1>25. EventsInOrder(events', nodes, s, vnodes', alias') /\ OwnLists(nodes, kids', alias', asked, gone)
  BY <1>2, <1>3, <1>5, <1>6, <1>14, <1>17, <1>20, <1>21
<1>. QED BY <1>1, <1>2, <1>5, <1>22, <1>23, <1>24, <1>25, UserMoves

(* The view takes a list.                                                  *)
LEMMA ViewSetsStep ==
    ASSUME IInv, ViewSets
    PROVE  IInv'
<1>. USE DEF server, manager
<1>1. PICK h \in Seq(SUBSET Ctx) : UnderWay(h)
  BY DEF IInv
<1>2. PICK e, f, n, k, vn, vk, al, wh, s :
        /\ e = events /\ f = Tail(events) /\ n = nodes /\ k = kids /\ vn = vnodes /\ vk = vkids
        /\ al = alias /\ wh = whole /\ s = h[1]
  OBVIOUS
<1>3. PICK q, V0, vk2, live : q = Head(events).ctx /\ V0 = V /\ vk2 = vkids' /\ live = (Head(events).kind = "set")
  OBVIOUS
<1>4. PICK m0, L, D :
        /\ m0 = Head(events) /\ L = (IF live THEN k[q] ELSE m0.list) /\ D = Reach(vn, V0, V0[q] \ L)
  OBVIOUS
<1>5. /\ stage = "open" /\ events # <<>> /\ Head(events).kind \in {"set", "setOwn"} /\ events' = f
      /\ vk2 = [Dropped(vk, D) EXCEPT ![q] = IF live THEN {} ELSE L] /\ vnodes' = vn \ D
      /\ alias' = IF live THEN (al \ D) \cup {q} ELSE al \ (D \cup {q})
      /\ UNCHANGED <<server, manager, stage>>
  BY <1>2, <1>3, <1>4 DEF ViewSets, Run, Below
<1>6. /\ Meets(e, f, n, k, vn, vk, al, wh) /\ NoMoreRemoved(e, f) /\ asked = <<>> /\ n = s
      /\ Begins(e, Head(events)) /\ Head(events) \in Event
      /\ Root \in al \/ Holds(f, Msg("set", Root)) \/ Head(events) = Msg("set", Root)
  BY <1>1, <1>2, <1>5, ViewMeets
<1>7. /\ q \in Node
      /\ live => Begins(e, Msg("set", q)) /\ (Root \in al \/ Holds(f, Msg("set", Root)) \/ q = Root)
      /\ ~live => q \in Ctx /\ L \subseteq KidsOf(Ctx, q) /\ m0.kind = "setOwn" /\ (Root \in al \/ Holds(f, Msg("set", Root)))
  <2>1. /\ q \in Node /\ (live => Head(events) = Msg("set", q))
        /\ ~live => q \in Ctx /\ L \subseteq KidsOf(Ctx, q) /\ Head(events).kind = "setOwn"
    BY <1>3, <1>4, <1>5, <1>6 DEF Event, GivenList, Msg, Node
  <2>2. ~live => Head(events) # Msg("set", Root)
    BY <2>1, MsgFields
  <2>3. live /\ Head(events) = Msg("set", Root) => q = Root
    BY <1>3, MsgFields
  <2>. QED BY <1>4, <1>6, <2>1, <2>2, <2>3
<1>8. ViewLists(V0, k, vk, al)
  BY <1>2, <1>3, ViewListsV
<1>9. /\ e \in Seq(Event) /\ f \in Seq(Event) /\ Advances(e, f) /\ n \in SUBSET Ctx /\ Closed(n)
      /\ vn \in SUBSET Ctx /\ al \in SUBSET Node /\ k \in Lists /\ vk \in Lists
      /\ EventsInOrder(e, n, n, vn, al) /\ ViewInOrder(e, n, k, vn, vk, al, wh)
      /\ \A p \in (n \cup {Root}) \ al : k[p] = KidsOf(n, p)
  BY <1>6 DEF Meets
<1>10. D \subseteq Ctx
  BY <1>4, <1>9 DEF Reach
<1>11. vk2 \in Lists /\ ListsLoseBut(vk, vk2, D, q) /\ (~live => vk2[q] = L)
  <2>1. PICK v : v = Dropped(vk, D)
    OBVIOUS
  <2>2. v \in Lists /\ ListsLose(vk, v, D)
    BY <1>9, <1>10, <2>1, DroppedProperties
  <2>3. vk2 = [v EXCEPT ![q] = IF live THEN {} ELSE L]
    BY <1>5, <2>1
  <2>4. \A p \in Node : vk2[p] = IF p = q THEN IF live THEN {} ELSE L ELSE v[p]
    BY <2>2, <2>3 DEF Lists
  <2>5. vk2 \in Lists
    BY <1>7, <2>2, <2>3, <2>4 DEF Lists, KidsOf
  <2>. QED BY <1>7, <2>2, <2>4, <2>5 DEF ListsLose, ListsLoseBut
<1>12. PICK bl, vm : bl = (IF live THEN al \cup {q} ELSE al) /\ vm = vn \ D
  OBVIOUS
<1>13. alias' = bl /\ vnodes' = vm /\ ViewInOrder(f, n, k, vm, vk2, bl, wh)
  <2>1. CASE live
    <3>1. TakenFrom(D, vn, V0, k, q)
      BY <1>4, <2>1 DEF TakenFrom
    <3>2. bl = al \cup {q} /\ Begins(e, Msg("set", q))
      BY <1>7, <1>12, <2>1
    <3>3. Apart(D, bl) /\ ViewInOrder(f, n, k, vm, vk2, bl, wh)
      BY <1>6, <1>7, <1>8, <1>11, <1>12, <3>1, <3>2, PopSet
    <3>. QED BY <1>5, <1>12, <2>1, <3>2, <3>3 DEF Apart
  <2>2. CASE ~live
    <3>1. TakenOwn(D, vn, V0, q, vk2[q])
      BY <1>4, <1>11, <2>2 DEF TakenOwn
    <3>2. q \in Ctx /\ Begins(e, m0) /\ m0.kind = "setOwn" /\ q = m0.ctx
      BY <1>3, <1>4, <1>6, <1>7, <2>2
    <3>3. Apart(D \cup {q}, al) /\ ViewInOrder(f, n, k, vm, vk2, al, wh)
      BY <1>6, <1>8, <1>11, <1>12, <3>1, <3>2, PopSetOwn
    <3>. QED BY <1>5, <1>12, <2>2, <3>3 DEF Apart
  <2>. QED BY <2>1, <2>2
<1>14. EventsInOrder(f, n, n, vm, bl)
  <2>1. Brings(e, vm, al, bl)
    <3>1. e[1].kind # "add" /\ (live => e[1].kind = "set" /\ e[1].ctx = q)
      BY <1>4, <1>6, <1>7, MsgFields DEF Begins
    <3>. QED BY <1>12, <3>1 DEF Brings
  <2>2. vm \in SUBSET Ctx /\ bl \in SUBSET Node
    BY <1>7, <1>9, <1>12
  <2>. QED BY <1>9, <2>1, <2>2, PopsInOrder
<1>15. OwnLists(n, k, bl, asked, gone)
  <2>1. PICK as, go : as = asked /\ go = gone
    OBVIOUS
  <2>2. \A p \in (n \cup {Root}) \ bl : k[p] = KidsOf(n, p)
    BY <1>9, <1>12
  <2>3. OwnLists(n, k, bl, as, go)
    BY <2>2, ExactLists
  <2>. QED BY <2>1, <2>3
<1>16. Stages'
  <2>1. Root \in bl \/ Holds(f, Msg("set", Root))
    BY <1>7, <1>12
  <2>. QED BY <1>2, <1>5, <1>6, <1>13, <2>1 DEF Stages
<1>17. Opened'
  BY <1>2, <1>3, <1>5, <1>13 DEF Opened
<1>18. /\ events' \in Seq(Event) /\ NoMoreRemoved(events, events') /\ kids' \in Lists /\ vkids' \in Lists
       /\ stage' \in {"listening", "open"} /\ vnodes' \in SUBSET Ctx /\ alias' \in SUBSET Node
  BY <1>2, <1>3, <1>5, <1>6, <1>7, <1>9, <1>11, <1>12, <1>13
<1>19. EventsInOrder(events', nodes, s, vnodes', alias') /\ OwnLists(nodes, kids', alias', asked, gone)
  BY <1>2, <1>3, <1>5, <1>6, <1>13, <1>14, <1>15
<1>. QED BY <1>1, <1>2, <1>5, <1>16, <1>17, <1>18, <1>19, UserMoves

-----------------------------------------------------------------------------
(* The invariant holds in the beginning, ...                               *)
LEMMA InitInv == Init => IInv
<1>. SUFFICES ASSUME Init PROVE IInv
  OBVIOUS
<1>1. PICK h : h = <<srv>>
  OBVIOUS
<1>2. srv \in SUBSET Ctx /\ Closed(srv)
  BY DEF Init, Closed
<1>3. h \in Seq(SUBSET Ctx) /\ Len(h) = 1 /\ h[1] = srv /\ DOMAIN h = {1}
  BY <1>1, <1>2
<1>4. /\ queue = <<>> /\ DOMAIN queue = {} /\ Len(queue) = 0 /\ events = <<>> /\ DOMAIN events = {}
      /\ asked = <<Root>> /\ ToSet(asked) = {Root} /\ nodes = {} /\ gone = {} /\ vnodes = {} /\ alias = {}
      /\ kids = [p \in Node |-> {}] /\ vkids = [p \in Node |-> {}] /\ stage = "none" /\ removed = <<>> /\ added = <<>>
  BY DEF Init, ToSet
<1>5. \A m : ~Holds(events, m)
  BY <1>4 DEF Holds
<1>6. History(h, queue, srv, asked, whole)
  BY <1>2, <1>3, <1>4 DEF History
<1>7. Loads(h[1], nodes, asked, gone)
  <2>1. \A c \in srv : Root \in Above(c) /\ Root # c
    BY <1>2, RootAbove, OtherParent
  <2>. QED BY <1>3, <1>4, <2>1 DEF Loads
<1>8. NoReturn(h, queue, events, whole, dead)
  BY <1>3, <1>4, <1>5 DEF NoReturn
<1>9. EventsInOrder(events, nodes, h[1], vnodes, alias)
  BY <1>4 DEF EventsInOrder, GoneIsTold, ReturnIsTold, ReturnInOrder, RemovalIsWhole, GivenUp, SetsFollow, SetsLast
<1>10. UnderWay(h)
  BY <1>3, <1>6, <1>7, <1>8, <1>9 DEF UnderWay
<1>11. OwnLists(nodes, kids, alias, asked, gone)
  BY <1>4 DEF OwnLists, KidsOf, Node
<1>12. TypeOK
  <2>1. srv \subseteq Ctx /\ changes \in 0 .. MaxChanges /\ whole \in BOOLEAN /\ dead \subseteq Ctx
    BY <1>2, TreeAssumption DEF Init
  <2>2. asked \in Seq(Node) /\ added \in Seq(Ctx) /\ removed \in Seq(Ctx)
    BY <1>4 DEF Node
  <2>. QED BY <1>4, <2>1, <2>2 DEF TypeOK
<1>13. Shapes
  BY <1>4 DEF Shapes
<1>14. Stages /\ Opened
  BY <1>4 DEF Stages, Opened
<1>. QED BY <1>3, <1>10, <1>11, <1>12, <1>13, <1>14 DEF IInv

(* ... in a step that changes nothing ...                                  *)
LEMMA StutterStep ==
    ASSUME IInv, UNCHANGED vars
    PROVE  IInv'
<1>1. /\ UNCHANGED <<srv, changes, whole, dead>> /\ UNCHANGED <<asked, queue, nodes, kids, gone, added, removed>>
      /\ UNCHANGED <<events, stage, vnodes, vkids, alias>>
  BY DEF vars, server, manager, view
<1>2. PICK h \in Seq(SUBSET Ctx) : UnderWay(h)
  BY DEF IInv
<1>3. UnderWay(h)'
  BY <1>1, <1>2 DEF UnderWay
<1>4. TypeOK'
  BY <1>1 DEF IInv, TypeOK
<1>5. Shapes' /\ Stages' /\ Opened' /\ OwnLists(nodes, kids, alias, asked, gone)'
  BY <1>1 DEF IInv, Shapes, Stages, Opened
<1>. QED BY <1>3, <1>4, <1>5 DEF IInv

(* ... and in each step of the system.                                     *)
LEMMA NextInv == IInv /\ [Next]_vars => IInv'
<1>. SUFFICES ASSUME IInv, [Next]_vars PROVE IInv'
  OBVIOUS
<1>1. CASE Server
  <2>1. ASSUME NEW c \in Ctx, ServerAdds(c) PROVE IInv'
    BY <2>1, ServerAddsStep
  <2>2. ASSUME NEW c \in Ctx, ServerRemoves(c) PROVE IInv'
    BY <2>2, ServerRemovesStep
  <2>3. ASSUME NEW c \in Ctx, ServerChanges(c) PROVE IInv'
    BY <2>3, ServerChangesStep
  <2>4. CASE ServerAnswers
    BY <2>4, ServerAnswersStep
  <2>. QED BY <1>1, <2>1, <2>2, <2>3, <2>4 DEF Server
<1>2. CASE Dispatch
  <2>1. CASE OnAdded
    BY <2>1, OnAddedStep
  <2>2. CASE OnKnown
    BY <2>2, OnKnownStep
  <2>3. CASE OnRemoved
    BY <2>3, OnRemovedStep
  <2>4. CASE OnChildren
    BY <2>4, OnChildrenStep, OnNoChildrenStep
  <2>5. CASE TellPosted
    BY <2>5, TellPostedStep
  <2>. QED BY <1>2, <2>1, <2>2, <2>3, <2>4, <2>5 DEF Dispatch
<1>3. CASE User
  <2>1. CASE Listen
    BY <2>1, ListenStep
  <2>2. CASE GetNodes
    BY <2>2, GetNodesStep
  <2>3. CASE ViewAdds
    BY <2>3, ViewAddsStep
  <2>4. CASE ViewRemoves
    BY <2>4, ViewRemovesStep
  <2>5. CASE ViewSets
    BY <2>5, ViewSetsStep
  <2>. QED BY <1>3, <2>1, <2>2, <2>3, <2>4, <2>5 DEF User
<1>4. CASE UNCHANGED vars
  BY <1>4, StutterStep
<1>. QED BY <1>1, <1>2, <1>3, <1>4 DEF Next

(* With nothing under way nothing excuses a difference.                    *)
LEMMA InvInStep == IInv => InStep
<1>. SUFFICES ASSUME IInv, asked = <<>>, queue = <<>>, events = <<>>
              PROVE  /\ nodes = srv
                     /\ \A p \in srv \cup {Root} : kids[p] = KidsOf(srv, p)
                     /\ stage = "open" => /\ vnodes = srv
                                          /\ \A p \in srv \cup {Root} : V[p] = KidsOf(srv, p)
  BY DEF InStep
<1>1. PICK h \in Seq(SUBSET Ctx) : UnderWay(h)
  BY DEF IInv
<1>2. /\ nodes = h[1] /\ nodes \in SUBSET Ctx /\ Closed(nodes)
      /\ \A p \in (nodes \cup {Root}) \ alias : kids[p] = KidsOf(nodes, p)
  BY <1>1, Loaded
<1>3. nodes = srv
  <2>1. Len(queue) = 0
    OBVIOUS
  <2>. QED BY <1>1, <1>2, <2>1 DEF UnderWay, History
<1>4. \A m : ~Holds(events, m)
  BY DEF Holds
<1>5. \A p \in nodes \cup {Root} : p \in Node
  BY <1>2 DEF Node
<1>6. /\ kids \in Lists /\ vkids \in Lists
      /\ stage # "open" => alias = {}
      /\ stage = "open" => Root \in alias /\ ViewInOrder(events, nodes, kids, vnodes, vkids, alias, whole)
  BY <1>4 DEF IInv, TypeOK, Shapes, Lists, Stages, Opened
<1>7. PICK e, n, k, vn, vk, al, wh :
        e = events /\ n = nodes /\ k = kids /\ vn = vnodes /\ vk = vkids /\ al = alias /\ wh = whole
  OBVIOUS
<1>8. ASSUME NEW p \in n \cup {Root} PROVE k[p] = KidsOf(n, p)
  <2>1. CASE p \notin al
    BY <1>2, <1>7, <1>8, <2>1
  <2>2. CASE p \in al
    <3>1. ViewInOrder(e, n, k, vn, vk, al, wh)
      BY <1>6, <1>7, <2>2
    <3>2. \A c \in Ctx : Parent[c] = p => (c \in n <=> c \in k[p])
      BY <1>4, <1>7, <2>2, <3>1 DEF ViewInOrder, Shared
    <3>3. k[p] \subseteq KidsOf(Ctx, p) /\ n \subseteq Ctx
      BY <1>2, <1>5, <1>6, <1>7 DEF Lists
    <3>. QED BY <3>2, <3>3 DEF KidsOf
  <2>. QED BY <2>1, <2>2
<1>9. ASSUME stage = "open" PROVE vn = n /\ \A p \in n \cup {Root} : V[p] = KidsOf(n, p)
  <2>1. Root \in al /\ ViewInOrder(e, n, k, vn, vk, al, wh) /\ vn \subseteq Ctx
    BY <1>6, <1>7, <1>9 DEF IInv, TypeOK
  <2>2. vn = n
    BY <1>2, <1>4, <1>7, <2>1 DEF ViewInOrder, ViewNodes
  <2>. SUFFICES ASSUME NEW p \in n \cup {Root} PROVE V[p] = KidsOf(n, p)
    BY <2>2
  <2>3. V[p] = IF p \in al THEN k[p] ELSE vk[p]
    BY <1>5, <1>7 DEF V
  <2>4. CASE p \in al
    BY <1>8, <2>3, <2>4
  <2>5. CASE p \notin al
    <3>1. p \in vn /\ p # Root
      BY <2>1, <2>2, <2>5
    <3>2. vk[p] \subseteq vn
      BY <1>4, <1>7, <2>1, <2>5, <3>1 DEF ViewInOrder, ListsAreNodes
    <3>3. \A c \in vn : Parent[c] = p => c \in vk[p]
      BY <1>4, <1>7, <2>1, <2>5, <3>1 DEF ViewInOrder, Listed
    <3>4. vk[p] \subseteq KidsOf(Ctx, p)
      BY <1>5, <1>6, <1>7 DEF Lists
    <3>. QED BY <2>2, <2>3, <2>5, <3>2, <3>3, <3>4 DEF KidsOf
  <2>. QED BY <2>4, <2>5
<1>. QED BY <1>3, <1>7, <1>8, <1>9

-----------------------------------------------------------------------------
(* Every variable keeps its shape, for every tree of contexts.             *)
THEOREM TypeCorrect == Spec => []TypeOK
<1>1. IInv => TypeOK
  BY DEF IInv
<1>. QED BY <1>1, InitInv, NextInv, PTL DEF Spec

(* With nothing under way the manager and the view both have the server's  *)
(* tree, for every tree of contexts and any number of changes.             *)
THEOREM TreesAgree == Spec => []InStep
<1>. QED BY InitInv, NextInv, InvInStep, PTL DEF Spec
=============================================================================

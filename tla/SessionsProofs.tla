--------------------------- MODULE SessionsProofs ---------------------------
(***************************************************************************)
(* What holds of any number of sessions that share their cs_server, in     *)
(* every interleaving with disconnect_all_sessions.                        *)
(***************************************************************************)
EXTENDS Sessions, FiniteSetTheorems, TLAPS

(* The table has an entry as long as its count is positive.                *)
EntryCounts == server = 0 <=> count = 0

Typed == TypeOK /\ EntryCounts

Balance == InUseIsOpen /\ CountIsUsers /\ OpenIsCounted

-----------------------------------------------------------------------------
LEMMA UsersFinite ==
    ASSUME TypeOK
    PROVE  IsFiniteSet(Users) /\ Cardinality(Users) \in Nat
<1>1. Users \subseteq Session
  BY DEF Users
<1> QED
  BY <1>1, SessionAssumption, FS_Subset, FS_CardinalityType

(* A thread's move keeps the type of pc.                                   *)
LEMMA GotoType ==
    ASSUME TypeOK, NEW a \in Agent, NEW l \in Label, Goto(a, l)
    PROVE  pc' \in [Agent -> Label]
BY DEF TypeOK, Goto

LEMMA LeaveType ==
    ASSUME TypeOK, NEW a \in Agent, Leave(a)
    PROVE  pc' \in [Agent -> Label]
<1>1. "next" \in Label /\ "idle" \in Label
  BY DEF Label
<1> QED
  BY <1>1, GotoType DEF Leave

LEMMA InitType == Init => TypeOK
<1> SUFFICES ASSUME Init PROVE TypeOK
  OBVIOUS
<1>1. /\ hw \in [Session -> BOOLEAN] /\ need \in [Session -> BOOLEAN]
      /\ torn \in BOOLEAN
  BY Zenon DEF Init
<1>2. /\ cs \in [Session -> 0 .. MaxServers] /\ server \in 0 .. MaxServers
      /\ known \in [Session -> {"none", "all", "left"}] /\ listening \in [Session -> {"none", "some", "all"}]
  BY SessionAssumption DEF Init
<1>3. pc \in [Agent -> Label] /\ target \in [Agent -> Session] /\ \A s \in Session : target[s] = s
  BY DEF Init, Label
<1>4. /\ listed \subseteq Session /\ count \in Nat /\ open \subseteq Server /\ leaked \in Nat
      /\ todo \subseteq Session /\ closes \in Nat
  BY DEF Init
<1> QED
  BY <1>1, <1>2, <1>3, <1>4 DEF TypeOK

LEMMA ConnectType ==
    ASSUME TypeOK, NEW s \in Session, Connect(s) \/ Devices(s) \/ NodeCallback(s)
    PROVE  TypeOK'
<1>1. s \in Agent /\ Label = {"idle", "cs", "add", "check", "scan", "store", "drop", "dropCs", "dropHw", "unlist", "next"}
  BY DEF Agent, Label
<1>2. CASE ConnectHw(s)
  <2>1. pc' \in [Agent -> Label]
    BY <1>1, <1>2, GotoType DEF ConnectHw
  <2> QED
    BY <1>2, <2>1 DEF TypeOK, ConnectHw, cache, table, closing
<1>3. CASE ConnectCs(s)
  <2>1. pc' \in [Agent -> Label]
    BY <1>1, <1>3, GotoType DEF ConnectCs
  <2>2. CASE UNCHANGED <<cs, table>>
    BY <1>3, <2>1, <2>2 DEF TypeOK, ConnectCs, cache, table, closing
  <2>3. ASSUME NEW k \in Usable(s), cs[s] = 0, server' = k, count' = Counted(s), open' = open \cup {k},
               \/ cs' = [cs EXCEPT ![s] = k] /\ UNCHANGED leaked
               \/ leaked' = leaked + 1 /\ UNCHANGED cs
        PROVE  TypeOK'
    <3>1. k \in Server
      BY <2>3, SessionAssumption DEF Usable, Fresh, TypeOK, Server
    <3>2. k \in 0 .. MaxServers /\ open' \subseteq Server /\ count' \in Nat
      BY <2>3, <3>1, SessionAssumption DEF TypeOK, Server, Counted
    <3>3. cs' \in [Session -> 0 .. MaxServers] /\ leaked' \in Nat
      BY <2>3, <3>2 DEF TypeOK
    <3> QED
      BY <1>3, <2>1, <2>3, <3>2, <3>3 DEF TypeOK, ConnectCs, cache, closing
  <2> QED
    BY <1>3, <2>2, <2>3 DEF ConnectCs
<1>4. CASE AddConnection(s)
  <2>1. pc' \in [Agent -> Label]
    BY <1>1, <1>4, GotoType DEF AddConnection
  <2> QED
    BY <1>4, <2>1 DEF TypeOK, AddConnection, links, cache, table, closing
<1>5. CASE CheckVersion(s)
  <2>1. pc' \in [Agent -> Label]
    BY <1>1, <1>5, GotoType DEF CheckVersion, Raised
  <2> QED
    BY <1>5, <2>1 DEF TypeOK, CheckVersion, cache, table, closing
<1>6. CASE ScanDevices(s)
  <2>1. pc' \in [Agent -> Label]
    BY <1>1, <1>6, GotoType DEF ScanDevices, Raised
  <2> QED
    BY <1>6, <2>1 DEF TypeOK, ScanDevices, links, cache, table, closing
<1>7. CASE Devices(s)
  <2>1. pc' \in [Agent -> Label]
    BY <1>1, <1>7, GotoType DEF Devices
  <2> QED
    BY <1>7, <2>1 DEF TypeOK, Devices, links, cache, table, closing
<1>8. CASE StoreDevices(s)
  <2>1. pc' \in [Agent -> Label]
    BY <1>1, <1>8, GotoType DEF StoreDevices
  <2> QED
    BY <1>8, <2>1 DEF TypeOK, StoreDevices, links, table, closing
<1>9. CASE NodeCallback(s)
  BY <1>9 DEF TypeOK, NodeCallback, links, table, closing
<1> QED
  BY <1>2, <1>3, <1>4, <1>5, <1>6, <1>7, <1>8, <1>9 DEF Connect

LEMMA DisconnectType ==
    ASSUME Typed, NEW a \in Agent, Disconnect(a)
    PROVE  TypeOK'
<1> USE DEF Typed
<1>1. /\ target[a] \in Session
      /\ Label = {"idle", "cs", "add", "check", "scan", "store", "drop", "dropCs", "dropHw", "unlist", "next"}
  BY DEF Label, TypeOK
<1>2. CASE DropListeners(a)
  <2>1. pc' \in [Agent -> Label]
    BY <1>1, <1>2, GotoType, LeaveType DEF DropListeners
  <2> QED
    BY <1>1, <1>2, <2>1 DEF TypeOK, DropListeners, cache, table, closing
<1>3. CASE DropCs(a)
  <2>1. pc' \in [Agent -> Label]
    BY <1>1, <1>3, GotoType, LeaveType DEF DropCs
  <2>2. CASE UNCHANGED <<cs, table>>
    BY <1>3, <2>1, <2>2 DEF TypeOK, DropCs, cache, table, closing
  <2>3. CASE /\ cs' = [cs EXCEPT ![target[a]] = 0] /\ server # 0 /\ UNCHANGED leaked
             /\ IF LastUser(target[a])
                   THEN count' = 0 /\ server' = 0 /\ open' = open \ {server}
                   ELSE count' = count - 1 /\ UNCHANGED <<server, open>>
    <3>1. cs' \in [Session -> 0 .. MaxServers] /\ server' \in 0 .. MaxServers /\ open' \subseteq Server
      BY <2>3, SessionAssumption DEF TypeOK
    <3>2. count' \in Nat
      BY <2>3 DEF TypeOK, EntryCounts
    <3> QED
      BY <1>3, <2>1, <2>3, <3>1, <3>2 DEF TypeOK, DropCs, cache, closing
  <2> QED
    BY <1>3, <2>2, <2>3 DEF DropCs
<1>4. CASE DropHw(a)
  <2>1. pc' \in [Agent -> Label]
    BY <1>1, <1>4, GotoType DEF DropHw
  <2> QED
    BY <1>1, <1>4, <2>1 DEF TypeOK, DropHw, cache, table, closing
<1>5. CASE RemoveConnection(a)
  <2>1. pc' \in [Agent -> Label]
    BY <1>1, <1>5, LeaveType DEF RemoveConnection
  <2> QED
    BY <1>1, <1>5, <2>1 DEF TypeOK, RemoveConnection, links, cache, table, closing
<1> QED
  BY <1>2, <1>3, <1>4, <1>5 DEF Disconnect

LEMMA CloseType ==
    ASSUME TypeOK, DisconnectAll \/ DisconnectNext \/ ClearTables
    PROVE  TypeOK'
<1>1. /\ Closer \in Agent
      /\ Label = {"idle", "cs", "add", "check", "scan", "store", "drop", "dropCs", "dropHw", "unlist", "next"}
  BY DEF Label, Agent
<1>2. pc' \in [Agent -> Label]
  BY <1>1, GotoType DEF DisconnectAll, DisconnectNext, ClearTables
<1>3. CASE DisconnectAll
  BY <1>2, <1>3 DEF TypeOK, DisconnectAll, links, cache, table
<1>4. CASE DisconnectNext
  <2>1. target' \in [Agent -> Session] /\ \A s \in Session : target'[s] = s
    BY <1>1, <1>4, SessionAssumption DEF TypeOK, DisconnectNext, Agent
  <2> QED
    BY <1>2, <1>4, <2>1 DEF TypeOK, DisconnectNext, links, cache, table
<1>5. CASE ClearTables
  <2>1. torn' \in BOOLEAN
    BY <1>5, Zenon DEF TypeOK, ClearTables
  <2>2. server' \in 0 .. MaxServers /\ count' \in Nat
    BY <1>5, SessionAssumption DEF ClearTables
  <2> QED
    BY <1>2, <1>5, <2>1, <2>2 DEF TypeOK, ClearTables, links, cache, closing
<1> QED
  BY <1>3, <1>4, <1>5

LEMMA EntryStep == Typed /\ [Next]_vars => EntryCounts'
<1> SUFFICES ASSUME Typed, [Next]_vars PROVE EntryCounts'
  OBVIOUS
<1> USE DEF Typed
<1>1. ASSUME NEW s \in Session, ConnectCs(s) PROVE EntryCounts'
  <2>1. CASE UNCHANGED table
    BY <2>1 DEF EntryCounts, table
  <2>2. ASSUME NEW k \in Usable(s), server' = k, count' = Counted(s) PROVE EntryCounts'
    BY <2>2, SessionAssumption DEF EntryCounts, Usable, Fresh, Counted, TypeOK, Server
  <2> QED
    BY <1>1, <2>1, <2>2 DEF ConnectCs
<1>2. ASSUME NEW a \in Agent, DropCs(a) PROVE EntryCounts'
  BY <1>2 DEF DropCs, EntryCounts, table, LastUser, TypeOK
<1>3. CASE ClearTables
  BY <1>3 DEF ClearTables, EntryCounts
<1>4. CASE UNCHANGED <<server, count>>
  BY <1>4 DEF EntryCounts
<1>5. ASSUME NEW s \in Session,
             \/ ConnectHw(s) \/ AddConnection(s) \/ CheckVersion(s) \/ ScanDevices(s)
             \/ StoreDevices(s) \/ Devices(s) \/ NodeCallback(s)
      PROVE  UNCHANGED <<server, count>>
  BY <1>5 DEF ConnectHw, AddConnection, CheckVersion, ScanDevices, StoreDevices, Devices, NodeCallback, table
<1>6. ASSUME NEW a \in Agent, DropListeners(a) \/ DropHw(a) \/ RemoveConnection(a)
      PROVE  UNCHANGED <<server, count>>
  BY <1>6 DEF DropListeners, DropHw, RemoveConnection, table
<1>7. CASE DisconnectAll \/ DisconnectNext \/ UNCHANGED vars
  BY <1>4, <1>7 DEF DisconnectAll, DisconnectNext, table, vars
<1> QED
  BY <1>1, <1>2, <1>3, <1>4, <1>5, <1>6, <1>7 DEF Next, Connect, Disconnect

LEMMA TypedHolds == Spec => []Typed
<1>1. Init => Typed
  BY InitType DEF Typed, Init, EntryCounts
<1>2. Typed /\ [Next]_vars => Typed'
  <2> SUFFICES ASSUME Typed, [Next]_vars PROVE Typed'
    OBVIOUS
  <2>1. CASE UNCHANGED vars
    BY <2>1 DEF Typed, TypeOK, EntryCounts, vars, links, cache, table, closing
  <2>2. CASE Next
    <3>1. TypeOK'
      BY <2>2, ConnectType, DisconnectType, CloseType DEF Next, Typed
    <3> QED
      BY <3>1, EntryStep DEF Typed
  <2> QED
    BY <2>1, <2>2
<1> QED
  BY <1>1, <1>2, PTL DEF Spec

(* The two tables and the sessions' fields keep their types                *)
(* (session.py:54-99).                                                     *)
THEOREM TypeCorrect == Spec => []TypeOK
BY TypedHolds, PTL DEF Typed

-----------------------------------------------------------------------------
(* Joining and leaving change the number of users by one.                  *)
LEMMA UserJoins ==
    ASSUME TypeOK, NEW s \in Session, NEW k \in Server, cs[s] = 0, cs' = [cs EXCEPT ![s] = k]
    PROVE  /\ Users' = Users \cup {s}
           /\ Cardinality(Users') = Cardinality(Users) + 1
<1>1. k # 0
  BY SessionAssumption DEF Server
<1>2. Users' = Users \cup {s} /\ s \notin Users
  BY <1>1 DEF Users, TypeOK
<1> QED
  BY <1>2, UsersFinite, FS_AddElement

LEMMA UserLeaves ==
    ASSUME TypeOK, NEW s \in Session, cs[s] # 0, cs' = [cs EXCEPT ![s] = 0]
    PROVE  /\ Users' = Users \ {s}
           /\ Cardinality(Users') = Cardinality(Users) - 1
           /\ Cardinality(Users) > 0
<1>1. Users' = Users \ {s} /\ s \in Users
  BY DEF Users, TypeOK
<1>2. Cardinality(Users) # 0
  BY <1>1, UsersFinite, FS_EmptySet
<1>3. IsFiniteSet(Users) /\ Cardinality(Users) \in Nat
  BY UsersFinite
<1>4. Cardinality(Users \ {s}) = Cardinality(Users) - 1
  BY <1>1, <1>3, FS_RemoveElement
<1>5. Cardinality(Users') = Cardinality(Users) - 1
  BY <1>1, <1>4, Zenon
<1> QED
  BY <1>1, <1>2, <1>3, <1>5

LEMMA NoUsers ==
    ASSUME TypeOK, Cardinality(Users) = 0
    PROVE  Users = {}
BY UsersFinite, FS_EmptySet

LEMMA ConnectCsBalance ==
    ASSUME Sharing = Session, Typed, Balance, NEW s \in Session, ConnectCs(s)
    PROVE  Balance'
<1> USE DEF Typed
<1>1. torn' = torn
  BY DEF ConnectCs
<1>2. CASE UNCHANGED <<cs, table>>
  BY <1>1, <1>2 DEF Balance, InUseIsOpen, CountIsUsers, OpenIsCounted, Users, table
<1>3. ASSUME NEW k \in Usable(s), cs[s] = 0, server' = k, count' = Counted(s), open' = open \cup {k},
             \/ cs' = [cs EXCEPT ![s] = k] /\ UNCHANGED leaked
             \/ leaked' = leaked + 1 /\ UNCHANGED cs
      PROVE  Balance'
  <2> SUFFICES ASSUME ~torn PROVE Balance'
    BY <1>1 DEF Balance, InUseIsOpen, CountIsUsers, OpenIsCounted
  <2>1. /\ count = Cardinality(Users) + leaked /\ \A u \in Users : cs[u] = server
        /\ open = {server} \ {0} /\ leaked \in Nat /\ Cardinality(Users) \in Nat
    BY UsersFinite DEF Balance, CountIsUsers, OpenIsCounted, TypeOK
  <2>2. k \in Server /\ k # 0
    BY SessionAssumption DEF Usable, Fresh, TypeOK, Server
  <2>3. /\ \A u \in Users : cs[u] = k
        /\ count' = Cardinality(Users) + leaked + 1 /\ open' = {k}
    <3>1. CASE server = 0
      <4>1. count = 0 /\ count' = 1
        BY <1>3, <3>1 DEF EntryCounts, Counted
      <4>2. Cardinality(Users) = 0 /\ leaked = 0
        BY <2>1, <4>1
      <4> QED
        BY <1>3, <2>1, <2>2, <3>1, <4>1, <4>2, NoUsers
    <3>2. CASE server # 0
      <4>1. k = server /\ count' = count + 1
        BY <1>3, <3>2 DEF Usable, Counted
      <4> QED
        BY <1>3, <2>1, <2>2, <4>1
    <3> QED
      BY <3>1, <3>2
  <2>4. CASE cs' = [cs EXCEPT ![s] = k] /\ UNCHANGED leaked
    <3>1. Users' = Users \cup {s} /\ Cardinality(Users') = Cardinality(Users) + 1
      BY <1>3, <2>2, <2>4, UserJoins
    <3>2. \A u \in Users' : cs'[u] = k
      BY <2>3, <2>4, <3>1 DEF TypeOK, Users
    <3>3. count' = Cardinality(Users') + leaked'
      BY <2>1, <2>3, <2>4, <3>1
    <3> QED
      BY <1>3, <2>2, <2>3, <3>2, <3>3 DEF Balance, InUseIsOpen, CountIsUsers, OpenIsCounted
  <2>5. CASE leaked' = leaked + 1 /\ UNCHANGED cs
    <3>1. Users' = Users /\ count' = Cardinality(Users) + leaked'
      BY <2>1, <2>3, <2>5 DEF Users
    <3> QED
      BY <1>3, <2>2, <2>3, <2>5, <3>1 DEF Balance, InUseIsOpen, CountIsUsers, OpenIsCounted
  <2> QED
    BY <1>3, <2>4, <2>5
<1> QED
  BY <1>2, <1>3 DEF ConnectCs

LEMMA DropCsBalance ==
    ASSUME Sharing = Session, Typed, Balance, NEW a \in Agent, DropCs(a)
    PROVE  Balance'
<1> USE DEF Typed
<1> DEFINE s == target[a]
<1>1. torn' = torn /\ s \in Session
  BY DEF DropCs, TypeOK
<1>2. CASE UNCHANGED <<cs, table>>
  BY <1>1, <1>2 DEF Balance, InUseIsOpen, CountIsUsers, OpenIsCounted, Users, table
<1>3. CASE /\ cs[s] # 0 /\ server # 0 /\ cs' = [cs EXCEPT ![s] = 0] /\ UNCHANGED leaked
           /\ IF LastUser(s)
                 THEN count' = 0 /\ server' = 0 /\ open' = open \ {server}
                 ELSE count' = count - 1 /\ UNCHANGED <<server, open>>
  <2> SUFFICES ASSUME ~torn PROVE Balance'
    BY <1>1 DEF Balance, InUseIsOpen, CountIsUsers, OpenIsCounted
  <2>1. /\ count = Cardinality(Users) + leaked /\ \A u \in Users : cs[u] = server
        /\ open = {server} \ {0} /\ leaked \in Nat /\ Cardinality(Users) \in Nat
    BY UsersFinite DEF Balance, CountIsUsers, OpenIsCounted, TypeOK
  <2>2. /\ Users' = Users \ {s} /\ Cardinality(Users') = Cardinality(Users) - 1
        /\ Cardinality(Users) > 0
    BY <1>1, <1>3, UserLeaves
  <2>3. \A u \in Users' : cs'[u] = server
    BY <1>1, <1>3, <2>1, <2>2 DEF TypeOK
  <2>4. CASE count = 1
    <3>1. leaked = 0 /\ Cardinality(Users) = 1
      BY <2>1, <2>2, <2>4
    <3>2. Users' = {}
      <4>1. IsFiniteSet(Users') /\ Cardinality(Users') = 0
        BY <2>2, <3>1, UsersFinite, FS_Subset
      <4> QED
        BY <4>1, FS_EmptySet
    <3>3. count' = 0 /\ server' = 0 /\ open' = {} /\ leaked' = 0
      BY <1>3, <2>1, <2>4, <3>1 DEF LastUser
    <3> QED
      BY <2>2, <3>1, <3>2, <3>3 DEF Balance, InUseIsOpen, CountIsUsers, OpenIsCounted
  <2>5. CASE count # 1
    <3>1. count' = count - 1 /\ server' = server /\ open' = open /\ leaked' = leaked
      BY <1>1, <1>3, <2>5 DEF LastUser
    <3>2. count' = Cardinality(Users') + leaked'
      BY <2>1, <2>2, <3>1
    <3> QED
      BY <1>3, <2>1, <2>3, <3>1, <3>2 DEF Balance, InUseIsOpen, CountIsUsers, OpenIsCounted
  <2> QED
    BY <2>4, <2>5
<1> QED
  BY <1>2, <1>3 DEF DropCs

LEMMA ClearBalance ==
    ASSUME Typed, Balance, ClearTables
    PROVE  Balance'
<1> USE DEF Typed
<1> SUFFICES ASSUME ~torn' PROVE Balance'
  BY DEF Balance, InUseIsOpen, CountIsUsers, OpenIsCounted
<1>1. ~torn /\ open = {} /\ open' = {} /\ count' = 0 /\ server' = 0 /\ leaked' = leaked /\ cs' = cs
  BY DEF ClearTables, links
<1>2. server = 0 /\ count = 0
  BY <1>1 DEF Balance, OpenIsCounted, EntryCounts, TypeOK
<1>3. Cardinality(Users) = 0 /\ leaked = 0
  BY <1>1, <1>2, UsersFinite DEF Balance, CountIsUsers, TypeOK
<1>4. Users' = {} /\ Cardinality(Users') = 0
  BY <1>1, <1>3, NoUsers DEF Users
<1> QED
  BY <1>1, <1>3, <1>4 DEF Balance, InUseIsOpen, CountIsUsers, OpenIsCounted

(* The other steps touch neither the table nor any cs_server.              *)
LEMMA OthersBalance ==
    ASSUME Balance, UNCHANGED <<cs, table, torn>>
    PROVE  Balance'
BY DEF Balance, InUseIsOpen, CountIsUsers, OpenIsCounted, Users, table

LEMMA BalanceHolds == Sharing = Session => (Spec => []Balance)
<1> SUFFICES ASSUME Sharing = Session PROVE Spec => []Balance
  OBVIOUS
<1>1. Init => Balance
  <2> SUFFICES ASSUME Init PROVE Balance
    OBVIOUS
  <2>1. Users = {} /\ Cardinality(Users) = 0
    BY FS_EmptySet DEF Init, Users
  <2> QED
    BY <2>1 DEF Init, Balance, InUseIsOpen, CountIsUsers, OpenIsCounted
<1>2. Typed /\ Balance /\ [Next]_vars => Balance'
  <2> SUFFICES ASSUME Typed, Balance, [Next]_vars PROVE Balance'
    OBVIOUS
  <2>1. ASSUME NEW s \in Session, ConnectCs(s) PROVE Balance'
    BY <2>1, ConnectCsBalance
  <2>2. ASSUME NEW a \in Agent, DropCs(a) PROVE Balance'
    BY <2>2, DropCsBalance
  <2>3. CASE ClearTables
    BY <2>3, ClearBalance
  <2>4. ASSUME NEW s \in Session,
               \/ ConnectHw(s) \/ AddConnection(s) \/ CheckVersion(s) \/ ScanDevices(s)
             \/ StoreDevices(s) \/ Devices(s) \/ NodeCallback(s)
        PROVE  Balance'
    BY <2>4, OthersBalance
       DEF ConnectHw, AddConnection, CheckVersion, ScanDevices, StoreDevices, Devices, NodeCallback, table, links
  <2>5. ASSUME NEW a \in Agent, DropListeners(a) \/ DropHw(a) \/ RemoveConnection(a) PROVE Balance'
    BY <2>5, OthersBalance DEF DropListeners, DropHw, RemoveConnection, table, links
  <2>6. CASE DisconnectAll \/ DisconnectNext \/ UNCHANGED vars
    BY <2>6, OthersBalance DEF DisconnectAll, DisconnectNext, vars, table, links
  <2> QED
    BY <2>1, <2>2, <2>3, <2>4, <2>5, <2>6 DEF Next, Connect, Disconnect
<1> QED
  BY <1>1, <1>2, TypedHolds, PTL DEF Spec

(* With sharing, nobody closes a connection under a session that uses it   *)
(* (session.py:263-275).                                                   *)
THEOREM NobodyIsCutOff == Sharing = Session => (Spec => []InUseIsOpen)
BY BalanceHolds, PTL DEF Balance

(* The reference count is exact, but for failures of connect_remote        *)
(* (session.py:240-248).                                                   *)
THEOREM CountIsExact == Sharing = Session => (Spec => []CountIsUsers)
BY BalanceHolds, PTL DEF Balance

(* No connection outlives its entry in the table (session.py:269-272).     *)
THEOREM NothingStaysOpen == Sharing = Session => (Spec => []OpenIsCounted)
BY BalanceHolds, PTL DEF Balance
=============================================================================

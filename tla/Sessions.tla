------------------------------ MODULE Sessions ------------------------------
(***************************************************************************)
(* Sessions that share one connection to a cs_server by reference count    *)
(* (src/chipscopy/api/session.py).                                         *)
(*                                                                         *)
(* Each session is used by a thread of its own; disconnect_all_sessions    *)
(* runs on one more.  All sessions name the same cs_server.  A step under  *)
(* _session_lock is one action, except that disconnect_all_sessions holds  *)
(* the lock over all its steps: the others wait while it is at work.  Any  *)
(* connection may be refused and any remote command may fail.              *)
(***************************************************************************)
EXTENDS Integers, FiniteSets

CONSTANTS
    Session,    \* the sessions
    Sharing,    \* those created with cs_server_sharing
    Closer,     \* the thread of disconnect_all_sessions
    MaxServers, \* bound on the connections to the cs_server at a time
    MaxLeaks,   \* bound on the failures of connect_remote
    MaxCloses   \* bound on the calls of disconnect_all_sessions

ASSUME SessionAssumption ==
    /\ IsFiniteSet(Session) /\ Sharing \subseteq Session /\ Closer \notin Session
    /\ MaxServers \in Nat /\ MaxLeaks \in Nat /\ MaxCloses \in Nat

VARIABLES
    hw,        \* hw_server of each session is set
    cs,        \* cs_server of each session, 0 for None
    listening, \* its node listener: with "none", "some" or "all" of the views
    need,      \* _need_to_scan_devices
    known,     \* history: a list of devices was stored, and one left since
    listed,    \* keys of _connected_session_dict
    count,     \* the count of the entry of the cs_server's address ...
    server,    \* ... and its connection, 0 when there is no entry
    open,      \* the connections to the cs_server that are open
    leaked,    \* history: counts that connect_remote failed to make good
    torn,      \* history: the table was cleared with a connection open
    pc,        \* what each thread does
    target,    \* the session a disconnect of each thread is about
    todo,      \* sessions disconnect_all_sessions has left
    closes     \* calls of it so far

links == <<hw, cs, listening>>
cache == <<need, known>>
table == <<count, server, open, leaked>>
closing == <<todo, closes>>
vars == <<links, cache, listed, table, torn, pc, target, closing>>

Agent == Session \cup {Closer}
Server == 1 .. MaxServers
Label == {"idle", "cs", "add", "check", "scan", "store", "drop", "dropCs", "dropHw", "unlist", "next"}

Users == {s \in Session : cs[s] # 0}

Init ==
    /\ hw = [s \in Session |-> FALSE] /\ cs = [s \in Session |-> 0]
    /\ listening = [s \in Session |-> "none"]
    /\ need = [s \in Session |-> TRUE] /\ known = [s \in Session |-> "none"]
    /\ listed = {} /\ count = 0 /\ server = 0 /\ open = {} /\ leaked = 0 /\ torn = FALSE
    /\ pc = [a \in Agent |-> "idle"] /\ target \in [Agent -> Session]
    /\ \A s \in Session : target[s] = s
    /\ todo = {} /\ closes = 0

-----------------------------------------------------------------------------
(* The thread may take _session_lock, for one step or held by itself.      *)
Lock(a) == a = Closer \/ pc[Closer] = "idle"

Goto(a, l) == pc' = [pc EXCEPT ![a] = l]

(* Faulty: the exception is waited for again.                              *)
LeaveStays(a) == Goto(a, pc[a])

(* A disconnect ends or raises; disconnect_all_sessions goes on anyway.    *)
Leave(a) == Goto(a, IF a = Closer THEN "next" ELSE "idle")

(* connect of a session without a hw_server; with one it raises at once.   *)
ConnectHw(s) ==
    /\ pc[s] = "idle" /\ ~hw[s]
    /\ hw' = [hw EXCEPT ![s] = TRUE]
    /\ Goto(s, "cs")
    /\ UNCHANGED <<cs, listening, cache, listed, table, torn, target, closing>>

Fresh == Server \ (open \cup {server} \cup {cs[s] : s \in Session})

(* Faulty: every session opens a connection of its own.                    *)
UsableAlways(s) == Fresh

(* The connection a session gets: the shared one, or a new one.            *)
Usable(s) == IF server = 0 \/ s \notin Sharing THEN Fresh ELSE {server}

(* Faulty: the first session counts for nothing.                           *)
CountedLate(s) == IF server = 0 \/ s \notin Sharing THEN 0 ELSE count + 1

(* The count once this session has joined.                                 *)
Counted(s) == IF server = 0 \/ s \notin Sharing THEN 1 ELSE count + 1

(* connect_cs_server, with the count raised before connect_remote.         *)
ConnectCs(s) ==
    /\ pc[s] = "cs" /\ Lock(s)
    /\ \/ Goto(s, "idle") /\ UNCHANGED <<cs, table>>  \* connected already, unknown host, refused
       \/ \E k \in Usable(s) :
            /\ cs[s] = 0 /\ server' = k /\ count' = Counted(s) /\ open' = open \cup {k}
            /\ \/ cs' = [cs EXCEPT ![s] = k] /\ Goto(s, "add") /\ UNCHANGED leaked
               \/ /\ leaked < MaxLeaks               \* connect_remote fails
                  /\ leaked' = leaked + 1 /\ Goto(s, "idle") /\ UNCHANGED cs
    /\ UNCHANGED <<hw, listening, cache, listed, torn, target, closing>>

AddConnection(s) ==
    /\ pc[s] = "add" /\ Lock(s)
    /\ listed' = listed \cup {s}
    /\ Goto(s, "check")
    /\ UNCHANGED <<links, cache, table, torn, target, closing>>

(* A RuntimeError starts a disconnect; another exception is passed on.     *)
Raised(s) == Goto(s, "drop") \/ Goto(s, "idle")

(* The version check and, view by view, the listeners behind it.           *)
CheckVersion(s) ==
    /\ pc[s] = "check"
    /\ \/ Raised(s) /\ UNCHANGED listening
       \/ /\ hw[s] /\ Raised(s)
          /\ listening' = [listening EXCEPT ![s] = "some"]
       \/ /\ listening' = [listening EXCEPT ![s] = IF hw[s] THEN "all" ELSE "none"]
          /\ Goto(s, "scan") \/ Goto(s, "idle")      \* initial_device_scan or not
    /\ UNCHANGED <<hw, cs, cache, listed, table, torn, target, closing>>

(* The discovery of scan_devices at the end of connect, ...                *)
ScanDevices(s) ==
    /\ pc[s] = "scan"
    /\ Raised(s) \/ Goto(s, "store")
    /\ UNCHANGED <<links, cache, listed, table, torn, target, closing>>

(* ... or for the property devices of a connected session, ...             *)
Devices(s) ==
    /\ pc[s] = "idle" /\ hw[s] /\ need[s]
    /\ Goto(s, "store")
    /\ UNCHANGED <<links, cache, listed, table, torn, target, closing>>

(* ... and _set_device_with_lock with what it found.                       *)
StoreDevices(s) ==
    /\ pc[s] = "store"
    /\ need' = [need EXCEPT ![s] = FALSE] /\ known' = [known EXCEPT ![s] = "all"]
    /\ Goto(s, "idle")
    /\ UNCHANGED <<links, listed, table, torn, target, closing>>

(* node_callback, by whichever thread runs the events of the view.  A      *)
(* device of the list that left is invalid and asks for a scan, but        *)
(* _set_device_with_lock takes that back.                                  *)
NodeCallback(s) ==
    /\ listening[s] # "none"
    /\ \/ UNCHANGED known
       \/ known[s] = "all" /\ known' = [known EXCEPT ![s] = "left"]
    /\ need' = [need EXCEPT ![s] = FALSE]
    /\ UNCHANGED <<links, listed, table, torn, pc, target, closing>>

-----------------------------------------------------------------------------
(* disconnect by the session's thread, or disconnect_all_sessions.  The    *)
(* node listeners come first, in the order they were added: the first view *)
(* without one raises ValueError.                                          *)
DropListeners(a) ==
    LET s == target[a]
    IN  /\ pc[a] = "drop" \/ (a \in Session /\ pc[a] = "idle" /\ (hw[s] \/ s \in listed))
        /\ IF hw[s] /\ listening[s] # "all" THEN Leave(a) ELSE Goto(a, "dropCs")
        /\ listening' = [listening EXCEPT ![s] = "none"]
        /\ UNCHANGED <<hw, cs, cache, listed, table, torn, target, closing>>

(* Faulty: the connection is closed with another user left.                *)
LastUserEarly(s) == count <= 2 \/ s \notin Sharing

(* The count falls to 0, or the session never shared.                      *)
LastUser(s) == count = 1 \/ s \notin Sharing

(* disconnect_cs_server closes the connection of the entry.                *)
DropCs(a) ==
    LET s == target[a]
    IN  /\ pc[a] = "dropCs" /\ Lock(a)
        /\ \/ cs[s] = 0 /\ Goto(a, "dropHw") /\ UNCHANGED <<cs, table>>
           \/ cs[s] # 0 /\ Leave(a) /\ UNCHANGED <<cs, table>>  \* no entry, or disconnect_remote fails
           \/ /\ cs[s] # 0 /\ server # 0 /\ hw[s]
              /\ cs' = [cs EXCEPT ![s] = 0]
              /\ IF LastUser(s)
                   THEN count' = 0 /\ server' = 0 /\ open' = open \ {server}
                   ELSE count' = count - 1 /\ UNCHANGED <<server, open>>
              /\ Goto(a, "dropHw")
              /\ UNCHANGED leaked
        /\ UNCHANGED <<hw, listening, cache, listed, torn, target, closing>>

DropHw(a) ==
    /\ pc[a] = "dropHw"
    /\ hw' = [hw EXCEPT ![target[a]] = FALSE]
    /\ Goto(a, "unlist")
    /\ UNCHANGED <<cs, listening, cache, listed, table, torn, target, closing>>

(* _remove_connection, which raises when the session is not there.         *)
RemoveConnection(a) ==
    /\ pc[a] = "unlist" /\ Lock(a)
    /\ listed' = listed \ {target[a]}
    /\ Leave(a)
    /\ UNCHANGED <<links, cache, table, torn, target, closing>>

(* disconnect_all_sessions takes the lock and a copy of the sessions, ...  *)
DisconnectAll ==
    /\ pc[Closer] = "idle" /\ closes < MaxCloses
    /\ closes' = closes + 1 /\ todo' = listed
    /\ Goto(Closer, "next")
    /\ UNCHANGED <<links, cache, listed, table, torn, target>>

(* ... disconnects one after the other, ...                                *)
DisconnectNext ==
    /\ pc[Closer] = "next"
    /\ \E s \in todo : target' = [target EXCEPT ![Closer] = s] /\ todo' = todo \ {s}
    /\ Goto(Closer, "drop")
    /\ UNCHANGED <<links, cache, listed, table, torn, closes>>

(* ... and empties both tables, whatever failed before.                    *)
ClearTables ==
    /\ pc[Closer] = "next" /\ todo = {}
    /\ listed' = {} /\ count' = 0 /\ server' = 0
    /\ torn' = (torn \/ open # {})
    /\ Goto(Closer, "idle")
    /\ UNCHANGED <<links, cache, open, leaked, target, closing>>

Connect(s) == ConnectHw(s) \/ ConnectCs(s) \/ AddConnection(s) \/ CheckVersion(s)
              \/ ScanDevices(s) \/ StoreDevices(s)
Disconnect(a) == DropListeners(a) \/ DropCs(a) \/ DropHw(a) \/ RemoveConnection(a)

Next ==
    \/ \E s \in Session : Connect(s) \/ Devices(s) \/ NodeCallback(s)
    \/ \E a \in Agent : Disconnect(a)
    \/ DisconnectAll \/ DisconnectNext \/ ClearTables

(* A thread in a call goes on; nobody has to call, and disconnect_all is   *)
(* called finitely often, so that the lock becomes free for good.          *)
Spec ==
    /\ Init /\ [][Next]_vars
    /\ \A s \in Session : WF_vars(pc[s] # "idle" /\ (Connect(s) \/ Disconnect(s)))
    /\ WF_vars(Disconnect(Closer) \/ DisconnectNext \/ ClearTables)

-----------------------------------------------------------------------------
(* Every variable keeps its shape: the class's two tables and each         *)
(* session's fields.                                                       *)
TypeOK ==
    /\ hw \in [Session -> BOOLEAN] /\ cs \in [Session -> 0 .. MaxServers]
    /\ listening \in [Session -> {"none", "some", "all"}]
    /\ need \in [Session -> BOOLEAN] /\ known \in [Session -> {"none", "all", "left"}]
    /\ listed \subseteq Session /\ count \in Nat /\ server \in 0 .. MaxServers
    /\ open \subseteq Server /\ leaked \in Nat /\ torn \in BOOLEAN
    /\ pc \in [Agent -> Label] /\ target \in [Agent -> Session]
    /\ \A s \in Session : target[s] = s
    /\ todo \subseteq Session /\ closes \in Nat

(* A session's cs_server is open as long as the session has it, whatever   *)
(* the others disconnect (session.py:269-275), unless the table was        *)
(* cleared under its users.                                                *)
InUseIsOpen ==
    ~torn => \A s \in Users : cs[s] \in open

(* The count is that of the sessions that use the connection, and of the   *)
(* failures that were never given back (session.py:243-248).               *)
CountIsUsers ==
    ~torn => /\ count = Cardinality(Users) + leaked
             /\ \A s \in Users : cs[s] = server

(* No connection is open that the table has lost: the last user's          *)
(* disconnect closes it (session.py:269-272).                              *)
OpenIsCounted == ~torn => open = {server} \ {0}

(* connect, disconnect and disconnect_all_sessions come to an end, with    *)
(* any of their parts failing.                                             *)
CallsEnd == \A a \in Agent : pc[a] # "idle" ~> pc[a] = "idle"

(* "Anything that causes a device to be INVALID means we need to re-scan   *)
(* the devices" (session.py:149-150): the next use after a device left     *)
(* scans again.                                                            *)
RescanIsDue == \A s \in Session : known[s] = "left" => need[s]
=============================================================================

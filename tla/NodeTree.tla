------------------------------ MODULE NodeTree ------------------------------
(***************************************************************************)
(* The tree of a server's nodes in the client, twice: the manager's on the *)
(* dispatch thread (src/chipscopy/dm/__init__.py, chipscope.py) and the    *)
(* view's, which a user thread brings up to date whenever it reads         *)
(* (src/chipscopy/client/view_info.py).                                    *)
(*                                                                         *)
(* A context keeps its parent; properties are left out.  The server tells  *)
(* of its changes in one order with its answers, and a message arrives     *)
(* when it is sent.  It tells of each context it removes, leaves first, or *)
(* (whole) of the topmost only, once the tree is loaded and of contexts    *)
(* that do not come back.  A step of the user thread is one event of the   *)
(* view's queue.  A list of children is a set; those of the view are,      *)
(* after GetNodes, the very lists of the manager (alias).                  *)
(***************************************************************************)
EXTENDS Integers, FiniteSets, Sequences, SequencesExt

CONSTANTS
    Ctx,        \* contexts
    Root,       \* the manager itself, "" in the code
    Parent,     \* the parent of each context
    MaxChanges  \* bound on the events of the server

ASSUME TreeAssumption ==
    /\ IsFiniteSet(Ctx) /\ Root \notin Ctx /\ Parent \in [Ctx -> Ctx \cup {Root}]
    /\ \A S \in SUBSET Ctx : S # {} => \E c \in S : Parent[c] \notin S
    /\ MaxChanges \in Nat

VARIABLES
    srv, changes,   \* the server's contexts, events so far
    whole, dead,    \* how it tells of removals, what it removed
    asked,          \* get_children under way, in order
    queue,          \* messages and jobs of the dispatch thread
    nodes, kids,    \* _nodes of the manager, children of each
    gone,           \* nodes removed with a get_children under way
    added, removed, \* _added_nodes, _removed_nodes
    events,         \* event_queue of the view
    stage,          \* the view: "none", "listening" or "open"
    vnodes, vkids,  \* _nodes of the view, children of each unless ...
    alias           \* ... the list is the manager's

server == <<srv, changes, whole, dead>>
manager == <<asked, queue, nodes, kids, gone, added, removed>>
view == <<stage, vnodes, vkids, alias>>
vars == <<server, manager, events, view>>

Node == Ctx \cup {Root}
KidsOf(S, p) == {c \in S : Parent[c] = p}

Init ==
    /\ srv \in {S \in SUBSET Ctx : \A c \in S : Parent[c] \in S \cup {Root}} /\ changes = 0
    /\ whole \in BOOLEAN /\ dead = {}
    /\ asked = <<Root>> /\ queue = <<>> /\ gone = {}
    /\ nodes = {} /\ kids = [p \in Node |-> {}] /\ added = <<>> /\ removed = <<>>
    /\ events = <<>> /\ stage = "none"
    /\ vnodes = {} /\ vkids = [p \in Node |-> {}] /\ alias = {}

Tree(S) == [p \in Node |-> KidsOf(S, p)]

Msg(k, c) == [kind |-> k, ctx |-> c]

(* The nodes of S, and those below by the lists: the least set that has    *)
(* the ones and, with a node, those that it lists.                         *)
Reach(n, k, S) ==
    {c \in n : \A T \in SUBSET n :
                  S \cap n \subseteq T /\ (\A d \in T : k[d] \cap n \subseteq T) => c \in T}

-----------------------------------------------------------------------------
(* The server sends an event, or answers the first get_children.           *)
Tell(m) == queue' = Append(queue, m) /\ changes < MaxChanges /\ changes' = changes + 1

ServerAdds(c) ==
    /\ c \notin srv /\ Parent[c] \in srv \cup {Root} /\ (whole => c \notin dead)
    /\ srv' = srv \cup {c} /\ Tell(Msg("added", c))
    /\ UNCHANGED <<whole, dead, asked, nodes, kids, gone, added, removed, events, view>>

ServerRemoves(c) ==
    /\ c \in srv
    /\ IF whole THEN asked = <<>> /\ dead' = dead \cup Reach(srv, Tree(srv), {c})
                ELSE KidsOf(srv, c) = {} /\ UNCHANGED dead
    /\ srv' = srv \ Reach(srv, Tree(srv), {c}) /\ Tell(Msg("removed", c))
    /\ UNCHANGED <<whole, asked, nodes, kids, gone, added, removed, events, view>>

ServerChanges(c) ==
    /\ c \in srv /\ Tell(Msg("changed", c))
    /\ UNCHANGED <<srv, whole, dead, asked, nodes, kids, gone, added, removed, events, view>>

ServerAnswers ==
    /\ asked # <<>> /\ ~\E i \in DOMAIN queue : queue[i].kind = "children"
    /\ LET p == Head(asked)
           known == p \in srv \cup {Root}
       IN  queue' = Append(queue, [kind |-> "children", ctx |-> p, ok |-> known,
                                   list |-> IF known THEN KidsOf(srv, p) ELSE {}])
    /\ UNCHANGED <<server, asked, nodes, kids, gone, added, removed, events, view>>

-----------------------------------------------------------------------------
(* Faulty: the children are left.                                          *)
BelowAlone(n, k, S) == S \cap n

(* What remove_node takes away, one after the other.                       *)
Below(n, k, S) == Reach(n, k, S)

(* Faulty: the parent's list is left as it is.                             *)
DroppedListed(k, D) == [p \in Node |-> IF p \in D THEN {} ELSE k[p]]

(* The lists once the nodes of D are removed.                              *)
Dropped(k, D) == [p \in Node |-> IF p \in D THEN {} ELSE k[p] \ D]

(* The lists once S is added: a new node has no children, and its parent,  *)
(* if there is one, lists it.                                              *)
Grown(n, k, S) ==
    [p \in Node |-> IF p \in S \ n THEN KidsOf(S, p)
                    ELSE IF p \in n \cup {Root} THEN k[p] \cup KidsOf(S \ n, p) ELSE k[p]]

(* A list of the manager that it gives up stays with the view.             *)
Detach(D) ==
    /\ alias' = alias \ D
    /\ vkids' = [p \in Node |-> IF p \in alias \cap D THEN kids[p] ELSE vkids[p]]
    /\ UNCHANGED <<stage, vnodes>>

(* The same for a list that GetNodes has put into the view's queue: a node *)
(* that is removed keeps its list.                                         *)
Freeze(D) ==
    [i \in DOMAIN events |-> IF events[i].ctx \in D /\ events[i].kind = "set"
                               THEN [kind |-> "setOwn", ctx |-> events[i].ctx, list |-> kids[events[i].ctx]]
                               ELSE events[i]]

Listened == stage # "none"

(* The deques of notify_node_added and notify_node_removed, if anybody     *)
(* listens.                                                                *)
Noted(q, S) == IF Listened THEN q \o SetToSeq(S \ ToSet(q)) ELSE q

(* Faulty: the job is posted with the second.                              *)
PostedLate(q, S, k) == IF Listened /\ q # <<>> /\ S # {} THEN <<Msg(k, Root)>> ELSE <<>>

(* The job goes with the first.                                            *)
Posted(q, S, k) == IF Listened /\ q = <<>> /\ S # {} THEN <<Msg(k, Root)>> ELSE <<>>

(* Faulty: a node that is gone again is told of.                           *)
ToldAll(q, n) == [i \in DOMAIN q |-> Msg("add", q[i])]

(* The places of q with a member of n, in order.                           *)
Kept(q, n) ==
    LET K == {i \in DOMAIN q : q[i] \in n}
    IN  CHOOSE f \in [1 .. Cardinality(K) -> K] : \A i, j \in DOMAIN f : i < j => f[i] < f[j]

(* _node_added tells the view of the nodes that are still there.           *)
Told(q, n) == [i \in DOMAIN Kept(q, n) |-> Msg("add", q[Kept(q, n)[i]])]

Untold(q) == [i \in DOMAIN q |-> Msg("remove", q[i])]

First(k) == queue # <<>> /\ Head(queue).kind = k

(* node_added, and node_changed of an unknown node: add_node, and tell at  *)
(* once; the job that add_node posted comes later and tells what is left.  *)
OnAdded ==
    /\ First("added") \/ (First("changed") /\ Head(queue).ctx \notin nodes)
    /\ LET S == {Head(queue).ctx} \ nodes
       IN  /\ nodes' = nodes \cup S /\ kids' = Grown(nodes, kids, S)
           /\ events' = events \o Told(Noted(added, S), nodes \cup S) /\ added' = <<>>
           /\ queue' = Tail(queue) \o Posted(added, S, "tellAdded")
    /\ UNCHANGED <<server, asked, gone, removed, view>>

(* node_changed of a node that is known updates properties only.           *)
OnKnown ==
    /\ First("changed") /\ Head(queue).ctx \in nodes
    /\ queue' = Tail(queue)
    /\ UNCHANGED <<server, asked, nodes, kids, gone, added, removed, events, view>>

(* node_removed: remove_node, and tell at once; the same of its job.       *)
OnRemoved ==
    /\ First("removed")
    /\ LET D == Below(nodes, kids, {Head(queue).ctx})
       IN  /\ nodes' = nodes \ D /\ kids' = Dropped(kids, D) /\ Detach(D)
           /\ gone' = gone \cup D
           /\ queue' = Tail(queue) \o Posted(removed, D, "tellRemoved")
           /\ IF D = {} THEN UNCHANGED <<events, removed>>
              ELSE events' = Freeze(D) \o Untold(Noted(removed, D)) /\ removed' = <<>>
    /\ UNCHANGED <<server, asked, added>>

(* What set_children removes.  The answer may be about a node that was     *)
(* removed meanwhile, whose list is empty.  With answers and events in one *)
(* order it removes nothing.                                               *)
Replaced(p, list) == IF p \in gone THEN {} ELSE Below(nodes, kids, kids[p] \ list)

(* done_get_children: set_children, and add_node and the next get_children *)
(* for each child.                                                         *)
OnChildren ==
    /\ First("children")
    /\ LET p == Head(queue).ctx
           list == Head(queue).list
           D == Replaced(p, list)
           S == list \ (nodes \ D)
       IN  IF ~Head(queue).ok
             THEN /\ queue' = Tail(queue) /\ asked' = Tail(asked)
                  /\ UNCHANGED <<nodes, kids, gone, added, removed, events, view>>
             ELSE /\ nodes' = (nodes \ D) \cup list
                  /\ kids' = [Grown(nodes \ D, Dropped(kids, D), S)
                                EXCEPT ![p] = IF p \in gone THEN @ ELSE list]
                  /\ Detach(D \cup {p})
                  /\ events' = Freeze(D \cup {p})
                  /\ gone' = (gone \cup D) \ list
                  /\ removed' = Noted(removed, D) /\ added' = Noted(added, S)
                  /\ queue' = Tail(queue) \o Posted(removed, D, "tellRemoved") \o Posted(added, S, "tellAdded")
                  /\ asked' = Tail(asked) \o SetToSeq(list)
    /\ UNCHANGED server

(* The posted _node_added or _node_removed.                                *)
TellPosted ==
    /\ First("tellAdded") \/ First("tellRemoved")
    /\ IF First("tellAdded")
         THEN events' = events \o Told(added, nodes) /\ added' = <<>> /\ UNCHANGED removed
         ELSE events' = events \o Untold(removed) /\ removed' = <<>> /\ UNCHANGED added
    /\ queue' = Tail(queue)
    /\ UNCHANGED <<server, asked, nodes, kids, gone, view>>

-----------------------------------------------------------------------------
(* ViewInfo.__init__ on the user thread: the listener comes first.         *)
Listen ==
    /\ stage = "none" /\ stage' = "listening"
    /\ UNCHANGED <<server, manager, events, vnodes, vkids, alias>>

(* GetNodesRequest runs once the manager has nothing pending.              *)
MayGetNodes == stage = "listening" /\ asked = <<>>

(* add_children walks down the lists of the manager: a node comes after    *)
(* the one that lists it, and all below it come before its next sibling.   *)
Walks ==
    LET below(S) == Reach(nodes, kids, S)
        all == below(kids[Root])
    IN  {w \in [1 .. Cardinality(all) -> all] :
           /\ \A c \in all : \E i \in DOMAIN w : w[i] = c
           /\ \A i \in DOMAIN w : w[i] \in kids[Root] \/ \E j \in 1 .. i - 1 : w[i] \in kids[w[j]]
           /\ \A i, j, m \in DOMAIN w : i < j /\ j < m /\ w[m] \in below({w[i]}) => w[j] \in below({w[i]})}

(* For each node its list of children is queued, and before it the node.   *)
Snapshot(w) ==
    LET v == <<Root>> \o w
    IN  [i \in 1 .. 2 * Len(v) - 1 |-> Msg(IF i % 2 = 0 THEN "add" ELSE "set", v[1 + i \div 2])]

GetNodes ==
    /\ MayGetNodes
    /\ \E w \in Walks : events' = events \o Snapshot(w)
    /\ stage' = "open"
    /\ UNCHANGED <<server, manager, vnodes, vkids, alias>>

(* The list of p in the view.                                              *)
V == [p \in Node |-> IF p \in alias THEN kids[p] ELSE vkids[p]]

Run(k) == stage = "open" /\ events # <<>> /\ Head(events).kind = k /\ events' = Tail(events)

(* add_sync_node.                                                          *)
ViewAdds ==
    /\ Run("add")
    /\ LET new == Grown(vnodes, V, {Head(events).ctx})
       IN  /\ kids' = [p \in Node |-> IF p \in alias THEN new[p] ELSE kids[p]]
           /\ vkids' = [p \in Node |-> IF p \in alias THEN vkids[p] ELSE new[p]]
    /\ vnodes' = vnodes \cup {Head(events).ctx}
    /\ UNCHANGED <<server, asked, queue, nodes, gone, added, removed, stage, alias>>

(* remove_node of the view: from a list that it may share.                 *)
ViewRemoves ==
    /\ Run("remove")
    /\ LET D == Below(vnodes, V, {Head(events).ctx})
       IN  /\ vnodes' = vnodes \ D /\ alias' = alias \ D /\ vkids' = Dropped(vkids, D)
           /\ kids' = [p \in Node |-> IF p \in alias \ D THEN kids[p] \ D ELSE kids[p]]
    /\ UNCHANGED <<server, asked, queue, nodes, gone, added, removed, stage>>

(* set_children of the view takes the list over, not a copy.               *)
ViewSets ==
    /\ Run("set") \/ Run("setOwn")
    /\ LET p == Head(events).ctx
           live == Head(events).kind = "set"
           list == IF live THEN kids[p] ELSE Head(events).list
           D == Below(vnodes, V, V[p] \ list)
       IN  /\ vnodes' = vnodes \ D
           /\ alias' = IF live THEN (alias \ D) \cup {p} ELSE alias \ (D \cup {p})
           /\ vkids' = [Dropped(vkids, D) EXCEPT ![p] = IF live THEN {} ELSE list]
    /\ UNCHANGED <<server, manager, stage>>

Server == (\E c \in Ctx : ServerAdds(c) \/ ServerRemoves(c) \/ ServerChanges(c)) \/ ServerAnswers
Dispatch == OnAdded \/ OnKnown \/ OnRemoved \/ OnChildren \/ TellPosted
User == Listen \/ GetNodes \/ ViewAdds \/ ViewRemoves \/ ViewSets

Next == Server \/ Dispatch \/ User

(* The server answers, the dispatch thread works on, and the user goes on  *)
(* reading; the server's events end.                                       *)
Spec ==
    /\ Init /\ [][Next]_vars
    /\ WF_vars(ServerAnswers) /\ WF_vars(Dispatch) /\ WF_vars(User)

-----------------------------------------------------------------------------
(* Every variable keeps its shape, and a deque with something in it has    *)
(* its job under way.                                                      *)
TypeOK ==
    /\ srv \subseteq Ctx /\ nodes \subseteq Ctx /\ vnodes \subseteq Ctx /\ changes \in 0 .. MaxChanges
    /\ kids \in [Node -> SUBSET Ctx] /\ vkids \in [Node -> SUBSET Ctx]
    /\ whole \in BOOLEAN /\ dead \subseteq Ctx /\ alias \subseteq Node /\ gone \subseteq Ctx /\ asked \in Seq(Node)
    /\ added \in Seq(Ctx) /\ removed \in Seq(Ctx)
    /\ \A i \in DOMAIN queue : queue[i].ctx \in Node
    /\ \A i \in DOMAIN events : events[i].ctx \in Node
    /\ stage \in {"none", "listening", "open"}
    /\ added # <<>> => \E i \in DOMAIN queue : queue[i].kind = "tellAdded"

(* With nothing under way the manager and the view both have the server's  *)
(* tree, node by node and list by list, though the view wrote to lists of  *)
(* the manager (view_info.py:222) and adds and removals were queued apart  *)
(* (dm/__init__.py:498, 520).                                              *)
InStep ==
    asked = <<>> /\ queue = <<>> /\ events = <<>> =>
        /\ nodes = srv
        /\ \A p \in srv \cup {Root} : kids[p] = KidsOf(srv, p)
        /\ stage = "open" => /\ vnodes = srv
                             /\ \A p \in srv \cup {Root} : V[p] = KidsOf(srv, p)

(* A user who goes on reading comes to see the server's tree and stays     *)
(* with it, once the server's events have ended.                           *)
SeesServer == <>[](vnodes = srv)
=============================================================================

------------------------------- MODULE PubSub -------------------------------
(***************************************************************************)
(* Publish and subscribe: class Node (src/src/Node.cc, Node.hh) and the    *)
(* message half of class NodeShared (src/src/NodeShared.cc), on top of the *)
(* discovery service.  Discovery is used through what it promises          *)
(* (Directory, which Discovery implements): a process comes to know offers *)
(* and loses them again, and each change runs the callback in the same     *)
(* step.  Every API call and callback holds NodeShared::mutex, so each is  *)
(* one action.                                                             *)
(*                                                                         *)
(* The 0MQ sockets are modelled by what the code relies on: how many       *)
(* connections the SUB socket has to an endpoint, how often a filter was   *)
(* set (0MQ counts), and a control message that arrives late, out of order *)
(* or, when the sending socket's linger time runs out, never.              *)
(***************************************************************************)
EXTENDS Addresses, Integers, FiniteSets

CONSTANTS Procs,        \* process UUIDs
          Nodes,        \* node UUIDs
          OwnerOf,      \* the process each node lives in
          Topics,
          Scopes,       \* the scopes advertised here
          Faults,       \* what may go wrong: "control": control messages are
                        \* lost, "expiry": running processes fall silent,
                        \* "connect": connecting throws
          Hosts,
          HostOf,
          Offerers,     \* the nodes that may advertise
          Subscribers,  \* the nodes that may subscribe
          MaxFilters,   \* bound: times one filter is set
          MaxControl    \* bound: control messages on their way

ASSUME PubSubAssumption ==
    /\ OwnerOf \in [Nodes -> Procs]
    /\ HostOf \in [Procs -> Hosts]
    /\ Scopes \subseteq {"Process", "Host", "All"}
    /\ Faults \subseteq {"control", "expiry", "connect"}
    /\ Offerers \subseteq Nodes
    /\ Subscribers \subseteq Nodes
    /\ \A p \in Procs : <<"tcp", p>> \notin Procs   \* no UUID is an endpoint
    /\ MaxFilters \in Nat
    /\ MaxControl \in Nat

VARIABLES
    status,       \* "up", or "down" for good
    offered,      \* history: every offer ever made
    withdrawn,    \* history: every offer ever taken back
    known,        \* known[p]: the offers p's discovery service knows
    subs,         \* localSubscriptions: <<topic, node>> with handlers
    connections,  \* the offers p has connected to (TopicStorage)
    links,        \* links[p][q]: connections of p's SUB socket to q's endpoint
    filters,      \* filters[p][t]: ZMQ_SUBSCRIBE minus ZMQ_UNSUBSCRIBE
    remoteSubs,   \* remoteSubscribers: who subscribed to p's topics
    ctrl,         \* ctrl[p]: messages on their way to p's control socket
    refused       \* history: the offers p last failed to connect to

vars == <<status, offered, withdrawn, known, subs, connections, links, filters,
          remoteSubs, ctrl, refused>>

Offers == [kind : {"msg"},
           entry : [topic : Topics, proc : Procs, addr : Procs, node : Nodes,
                    scope : Scopes]]

Offer(t, n, s) ==
    [kind |-> "msg",
     entry |-> [topic |-> t, proc |-> OwnerOf[n], addr |-> OwnerOf[n],
                node |-> n, scope |-> s]]

\* A subscriber is registered under a process UUID, but Unsubscribe signs with
\* the process's endpoint instead.
Endpoint(p) == <<"tcp", p>>
Senders == Procs \cup {Endpoint(p) : p \in Procs}

Dir == INSTANCE Directory

Control == [type : {"NewConnection", "EndConnection"}, topic : Topics,
            proc : Senders, node : Nodes]
RemoteSub == [topic : Topics, proc : Senders, node : Nodes]

Up(p) == status[p] = "up"

HasHandlersForTopic(S, t) == \E s \in S : s[1] = t

\* Mutant: the offers of p's own nodes too.
KnownAll(p, t) == {e \in {x.entry : x \in known[p]} : e.topic = t}

\* Offers of topic t by other processes that p knows.
KnownRemote(p, t) == {e \in {x.entry : x \in known[p]} : e.topic = t /\ e.proc # p}

Init ==
    /\ status = [p \in Procs |-> "up"]
    /\ Dir!Init
    /\ withdrawn = {}
    /\ subs = [p \in Procs |-> {}]
    /\ connections = [p \in Procs |-> {}]
    /\ links = [p \in Procs |-> [q \in Procs |-> 0]]
    /\ filters = [p \in Procs |-> [t \in Topics |-> 0]]
    /\ remoteSubs = [p \in Procs |-> {}]
    /\ ctrl = [p \in Procs |-> {}]
    /\ refused = [p \in Procs |-> {}]

---------------------------------------------------------------------------
\* Control messages go to the processes of qs that run; a socket closed too
\* early loses some.
SendControl(qs, ms) ==
    \E got \in [{q \in qs : Up(q)} ->
                   IF "control" \in Faults THEN SUBSET ms ELSE {ms}] :
        /\ ctrl' = [q \in Procs |-> IF q \in DOMAIN got
                                    THEN ctrl[q] \cup got[q] ELSE ctrl[q]]
        /\ Cardinality(UNION {{q} \X ctrl'[q] : q \in Procs}) <= MaxControl

\* Mutant: the endpoint is connected for every offer.
ConnectAlways(p, S, t, E) ==
    LET qs == {e.proc : e \in E}
    IN  /\ filters[p][t] + Cardinality(E) <= MaxFilters
        /\ links' = [links EXCEPT ![p] = [q \in Procs |->
                        IF q \in qs THEN links[p][q] + 1 ELSE links[p][q]]]
        /\ filters' = [filters EXCEPT ![p][t] = @ + Cardinality(E)]
        /\ connections' = [connections EXCEPT ![p] =
                              @ \cup {e \in E : ~HasEntry(@, e)}]
        /\ SendControl(qs, {[type |-> "NewConnection", topic |-> t, proc |-> p,
                             node |-> s[2]] : s \in {r \in S : r[1] = t}})

\* Mutant: the publisher is told only when the endpoint is connected.
RegisterOnce(p, S, t, E) ==
    LET qs == {e.proc : e \in E}
    IN  /\ filters[p][t] + Cardinality(E) <= MaxFilters
        /\ links' = [links EXCEPT ![p] = [q \in Procs |->
                        IF q \in qs /\ ~HasAddress(connections[p], q)
                        THEN links[p][q] + 1 ELSE links[p][q]]]
        /\ filters' = [filters EXCEPT ![p][t] = @ + Cardinality(E)]
        /\ connections' = [connections EXCEPT ![p] =
                              @ \cup {e \in E : ~HasEntry(@, e)}]
        /\ SendControl({q \in qs : ~HasAddress(connections[p], q)},
                       {[type |-> "NewConnection", topic |-> t, proc |-> p,
                         node |-> s[2]] : s \in {r \in S : r[1] = t}})

\* Connect to the offers E of topic t unless their endpoint is in the connections,
\* set the filter for each, and tell the publishers about all local subscribers.
ConnectTo(p, S, t, E) ==
    LET qs == {e.proc : e \in E}
    IN  /\ filters[p][t] + Cardinality(E) <= MaxFilters
        /\ links' = [links EXCEPT ![p] = [q \in Procs |->
                        IF q \in qs /\ ~HasAddress(connections[p], q)
                        THEN links[p][q] + 1 ELSE links[p][q]]]
        /\ filters' = [filters EXCEPT ![p][t] = @ + Cardinality(E)]
        /\ connections' = [connections EXCEPT ![p] =
                              @ \cup {e \in E : ~HasEntry(@, e)}]
        /\ SendControl(qs, {[type |-> "NewConnection", topic |-> t, proc |-> p,
                             node |-> s[2]] : s \in {r \in S : r[1] = t}})

\* OnNewConnection for each of the remote offers E of topic t, when p's nodes S
\* have handlers for it.  An exception of 0MQ is swallowed: nothing was done for
\* an offer that could not be connected to, and nothing tries again.  (One thrown
\* later, when the publisher is to be told, only loses the control message.)
OnNewConnection(p, S, t, E) ==
    \E F \in IF "connect" \in Faults THEN SUBSET E ELSE {E} :
        /\ ConnectTo(p, S, t, F)
        /\ refused' = [refused EXCEPT ![p] = (@ \cup E) \ F]

---------------------------------------------------------------------------
\* Calls of the nodes of p.
Advertise(p, x) ==
    /\ Up(p)
    /\ Dir!Offer(x)
    /\ UNCHANGED <<status, withdrawn, subs, connections, links, filters,
                   remoteSubs, ctrl, refused>>

Unadvertise(p, x) ==
    /\ Up(p)
    /\ Dir!Withdraw(x)
    /\ withdrawn' = withdrawn \cup {x}
    /\ UNCHANGED <<status, subs, connections, links, filters, remoteSubs, ctrl,
                   refused>>

\* Subscribe stores the handler and calls Discovery::Discover, which announces
\* again every offer of the topic already known.
Subscribe(p, t, n) ==
    /\ Up(p)
    /\ subs' = [subs EXCEPT ![p] = @ \cup {<<t, n>>}]
    /\ OnNewConnection(p, subs'[p], t, KnownRemote(p, t))
    /\ UNCHANGED <<status, offered, withdrawn, known, remoteSubs>>

\* Mutant: the filter goes although another node of p still has handlers.
UnsubscribeFilter(p, t, n) ==
    /\ Up(p)
    /\ subs' = [subs EXCEPT ![p] = @ \ {<<t, n>>}]
    /\ filters' = [filters EXCEPT ![p][t] = IF @ > 0 THEN @ - 1 ELSE 0]
    /\ SendControl({e.proc : e \in KnownRemote(p, t)},
                   {[type |-> "EndConnection", topic |-> t,
                     proc |-> Endpoint(p), node |-> n]})
    /\ UNCHANGED <<status, offered, withdrawn, known, connections, links,
                   remoteSubs, refused>>

\* Unsubscribe drops the handlers, the filter if they were the last, and tells
\* every known publisher (the own process too, where it deletes nothing).  The
\* connections stay.
Unsubscribe(p, t, n) ==
    /\ Up(p)
    /\ subs' = [subs EXCEPT ![p] = @ \ {<<t, n>>}]
    /\ filters' = IF HasHandlersForTopic(subs'[p], t) THEN filters
                  ELSE [filters EXCEPT ![p][t] = IF @ > 0 THEN @ - 1 ELSE 0]
    /\ SendControl({e.proc : e \in KnownRemote(p, t)},
                   {[type |-> "EndConnection", topic |-> t,
                     proc |-> Endpoint(p), node |-> n]})
    /\ UNCHANGED <<status, offered, withdrawn, known, connections, links,
                   remoteSubs, refused>>

---------------------------------------------------------------------------
\* The discovery callbacks.

\* An ADVERTISE message, possibly a late one, makes a new offer known.
Learn(p, x) ==
    LET t == x.entry.topic
    IN  /\ Up(p)
        /\ Dir!Learn(p, x)
        /\ IF HasHandlersForTopic(subs[p], t)
           THEN OnNewConnection(p, subs[p], t, {x.entry})
           ELSE UNCHANGED <<connections, links, filters, ctrl, refused>>
        /\ UNCHANGED <<status, withdrawn, subs, remoteSubs>>

\* What is left of a process that has ended.
Vanish(p) ==
    /\ status' = [status EXCEPT ![p] = "down"]
    /\ Dir!End(p)
    /\ subs' = [subs EXCEPT ![p] = {}]
    /\ connections' = [connections EXCEPT ![p] = {}]
    /\ links' = [links EXCEPT ![p] = [q \in Procs |-> 0]]
    /\ filters' = [filters EXCEPT ![p] = [t \in Topics |-> 0]]
    /\ remoteSubs' = [remoteSubs EXCEPT ![p] = {}]
    /\ ctrl' = [ctrl EXCEPT ![p] = {}]
    /\ refused' = [refused EXCEPT ![p] = {}]
    /\ UNCHANGED withdrawn

WithoutSubscriber(p, t, q, n) ==
    [remoteSubs EXCEPT ![p] = @ \ {[topic |-> t, proc |-> q, node |-> n]}]

\* p's connections to the offer x, by topic, process and node.
ConnectionsTo(p, x) ==
    AddressesByNode(connections[p], x.entry.topic, x.entry.proc, x.entry.node)

\* An UNADVERTISE message reaches p, possibly late, possibly twice (it is a
\* multicast datagram).
Unadvertised(p, x) ==
    /\ Up(p)
    /\ x \in withdrawn
    /\ x.entry.proc # p
    /\ Dir!Reaches(x, p)

\* Mutant: disconnect without looking whether there is a connection.
OnUnadvertisedAlways(p, x) ==
    LET e == x.entry
    IN  /\ Unadvertised(p, x)
        /\ Dir!Forget(p, {y \in known[p] : Dir!SameOffer(x, y)})
        /\ remoteSubs' = WithoutSubscriber(p, e.topic, e.proc, e.node)
        /\ connections' = [connections EXCEPT ![p] = @ \ ConnectionsTo(p, x)]
        /\ links' = [links EXCEPT ![p][e.proc] = @ - 1]
        /\ UNCHANGED <<status, withdrawn, subs, filters, ctrl, refused>>

\* OnNewDisconnection with a topic.  What is deleted from the remote
\* subscribers is the node that no longer publishes.
OnUnadvertised(p, x) ==
    LET e == x.entry
    IN  /\ Unadvertised(p, x)
        /\ ConnectionsTo(p, x) = {} \/ links[p][e.proc] > 0
        /\ Dir!Forget(p, {y \in known[p] : Dir!SameOffer(x, y)})
        /\ remoteSubs' = WithoutSubscriber(p, e.topic, e.proc, e.node)
        /\ connections' = [connections EXCEPT ![p] = @ \ ConnectionsTo(p, x)]
        /\ links' = IF ConnectionsTo(p, x) = {} THEN links
                    ELSE [links EXCEPT ![p][e.proc] = @ - 1]
        /\ UNCHANGED <<status, withdrawn, subs, filters, ctrl, refused>>

\* The same when the endpoint is connected no more: disconnect throws, nothing
\* catches it in the reception thread and the process ends.
OnUnadvertisedAborts(p, x) ==
    /\ Unadvertised(p, x)
    /\ ConnectionsTo(p, x) # {}
    /\ links[p][x.entry.proc] = 0
    /\ Vanish(p)

\* OnNewDisconnection without a topic: BYE or silence of process q.  The
\* connections are looked up under the empty topic, so they stay.
OnProcessLost(p, q) ==
    /\ Up(p)
    /\ q # p
    /\ Up(q) => "expiry" \in Faults
    /\ Dir!Forget(p, {x \in known[p] : x.entry.proc = q})
    /\ remoteSubs' = [remoteSubs EXCEPT ![p] = {r \in @ : r.proc # q}]
    /\ UNCHANGED <<status, withdrawn, subs, connections, links, filters, ctrl,
                   refused>>

End(p) == Up(p) /\ Vanish(p)

---------------------------------------------------------------------------
\* NodeShared's reception thread.
RecvControlUpdate(p, c) ==
    /\ Up(p)
    /\ c \in ctrl[p]
    /\ ctrl' = [ctrl EXCEPT ![p] = @ \ {c}]
    /\ remoteSubs' =
          IF c.type = "NewConnection"
          THEN [remoteSubs EXCEPT ![p] = @ \cup
                   {[topic |-> c.topic, proc |-> c.proc, node |-> c.node]}]
          ELSE WithoutSubscriber(p, c.topic, c.proc, c.node)
    /\ UNCHANGED <<status, offered, withdrawn, known, subs, connections, links,
                   filters, refused>>

Next ==
    \E p \in Procs :
        \/ \E t \in Topics, n \in Offerers, s \in Scopes :
              OwnerOf[n] = p /\ Advertise(p, Offer(t, n, s))
        \/ \E x \in known[p] : x.entry.proc = p /\ Unadvertise(p, x)
        \/ \E t \in Topics, n \in Subscribers :
              OwnerOf[n] = p /\ (Subscribe(p, t, n) \/ Unsubscribe(p, t, n))
        \/ \E x \in offered : Learn(p, x)
        \/ \E x \in withdrawn : OnUnadvertised(p, x)
        \/ \E x \in withdrawn : OnUnadvertisedAborts(p, x)
        \/ \E q \in Procs : OnProcessLost(p, q)
        \/ End(p)
        \/ \E c \in ctrl[p] : RecvControlUpdate(p, c)

Spec == Init /\ [][Next]_vars

---------------------------------------------------------------------------
\* The remote offers of topic t that p knows and could connect to.
Reachable(p, t) == KnownRemote(p, t) \ refused[p]

\* Process q wants topic t, and can be reached by publisher p for it, which has
\* no registration of q for t and none on its way.
CutOff(p, q, t) ==
    /\ Up(p) /\ Up(q)
    /\ HasHandlersForTopic(subs[q], t)
    /\ \E e \in Reachable(q, t) : e.proc = p
    /\ \A r \in remoteSubs[p] : r.topic = t => r.proc # q
    /\ \A c \in ctrl[p] :
          c.type = "NewConnection" /\ c.topic = t => c.proc # q

TypeOK ==
    /\ status \in [Procs -> {"up", "down"}]
    /\ offered \subseteq Offers
    /\ withdrawn \subseteq Offers
    /\ known \in [Procs -> SUBSET Offers]
    /\ subs \in [Procs -> SUBSET (Topics \X Nodes)]
    /\ connections \in [Procs -> SUBSET {x.entry : x \in Offers}]
    /\ links \in [Procs -> [Procs -> Nat]]
    /\ filters \in [Procs -> [Topics -> 0..MaxFilters]]
    /\ remoteSubs \in [Procs -> SUBSET RemoteSub]
    /\ ctrl \in [Procs -> SUBSET Control]
    /\ refused \in [Procs -> SUBSET {x.entry : x \in Offers}]

\* The SUB socket is connected at most once to an endpoint, and never to one
\* that the connections do not name, so no message arrives twice: the guard of
\* OnNewConnection looks at the table and not at the socket.
NoDoubleConnect ==
    \A p, q \in Procs :
        links[p][q] <= 1 /\ (links[p][q] = 1 => HasAddress(connections[p], q))

\* While a node of p has handlers for a topic, p has a connection entry for
\* every remote offer of it that p knows and could connect to, and the filter is
\* set: whichever of Subscribe and the offer came first, whatever other nodes
\* unsubscribed since.
InterestConnected ==
    \A p \in Procs, t \in Topics :
        HasHandlersForTopic(subs[p], t) /\ Reachable(p, t) # {} =>
            /\ \A e \in Reachable(p, t) : HasEntry(connections[p], e)
            /\ filters[p][t] > 0

\* Publish looks at the registrations only, and nothing repeats one that is lost.
\* Where control messages may be lost, nothing is said.  Where they arrive, a
\* subscriber q that can reach publisher p for topic t gets cut off there in two
\* ways and no other: p takes q for lost, or a node of q stops offering t itself
\* (OnNewDisconnection takes it for the subscriber).  In particular each of q's
\* topics is registered by a message of its own, and neither an unsubscribing
\* node nor an offer that comes late or goes cuts off the others.
SubscribersKept ==
    [][\A p, q \in Procs, t \in Topics :
          CutOff(p, q, t)' /\ ~CutOff(p, q, t) =>
             \/ "control" \in Faults
             \/ OnProcessLost(p, q)
             \/ \E x \in withdrawn : /\ x.entry.proc = q /\ x.entry.topic = t
                                     /\ OnUnadvertised(p, x)]_vars

\* NodeShared.cc:731: "A remote subscriber[s] has been disconnected.", said where
\* a registration is deleted: a node that is deleted from a running publisher's
\* remote subscribers no longer subscribes.
OnlyLeaversDeleted ==
    [][\A p \in Procs : \A r \in remoteSubs[p] \ remoteSubs'[p] :
          status'[p] = "up" => <<r.topic, r.node>> \notin subs[OwnerOf[r.node]]]_vars

\* NodeShared.cc:352: "Delete a remote subscriber.", said where an EndConnection
\* is read: the node that sent it is among the publisher's remote subscribers no
\* more.
LeaversDeleted ==
    [][\A p \in Procs : \A c \in ctrl[p] \ ctrl'[p] :
          c.type = "EndConnection" /\ status'[p] = "up" =>
             \A r \in remoteSubs'[p] : ~(r.topic = c.topic /\ r.node = c.node)]_vars

\* NodeShared.cc:653: "I am not connected to the process.", said of an address
\* that is not in the connections; one that is there is connected.
ConnectionsAreConnected ==
    \A p, q \in Procs : HasAddress(connections[p], q) => links[p][q] > 0

=============================================================================

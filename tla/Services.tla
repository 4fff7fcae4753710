------------------------------ MODULE Services ------------------------------
(***************************************************************************)
(* Service calls: the service half of class Node (Node.hh, Node.cc) and of *)
(* class NodeShared (NodeShared.cc) with ReqHandler.hh, on top of the      *)
(* discovery service.  Discovery is used through what it promises, the     *)
(* actions of Directory, which Discovery implements: offers become known   *)
(* and are lost again, and each change runs the callback in the same step. *)
(* Calls and callbacks hold NodeShared::mutex throughout, so each is one   *)
(* action; only a blocking call lets go of it, while it waits.             *)
(*                                                                         *)
(* The 0MQ sockets are ROUTER sockets with ZMQ_ROUTER_MANDATORY: sending   *)
(* to a peer the socket is not (or not yet) connected to throws, and the   *)
(* code drops what it throws.  Messages are delivered at most once.        *)
(***************************************************************************)
EXTENDS Integers, FiniteSets

CONSTANTS Procs,      \* process UUIDs
          Rank,       \* their order (std::map is ordered by process UUID)
          Hosts,
          HostOf,
          Nodes,      \* node UUIDs
          OwnerOf,    \* the process each node lives in
          Topics,     \* service names
          Repliers,   \* the nodes that may advertise services
          Reqs,       \* handler UUIDs of the requests, each made once
          CallerOf,   \* the process that makes the request
          TopicOf,    \* the service it asks for
          Blocking    \* the requests made with the blocking call

ASSUME ServicesAssumption ==
    /\ Rank \in [Procs -> Nat]
    /\ \A p, q \in Procs : Rank[p] = Rank[q] => p = q
    /\ HostOf \in [Procs -> Hosts]
    /\ OwnerOf \in [Nodes -> Procs]
    /\ Repliers \subseteq Nodes
    /\ CallerOf \in [Reqs -> Procs]
    /\ TopicOf \in [Reqs -> Topics]
    /\ Blocking \subseteq Reqs

VARIABLES
    status,    \* "starting" until connectionSrvCb is set, "up", "down"
    offered,   \* history: every offer ever made
    known,     \* known[p]: the offers in p's infoSrv, its own included
    repliers,  \* repliers[p]: <<topic, node>> with reply handlers
    conns,     \* conns[p]: whose replier p's requester has connected to
               \* (srvConnections)
    handler,   \* handler[r]: "none" if not in requests, else "pending" or
               \* "requested"
    outcome,   \* outcome[r]: what the caller has got (see Calls)
    wire,      \* request and response messages on their way
    early,     \* history: early[p], the processes p learned of before its
               \* connectionSrvCb was set
    ran        \* history: how often a replier ran the request

vars == <<status, offered, known, repliers, conns, handler, outcome, wire,
          early, ran>>

Offers == [kind : {"srv"},
           entry : [topic : Topics, proc : Procs, addr : Procs, node : Nodes,
                    scope : {"All"}]]

Message == [type : {"REQ", "REP"}, to : Procs, req : Reqs]

Dir == INSTANCE Directory

Offer(t, n) ==
    [kind |-> "srv",
     entry |-> [topic |-> t, proc |-> OwnerOf[n], addr |-> OwnerOf[n],
                node |-> n, scope |-> "All"]]

Up(p) == status[p] = "up"

HasHandlersForTopic(p, t) == \E x \in repliers[p] : x[1] = t

\* The processes that p knows to offer t: GetSrvAddresses.
Responsers(p, t) == {x.entry.proc : x \in {y \in known[p] : y.entry.topic = t}}

\* The handlers of p for t that are not requested yet.
Pending(p, t) ==
    {r \in Reqs : CallerOf[r] = p /\ TopicOf[r] = t /\ handler[r] = "pending"}

Init ==
    /\ status = [p \in Procs |-> "starting"]
    /\ Dir!Init
    /\ repliers = [p \in Procs |-> {}]
    /\ conns = [p \in Procs |-> {}]
    /\ handler = [r \in Reqs |-> "none"]
    /\ outcome = [r \in Reqs |-> "none"]
    /\ wire = {}
    /\ early = [p \in Procs |-> {}]
    /\ ran = [r \in Reqs |-> 0]

---------------------------------------------------------------------------
\* begin() of the responsers qs.
FirstOf(qs) == CHOOSE x \in qs : \A y \in qs : Rank[x] <= Rank[y]

\* Mutant: Requested() is not looked at, every handler of the topic is sent.
SendRegardless(p, t, rs, qs, cs) ==
    LET q == FirstOf(qs)
        due == rs \cup {r \in Reqs : CallerOf[r] = p /\ TopicOf[r] = t
                                      /\ handler[r] # "none"}
    IN  /\ handler' = [r \in Reqs |-> IF r \in due THEN "requested"
                                      ELSE handler[r]]
        /\ \E got \in IF q \in cs /\ status[q] # "down" THEN SUBSET due ELSE {{}} :
              wire' = wire \cup
                         {[type |-> "REQ", to |-> q, req |-> r] : r \in got}

\* SendPendingRemoteReqs: the handlers rs of p for topic t, none of them
\* requested yet, are marked and each is sent to the first of the responsers qs.
\* p's requester knows its identity only if it is among its connections cs, and
\* perhaps not yet then; a send that throws is dropped.
SendPendingRemoteReqs(p, t, rs, qs, cs) ==
    LET q == FirstOf(qs)
    IN  /\ handler' = [r \in Reqs |-> IF r \in rs THEN "requested"
                                      ELSE handler[r]]
        /\ \E got \in IF q \in cs /\ status[q] # "down" THEN SUBSET rs ELSE {{}} :
              wire' = wire \cup
                         {[type |-> "REQ", to |-> q, req |-> r] : r \in got}

---------------------------------------------------------------------------
\* Life of a process.

\* NodeShared's constructor registers the callbacks: from here on there are
\* nodes to call, but discovery has been running for a while.
Ready(p) ==
    /\ status[p] = "starting"
    /\ status' = [status EXCEPT ![p] = "up"]
    /\ UNCHANGED <<offered, known, repliers, conns, handler, outcome, wire,
                   early, ran>>

End(p) ==
    /\ Up(p)
    /\ status' = [status EXCEPT ![p] = "down"]
    /\ Dir!End(p)
    /\ repliers' = [repliers EXCEPT ![p] = {}]
    /\ conns' = [conns EXCEPT ![p] = {}]
    /\ handler' = [r \in Reqs |-> IF CallerOf[r] = p THEN "none" ELSE handler[r]]
    /\ outcome' = [r \in Reqs |->
                      IF CallerOf[r] = p /\ outcome[r] \in {"none", "open"}
                      THEN "ended" ELSE outcome[r]]
    /\ wire' = {m \in wire : m.to # p}
    /\ UNCHANGED <<early, ran>>

---------------------------------------------------------------------------
\* Calls of the nodes of p.

\* Mutant: the handler is filed under the node, for the topic.
AdvertiseSrvSwapped(p, t, n) ==
    /\ Up(p)
    /\ repliers' = [repliers EXCEPT ![p] = @ \cup {<<n, t>>}]
    /\ Dir!Offer(Offer(t, n))
    /\ UNCHANGED <<status, conns, handler, outcome, wire, early, ran>>

\* Node::Advertise of a service.
AdvertiseSrv(p, t, n) ==
    /\ Up(p)
    /\ repliers' = [repliers EXCEPT ![p] = @ \cup {<<t, n>>}]
    /\ Dir!Offer(Offer(t, n))
    /\ UNCHANGED <<status, conns, handler, outcome, wire, early, ran>>

\* UnadvertiseSrv asks discovery to take back a message topic of that name, so
\* the offer of the service stays.
UnadvertiseSrv(p, t, n) ==
    /\ Up(p)
    /\ repliers' = [repliers EXCEPT ![p] = @ \ {<<t, n>>}]
    /\ UNCHANGED <<status, offered, known, conns, handler, outcome, wire, early,
                   ran>>

\* Request when a node of the own process replies: run here and now.
RequestLocal(r) ==
    LET p == CallerOf[r]
    IN  /\ Up(p)
        /\ outcome[r] = "none"
        /\ HasHandlersForTopic(p, TopicOf[r])
        /\ ran' = [ran EXCEPT ![r] = @ + 1]
        /\ outcome' = [outcome EXCEPT ![r] = "answered"]
        /\ UNCHANGED <<status, offered, known, repliers, conns, handler, wire,
                       early>>

\* Request otherwise: the handler is stored, and sent at once if a responser is
\* known; if not, Discover asks the network for one.
Request(r) ==
    LET p == CallerOf[r]
        t == TopicOf[r]
    IN  /\ Up(p)
        /\ outcome[r] = "none"
        /\ ~HasHandlersForTopic(p, t)
        /\ outcome' = [outcome EXCEPT ![r] = "open"]
        /\ IF Responsers(p, t) # {}
           THEN SendPendingRemoteReqs(p, t, Pending(p, t) \cup {r},
                                      Responsers(p, t), conns[p])
           ELSE /\ handler' = [handler EXCEPT ![r] = "pending"]
                /\ UNCHANGED wire
        /\ UNCHANGED <<status, offered, known, repliers, conns, early, ran>>

\* Mutant: the handler is removed when the caller gives up.
TimeoutRemoves(r) ==
    /\ r \in Blocking
    /\ outcome[r] = "open"
    /\ outcome' = [outcome EXCEPT ![r] = "timedOut"]
    /\ handler' = [handler EXCEPT ![r] = "none"]
    /\ UNCHANGED <<status, offered, known, repliers, conns, wire, early, ran>>

\* WaitUntil gives up.  The handler stays in requests.
Timeout(r) ==
    /\ r \in Blocking
    /\ outcome[r] = "open"
    /\ outcome' = [outcome EXCEPT ![r] = "timedOut"]
    /\ UNCHANGED <<status, offered, known, repliers, conns, handler, wire, early,
                   ran>>

---------------------------------------------------------------------------
\* The discovery callbacks.

\* Mutant: the pending requests are sent only after a new connection.
OnNewSrvConnectionOnce(p, x) ==
    LET t == x.entry.topic
        q == x.entry.proc
    IN  /\ Up(p)
        /\ Dir!Learn(p, x)
        /\ conns' = [conns EXCEPT ![p] = @ \cup {q}]
        /\ IF q \notin conns[p]
           THEN SendPendingRemoteReqs(p, t, Pending(p, t),
                                      Responsers(p, t) \cup {q}, conns'[p])
           ELSE UNCHANGED <<handler, wire>>
        /\ UNCHANGED <<status, repliers, outcome, early, ran>>

\* Mutant: the connection is only made for a request that waits for it.
OnNewSrvConnectionIfPending(p, x) ==
    LET t == x.entry.topic
        q == x.entry.proc
    IN  /\ Up(p)
        /\ Dir!Learn(p, x)
        /\ conns' = [conns EXCEPT ![p] =
                        IF Pending(p, t) = {} THEN @ ELSE @ \cup {q}]
        /\ SendPendingRemoteReqs(p, t, Pending(p, t), Responsers(p, t) \cup {q},
                                 conns'[p])
        /\ UNCHANGED <<status, repliers, outcome, early, ran>>

\* An ADVERTISE message makes a service known: connect to its replier if that
\* was never done and send the pending requests.
OnNewSrvConnection(p, x) ==
    LET t == x.entry.topic
        q == x.entry.proc
    IN  /\ Up(p)
        /\ Dir!Learn(p, x)
        /\ conns' = [conns EXCEPT ![p] = @ \cup {q}]
        /\ SendPendingRemoteReqs(p, t, Pending(p, t), Responsers(p, t) \cup {q},
                                 conns'[p])
        /\ UNCHANGED <<status, repliers, outcome, early, ran>>

\* The same before the callback is set: the service is known, nothing else.
LearnEarly(p, x) ==
    /\ status[p] = "starting"
    /\ Dir!Learn(p, x)
    /\ early' = [early EXCEPT ![p] = @ \cup {x.entry.proc}]
    /\ UNCHANGED <<status, repliers, conns, handler, outcome, wire, ran>>

\* BYE or silence of process q.  BYE calls OnNewSrvDisconnection with an empty
\* address, silence does not call it: the connections stay.
OnProcessLost(p, q) ==
    /\ status[p] # "down"
    /\ q # p
    /\ Dir!Forget(p, {x \in known[p] : x.entry.proc = q})
    /\ UNCHANGED <<status, repliers, conns, handler, outcome, wire, early, ran>>

---------------------------------------------------------------------------
\* NodeShared's reception thread.

\* RecvSrvRequest: without a handler the request is dropped.  A response that
\* cannot be sent is dropped.
RecvSrvRequest(m) ==
    LET r == m.req
        caller == CallerOf[r]
    IN  /\ m.type = "REQ"
        /\ Up(m.to)
        /\ IF HasHandlersForTopic(m.to, TopicOf[r])
           THEN /\ ran' = [ran EXCEPT ![r] = @ + 1]
                /\ \E reply \in {{}} \cup
                      IF Up(caller)
                      THEN {{[type |-> "REP", to |-> caller, req |-> r]}}
                      ELSE {} :
                     wire' = (wire \ {m}) \cup reply
           ELSE /\ wire' = wire \ {m}
                /\ UNCHANGED ran
        /\ UNCHANGED <<status, offered, known, repliers, conns, handler,
                       outcome, early>>

\* The callback runs, or the waiting call is woken up.  A call that gave up has
\* nobody to wake.
NotifyResult(r) ==
    IF outcome[r] = "open" THEN [outcome EXCEPT ![r] = "answered"] ELSE outcome

\* RecvSrvResponse: the caller gets the result if it still waits (or has a
\* callback), and the handler is removed.
RecvSrvResponse(m) ==
    LET r == m.req
    IN  /\ m.type = "REP"
        /\ Up(m.to)
        /\ wire' = wire \ {m}
        /\ handler' = [handler EXCEPT ![r] = "none"]
        /\ outcome' = IF handler[r] # "none" THEN NotifyResult(r) ELSE outcome
        /\ UNCHANGED <<status, offered, known, repliers, conns, early, ran>>

Next ==
    \/ \E p \in Procs :
          \/ Ready(p)
          \/ End(p)
          \/ \E t \in Topics, n \in Repliers :
                /\ OwnerOf[n] = p
                /\ AdvertiseSrv(p, t, n) \/ UnadvertiseSrv(p, t, n)
          \/ \E x \in offered : OnNewSrvConnection(p, x) \/ LearnEarly(p, x)
          \/ \E q \in Procs : OnProcessLost(p, q)
    \/ \E r \in Reqs : RequestLocal(r) \/ Request(r) \/ Timeout(r)
    \/ \E m \in wire : RecvSrvRequest(m) \/ RecvSrvResponse(m)

Spec == Init /\ [][Next]_vars

---------------------------------------------------------------------------
TypeOK ==
    /\ status \in [Procs -> {"starting", "up", "down"}]
    /\ offered \subseteq Offers
    /\ known \in [Procs -> SUBSET Offers]
    /\ repliers \in [Procs -> SUBSET (Topics \X Nodes)]
    /\ conns \in [Procs -> SUBSET Procs]
    /\ handler \in [Reqs -> {"none", "pending", "requested"}]
    /\ outcome \in [Reqs -> {"none", "open", "answered", "timedOut", "ended"}]
    /\ wire \subseteq Message
    /\ early \in [Procs -> SUBSET Procs]
    /\ ran \in [Reqs -> Nat]

\* Whatever discovery learns, loses and learns again, whoever times out or ends,
\* a request runs at most once, and its caller is answered at most once, only
\* after a run and never after it gave up: the requested flag of the handler
\* and its removal, spread over three functions, are what ensures it.
RefinesCalls == INSTANCE Calls
CallsOnce == RefinesCalls!Spec

\* No request waits in requests, not yet marked as requested, while its process
\* knows another process that offers the service: the code only sends when the
\* request is made and when a service becomes known, so missing either moment
\* means never.  (A request that was marked counts as sent, also when the socket
\* refused it: see RequestedIsSent.)
NoIdleRequest ==
    \A r \in Reqs :
        handler[r] = "pending" =>
            Responsers(CallerOf[r], TopicOf[r]) \subseteq {CallerOf[r]}

\* A response always finds the handler it is for, also when the blocking call
\* has given up meanwhile: the branch of RecvSrvResponse that reports an unknown
\* response is never taken.
ResponsesHaveHandlers ==
    \A m \in wire : m.type = "REP" => handler[m.req] = "requested"

\* Every other process known to offer a service is one the requester has
\* connected to, also after it was lost and learned again, unless it was learned
\* before connectionSrvCb was set: OnNewSrvConnection connects only what it has
\* not in srvConnections, and nothing else connects.  Of the own process, which
\* the code may choose as well, nothing is said: see RequestedIsSent.
RespondersConnected ==
    \A p \in Procs : \A x \in known[p] :
        Up(p) /\ x.entry.proc # p =>
            x.entry.proc \in conns[p] \cup early[p]

\* ReqHandler.hh:146 of the requested flag: "When true, the REQ was already sent
\* and the REP should be on its way."  That takes at least a responser to which
\* the requester is connected.
RequestedIsSent ==
    [][\A r \in Reqs :
          LET p == CallerOf[r]
          IN  handler[r] # "requested" /\ handler'[r] = "requested" =>
                  FirstOf(Responsers(p, TopicOf[r])') \in conns'[p]]_vars

=============================================================================

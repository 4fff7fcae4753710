----------------------------- MODULE Discovery -----------------------------
(***************************************************************************)
(* The discovery service of every process (src/src/Discovery.cc): class    *)
(* Discovery with its three threads (activity, heartbeat, reception) and   *)
(* the calls of its client, over UDP multicast.  Each handler runs with    *)
(* DiscoveryPrivate::mutex held from its first to its last access, so each *)
(* is one action.                                                          *)
(*                                                                         *)
(* Abstractions.  infoMsg and infoSrv are sets of entries (see Addresses   *)
(* and TopicStorage).  A process is named by its UUID and never comes      *)
(* back: a restarted program has a new UUID.  The endpoint of a process is *)
(* named by the process.  activity holds, instead of a timestamp, the time *)
(* since it, in ticks, up to the first value greater than silenceInterval, *)
(* where further growth makes no difference.                               *)
(***************************************************************************)
EXTENDS Addresses, Integers, FiniteSets

CONSTANTS Procs,       \* process UUIDs
          Hosts,
          HostOf,      \* the host each process runs on
          Nodes,       \* node UUIDs
          OwnerOf,     \* the process each node lives in
          Topics,      \* fully qualified topic and service names
          Kinds,       \* subset of {"msg", "srv"}
          Scopes,      \* subset of {"Process", "Host", "All"}
          Advertised,  \* the <<kind, scope>> that clients may advertise
          Interests,   \* the <<kind, topic>> each process may ask for
          Silence,     \* silenceInterval, in ticks
          MaxInFlight  \* bound: datagrams sent and not yet read

ASSUME DiscoveryAssumption ==
    /\ HostOf \in [Procs -> Hosts]
    /\ OwnerOf \in [Nodes -> Procs]
    /\ Kinds \subseteq {"msg", "srv"}
    /\ Scopes \subseteq {"Process", "Host", "All"}
    /\ Advertised \subseteq Kinds \X Scopes
    /\ Interests \in [Procs -> SUBSET (Kinds \X Topics)]
    /\ Silence \in Nat
    /\ MaxInFlight \in Nat

VARIABLES
    status,       \* "off" before the constructor, "up", "down" for good
    setters,      \* how many of the four Set...Cb calls have been made
    info,         \* info[p][k]: infoMsg and infoSrv
    activity,     \* activity[p][q]: time since q was last heard, or Absent
    inbox,        \* inbox[p]: datagrams that reached p's socket
    told,         \* told[p][k]: the offers the callbacks have announced to
                  \* p's client and not taken back
    discovered,   \* history: the <<kind, topic>> passed to Discover
    offered       \* history: everything ever passed to Advertise

vars == <<status, setters, info, activity, inbox, told, discovered, offered>>

Absent == -1
Ages == {Absent} \cup 0..(Silence + 1)

Entry == [topic : Topics, proc : Procs, addr : Procs, node : Nodes,
          scope : Scopes]

Offers == [kind : Kinds, entry : Entry]

Key == [topic : Topics, proc : Procs, node : Nodes]

---------------------------------------------------------------------------
\* Discovery messages.  "from" is the process UUID of the header.
AdvMsg == [type : {"ADVERTISE", "UNADVERTISE"}, kind : Kinds, from : Procs,
           topic : Topics, node : Nodes, scope : Scopes]
SubMsg == [type : {"SUBSCRIBE"}, kind : Kinds, from : Procs, topic : Topics]
PlainMsg == [type : {"HEARTBEAT", "BYE"}, from : Procs]

Msg == AdvMsg \cup SubMsg \cup PlainMsg

Adv(type, k, e) ==
    [type |-> type, kind |-> k, from |-> e.proc, topic |-> e.topic,
     node |-> e.node, scope |-> e.scope]

\* Mutant: the body's fields are read in the wrong order.
EntryOfSwapped(m) ==
    [topic |-> m.node, proc |-> m.from, addr |-> m.from, node |-> m.topic,
     scope |-> m.scope]

EntryOf(m) ==
    [topic |-> m.topic, proc |-> m.from, addr |-> m.from, node |-> m.node,
     scope |-> m.scope]

KeyOf(e) == [topic |-> e.topic, proc |-> e.proc, node |-> e.node]

KeysOfProc(S, q) == {x \in S : x.proc = q}

Up(p) == status[p] = "up"

Own(p, k) == AddressesByProc(info[p][k], p)

\* SendMsg: each message reaches the sockets of any of the other running
\* processes, in any order, or is lost (on the way, in a full socket buffer or
\* because sendto failed).  A process discards its own messages unread, so
\* they are not delivered.  box is what the inboxes hold before.
SendMsg(box, p, ms) ==
    \E got \in [{q \in Procs : q # p /\ Up(q)} -> SUBSET ms] :
        /\ inbox' = [q \in Procs |-> IF q \in DOMAIN got
                                     THEN box[q] \cup got[q] ELSE box[q]]
        /\ Cardinality(UNION {{q} \X inbox'[q] : q \in Procs}) <= MaxInFlight

\* Mutant: the sender's host is not compared.
ScopeIgnoresHost(scope, from, p) == scope # "Process"

\* Scope check of a received message: Process never leaves its process, Host
\* only reaches processes of the same host.
ScopeAdmits(scope, from, p) ==
    /\ scope # "Process"
    /\ scope = "Host" => HostOf[from] = HostOf[p]

\* The client (NodeShared) sets the four callbacks in this order: topics
\* appear, topics disappear, services appear, services disappear.  Each is called
\* from the moment it is set; the client's own calls come after its constructor.
HearsNew(p, k) == setters[p] >= (IF k = "msg" THEN 1 ELSE 3)
HearsEnds(p, k) == setters[p] >= (IF k = "msg" THEN 2 ELSE 4)
Constructed(p) == setters[p] = 4

\* The connection callback and the disconnection callback, if they are set, of
\* offers of kind k.
Connected(p, k, S) ==
    IF HearsNew(p, k) THEN told[p][k] \cup {KeyOf(e) : e \in S} ELSE told[p][k]
Disconnected(p, k, gone) ==
    IF HearsEnds(p, k) THEN told[p][k] \ gone ELSE told[p][k]

Init ==
    /\ status = [p \in Procs |-> "off"]
    /\ setters = [p \in Procs |-> 0]
    /\ info = [p \in Procs |-> [k \in Kinds |-> {}]]
    /\ activity = [p \in Procs |-> [q \in Procs |-> Absent]]
    /\ inbox = [p \in Procs |-> {}]
    /\ told = [p \in Procs |-> [k \in Kinds |-> {}]]
    /\ discovered = [p \in Procs |-> {}]
    /\ offered = {}

---------------------------------------------------------------------------
\* Life of a process.

\* The constructor: sockets are open and the threads run before the client can
\* register any callback.
Start(p) ==
    /\ status[p] = "off"
    /\ status' = [status EXCEPT ![p] = "up"]
    /\ UNCHANGED <<setters, info, activity, inbox, told, discovered, offered>>

\* SetConnectionsCb, SetDisconnectionsCb, SetConnectionsSrvCb,
\* SetDisconnectionsSrvCb, in the order of NodeShared's constructor.
SetCallback(p) ==
    /\ Up(p)
    /\ setters[p] < 4
    /\ setters' = [setters EXCEPT ![p] = @ + 1]
    /\ UNCHANGED <<status, info, activity, inbox, told, discovered, offered>>

\* What is left of a process that has ended: nothing.
Vanish(p) ==
    /\ status' = [status EXCEPT ![p] = "down"]
    /\ setters' = [setters EXCEPT ![p] = 0]
    /\ info' = [info EXCEPT ![p] = [k \in Kinds |-> {}]]
    /\ activity' = [activity EXCEPT ![p] = [q \in Procs |-> Absent]]
    /\ told' = [told EXCEPT ![p] = [k \in Kinds |-> {}]]
    /\ discovered' = [discovered EXCEPT ![p] = {}]
    /\ UNCHANGED offered

\* The destructor joins the threads and then says BYE.
Stop(p) ==
    /\ Up(p)
    /\ Constructed(p)
    /\ Vanish(p)
    /\ SendMsg([inbox EXCEPT ![p] = {}], p, {[type |-> "BYE", from |-> p]})

\* The process is killed, or its network fails for good.
Crash(p) ==
    /\ Up(p)
    /\ Vanish(p)
    /\ inbox' = [inbox EXCEPT ![p] = {}]

---------------------------------------------------------------------------
\* Calls of the client.

\* The new scope goes out even when AddAddress keeps the old one.
Advertise(p, k, e) ==
    /\ Up(p)
    /\ Constructed(p)
    /\ info' = [info EXCEPT ![p][k] = AddAddress(@, e)]
    /\ SendMsg(inbox, p, IF e.scope = "Process" THEN {}
                         ELSE {Adv("ADVERTISE", k, e)})
    /\ offered' = offered \cup {[kind |-> k, entry |-> e]}
    /\ UNCHANGED <<status, setters, activity, told, discovered>>

Unadvertise(p, k, e) ==
    /\ Up(p)
    /\ e \in Own(p, k)
    /\ info' = [info EXCEPT ![p][k] = DelAddressByNode(@, e.topic, p, e.node)]
    /\ SendMsg(inbox, p, IF e.scope = "Process" THEN {}
                         ELSE {Adv("UNADVERTISE", k, e)})
    /\ UNCHANGED <<status, setters, activity, told, discovered, offered>>

\* Mutant: what is already known is not announced.
DiscoverAsksOnly(p, k, t) ==
    /\ Up(p)
    /\ Constructed(p)
    /\ SendMsg(inbox, p, {[type |-> "SUBSCRIBE", kind |-> k, from |-> p,
                           topic |-> t]})
    /\ discovered' = [discovered EXCEPT ![p] = @ \cup {<<k, t>>}]
    /\ UNCHANGED <<status, setters, info, activity, told, offered>>

\* Discover announces again every address already known for the topic.
Discover(p, k, t) ==
    /\ Up(p)
    /\ Constructed(p)
    /\ SendMsg(inbox, p, {[type |-> "SUBSCRIBE", kind |-> k, from |-> p,
                           topic |-> t]})
    /\ told' = [told EXCEPT ![p][k] =
                   Connected(p, k, {e \in info[p][k] : e.topic = t})]
    /\ discovered' = [discovered EXCEPT ![p] = @ \cup {<<k, t>>}]
    /\ UNCHANGED <<status, setters, info, activity, offered>>

---------------------------------------------------------------------------
\* The activity thread.
Expired(p) == {q \in Procs : activity[p][q] > Silence}

\* Mutant: the addresses of an expired process go, nobody is notified.
ActivityTaskSilent(p) ==
    /\ Up(p)
    /\ setters[p] >= 2
    /\ Expired(p) # {}
    /\ info' = [info EXCEPT ![p] = [k \in Kinds |->
                   {e \in info[p][k] : e.proc \notin Expired(p)}]]
    /\ activity' = [activity EXCEPT ![p] = [q \in Procs |->
                       IF q \in Expired(p) THEN Absent ELSE activity[p][q]]]
    /\ UNCHANGED <<status, setters, inbox, told, discovered, offered>>

\* Mutant: infoSrv is forgotten when a process expires.
ActivityTaskTopicsOnly(p) ==
    /\ Up(p)
    /\ setters[p] >= 2
    /\ Expired(p) # {}
    /\ info' = [info EXCEPT ![p]["msg"] = {e \in @ : e.proc \notin Expired(p)}]
    /\ activity' = [activity EXCEPT ![p] = [q \in Procs |->
                       IF q \in Expired(p) THEN Absent ELSE activity[p][q]]]
    /\ UNCHANGED <<status, setters, inbox, told, discovered, offered>>

ActivityTask(p) ==
    /\ Up(p)
    /\ setters[p] >= 2
    /\ Expired(p) # {}
    /\ info' = [info EXCEPT ![p] = [k \in Kinds |->
                   {e \in info[p][k] : e.proc \notin Expired(p)}]]
    \* disconnectionCb only: the client is not told about the services.
    /\ told' = [told EXCEPT ![p] = [k \in Kinds |->
                   IF k = "msg" THEN {x \in told[p][k] : x.proc \notin Expired(p)}
                   ELSE told[p][k]]]
    /\ activity' = [activity EXCEPT ![p] = [q \in Procs |->
                       IF q \in Expired(p) THEN Absent ELSE activity[p][q]]]
    /\ UNCHANGED <<status, setters, inbox, discovered, offered>>

\* disconnectionCb is called without looking whether it is set: an empty
\* std::function throws out of the thread, which ends the process.
ActivityTaskAborts(p) ==
    /\ Up(p)
    /\ setters[p] < 2
    /\ Expired(p) # {}
    /\ Vanish(p)
    /\ inbox' = [inbox EXCEPT ![p] = {}]

\* Mutant: the heartbeat alone is taken to be enough.
HeartbeatOnly(p) ==
    /\ Up(p)
    /\ SendMsg(inbox, p, {[type |-> "HEARTBEAT", from |-> p]})
    /\ UNCHANGED <<status, setters, info, activity, told, discovered, offered>>

\* The heartbeat thread: a heartbeat, and every own topic and service again.
\* The scope is not looked at.
HeartbeatTask(p) ==
    /\ Up(p)
    /\ SendMsg(inbox, p,
               {[type |-> "HEARTBEAT", from |-> p]} \cup
               UNION {{Adv("ADVERTISE", k, e) : e \in Own(p, k)} : k \in Kinds})
    /\ UNCHANGED <<status, setters, info, activity, told, discovered, offered>>

---------------------------------------------------------------------------
\* The reception thread: DispatchDiscoveryMsg, one action per kind of message.
Received(p, m) == [inbox EXCEPT ![p] = @ \ {m}]

Refreshed(p, q) == [activity EXCEPT ![p][q] = 0]

RecvAdvertise(p, m) ==
    /\ m.type = "ADVERTISE"
    /\ inbox' = Received(p, m)
    /\ activity' = Refreshed(p, m.from)
    /\ IF ScopeAdmits(m.scope, m.from, p) /\ ~HasEntry(info[p][m.kind], EntryOf(m))
       THEN /\ info' = [info EXCEPT ![p][m.kind] = AddAddress(@, EntryOf(m))]
            /\ told' = [told EXCEPT ![p][m.kind] =
                             Connected(p, m.kind, {EntryOf(m)})]
       ELSE UNCHANGED <<info, told>>
    /\ UNCHANGED <<status, setters, discovered, offered>>

\* Every own node's offer of the topic that the asker may see is sent again.
RecvSubscribe(p, m) ==
    /\ m.type = "SUBSCRIBE"
    /\ SendMsg(Received(p, m), p,
               {Adv("ADVERTISE", m.kind, e) :
                   e \in {f \in Own(p, m.kind) :
                             f.topic = m.topic /\ ScopeAdmits(f.scope, m.from, p)}})
    /\ activity' = Refreshed(p, m.from)
    /\ UNCHANGED <<status, setters, info, told, discovered, offered>>

RecvHeartbeat(p, m) ==
    /\ m.type = "HEARTBEAT"
    /\ inbox' = Received(p, m)
    /\ activity' = Refreshed(p, m.from)
    /\ UNCHANGED <<status, setters, info, told, discovered, offered>>

\* Mutant: BYE drops the topics of the process and keeps its services.
RecvByeTopicsOnly(p, m) ==
    /\ m.type = "BYE"
    /\ inbox' = Received(p, m)
    /\ activity' = [activity EXCEPT ![p][m.from] = Absent]
    /\ told' = [told EXCEPT ![p] = [k \in Kinds |->
                   Disconnected(p, k, KeysOfProc(told[p][k], m.from))]]
    /\ info' = [info EXCEPT ![p]["msg"] = DelAddressesByProc(@, m.from)]
    /\ UNCHANGED <<status, setters, discovered, offered>>

RecvBye(p, m) ==
    /\ m.type = "BYE"
    /\ inbox' = Received(p, m)
    /\ activity' = [activity EXCEPT ![p][m.from] = Absent]
    /\ told' = [told EXCEPT ![p] = [k \in Kinds |->
                   Disconnected(p, k, KeysOfProc(told[p][k], m.from))]]
    /\ info' = [info EXCEPT ![p] = [k \in Kinds |->
                   DelAddressesByProc(info[p][k], m.from)]]
    /\ UNCHANGED <<status, setters, discovered, offered>>

RecvUnadvertise(p, m) ==
    /\ m.type = "UNADVERTISE"
    /\ inbox' = Received(p, m)
    /\ activity' = Refreshed(p, m.from)
    /\ IF ScopeAdmits(m.scope, m.from, p)
       THEN /\ told' = [told EXCEPT ![p][m.kind] =
                             Disconnected(p, m.kind, {KeyOf(EntryOf(m))})]
            /\ info' = [info EXCEPT ![p][m.kind] =
                           DelAddressByNode(@, m.topic, m.from, m.node)]
       ELSE UNCHANGED <<info, told>>
    /\ UNCHANGED <<status, setters, discovered, offered>>

DispatchDiscoveryMsg(p, m) ==
    /\ m \in inbox[p]
    /\ \/ RecvAdvertise(p, m)
       \/ RecvSubscribe(p, m)
       \/ RecvHeartbeat(p, m)
       \/ RecvBye(p, m)
       \/ RecvUnadvertise(p, m)

---------------------------------------------------------------------------
\* steady_clock: time passes at the same pace for everyone.
Tick ==
    /\ \E p, q \in Procs : activity[p][q] \in 0..Silence
    /\ activity' = [p \in Procs |-> [q \in Procs |->
                       IF activity[p][q] \in 0..Silence THEN activity[p][q] + 1
                       ELSE activity[p][q]]]
    /\ UNCHANGED <<status, setters, info, inbox, told, discovered, offered>>

\* What p's nodes can offer.
Offerable(p) == {e \in Entry : e.proc = p /\ e.addr = p /\ OwnerOf[e.node] = p}

ClientCall(p) ==
    \/ SetCallback(p)
    \/ \E k \in Kinds, e \in Offerable(p) :
          <<k, e.scope>> \in Advertised /\ Advertise(p, k, e)
    \/ \E k \in Kinds : \E e \in Own(p, k) : Unadvertise(p, k, e)
    \/ \E i \in Interests[p] : Discover(p, i[1], i[2])

Next ==
    \/ Tick
    \/ \E p \in Procs :
          \/ Start(p)
          \/ Stop(p)
          \/ Crash(p)
          \/ ClientCall(p)
          \/ ActivityTask(p)
          \/ ActivityTaskAborts(p)
          \/ HeartbeatTask(p)
          \/ \E m \in inbox[p] : DispatchDiscoveryMsg(p, m)

Spec == Init /\ [][Next]_vars

\* The three threads of a running process keep running and time passes.  The
\* socket is a queue, so an advertisement that arrived is eventually read.  The
\* network is fair-lossy: what the heartbeat thread sends again and again gets
\* through again and again.  Nothing makes a client call or a process end.
Fairness ==
    /\ WF_vars(Tick)
    /\ \A p \in Procs :
          /\ WF_vars(ActivityTask(p) \/ ActivityTaskAborts(p))
          /\ WF_vars(\E m \in inbox[p] : DispatchDiscoveryMsg(p, m))
    /\ \A p \in Procs : \A q \in Procs \ {p}, k \in Kinds, e \in Offerable(p) :
          /\ SF_vars(/\ HeartbeatTask(p)
                     /\ Adv("ADVERTISE", k, e) \in inbox'[q])
          /\ WF_vars(DispatchDiscoveryMsg(q, Adv("ADVERTISE", k, e)))

FairSpec == Spec /\ Fairness

---------------------------------------------------------------------------
TypeOK ==
    /\ status \in [Procs -> {"off", "up", "down"}]
    /\ setters \in [Procs -> 0..4]
    /\ info \in [Procs -> [Kinds -> SUBSET Entry]]
    /\ activity \in [Procs -> [Procs -> Ages]]
    /\ inbox \in [Procs -> SUBSET Msg]
    /\ told \in [Procs -> [Kinds -> SUBSET Key]]
    /\ discovered \in [Procs -> SUBSET (Kinds \X Topics)]
    /\ offered \in SUBSET Offers

\* Every process with an address in infoMsg or infoSrv has an entry in the
\* activity map.  RunActivityTask looks at nothing else, so an address without
\* it would stay for ever, whatever BYE, UNADVERTISE and expiry did in which
\* order.
InfoHasActivity ==
    \A p \in Procs, k \in Kinds : \A e \in info[p][k] :
        e.proc # p => activity[p][e.proc] # Absent

\* For a topic or service passed to Discover the callbacks have announced every
\* address of the table, whichever of them were set when it arrived: between
\* the start of the threads and the last setter an address is stored and
\* announced to nobody, and Discover has to make up for it.
DiscoveredInSync ==
    \A p \in Procs, k \in Kinds, t \in Topics :
        <<k, t>> \in discovered[p] =>
            {KeyOf(e) : e \in {f \in info[p][k] : f.topic = t /\ f.proc # p}}
                \subseteq told[p][k]

\* The offers of others that p's client still believes in, from nothing but the
\* callbacks it got, although p's table has lost them.
Ghosts(p, k) ==
    {x \in told[p][k] : x.proc # p /\ \A e \in info[p][k] : KeyOf(e) # x}

\* From the moment its disconnection callback is set the client is told of the
\* end of every offer it believes in, be it by UNADVERTISE, by BYE or by expiry;
\* only of services that expire it is not.  (What ended before that moment it
\* may believe in for ever.)
EndsAreTold ==
    [][\A p \in Procs, k \in Kinds :
          HearsEnds(p, k) =>
              Ghosts(p, k)' \ Ghosts(p, k) \subseteq
                  {x \in Key : k = "srv" /\ x.proc \in Expired(p)}]_vars

\* Discovery.hh:257 of SetDisconnectionsSrvCb: "Each time a service is no longer
\* available, the callback will be executed."
ServiceEndsAreTold ==
    [][\A p \in Procs :
          HearsEnds(p, "srv") => Ghosts(p, "srv")' \subseteq Ghosts(p, "srv")]_vars

\* The service implements the abstract Directory: processes only know what was
\* really offered, as far as its scope reaches, once, and nobody but the owner
\* takes an offer out of the owner's own tables.
Known(p) ==
    UNION {{[kind |-> k, entry |-> e] : e \in info[p][k]} : k \in Kinds}

Dir == INSTANCE Directory WITH known <- [p \in Procs |-> Known(p)]

RefinesDirectory == Dir!Spec

\* A process that ended, with or without a BYE, and whatever was still on its
\* way when it did, is forgotten for good by every process that runs.
DeadForgotten ==
    \A p, q \in Procs :
        status[q] = "down" ~>
            [](Up(p) => \A k \in Kinds : AddressesByProc(info[p][k], q) = {})

\* As long as both run, what one keeps offering the other comes to know, again
\* and again if it has to, after any losses, late UNADVERTISE messages and
\* premature expiry: RunHeartbeatTask sends the offers again.
LiveKnown ==
    \A p, q \in Procs : \A k \in Kinds, e \in Offerable(q) :
        (p # q /\ ScopeAdmits(e.scope, q, p)) =>
            (<>[](Up(p) /\ Up(q) /\ e \in info[q][k])
                => []<>HasEntry(info[p][k], e))

=============================================================================

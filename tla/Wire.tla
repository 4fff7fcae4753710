-------------------------------- MODULE Wire --------------------------------
(***************************************************************************)
(* A topic on its way: from the name a user gives to a node, through the   *)
(* fully qualified name and the datagram, into the table of another        *)
(* process and the list that a node there shows, and back again when the   *)
(* first node is destroyed.                                                *)
(*                                                                         *)
(* One process with one node speaks, one with another node listens.  The   *)
(* datagrams arrive in order: module Discovery has the losses, the other   *)
(* orders, and the threads.                                                *)
(***************************************************************************)
EXTENDS Names, Packets

CONSTANTS Partitions,   \* what users give to the constructor of Node
          Namespaces,
          Topics,       \* what users give to Advertise
          Scopes,
          PUuid, NUuid, Addr, Ctrl,   \* of the node and its process
          SameHost,     \* the two processes share a host
          MaxOffers,    \* bound: topics and services advertised at a time
          MaxInFlight   \* bound: datagrams not yet read

Version == 1
MaxRcvStr == 65536
Kinds == {"msg", "srv"}

ASSUME WireAssumption ==
    /\ Partitions \cup Namespaces \cup Topics \subseteq Bytes
    \* Names and the other strings fit into a datagram.
    /\ \A p \in Partitions, n \in Namespaces, t \in Topics :
          Len(p) + Len(n) + Len(t) + 5 < MaxRcvStr
    /\ \A s \in {PUuid, NUuid, Addr, Ctrl} : Len(s) < MaxRcvStr
    /\ Scopes \subseteq {Process, Host, All}
    /\ {PUuid, NUuid, Addr, Ctrl} \subseteq Bytes \ {<<>>}
    /\ SameHost \in BOOLEAN
    /\ MaxOffers \in Nat
    /\ MaxInFlight \in Nat

VARIABLES
    node,         \* the speaking node: its partition and namespace
    peer,         \* the listening one
    status,       \* the node is "alive", "destroyed", or its process "ended"
    advertised,   \* topicsAdvertised and srvsAdvertised of the node
    own,          \* its entries in infoMsg and infoSrv of its process
    heard,        \* its entries in infoMsg and infoSrv of the other process
    net,          \* datagrams, each with the message it was made of
    widened       \* history: topics announced to the other process although
                  \* the scope of their entry keeps them from it

vars == <<node, peer, status, advertised, own, heard, net, widened>>

AdvTypes == {AdvType, AdvSrvType, UnadvType, UnadvSrvType}
SubTypes == {SubType, SubSrvType}

KindOf(type) == IF type \in {AdvType, UnadvType, SubType} THEN "msg" ELSE "srv"

HeaderOf(type) == [version |-> Version, pUuid |-> PUuid, type |-> type, flags |-> 0]

\* "not used"
NotUsed == <<110, 111, 116, 32, 117, 115, 101, 100>>

\* Discovery::SendMsg.  The buffer is as long as GetMsgLength says and filled
\* with zeros; what Pack answers is not looked at.
Sent(length, packed) ==
    [i \in 1 .. length |-> IF i \in DOMAIN packed THEN packed[i] ELSE 0]

AdvDatagram(type, name, scope) ==
    LET m == [header |-> HeaderOf(type), topic |-> name, addr |-> Addr,
              ctrl |-> Ctrl, nUuid |-> NUuid, scope |-> scope,
              msgTypeName |-> NotUsed]
    IN  [msg |-> m, data |-> Sent(AdvertiseMsgLength(m), PackAdvertiseMsg(m))]

SubDatagram(type, name) ==
    LET m == [header |-> HeaderOf(type), topic |-> name]
    IN  [msg |-> m, data |-> Sent(SubscriptionLength(m), PackSubscription(m))]

PlainDatagram(type) ==
    LET h == HeaderOf(type)
    IN  [msg |-> [header |-> h], data |-> Sent(GetHeaderLength(h), PackHeader(h))]

\* What DispatchDiscoveryMsg reads from a datagram.
Unpacked(b) ==
    LET h == UnpackHeader(b)
        k == GetHeaderLength(h)
    IN  CASE h.type \in AdvTypes ->
               With([header |-> h], UnpackAdvertiseMsg(b, k))
          [] h.type \in SubTypes -> With([header |-> h], UnpackSubscription(b, k))
          [] OTHER -> [header |-> h]

Name(n, topic) == GetFullyQualifiedName(n.partition, n.ns, topic)

Init ==
    /\ node \in {Constructed(p, n) : p \in Partitions, n \in Namespaces}
    /\ peer \in {Constructed(p, n) : p \in Partitions, n \in Namespaces}
    /\ status = "alive"
    /\ advertised = [k \in Kinds |-> {}]
    /\ own = [k \in Kinds |-> {}]
    /\ heard = [k \in Kinds |-> {}]
    /\ net = <<>>
    /\ widened = {}

\* An offer of this scope is not for the other process.
Ignored(scope) == scope = Process \/ (scope = Host /\ ~SameHost)

\* Discovery::Advertise.  AddAddress keeps an entry of the same node as it is,
\* with its first scope; the message has the new one.
Advertise(kind, topic, scope) ==
    LET name == Name(node, topic)
        type == IF kind = "msg" THEN AdvType ELSE AdvSrvType
    IN  /\ status = "alive" /\ IsValidTopic(topic)
        /\ advertised' = [advertised EXCEPT ![kind] = @ \cup {name}]
        /\ own' = IF \E e \in own[kind] : e.topic = name THEN own
                  ELSE [own EXCEPT ![kind] = @ \cup {[topic |-> name, scope |-> scope]}]
        /\ Cardinality(own'["msg"]) + Cardinality(own'["srv"]) <= MaxOffers
        /\ net' = IF scope = Process THEN net
                  ELSE Append(net, AdvDatagram(type, name, scope))
        /\ widened' = IF kind = "msg" /\ ~Ignored(scope)
                      THEN widened \cup
                           {e.topic : e \in {f \in own["msg"] : f.topic = name
                                                              /\ Ignored(f.scope)}}
                      ELSE widened
        /\ UNCHANGED <<node, peer, status, heard>>

\* Discovery::Unadvertise of the topics with these names.
Withdraw(names) ==
    LET gone == {e \in own["msg"] : e.topic \in names}
    IN  /\ own' = [own EXCEPT !["msg"] = @ \ gone]
        /\ \E order \in SetToSeqs({AdvDatagram(UnadvType, e.topic, e.scope) :
                                      e \in {f \in gone : f.scope # Process}}) :
              net' = net \o order

\* Unadvertise and UnadvertiseSrv; both withdraw a topic, never a service.
Unadvertise(kind, topic) ==
    /\ status = "alive" /\ IsValidTopic(topic)
    /\ advertised' = [advertised EXCEPT ![kind] = @ \ {Name(node, topic)}]
    /\ Withdraw({Name(node, topic)})
    /\ UNCHANGED <<node, peer, status, heard, widened>>

\* The names that ~Node finds again: AdvertisedTopics and AdvertisedServices
\* list them without their partitions, Unadvertise and UnadvertiseSrv qualify
\* what is listed, if it is valid.
FoundAgain(kind) ==
    {Name(node, t) : t \in {u \in {Strip(n) : n \in advertised[kind]} :
                                IsValidTopic(u)}}

Destroy ==
    /\ status = "alive"
    /\ status' = "destroyed"
    /\ advertised' = [k \in Kinds |-> advertised[k] \ FoundAgain(k)]
    /\ Withdraw(FoundAgain("msg") \cup FoundAgain("srv"))
    /\ UNCHANGED <<node, peer, heard, widened>>

Discover(kind, topic) ==
    /\ status = "alive" /\ IsValidTopic(topic)
    /\ net' = Append(net, SubDatagram(IF kind = "msg" THEN SubType ELSE SubSrvType,
                                      Name(node, topic)))
    /\ UNCHANGED <<node, peer, status, advertised, own, heard, widened>>

\* The heartbeat, without the offers that module Discovery repeats with it.
Heartbeat ==
    /\ status # "ended"
    /\ net' = Append(net, PlainDatagram(HeartbeatType))
    /\ UNCHANGED <<node, peer, status, advertised, own, heard, widened>>

\* ~Discovery: the process ends, after its node.
End ==
    /\ status = "destroyed"
    /\ status' = "ended"
    /\ own' = [k \in Kinds |-> {}]
    /\ net' = Append(net, PlainDatagram(ByeType))
    /\ UNCHANGED <<node, peer, advertised, heard, widened>>

\* DispatchDiscoveryMsg, as far as the tables are concerned.
Applied(m) ==
    LET type == m.header.type
        k == KindOf(type)
        e == [topic |-> m.topic, addr |-> m.addr, ctrl |-> m.ctrl,
              proc |-> m.header.pUuid, node |-> m.nUuid, scope |-> m.scope]
    IN  IF type \in AdvTypes /\ Ignored(m.scope) THEN heard
        ELSE CASE type \in {AdvType, AdvSrvType} ->
                    IF \E f \in heard[k] : f.topic = e.topic /\ f.proc = e.proc
                                           /\ f.addr = e.addr /\ f.node = e.node
                    THEN heard ELSE [heard EXCEPT ![k] = @ \cup {e}]
               [] type \in {UnadvType, UnadvSrvType} ->
                    [heard EXCEPT ![k] = {f \in @ : \/ f.topic # e.topic
                                                    \/ f.proc # e.proc
                                                    \/ f.node # e.node}]
               [] type = ByeType ->
                    [l \in Kinds |-> {f \in heard[l] : f.proc # m.header.pUuid}]
               [] OTHER -> heard

RecvDiscoveryUpdate ==
    /\ net # <<>>
    /\ net' = Tail(net)
    /\ heard' = Applied(Unpacked(Head(net).data))
    /\ UNCHANGED <<node, peer, status, advertised, own, widened>>

Next ==
    \/ RecvDiscoveryUpdate
    \/ /\ Len(net) < MaxInFlight
       /\ \/ \E k \in Kinds, t \in Topics :
                \/ Unadvertise(k, t)
                \/ Discover(k, t)
                \/ \E s \in Scopes : Advertise(k, t, s)
          \/ Destroy
          \/ Heartbeat
          \/ End

Spec == Init /\ [][Next]_vars

---------------------------------------------------------------------------
Ends == [partition : Bytes, ns : Bytes]

TypeOK ==
    /\ node \in Ends /\ peer \in Ends
    /\ status \in {"alive", "destroyed", "ended"}
    /\ \A k \in Kinds :
          /\ advertised[k] \subseteq Bytes
          /\ own[k] \subseteq [topic : Bytes, scope : {Process, Host, All}]
          /\ heard[k] \subseteq [topic : Bytes, addr : Bytes, ctrl : Bytes,
                                 proc : Bytes, node : Bytes,
                                 scope : {Process, Host, All}]
    /\ \A i \in DOMAIN net :
          /\ net[i].data \in Bytes
          /\ net[i].msg \in AdvertiseMsg \cup SubscriptionMsg \cup [header : Header]
    /\ widened \subseteq Bytes

\* What the datagram d holds is what was put in; an AdvertiseSrv in its place
\* would be read as well.
Intact(d) ==
    LET m == d.msg
        type == m.header.type
    IN  /\ Unpacked(d.data) = m
        /\ CASE type \in AdvTypes ->
                  LET srv == With([x \in DOMAIN m \ {"msgTypeName"} |-> m[x]],
                                  [reqTypeName |-> NotUsed, repTypeName |-> m.topic])
                      packed == PackAdvertiseSrv(srv)
                      body == UnpackAdvertiseSrv(packed, GetHeaderLength(srv.header))
                  IN  /\ Len(PackAdvertiseMsg(m)) = Len(d.data)
                      /\ Len(packed) = AdvertiseSrvLength(srv)
                      /\ UnpackHeader(packed) = srv.header
                      /\ With([header |-> srv.header], body) = srv
             [] type \in SubTypes -> Len(PackSubscription(m)) = Len(d.data)
             [] OTHER -> Len(PackHeader(m.header)) = Len(d.data)

\* Every datagram fills its buffer to the last byte, no more, and the receiver
\* reads from it what was put in: each kind of message, with whatever lengths
\* its strings have.  AdvertiseSrv, which no one sends, is as good as the
\* AdvertiseMsg that is sent in its place.
DatagramsIntact == \A i \in DOMAIN net : Intact(net[i])

\* Without the slashes at its ends.
Trimmed(s) ==
    LET t == IF StartsWithSlash(s) THEN Tail(s) ELSE s
    IN  IF EndsWithSlash(t) THEN Front(t) ELSE t

Path(n, topic) ==
    IF StartsWithSlash(topic) \/ Trimmed(n.ns) = <<>> THEN Trimmed(topic)
    ELSE Trimmed(n.ns) \o <<Slash>> \o Trimmed(topic)

ValidTopics == {t \in Topics : IsValidTopic(t)}

\* Two nodes meet on a topic exactly when they are in the same partition and
\* mean the same path, however the slashes of partition, namespace and topic
\* are spelt on either side.
NamesMeet ==
    \A t, u \in ValidTopics :
        Name(node, t) = Name(peer, u) <=>
            /\ Trimmed(node.partition) = Trimmed(peer.partition)
            /\ Path(node, t) = Path(peer, u)

\* The filters of the SUB sockets are prefixes.  A subscription in one partition
\* never lets the topics of another one through: not those of a partition whose
\* name it begins with, and not with the help of a namespace.
PartitionsApart ==
    \A n \in advertised["msg"], u \in ValidTopics :
        IsPrefix(Name(peer, u), n) => Trimmed(node.partition) = Trimmed(peer.partition)

Known(k) == {e.topic : e \in heard[k]}
Listed(k) == GetTopicList(peer.partition, Known(k))

\* What GetTopicList and GetServiceList list leads back: a node can subscribe to
\* whatever it is shown, and gets the topic or service that discovery knows,
\* never one of the same path in another partition or namespace.  A node whose
\* partition was given without slashes at its ends misses nothing of it.
ListsLeadBack ==
    \A k \in Kinds :
        /\ \A t \in Listed(k) : IsValidTopic(t) /\ Name(peer, t) \in Known(k)
        /\ Trimmed(node.partition) = peer.partition =>
              \A n \in Known(k) : \E t \in Listed(k) : Name(peer, t) = n

\* Node.cc:106 and 114: "The list of advertised topics should be empty." when a
\* node is destroyed, which takes back every topic whose name its lists lead
\* back to.  Whatever topic another process knows, once its messages are read,
\* its node still has in its own table, or has announced anew with a wider
\* scope than the entry's: nothing else outlives Unadvertise, UnadvertiseSrv
\* and ~Node.  Nothing at all outlives the process.
TakenBack ==
    /\ status # "alive" => own["msg"] = {} /\ \A k \in Kinds : advertised[k] = {}
    /\ net = <<>> => Known("msg") \subseteq {e.topic : e \in own["msg"]} \cup widened
    /\ status = "ended" /\ net = <<>> => \A k \in Kinds : heard[k] = {}

\* Discovery.hh:106: Unadvertise sends a message "that will cancel all the
\* discovery information for the topic or service advertised by a specific
\* node".  The message is withheld or discarded by the scope that the topic was
\* first advertised with, whatever scope the others learned it with later.
UnadvertisedCancelled == net = <<>> => Known("msg") \subseteq advertised["msg"]

\* Node.hh:561: "true if the service was successfully unadvertised".  Nobody is
\* told: UnadvertiseSrv unadvertises a topic of that name.
ServicesUnadvertised == net = <<>> => Known("srv") \subseteq advertised["srv"]

\* Node.hh:564: "Get the list of topics currently advertised in the network", of
\* the node's own partition.  A node whose partition was given with a slash at
\* one of its ends is shown nothing, though it meets the others on every topic.
ListsOwnPartition ==
    \A k \in Kinds :
        Trimmed(node.partition) = Trimmed(peer.partition) =>
            Listed(k) = {Strip(n) : n \in Known(k)}

=============================================================================

# A TLA+ development of Ignition Transport

Ignition Transport is a library for processes that publish and subscribe to
topics and call each other's services.  There is no broker: every process runs a
discovery service over UDP multicast, and once two processes know each other they
talk over 0MQ sockets.  This directory models that machinery in TLA+, checks it
with TLC and proves theorems about it with TLAPS.

Contents: [inventory](#inventory), [modules](#modules), [runs](#runs), [what the
failing runs show](#what-the-failing-runs-show), [departures without a
configuration](#departures-without-a-configuration), [fairness](#fairness),
[proofs](#proofs), [only model-checked, not modelled](#limits), [plan](#plan).

## Inventory

| Component (source) | State | Operations | Interacts with |
|---|---|---|---|
| `TopicStorage` | topic -> process -> vector of addresses | `AddAddress`, `DelAddressByNode`, `DelAddressesByProc`, queries | used for `infoMsg`, `infoSrv`, `connections`, `remoteSubscribers` |
| `HandlerStorage` | topic -> node -> handler UUID -> handler | `AddHandler`, `RemoveHandler`, `RemoveHandlersForNode`, queries | subscriptions, repliers, pending requests |
| `Discovery` | `infoMsg`, `infoSrv`, `activity` (when each process was last heard), four callbacks | `Advertise`, `Unadvertise`, `Discover`; activity, heartbeat and reception threads | UDP multicast; callbacks into `NodeShared` with the discovery mutex held |
| `NodeShared`, topics | `localSubscriptions`, `connections`, `remoteSubscribers`, PUB/SUB/control sockets | `OnNewConnection`, `OnNewDisconnection`, `RecvControlUpdate`, `Publish`, `RecvMsgUpdate` | 0MQ; one reception thread; one mutex |
| `NodeShared`, services | `repliers`, `requests`, `srvConnections`, ROUTER sockets | `OnNewSrvConnection`, `OnNewSrvDisconnection`, `SendPendingRemoteReqs`, `RecvSrvRequest`, `RecvSrvResponse` | the same |
| `Node` | the topics and services of one node | `Advertise`, `Subscribe`, `Publish`, `Request`, their inverses, lists | takes both mutexes and calls the two classes above |
| `Packet` | - | pack, unpack | `Discovery::SendMsg`, `DispatchDiscoveryMsg` |
| `TopicUtils` | - | validity and composition of names | every call of `Node` |
| `NetUtils`, `Uuid`, `ign` | - | interface addresses, random bits, command line | - |

What is hard here: three threads of discovery, one of `NodeShared` and the user's
threads share two mutexes; datagrams are lost and reordered; processes end
without notice and are noticed by silence only; threads run before the callbacks
they use are set; one endpoint serves many topics; a blocking call gives up while
its request lives on.  `PROJECT.json` lists these hazards at their lines, with
the properties that watch them.

What makes the parts correct:

* *TopicStorage*: it is a set of entries, and its presence tests may be trusted.
* *Discovery*: nothing is known that was not offered or is out of scope; a dead
  process is forgotten for good; a live one is known again and again; the
  callbacks announce what was discovered and tell of its end.
* *HandlerStorage*: it is a set of registrations, at most one for a handler UUID,
  and no query meets an empty inner map.
* *Topics*: an interest in a known topic is connected, filtered, and connected
  once; a message runs a handler once; who subscribes is registered where it is
  published and stays so.
* *Services*: a call runs at most once, is answered at most once, is not left
  lying when there is someone to send it to, and what is marked as sent was sent.
* *Locks*: no two threads wait for each other, no table is written while
  another thread uses it, and who waits for a response holds no mutex.
* *Names and packets*: what one node spells, another one that means the same
  finds, in its own partition only; a datagram is read as it was written; what
  is withdrawn is no longer known to anybody.

## Modules

| Module | Models | State and actions |
|---|---|---|
| `Addresses` | what each `TopicStorage` method does to a set of entries | operators only; the other modules keep their tables in this form |
| `AddressBook` | what `TopicStorage` promises (`Spec`), and the same without the answer of `DelAddressesByProc` (`EntriesSpec`) | `book`, and the answer `ret` of the last call |
| `Maps` | `std::map` as a function | operators only |
| `TopicStorage` | `TopicStorage.cc` | `data`: nested maps of vectors, one action per method that changes them; `Book` is the refinement mapping |
| `HandlerRegistry` | what `HandlerStorage` promises (`Spec`), and the same without the answer of `RemoveHandler` (`RegistrationsSpec`) | a set of registrations, and `ret` |
| `HandlerStorage` | `HandlerStorage.hh` | `data`: maps of maps of maps, one action per method that changes them; `Registry` is the refinement mapping |
| `Directory` | what discovery promises: `Offer`, `Withdraw`, `Learn`, `Forget`, `End` | `offered`, `known` |
| `Discovery` | `Discovery.cc` in every process, and the network | `info` (`infoMsg`, `infoSrv`), `activity`, `inbox` (datagrams that arrived), `setters` (how many of the four callbacks are set), `told` (what the callbacks said), histories |
| `PubSub` | topics: `Node.cc`, `Node.hh`, `NodeShared.cc` | `subs`, `connections`, `links` (0MQ connections), `filters` (0MQ counts them), `remoteSubs`, `ctrl`, the history `refused` (connects that threw); composed with the actions of `Directory` |
| `Messages` | `Node::Publish`, `NodeShared::Publish`, `RecvMsgUpdate` | extends `PubSub` with `queue` (copies in the SUB sockets) and the histories `sent` and `ran` |
| `Calls` | what a service call promises | `outcome`, `ran` |
| `Services` | services: `Node.cc`, `Node.hh`, `NodeShared.cc`, `ReqHandler.hh` | `repliers`, `conns`, `handler` (`requests` and the requested flag), `wire`, the history `early`; composed with the actions of `Directory`; refines `Calls` |
| `Locks` | the two mutexes under all calls, callbacks and threads | `todo`: the steps each thread has still to take; `held`: how often it has locked each mutex |
| `Names` | `TopicUtils.cc`, `Node`'s constructor and lists | operators on sequences of ASCII codes |
| `Packets` | `Packet.cc` | operators: packing, lengths and unpacking of each kind of message, byte by byte |
| `Wire` | a topic from `Advertise` of one node to the list of another | the two nodes, what one advertises, its entries in the tables of both processes, the datagrams between them, the history `widened` |
| `DiscoveryProofs` | theorems about `Discovery`, with the refinement of `Directory` | - |
| `TopicStorageProofs`, `HandlerStorageProofs` | theorems about the two storages and their refinements | - |
| `PubSubProofs`, `MessagesProofs` | theorems about `PubSub` and about `Messages` on top of it | - |
| `ServicesProofs` | theorems about `Services`, with the refinement of `Calls` | - |
| `LocksProofs` | theorems about `Locks` | - |
| `WireProofs` | theorems about `Wire`, and about the operators of `Packets` and `Names` under it | - |
| `MC...` | instances for TLC | - |

Names follow the source: action `Subscribe` is `Node::Subscribe`, `RecvBye` is
the BYE case of `DispatchDiscoveryMsg`, and so on; the "map" of `PROJECT.json`
has the lines.  `Discovery` handlers hold `DiscoveryPrivate::mutex` and
`NodeShared` handlers `NodeShared::mutex` from the first to the last access, so
each is one action; `Locks` is where this is looked at more closely.
Definitions marked *Mutant* are deliberately wrong variants of the definition
that follows them, each breaking one property.

How the pieces fit: `TopicStorage` implements `AddressBook`, whose operators
(`Addresses`) `Discovery` and `PubSub` use for their tables; `HandlerStorage`
implements `HandlerRegistry`, the form in which `PubSub` and `Services` keep
handlers; `Discovery` implements `Directory`, whose actions `PubSub` and
`Services` take as their discovery service; `Messages` runs on every step of
`PubSub`; `Services` implements `Calls`.  `Wire` puts `Names` and `Packets`
together and takes the dispatch of a datagram without its losses, for which
`Discovery` stands, where names and payloads are opaque.

Abstractions worth knowing:

* A process is its UUID and never comes back; a restarted program has a new one.
  Its endpoints are named by it.  Outside `Names`, `Packets` and `Wire` names,
  payloads and control addresses are opaque; which name is a prefix of which is
  a constant of `Messages`, because 0MQ filters are prefixes.
* `activity` holds the age of the last message in ticks, up to the first value
  greater than the silence interval.  Expiry may therefore be premature, as when
  a machine is busy or datagrams are lost.
* A datagram reaches any subset of the running processes; what arrived is read
  in any order.  Messages a process sends to itself are discarded by the code
  and not delivered.
* The constructor of `NodeShared` sets the four callbacks one by one while the
  threads of discovery run; each is called from its setter on (`HearsNew`,
  `HearsEnds`).  Users call once the constructor is done.  In `Services` the
  moment the service callback is set is `Ready`.
* 0MQ is modelled from its use: connecting, disconnecting an endpoint that is
  not connected (throws), counted filters that are prefixes, a PUB socket that
  may drop a copy, ROUTER sockets that refuse unknown peers.  `Faults` of
  `PubSub` says whether a control message may be lost (its socket is closed
  after a linger time), whether a running process may be expired, and whether a
  connect may throw (`NodeShared.cc:711` drops the exception: nothing of that
  address is done).
* Numbers in packets have their width and byte order.
* In `Locks` tables have no contents and a branch that takes other locks is
  another sequence of steps.  User callbacks make at most one call, and callbacks
  of callbacks none.

## Runs

| Run | Instance | Shows |
|---|---|---|
| `topic_storage` | 2 topics, processes, nodes, endpoints, scopes; 4 addresses | the maps change like a set (`RefinesEntries`); presence tests are right (`QueriesAgree`); no duplicates |
| `handler_storage` | 2 topics, 2 nodes, 2 UUIDs, 2 handlers of each | the same for the handlers (`RefinesRegistrations`, `QueriesAgree`) |
| `discovery` | 2 processes on 2 hosts, topics of 3 scopes and services of scope All, silence 0 ticks, 2 datagrams | `InfoHasActivity`: no address escapes expiry; `DiscoveredInSync`: what was discovered is announced; `EndsAreTold`: and its end is told; `RefinesDirectory`: only what was offered is known, and only where its scope reaches |
| `discovery_live` | 2 processes, fair threads and network | `DeadForgotten`, `LiveKnown` |
| `pubsub` | 2 publishing nodes of one process, 2 subscribing nodes of another, one of which publishes too; filters set at most 3 times, 1 control message, false expiry, connects that throw | `NoDoubleConnect`, `InterestConnected`; `SubscribersKept`: who can reach a publisher is cut off there by expiry or by its own unadvertising only |
| `messages` | a publisher of 2 topics, one's name a prefix of the other's; a subscribing node beside it, another in a second process; no faults | `AtMostOnce`: no path gives a message to a handler twice; `SubscribersKept`: each topic has its own registration |
| `services` | 2 processes that both may reply to 2 services, 3 requests of one of them, one blocking | `CallsOnce`, `NoIdleRequest`, `ResponsesHaveHandlers`, `RespondersConnected` |
| `locks` | 2 user threads and the 4 of the library, all calls but the two lists, callbacks that publish or list what is advertised | `NoCircularWait`, `OnlyUnsubscribeCollides`, `WaiterLetsGo` |
| `wire` | partitions over "/" and "a" up to length 2, 4 namespaces, 7 topics; 3 scopes, 2 offers, 1 datagram (constraint `Few`) | `NamesMeet`, `PartitionsApart`, `ListsLeadBack`; `DatagramsIntact`; `TakenBack`: what is withdrawn or destroyed outlives that for one reason only |
| `shared_endpoint`, `scope_leak`, `lists_deadlock` | small instances | counterexamples, next section |

All passing runs but `discovery_live` check the type invariant of their module
as well.

Why the bounds are enough to be interesting.  Two datagrams in flight let an
ADVERTISE be overtaken by the BYE or UNADVERTISE sent after it.  Silence of no
tick separates "just heard" and "expired", and one tick in the other instances
"old" as well.  In `discovery` the processes are on different hosts, in
`discovery_live` on the same one.  Two publishing nodes of one process share its
endpoint (in `messages` two topics of one publisher do), two subscribing nodes
share the socket and the filter; a filter set twice is the first time the count
matters, and three times are needed for two publishers and a second subscriber.
In both runs control messages arrive: where one may be lost, `SubscribersKept`
says nothing.  One message is enough for `AtMostOnce`: messages do not see each
other. Three requests give two for the same service (one sent with the other's
callback) and one for a service of the same, already connected, process.  Two
user threads can both be in the calls that take both mutexes while all the
library's threads run.  Strings of up to two characters have a slash at either
end, at both, alone, or none, and one partition that is a prefix of another;
UUIDs and addresses have different lengths so that an offset taken from the wrong
one shows.  Two offers are two topics, or a topic and a service of one name; a
topic advertised again with another scope is one.  `Few` keeps two offers,
services and the narrow scopes to two partitions and two namespaces, as what
becomes of a name does not depend on how it was spelt.

`MaxInFlight`, `MaxControl`, `MaxFilters`, `MaxAddresses` and `MaxOffers` are the
only bounds in guards, `Few` is the only constraint.  Deadlock is not checked
where processes may all end; `TopicStorage`, `HandlerStorage` and `Locks` can
always move.

## What the failing runs show

Three runs check what a comment says of the program, and find that the code
does otherwise.

* `shared_endpoint`: unadvertising one topic of a process disconnects the
  endpoint that its other topics share.  Their entries stay in `connections`, so
  nothing reconnects; unadvertising another one disconnects again, which throws
  in the reception thread (`OnUnadvertisedAborts`).
* `scope_leak`: `Publish` of a topic that its node advertises with scope Process
  goes to the PUB socket whenever a remote subscriber is registered for the
  topic.  If another node of the process advertises the same topic to all, one
  is, and gets messages that were meant for the process only.
* `lists_deadlock`: `GetTopicList` (and `GetServiceList`) lock
  `NodeShared::mutex`, then discovery's.  Every discovery callback locks them in
  the other order.  A user thread and a thread of discovery wait for each other
  for ever.

### More counterexamples

Ten more configurations fail, each for one promise of a header or a comment,
which the property quotes.  They are not among the runs of `PROJECT.json`, which
has one run for each question; `tlc -config MCLocksRace.cfg MCLocks` and the like
show them.  Where the promise holds but for one exception, the property in
brackets, of a passing run, says that the exception is the only one.

* `MCLocksRace`, `NoRace`: `Unsubscribe` reads discovery's table without
  discovery's mutex (`Node.cc:289`, `Discovery.cc:339`), and every subscriber
  that is destroyed unsubscribes.  (`OnlyUnsubscribeCollides`)
* `MCPubSubBoth`, `OnlyLeaversDeleted`: `OnNewDisconnection` removes the node
  that stopped publishing from the remote subscribers (`NodeShared.cc:732`).  A
  node that publishes and subscribes to a topic is cut off by its own
  unadvertising. (`SubscribersKept`)
* `MCPubSubLeaver`, `LeaversDeleted`: `Unsubscribe` signs EndConnection with the
  address (`Node.cc:315`) where the registration had the process UUID, so the
  publisher keeps the subscriber.
* `MCServicesStale`, `RequestedIsSent`: a request is marked as requested before
  it is sent, and a refused send is ignored (`NodeShared.cc:580`), against
  `ReqHandler.hh:146`.  The first responser in the order of UUIDs may be the own
  process, whose offer `UnadvertiseSrv` leaves in the table and to which its
  requester is not connected; the request is lost though another responser is
  known.  A service learned before the callback was set is not connected either.
  (`RespondersConnected`, which is about the other processes)
* `MCDiscoveryExpiry`, `ServiceEndsAreTold`: expiry removes services without
  calling the service disconnection callback (`Discovery.cc:467`), which
  `Discovery.hh:257` promises. (`EndsAreTold`)
* `MCWireServices`, `ServicesUnadvertised`: `UnadvertiseSrv` passes
  `MsgType::Msg` (`Node.cc:375`): the service stays registered and advertised
  until its process ends, and a topic of the same name is withdrawn in its place.
* `MCWireCancelled`, `UnadvertisedCancelled`: a topic that is advertised with
  scope Process and again with scope All keeps the first scope in its own table
  (`TopicStorage.cc:46`) and is announced with the second.  Its UNADVERTISE is
  withheld by the first, so that the others keep it, also when its node was
  destroyed.  The same happens between scopes Host and All to processes on other
  hosts.  (`TakenBack`)
* `MCWireLists`, `ListsOwnPartition`: a node that was given a partition with a
  slash at an end, as "/p", is listed nothing by `GetTopicList` (`Node.cc:399`):
  the lists compare with the partition as given, the names have a normalised one.
  (`ListsLeadBack`)
* `MCTopicStorageAnswer`, `RefinesBook`: `DelAddressesByProc` overwrites its
  counter in every round of its loop, so its answer speaks of the last topic
  only.  No caller reads it.  (`RefinesEntries`)
* `MCHandlerStorageAnswer`, `RefinesRegistry`: `RemoveHandler` answers true only
  when the node's last handler went, not when the handler is removed.
  (`RefinesRegistrations`)

## Departures without a configuration

Met while modelling.  Each is in the models as the code does it, or named under
[limits](#limits); none contradicts a document outright.

* The heartbeat thread sends topics of scope Process to the network
  (`Discovery.cc:506`), which `Advertise` (`Discovery.cc:243`) takes care not to.
  Receivers discard them, which `RefinesDirectory` rests on.
* What ends between the setter of a connection callback and that of its
  disconnection callback is believed in for ever by a client that only listens;
  `EndsAreTold` begins with the second.
* BYE and expiry call `OnNewDisconnection` with an empty topic, under which
  `connections` holds nothing (`NodeShared.cc:753`): the entries and the socket's
  connection of a lost process stay.  Its endpoint never comes back.
* A remote subscriber is registered by one control message that nothing repeats.
  When it is lost, or the publisher alone expires the subscriber for a while, the
  subscriber is connected and gets nothing until another of its nodes or topics
  connects.  `SubscribersKept` is about systems in which none is lost, and
  allows the expiry.
* A connect that throws (`NodeShared.cc:711`) is tried again only when discovery
  announces the offer anew or another subscription asks; `InterestConnected`
  leaves these offers out (`Reachable`).
* The reception thread of `NodeShared` polls its sockets without the mutex that
  others use them under (`NodeShared.cc:192`), and `PrintCurrentState` reads
  unlocked in verbose mode.
* User callbacks run with `NodeShared::mutex` held.  One that advertises,
  subscribes or requests takes discovery's mutex second: `NoCircularWait` fails
  with such calls among the `CallbackCalls`.  A blocking request made there
  waits with the mutex held (`WaiterLetsGo` fails): it was locked twice and is
  unlocked once.
* `AddHandler` keeps the handler of the same UUID that is there
  (`HandlerStorage.hh:126` speaks of replacing it).  The UUID is made with the
  handler, so only the same handler can come twice.

## Fairness

`FairSpec` of `Discovery` assumes that time passes, that the activity and the
reception thread of a running process keep running (their loops never block for
ever), that an advertisement in the socket's queue is eventually read (the queue
is first in, first out; the model's inbox is a set, so this is stated for each
advertisement), and that the network is fair-lossy: an advertisement the
heartbeat thread sends again and again arrives again and again (strong
fairness).  No client call, process end or other message is assumed.

## Proofs

Eight modules hold theorems that TLAPS checks.  They hold for every value of the
constants that the `...Assumption` of the module allows: any number of
processes, nodes, topics, messages, requests and threads, and any bound.  Where a
theorem has further hypotheses, they are those under which the code keeps the
promise; what happens outside them is listed
[above](#what-the-failing-runs-show).  Every safety property of the passing runs
is proved, and every refinement.

| Property | Theorem | Hypotheses |
|---|---|---|
| `TopicStorage`: `TypeOK`, `NoDuplicates`, `QueriesAgree`, `RefinesEntries` | `TypeCorrect`, `StoredOnce`, `QueriesCorrect`, `ImplementsEntries` | - |
| `HandlerStorage`: `TypeOK`, `QueriesAgree`, `RefinesRegistrations` | `TypeCorrect`, `QueriesCorrect`, `ImplementsRegistrations` | - |
| `Discovery`: `TypeOK`, `InfoHasActivity`, `DiscoveredInSync`, `EndsAreTold`, `RefinesDirectory` | `TypeCorrect`, `InfoIsWatched`, `KnownIsAnnounced`, `EndsTold`, `ImplementsDirectory` | - |
| `PubSub`: `TypeOK`, `NoDoubleConnect`, `InterestConnected`, `SubscribersKept` | `TypeCorrect`, `ConnectedOnce`, `InterestIsConnected`, `SubscribersStay` | - |
| `Messages`: `MTypeOK`, `AtMostOnce` | `MTypeCorrect`, `DeliveredOnce` | - |
| `Services`: `TypeOK`, `ResponsesHaveHandlers`, `NoIdleRequest`, `RespondersConnected`, `CallsOnce` | `TypeCorrect`, `ResponsesAnswered`, `NoneIdle`, `KnownConnected`, `ImplementsCalls` | - |
| `Locks`: `TypeOK`, `OnlyUnsubscribeCollides` | `TypeCorrect`, `NoneElseCollides` | - |
| `Locks`: `NoCircularWait` | `NoneWaitInCircle` | nobody calls `GetTopicList` (or `GetServiceList`); callbacks only publish, unsubscribe or ask for what is advertised |
| `Locks`: `WaiterLetsGo` | `WaitersLetGo` | callbacks make no blocking request |
| `Wire`: `TypeOK`, `DatagramsIntact`, `NamesMeet`, `PartitionsApart`, `ListsLeadBack`, `TakenBack` | `TypeCorrect`, `Intactness`, `NamesCorrect`, `PartitionsSeparate`, `ListsCorrect`, `Forgotten` | - |

The hypotheses on `Locks` hold in the run `locks` and allow more callbacks than
it makes.

### The arguments

**TopicStorage.**  The invariant says that no inner map or vector is empty, which
makes presence tests right, and that each vector is `Distinct`.  Most of the work
is the erase-remove of `DelAddressByNode`: `Keep` lists the positions that stay
in their order (`PositionsOf`), and `Kept` shows with ranks of positions
(`RankIs`) that the vector it builds has exactly the elements that stay, each
once. `RefinesEntries` follows method by method, with the set `Entries` of before
and after a call: nothing is lost, doubled or invented.

**HandlerStorage.**  The invariant is `TypeOK` and that no inner map is empty,
without which the first handler of a topic (`begin()`) would be read past the end
of a map.  `begin()` is the
least key, which exists because the library's order on naturals is well founded.

**Discovery.**  `TypeOK` is inductive.  So is `InfoHasActivity` with it: the only
steps that add a remote address refresh its sender's activity entry in the same
step, and the only ones that remove an entry remove the addresses with it.
`DeadForgotten` rests on this: an address that is not watched would never go
away.  `DiscoveredInSync` needs a stronger invariant (`SyncInv`): only a client
whose constructor is done, with all four callbacks set, has called `Discover`,
so that what arrives of a discovered topic is announced when it does.
`EndsAreTold` is about single steps: whatever takes an address out of a table
calls the disconnection callback in the same step, expiry of services excepted.

**Directory.**  What discovery promises holds because nothing in the system is
made up: every table entry and every advertisement in flight is of an offer
really made, a table has one scope for an address, and nobody has its own
messages in the inbox (`DirInv`).  Datagrams are read in any order, so this is
said of all of them; the scope is looked at when one is read.  Each step of each
thread is then a step of `Directory` or leaves it alone.

**PubSub and Messages.**  All rest on `KnownOffered`: what a process knows was
offered, with the offerer's address.  `NoDoubleConnect` is inductive together
with `RemoteConnections` (an entry is of another process, under that process's
endpoint).  `InterestConnected` is inductive with `KnownOffered`: a subscription
connects to all that is known, a callback connects if somebody is interested,
what throws is in `refused`, and whatever removes a connection or a filter takes
the interest or the known offer with it. `SubscribersKept` takes each step that
could add an interest, a known offer or a connection, or delete a registration:
the first three send a NewConnection for each subscribing node of the topic, and
a registration is deleted under the UUID of a process by the two named causes
only (`OwnSubscribers`: an EndConnection names no process).  `AtMostOnce` adds
one fact about messages, `OneCopy`: a message is in no socket twice, and never in
the socket of a process one of whose nodes was already given it.

**Services.**  `CallInv` follows a request: not placed, held in the table, on the
wire as one message, answered.  It says that there is never a second message for
the same request and that a response's handler is still there, also when the
blocking call has given up.  From it each step is a step of `Calls` or a stutter.
`SendPendingRemoteReqs` picks the first responser in the order of UUIDs, which
exists by well-foundedness.  `KnownConnected` needs in addition the history of
what became known before the callback was set.  `NoIdleRequest` counts a request
as sent when it is marked, also when the send was refused; what a mark is worth
is the question of `RequestedIsSent`.

**Locks.**  A thread's state is the list of steps it has still to take, so the
invariant must speak of code.  `Runs(code, a, b)` is a judgement as in Hoare's
logic: a thread that has locked the mutexes as often as `a` says may take the
steps of `code` and has then locked them as often as `b` says, never unlocking
too often, locking discovery's mutex second, using a table without its mutex, or
waiting with one in its hands.  The second and the last are asked for only when
the hypotheses allow it, and `Unsubscribe`'s look into discovery's table is a use
of its own, for which it has the other mutex; so one invariant serves the four
theorems.  The rules for sequences of steps and for a guarded block (`ThenRuns`,
`UnderRuns`) give the judgement for each call of the code in a few lines, and the
invariant is that every thread's rest of code runs from the locks it holds to
none.

**Wire.**  Three layers.  *Packets*: `Holds(b, k, s)` says that the buffer `b`
has the bytes `s` at offset `k`.  A string packed behind its length is read back
and ends where `AfterString` says, so that each field of a class is found behind
the one before it, whatever their lengths (`HeaderRead`, `SubscriptionRead`,
`AdvertiseMsgRead`, `AdvertiseSrvRead`).  *Names*: a valid part has no "@", no
space and no "//", so a qualified name has exactly two "@", and the second is the
last one; the part between them tells the partition, the part behind them the
path.  All spellings of a part have one form without its outer slashes
(`TrimmedForm`).  Equal names therefore have equal parts (`NamesEqual`), and a
name that begins with another has the same partition (`NamesBegin`).  *The
system*: `Followed` says what ties the tables to the datagrams.  Every topic that
is heard, or announced by a datagram under way, is still in the own table with a
scope that reaches the other process, or was announced with a wider one
(`Accounted`), or is retracted by a datagram that comes later; and who has ended
has a BYE under way behind everything else.  `Destroy` withdraws what it finds by
listing names and composing them again; that this leads back to every name
(`AllFound`) is the fact about `Strip` that `TakenBack` needs.

### How the models were written for it

Recursion is written as recursive functions or not at all, and vectors are
filtered by positions (`Keep`), since a definition with an operator as a
parameter (`SelectSeq`) cannot be expanded by the prover.  `PubSubAssumption`
says that an endpoint is never a UUID: a remote subscriber is stored under the
UUID of its process as its address, and the two must not be confused.  In `Locks`
the code of a call takes the callback it may run as a parameter.
`WireAssumption` has every name and every other string shorter than the longest
datagram (`MaxRcvStr`, 2^16 bytes), so that the two lowest bytes of a length are
all of it; `Packets` merges records with its own `With`, because `@@` is a matter
of TLC.

## Limits

Only model-checked:

* `DeadForgotten` and `LiveKnown`: liveness under fairness is out of the prover's
  reach, as is `ENABLED`;
* what the failing runs and configurations refute.

Not modelled, and why:

* the values of the intervals and real time: threads tick in any order, which
  allows more than the default periods do;
* network interfaces and UUID generation: system calls; UUIDs are unique values;
* the command line tool: prints the lists a node returns;
* parsing and printing of user payloads, setters, comparisons and printing of
  packets: no state that a property is about;
* the joining of the threads at shutdown and the order in which static objects
  are destroyed;
* the UNADVERTISE message of a service is in `Discovery` and in `Wire`'s
  dispatch, but no code outside the tests asks for one, so `Services` and
  `Wire` have no step that sends it.

`Services` has no message topics, so that `UnadvertiseSrv` withdraws nothing
there; `Wire` has both.

## Plan

What is left:

* a discovery instance with real periods (heartbeat, silence): no false expiry
  when fewer than a given number of datagrams are lost;
* refinement of the tables inside the composed modules: `Discovery` and `PubSub`
  hold sets of entries (`Addresses`), which `TopicStorage` is proved to implement
  by itself.

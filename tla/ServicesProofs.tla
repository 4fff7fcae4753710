--------------------------- MODULE ServicesProofs ---------------------------
(***************************************************************************)
(* Theorems about Services, for any processes, order of their UUIDs,       *)
(* nodes, service names and requests.                                      *)
(***************************************************************************)
EXTENDS Services, WellFoundedInduction, TLAPS

---------------------------------------------------------------------------
\* What sending does.

\* What is below is in the relation the library orders naturals by.
LEMMA LessIsRelated ==
    ASSUME NEW m \in Nat, NEW n \in Nat, m < n
    PROVE  <<m, n>> \in OpToRel(<, Nat)
  BY Zenon DEF OpToRel

\* Of some processes one is the first in their order (std::map::begin, as
\* SendPendingRemoteReqs takes its responser).
LEMMA FirstExists ==
    ASSUME NEW qs \in SUBSET Procs, qs # {}
    PROVE  \E x \in qs : \A y \in qs : Rank[x] <= Rank[y]
  <1> DEFINE T == {Rank[x] : x \in qs}
  <1>1. T \subseteq Nat /\ T # {}
    BY ServicesAssumption
  <1>2. PICK n \in T : \A m \in T : ~(<<m, n>> \in OpToRel(<, Nat))
    <2> HIDE DEF T
    <2> QED
      BY <1>1, NatLessThanWellFounded, WFMin
  <1>3. \A m \in T : ~(m < n)
    BY <1>1, <1>2, LessIsRelated
  <1>4. PICK x \in qs : n = Rank[x]
    OBVIOUS
  <1>5. ASSUME NEW y \in qs PROVE Rank[x] <= Rank[y]
    BY <1>1, <1>3, <1>4
  <1> QED
    BY <1>5

\* The request messages for the handlers rs, to process q.
RequestsTo(q, rs) == {[type |-> "REQ", to |-> q, req |-> r] : r \in rs}

\* SendPendingRemoteReqs marks its handlers and sends a request for each of
\* them to one process, or sends nothing.
LEMMA SendEffect ==
    ASSUME NEW p \in Procs, NEW t \in Topics, NEW rs \in SUBSET Reqs,
           NEW qs \in SUBSET Procs, qs # {}, NEW cs,
           SendPendingRemoteReqs(p, t, rs, qs, cs)
    PROVE  /\ handler' = [r \in Reqs |-> IF r \in rs THEN "requested"
                                         ELSE handler[r]]
           /\ \E q \in qs, got \in SUBSET rs :
                 wire' = wire \cup RequestsTo(q, got)
  <1> DEFINE q == FirstOf(qs)
  <1>1. q \in qs
    BY FirstExists DEF FirstOf
  <1> HIDE DEF q
  <1>2. \E got \in SUBSET rs :
           wire' = wire \cup RequestsTo(q, got)
    BY DEF SendPendingRemoteReqs, RequestsTo, q
  <1> QED
    BY <1>1, <1>2 DEF SendPendingRemoteReqs

---------------------------------------------------------------------------
\* What the handlers and the messages of a request tell of each other.

\* A request not made yet has no handler.
NotPlaced == \A r \in Reqs : outcome[r] = "none" => handler[r] = "none"

\* Only a process that runs has handlers.
HandlersOfLiving == \A r \in Reqs : handler[r] # "none" => Up(CallerOf[r])

\* A request not made, or made and not sent, has not run and is not on its way.
NotSent ==
    \A r \in Reqs : outcome[r] = "none" \/ handler[r] = "pending" =>
        ran[r] = 0 /\ \A m \in wire : m.req # r

\* A request on its way has not run; its caller waits for it or has ended.
RequestsUnrun ==
    \A m \in wire : m.type = "REQ" =>
        /\ ran[m.req] = 0
        /\ status[CallerOf[m.req]] # "down" => handler[m.req] = "requested"

\* A response is on its way to the caller of a request that ran and has a
\* handler.
ResponsesRun ==
    \A m \in wire : m.type = "REP" =>
        /\ ran[m.req] = 1
        /\ m.to = CallerOf[m.req]
        /\ handler[m.req] = "requested"

\* There is one message for a request, itself or its response.
OneMessage == \A m, n \in wire : m.req = n.req => m = n

CallInv ==
    NotPlaced /\ HandlersOfLiving /\ NotSent /\ RequestsUnrun /\ ResponsesRun
    /\ OneMessage

\* What discovery knows early stays on record, and what it makes known later is
\* connected to.
ConnInv ==
    \A p \in Procs : \A x \in known[p] :
        status[p] # "down" /\ x.entry.proc # p =>
            \/ x.entry.proc \in early[p]
            \/ Up(p) /\ x.entry.proc \in conns[p]

---------------------------------------------------------------------------
\* Types.

\* An offer of a node is one of the offers of its process (AdvertiseSrv).
LEMMA OfferType ==
    ASSUME NEW t \in Topics, NEW n \in Nodes
    PROVE  Offer(t, n) \in Offers /\ Offer(t, n).entry.proc = OwnerOf[n]
  BY ServicesAssumption DEF Offer, Offers

\* The fields of offers.
LEMMA OfferFields ==
    ASSUME NEW x \in Offers
    PROVE  x.entry.proc \in Procs /\ x.entry.topic \in Topics
  BY DEF Offers

\* The fields of messages.
LEMMA MessageFields ==
    ASSUME NEW m \in Message
    PROVE  m.type \in {"REQ", "REP"} /\ m.to \in Procs /\ m.req \in Reqs
  BY DEF Message

\* The discovery service keeps the types of its tables whichever of its
\* steps is taken (AdvertiseSrv, OnNewSrvConnection, OnProcessLost, End).
LEMMA DirTypes ==
    ASSUME TypeOK,
           \/ \E t \in Topics, n \in Nodes : Dir!Offer(Offer(t, n))
           \/ \E p \in Procs, x \in offered : Dir!Learn(p, x)
           \/ \E p \in Procs, S \in SUBSET Offers : Dir!Forget(p, S)
           \/ \E p \in Procs : Dir!End(p)
    PROVE  offered' \subseteq Offers /\ known' \in [Procs -> SUBSET Offers]
  <1>1. offered \subseteq Offers /\ known \in [Procs -> SUBSET Offers]
    BY DEF TypeOK
  <1>2. CASE \E t \in Topics, n \in Nodes : Dir!Offer(Offer(t, n))
    <2>1. PICK t \in Topics, n \in Nodes : Dir!Offer(Offer(t, n))
      BY <1>2
    <2>2. Offer(t, n) \in Offers
      BY OfferType
    <2> DEFINE x == Offer(t, n)
    <2> HIDE DEF x
    <2>3. Dir!Offer(x) /\ x \in Offers
      BY <2>1, <2>2 DEF x
    <2> QED
      BY <1>1, <2>3 DEF Dir!Offer
  <1>3. CASE \E p \in Procs, x \in offered : Dir!Learn(p, x)
    BY <1>1, <1>3 DEF Dir!Learn
  <1>4. CASE \E p \in Procs, S \in SUBSET Offers : Dir!Forget(p, S)
    BY <1>1, <1>4 DEF Dir!Forget
  <1>5. CASE \E p \in Procs : Dir!End(p)
    BY <1>1, <1>5 DEF Dir!End
  <1> QED
    BY <1>2, <1>3, <1>4, <1>5

\* Sending leaves handlers and messages on the wire.
LEMMA SendTypes ==
    ASSUME TypeOK, NEW p \in Procs, NEW t \in Topics, NEW rs \in SUBSET Reqs,
           NEW qs \in SUBSET Procs, qs # {}, NEW cs,
           SendPendingRemoteReqs(p, t, rs, qs, cs)
    PROVE  /\ handler' \in [Reqs -> {"none", "pending", "requested"}]
           /\ wire' \subseteq Message
  <1>1. handler' = [r \in Reqs |-> IF r \in rs THEN "requested" ELSE handler[r]]
    BY SendEffect
  <1>2. PICK q \in qs, got \in SUBSET rs : wire' = wire \cup RequestsTo(q, got)
    BY SendEffect
  <1> QED
    BY <1>1, <1>2 DEF TypeOK, Message, RequestsTo

\* The processes known to offer a service are processes (GetSrvAddresses).
LEMMA ResponsersType ==
    ASSUME TypeOK, NEW p \in Procs, NEW t \in Topics
    PROVE  Responsers(p, t) \in SUBSET Procs
  <1>1. known[p] \subseteq Offers
    BY DEF TypeOK
  <1> QED
    BY <1>1, OfferFields DEF Responsers

\* Every step keeps the types.
LEMMA TypeStep ==
    ASSUME TypeOK, [Next]_vars
    PROVE  TypeOK'
  <1> USE ServicesAssumption
  <1>1. ASSUME NEW p \in Procs, Ready(p) PROVE TypeOK'
    BY <1>1 DEF TypeOK, Ready
  <1>2. ASSUME NEW p \in Procs, End(p) PROVE TypeOK'
    <2>1. offered' \subseteq Offers /\ known' \in [Procs -> SUBSET Offers]
      BY <1>2, DirTypes DEF End
    <2>2. /\ handler' \in [Reqs -> {"none", "pending", "requested"}]
          /\ outcome' \in [Reqs -> {"none", "open", "answered", "timedOut", "ended"}]
      BY <1>2 DEF TypeOK, End
    <2>3. wire' \subseteq Message
      BY <1>2 DEF TypeOK, End
    <2> QED
      BY <1>2, <2>1, <2>2, <2>3 DEF TypeOK, End
  <1>3. ASSUME NEW t \in Topics, NEW n \in Repliers, AdvertiseSrv(OwnerOf[n], t, n)
        PROVE  TypeOK'
    <2>1. offered' \subseteq Offers /\ known' \in [Procs -> SUBSET Offers]
      BY <1>3, DirTypes DEF AdvertiseSrv
    <2>2. repliers' \in [Procs -> SUBSET (Topics \X Nodes)]
      <3>1. /\ n \in Nodes /\ OwnerOf[n] \in Procs /\ <<t, n>> \in Topics \X Nodes
            /\ repliers \in [Procs -> SUBSET (Topics \X Nodes)]
        BY DEF TypeOK
      <3>2. repliers[OwnerOf[n]] \cup {<<t, n>>} \in SUBSET (Topics \X Nodes)
        BY <3>1
      <3> QED
        BY <1>3, <3>1, <3>2 DEF AdvertiseSrv
    <2> QED
      BY <1>3, <2>1, <2>2 DEF TypeOK, AdvertiseSrv
  <1>4. ASSUME NEW t \in Topics, NEW n \in Repliers, UnadvertiseSrv(OwnerOf[n], t, n)
        PROVE  TypeOK'
    BY <1>4 DEF TypeOK, UnadvertiseSrv
  <1>5. ASSUME NEW p \in Procs, NEW x \in offered, OnNewSrvConnection(p, x)
        PROVE  TypeOK'
    <2>1. offered' \subseteq Offers /\ known' \in [Procs -> SUBSET Offers]
      BY <1>5, DirTypes DEF OnNewSrvConnection
    <2>2. x.entry.proc \in Procs /\ x.entry.topic \in Topics
      BY OfferFields DEF TypeOK
    <2>3. Responsers(p, x.entry.topic) \cup {x.entry.proc} \in SUBSET Procs
      <3>1. Responsers(p, x.entry.topic) \in SUBSET Procs
        BY <2>2, ResponsersType
      <3> QED
        BY <2>2, <3>1
    <2>4. Pending(p, x.entry.topic) \in SUBSET Reqs
      BY DEF Pending
    <2>5. /\ handler' \in [Reqs -> {"none", "pending", "requested"}]
          /\ wire' \subseteq Message
      <3> DEFINE qs == Responsers(p, x.entry.topic) \cup {x.entry.proc}
                 rs == Pending(p, x.entry.topic)
      <3>1. SendPendingRemoteReqs(p, x.entry.topic, rs, qs, conns'[p])
        BY <1>5 DEF OnNewSrvConnection
      <3>2. qs \in SUBSET Procs /\ qs # {} /\ rs \in SUBSET Reqs
        BY <2>3, <2>4
      <3> HIDE DEF qs, rs
      <3> QED
        BY <2>2, <3>1, <3>2, SendTypes
    <2> QED
      BY <1>5, <2>1, <2>2, <2>5 DEF TypeOK, OnNewSrvConnection
  <1>6. ASSUME NEW p \in Procs, NEW x \in offered, LearnEarly(p, x) PROVE TypeOK'
    <2>1. offered' \subseteq Offers /\ known' \in [Procs -> SUBSET Offers]
      BY <1>6, DirTypes DEF LearnEarly
    <2>2. x.entry.proc \in Procs
      BY OfferFields DEF TypeOK
    <2> QED
      BY <1>6, <2>1, <2>2 DEF TypeOK, LearnEarly
  <1>7. ASSUME NEW p \in Procs, NEW q \in Procs, OnProcessLost(p, q) PROVE TypeOK'
    <2>1. {x \in known[p] : x.entry.proc = q} \in SUBSET Offers
      BY DEF TypeOK
    <2>2. offered' \subseteq Offers /\ known' \in [Procs -> SUBSET Offers]
      BY <1>7, <2>1, DirTypes DEF OnProcessLost
    <2> QED
      BY <1>7, <2>2 DEF TypeOK, OnProcessLost
  <1>8. ASSUME NEW r \in Reqs, RequestLocal(r) PROVE TypeOK'
    BY <1>8 DEF TypeOK, RequestLocal
  <1>9. ASSUME NEW r \in Reqs, Request(r) PROVE TypeOK'
    <2> DEFINE p == CallerOf[r]
               t == TopicOf[r]
    <2>1. outcome' \in [Reqs -> {"none", "open", "answered", "timedOut", "ended"}]
      BY <1>9 DEF TypeOK, Request
    <2>2. CASE Responsers(p, t) # {}
      <3>1. SendPendingRemoteReqs(p, t, Pending(p, t) \cup {r},
                                  Responsers(p, t), conns[p])
        BY <1>9, <2>2 DEF Request
      <3>2. Responsers(p, t) \in SUBSET Procs /\ Pending(p, t) \cup {r} \in SUBSET Reqs
        BY ResponsersType DEF Pending
      <3>3. /\ handler' \in [Reqs -> {"none", "pending", "requested"}]
            /\ wire' \subseteq Message
        BY <2>2, <3>1, <3>2, SendTypes
      <3> QED
        BY <1>9, <2>1, <3>3 DEF TypeOK, Request
    <2>3. CASE Responsers(p, t) = {}
      BY <1>9, <2>1, <2>3 DEF TypeOK, Request
    <2> QED
      BY <2>2, <2>3
  <1>10. ASSUME NEW r \in Reqs, Timeout(r) PROVE TypeOK'
    BY <1>10 DEF TypeOK, Timeout
  <1>11. ASSUME NEW m \in wire, RecvSrvRequest(m) PROVE TypeOK'
    <2>1. m.req \in Reqs /\ CallerOf[m.req] \in Procs
      BY MessageFields DEF TypeOK
    <2>2. wire' \subseteq Message /\ ran' \in [Reqs -> Nat]
      BY <1>11, <2>1 DEF TypeOK, RecvSrvRequest, Message
    <2> QED
      BY <1>11, <2>2 DEF TypeOK, RecvSrvRequest
  <1>12. ASSUME NEW m \in wire, RecvSrvResponse(m) PROVE TypeOK'
    BY <1>12 DEF TypeOK, RecvSrvResponse, NotifyResult
  <1>13. CASE UNCHANGED vars
    BY <1>13 DEF TypeOK, vars
  <1> QED
    BY <1>1, <1>2, <1>3, <1>4, <1>5, <1>6, <1>7, <1>8, <1>9, <1>10, <1>11, <1>12,
       <1>13 DEF Next

\* Every variable of the service calls keeps its type.
THEOREM TypeCorrect == Spec => []TypeOK
  <1>1. Init => TypeOK
    BY DEF Init, Dir!Init, TypeOK
  <1>2. TypeOK /\ [Next]_vars => TypeOK'
    BY TypeStep
  <1> QED
    BY <1>1, <1>2, PTL DEF Spec

---------------------------------------------------------------------------
\* Handlers and messages.

\* Sending requests that were not sent before, as Request and
\* OnNewSrvConnection do, keeps what handlers and messages tell of each other.
LEMMA SendKeeps ==
    ASSUME TypeOK, TypeOK', CallInv,
           NEW p \in Procs, NEW t \in Topics, NEW rs \in SUBSET Reqs,
           NEW qs \in SUBSET Procs, qs # {}, NEW cs,
           SendPendingRemoteReqs(p, t, rs, qs, cs),
           Up(p), UNCHANGED <<status, ran>>,
           \A r \in rs : /\ CallerOf[r] = p
                         /\ handler[r] = "pending" \/ outcome[r] = "none"
                         /\ outcome'[r] # "none",
           \A r \in Reqs \ rs : outcome'[r] = outcome[r]
    PROVE  CallInv'
  <1>1. handler' = [r \in Reqs |-> IF r \in rs THEN "requested" ELSE handler[r]]
    BY DEF SendPendingRemoteReqs
  <1>2. PICK q \in qs, got \in SUBSET rs : wire' = wire \cup RequestsTo(q, got)
    BY SendEffect
  <1>3. \A r \in rs : ran[r] = 0 /\ \A m \in wire : m.req # r
    BY DEF CallInv, NotSent
  <1>4. \A m \in wire' : \/ m \in wire /\ m.req \notin rs
                         \/ /\ m.req \in rs
                            /\ m = [type |-> "REQ", to |-> q, req |-> m.req]
    BY <1>2, <1>3 DEF RequestsTo
  <1>5. \A m \in wire : m.req \in Reqs
    BY MessageFields DEF TypeOK
  <1>6. NotPlaced' /\ HandlersOfLiving'
    BY <1>1 DEF CallInv, NotPlaced, HandlersOfLiving, Up
  <1>7. NotSent'
    BY <1>1, <1>4 DEF CallInv, NotSent
  <1>8. RequestsUnrun'
    BY <1>1, <1>3, <1>4, <1>5 DEF CallInv, RequestsUnrun
  <1>9. ResponsesRun'
    BY <1>1, <1>4, <1>5 DEF CallInv, ResponsesRun
  <1>10. OneMessage'
    BY <1>4 DEF CallInv, OneMessage
  <1> QED
    BY <1>6, <1>7, <1>8, <1>9, <1>10 DEF CallInv

\* Every step keeps it.
LEMMA CallStep ==
    ASSUME TypeOK, TypeOK', CallInv, [Next]_vars
    PROVE  CallInv'
  <1> USE ServicesAssumption
  <1> USE DEF CallInv, NotPlaced, HandlersOfLiving, NotSent, RequestsUnrun,
              ResponsesRun, OneMessage
  <1>0. \A m \in wire : m.req \in Reqs /\ m.to \in Procs /\ CallerOf[m.req] \in Procs
    BY MessageFields DEF TypeOK
  <1>1. ASSUME NEW p \in Procs, Ready(p) PROVE CallInv'
    <2>1. \A q \in Procs : /\ status'[q] = IF q = p THEN "up" ELSE status[q]
                           /\ status[p] = "starting"
      BY <1>1 DEF Ready, TypeOK
    <2>2. HandlersOfLiving'
      BY <1>1, <2>1 DEF Ready, Up
    <2>3. RequestsUnrun'
      BY <1>0, <1>1, <2>1 DEF Ready
    <2> QED
      BY <1>1, <2>2, <2>3 DEF Ready
  <1>2. ASSUME NEW p \in Procs, End(p) PROVE CallInv'
    <2>1. \A q \in Procs : status'[q] = IF q = p THEN "down" ELSE status[q]
      BY <1>2 DEF End, TypeOK
    <2>2. \A r \in Reqs : handler'[r] = IF CallerOf[r] = p THEN "none" ELSE handler[r]
      BY <1>2 DEF End
    <2>3. \A r \in Reqs : outcome'[r] = "none" => outcome[r] = "none"
      BY <1>2 DEF End
    <2>4. wire' = {m \in wire : m.to # p} /\ ran' = ran
      BY <1>2 DEF End
    <2>5. NotPlaced' /\ HandlersOfLiving'
      BY <2>1, <2>2, <2>3 DEF Up
    <2>6. NotSent'
      BY <2>2, <2>3, <2>4
    <2>7. RequestsUnrun'
      BY <1>0, <2>1, <2>2, <2>4
    <2>8. ResponsesRun' /\ OneMessage'
      BY <1>0, <2>2, <2>4
    <2> QED
      BY <2>5, <2>6, <2>7, <2>8
  <1>3. ASSUME UNCHANGED <<status, handler, outcome, wire, ran>> PROVE CallInv'
    BY <1>3 DEF Up
  <1>4. ASSUME NEW t \in Topics, NEW n \in Repliers,
               AdvertiseSrv(OwnerOf[n], t, n) \/ UnadvertiseSrv(OwnerOf[n], t, n)
        PROVE  CallInv'
    BY <1>3, <1>4 DEF AdvertiseSrv, UnadvertiseSrv
  <1>5. ASSUME NEW p \in Procs, NEW x \in offered, OnNewSrvConnection(p, x)
        PROVE  CallInv'
    <2> DEFINE t == x.entry.topic
               qs == Responsers(p, t) \cup {x.entry.proc}
               rs == Pending(p, t)
    <2>1. t \in Topics /\ x.entry.proc \in Procs
      BY OfferFields DEF TypeOK
    <2>2. qs \in SUBSET Procs /\ qs # {}
      <3>1. Responsers(p, t) \in SUBSET Procs
        BY <2>1, ResponsersType
      <3> QED
        BY <2>1, <3>1
    <2>3. SendPendingRemoteReqs(p, t, rs, qs, conns'[p])
      BY <1>5 DEF OnNewSrvConnection
    <2>4. \A r \in rs : CallerOf[r] = p /\ handler[r] = "pending" /\ r \in Reqs
      BY DEF Pending
    <2>5. UNCHANGED <<status, outcome, ran>> /\ Up(p)
      BY <1>5 DEF OnNewSrvConnection
    <2>6. \A r \in rs : outcome[r] # "none"
      BY <2>4
    <2> HIDE DEF t, qs, rs
    <2> QED
      BY <2>1, <2>2, <2>3, <2>4, <2>5, <2>6, SendKeeps
  <1>6. ASSUME NEW p \in Procs, NEW x \in offered, LearnEarly(p, x) PROVE CallInv'
    BY <1>3, <1>6 DEF LearnEarly
  <1>7. ASSUME NEW p \in Procs, NEW q \in Procs, OnProcessLost(p, q) PROVE CallInv'
    BY <1>3, <1>7 DEF OnProcessLost
  <1>8. ASSUME NEW r \in Reqs, RequestLocal(r) PROVE CallInv'
    <2>1. /\ outcome[r] = "none" /\ handler[r] = "none"
          /\ \A s \in Reqs : outcome'[s] = IF s = r THEN "answered" ELSE outcome[s]
          /\ \A s \in Reqs \ {r} : ran'[s] = ran[s]
          /\ UNCHANGED <<status, handler, wire>>
      BY <1>8 DEF RequestLocal, TypeOK
    <2>2. NotPlaced' /\ HandlersOfLiving' /\ OneMessage' /\ NotSent'
      BY <2>1 DEF Up
    <2>3. \A m \in wire : m.req # r
      BY <2>1
    <2>4. RequestsUnrun' /\ ResponsesRun'
      BY <1>0, <2>1, <2>3
    <2> QED
      BY <2>2, <2>4
  <1>9. ASSUME NEW r \in Reqs, Request(r) PROVE CallInv'
    <2> DEFINE p == CallerOf[r]
               t == TopicOf[r]
               qs == Responsers(p, t)
               rs == Pending(p, t) \cup {r}
    <2>1. /\ p \in Procs /\ t \in Topics /\ Up(p)
          /\ outcome[r] = "none" /\ handler[r] = "none"
          /\ \A s \in Reqs : outcome'[s] = IF s = r THEN "open" ELSE outcome[s]
          /\ UNCHANGED <<status, ran>>
      BY <1>9 DEF Request, TypeOK
    <2>2. CASE qs # {}
      <3>1. SendPendingRemoteReqs(p, t, rs, qs, conns[p])
        BY <1>9, <2>2 DEF Request
      <3>2. qs \in SUBSET Procs
        BY <2>1, ResponsersType
      <3>3. \A s \in rs : /\ s \in Reqs
                          /\ CallerOf[s] = p
                          /\ handler[s] = "pending" \/ outcome[s] = "none"
                          /\ outcome'[s] # "none"
        BY <2>1 DEF Pending
      <3>4. \A s \in Reqs \ rs : outcome'[s] = outcome[s]
        BY <2>1
      <3> HIDE DEF p, t, qs, rs
      <3> QED
        BY <2>1, <2>2, <3>1, <3>2, <3>3, <3>4, SendKeeps
    <2>3. CASE qs = {}
      <3>1. /\ \A s \in Reqs : handler'[s] = IF s = r THEN "pending" ELSE handler[s]
            /\ wire' = wire
        BY <1>9, <2>3 DEF Request, TypeOK
      <3>2. ran[r] = 0 /\ \A m \in wire : m.req # r
        BY <2>1
      <3>3. NotPlaced' /\ HandlersOfLiving' /\ NotSent' /\ OneMessage'
        BY <2>1, <3>1, <3>2 DEF Up
      <3>4. RequestsUnrun' /\ ResponsesRun'
        BY <1>0, <2>1, <3>1, <3>2
      <3> QED
        BY <3>3, <3>4
    <2> QED
      BY <2>2, <2>3
  <1>10. ASSUME NEW r \in Reqs, Timeout(r) PROVE CallInv'
    <2>1. /\ outcome[r] = "open"
          /\ \A s \in Reqs : outcome'[s] = IF s = r THEN "timedOut" ELSE outcome[s]
          /\ UNCHANGED <<status, handler, wire, ran>>
      BY <1>10 DEF Timeout, TypeOK
    <2> QED
      BY <2>1 DEF Up
  <1>11. ASSUME NEW m \in wire, RecvSrvRequest(m) PROVE CallInv'
    <2> DEFINE r == m.req
               reply == [type |-> "REP", to |-> CallerOf[r], req |-> r]
    <2>1. /\ m.type = "REQ" /\ ran[r] = 0 /\ r \in Reqs /\ CallerOf[r] \in Procs
          /\ outcome[r] # "none" /\ handler[r] # "pending"
          /\ UNCHANGED <<status, handler, outcome>>
      BY <1>0, <1>11 DEF RecvSrvRequest
    <2>2. \/ wire' = wire \ {m} /\ ran' = ran
          \/ /\ \A s \in Reqs : ran'[s] = IF s = r THEN 1 ELSE ran[s]
             /\ \/ wire' = wire \ {m}
                \/ wire' = (wire \ {m}) \cup {reply} /\ Up(CallerOf[r])
      BY <1>11, <2>1 DEF RecvSrvRequest, TypeOK
    <2>3. \A n \in wire \ {m} : n.req # r
      BY <2>1
    <2>4. \A n \in wire' : \/ n \in wire \ {m}
                           \/ n = reply /\ Up(CallerOf[r]) /\ ran'[r] = 1
      BY <2>1, <2>2
    <2>5. \A s \in Reqs \ {r} : ran'[s] = ran[s]
      BY <2>2
    <2>6. NotPlaced' /\ HandlersOfLiving'
      BY <2>1 DEF Up
    <2>7. NotSent'
      BY <1>0, <2>1, <2>4, <2>5
    <2>8. RequestsUnrun'
      BY <1>0, <2>1, <2>3, <2>4, <2>5
    <2>9. ResponsesRun'
      <3>1. Up(CallerOf[r]) => handler[r] = "requested"
        BY <2>1 DEF Up
      <3> QED
        BY <1>0, <2>1, <2>3, <2>4, <2>5, <3>1
    <2>10. OneMessage'
      BY <2>3, <2>4
    <2> QED
      BY <2>6, <2>7, <2>8, <2>9, <2>10
  <1>12. ASSUME NEW m \in wire, RecvSrvResponse(m) PROVE CallInv'
    <2> DEFINE r == m.req
    <2>1. /\ m.type = "REP" /\ r \in Reqs /\ outcome[r] # "none" /\ ran[r] = 1
          /\ wire' = wire \ {m}
          /\ \A s \in Reqs : handler'[s] = IF s = r THEN "none" ELSE handler[s]
          /\ UNCHANGED <<status, ran>>
      BY <1>0, <1>12 DEF RecvSrvResponse, TypeOK
    <2>2. \A s \in Reqs : /\ outcome'[s] = "none" => outcome[s] = "none"
                          /\ s # r => outcome'[s] = outcome[s]
                          /\ outcome'[r] # "none"
      BY <1>12, <2>1 DEF RecvSrvResponse, NotifyResult, TypeOK
    <2>3. \A n \in wire \ {m} : n.req # r
      BY <2>1
    <2>4. NotPlaced' /\ HandlersOfLiving' /\ NotSent'
      BY <2>1, <2>2 DEF Up
    <2>5. RequestsUnrun' /\ ResponsesRun' /\ OneMessage'
      BY <1>0, <2>1, <2>3
    <2> QED
      BY <2>4, <2>5
  <1>13. CASE UNCHANGED vars
    BY <1>3, <1>13 DEF vars
  <1> QED
    BY <1>1, <1>2, <1>4, <1>5, <1>6, <1>7, <1>8, <1>9, <1>10, <1>11, <1>12,
       <1>13 DEF Next

\* A response always finds the handler of its request: RecvSrvResponse never
\* has one to report as unknown, whoever timed out meanwhile.
THEOREM ResponsesAnswered == Spec => []ResponsesHaveHandlers
  <1>1. Init => TypeOK /\ CallInv
    BY DEF Init, Dir!Init, TypeOK, CallInv, NotPlaced, HandlersOfLiving, NotSent,
           RequestsUnrun, ResponsesRun, OneMessage
  <1>2. TypeOK /\ CallInv /\ [Next]_vars => (TypeOK /\ CallInv)'
    BY TypeStep, CallStep
  <1>3. CallInv => ResponsesHaveHandlers
    BY DEF CallInv, ResponsesRun, ResponsesHaveHandlers
  <1> QED
    BY <1>1, <1>2, <1>3, PTL DEF Spec

---------------------------------------------------------------------------
\* Requests and what discovery knows.

\* Advertising a service only adds an offer of the own process to what it knows.
LEMMA OfferEffect ==
    ASSUME TypeOK, NEW t \in Topics, NEW n \in Nodes, Dir!Offer(Offer(t, n))
    PROVE  \A p \in Procs : \A x \in known'[p] :
              x \in known[p] \/ (p = OwnerOf[n] /\ x.entry.proc = p)
  <1> DEFINE x == Offer(t, n)
  <1>1. x.entry.proc = OwnerOf[n] /\ OwnerOf[n] \in Procs
    BY OfferType, ServicesAssumption
  <1> HIDE DEF x
  <1>2. known \in [Procs -> SUBSET Offers] /\ Dir!Offer(x)
    BY DEF TypeOK, x
  <1> QED
    BY <1>1, <1>2 DEF Dir!Offer, Dir!Owner

\* No step leaves a request unsent whose process knows another one that offers
\* the service.
LEMMA IdleStep ==
    ASSUME TypeOK, TypeOK', CallInv, NoIdleRequest, [Next]_vars
    PROVE  NoIdleRequest'
  <1> USE ServicesAssumption
  <1> USE DEF NoIdleRequest, Responsers
  <1>1. ASSUME \A r \in Reqs : handler'[r] = "pending" => handler[r] = "pending",
               \A p \in Procs : \A x \in known'[p] :
                  x \in known[p] \/ x.entry.proc = p
        PROVE  NoIdleRequest'
    BY <1>1
  <1>2. ASSUME NEW p \in Procs, Ready(p) PROVE NoIdleRequest'
    BY <1>2 DEF Ready
  <1>3. ASSUME NEW p \in Procs, End(p) PROVE NoIdleRequest'
    <2>1. \A r \in Reqs : handler'[r] = "pending" => handler[r] = "pending"
      BY <1>3 DEF End
    <2>2. \A q \in Procs : known'[q] \subseteq known[q]
      BY <1>3 DEF End, Dir!End, TypeOK
    <2> QED
      BY <1>1, <2>1, <2>2
  <1>4. ASSUME NEW t \in Topics, NEW n \in Repliers, AdvertiseSrv(OwnerOf[n], t, n)
        PROVE  NoIdleRequest'
    <2>1. \A p \in Procs : \A x \in known'[p] : x \in known[p] \/ x.entry.proc = p
      BY <1>4, OfferEffect DEF AdvertiseSrv
    <2> QED
      BY <1>1, <1>4, <2>1 DEF AdvertiseSrv
  <1>5. ASSUME NEW t \in Topics, NEW n \in Repliers, UnadvertiseSrv(OwnerOf[n], t, n)
        PROVE  NoIdleRequest'
    BY <1>5 DEF UnadvertiseSrv
  <1>6. ASSUME NEW p \in Procs, NEW x \in offered, OnNewSrvConnection(p, x)
        PROVE  NoIdleRequest'
    <2> DEFINE t == x.entry.topic
               rs == Pending(p, t)
    <2>1. \A q \in Procs : known'[q] = IF q = p THEN known[p] \cup {x} ELSE known[q]
      BY <1>6 DEF OnNewSrvConnection, Dir!Learn, TypeOK
    <2>2. \A r \in Reqs : handler'[r] = IF r \in rs THEN "requested" ELSE handler[r]
      BY <1>6 DEF OnNewSrvConnection, SendPendingRemoteReqs
    <2>3. ASSUME NEW r \in Reqs, handler'[r] = "pending"
          PROVE  handler[r] = "pending" /\ ~(CallerOf[r] = p /\ TopicOf[r] = t)
      BY <2>2, <2>3 DEF Pending
    <2>4. ASSUME NEW r \in Reqs, handler'[r] = "pending",
                 NEW y \in known'[CallerOf[r]], y.entry.topic = TopicOf[r]
          PROVE  y \in known[CallerOf[r]]
      BY <2>1, <2>3, <2>4
    <2> QED
      BY <2>3, <2>4
  <1>7. ASSUME NEW p \in Procs, NEW x \in offered, LearnEarly(p, x)
        PROVE  NoIdleRequest'
    <2>1. \A r \in Reqs : handler[r] # "none" => CallerOf[r] # p
      BY <1>7 DEF LearnEarly, CallInv, HandlersOfLiving, Up
    <2>2. \A q \in Procs \ {p} : known'[q] = known[q]
      BY <1>7 DEF LearnEarly, Dir!Learn, TypeOK
    <2>3. handler' = handler
      BY <1>7 DEF LearnEarly
    <2> QED
      BY <2>1, <2>2, <2>3
  <1>8. ASSUME NEW p \in Procs, NEW q \in Procs, OnProcessLost(p, q)
        PROVE  NoIdleRequest'
    <2>1. \A s \in Procs : known'[s] \subseteq known[s]
      BY <1>8 DEF OnProcessLost, Dir!Forget, TypeOK
    <2> QED
      BY <1>1, <1>8, <2>1 DEF OnProcessLost
  <1>9. ASSUME NEW r \in Reqs, RequestLocal(r) PROVE NoIdleRequest'
    BY <1>9 DEF RequestLocal
  <1>10. ASSUME NEW r \in Reqs, Request(r) PROVE NoIdleRequest'
    <2>1. known' = known
      BY <1>10 DEF Request
    <2>2. CASE Responsers(CallerOf[r], TopicOf[r]) # {}
      <3>1. \A s \in Reqs : handler'[s] = "pending" => handler[s] = "pending"
        BY <1>10, <2>2 DEF Request, SendPendingRemoteReqs
      <3> QED
        BY <2>1, <3>1
    <2>3. CASE Responsers(CallerOf[r], TopicOf[r]) = {}
      <3>1. \A s \in Reqs \ {r} : handler'[s] = handler[s]
        <4> HIDE DEF Responsers
        <4> QED
          BY <1>10, <2>3 DEF Request, TypeOK
      <3> QED
        BY <2>1, <2>3, <3>1
    <2> QED
      BY <2>2, <2>3
  <1>11. ASSUME NEW r \in Reqs, Timeout(r) PROVE NoIdleRequest'
    BY <1>11 DEF Timeout
  <1>12. ASSUME NEW m \in wire, RecvSrvRequest(m) PROVE NoIdleRequest'
    BY <1>12 DEF RecvSrvRequest
  <1>13. ASSUME NEW m \in wire, RecvSrvResponse(m) PROVE NoIdleRequest'
    <2>1. \A s \in Reqs : handler'[s] = "pending" => handler[s] = "pending"
      BY <1>13 DEF RecvSrvResponse, TypeOK
    <2> QED
      BY <1>13, <2>1 DEF RecvSrvResponse
  <1>14. CASE UNCHANGED vars
    BY <1>14 DEF vars
  <1> HIDE DEF NoIdleRequest, Responsers
  <1> QED
    BY <1>2, <1>3, <1>4, <1>5, <1>6, <1>7, <1>8, <1>9, <1>10, <1>11, <1>12,
       <1>13, <1>14 DEF Next

\* No request stays unsent in a process that knows another one offering the
\* service: Request and OnNewSrvConnection between them miss no moment.
THEOREM NoneIdle == Spec => []NoIdleRequest
  <1>1. Init => TypeOK /\ CallInv /\ NoIdleRequest
    BY DEF Init, Dir!Init, TypeOK, CallInv, NotPlaced, HandlersOfLiving, NotSent,
           RequestsUnrun, ResponsesRun, OneMessage, NoIdleRequest
  <1>2. TypeOK /\ CallInv /\ NoIdleRequest /\ [Next]_vars
           => (TypeOK /\ CallInv /\ NoIdleRequest)'
    BY TypeStep, CallStep, IdleStep
  <1> QED
    BY <1>1, <1>2, PTL DEF Spec

---------------------------------------------------------------------------
\* Connections.

\* Every step keeps the processes known connected, or on record as early.
LEMMA ConnStep ==
    ASSUME TypeOK, TypeOK', ConnInv, [Next]_vars
    PROVE  ConnInv'
  <1> USE ServicesAssumption
  <1>1. ASSUME \A p \in Procs : /\ status'[p] # "down" => status[p] # "down"
                                /\ Up(p) => status'[p] = "up" \/ status'[p] = "down"
                                /\ early[p] \subseteq early'[p]
                                /\ status'[p] # "down" => conns[p] \subseteq conns'[p],
               \A p \in Procs : \A x \in known'[p] :
                  x \in known[p] \/ x.entry.proc = p
        PROVE  ConnInv'
    BY <1>1 DEF ConnInv, Up
  <1>2. ASSUME UNCHANGED <<status, early, conns>>,
               \A p \in Procs : \A x \in known'[p] :
                  x \in known[p] \/ x.entry.proc = p
        PROVE  ConnInv'
    BY <1>1, <1>2 DEF Up
  <1>3. ASSUME NEW p \in Procs, Ready(p) PROVE ConnInv'
    BY <1>1, <1>3 DEF Ready, TypeOK, Up
  <1>4. ASSUME NEW p \in Procs, End(p) PROVE ConnInv'
    <2>1. \A q \in Procs : known'[q] \subseteq known[q]
      BY <1>4 DEF End, Dir!End, TypeOK
    <2>2. \A q \in Procs : /\ status'[q] = IF q = p THEN "down" ELSE status[q]
                           /\ conns'[q] = IF q = p THEN {} ELSE conns[q]
                           /\ early' = early
      BY <1>4 DEF End, TypeOK
    <2> QED
      BY <1>1, <2>1, <2>2 DEF Up
  <1>5. ASSUME NEW t \in Topics, NEW n \in Repliers, AdvertiseSrv(OwnerOf[n], t, n)
        PROVE  ConnInv'
    <2>1. \A p \in Procs : \A x \in known'[p] : x \in known[p] \/ x.entry.proc = p
      BY <1>5, OfferEffect DEF AdvertiseSrv
    <2> QED
      BY <1>2, <1>5, <2>1 DEF AdvertiseSrv
  <1>6. ASSUME NEW t \in Topics, NEW n \in Repliers, UnadvertiseSrv(OwnerOf[n], t, n)
        PROVE  ConnInv'
    BY <1>2, <1>6 DEF UnadvertiseSrv
  <1>7. ASSUME NEW p \in Procs, NEW x \in offered, OnNewSrvConnection(p, x)
        PROVE  ConnInv'
    <2>1. \A q \in Procs : known'[q] = IF q = p THEN known[p] \cup {x} ELSE known[q]
      BY <1>7 DEF OnNewSrvConnection, Dir!Learn, TypeOK
    <2>2. /\ Up(p) /\ UNCHANGED <<status, early>>
          /\ \A q \in Procs : conns'[q] = IF q = p THEN conns[p] \cup {x.entry.proc}
                                          ELSE conns[q]
      BY <1>7 DEF OnNewSrvConnection, TypeOK
    <2> QED
      BY <2>1, <2>2 DEF ConnInv, Up
  <1>8. ASSUME NEW p \in Procs, NEW x \in offered, LearnEarly(p, x)
        PROVE  ConnInv'
    <2>1. \A q \in Procs : known'[q] = IF q = p THEN known[p] \cup {x} ELSE known[q]
      BY <1>8 DEF LearnEarly, Dir!Learn, TypeOK
    <2>2. /\ UNCHANGED <<status, conns>>
          /\ \A q \in Procs : early'[q] = IF q = p THEN early[p] \cup {x.entry.proc}
                                          ELSE early[q]
      BY <1>8 DEF LearnEarly, TypeOK
    <2> QED
      BY <2>1, <2>2 DEF ConnInv, Up
  <1>9. ASSUME NEW p \in Procs, NEW q \in Procs, OnProcessLost(p, q)
        PROVE  ConnInv'
    <2>1. \A s \in Procs : known'[s] \subseteq known[s]
      BY <1>9 DEF OnProcessLost, Dir!Forget, TypeOK
    <2> QED
      BY <1>2, <1>9, <2>1 DEF OnProcessLost
  <1>10. ASSUME NEW r \in Reqs, RequestLocal(r) \/ Request(r) \/ Timeout(r)
         PROVE  ConnInv'
    BY <1>2, <1>10 DEF RequestLocal, Request, Timeout
  <1>11. ASSUME NEW m \in wire, RecvSrvRequest(m) \/ RecvSrvResponse(m)
         PROVE  ConnInv'
    BY <1>2, <1>11 DEF RecvSrvRequest, RecvSrvResponse
  <1>12. CASE UNCHANGED vars
    BY <1>2, <1>12 DEF vars
  <1> QED
    BY <1>3, <1>4, <1>5, <1>6, <1>7, <1>8, <1>9, <1>10, <1>11, <1>12 DEF Next

\* Every other process known to offer a service is one the requester has
\* connected to, unless it was learned before connectionSrvCb was set: losing a
\* process and learning it again (OnProcessLost, OnNewSrvConnection) never
\* leaves a known replier without its connection.
THEOREM KnownConnected == Spec => []RespondersConnected
  <1>1. Init => TypeOK /\ ConnInv
    BY DEF Init, Dir!Init, TypeOK, ConnInv
  <1>2. TypeOK /\ ConnInv /\ [Next]_vars => (TypeOK /\ ConnInv)'
    BY TypeStep, ConnStep
  <1>3. ConnInv => RespondersConnected
    BY DEF ConnInv, RespondersConnected, Up
  <1> QED
    BY <1>1, <1>2, <1>3, PTL DEF Spec

---------------------------------------------------------------------------
\* The calls of Calls.

\* Every step is a step of Calls, or leaves what Calls sees as it was.
LEMMA CallsStep ==
    ASSUME TypeOK, TypeOK', CallInv, [Next]_vars
    PROVE  [RefinesCalls!Next]_<<outcome, ran>>
  <1> USE ServicesAssumption
  <1>1. ASSUME NEW p \in Procs, End(p) PROVE RefinesCalls!Next
    <2> DEFINE S == {r \in Reqs : CallerOf[r] = p /\ outcome[r] \in {"none", "open"}}
    <2>1. outcome' = [r \in Reqs |-> IF r \in S THEN "ended" ELSE outcome[r]]
      BY <1>1 DEF End
    <2>2. RefinesCalls!End(S)
      BY <1>1, <2>1 DEF End, RefinesCalls!End
    <2>3. S \in SUBSET Reqs
      OBVIOUS
    <2> HIDE DEF S
    <2> QED
      BY <2>2, <2>3 DEF RefinesCalls!Next
  <1>2. ASSUME NEW r \in Reqs, RequestLocal(r) PROVE RefinesCalls!Next
    <2>1. outcome[r] = "none" /\ ran[r] = 0 /\ ran \in [Reqs -> Nat]
      BY <1>2 DEF RequestLocal, CallInv, NotSent, TypeOK
    <2>2. /\ ran' = [ran EXCEPT ![r] = 1]
          /\ outcome' = [outcome EXCEPT ![r] = "answered"]
      BY <1>2, <2>1 DEF RequestLocal
    <2>3. RefinesCalls!Place(r)
      BY <2>1, <2>2 DEF RefinesCalls!Place, RefinesCalls!Run
    <2> QED
      BY <2>3 DEF RefinesCalls!Next
  <1>3. ASSUME NEW r \in Reqs, Request(r) PROVE RefinesCalls!Next
    <2>1. RefinesCalls!Place(r)
      BY <1>3 DEF Request, RefinesCalls!Place
    <2> QED
      BY <2>1 DEF RefinesCalls!Next
  <1>4. ASSUME NEW r \in Reqs, Timeout(r) PROVE RefinesCalls!Next
    <2>1. RefinesCalls!TimeOut(r)
      BY <1>4 DEF Timeout, RefinesCalls!TimeOut
    <2> QED
      BY <2>1 DEF RefinesCalls!Next
  <1>5. ASSUME NEW m \in wire, RecvSrvRequest(m)
        PROVE  RefinesCalls!Next \/ UNCHANGED <<outcome, ran>>
    <2>1. m.req \in Reqs /\ ran[m.req] = 0 /\ outcome[m.req] # "none"
      <3>1. m.req \in Reqs /\ m.type = "REQ"
        BY <1>5, MessageFields DEF RecvSrvRequest, TypeOK
      <3> QED
        BY <3>1 DEF CallInv, RequestsUnrun, NotSent
    <2>2. CASE HasHandlersForTopic(m.to, TopicOf[m.req])
      <3>1. ran' = [ran EXCEPT ![m.req] = 1] /\ UNCHANGED outcome
        BY <1>5, <2>1, <2>2 DEF RecvSrvRequest, TypeOK
      <3>2. RefinesCalls!Serve(m.req)
        BY <2>1, <3>1 DEF RefinesCalls!Serve, RefinesCalls!Run
      <3> QED
        BY <2>1, <3>2 DEF RefinesCalls!Next
    <2>3. CASE ~HasHandlersForTopic(m.to, TopicOf[m.req])
      BY <1>5, <2>3 DEF RecvSrvRequest
    <2> QED
      BY <2>2, <2>3
  <1>6. ASSUME NEW m \in wire, RecvSrvResponse(m)
        PROVE  RefinesCalls!Next \/ UNCHANGED <<outcome, ran>>
    <2>1. m.req \in Reqs /\ ran[m.req] = 1 /\ handler[m.req] = "requested"
      <3>1. m.req \in Reqs /\ m.type = "REP"
        BY <1>6, MessageFields DEF RecvSrvResponse, TypeOK
      <3> QED
        BY <3>1 DEF CallInv, ResponsesRun
    <2>2. CASE outcome[m.req] = "open"
      <3>1. RefinesCalls!Answer(m.req)
        BY <1>6, <2>1, <2>2 DEF RecvSrvResponse, NotifyResult, RefinesCalls!Answer
      <3> QED
        BY <2>1, <3>1 DEF RefinesCalls!Next
    <2>3. CASE outcome[m.req] # "open"
      BY <1>6, <2>3 DEF RecvSrvResponse, NotifyResult
    <2> QED
      BY <2>2, <2>3
  <1>7. ASSUME NEW p \in Procs,
               \/ Ready(p)
               \/ \E t \in Topics, n \in Repliers :
                     AdvertiseSrv(p, t, n) \/ UnadvertiseSrv(p, t, n)
               \/ \E x \in offered : OnNewSrvConnection(p, x) \/ LearnEarly(p, x)
               \/ \E q \in Procs : OnProcessLost(p, q)
        PROVE  UNCHANGED <<outcome, ran>>
    BY <1>7 DEF Ready, AdvertiseSrv, UnadvertiseSrv, OnNewSrvConnection, LearnEarly,
                OnProcessLost
  <1>8. CASE UNCHANGED vars
    BY <1>8 DEF vars
  <1> QED
    BY <1>1, <1>2, <1>3, <1>4, <1>5, <1>6, <1>7, <1>8 DEF Next

\* The service calls implement Calls: whatever discovery learns, loses and
\* learns again, a request runs at most once, and its caller is answered at most
\* once, after a run and never after it gave up.
THEOREM ImplementsCalls == Spec => CallsOnce
  <1>1. Init => /\ TypeOK /\ CallInv
                /\ RefinesCalls!Init
    BY DEF Init, Dir!Init, TypeOK, CallInv, NotPlaced, HandlersOfLiving, NotSent,
           RequestsUnrun, ResponsesRun, OneMessage, RefinesCalls!Init
  <1>2. TypeOK /\ CallInv /\ [Next]_vars => (TypeOK /\ CallInv)'
    BY TypeStep, CallStep
  <1>3. TypeOK /\ TypeOK' /\ CallInv /\ [Next]_vars
           => [RefinesCalls!Next]_<<outcome, ran>>
    BY CallsStep
  <1> QED
    BY <1>1, <1>2, <1>3, PTL DEF Spec, CallsOnce, RefinesCalls!Spec

=============================================================================

--------------------------- MODULE MessagesProofs ---------------------------
(***************************************************************************)
(* Theorems about Messages, for any processes, nodes, topics, messages and *)
(* whatever may go wrong.                                                  *)
(***************************************************************************)
EXTENDS Messages, PubSubProofs

\* What PubSub ensures of the state messages travel through.
PubSubInv ==
    /\ TypeOK /\ KnownOffered
    /\ NoDoubleConnect /\ RemoteConnections /\ OwnSubscribers

\* A message not published yet is nowhere; a node that was given it has none
\* waiting in its process's socket, and no socket has two.
OneCopy ==
    \A m \in Msgs :
        /\ sent[m] = {} => /\ \A p \in Procs : queue[p][m] = 0
                           /\ \A n \in Nodes : ran[m][n] = 0
        /\ \A p \in Procs : queue[p][m] <= 1
        /\ \A n \in Nodes : ran[m][n] + queue[OwnerOf[n]][m] <= 1

---------------------------------------------------------------------------
\* Messages only ever takes steps of PubSub, or none at all.
LEMMA PubSubUnderneath == MSpec => Spec
  <1>1. MInit => Init
    BY DEF MInit
  <1>2. [MNext]_mvars => [Next]_vars
    BY DEF MNext, Connect, Publish, RecvMsgUpdate, mvars, vars
  <1> QED
    BY <1>1, <1>2, PTL DEF MSpec, Spec

\* PubSubInv holds throughout (Subscribe, OnNewConnection, OnUnadvertised).
LEMMA PubSubAlways == Spec => []PubSubInv
  <1>1. Init => PubSubInv
    BY InitTypes DEF Init, PubSubInv, NoDoubleConnect, RemoteConnections,
                     OwnSubscribers
  <1>2. PubSubInv /\ [Next]_vars => PubSubInv'
    BY TypeStep, LinkStep, OwnStep DEF PubSubInv
  <1> QED
    BY <1>1, <1>2, PTL DEF Spec

---------------------------------------------------------------------------
\* Handlers run once more for a node that has some, and for no other
\* (RecvMsgUpdate, and Publish for the local handlers).
LEMMA RunEffect ==
    ASSUME MTypeOK, NEW p \in Procs, NEW m \in Msgs, NEW t, RunHandlers(p, m, t)
    PROVE  /\ ran' \in [Msgs -> [Nodes -> Nat]]
           /\ \A k \in Msgs, n \in Nodes : ran'[k][n] =
                 IF k = m /\ <<t, n>> \in subs[p] THEN ran[k][n] + 1 ELSE ran[k][n]
  <1> DEFINE row == [n \in Nodes |-> IF <<t, n>> \in subs[p] THEN ran[m][n] + 1
                                     ELSE ran[m][n]]
  <1>1. ran \in [Msgs -> [Nodes -> Nat]] /\ ran' = [ran EXCEPT ![m] = row]
    BY DEF MTypeOK, RunHandlers
  <1>2. /\ row \in [Nodes -> Nat]
        /\ \A n \in Nodes : row[n] = IF <<t, n>> \in subs[p] THEN ran[m][n] + 1
                                     ELSE ran[m][n]
    BY <1>1
  <1> HIDE DEF row
  <1> QED
    BY <1>1, <1>2

\* What is sent comes as often as there are connections, to some sockets
\* (NodeShared::Publish).
LEMMA PublishQueue ==
    ASSUME MTypeOK, NEW p \in Procs, NEW m \in Msgs, NEW x, Publish(p, m, x)
    PROVE  /\ queue' \in [Procs -> [Msgs -> Nat]]
           /\ \A q \in Procs, k \in Msgs :
                 \/ queue'[q][k] = queue[q][k]
                 \/ k = m /\ queue'[q][k] = queue[q][k] + links[q][p]
  <1>1. queue \in [Procs -> [Msgs -> Nat]] /\ links \in [Procs -> [Procs -> Nat]]
    BY DEF MTypeOK, TypeOK
  <1>2. CASE UNCHANGED queue
    BY <1>1, <1>2
  <1>3. CASE \E dropped \in SUBSET Procs : Send(p, m, x.entry.topic, dropped)
    <2>1. PICK dropped \in SUBSET Procs : Send(p, m, x.entry.topic, dropped)
      BY <1>3
    <2> DEFINE row(q) == [queue[q] EXCEPT ![m] = queue[q][m] + links[q][p]]
    <2>2. \A q \in Procs : /\ row(q) \in [Msgs -> Nat]
                           /\ \A k \in Msgs : row(q)[k] =
                                 IF k = m THEN queue[q][k] + links[q][p]
                                 ELSE queue[q][k]
      BY <1>1
    <2>3. queue' = [q \in Procs |->
                       IF Filtered(q, x.entry.topic) \/ q \in dropped THEN queue[q]
                       ELSE row(q)]
      BY <2>1 DEF Send
    <2> HIDE DEF row
    <2> QED
      BY <1>1, <2>2, <2>3
  <1> QED
    BY <1>2, <1>3 DEF Publish

\* Every step keeps the types.
LEMMA MTypeStep ==
    ASSUME MTypeOK, TypeOK', [MNext]_mvars
    PROVE  MTypeOK'
  <1>1. CASE Connect
    <2>1. queue' \in [Procs -> [Msgs -> Nat]]
      BY <1>1 DEF Connect, MTypeOK
    <2> QED
      BY <1>1, <2>1 DEF Connect, MTypeOK
  <1>2. ASSUME NEW p \in Procs, NEW m \in Msgs, NEW x \in known[p], Publish(p, m, x)
        PROVE  MTypeOK'
    <2>1. queue' \in [Procs -> [Msgs -> Nat]]
      BY <1>2, PublishQueue
    <2>2. ran' \in [Msgs -> [Nodes -> Nat]]
      BY <1>2, RunEffect DEF Publish
    <2>3. sent' \in [Msgs -> SUBSET Offers]
      BY <1>2 DEF Publish, MTypeOK, TypeOK
    <2> QED
      BY <2>1, <2>2, <2>3 DEF MTypeOK
  <1>3. ASSUME NEW p \in Procs, NEW m \in Msgs, RecvMsgUpdate(p, m) PROVE MTypeOK'
    <2>1. queue' \in [Procs -> [Msgs -> Nat]]
      <3> DEFINE v == queue[p][m] - 1
      <3>1. queue \in [Procs -> [Msgs -> Nat]]
        BY DEF MTypeOK
      <3>2. v \in Nat /\ queue' = [queue EXCEPT ![p][m] = v]
        BY <1>3, <3>1 DEF RecvMsgUpdate
      <3> HIDE DEF v
      <3>3. [queue[p] EXCEPT ![m] = v] \in [Msgs -> Nat]
        BY <3>1, <3>2
      <3> QED
        BY <3>1, <3>2, <3>3
    <2>2. ran' \in [Msgs -> [Nodes -> Nat]]
      <3>1. PICK x \in sent[m] : \/ UNCHANGED ran
                                 \/ RunHandlers(p, m, x.entry.topic)
        BY <1>3 DEF RecvMsgUpdate
      <3>2. CASE UNCHANGED ran
        BY <3>2 DEF MTypeOK
      <3>3. CASE RunHandlers(p, m, x.entry.topic)
        BY <3>3, RunEffect
      <3> QED
        BY <3>1, <3>2, <3>3
    <2> QED
      BY <1>3, <2>1, <2>2 DEF RecvMsgUpdate, MTypeOK
  <1>4. CASE UNCHANGED mvars
    BY <1>4 DEF mvars, MTypeOK
  <1> QED
    BY <1>1, <1>2, <1>3, <1>4 DEF MNext

\* Every step keeps one copy of a message for each node at the most.
LEMMA OneCopyStep ==
    ASSUME MTypeOK, MTypeOK', PubSubInv, OneCopy, [MNext]_mvars
    PROVE  OneCopy'
  <1> USE PubSubAssumption
  <1>0. /\ \A p \in Procs, m \in Msgs : queue[p][m] \in Nat /\ queue'[p][m] \in Nat
        /\ \A m \in Msgs, n \in Nodes : ran[m][n] \in Nat /\ ran'[m][n] \in Nat
        /\ \A n \in Nodes : OwnerOf[n] \in Procs
    BY DEF MTypeOK
  <1>1. ASSUME UNCHANGED <<sent, ran>>,
               \A p \in Procs, m \in Msgs : queue'[p][m] <= queue[p][m]
        PROVE  OneCopy'
    BY <1>0, <1>1 DEF OneCopy
  <1>2. CASE Connect
    <2>1. \A p \in Procs, m \in Msgs : queue'[p][m] <= queue[p][m]
      BY <1>0, <1>2 DEF Connect
    <2> QED
      BY <1>1, <1>2, <2>1 DEF Connect
  <1>3. ASSUME NEW p \in Procs, NEW m \in Msgs, NEW x \in known[p], Publish(p, m, x)
        PROVE  OneCopy'
    <2>1. /\ sent[m] = {} /\ sent' = [sent EXCEPT ![m] = {x}]
          /\ RunHandlers(p, m, x.entry.topic)
      BY <1>3 DEF Publish
    <2>2. /\ \A k \in Msgs : sent'[k] = IF k = m THEN {x} ELSE sent[k]
      BY <2>1 DEF MTypeOK
    <2>3. /\ \A q \in Procs : queue[q][m] = 0
          /\ \A n \in Nodes : ran[m][n] = 0
      BY <2>1 DEF OneCopy
    <2>4. \A q \in Procs, k \in Msgs :
             \/ queue'[q][k] = queue[q][k]
             \/ k = m /\ queue'[q][k] = queue[q][k] + links[q][p]
      BY <1>3, PublishQueue
    <2>5. \A k \in Msgs, n \in Nodes : ran'[k][n] =
             IF k = m /\ <<x.entry.topic, n>> \in subs[p] THEN ran[k][n] + 1
             ELSE ran[k][n]
      BY <2>1, RunEffect
    <2>6. /\ links[p][p] = 0
          /\ \A q \in Procs : links[q][p] <= 1 /\ links[q][p] \in Nat
      BY DEF PubSubInv, RemoteConnections, NoDoubleConnect, TypeOK
    <2>7. \A n \in Nodes : <<x.entry.topic, n>> \in subs[p] => OwnerOf[n] = p
      BY DEF PubSubInv, OwnSubscribers
    <2>8. \A q \in Procs : queue'[q][m] <= 1
      BY <1>0, <2>3, <2>4, <2>6
    <2>9. ASSUME NEW n \in Nodes PROVE ran'[m][n] + queue'[OwnerOf[n]][m] <= 1
      <3>1. CASE <<x.entry.topic, n>> \in subs[p]
        <4>1. OwnerOf[n] = p /\ ran'[m][n] = 1
          BY <2>3, <2>5, <2>7, <3>1
        <4>2. queue'[p][m] = 0
          BY <2>3, <2>4, <2>6
        <4> QED
          BY <4>1, <4>2
      <3>2. CASE <<x.entry.topic, n>> \notin subs[p]
        BY <1>0, <2>3, <2>5, <2>8, <3>2
      <3> QED
        BY <3>1, <3>2
    <2>10. ASSUME NEW k \in Msgs, k # m
           PROVE  /\ sent'[k] = sent[k]
                  /\ \A q \in Procs : queue'[q][k] = queue[q][k]
                  /\ \A n \in Nodes : ran'[k][n] = ran[k][n]
      BY <2>2, <2>4, <2>5, <2>10
    <2>11. ASSUME NEW k \in Msgs
           PROVE  /\ sent'[k] = {} => /\ \A q \in Procs : queue'[q][k] = 0
                                      /\ \A n \in Nodes : ran'[k][n] = 0
                  /\ \A q \in Procs : queue'[q][k] <= 1
                  /\ \A n \in Nodes : ran'[k][n] + queue'[OwnerOf[n]][k] <= 1
      <3>1. CASE k = m
        BY <2>2, <2>8, <2>9, <3>1
      <3>2. CASE k # m
        BY <1>0, <2>10, <3>2 DEF OneCopy
      <3> QED
        BY <3>1, <3>2
    <2> QED
      BY <2>11 DEF OneCopy
  <1>4. ASSUME NEW p \in Procs, NEW m \in Msgs, RecvMsgUpdate(p, m) PROVE OneCopy'
    <2>1. /\ queue[p][m] > 0 /\ sent' = sent
          /\ \A q \in Procs, k \in Msgs : queue'[q][k] =
                IF q = p /\ k = m THEN queue[q][k] - 1 ELSE queue[q][k]
      BY <1>4 DEF RecvMsgUpdate, MTypeOK
    <2>2. \A k \in Msgs, n \in Nodes :
             \/ ran'[k][n] = ran[k][n]
             \/ k = m /\ OwnerOf[n] = p /\ ran'[k][n] = ran[k][n] + 1
      <3>1. PICK x \in sent[m] : \/ UNCHANGED ran
                                 \/ RunHandlers(p, m, x.entry.topic)
        BY <1>4 DEF RecvMsgUpdate
      <3>2. CASE RunHandlers(p, m, x.entry.topic)
        <4>1. \A k \in Msgs, n \in Nodes : ran'[k][n] =
                 IF k = m /\ <<x.entry.topic, n>> \in subs[p] THEN ran[k][n] + 1
                 ELSE ran[k][n]
          BY <3>2, RunEffect
        <4>2. \A n \in Nodes : <<x.entry.topic, n>> \in subs[p] => OwnerOf[n] = p
          BY DEF PubSubInv, OwnSubscribers
        <4> QED
          BY <4>1, <4>2
      <3> QED
        BY <3>1, <3>2
    <2>3. ASSUME NEW k \in Msgs
          PROVE  /\ sent'[k] = {} => /\ \A q \in Procs : queue'[q][k] = 0
                                     /\ \A n \in Nodes : ran'[k][n] = 0
                 /\ \A q \in Procs : queue'[q][k] <= 1
                 /\ \A n \in Nodes : ran'[k][n] + queue'[OwnerOf[n]][k] <= 1
      <3>1. sent[m] # {}
        BY <2>1 DEF OneCopy
      <3>2. CASE k = m
        <4>1. \A q \in Procs : queue'[q][k] <= 1
          BY <1>0, <2>1 DEF OneCopy
        <4>2. ASSUME NEW n \in Nodes PROVE ran'[k][n] + queue'[OwnerOf[n]][k] <= 1
          <5>1. ran[k][n] + queue[OwnerOf[n]][k] <= 1
            BY DEF OneCopy
          <5>2. CASE OwnerOf[n] = p
            <6>1. queue'[p][k] = queue[p][k] - 1
              BY <2>1, <3>2
            <6>2. ran'[k][n] = ran[k][n] \/ ran'[k][n] = ran[k][n] + 1
              BY <2>2
            <6> QED
              BY <1>0, <5>1, <5>2, <6>1, <6>2
          <5>3. CASE OwnerOf[n] # p
            BY <1>0, <2>1, <2>2, <5>1, <5>3
          <5> QED
            BY <5>2, <5>3
        <4> QED
          BY <2>1, <3>1, <3>2, <4>1, <4>2
      <3>3. CASE k # m
        <4>1. /\ \A q \in Procs : queue'[q][k] = queue[q][k]
              /\ \A n \in Nodes : ran'[k][n] = ran[k][n]
          BY <2>1, <2>2, <3>3
        <4> QED
          BY <1>0, <2>1, <4>1 DEF OneCopy
      <3> QED
        BY <3>2, <3>3
    <2> QED
      BY <2>3 DEF OneCopy
  <1>5. CASE UNCHANGED mvars
    BY <1>0, <1>1, <1>5 DEF mvars
  <1> QED
    BY <1>2, <1>3, <1>4, <1>5 DEF MNext

\* The properties of messages hold together with those of PubSub.
LEMMA MessagesAlways == MSpec => [](MTypeOK /\ OneCopy)
  <1>1. MInit /\ PubSubInv => MTypeOK /\ OneCopy
    BY PubSubAssumption DEF MInit, PubSubInv, MTypeOK, OneCopy
  <1>2. (MTypeOK /\ OneCopy) /\ PubSubInv /\ PubSubInv' /\ [MNext]_mvars
           => (MTypeOK /\ OneCopy)'
    BY MTypeStep, OneCopyStep DEF PubSubInv
  <1> QED
    BY <1>1, <1>2, PubSubUnderneath, PubSubAlways, PTL DEF MSpec

\* Every variable of the messages keeps its type.
THEOREM MTypeCorrect == MSpec => []MTypeOK
  BY MessagesAlways, PTL

\* A message is given to the handlers of a node at most once, whichever way it
\* comes and however often its process connected, disconnected and subscribed
\* meanwhile: NodeShared::Publish sends one copy over one connection, and none
\* to the own process, whose handlers Node::Publish has run.
THEOREM DeliveredOnce == MSpec => []AtMostOnce
  <1>1. MTypeOK /\ OneCopy => AtMostOnce
    <2> SUFFICES ASSUME MTypeOK, OneCopy, NEW m \in Msgs, NEW n \in Nodes
                 PROVE  ran[m][n] <= 1
      BY DEF AtMostOnce
    <2>1. /\ ran[m][n] \in Nat /\ queue[OwnerOf[n]][m] \in Nat
          /\ ran[m][n] + queue[OwnerOf[n]][m] <= 1
      BY PubSubAssumption DEF MTypeOK, OneCopy
    <2> QED
      BY <2>1
  <1> QED
    BY <1>1, MessagesAlways, PTL

=============================================================================

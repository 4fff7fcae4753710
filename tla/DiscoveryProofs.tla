-------------------------- MODULE DiscoveryProofs --------------------------
(***************************************************************************)
(* Theorems about Discovery, for any processes, hosts, nodes, topics,      *)
(* scopes, silence interval and bound on the messages in flight.           *)
(***************************************************************************)
EXTENDS Discovery, TLAPS

---------------------------------------------------------------------------
\* Updates of one entry of a table, and of one entry of a table in a table.

\* A table stays a table when one entry changes to another value of its type.
LEMMA Update ==
    ASSUME NEW A, NEW B, NEW f \in [A -> B], NEW a \in A, NEW b \in B
    PROVE  [f EXCEPT ![a] = b] \in [A -> B]
  OBVIOUS

\* The tables stay tables when one process changes one kind of them.
LEMMA InfoUpdate ==
    ASSUME TypeOK, NEW p \in Procs, NEW k \in Kinds, NEW S \in SUBSET Entry
    PROVE  [info EXCEPT ![p][k] = S] \in [Procs -> [Kinds -> SUBSET Entry]]
  <1>1. info \in [Procs -> [Kinds -> SUBSET Entry]]
    BY DEF TypeOK
  <1> QED
    BY <1>1

\* The same for what the callbacks have announced.
LEMMA ToldUpdate ==
    ASSUME TypeOK, NEW p \in Procs, NEW k \in Kinds, NEW S \in SUBSET Key
    PROVE  [told EXCEPT ![p][k] = S] \in [Procs -> [Kinds -> SUBSET Key]]
  <1>1. told \in [Procs -> [Kinds -> SUBSET Key]]
    BY DEF TypeOK
  <1> QED
    BY <1>1

\* The activity map stays one when one process sets the age of another.
LEMMA ActivityUpdate ==
    ASSUME TypeOK, NEW p \in Procs, NEW q \in Procs, NEW a \in Ages
    PROVE  [activity EXCEPT ![p][q] = a] \in [Procs -> [Procs -> Ages]]
  <1>1. activity \in [Procs -> [Procs -> Ages]]
    BY DEF TypeOK
  <1> QED
    BY <1>1

---------------------------------------------------------------------------
\* Messages.

\* The type of a message tells its fields (DispatchDiscoveryMsg, SendMsg).
LEMMA MsgFields ==
    ASSUME NEW m \in Msg
    PROVE  /\ m.from \in Procs
           /\ m.type \in {"ADVERTISE", "UNADVERTISE"} => m \in AdvMsg
           /\ m.type = "SUBSCRIBE" => m \in SubMsg
           /\ m.type \in {"HEARTBEAT", "BYE"} => m \in PlainMsg
  BY DEF Msg, AdvMsg, SubMsg, PlainMsg

\* The entry an ADVERTISE message carries is an entry.
LEMMA EntryOfType ==
    ASSUME NEW m \in AdvMsg
    PROVE  EntryOf(m) \in Entry /\ KeyOf(EntryOf(m)) \in Key
  BY DEF AdvMsg, EntryOf, Entry, KeyOf, Key

\* Every message that advertises an entry is a message.
LEMMA AdvType ==
    ASSUME NEW k \in Kinds, NEW e \in Entry,
           NEW type \in {"ADVERTISE", "UNADVERTISE"}
    PROVE  Adv(type, k, e) \in AdvMsg
  BY DEF Adv, AdvMsg, Entry

\* SendMsg only puts copies of the messages sent into inboxes.
LEMMA SendMsgEffect ==
    ASSUME NEW box, box \in [Procs -> SUBSET Msg],
           NEW p \in Procs, NEW ms, ms \subseteq Msg,
           SendMsg(box, p, ms)
    PROVE  /\ inbox' \in [Procs -> SUBSET Msg]
           /\ inbox'[p] = box[p]
           /\ \A q \in Procs : inbox'[q] \subseteq box[q] \cup ms
  BY DEF SendMsg

\* What the heartbeat thread sends are messages.
LEMMA HeartbeatMsgs ==
    ASSUME TypeOK, NEW p \in Procs
    PROVE  {[type |-> "HEARTBEAT", from |-> p]} \cup
           UNION {{Adv("ADVERTISE", k, e) : e \in Own(p, k)} : k \in Kinds}
               \subseteq Msg
  <1>1. [type |-> "HEARTBEAT", from |-> p] \in Msg
    BY DEF Msg, PlainMsg
  <1>2. ASSUME NEW k \in Kinds, NEW e \in Own(p, k)
        PROVE  Adv("ADVERTISE", k, e) \in Msg
    <2>1. e \in Entry
      BY <1>2 DEF Own, AddressesByProc, TypeOK
    <2> QED
      BY <2>1, AdvType DEF Msg
  <1> QED
    BY <1>1, <1>2

---------------------------------------------------------------------------
\* Type correctness.

\* A process that ends (Stop, Crash, ActivityTaskAborts) leaves well typed tables.
LEMMA VanishType ==
    ASSUME TypeOK, NEW p \in Procs, Vanish(p),
           inbox' \in [Procs -> SUBSET Msg]
    PROVE  TypeOK'
  <1>1. status' \in [Procs -> {"off", "up", "down"}]
    BY Update DEF TypeOK, Vanish
  <1>2. setters' \in [Procs -> 0..4]
    BY Update DEF TypeOK, Vanish
  <1>3. info' \in [Procs -> [Kinds -> SUBSET Entry]]
    BY [k \in Kinds |-> {}] \in [Kinds -> SUBSET Entry], Update DEF TypeOK, Vanish
  <1>4. activity' \in [Procs -> [Procs -> Ages]]
    BY [q \in Procs |-> Absent] \in [Procs -> Ages], Update
    DEF TypeOK, Vanish, Ages, Absent
  <1>5. told' \in [Procs -> [Kinds -> SUBSET Key]]
    BY [k \in Kinds |-> {}] \in [Kinds -> SUBSET Key], Update DEF TypeOK, Vanish
  <1>6. discovered' \in [Procs -> SUBSET (Kinds \X Topics)]
    BY {} \in SUBSET (Kinds \X Topics), Update DEF TypeOK, Vanish
  <1> QED
    BY <1>1, <1>2, <1>3, <1>4, <1>5, <1>6 DEF TypeOK, Vanish

\* So does the reception thread, whatever message it reads.
LEMMA RecvType ==
    ASSUME TypeOK, NEW p \in Procs, NEW m \in inbox[p],
           DispatchDiscoveryMsg(p, m)
    PROVE  TypeOK'
  <1>1. m \in Msg /\ m.from \in Procs
    BY MsgFields DEF TypeOK
  <1>2. Received(p, m) \in [Procs -> SUBSET Msg]
    BY DEF TypeOK, Received
  <1>3. Refreshed(p, m.from) \in [Procs -> [Procs -> Ages]]
    BY <1>1, DiscoveryAssumption DEF TypeOK, Refreshed, Ages
  <1>4. CASE RecvAdvertise(p, m)
    <2>0. /\ info \in [Procs -> [Kinds -> SUBSET Entry]]
          /\ told \in [Procs -> [Kinds -> SUBSET Key]]
      BY DEF TypeOK
    <2>1. m \in AdvMsg /\ m.kind \in Kinds
      BY <1>1, <1>4, MsgFields DEF RecvAdvertise, AdvMsg
    <2>2. EntryOf(m) \in Entry /\ KeyOf(EntryOf(m)) \in Key
      BY <2>1, EntryOfType
    <2>3. info' \in [Procs -> [Kinds -> SUBSET Entry]]
      <3> DEFINE new == AddAddress(info[p][m.kind], EntryOf(m))
      <3>1. new \in SUBSET Entry
        BY <2>1, <2>2 DEF TypeOK, AddAddress
      <3>2. info' = info \/ info' = [info EXCEPT ![p][m.kind] = new]
        BY <1>4 DEF RecvAdvertise
      <3> HIDE DEF new
      <3>3. [info EXCEPT ![p][m.kind] = new] \in [Procs -> [Kinds -> SUBSET Entry]]
        BY <2>1, <3>1, InfoUpdate
      <3> QED
        BY <2>0, <3>2, <3>3
    <2>4. told' \in [Procs -> [Kinds -> SUBSET Key]]
      <3> DEFINE new == Connected(p, m.kind, {EntryOf(m)})
      <3>1. new \in SUBSET Key
        BY <2>1, <2>2 DEF TypeOK, Connected
      <3>2. told' = told \/ told' = [told EXCEPT ![p][m.kind] = new]
        BY <1>4 DEF RecvAdvertise
      <3> HIDE DEF new
      <3>3. [told EXCEPT ![p][m.kind] = new] \in [Procs -> [Kinds -> SUBSET Key]]
        BY <2>1, <3>1, ToldUpdate
      <3> QED
        BY <2>0, <3>2, <3>3
    <2> QED
      BY <1>2, <1>3, <1>4, <2>3, <2>4 DEF RecvAdvertise, TypeOK
  <1>5. CASE RecvSubscribe(p, m)
    <2> DEFINE ms == {Adv("ADVERTISE", m.kind, e) :
                         e \in {f \in Own(p, m.kind) :
                                   f.topic = m.topic /\ ScopeAdmits(f.scope, m.from, p)}}
    <2>1. m \in SubMsg /\ m.kind \in Kinds
      BY <1>1, <1>5, MsgFields DEF RecvSubscribe, SubMsg
    <2>2. ms \subseteq Msg
      BY <2>1, AdvType DEF Msg, Own, AddressesByProc, TypeOK
    <2>3. SendMsg(Received(p, m), p, ms)
      BY <1>5 DEF RecvSubscribe
    <2> HIDE DEF ms
    <2>4. inbox' \in [Procs -> SUBSET Msg]
      BY <1>2, <2>2, <2>3, SendMsgEffect
    <2> QED
      BY <1>3, <1>5, <2>4 DEF RecvSubscribe, TypeOK
  <1>6. CASE RecvHeartbeat(p, m)
    BY <1>2, <1>3, <1>6 DEF RecvHeartbeat, TypeOK
  <1>7. CASE RecvBye(p, m)
    <2>1. activity' \in [Procs -> [Procs -> Ages]]
      BY <1>1, <1>7, Absent \in Ages, ActivityUpdate DEF RecvBye, Ages
    <2> DEFINE heard == [k \in Kinds |->
                            Disconnected(p, k, KeysOfProc(told[p][k], m.from))]
    <2>2. told' \in [Procs -> [Kinds -> SUBSET Key]]
      <3>1. heard \in [Kinds -> SUBSET Key]
        BY DEF TypeOK, Disconnected
      <3>2. told' = [told EXCEPT ![p] = heard]
        BY <1>7 DEF RecvBye
      <3> HIDE DEF heard
      <3> QED
        BY <3>1, <3>2, Update DEF TypeOK
    <2>3. info' \in [Procs -> [Kinds -> SUBSET Entry]]
      BY <1>7 DEF RecvBye, TypeOK, DelAddressesByProc
    <2> QED
      BY <1>2, <1>7, <2>1, <2>2, <2>3 DEF RecvBye, TypeOK
  <1>8. CASE RecvUnadvertise(p, m)
    <2>0. /\ info \in [Procs -> [Kinds -> SUBSET Entry]]
          /\ told \in [Procs -> [Kinds -> SUBSET Key]]
      BY DEF TypeOK
    <2>1. m.kind \in Kinds
      BY <1>1, <1>8, MsgFields DEF RecvUnadvertise, AdvMsg
    <2>2. info' \in [Procs -> [Kinds -> SUBSET Entry]]
      <3> DEFINE new == DelAddressByNode(info[p][m.kind], m.topic, m.from, m.node)
      <3>1. new \in SUBSET Entry
        BY <2>1 DEF TypeOK, DelAddressByNode
      <3>2. info' = info \/ info' = [info EXCEPT ![p][m.kind] = new]
        BY <1>8 DEF RecvUnadvertise
      <3> HIDE DEF new
      <3>3. [info EXCEPT ![p][m.kind] = new] \in [Procs -> [Kinds -> SUBSET Entry]]
        BY <2>1, <3>1, InfoUpdate
      <3> QED
        BY <2>0, <3>2, <3>3
    <2>3. told' \in [Procs -> [Kinds -> SUBSET Key]]
      <3> DEFINE new == Disconnected(p, m.kind, {KeyOf(EntryOf(m))})
      <3>1. new \in SUBSET Key
        BY <2>1 DEF TypeOK, Disconnected
      <3>2. told' = told \/ told' = [told EXCEPT ![p][m.kind] = new]
        BY <1>8 DEF RecvUnadvertise
      <3> HIDE DEF new
      <3>3. [told EXCEPT ![p][m.kind] = new] \in [Procs -> [Kinds -> SUBSET Key]]
        BY <2>1, <3>1, ToldUpdate
      <3> QED
        BY <2>0, <3>2, <3>3
    <2> QED
      BY <1>2, <1>3, <1>8, <2>2, <2>3 DEF RecvUnadvertise, TypeOK
  <1> QED
    BY <1>4, <1>5, <1>6, <1>7, <1>8 DEF DispatchDiscoveryMsg

\* So does every call of the client.
LEMMA ClientType ==
    ASSUME TypeOK, NEW p \in Procs, ClientCall(p)
    PROVE  TypeOK'
  <1>1. CASE SetCallback(p)
    <2>1. setters[p] + 1 \in 0..4
      <3>1. setters[p] \in 0..4
        BY DEF TypeOK
      <3>2. setters[p] < 4
        BY <1>1 DEF SetCallback
      <3> QED
        BY <3>1, <3>2
    <2>2. setters' \in [Procs -> 0..4]
      BY <1>1, <2>1, Update DEF SetCallback, TypeOK
    <2> QED
      BY <1>1, <2>2 DEF SetCallback, TypeOK
  <1>2. ASSUME NEW k \in Kinds, NEW e \in Offerable(p), Advertise(p, k, e)
        PROVE  TypeOK'
    <2>1. e \in Entry
      BY DEF Offerable
    <2>2. Adv("ADVERTISE", k, e) \in Msg
      BY <2>1, AdvType DEF Msg
    <2>3. inbox' \in [Procs -> SUBSET Msg]
      <3> DEFINE ms == IF e.scope = "Process" THEN {}
                       ELSE {Adv("ADVERTISE", k, e)}
      <3>1. SendMsg(inbox, p, ms) /\ ms \subseteq Msg
        BY <1>2, <2>2 DEF Advertise
      <3>2. inbox \in [Procs -> SUBSET Msg]
        BY DEF TypeOK
      <3> HIDE DEF ms
      <3> QED
        BY <3>1, <3>2, SendMsgEffect
    <2>4. info' \in [Procs -> [Kinds -> SUBSET Entry]]
      <3>1. AddAddress(info[p][k], e) \in SUBSET Entry
        BY <2>1 DEF TypeOK, AddAddress
      <3> QED
        BY <1>2, <3>1, InfoUpdate DEF Advertise
    <2>5. offered' \in SUBSET Offers
      BY <1>2, <2>1 DEF Advertise, TypeOK, Offers
    <2> QED
      BY <1>2, <2>3, <2>4, <2>5 DEF Advertise, TypeOK
  <1>3. ASSUME NEW k \in Kinds, NEW e \in Own(p, k), Unadvertise(p, k, e)
        PROVE  TypeOK'
    <2>1. e \in Entry
      BY DEF Own, AddressesByProc, TypeOK
    <2>2. Adv("UNADVERTISE", k, e) \in Msg
      BY <2>1, AdvType DEF Msg
    <2>3. inbox' \in [Procs -> SUBSET Msg]
      <3> DEFINE ms == IF e.scope = "Process" THEN {}
                       ELSE {Adv("UNADVERTISE", k, e)}
      <3>1. SendMsg(inbox, p, ms) /\ ms \subseteq Msg
        BY <1>3, <2>2 DEF Unadvertise
      <3>2. inbox \in [Procs -> SUBSET Msg]
        BY DEF TypeOK
      <3> HIDE DEF ms
      <3> QED
        BY <3>1, <3>2, SendMsgEffect
    <2>4. info' \in [Procs -> [Kinds -> SUBSET Entry]]
      <3>1. DelAddressByNode(info[p][k], e.topic, p, e.node) \in SUBSET Entry
        BY DEF TypeOK, DelAddressByNode
      <3> QED
        BY <1>3, <3>1, InfoUpdate DEF Unadvertise
    <2> QED
      BY <1>3, <2>3, <2>4 DEF Unadvertise, TypeOK
  <1>4. ASSUME NEW k \in Kinds, NEW t \in Topics, Discover(p, k, t)
        PROVE  TypeOK'
    <2>1. [type |-> "SUBSCRIBE", kind |-> k, from |-> p, topic |-> t] \in Msg
      BY DEF Msg, SubMsg
    <2>2. inbox' \in [Procs -> SUBSET Msg]
      <3> DEFINE ms == {[type |-> "SUBSCRIBE", kind |-> k, from |-> p,
                         topic |-> t]}
      <3>1. SendMsg(inbox, p, ms) /\ ms \subseteq Msg
        BY <1>4, <2>1 DEF Discover
      <3>2. inbox \in [Procs -> SUBSET Msg]
        BY DEF TypeOK
      <3> HIDE DEF ms
      <3> QED
        BY <3>1, <3>2, SendMsgEffect
    <2>3. \A e \in info[p][k] : KeyOf(e) \in Key
      BY DEF TypeOK, Entry, KeyOf, Key
    <2>4. told' \in [Procs -> [Kinds -> SUBSET Key]]
      <3>1. Connected(p, k, {e \in info[p][k] : e.topic = t})
                \in SUBSET Key
        BY <2>3 DEF TypeOK, Connected
      <3> QED
        BY <1>4, <3>1, ToldUpdate DEF Discover
    <2>5. discovered' \in [Procs -> SUBSET (Kinds \X Topics)]
      BY <1>4, discovered[p] \cup {<<k, t>>} \in SUBSET (Kinds \X Topics), Update
      DEF Discover, TypeOK
    <2> QED
      BY <1>4, <2>2, <2>4, <2>5 DEF Discover, TypeOK
  <1>5. ASSUME NEW i \in Interests[p], Discover(p, i[1], i[2])
        PROVE  TypeOK'
    <2>1. i[1] \in Kinds /\ i[2] \in Topics
      BY DiscoveryAssumption
    <2> QED
      BY <1>4, <1>5, <2>1
  <1> QED
    BY <1>1, <1>2, <1>3, <1>5 DEF ClientCall

\* TypeOK is inductive: every step of every thread keeps it.
LEMMA TypeStep ==
    ASSUME TypeOK, [Next]_vars
    PROVE  TypeOK'
  <1>1. CASE Tick
    BY <1>1, DiscoveryAssumption DEF Tick, TypeOK, Ages, Absent
  <1>2. ASSUME NEW p \in Procs, Start(p)
        PROVE  TypeOK'
    BY <1>2 DEF Start, TypeOK
  <1>3. ASSUME NEW p \in Procs, Stop(p)
        PROVE  TypeOK'
    <2>1. [type |-> "BYE", from |-> p] \in Msg
      BY DEF Msg, PlainMsg
    <2>2. [inbox EXCEPT ![p] = {}] \in [Procs -> SUBSET Msg]
      BY DEF TypeOK
    <2>3. inbox' \in [Procs -> SUBSET Msg]
      <3> DEFINE ms == {[type |-> "BYE", from |-> p]}
                 box == [inbox EXCEPT ![p] = {}]
      <3>1. SendMsg(box, p, ms) /\ ms \subseteq Msg /\ box \in [Procs -> SUBSET Msg]
        BY <1>3, <2>1, <2>2 DEF Stop
      <3> HIDE DEF ms, box
      <3> QED
        BY <3>1, SendMsgEffect
    <2> QED
      BY <1>3, <2>3, VanishType DEF Stop
  <1>4. ASSUME NEW p \in Procs, Crash(p) \/ ActivityTaskAborts(p)
        PROVE  TypeOK'
    <2>1. inbox' \in [Procs -> SUBSET Msg]
      BY <1>4 DEF Crash, ActivityTaskAborts, TypeOK
    <2> QED
      BY <1>4, <2>1, VanishType DEF Crash, ActivityTaskAborts
  <1>5. ASSUME NEW p \in Procs, ActivityTask(p)
        PROVE  TypeOK'
    <2>1. info' \in [Procs -> [Kinds -> SUBSET Entry]]
      BY <1>5 DEF ActivityTask, TypeOK
    <2>2. told' \in [Procs -> [Kinds -> SUBSET Key]]
      BY <1>5 DEF ActivityTask, TypeOK
    <2>3. activity' \in [Procs -> [Procs -> Ages]]
      BY <1>5 DEF ActivityTask, TypeOK, Ages
    <2> QED
      BY <1>5, <2>1, <2>2, <2>3 DEF ActivityTask, TypeOK
  <1>6. ASSUME NEW p \in Procs, HeartbeatTask(p)
        PROVE  TypeOK'
    <2>1. inbox' \in [Procs -> SUBSET Msg]
      <3> DEFINE ms == {[type |-> "HEARTBEAT", from |-> p]} \cup
                       UNION {{Adv("ADVERTISE", k, e) : e \in Own(p, k)} :
                              k \in Kinds}
      <3>1. SendMsg(inbox, p, ms) /\ ms \subseteq Msg
        BY <1>6, HeartbeatMsgs DEF HeartbeatTask
      <3>2. inbox \in [Procs -> SUBSET Msg]
        BY DEF TypeOK
      <3> HIDE DEF ms
      <3> QED
        BY <3>1, <3>2, SendMsgEffect
    <2> QED
      BY <1>6, <2>1 DEF HeartbeatTask, TypeOK
  <1>7. CASE UNCHANGED vars
    BY <1>7 DEF vars, TypeOK
  <1> QED
    BY <1>1, <1>2, <1>3, <1>4, <1>5, <1>6, <1>7, ClientType, RecvType DEF Next

\* TypeOK holds in every reachable state.
THEOREM TypeCorrect == Spec => []TypeOK
  <1>1. Init => TypeOK
    BY DEF Init, TypeOK, Ages
  <1>2. TypeOK /\ [Next]_vars => TypeOK'
    BY TypeStep
  <1> QED
    BY <1>1, <1>2, PTL DEF Spec

---------------------------------------------------------------------------
\* No address without an activity entry.

\* An ADVERTISE message adds at most its own entry, to one table of the reader.
LEMMA RecvAdvertiseEffect ==
    ASSUME TypeOK, NEW p \in Procs, NEW m \in Msg, RecvAdvertise(p, m)
    PROVE  \/ info' = info
           \/ /\ ScopeAdmits(m.scope, m.from, p)
              /\ ~HasEntry(info[p][m.kind], EntryOf(m))
              /\ m.kind \in Kinds
              /\ info'[p][m.kind] = info[p][m.kind] \cup {EntryOf(m)}
              /\ \A r \in Procs, k \in Kinds :
                    r # p \/ k # m.kind => info'[r][k] = info[r][k]
  <1> DEFINE new == info[p][m.kind] \cup {EntryOf(m)}
  <1>1. info \in [Procs -> [Kinds -> SUBSET Entry]]
    BY DEF TypeOK
  <1>2. m.kind \in Kinds
    BY MsgFields DEF RecvAdvertise, AdvMsg
  <1>3. \/ info' = info
        \/ /\ ScopeAdmits(m.scope, m.from, p)
           /\ ~HasEntry(info[p][m.kind], EntryOf(m))
           /\ info' = [info EXCEPT ![p][m.kind] = new]
    BY DEF RecvAdvertise, AddAddress
  <1> HIDE DEF new
  <1>4. ASSUME info' = [info EXCEPT ![p][m.kind] = new]
        PROVE  /\ info'[p][m.kind] = new
               /\ \A r \in Procs, k \in Kinds :
                     r # p \/ k # m.kind => info'[r][k] = info[r][k]
    BY <1>1, <1>2, <1>4
  <1> QED
    BY <1>2, <1>3, <1>4 DEF new

\* Reading a message sets or keeps the sender's activity entry, unless it is a
\* BYE, which also removes all its addresses (DispatchDiscoveryMsg).
LEMMA RecvActivity ==
    ASSUME TypeOK, InfoHasActivity, NEW p \in Procs, NEW m \in inbox[p],
           DispatchDiscoveryMsg(p, m)
    PROVE  InfoHasActivity'
  <1> SUFFICES ASSUME NEW r \in Procs, NEW k \in Kinds,
                      NEW e \in info'[r][k], e.proc # r
               PROVE  activity'[r][e.proc] # Absent
    BY DEF InfoHasActivity
  <1>0. /\ activity \in [Procs -> [Procs -> Ages]]
        /\ info \in [Procs -> [Kinds -> SUBSET Entry]]
    BY DEF TypeOK
  <1>1. m \in Msg /\ m.from \in Procs
    BY MsgFields DEF TypeOK
  <1>2. e.proc \in Procs
    BY RecvType DEF TypeOK, Entry
  <1>3. ASSUME e \in info[r][k]
        PROVE  activity[r][e.proc] # Absent
    BY <1>3 DEF InfoHasActivity
  <1>4. ASSUME activity' = Refreshed(p, m.from),
               e \in info[r][k] \/ (r = p /\ e.proc = m.from)
        PROVE  activity'[r][e.proc] # Absent
    BY <1>0, <1>1, <1>2, <1>3, <1>4 DEF Refreshed, Absent
  <1>5. CASE RecvAdvertise(p, m)
    <2>1. CASE e \in info[r][k]
      BY <1>4, <1>5, <2>1 DEF RecvAdvertise
    <2>2. CASE e \notin info[r][k]
      <3>1. r = p /\ k = m.kind /\ e = EntryOf(m)
        BY <1>1, <1>5, <2>2, RecvAdvertiseEffect
      <3>2. e.proc = m.from
        BY <3>1 DEF EntryOf
      <3> QED
        BY <1>4, <1>5, <3>1, <3>2 DEF RecvAdvertise
    <2> QED
      BY <2>1, <2>2
  <1>6. CASE RecvSubscribe(p, m) \/ RecvHeartbeat(p, m)
    BY <1>4, <1>6 DEF RecvSubscribe, RecvHeartbeat
  <1>7. CASE RecvBye(p, m)
    <2>1. r # p => info'[r][k] = info[r][k]
      BY <1>0, <1>7 DEF RecvBye
    <2>2. r = p => e \in info[r][k] /\ e.proc # m.from
      BY <1>0, <1>7 DEF RecvBye, DelAddressesByProc, AddressesByProc
    <2>3. activity' = [activity EXCEPT ![p][m.from] = Absent]
      BY <1>7 DEF RecvBye
    <2> QED
      BY <1>0, <1>1, <1>2, <1>3, <2>1, <2>2, <2>3
  <1>8. CASE RecvUnadvertise(p, m)
    <2>1. m.kind \in Kinds
      BY <1>1, <1>8, MsgFields DEF RecvUnadvertise, AdvMsg
    <2>2. e \in info[r][k]
      BY <1>0, <1>8, <2>1 DEF RecvUnadvertise, DelAddressByNode
    <2> QED
      BY <1>4, <1>8, <2>2 DEF RecvUnadvertise
  <1> QED
    BY <1>5, <1>6, <1>7, <1>8 DEF DispatchDiscoveryMsg

\* A step that leaves the activity map of every process alone and adds no
\* remote address keeps InfoHasActivity.
LEMMA KeepsActivity ==
    ASSUME InfoHasActivity, activity' = activity,
           \A r \in Procs, k \in Kinds :
               \A e \in info'[r][k] : e \in info[r][k] \/ e.proc = r
    PROVE  InfoHasActivity'
  BY DEF InfoHasActivity

\* A process that ends has no addresses left, and changes nobody else's.
LEMMA VanishActivity ==
    ASSUME TypeOK, InfoHasActivity, NEW p \in Procs, Vanish(p)
    PROVE  InfoHasActivity'
  <1> SUFFICES ASSUME NEW r \in Procs, NEW k \in Kinds,
                      NEW e \in info'[r][k], e.proc # r
               PROVE  activity'[r][e.proc] # Absent
    BY DEF InfoHasActivity
  <1>1. r # p
    BY DEF Vanish, TypeOK
  <1>2. activity'[r] = activity[r] /\ info'[r] = info[r]
    BY <1>1 DEF Vanish, TypeOK
  <1> QED
    BY <1>2 DEF InfoHasActivity

\* InfoHasActivity is inductive, given the types: expiry and BYE remove the
\* addresses of a process together with its activity entry.
LEMMA ActivityStep ==
    ASSUME TypeOK, InfoHasActivity, [Next]_vars
    PROVE  InfoHasActivity'
  <1>0. /\ activity \in [Procs -> [Procs -> Ages]]
        /\ info \in [Procs -> [Kinds -> SUBSET Entry]]
    BY DEF TypeOK
  <1>1. CASE Tick
    <2>1. \A r, q \in Procs : activity[r][q] # Absent => activity'[r][q] # Absent
      BY <1>0, <1>1, DiscoveryAssumption DEF Tick, Ages, Absent
    <2>2. info' = info
      BY <1>1 DEF Tick
    <2>3. \A r \in Procs, k \in Kinds : \A e \in info[r][k] : e.proc \in Procs
      BY <1>0 DEF Entry
    <2> QED
      BY <2>1, <2>2, <2>3 DEF InfoHasActivity
  <1>2. ASSUME NEW p \in Procs, Stop(p) \/ Crash(p) \/ ActivityTaskAborts(p)
        PROVE  InfoHasActivity'
    BY <1>2, VanishActivity DEF Stop, Crash, ActivityTaskAborts
  <1>3. ASSUME NEW p \in Procs, ActivityTask(p)
        PROVE  InfoHasActivity'
    <2> SUFFICES ASSUME NEW r \in Procs, NEW k \in Kinds,
                        NEW e \in info'[r][k], e.proc # r
                 PROVE  activity'[r][e.proc] # Absent
      BY DEF InfoHasActivity
    <2>1. CASE r = p
      <3>1. e \in info[r][k] /\ e.proc \notin Expired(p)
        BY <1>0, <1>3, <2>1 DEF ActivityTask
      <3>2. e.proc \in Procs
        BY <1>0, <3>1 DEF Entry
      <3>3. activity'[r][e.proc] = activity[r][e.proc]
        BY <1>0, <1>3, <2>1, <3>1, <3>2 DEF ActivityTask
      <3> QED
        BY <3>1, <3>3 DEF InfoHasActivity
    <2>2. CASE r # p
      <3>1. info'[r] = info[r] /\ activity'[r] = activity[r]
        BY <1>0, <1>3, <2>2 DEF ActivityTask
      <3> QED
        BY <3>1 DEF InfoHasActivity
    <2> QED
      BY <2>1, <2>2
  <1>4. ASSUME NEW p \in Procs, ClientCall(p)
        PROVE  InfoHasActivity'
    <2>1. activity' = activity
      BY <1>4 DEF ClientCall, SetCallback, Advertise, Unadvertise, Discover
    <2>2. ASSUME NEW k \in Kinds, NEW e \in Offerable(p), Advertise(p, k, e)
          PROVE  InfoHasActivity'
      <3>1. e.proc = p
        BY DEF Offerable
      <3>2. \A r \in Procs, kk \in Kinds :
                info'[r][kk] \subseteq info[r][kk] \cup (IF r = p THEN {e} ELSE {})
        BY <1>0, <2>2 DEF Advertise, AddAddress
      <3> QED
        BY <2>1, <3>1, <3>2, KeepsActivity
    <2>3. ASSUME NEW k \in Kinds, NEW e \in Own(p, k), Unadvertise(p, k, e)
          PROVE  InfoHasActivity'
      <3>1. \A r \in Procs, kk \in Kinds : info'[r][kk] \subseteq info[r][kk]
        BY <1>0, <2>3 DEF Unadvertise, DelAddressByNode
      <3> QED
        BY <2>1, <3>1, KeepsActivity
    <2>4. ASSUME info' = info
          PROVE  InfoHasActivity'
      BY <2>1, <2>4, KeepsActivity
    <2> QED
      BY <1>4, <2>2, <2>3, <2>4 DEF ClientCall, SetCallback, Discover
  <1>5. ASSUME NEW p \in Procs, Start(p) \/ HeartbeatTask(p)
        PROVE  InfoHasActivity'
    <2>1. info' = info /\ activity' = activity
      BY <1>5 DEF Start, HeartbeatTask
    <2> QED
      BY <2>1, KeepsActivity
  <1>6. CASE UNCHANGED vars
    BY <1>6, KeepsActivity DEF vars
  <1> QED
    BY <1>1, <1>2, <1>3, <1>4, <1>5, <1>6, RecvActivity DEF Next

\* Every remote address a process holds is watched by its activity thread.
THEOREM InfoIsWatched == Spec => []InfoHasActivity
  <1>1. Init => InfoHasActivity
    BY DEF Init, InfoHasActivity
  <1>2. TypeOK /\ InfoHasActivity /\ [Next]_vars => InfoHasActivity'
    BY ActivityStep
  <1> QED
    BY <1>1, <1>2, TypeCorrect, PTL DEF Spec

---------------------------------------------------------------------------
\* The client's picture is the table.

\* What the client of process p was told of kind k, against p's table: what the
\* table has of a topic passed to Discover was announced.  Only a client whose
\* four callbacks are set can have called Discover.
Announced(p, k) ==
    \A e \in info[p][k] :
        <<k, e.topic>> \in discovered[p] /\ e.proc # p => KeyOf(e) \in told[p][k]

InSync(p, k) ==
    /\ discovered[p] # {} => Constructed(p)
    /\ Announced(p, k)

SyncInv == \A p \in Procs, k \in Kinds : InSync(p, k)

\* The same picture, the same table and the same calls are still in step.
LEMMA SyncFrame ==
    ASSUME NEW r \in Procs, NEW k \in Kinds, InSync(r, k),
           info'[r][k] = info[r][k], told'[r][k] = told[r][k],
           discovered'[r] = discovered[r], setters'[r] = setters[r]
    PROVE  InSync(r, k)'
  <1>1. InSync(r, k)' <=>
            /\ discovered'[r] # {} => setters'[r] = 4
            /\ \A e \in info'[r][k] :
                  <<k, e.topic>> \in discovered'[r] /\ e.proc # r
                      => KeyOf(e) \in told'[r][k]
    BY DEF InSync, Announced, Constructed, KeyOf
  <1> QED
    BY <1>1 DEF InSync, Announced, Constructed

\* A process that ends has told nothing, knows nothing and asks for nothing.
LEMMA VanishSync ==
    ASSUME TypeOK, SyncInv, NEW p \in Procs, Vanish(p)
    PROVE  SyncInv'
  <1> SUFFICES ASSUME NEW r \in Procs, NEW k \in Kinds
               PROVE  InSync(r, k)'
    BY DEF SyncInv
  <1>1. CASE r = p
    <2>1. info'[r][k] = {} /\ told'[r][k] = {} /\ discovered'[r] = {}
      BY <1>1 DEF Vanish, TypeOK
    <2> QED
      BY <2>1 DEF InSync, Announced
  <1>2. CASE r # p
    <2>1. /\ info'[r] = info[r] /\ told'[r] = told[r]
          /\ discovered'[r] = discovered[r] /\ setters'[r] = setters[r]
      BY <1>2 DEF Vanish, TypeOK
    <2> QED
      BY <2>1, SyncFrame DEF SyncInv
  <1> QED
    BY <1>1, <1>2

\* A kind of a process whose table gains nothing and whose picture loses only
\* offers that the table loses stays in step (RunActivityTask for messages, BYE,
\* UNADVERTISE).
LEMMA SyncLess ==
    ASSUME NEW r \in Procs, NEW k \in Kinds, InSync(r, k), NEW Gone,
           info'[r][k] = {e \in info[r][k] : KeyOf(e) \notin Gone},
           told[r][k] \ Gone \subseteq told'[r][k],
           discovered'[r] = discovered[r], setters'[r] = setters[r]
    PROVE  InSync(r, k)'
  <1>1. discovered'[r] # {} => Constructed(r)'
    BY DEF InSync, Constructed
  <1>2. Announced(r, k)'
    BY DEF InSync, Announced, KeyOf
  <1> QED
    BY <1>1, <1>2 DEF InSync

\* RunActivityTask: of messages table and picture lose the same processes; of
\* services only the table does.
LEMMA ActivitySync ==
    ASSUME TypeOK, SyncInv, NEW p \in Procs, ActivityTask(p)
    PROVE  SyncInv'
  <1> SUFFICES ASSUME NEW r \in Procs, NEW k \in Kinds
               PROVE  InSync(r, k)'
    BY DEF SyncInv
  <1>0. /\ info \in [Procs -> [Kinds -> SUBSET Entry]]
        /\ told \in [Procs -> [Kinds -> SUBSET Key]]
    BY DEF TypeOK
  <1>1. InSync(r, k) /\ discovered'[r] = discovered[r] /\ setters'[r] = setters[r]
    BY DEF SyncInv, ActivityTask
  <1>2. CASE r # p
    <2>1. info'[r] = info[r] /\ told'[r] = told[r]
      BY <1>0, <1>2 DEF ActivityTask
    <2> QED
      BY <1>1, <2>1, SyncFrame
  <1>3. CASE r = p /\ k = "msg"
    <2> DEFINE Gone == {x \in Key : x.proc \in Expired(p)}
    <2>1. info'[r][k] = {e \in info[r][k] : e.proc \notin Expired(p)}
      BY <1>0, <1>3 DEF ActivityTask
    <2>2. told'[r][k] = {x \in told[r][k] : x.proc \notin Expired(p)}
      BY <1>0, <1>3 DEF ActivityTask
    <2>3. \A e \in info[r][k] : KeyOf(e) \in Gone <=> e.proc \in Expired(p)
      BY <1>0 DEF Entry, KeyOf, Key
    <2>4. \A x \in told[r][k] : x \in Gone <=> x.proc \in Expired(p)
      BY <1>0
    <2> HIDE DEF Gone
    <2>5. /\ info'[r][k] = {e \in info[r][k] : KeyOf(e) \notin Gone}
          /\ told'[r][k] = told[r][k] \ Gone
      BY <2>1, <2>2, <2>3, <2>4
    <2> QED
      BY <1>1, <2>5, SyncLess
  <1>4. CASE r = p /\ k # "msg"
    <2>1. info'[r][k] \subseteq info[r][k] /\ told'[r][k] = told[r][k]
      BY <1>0, <1>4 DEF ActivityTask
    <2>2. Announced(r, k)'
      BY <1>1, <2>1 DEF InSync, Announced, KeyOf
    <2> QED
      BY <1>1, <1>4, <2>2 DEF InSync, Constructed
  <1> QED
    BY <1>2, <1>3, <1>4

\* An ADVERTISE message adds one address to the table, and its announcement to
\* the picture of a client that attends; one that does not has asked for
\* nothing yet.
LEMMA RecvAdvertiseSync ==
    ASSUME TypeOK, SyncInv, NEW p \in Procs, NEW m \in inbox[p],
           RecvAdvertise(p, m)
    PROVE  SyncInv'
  <1> SUFFICES ASSUME NEW r \in Procs, NEW k \in Kinds
               PROVE  InSync(r, k)'
    BY DEF SyncInv
  <1>0. /\ info \in [Procs -> [Kinds -> SUBSET Entry]]
        /\ told \in [Procs -> [Kinds -> SUBSET Key]]
        /\ m.kind \in Kinds
    BY MsgFields DEF TypeOK, RecvAdvertise, AdvMsg
  <1>1. InSync(r, k) /\ discovered'[r] = discovered[r] /\ setters'[r] = setters[r]
    BY DEF SyncInv, RecvAdvertise
  <1>2. CASE info' = info /\ told' = told
    BY <1>1, <1>2, SyncFrame
  <1> DEFINE x == EntryOf(m)
             heard == Connected(p, m.kind, {x})
  <1>3. CASE /\ info' = [info EXCEPT ![p][m.kind] = AddAddress(@, x)]
             /\ told' = [told EXCEPT ![p][m.kind] = heard]
             /\ ~HasEntry(info[p][m.kind], x)
    <2>1. CASE r # p \/ k # m.kind
      <3> HIDE DEF heard, x
      <3>1. info'[r][k] = info[r][k] /\ told'[r][k] = told[r][k]
        BY <1>0, <1>3, <2>1
      <3> QED
        BY <1>1, <3>1, SyncFrame
    <2>2. CASE r = p /\ k = m.kind
      <3>1. info'[r][k] = info[r][k] \cup {x}
        <4> HIDE DEF heard, x
        <4> QED
          BY <1>0, <1>3, <2>2 DEF AddAddress
      <3>2. told'[r][k] = IF HearsNew(r, k) THEN told[r][k] \cup {KeyOf(x)}
                          ELSE told[r][k]
        <4>1. told'[r][k] = heard
          <5> HIDE DEF heard
          <5> QED
            BY <1>0, <1>3, <2>2
        <4> HIDE DEF x
        <4> QED
          BY <2>2, <4>1 DEF Connected
      <3> HIDE DEF x
      <3>3. discovered'[r] # {} => Constructed(r)'
        BY <1>1 DEF InSync, Constructed
      <3>4. Announced(r, k)'
        <4> SUFFICES ASSUME NEW e \in info'[r][k],
                            <<k, e.topic>> \in discovered'[r], e.proc # r
                     PROVE  KeyOf(e) \in told'[r][k]
          BY DEF Announced, KeyOf
        <4>1. HearsNew(r, k)
          BY <1>1 DEF InSync, Constructed, HearsNew
        <4>2. told'[r][k] = told[r][k] \cup {KeyOf(x)}
          BY <3>2, <4>1
        <4>3. e = x \/ KeyOf(e) \in told[r][k]
          BY <1>1, <3>1 DEF InSync, Announced
        <4> QED
          BY <4>2, <4>3
      <3> QED
        BY <3>3, <3>4 DEF InSync
    <2> QED
      BY <2>1, <2>2
  <1> QED
    BY <1>2, <1>3 DEF RecvAdvertise

\* BYE takes every offer of its sender out of tables and picture, UNADVERTISE
\* one offer; the picture only if the callback for it is set.
LEMMA RecvLossEffect ==
    ASSUME TypeOK, NEW p \in Procs, NEW m \in inbox[p],
           RecvBye(p, m) \/ RecvUnadvertise(p, m),
           NEW r \in Procs, NEW k \in Kinds
    PROVE  \E Gone \in SUBSET Key :
               /\ info'[r][k] = {e \in info[r][k] : KeyOf(e) \notin Gone}
               /\ told'[r][k] = IF HearsEnds(r, k) THEN told[r][k] \ Gone
                                ELSE told[r][k]
  <1>0. /\ info \in [Procs -> [Kinds -> SUBSET Entry]]
        /\ told \in [Procs -> [Kinds -> SUBSET Key]]
        /\ m \in Msg
    BY DEF TypeOK
  <1>1. ASSUME info'[r][k] = info[r][k], told'[r][k] = told[r][k]
        PROVE  /\ info'[r][k] = {e \in info[r][k] : KeyOf(e) \notin {}}
               /\ told'[r][k] = IF HearsEnds(r, k) THEN told[r][k] \ {}
                                ELSE told[r][k]
    BY <1>1
  <1>2. CASE RecvBye(p, m)
    <2>1. CASE r # p
      <3>1. info'[r] = info[r] /\ told'[r] = told[r]
        BY <1>0, <1>2, <2>1 DEF RecvBye
      <3> QED
        BY <1>1, <3>1
    <2>2. CASE r = p
      <3> DEFINE Gone == KeysOfProc(Key, m.from)
      <3>1. info'[r][k] = info[r][k] \ AddressesByProc(info[r][k], m.from)
        BY <1>0, <1>2, <2>2 DEF RecvBye, DelAddressesByProc
      <3>2. told'[r][k] = Disconnected(r, k, KeysOfProc(told[r][k], m.from))
        BY <1>0, <1>2, <2>2 DEF RecvBye
      <3>3. \A e \in info[r][k] : KeyOf(e) \in Gone <=> e.proc = m.from
        BY <1>0 DEF Entry, KeyOf, Key, KeysOfProc
      <3>4. \A x \in told[r][k] : x \in Gone <=> x.proc = m.from
        BY <1>0 DEF KeysOfProc
      <3>5. Gone \in SUBSET Key
        BY DEF KeysOfProc
      <3> HIDE DEF Gone
      <3>6. info'[r][k] = {e \in info[r][k] : KeyOf(e) \notin Gone}
        BY <3>1, <3>3 DEF AddressesByProc
      <3>7. told[r][k] \ KeysOfProc(told[r][k], m.from) = told[r][k] \ Gone
        BY <3>4 DEF KeysOfProc
      <3> QED
        BY <3>2, <3>5, <3>6, <3>7 DEF Disconnected
    <2> QED
      BY <2>1, <2>2
  <1>3. CASE RecvUnadvertise(p, m)
    <2>1. m \in AdvMsg /\ m.kind \in Kinds
      BY <1>0, <1>3, MsgFields DEF RecvUnadvertise, AdvMsg
    <2> DEFINE left == DelAddressByNode(info[p][m.kind], m.topic, m.from, m.node)
               heard == Disconnected(p, m.kind, {KeyOf(EntryOf(m))})
    <2>2. CASE info' = info /\ told' = told
      BY <1>1, <2>2
    <2>3. CASE /\ info' = [info EXCEPT ![p][m.kind] = left]
               /\ told' = [told EXCEPT ![p][m.kind] = heard]
      <3>1. CASE r # p \/ k # m.kind
        <4> HIDE DEF left, heard
        <4>1. info'[r][k] = info[r][k] /\ told'[r][k] = told[r][k]
          BY <1>0, <2>1, <2>3, <3>1
        <4> QED
          BY <1>1, <4>1
      <3>2. CASE r = p /\ k = m.kind
        <4>1. info'[r][k] = left /\ told'[r][k] = heard
          <5> HIDE DEF left, heard
          <5> QED
            BY <1>0, <2>1, <2>3, <3>2
        <4>2. \A e \in info[r][k] :
                  KeyOf(e) = KeyOf(EntryOf(m)) <=>
                      e.topic = m.topic /\ e.proc = m.from /\ e.node = m.node
          BY DEF KeyOf, EntryOf
        <4>3. info'[r][k] = {e \in info[r][k] : KeyOf(e) \notin {KeyOf(EntryOf(m))}}
          BY <3>2, <4>1, <4>2 DEF DelAddressByNode, AddressesByNode
        <4>4. told'[r][k] = IF HearsEnds(r, k)
                            THEN told[r][k] \ {KeyOf(EntryOf(m))} ELSE told[r][k]
          BY <3>2, <4>1 DEF Disconnected
        <4>5. {KeyOf(EntryOf(m))} \in SUBSET Key
          BY <2>1, EntryOfType
        <4> HIDE DEF left, heard
        <4> QED
          BY <4>3, <4>4, <4>5
      <3> QED
        BY <3>1, <3>2
    <2> QED
      BY <1>3, <2>2, <2>3 DEF RecvUnadvertise
  <1> QED
    BY <1>2, <1>3

\* So what is in step stays so.
LEMMA RecvLossSync ==
    ASSUME TypeOK, SyncInv, NEW p \in Procs, NEW m \in inbox[p],
           RecvBye(p, m) \/ RecvUnadvertise(p, m)
    PROVE  SyncInv'
  <1> SUFFICES ASSUME NEW r \in Procs, NEW k \in Kinds
               PROVE  InSync(r, k)'
    BY DEF SyncInv
  <1>1. InSync(r, k) /\ discovered'[r] = discovered[r] /\ setters'[r] = setters[r]
    BY DEF SyncInv, RecvBye, RecvUnadvertise
  <1>2. PICK Gone \in SUBSET Key :
               /\ info'[r][k] = {e \in info[r][k] : KeyOf(e) \notin Gone}
               /\ told'[r][k] = IF HearsEnds(r, k) THEN told[r][k] \ Gone
                                ELSE told[r][k]
    BY RecvLossEffect
  <1>3. told[r][k] \ Gone \subseteq told'[r][k]
    BY <1>2
  <1> QED
    BY <1>1, <1>2, <1>3, SyncLess

\* A call of the client: Discover announces what the table has of its topic,
\* what the client's own nodes offer or withdraw is no remote address.
LEMMA ClientSync ==
    ASSUME TypeOK, SyncInv, NEW p \in Procs, ClientCall(p)
    PROVE  SyncInv'
  <1> SUFFICES ASSUME NEW r \in Procs, NEW k \in Kinds
               PROVE  InSync(r, k)'
    BY DEF SyncInv
  <1>0. /\ info \in [Procs -> [Kinds -> SUBSET Entry]]
        /\ told \in [Procs -> [Kinds -> SUBSET Key]]
        /\ discovered \in [Procs -> SUBSET (Kinds \X Topics)]
    BY DEF TypeOK
  <1>1. InSync(r, k)
    BY DEF SyncInv
  <1>2. CASE SetCallback(p)
    <2>1. CASE r # p
      <3>1. setters'[r] = setters[r]
        BY <1>2, <2>1 DEF SetCallback, TypeOK
      <3> QED
        BY <1>1, <1>2, <3>1, SyncFrame DEF SetCallback
    <2>2. CASE r = p
      <3>1. discovered[r] = {}
        BY <1>1, <1>2, <2>2 DEF SetCallback, InSync, Constructed
      <3>2. discovered'[r] = {} /\ info'[r][k] = info[r][k] /\ told'[r][k] = told[r][k]
        BY <1>2, <3>1 DEF SetCallback
      <3> QED
        BY <1>1, <3>2 DEF InSync, Announced, KeyOf
    <2> QED
      BY <2>1, <2>2
  \* Own addresses come and go.
  <1>3. ASSUME told' = told, discovered' = discovered, setters' = setters,
               \A e \in info'[r][k] : e.proc # r => e \in info[r][k],
               \A e \in info[r][k] : e.proc # r => e \in info'[r][k]
        PROVE  InSync(r, k)'
    <2>1. discovered'[r] # {} => Constructed(r)'
      BY <1>1, <1>3 DEF InSync, Constructed
    <2>2. Announced(r, k)'
      BY <1>1, <1>3 DEF InSync, Announced, KeyOf
    <2> QED
      BY <2>1, <2>2 DEF InSync
  <1>4. ASSUME NEW kk \in Kinds, NEW f \in Offerable(p), Advertise(p, kk, f)
        PROVE  InSync(r, k)'
    <2>1. f.proc = p
      BY DEF Offerable
    <2>2. /\ info[r][k] \subseteq info'[r][k]
          /\ info'[r][k] \subseteq info[r][k] \cup (IF r = p THEN {f} ELSE {})
      BY <1>0, <1>4 DEF Advertise, AddAddress
    <2>3. told' = told /\ discovered' = discovered /\ setters' = setters
      BY <1>4 DEF Advertise
    <2> QED
      BY <1>3, <2>1, <2>2, <2>3
  <1>5. ASSUME NEW kk \in Kinds, NEW f \in Own(p, kk), Unadvertise(p, kk, f)
        PROVE  InSync(r, k)'
    <2>1. /\ info'[r][k] \subseteq info[r][k]
          /\ \A e \in info[r][k] : e \in info'[r][k] \/ (r = p /\ e.proc = p)
      BY <1>0, <1>5 DEF Unadvertise, DelAddressByNode, AddressesByNode
    <2>2. told' = told /\ discovered' = discovered /\ setters' = setters
      BY <1>5 DEF Unadvertise
    <2> QED
      BY <1>3, <2>1, <2>2
  <1>6. ASSUME NEW kk \in Kinds, NEW t \in Topics, Discover(p, kk, t)
        PROVE  InSync(r, k)'
    <2> DEFINE found == {e \in info[p][kk] : e.topic = t}
               heard == Connected(p, kk, found)
    <2>1. /\ Constructed(p) /\ setters' = setters /\ info' = info
          /\ told' = [told EXCEPT ![p][kk] = heard]
          /\ discovered' = [discovered EXCEPT ![p] = @ \cup {<<kk, t>>}]
      BY <1>6 DEF Discover
    <2>2. heard = told[p][kk] \cup {KeyOf(e) : e \in found}
      BY <2>1 DEF Connected, HearsNew, Constructed
    <2> HIDE DEF heard, found
    <2>3. CASE r # p
      <3>1. told'[r] = told[r] /\ discovered'[r] = discovered[r]
        BY <1>0, <2>1, <2>3
      <3> QED
        BY <1>1, <2>1, <3>1, SyncFrame
    <2>4. CASE r = p
      <3>1. discovered'[r] = discovered[r] \cup {<<kk, t>>}
        BY <1>0, <2>1, <2>4
      <3>2. told'[r][k] = IF k = kk THEN heard ELSE told[r][k]
        BY <1>0, <2>1, <2>4
      <3>3. Constructed(r)'
        BY <2>1, <2>4 DEF Constructed
      <3>4. Announced(r, k)'
        <4> SUFFICES ASSUME NEW e \in info'[r][k],
                            <<k, e.topic>> \in discovered'[r], e.proc # r
                     PROVE  KeyOf(e) \in told'[r][k]
          BY DEF Announced, KeyOf
        <4>1. e \in info[r][k]
          BY <2>1
        <4>2. CASE <<k, e.topic>> \in discovered[r]
          <5>1. KeyOf(e) \in told[r][k]
            BY <1>1, <4>1, <4>2 DEF InSync, Announced
          <5> QED
            BY <2>2, <2>4, <3>2, <5>1
        <4>3. CASE k = kk /\ e.topic = t
          BY <2>2, <2>4, <3>2, <4>1, <4>3 DEF found
        <4> QED
          BY <3>1, <4>2, <4>3
      <3> QED
        BY <3>3, <3>4 DEF InSync
    <2> QED
      BY <2>3, <2>4
  <1>7. ASSUME NEW i \in Interests[p], Discover(p, i[1], i[2])
        PROVE  InSync(r, k)'
    <2>1. i[1] \in Kinds /\ i[2] \in Topics
      BY DiscoveryAssumption
    <2> QED
      BY <1>6, <1>7, <2>1
  <1> QED
    BY <1>2, <1>4, <1>5, <1>7 DEF ClientCall

\* SyncInv is inductive, given the types.
LEMMA SyncStep ==
    ASSUME TypeOK, SyncInv, [Next]_vars
    PROVE  SyncInv'
  <1>1. ASSUME info' = info, told' = told, discovered' = discovered,
               setters' = setters
        PROVE  SyncInv'
    BY <1>1, SyncFrame DEF SyncInv
  <1>2. CASE Tick \/ UNCHANGED vars
    BY <1>1, <1>2 DEF Tick, vars
  <1>3. ASSUME NEW p \in Procs, Start(p) \/ HeartbeatTask(p)
        PROVE  SyncInv'
    BY <1>1, <1>3 DEF Start, HeartbeatTask
  <1>4. ASSUME NEW p \in Procs, Stop(p) \/ Crash(p) \/ ActivityTaskAborts(p)
        PROVE  SyncInv'
    BY <1>4, VanishSync DEF Stop, Crash, ActivityTaskAborts
  <1>5. ASSUME NEW p \in Procs, NEW m \in inbox[p], DispatchDiscoveryMsg(p, m)
        PROVE  SyncInv'
    <2>1. CASE RecvSubscribe(p, m) \/ RecvHeartbeat(p, m)
      BY <1>1, <2>1 DEF RecvSubscribe, RecvHeartbeat
    <2> QED
      BY <1>5, <2>1, RecvAdvertiseSync, RecvLossSync DEF DispatchDiscoveryMsg
  <1> QED
    BY <1>2, <1>3, <1>4, <1>5, ActivitySync, ClientSync DEF Next

\* For a topic or service passed to Discover the callbacks have announced every
\* address of the table, even one that arrived before they were set.
THEOREM KnownIsAnnounced == Spec => []DiscoveredInSync
  <1>1. Init => SyncInv
    BY DEF Init, SyncInv, InSync, Announced
  <1>2. TypeOK /\ SyncInv /\ [Next]_vars => SyncInv'
    BY SyncStep
  <1>3. TypeOK /\ SyncInv => DiscoveredInSync
    <2> SUFFICES ASSUME TypeOK, SyncInv, NEW p \in Procs, NEW k \in Kinds,
                        NEW t \in Topics, <<k, t>> \in discovered[p],
                        NEW e \in info[p][k], e.topic = t, e.proc # p
                 PROVE  KeyOf(e) \in told[p][k]
      BY DEF DiscoveredInSync
    <2> QED
      BY DEF SyncInv, InSync, Announced
  <1> QED
    BY <1>1, <1>2, <1>3, TypeCorrect, PTL DEF Spec

---------------------------------------------------------------------------
\* The client is told of the end of what it believes in.

\* Where the table loses nothing remote and only addresses of the table are
\* announced, no ghost appears.
LEMMA GhostsMore ==
    ASSUME NEW r \in Procs, NEW k \in Kinds,
           \A x \in told'[r][k] : x \in told[r][k] \/
                                 \E e \in info'[r][k] : KeyOf(e) = x,
           \A e \in info[r][k] : e.proc # r => e \in info'[r][k]
    PROVE  Ghosts(r, k)' \subseteq Ghosts(r, k)
  <1> SUFFICES ASSUME NEW x \in told'[r][k], x.proc # r,
                      \A e \in info'[r][k] : KeyOf(e) # x
               PROVE  x \in Ghosts(r, k)
    BY DEF Ghosts, KeyOf
  <1>1. ASSUME NEW e \in info[r][k], KeyOf(e) = x
        PROVE  FALSE
    <2>1. e.proc # r
      BY <1>1 DEF KeyOf
    <2> QED
      BY <1>1, <2>1
  <1> QED
    BY <1>1 DEF Ghosts

\* Nor where table and picture lose the same offers.
LEMMA GhostsLess ==
    ASSUME NEW r \in Procs, NEW k \in Kinds, NEW Gone,
           info'[r][k] = {e \in info[r][k] : KeyOf(e) \notin Gone},
           told'[r][k] = told[r][k] \ Gone
    PROVE  Ghosts(r, k)' \subseteq Ghosts(r, k)
  <1> SUFFICES ASSUME NEW x \in told'[r][k], x.proc # r,
                      \A e \in info'[r][k] : KeyOf(e) # x
               PROVE  x \in Ghosts(r, k)
    BY DEF Ghosts, KeyOf
  <1> QED
    BY DEF Ghosts

\* A call of the client and an ADVERTISE message make no ghost.
LEMMA ClientGhosts ==
    ASSUME TypeOK, NEW p \in Procs, ClientCall(p), NEW r \in Procs, NEW k \in Kinds
    PROVE  Ghosts(r, k)' \subseteq Ghosts(r, k)
  <1>0. /\ info \in [Procs -> [Kinds -> SUBSET Entry]]
        /\ told \in [Procs -> [Kinds -> SUBSET Key]]
    BY DEF TypeOK
  <1>1. CASE SetCallback(p)
    BY <1>1, GhostsMore DEF SetCallback
  <1>2. ASSUME NEW kk \in Kinds, NEW f, Advertise(p, kk, f)
        PROVE  Ghosts(r, k)' \subseteq Ghosts(r, k)
    <2>1. info[r][k] \subseteq info'[r][k] /\ told' = told
      BY <1>0, <1>2 DEF Advertise, AddAddress
    <2> QED
      BY <2>1, GhostsMore
  <1>3. ASSUME NEW kk \in Kinds, NEW f \in Own(p, kk), Unadvertise(p, kk, f)
        PROVE  Ghosts(r, k)' \subseteq Ghosts(r, k)
    <2>1. \A e \in info[r][k] : e \in info'[r][k] \/ (r = p /\ e.proc = p)
      BY <1>0, <1>3 DEF Unadvertise, DelAddressByNode, AddressesByNode
    <2>2. told' = told
      BY <1>3 DEF Unadvertise
    <2> QED
      BY <2>1, <2>2, GhostsMore
  <1>4. ASSUME NEW kk \in Kinds, NEW t, Discover(p, kk, t)
        PROVE  Ghosts(r, k)' \subseteq Ghosts(r, k)
    <2> DEFINE found == {e \in info[p][kk] : e.topic = t}
               heard == Connected(p, kk, found)
    <2>1. info' = info /\ told' = [told EXCEPT ![p][kk] = heard]
      BY <1>4 DEF Discover
    <2>2. \A x \in heard : x \in told[p][kk] \/ \E e \in info[p][kk] : KeyOf(e) = x
      BY DEF Connected
    <2> HIDE DEF heard, found
    <2>3. told'[r][k] = IF r = p /\ k = kk THEN heard ELSE told[r][k]
      BY <1>0, <2>1
    <2> QED
      BY <2>1, <2>2, <2>3, GhostsMore
  <1>5. ASSUME NEW i \in Interests[p], Discover(p, i[1], i[2])
        PROVE  Ghosts(r, k)' \subseteq Ghosts(r, k)
    <2>1. i[1] \in Kinds
      BY DiscoveryAssumption
    <2> QED
      BY <1>4, <1>5, <2>1
  <1> QED
    BY <1>1, <1>2, <1>3, <1>5 DEF ClientCall

\* What ADVERTISE announces it has stored.
LEMMA RecvAdvertiseGhosts ==
    ASSUME TypeOK, NEW p \in Procs, NEW m \in inbox[p], RecvAdvertise(p, m),
           NEW r \in Procs, NEW k \in Kinds
    PROVE  Ghosts(r, k)' \subseteq Ghosts(r, k)
  <1>0. /\ info \in [Procs -> [Kinds -> SUBSET Entry]]
        /\ told \in [Procs -> [Kinds -> SUBSET Key]]
        /\ m.kind \in Kinds
    BY MsgFields DEF TypeOK, RecvAdvertise, AdvMsg
  <1> DEFINE x == EntryOf(m)
             heard == Connected(p, m.kind, {x})
             kept == AddAddress(info[p][m.kind], x)
  <1>1. CASE info' = info /\ told' = told
    BY <1>1, GhostsMore
  <1>2. CASE /\ info' = [info EXCEPT ![p][m.kind] = kept]
             /\ told' = [told EXCEPT ![p][m.kind] = heard]
             /\ ~HasEntry(info[p][m.kind], x)
    <2>1. kept = info[p][m.kind] \cup {x}
      BY <1>2 DEF AddAddress
    <2>2. \A y \in heard : y \in told[p][m.kind] \/ KeyOf(x) = y
      BY DEF Connected
    <2> HIDE DEF x, heard, kept
    <2>3. /\ info'[r][k] = IF r = p /\ k = m.kind THEN kept ELSE info[r][k]
          /\ told'[r][k] = IF r = p /\ k = m.kind THEN heard ELSE told[r][k]
      BY <1>0, <1>2
    <2> QED
      BY <2>1, <2>2, <2>3, GhostsMore
  <1> QED
    BY <1>1, <1>2 DEF RecvAdvertise

\* RunActivityTask: of topics table and picture lose the same offers, of services
\* only the table does.
LEMMA ActivityGhosts ==
    ASSUME TypeOK, NEW p \in Procs, ActivityTask(p), NEW r \in Procs, NEW k \in Kinds
    PROVE  \A x \in Ghosts(r, k)' \ Ghosts(r, k) :
               r = p /\ k = "srv" /\ x.proc \in Expired(p)
  <1>0. /\ info \in [Procs -> [Kinds -> SUBSET Entry]]
        /\ told \in [Procs -> [Kinds -> SUBSET Key]]
    BY DEF TypeOK
  <1>1. CASE r # p
    <2>1. info'[r] = info[r] /\ told'[r] = told[r]
      BY <1>0, <1>1 DEF ActivityTask
    <2> QED
      BY <2>1, GhostsMore
  <1>2. CASE r = p
    <2>1. info'[r][k] = {e \in info[r][k] : e.proc \notin Expired(p)}
      BY <1>0, <1>2 DEF ActivityTask
    <2>2. told'[r][k] = IF k = "msg"
                        THEN {x \in told[r][k] : x.proc \notin Expired(p)}
                        ELSE told[r][k]
      BY <1>0, <1>2 DEF ActivityTask
    <2>3. ASSUME NEW x \in Ghosts(r, k)', x \notin Ghosts(r, k)
          PROVE  k = "srv" /\ x.proc \in Expired(p)
      <3>1. /\ x \in told'[r][k] /\ x.proc # r
            /\ \A e \in info'[r][k] : KeyOf(e) # x
        BY <2>3 DEF Ghosts, KeyOf
      <3>2. x \in told[r][k]
        BY <2>2, <3>1
      <3>3. PICK e \in info[r][k] : KeyOf(e) = x
        BY <2>3, <3>1, <3>2 DEF Ghosts
      <3>4. e.proc \in Expired(p) /\ x.proc = e.proc
        BY <2>1, <3>1, <3>3 DEF KeyOf
      <3>5. k # "msg"
        BY <2>2, <3>1, <3>4
      <3> QED
        BY <3>4, <3>5, DiscoveryAssumption
    <2> QED
      BY <1>2, <2>3
  <1> QED
    BY <1>1, <1>2

\* What any step may do to the ghosts of a client that hears of ends.
LEMMA GhostsStep ==
    ASSUME TypeOK, [Next]_vars, NEW r \in Procs, NEW k \in Kinds, HearsEnds(r, k)
    PROVE  \A x \in Ghosts(r, k)' \ Ghosts(r, k) :
               k = "srv" /\ x.proc \in Expired(r)
  <1>1. ASSUME info' = info, told' = told
        PROVE  Ghosts(r, k)' \subseteq Ghosts(r, k)
    BY <1>1, GhostsMore
  <1>2. CASE Tick \/ UNCHANGED vars
    BY <1>1, <1>2 DEF Tick, vars
  <1>3. ASSUME NEW p \in Procs, Start(p) \/ HeartbeatTask(p)
        PROVE  Ghosts(r, k)' \subseteq Ghosts(r, k)
    BY <1>1, <1>3 DEF Start, HeartbeatTask
  <1>4. ASSUME NEW p \in Procs, Vanish(p)
        PROVE  Ghosts(r, k)' \subseteq Ghosts(r, k)
    <2>1. CASE r = p
      <3>1. told'[r][k] = {}
        BY <1>4, <2>1 DEF Vanish, TypeOK
      <3> QED
        BY <3>1 DEF Ghosts
    <2>2. CASE r # p
      <3>1. info'[r] = info[r] /\ told'[r] = told[r]
        BY <1>4, <2>2 DEF Vanish, TypeOK
      <3> QED
        BY <3>1, GhostsMore
    <2> QED
      BY <2>1, <2>2
  <1>5. ASSUME NEW p \in Procs, NEW m \in inbox[p], DispatchDiscoveryMsg(p, m)
        PROVE  Ghosts(r, k)' \subseteq Ghosts(r, k)
    <2>1. CASE RecvSubscribe(p, m) \/ RecvHeartbeat(p, m)
      BY <1>1, <2>1 DEF RecvSubscribe, RecvHeartbeat
    <2>2. CASE RecvBye(p, m) \/ RecvUnadvertise(p, m)
      BY <2>2, RecvLossEffect, GhostsLess
    <2> QED
      BY <1>5, <2>1, <2>2, RecvAdvertiseGhosts DEF DispatchDiscoveryMsg
  <1> QED
    BY <1>2, <1>3, <1>4, <1>5, ActivityGhosts, ClientGhosts
    DEF Next, Stop, Crash, ActivityTaskAborts

\* From its disconnection callback on, a client is told of the end of every
\* topic it believes in, and of every service but those that expire.
THEOREM EndsTold == Spec => EndsAreTold
  <1>1. TypeOK /\ [Next]_vars =>
            [\A p \in Procs, k \in Kinds :
                 HearsEnds(p, k) =>
                     Ghosts(p, k)' \ Ghosts(p, k) \subseteq
                         {x \in Key : k = "srv" /\ x.proc \in Expired(p)}]_vars
    <2> SUFFICES ASSUME TypeOK, [Next]_vars, NEW p \in Procs, NEW k \in Kinds,
                        HearsEnds(p, k), NEW x \in Ghosts(p, k)',
                        x \notin Ghosts(p, k)
                 PROVE  x \in Key /\ k = "srv" /\ x.proc \in Expired(p)
      OBVIOUS
    <2>1. TypeOK'
      BY TypeStep
    <2>2. x \in Key
      BY <2>1 DEF Ghosts, TypeOK
    <2> QED
      BY <2>2, GhostsStep
  <1> QED
    BY <1>1, TypeCorrect, PTL DEF Spec, EndsAreTold

---------------------------------------------------------------------------
(***************************************************************************)
(* Discovery implements the abstract Directory: each step of a thread or   *)
(* of the client is a step of the Directory or leaves it as it is.         *)
(***************************************************************************)

\* The inductive invariant.

Offer(k, e) == [kind |-> k, entry |-> e]

\* Every address of every table is the endpoint of the process it is stored
\* under, and was really offered.
OffersReal ==
    \A p \in Procs, k \in Kinds : \A e \in info[p][k] :
        e.addr = e.proc /\ Offer(k, e) \in offered

\* A table has one scope for each address (AddAddress).
OneScope ==
    \A p \in Procs, k \in Kinds : \A e, f \in info[p][k] :
        SameAddress(e, f) => e = f

\* Nobody receives its own messages, and nobody advertises what was not offered.
Honest(p, m) ==
    /\ m.from # p
    /\ m.type = "ADVERTISE" => Offer(m.kind, EntryOf(m)) \in offered

MessagesReal == \A p \in Procs : \A m \in inbox[p] : Honest(p, m)

\* So nobody's activity thread watches the process it runs in.
SelfUnwatched == \A p \in Procs : activity[p][p] = Absent

DirInv == OffersReal /\ OneScope /\ MessagesReal /\ SelfUnwatched

---------------------------------------------------------------------------
\* The invariant is inductive.

\* Tables that gain nothing keep what holds of each of their addresses.
LEMMA TablesShrink ==
    ASSUME OffersReal, OneScope, offered \subseteq offered',
           \A r \in Procs, k \in Kinds : info'[r][k] \subseteq info[r][k]
    PROVE  OffersReal' /\ OneScope'
  <1>1. OffersReal'
    BY DEF OffersReal, Offer
  <1>2. OneScope'
    BY DEF OneScope, SameAddress
  <1> QED
    BY <1>1, <1>2

\* So does a table that gains a real offer which it does not have yet.
LEMMA TableGrows ==
    ASSUME OffersReal, OneScope, offered \subseteq offered',
           NEW p \in Procs, NEW k \in Kinds, NEW e,
           ~HasEntry(info[p][k], e), e.addr = e.proc, Offer(k, e) \in offered',
           info'[p][k] = info[p][k] \cup {e},
           \A r \in Procs, kk \in Kinds :
               r # p \/ kk # k => info'[r][kk] = info[r][kk]
    PROVE  OffersReal' /\ OneScope'
  <1>1. ASSUME NEW r \in Procs, NEW kk \in Kinds, NEW f \in info'[r][kk]
        PROVE  f \in info[r][kk] \/ (r = p /\ kk = k /\ f = e)
    OBVIOUS
  <1>2. OffersReal'
    <2> SUFFICES ASSUME NEW r \in Procs, NEW kk \in Kinds, NEW f \in info'[r][kk]
                 PROVE  f.addr = f.proc /\ Offer(kk, f) \in offered'
      BY DEF OffersReal, Offer
    <2> QED
      BY <1>1 DEF OffersReal
  <1>3. OneScope'
    <2> SUFFICES ASSUME NEW r \in Procs, NEW kk \in Kinds,
                        NEW f \in info'[r][kk], NEW g \in info'[r][kk],
                        SameAddress(f, g)
                 PROVE  f = g
      BY DEF OneScope, SameAddress
    <2>1. CASE f \in info[r][kk] /\ g \in info[r][kk]
      BY <2>1 DEF OneScope
    <2>2. CASE f \notin info[r][kk] /\ g \in info[r][kk]
      <3>1. r = p /\ kk = k /\ f = e
        BY <1>1, <2>2
      <3> QED
        BY <2>2, <3>1 DEF HasEntry
    <2>3. CASE f \in info[r][kk] /\ g \notin info[r][kk]
      <3>1. r = p /\ kk = k /\ g = e
        BY <1>1, <2>3
      <3>2. SameAddress(g, f)
        BY DEF SameAddress
      <3> QED
        BY <2>3, <3>1, <3>2 DEF HasEntry
    <2>4. CASE f \notin info[r][kk] /\ g \notin info[r][kk]
      BY <1>1, <2>4
    <2> QED
      BY <2>1, <2>2, <2>3, <2>4
  <1> QED
    BY <1>2, <1>3

\* Reading messages leaves only honest ones.
LEMMA InboxShrinks ==
    ASSUME MessagesReal, offered \subseteq offered',
           \A q \in Procs : inbox'[q] \subseteq inbox[q]
    PROVE  MessagesReal'
  BY DEF MessagesReal, Honest, Offer, EntryOf

\* SendMsg delivers honest messages if they are the sender's own.
LEMMA SendHonest ==
    ASSUME TypeOK, MessagesReal, offered \subseteq offered',
           NEW box, box \in [Procs -> SUBSET Msg],
           \A q \in Procs : box[q] \subseteq inbox[q],
           NEW p \in Procs, NEW ms, ms \subseteq Msg, SendMsg(box, p, ms),
           \A m \in ms :
               /\ m.from = p
               /\ m.type = "ADVERTISE" => Offer(m.kind, EntryOf(m)) \in offered'
    PROVE  MessagesReal'
  <1> SUFFICES ASSUME NEW q \in Procs, NEW m \in inbox'[q]
               PROVE  /\ m.from # q
                      /\ m.type = "ADVERTISE" =>
                            Offer(m.kind, EntryOf(m)) \in offered'
    BY DEF MessagesReal, Honest, Offer, EntryOf
  <1>1. inbox'[p] = box[p] /\ \A r \in Procs : inbox'[r] \subseteq box[r] \cup ms
    BY SendMsgEffect
  <1>2. CASE m \in inbox[q]
    <2>1. Honest(q, m)
      BY <1>2 DEF MessagesReal
    <2> QED
      BY <2>1 DEF Honest
  <1>3. CASE m \notin inbox[q]
    <2>1. q # p /\ m \in ms
      BY <1>1, <1>3
    <2> QED
      BY <2>1
  <1> QED
    BY <1>2, <1>3

\* The message that advertises an own address carries that address, which was
\* offered (Advertise, RunHeartbeatTask, the answer to SUBSCRIBE).
LEMMA OwnIsHonest ==
    ASSUME TypeOK, OffersReal, NEW p \in Procs, NEW k \in Kinds, NEW e \in Own(p, k),
           NEW type \in {"ADVERTISE", "UNADVERTISE"}
    PROVE  /\ e \in Entry /\ Adv(type, k, e) \in Msg
           /\ Adv(type, k, e).from = p
           /\ Adv(type, k, e).kind = k
           /\ Adv(type, k, e).type = type
           /\ EntryOf(Adv(type, k, e)) = e
           /\ Offer(k, e) \in offered
  <1>1. e \in info[p][k] /\ e.proc = p
    BY DEF Own, AddressesByProc
  <1>2. e \in Entry
    BY <1>1 DEF TypeOK
  <1>3. e.addr = e.proc /\ Offer(k, e) \in offered
    BY <1>1 DEF OffersReal
  <1>4. Adv(type, k, e) \in Msg
    BY <1>2, AdvType DEF Msg
  <1>5. EntryOf(Adv(type, k, e)) = e
    BY <1>2, <1>3 DEF EntryOf, Adv, Entry
  <1> QED
    BY <1>1, <1>2, <1>3, <1>4, <1>5 DEF Adv

\* A process that ends leaves nothing behind that could be wrong.
LEMMA VanishHonest ==
    ASSUME TypeOK, DirInv, NEW p \in Procs,
           Stop(p) \/ Crash(p) \/ ActivityTaskAborts(p)
    PROVE  DirInv'
  <1>0. /\ info \in [Procs -> [Kinds -> SUBSET Entry]]
        /\ activity \in [Procs -> [Procs -> Ages]]
        /\ inbox \in [Procs -> SUBSET Msg]
    BY DEF TypeOK
  <1>1. Vanish(p) /\ offered' = offered
    BY DEF Stop, Crash, ActivityTaskAborts, Vanish
  <1>2. \A r \in Procs, k \in Kinds : info'[r][k] \subseteq info[r][k]
    BY <1>0, <1>1 DEF Vanish
  <1>3. OffersReal' /\ OneScope'
    BY <1>1, <1>2, TablesShrink DEF DirInv
  <1>4. SelfUnwatched'
    BY <1>0, <1>1 DEF Vanish, DirInv, SelfUnwatched
  <1>5. MessagesReal'
    <2>1. CASE Stop(p)
      <3> DEFINE box == [inbox EXCEPT ![p] = {}]
                 ms == {[type |-> "BYE", from |-> p]}
      <3>1. box \in [Procs -> SUBSET Msg] /\ \A q \in Procs : box[q] \subseteq inbox[q]
        BY <1>0
      <3>2. ms \subseteq Msg
        BY DEF Msg, PlainMsg
      <3>3. SendMsg(box, p, ms)
        BY <2>1 DEF Stop
      <3>4. \A m \in ms : m.from = p /\ m.type # "ADVERTISE"
        OBVIOUS
      <3> HIDE DEF box, ms
      <3> QED
        BY <1>1, <3>1, <3>2, <3>3, <3>4, SendHonest DEF DirInv
    <2>2. CASE Crash(p) \/ ActivityTaskAborts(p)
      <3>1. \A q \in Procs : inbox'[q] \subseteq inbox[q]
        BY <1>0, <2>2 DEF Crash, ActivityTaskAborts
      <3> QED
        BY <1>1, <3>1, InboxShrinks DEF DirInv
    <2> QED
      BY <2>1, <2>2
  <1> QED
    BY <1>3, <1>4, <1>5 DEF DirInv

\* Calls of the client.
LEMMA ClientHonest ==
    ASSUME TypeOK, DirInv, NEW p \in Procs, ClientCall(p)
    PROVE  DirInv'
  <1>0. /\ info \in [Procs -> [Kinds -> SUBSET Entry]]
        /\ inbox \in [Procs -> SUBSET Msg]
        /\ \A q \in Procs : inbox[q] \subseteq inbox[q]
    BY DEF TypeOK
  <1>1. SelfUnwatched'
    BY DEF ClientCall, SetCallback, Advertise, Unadvertise, Discover, DirInv,
           SelfUnwatched
  <1>2. CASE SetCallback(p)
    BY <1>1, <1>2, TablesShrink, InboxShrinks DEF SetCallback, DirInv
  <1>3. ASSUME NEW k \in Kinds, NEW e \in Offerable(p), Advertise(p, k, e)
        PROVE  DirInv'
    <2>1. e \in Entry /\ e.proc = p /\ e.addr = e.proc
      BY DEF Offerable
    <2>2. offered \subseteq offered' /\ Offer(k, e) \in offered'
      BY <1>3 DEF Advertise, Offer
    <2>3. OffersReal' /\ OneScope'
      <3>1. CASE HasEntry(info[p][k], e)
        <4>1. info' = [info EXCEPT ![p][k] = info[p][k]]
          BY <1>3, <3>1 DEF Advertise, AddAddress
        <4>2. info' = info
          BY <1>0, <4>1
        <4> QED
          BY <2>2, <4>2, TablesShrink DEF DirInv
      <3>2. CASE ~HasEntry(info[p][k], e)
        <4> DEFINE new == info[p][k] \cup {e}
        <4>1. info' = [info EXCEPT ![p][k] = new]
          BY <1>3, <3>2 DEF Advertise, AddAddress
        <4> HIDE DEF new
        <4>2. /\ info'[p][k] = new
              /\ \A r \in Procs, kk \in Kinds :
                    r # p \/ kk # k => info'[r][kk] = info[r][kk]
          BY <1>0, <4>1
        <4> QED
          BY <2>1, <2>2, <3>2, <4>2, TableGrows DEF DirInv, new
      <3> QED
        BY <3>1, <3>2
    <2>4. MessagesReal'
      <3> DEFINE ms == IF e.scope = "Process" THEN {}
                       ELSE {Adv("ADVERTISE", k, e)}
      <3>1. ms \subseteq Msg
        BY <2>1, AdvType DEF Msg
      <3>2. SendMsg(inbox, p, ms)
        BY <1>3 DEF Advertise
      <3>3. EntryOf(Adv("ADVERTISE", k, e)) = e
        BY <2>1 DEF EntryOf, Adv, Entry
      <3>4. \A m \in ms : /\ m.from = p
                          /\ Offer(m.kind, EntryOf(m)) \in offered'
        BY <2>1, <2>2, <3>3 DEF Adv
      <3> HIDE DEF ms
      <3> QED
        BY <1>0, <2>2, <3>1, <3>2, <3>4, SendHonest DEF DirInv
    <2> QED
      BY <1>1, <2>3, <2>4 DEF DirInv
  <1>4. ASSUME NEW k \in Kinds, NEW e \in Own(p, k), Unadvertise(p, k, e)
        PROVE  DirInv'
    <2>1. offered' = offered
      BY <1>4 DEF Unadvertise
    <2>2. \A r \in Procs, kk \in Kinds : info'[r][kk] \subseteq info[r][kk]
      BY <1>0, <1>4 DEF Unadvertise, DelAddressByNode
    <2>3. MessagesReal'
      <3> DEFINE ms == IF e.scope = "Process" THEN {}
                       ELSE {Adv("UNADVERTISE", k, e)}
      <3>1. /\ Adv("UNADVERTISE", k, e) \in Msg
            /\ Adv("UNADVERTISE", k, e).from = p
            /\ Adv("UNADVERTISE", k, e).type = "UNADVERTISE"
        BY OwnIsHonest DEF DirInv
      <3>2. SendMsg(inbox, p, ms)
        BY <1>4 DEF Unadvertise
      <3>3. ms \subseteq Msg /\ \A m \in ms : m.from = p /\ m.type # "ADVERTISE"
        BY <3>1
      <3> HIDE DEF ms
      <3> QED
        BY <1>0, <2>1, <3>2, <3>3, SendHonest DEF DirInv
    <2> QED
      BY <1>1, <2>1, <2>2, <2>3, TablesShrink DEF DirInv
  <1>5. ASSUME NEW i \in Interests[p], Discover(p, i[1], i[2])
        PROVE  DirInv'
    <2>1. offered' = offered /\ info' = info
      BY <1>5 DEF Discover
    <2>2. MessagesReal'
      <3> DEFINE ms == {[type |-> "SUBSCRIBE", kind |-> i[1], from |-> p,
                         topic |-> i[2]]}
      <3>1. i[1] \in Kinds /\ i[2] \in Topics
        BY DiscoveryAssumption
      <3>2. ms \subseteq Msg
        BY <3>1 DEF Msg, SubMsg
      <3>3. SendMsg(inbox, p, ms)
        BY <1>5 DEF Discover
      <3>4. \A m \in ms : m.from = p /\ m.type # "ADVERTISE"
        OBVIOUS
      <3> HIDE DEF ms
      <3> QED
        BY <1>0, <2>1, <3>2, <3>3, <3>4, SendHonest DEF DirInv
    <2> QED
      BY <1>1, <2>1, <2>2, TablesShrink DEF DirInv
  <1> QED
    BY <1>2, <1>3, <1>4, <1>5 DEF ClientCall

\* Reading a message: what an ADVERTISE adds was offered, what a SUBSCRIBE is
\* answered was too, and the sender whose activity is refreshed is another
\* process.
LEMMA RecvHonest ==
    ASSUME TypeOK, DirInv, NEW p \in Procs, NEW m \in inbox[p],
           DispatchDiscoveryMsg(p, m)
    PROVE  DirInv'
  <1>0. /\ info \in [Procs -> [Kinds -> SUBSET Entry]]
        /\ activity \in [Procs -> [Procs -> Ages]]
        /\ inbox \in [Procs -> SUBSET Msg]
    BY DEF TypeOK
  <1>1. m \in Msg /\ m.from \in Procs /\ m.from # p
    BY <1>0, MsgFields DEF DirInv, MessagesReal, Honest
  <1>2. offered' = offered
    BY DEF DispatchDiscoveryMsg, RecvAdvertise, RecvSubscribe, RecvHeartbeat,
           RecvBye, RecvUnadvertise
  <1>3. SelfUnwatched'
    <2>1. \E a \in Ages : activity' = [activity EXCEPT ![p][m.from] = a]
      <3>1. 0 \in Ages /\ Absent \in Ages
        BY DiscoveryAssumption DEF Ages
      <3>2. CASE activity' = Refreshed(p, m.from)
        BY <3>1, <3>2 DEF Refreshed
      <3>3. CASE RecvBye(p, m)
        BY <3>1, <3>3 DEF RecvBye
      <3> QED
        BY <3>2, <3>3 DEF DispatchDiscoveryMsg, RecvAdvertise, RecvSubscribe,
           RecvHeartbeat, RecvUnadvertise
    <2>2. \A r \in Procs : activity'[r][r] = activity[r][r]
      BY <1>0, <1>1, <2>1
    <2> QED
      BY <2>2 DEF DirInv, SelfUnwatched
  <1>4. Received(p, m) \in [Procs -> SUBSET Msg]
        /\ \A q \in Procs : Received(p, m)[q] \subseteq inbox[q]
    BY <1>0 DEF Received
  <1>5. ASSUME inbox' = Received(p, m)
        PROVE  MessagesReal'
    BY <1>2, <1>4, <1>5, InboxShrinks DEF DirInv
  <1>6. ASSUME \A r \in Procs, k \in Kinds : info'[r][k] \subseteq info[r][k]
        PROVE  OffersReal' /\ OneScope'
    BY <1>2, <1>6, TablesShrink DEF DirInv
  <1>7. CASE RecvAdvertise(p, m)
    <2>1. Offer(m.kind, EntryOf(m)) \in offered' /\ EntryOf(m).addr = EntryOf(m).proc
      BY <1>2, <1>7 DEF RecvAdvertise, DirInv, MessagesReal, Honest, EntryOf
    <2>2. OffersReal' /\ OneScope'
      <3>1. CASE info' = info
        BY <1>6, <3>1
      <3>2. CASE info' # info
        <4> DEFINE k == m.kind
                   e == EntryOf(m)
        <4>1. /\ ~HasEntry(info[p][k], e)
              /\ k \in Kinds
              /\ info'[p][k] = info[p][k] \cup {e}
              /\ \A r \in Procs, kk \in Kinds :
                    r # p \/ kk # k => info'[r][kk] = info[r][kk]
          BY <1>1, <1>7, <3>2, RecvAdvertiseEffect
        <4>2. Offer(k, e) \in offered' /\ e.addr = e.proc
          BY <2>1
        <4> HIDE DEF k, e
        <4> QED
          BY <1>2, <4>1, <4>2, TableGrows DEF DirInv
      <3> QED
        BY <3>1, <3>2
    <2> QED
      BY <1>3, <1>5, <1>7, <2>2 DEF RecvAdvertise, DirInv
  <1>8. CASE RecvSubscribe(p, m)
    <2> DEFINE ms == {Adv("ADVERTISE", m.kind, e) :
                         e \in {f \in Own(p, m.kind) :
                                   f.topic = m.topic /\ ScopeAdmits(f.scope, m.from, p)}}
    <2>0. m.kind \in Kinds
      BY <1>1, <1>8, MsgFields DEF RecvSubscribe, SubMsg
    <2>1. ASSUME NEW x \in ms
          PROVE  /\ x \in Msg
                 /\ x.from = p
                 /\ x.type = "ADVERTISE" => Offer(x.kind, EntryOf(x)) \in offered'
      <3>1. PICK e \in Own(p, m.kind) : x = Adv("ADVERTISE", m.kind, e)
        OBVIOUS
      <3> QED
        BY <1>2, <2>0, <3>1, OwnIsHonest DEF DirInv
    <2>2. SendMsg(Received(p, m), p, ms)
      BY <1>8 DEF RecvSubscribe
    <2> HIDE DEF ms
    <2>3. MessagesReal'
      <3>1. ms \subseteq Msg
        BY <2>1
      <3> QED
        BY <1>2, <1>4, <2>1, <2>2, <3>1, SendHonest DEF DirInv
    <2> QED
      BY <1>3, <1>6, <1>8, <2>3 DEF RecvSubscribe, DirInv
  <1>9. CASE RecvHeartbeat(p, m)
    BY <1>3, <1>5, <1>6, <1>9 DEF RecvHeartbeat, DirInv
  <1>10. CASE RecvBye(p, m)
    <2>1. \A r \in Procs, k \in Kinds : info'[r][k] \subseteq info[r][k]
      BY <1>0, <1>10 DEF RecvBye, DelAddressesByProc
    <2> QED
      BY <1>3, <1>5, <1>6, <1>10, <2>1 DEF RecvBye, DirInv
  <1>11. CASE RecvUnadvertise(p, m)
    <2>1. \A r \in Procs, k \in Kinds : info'[r][k] \subseteq info[r][k]
      BY <1>0, <1>11 DEF RecvUnadvertise, DelAddressByNode
    <2> QED
      BY <1>3, <1>5, <1>6, <1>11, <2>1 DEF RecvUnadvertise, DirInv
  <1> QED
    BY <1>7, <1>8, <1>9, <1>10, <1>11 DEF DispatchDiscoveryMsg

\* DirInv is inductive, given the types.
LEMMA DirInvStep ==
    ASSUME TypeOK, DirInv, [Next]_vars
    PROVE  DirInv'
  <1>0. /\ info \in [Procs -> [Kinds -> SUBSET Entry]]
        /\ activity \in [Procs -> [Procs -> Ages]]
        /\ inbox \in [Procs -> SUBSET Msg]
        /\ \A q \in Procs : inbox[q] \subseteq inbox[q]
    BY DEF TypeOK
  <1>1. ASSUME info' = info, offered' = offered
        PROVE  OffersReal' /\ OneScope'
    BY <1>1, TablesShrink DEF DirInv
  <1>2. ASSUME inbox' = inbox, offered' = offered
        PROVE  MessagesReal'
    BY <1>2, InboxShrinks DEF DirInv
  <1>3. CASE Tick
    <2>1. \A r \in Procs : activity'[r][r] = Absent
      BY <1>0, <1>3 DEF Tick, DirInv, SelfUnwatched, Absent
    <2> QED
      BY <1>1, <1>2, <1>3, <2>1 DEF Tick, DirInv, SelfUnwatched
  <1>4. ASSUME NEW p \in Procs, Start(p)
        PROVE  DirInv'
    BY <1>1, <1>2, <1>4 DEF Start, DirInv, SelfUnwatched
  <1>5. ASSUME NEW p \in Procs, ActivityTask(p)
        PROVE  DirInv'
    <2>1. offered' = offered /\ inbox' = inbox
      BY <1>5 DEF ActivityTask
    <2>2. \A r \in Procs, k \in Kinds : info'[r][k] \subseteq info[r][k]
      BY <1>0, <1>5 DEF ActivityTask
    <2>3. SelfUnwatched'
      BY <1>0, <1>5 DEF ActivityTask, DirInv, SelfUnwatched
    <2> QED
      BY <1>2, <2>1, <2>2, <2>3, TablesShrink DEF DirInv
  <1>6. ASSUME NEW p \in Procs, HeartbeatTask(p)
        PROVE  DirInv'
    <2> DEFINE beat == [type |-> "HEARTBEAT", from |-> p]
               ads == UNION {{Adv("ADVERTISE", k, e) : e \in Own(p, k)} : k \in Kinds}
               ms == {beat} \cup ads
    <2>1. ms \subseteq Msg
      BY HeartbeatMsgs
    <2>2. ASSUME NEW x \in ads
          PROVE  /\ x.from = p
                 /\ Offer(x.kind, EntryOf(x)) \in offered
      <3>1. PICK k \in Kinds : \E e \in Own(p, k) : x = Adv("ADVERTISE", k, e)
        OBVIOUS
      <3>2. PICK e \in Own(p, k) : x = Adv("ADVERTISE", k, e)
        BY <3>1
      <3> QED
        BY <3>2, OwnIsHonest DEF DirInv
    <2>3. beat.from = p /\ beat.type # "ADVERTISE"
      OBVIOUS
    <2>4. SendMsg(inbox, p, ms)
      BY <1>6 DEF HeartbeatTask
    <2>5. offered' = offered /\ info' = info /\ activity' = activity
      BY <1>6 DEF HeartbeatTask
    <2> HIDE DEF ads, beat
    <2>6. \A x \in ms : /\ x.from = p
                        /\ x.type = "ADVERTISE" =>
                              Offer(x.kind, EntryOf(x)) \in offered'
      BY <2>2, <2>3, <2>5
    <2> HIDE DEF ms
    <2>7. MessagesReal'
      BY <1>0, <2>1, <2>4, <2>5, <2>6, SendHonest DEF DirInv
    <2> QED
      BY <1>1, <2>5, <2>7 DEF DirInv, SelfUnwatched
  <1>7. CASE UNCHANGED vars
    BY <1>1, <1>2, <1>7 DEF vars, DirInv, SelfUnwatched
  <1> QED
    BY <1>3, <1>4, <1>5, <1>6, <1>7, VanishHonest, ClientHonest, RecvHonest DEF Next

\* DirInv holds in every reachable state.
LEMMA DirAlways == Spec => []DirInv
  <1>1. Init => DirInv
    BY DEF Init, DirInv, OffersReal, OneScope, MessagesReal, SelfUnwatched
  <1>2. TypeOK /\ DirInv /\ [Next]_vars => DirInv'
    BY DirInvStep
  <1> QED
    BY <1>1, <1>2, TypeCorrect, PTL DEF Spec

---------------------------------------------------------------------------
\* The refinement: the Directory's variable "known" is this table.

Table == [p \in Procs |-> Known(p)]

\* A process knows the offers that its tables hold, and nothing else.
LEMMA KnownOffers ==
    ASSUME NEW p \in Procs
    PROVE  /\ \A k \in Kinds : \A e : Offer(k, e) \in Known(p) <=> e \in info[p][k]
           /\ \A x \in Known(p) : /\ x.kind \in Kinds
                                  /\ x.entry \in info[p][x.kind]
                                  /\ x = Offer(x.kind, x.entry)
  <1>1. ASSUME NEW k \in Kinds, NEW e, e \in info[p][k]
        PROVE  Offer(k, e) \in Known(p)
    BY <1>1 DEF Known, Offer
  <1>2. ASSUME NEW x \in Known(p)
        PROVE  \E k \in Kinds : \E e \in info[p][k] : x = Offer(k, e)
    BY DEF Known, Offer
  <1>3. ASSUME NEW k, NEW e
        PROVE  Offer(k, e).kind = k /\ Offer(k, e).entry = e
    BY DEF Offer
  <1>4. ASSUME NEW k \in Kinds, NEW e, Offer(k, e) \in Known(p)
        PROVE  e \in info[p][k]
    <2>1. PICK kk \in Kinds : \E f \in info[p][kk] : Offer(k, e) = Offer(kk, f)
      BY <1>2, <1>4
    <2>2. PICK f \in info[p][kk] : Offer(k, e) = Offer(kk, f)
      BY <2>1
    <2>3. kk = k /\ f = e
      BY <1>3, <2>2
    <2> QED
      BY <2>2, <2>3
  <1>5. ASSUME NEW x \in Known(p)
        PROVE  /\ x.kind \in Kinds
               /\ x.entry \in info[p][x.kind]
               /\ x = Offer(x.kind, x.entry)
    BY <1>2, <1>3
  <1> QED
    BY <1>1, <1>4, <1>5

\* When one process's tables change, one entry of the table changes.
LEMMA TableChange ==
    ASSUME NEW p \in Procs, NEW S, Known(p)' = S,
           \A r \in Procs : r # p => info'[r] = info[r]
    PROVE  Table' = [Table EXCEPT ![p] = S]
  <1>1. \A r \in Procs : r # p => Known(r)' = Known(r)
    BY DEF Known
  <1>2. Table' = [r \in Procs |-> Known(r)']
    BY DEF Table
  <1> QED
    BY <1>1, <1>2 DEF Table

\* The table is that of the refinement mapping, now and after a step.
LEMMA TableSame ==
    ASSUME info' = info
    PROVE  Table' = Table
  BY DEF Table, Known

\* A process whose tables lose others' addresses forgets offers.
LEMMA ForgetMaps ==
    ASSUME NEW p \in Procs, offered' = offered,
           \A r \in Procs : r # p => info'[r] = info[r],
           \A k \in Kinds : info'[p][k] \subseteq info[p][k],
           \A k \in Kinds : \A e \in info[p][k] : e \in info'[p][k] \/ e.proc # p
    PROVE  Dir!Next
  <1> DEFINE S == Known(p) \ Known(p)'
  <1>1. Known(p)' = {x \in Known(p) : x \notin S}
    BY DEF Known
  <1>2. Table' = [Table EXCEPT ![p] = Known(p) \ S]
    <2>1. Known(p)' = Known(p) \ S
      BY <1>1
    <2> HIDE DEF S
    <2> QED
      BY <2>1, TableChange
  <1>3. S \subseteq Dir!Others(p)
    <2> SUFFICES ASSUME NEW x \in Known(p), x \notin Known(p)'
                 PROVE  x.entry.proc # p
      BY DEF Dir!Others, Dir!Owner
    <2>1. x.kind \in Kinds /\ x.entry \in info[p][x.kind] /\ x = Offer(x.kind, x.entry)
      BY KnownOffers
    <2>2. x.entry \notin info'[p][x.kind]
      BY <2>1 DEF Known, Offer
    <2> QED
      BY <2>1, <2>2
  <1> HIDE DEF S
  <1>4. Dir!Forget(p, S)
    BY <1>2, <1>3 DEF Dir!Forget, Table
  <1> QED
    BY <1>3, <1>4 DEF Dir!Next

\* The end of a process ends it in the Directory.
LEMMA EndMaps ==
    ASSUME TypeOK, NEW p \in Procs, Stop(p) \/ Crash(p) \/ ActivityTaskAborts(p)
    PROVE  Dir!Next
  <1>1. Vanish(p)
    BY DEF Stop, Crash, ActivityTaskAborts
  <1>2. offered' = offered /\ info' = [info EXCEPT ![p] = [k \in Kinds |-> {}]]
    BY <1>1 DEF Vanish
  <1>3. \A k \in Kinds : info'[p][k] = {}
    BY <1>2 DEF TypeOK
  <1>4. Known(p)' = {}
    BY <1>3 DEF Known
  <1>5. \A r \in Procs : r # p => info'[r] = info[r]
    BY <1>2 DEF TypeOK
  <1>6. Table' = [Table EXCEPT ![p] = {}]
    BY <1>4, <1>5, TableChange
  <1>7. Dir!End(p)
    BY <1>2, <1>6 DEF Dir!End, Table
  <1> QED
    BY <1>7 DEF Dir!Next

\* HasEntry looks for an address as the Directory looks for an offer: all
\* addresses are the endpoint of the process they are stored under.
LEMMA SameOffers ==
    ASSUME OffersReal, NEW p \in Procs, NEW k \in Kinds, NEW e, e.addr = e.proc
    PROVE  (\E y \in Known(p) : Dir!SameOffer(Offer(k, e), y))
               <=> HasEntry(info[p][k], e)
  <1>1. Offer(k, e).kind = k /\ Offer(k, e).entry = e
    BY DEF Offer
  <1>2. ASSUME NEW y \in Known(p), Dir!SameOffer(Offer(k, e), y)
        PROVE  HasEntry(info[p][k], e)
    <2>1. y.kind \in Kinds /\ y.entry \in info[p][y.kind]
      BY KnownOffers
    <2>2. y.kind = k /\ e.topic = y.entry.topic /\ e.proc = y.entry.proc
          /\ e.node = y.entry.node
      BY <1>1, <1>2 DEF Dir!SameOffer
    <2>3. y.entry.addr = y.entry.proc
      BY <2>1 DEF OffersReal
    <2>4. y.entry \in info[p][k] /\ SameAddress(e, y.entry)
      BY <2>1, <2>2, <2>3 DEF SameAddress
    <2> QED
      BY <2>4 DEF HasEntry
  <1>3. ASSUME HasEntry(info[p][k], e)
        PROVE  \E y \in Known(p) : Dir!SameOffer(Offer(k, e), y)
    <2>1. PICK f \in info[p][k] : SameAddress(e, f)
      BY <1>3 DEF HasEntry
    <2>2. Offer(k, f) \in Known(p)
      BY KnownOffers
    <2>3. Offer(k, f).kind = k /\ Offer(k, f).entry = f
      BY DEF Offer
    <2>4. Dir!SameOffer(Offer(k, e), Offer(k, f))
      BY <1>1, <2>1, <2>3 DEF Dir!SameOffer, SameAddress
    <2> QED
      BY <2>2, <2>4
  <1> QED
    BY <1>2, <1>3

\* A table that gains an address of one kind gains an offer.
LEMMA KnownGrows ==
    ASSUME TypeOK, NEW p \in Procs, NEW k \in Kinds, NEW e,
           info'[p][k] = info[p][k] \cup {e},
           \A r \in Procs, kk \in Kinds :
               r # p \/ kk # k => info'[r][kk] = info[r][kk]
    PROVE  Known(p)' = Known(p) \cup {Offer(k, e)}
  <1>1. Known(p)' = UNION {{Offer(kk, f) : f \in info'[p][kk]} : kk \in Kinds}
    BY DEF Known, Offer
  <1>2. Known(p) = UNION {{Offer(kk, f) : f \in info[p][kk]} : kk \in Kinds}
    BY DEF Known, Offer
  <1>3. ASSUME NEW x \in Known(p)'
        PROVE  x \in Known(p) \cup {Offer(k, e)}
    <2>1. PICK kk \in Kinds : \E f \in info'[p][kk] : x = Offer(kk, f)
      BY <1>1
    <2>2. PICK f \in info'[p][kk] : x = Offer(kk, f)
      BY <2>1
    <2>3. f \in info[p][kk] \/ (kk = k /\ f = e)
      OBVIOUS
    <2> QED
      BY <1>2, <2>2, <2>3
  <1>4. ASSUME NEW x \in Known(p) \cup {Offer(k, e)}
        PROVE  x \in Known(p)'
    <2>1. CASE x = Offer(k, e)
      BY <1>1, <2>1
    <2>2. CASE x \in Known(p)
      <3>1. PICK kk \in Kinds : \E f \in info[p][kk] : x = Offer(kk, f)
        BY <1>2, <2>2
      <3>2. PICK f \in info[p][kk] : x = Offer(kk, f)
        BY <3>1
      <3>3. f \in info'[p][kk]
        OBVIOUS
      <3> QED
        BY <1>1, <3>2, <3>3
    <2> QED
      BY <1>4, <2>1, <2>2
  <1> QED
    BY <1>3, <1>4

\* The tables of the other processes stay as functions.
LEMMA OthersStay ==
    ASSUME TypeOK, NEW p \in Procs, NEW k \in Kinds, NEW S,
           info' = [info EXCEPT ![p][k] = S]
    PROVE  /\ info'[p][k] = S
           /\ \A r \in Procs : r # p => info'[r] = info[r]
           /\ \A r \in Procs, kk \in Kinds :
                 r # p \/ kk # k => info'[r][kk] = info[r][kk]
  <1>1. info \in [Procs -> [Kinds -> SUBSET Entry]]
    BY DEF TypeOK
  <1> QED
    BY <1>1

\* Advertise is an offer; one already made keeps its scope.
LEMMA OfferMaps ==
    ASSUME TypeOK, DirInv, NEW p \in Procs, NEW k \in Kinds, NEW e \in Offerable(p),
           Advertise(p, k, e)
    PROVE  Dir!Next
  <1> DEFINE x == Offer(k, e)
  <1>1. e \in Entry /\ e.proc = p /\ e.addr = e.proc
    BY DEF Offerable
  <1>2. x \in Offers
    BY <1>1 DEF Offer, Offers
  <1>3. Dir!Owner(x) = p
    BY <1>1 DEF Dir!Owner, Offer
  <1>4. offered' = offered \cup {x}
    BY DEF Advertise, Offer
  <1>5. (\E y \in Table[p] : Dir!SameOffer(x, y)) <=> HasEntry(info[p][k], e)
    BY <1>1, SameOffers DEF DirInv, Table
  <1>6. Table' = IF \E y \in Table[p] : Dir!SameOffer(x, y) THEN Table
                 ELSE [Table EXCEPT ![p] = Table[p] \cup {x}]
    <2>1. CASE HasEntry(info[p][k], e)
      <3>1. info' = [info EXCEPT ![p][k] = info[p][k]]
        BY <2>1 DEF Advertise, AddAddress
      <3>2. info' = info
        BY <3>1 DEF TypeOK
      <3> QED
        BY <1>5, <2>1, <3>2, TableSame
    <2>2. CASE ~HasEntry(info[p][k], e)
      <3> DEFINE new == info[p][k] \cup {e}
      <3>1. info' = [info EXCEPT ![p][k] = new]
        BY <2>2 DEF Advertise, AddAddress
      <3> HIDE DEF new
      <3>2. /\ info'[p][k] = new
            /\ \A r \in Procs : r # p => info'[r] = info[r]
            /\ \A r \in Procs, kk \in Kinds :
                  r # p \/ kk # k => info'[r][kk] = info[r][kk]
        BY <3>1, OthersStay
      <3>3. Known(p)' = Known(p) \cup {x}
        BY <3>2, KnownGrows DEF new
      <3> HIDE DEF x
      <3>4. Table' = [Table EXCEPT ![p] = Known(p) \cup {x}]
        BY <3>2, <3>3, TableChange
      <3> QED
        BY <1>5, <2>2, <3>4 DEF Table
    <2> QED
      BY <2>1, <2>2
  <1> HIDE DEF x
  <1>7. Dir!Offer(x)
    BY <1>3, <1>4, <1>6 DEF Dir!Offer, Table
  <1> QED
    BY <1>2, <1>7 DEF Dir!Next

\* Reading an ADVERTISE learns its offer, or nothing.
LEMMA LearnMaps ==
    ASSUME TypeOK, DirInv, NEW p \in Procs, NEW m \in inbox[p], RecvAdvertise(p, m)
    PROVE  Dir!Next \/ (offered' = offered /\ Table' = Table)
  <1>1. offered' = offered
    BY DEF RecvAdvertise
  <1>2. CASE info' = info
    BY <1>1, <1>2, TableSame
  <1>3. CASE info' # info
    <2> DEFINE k == m.kind
               e == EntryOf(m)
               x == Offer(k, e)
    <2>1. m \in Msg /\ m \in AdvMsg
      BY MsgFields DEF TypeOK, RecvAdvertise
    <2>2. /\ ScopeAdmits(m.scope, m.from, p)
          /\ ~HasEntry(info[p][k], e)
          /\ k \in Kinds
          /\ info'[p][k] = info[p][k] \cup {e}
          /\ \A r \in Procs, kk \in Kinds :
                r # p \/ kk # k => info'[r][kk] = info[r][kk]
      BY <1>3, <2>1, RecvAdvertiseEffect
    <2>3. \A r \in Procs : r # p => info'[r] = info[r]
      BY <1>3, <2>2 DEF RecvAdvertise, TypeOK
    <2>4. x \in offered /\ m.from # p
      BY DEF RecvAdvertise, DirInv, MessagesReal, Honest
    <2>5. e.proc = m.from /\ e.scope = m.scope /\ e.addr = e.proc
      BY DEF EntryOf
    <2>6. m.scope \in {"Process", "Host", "All"}
      BY <2>1, DiscoveryAssumption DEF AdvMsg
    <2>7. x.entry = e /\ x.kind = k
      BY DEF Offer
    <2> HIDE DEF x, e, k
    <2>8. Dir!Owner(x) # p
      BY <2>4, <2>5, <2>7 DEF Dir!Owner
    <2>9. Dir!Reaches(x, p)
      BY <2>2, <2>5, <2>6, <2>7 DEF Dir!Reaches, Dir!Owner, ScopeAdmits
    <2>10. \A y \in Known(p) : ~Dir!SameOffer(x, y)
      BY <2>2, <2>5, SameOffers DEF DirInv, x
    <2>11. Known(p)' = Known(p) \cup {x}
      BY <2>2, KnownGrows DEF x
    <2>12. Table' = [Table EXCEPT ![p] = Known(p) \cup {x}]
      BY <2>3, <2>11, TableChange
    <2>13. Dir!Learn(p, x)
      BY <1>1, <2>4, <2>8, <2>9, <2>10, <2>12 DEF Dir!Learn, Table
    <2> QED
      BY <2>4, <2>13 DEF Dir!Next
  <1> QED
    BY <1>2, <1>3

\* Unadvertise withdraws one offer: by topic and node it deletes one address,
\* because the table has one for them.
LEMMA WithdrawMaps ==
    ASSUME TypeOK, DirInv, NEW p \in Procs, NEW k \in Kinds, NEW e \in Own(p, k),
           Unadvertise(p, k, e)
    PROVE  Dir!Next
  <1> DEFINE x == Offer(k, e)
             left == DelAddressByNode(info[p][k], e.topic, p, e.node)
  <1>1. e \in info[p][k] /\ e.proc = p
    BY DEF Own, AddressesByProc
  <1>2. x \in offered /\ x \in Known(p)
    BY <1>1, KnownOffers DEF DirInv, OffersReal
  <1>3. offered' = offered
    BY DEF Unadvertise
  <1>4. left = info[p][k] \ {e}
    <2>1. ASSUME NEW f \in info[p][k], f.topic = e.topic, f.proc = p, f.node = e.node
          PROVE  f = e
      <3>1. f.addr = f.proc /\ e.addr = e.proc
        BY <1>1 DEF DirInv, OffersReal
      <3>2. SameAddress(f, e)
        BY <1>1, <2>1, <3>1 DEF SameAddress
      <3> QED
        BY <1>1, <3>2 DEF DirInv, OneScope
    <2> QED
      BY <1>1, <2>1 DEF DelAddressByNode, AddressesByNode
  <1> HIDE DEF left
  <1>5. /\ info'[p][k] = info[p][k] \ {e}
        /\ \A r \in Procs : r # p => info'[r] = info[r]
        /\ \A r \in Procs, kk \in Kinds :
              r # p \/ kk # k => info'[r][kk] = info[r][kk]
    <2>1. info' = [info EXCEPT ![p][k] = left]
      BY DEF Unadvertise, left
    <2> QED
      BY <1>4, <2>1, OthersStay
  <1>6. Known(p)' = Known(p) \ {x}
    <2>1. ASSUME NEW y \in Known(p)'
          PROVE  y \in Known(p) /\ y # x
      <3>1. PICK kk \in Kinds : \E f \in info'[p][kk] : y = Offer(kk, f)
        BY DEF Known, Offer
      <3>2. PICK f \in info'[p][kk] : y = Offer(kk, f)
        BY <3>1
      <3>3. f \in info[p][kk] /\ ~(kk = k /\ f = e)
        BY <1>5
      <3>4. y.kind = kk /\ y.entry = f /\ x.kind = k /\ x.entry = e
        BY <3>2 DEF Offer
      <3> HIDE DEF x
      <3> QED
        BY <3>2, <3>3, <3>4, KnownOffers
    <2>2. ASSUME NEW y \in Known(p), y # x
          PROVE  y \in Known(p)'
      <3>1. y.kind \in Kinds /\ y.entry \in info[p][y.kind] /\ y = Offer(y.kind, y.entry)
        BY KnownOffers
      <3>2. y.entry \in info'[p][y.kind]
        BY <1>5, <2>2, <3>1
      <3> QED
        BY <3>1, <3>2 DEF Known, Offer
    <2> HIDE DEF x
    <2> QED
      BY <2>1, <2>2
  <1>7. Dir!Owner(x) = p
    BY <1>1 DEF Dir!Owner, Offer
  <1> HIDE DEF x
  <1>8. Table' = [Table EXCEPT ![p] = Known(p) \ {x}]
    BY <1>5, <1>6, TableChange
  <1>9. Dir!Withdraw(x)
    BY <1>2, <1>3, <1>7, <1>8 DEF Dir!Withdraw, Table
  <1> QED
    BY <1>2, <1>9 DEF Dir!Next

\* Each step of Discovery is a step of the Directory or changes nothing in it.
LEMMA DirectoryStep ==
    ASSUME TypeOK, DirInv, [Next]_vars
    PROVE  Dir!Next \/ (offered' = offered /\ Table' = Table)
  <1>0. info \in [Procs -> [Kinds -> SUBSET Entry]]
    BY DEF TypeOK
  <1>1. CASE Tick \/ UNCHANGED vars
    BY <1>1, TableSame DEF Tick, vars
  <1>2. ASSUME NEW p \in Procs, Start(p) \/ HeartbeatTask(p)
        PROVE  offered' = offered /\ Table' = Table
    BY <1>2, TableSame DEF Start, HeartbeatTask
  <1>3. ASSUME NEW p \in Procs, ClientCall(p)
        PROVE  Dir!Next \/ (offered' = offered /\ Table' = Table)
    <2>1. CASE SetCallback(p) \/ \E i \in Interests[p] : Discover(p, i[1], i[2])
      BY <2>1, TableSame DEF SetCallback, Discover
    <2> QED
      BY <1>3, <2>1, OfferMaps, WithdrawMaps DEF ClientCall
  <1>4. ASSUME NEW p \in Procs, ActivityTask(p)
        PROVE  Dir!Next
    <2>1. offered' = offered /\ \A r \in Procs : r # p => info'[r] = info[r]
      BY <1>0, <1>4 DEF ActivityTask
    <2>2. p \notin Expired(p)
      BY DiscoveryAssumption DEF Expired, DirInv, SelfUnwatched, Absent
    <2>3. \A k \in Kinds : info'[p][k] = {e \in info[p][k] : e.proc \notin Expired(p)}
      BY <1>0, <1>4 DEF ActivityTask
    <2> QED
      BY <2>1, <2>2, <2>3, ForgetMaps
  <1>5. ASSUME NEW p \in Procs, NEW m \in inbox[p], DispatchDiscoveryMsg(p, m)
        PROVE  Dir!Next \/ (offered' = offered /\ Table' = Table)
    <2>1. m \in Msg /\ m.from # p
      BY DEF DirInv, MessagesReal, Honest, TypeOK
    <2>2. CASE RecvSubscribe(p, m) \/ RecvHeartbeat(p, m)
      BY <2>2, TableSame DEF RecvSubscribe, RecvHeartbeat
    <2>3. CASE RecvBye(p, m)
      <3>1. offered' = offered /\ \A r \in Procs : r # p => info'[r] = info[r]
        BY <1>0, <2>3 DEF RecvBye
      <3>2. \A k \in Kinds : info'[p][k] = {e \in info[p][k] : e.proc # m.from}
        BY <1>0, <2>3 DEF RecvBye, DelAddressesByProc, AddressesByProc
      <3> QED
        BY <2>1, <3>1, <3>2, ForgetMaps
    <2>4. CASE RecvUnadvertise(p, m)
      <3> DEFINE left == DelAddressByNode(info[p][m.kind], m.topic, m.from, m.node)
      <3>1. m.kind \in Kinds /\ offered' = offered
        BY <2>1, <2>4, MsgFields DEF RecvUnadvertise, AdvMsg
      <3>2. info' = info \/ info' = [info EXCEPT ![p][m.kind] = left]
        BY <2>4 DEF RecvUnadvertise
      <3>3. CASE info' = info
        BY <3>1, <3>3, TableSame
      <3>4. CASE info' = [info EXCEPT ![p][m.kind] = left]
        <4>1. left \subseteq info[p][m.kind]
              /\ \A e \in info[p][m.kind] : e \in left \/ e.proc = m.from
          BY DEF DelAddressByNode, AddressesByNode
        <4> HIDE DEF left
        <4>2. /\ info'[p][m.kind] = left
              /\ \A r \in Procs : r # p => info'[r] = info[r]
              /\ \A r \in Procs, kk \in Kinds :
                    r # p \/ kk # m.kind => info'[r][kk] = info[r][kk]
          BY <3>1, <3>4, OthersStay
        <4>3. \A k \in Kinds : info'[p][k] \subseteq info[p][k]
          BY <4>1, <4>2
        <4>4. \A k \in Kinds : \A e \in info[p][k] : e \in info'[p][k] \/ e.proc # p
          BY <2>1, <4>1, <4>2
        <4> QED
          BY <3>1, <4>2, <4>3, <4>4, ForgetMaps
      <3> QED
        BY <3>2, <3>3, <3>4
    <2> QED
      BY <1>5, <2>2, <2>3, <2>4, LearnMaps DEF DispatchDiscoveryMsg
  <1> QED
    BY <1>1, <1>2, <1>3, <1>4, <1>5, EndMaps DEF Next

\* The discovery service implements the Directory: processes only know what was
\* really offered, as far as its scope reaches, with one scope, and only the
\* owner withdraws an offer from the owner's own tables.
THEOREM ImplementsDirectory == Spec => RefinesDirectory
  <1>1. Init => Dir!Init
    <2>1. Init => \A p \in Procs : Known(p) = {}
      BY DEF Init, Known
    <2> QED
      BY <2>1 DEF Init, Dir!Init
  <1>2. TypeOK /\ DirInv /\ [Next]_vars
            => [Dir!Next]_<<offered, Table>>
    BY DirectoryStep
  <1>3. [Dir!Next]_<<offered, Table>> => [Dir!Next]_<<offered, [p \in Procs |-> Known(p)]>>
    BY DEF Table
  <1> QED
    BY <1>1, <1>2, <1>3, TypeCorrect, DirAlways, PTL DEF Spec, RefinesDirectory, Dir!Spec

=============================================================================

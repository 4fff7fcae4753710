------------------------ MODULE HandlerStorageProofs ------------------------
(***************************************************************************)
(* Theorems about HandlerStorage, for any topics, nodes, UUIDs and         *)
(* handlers.                                                               *)
(***************************************************************************)
EXTENDS HandlerStorage, WellFoundedInduction, TLAPS

---------------------------------------------------------------------------
\* The maps.

\* Maps of numbers have a begin().
LEMMA BeginIs ==
    ASSUME NEW m, DOMAIN m # {}, DOMAIN m \subseteq Nat
    PROVE  Begin(m) \in DOMAIN m
  <1>1. PICK k \in DOMAIN m : \A l \in DOMAIN m : ~(<<l, k>> \in OpToRel(<, Nat))
    BY NatLessThanWellFounded, WFMin
  <1>2. ASSUME NEW l \in DOMAIN m PROVE k <= l
    <2>1. l \in Nat /\ k \in Nat
      OBVIOUS
    <2>2. ~(l < k)
      BY <1>1, <2>1, Zenon DEF OpToRel
    <2> QED
      BY <2>1, <2>2
  <1> QED
    BY <1>2 DEF Begin

---------------------------------------------------------------------------
\* The inductive invariant: the types, and no empty map is left in the table.
NoEmptyMap ==
    \A t \in DOMAIN data :
        /\ DOMAIN data[t] # {}
        /\ \A n \in DOMAIN data[t] : DOMAIN data[t][n] # {}

Inv == TypeOK /\ NoEmptyMap

\* A map of handlers under their UUIDs, and not an empty one.
Sound(m) ==
    /\ DOMAIN m \subseteq Uuids
    /\ DOMAIN m # {}
    /\ \A u \in DOMAIN m : m[u] \in Handler /\ m[u].uuid = u

\* Handler h of node n is in the table for topic t.
Has(t, n, h) == HasHandler(t, n, h.uuid) /\ data[t][n][h.uuid] = h

\* Has, with HasHandler expanded.
LEMMA HasIs ==
    ASSUME NEW t, NEW n, NEW h
    PROVE  /\ Has(t, n, h) <=> /\ t \in DOMAIN data
                               /\ n \in DOMAIN data[t]
                               /\ h.uuid \in DOMAIN data[t][n]
                               /\ data[t][n][h.uuid] = h
           /\ Has(t, n, h)' <=> /\ t \in DOMAIN data'
                                /\ n \in DOMAIN data'[t]
                                /\ h.uuid \in DOMAIN data'[t][n]
                                /\ data'[t][n][h.uuid] = h
  BY DEF Has, HasHandler, HasHandlersForNode

\* The table is sound in every place.
LEMMA InvIs ==
    Inv <=> /\ DOMAIN data \subseteq Topics
            /\ \A t \in DOMAIN data :
                  /\ DOMAIN data[t] \subseteq Nodes
                  /\ DOMAIN data[t] # {}
                  /\ \A n \in DOMAIN data[t] : Sound(data[t][n])
            /\ ret \in BOOLEAN
  BY DEF Inv, TypeOK, NoEmptyMap, Sound

\* Inv survives an operation that found nothing to do.
LEMMA DataKept ==
    ASSUME Inv, data' = data, ret' \in BOOLEAN
    PROVE  Inv'
  <1>1. TypeOK'
    BY DEF Inv, TypeOK, Handler
  <1>2. NoEmptyMap'
    BY DEF Inv, NoEmptyMap
  <1> QED
    BY <1>1, <1>2 DEF Inv

\* A table in which the map of one topic was replaced by a map without empty
\* maps, or erased if there was nothing left of it.
LEMMA TopicReplaced ==
    ASSUME Inv, NEW t \in Topics, NEW top, ret' \in BOOLEAN,
           data' = PutOrErase(data, t, top),
           \A y \in DOMAIN top : y \in Nodes /\ Sound(top[y])
    PROVE  /\ Inv'
           /\ \A x, y, g : Has(x, y, g)' <=>
                  IF x = t THEN /\ y \in DOMAIN top
                                /\ g.uuid \in DOMAIN top[y]
                                /\ top[y][g.uuid] = g
                  ELSE Has(x, y, g)
  <1>1. /\ DOMAIN data' = IF DOMAIN top = {} THEN DOMAIN data \ {t}
                          ELSE DOMAIN data \cup {t}
        /\ \A x \in DOMAIN data' : data'[x] = IF x = t THEN top ELSE data[x]
    BY DEF PutOrErase, Put, Erase
  <1>2. DOMAIN data' \subseteq Topics
    BY <1>1, InvIs
  <1>3. ASSUME NEW x \in DOMAIN data'
        PROVE  /\ DOMAIN data'[x] \subseteq Nodes
               /\ DOMAIN data'[x] # {}
               /\ \A y \in DOMAIN data'[x] : Sound(data'[x][y])
    <2>1. CASE x = t
      BY <1>1, <2>1
    <2>2. CASE x # t
      <3>1. x \in DOMAIN data /\ data'[x] = data[x]
        BY <1>1, <2>2
      <3> QED
        BY <3>1, InvIs
    <2> QED
      BY <2>1, <2>2
  <1>4. Inv'
    BY <1>2, <1>3 DEF Inv, TypeOK, NoEmptyMap, Sound, Handler
  <1>5. ASSUME NEW x, NEW y, NEW g
        PROVE  Has(x, y, g)' <=>
                   IF x = t THEN /\ y \in DOMAIN top
                                 /\ g.uuid \in DOMAIN top[y]
                                 /\ top[y][g.uuid] = g
                   ELSE Has(x, y, g)
    BY <1>1, HasIs
  <1> QED
    BY <1>4, <1>5

\* What AddHandler does to the table: one registration more, unless the UUID
\* has one.
LEMMA AddEffect ==
    ASSUME Inv, NEW t \in Topics, NEW n \in Nodes, NEW h \in Handler,
           AddHandler(t, n, h)
    PROVE  /\ Inv'
           /\ \A x, y, g : Has(x, y, g)' <=>
                  \/ Has(x, y, g)
                  \/ x = t /\ y = n /\ g = h /\ ~HasHandler(t, n, h.uuid)
  <1> DEFINE outer == At(data, t, EmptyMap)
             inner == At(outer, n, EmptyMap)
             new == IF h.uuid \in DOMAIN inner THEN inner ELSE Put(inner, h.uuid, h)
             top == Put(outer, n, new)
  <1>0. h.uuid \in Uuids
    BY DEF Handler
  <1>1. /\ DOMAIN outer = IF t \in DOMAIN data THEN DOMAIN data[t] ELSE {}
        /\ t \in DOMAIN data => outer = data[t]
    BY DEF At, EmptyMap
  <1>2. /\ DOMAIN inner = IF n \in DOMAIN outer THEN DOMAIN outer[n] ELSE {}
        /\ n \in DOMAIN outer => inner = outer[n]
    <2> HIDE DEF outer
    <2> QED
      BY DEF At, EmptyMap
  <1>3. /\ DOMAIN new = DOMAIN inner \cup {h.uuid}
        /\ \A u \in DOMAIN new : new[u] = IF u \in DOMAIN inner THEN inner[u]
                                          ELSE h
    <2>1. CASE h.uuid \in DOMAIN inner
      <3>1. new = inner
        BY <2>1
      <3> HIDE DEF inner, new
      <3> QED
        BY <2>1, <3>1
    <2>2. CASE h.uuid \notin DOMAIN inner
      <3>1. new = Put(inner, h.uuid, h)
        BY <2>2
      <3> HIDE DEF inner, new
      <3> QED
        BY <2>2, <3>1 DEF Put
    <2> QED
      BY <2>1, <2>2
  <1>4. /\ DOMAIN top = DOMAIN outer \cup {n}
        /\ \A y \in DOMAIN top : top[y] = IF y = n THEN new ELSE outer[y]
    <2>1. top = Put(outer, n, new)
      OBVIOUS
    <2> HIDE DEF outer, new, top
    <2> QED
      BY <2>1 DEF Put
  <1>5. data' = Put(data, t, top) /\ ret' = FALSE
    BY DEF AddHandler
  <1> HIDE DEF outer, inner, new, top
  <1>6. data' = PutOrErase(data, t, top)
    BY <1>4, <1>5 DEF PutOrErase
  <1>7. \A y \in DOMAIN outer : y \in Nodes /\ Sound(outer[y])
    BY <1>1, InvIs
  <1>8. DOMAIN inner # {} => Sound(inner)
    BY <1>2, <1>7
  <1>9. Sound(new)
    BY <1>0, <1>3, <1>8 DEF Sound
  <1>10. \A y \in DOMAIN top : y \in Nodes /\ Sound(top[y])
    BY <1>4, <1>7, <1>9
  <1>11. /\ Inv'
         /\ \A x, y, g : Has(x, y, g)' <=>
                IF x = t THEN /\ y \in DOMAIN top
                              /\ g.uuid \in DOMAIN top[y]
                              /\ top[y][g.uuid] = g
                ELSE Has(x, y, g)
    <2>1. ret' \in BOOLEAN
      BY <1>5
    <2> QED
      BY <1>6, <1>10, <2>1, TopicReplaced
  <1>12. HasHandler(t, n, h.uuid) <=> h.uuid \in DOMAIN inner
    BY <1>1, <1>2 DEF HasHandler, HasHandlersForNode
  <1>13. ASSUME NEW x, NEW y, NEW g
         PROVE  Has(x, y, g)' <=>
                    \/ Has(x, y, g)
                    \/ x = t /\ y = n /\ g = h /\ ~HasHandler(t, n, h.uuid)
    <2>1. CASE x # t
      BY <1>11, <2>1
    <2>2. CASE x = t /\ y # n
      <3>1. Has(x, y, g) <=> y \in DOMAIN outer /\ g.uuid \in DOMAIN outer[y]
                             /\ outer[y][g.uuid] = g
        BY <1>1, <2>2, HasIs
      <3>2. Has(x, y, g)' <=> y \in DOMAIN top /\ g.uuid \in DOMAIN top[y]
                              /\ top[y][g.uuid] = g
        BY <1>11, <2>2
      <3> QED
        BY <1>4, <2>2, <3>1, <3>2
    <2>3. CASE x = t /\ y = n
      <3>1. Has(x, y, g) <=> g.uuid \in DOMAIN inner /\ inner[g.uuid] = g
        BY <1>1, <1>2, <2>3, HasIs
      <3>2. Has(x, y, g)' <=> g.uuid \in DOMAIN new /\ new[g.uuid] = g
        BY <1>4, <1>11, <2>3
      <3>3. g.uuid = h.uuid /\ g.uuid \notin DOMAIN inner => new[g.uuid] = h
        BY <1>3
      <3> QED
        BY <1>3, <1>12, <2>3, <3>1, <3>2, <3>3
    <2> QED
      BY <2>1, <2>2, <2>3
  <1> QED
    BY <1>11, <1>13

\* RemoveHandler takes the registration of one UUID away.
LEMMA RemoveEffect ==
    ASSUME Inv, NEW t \in Topics, NEW n \in Nodes, NEW u \in Uuids,
           RemoveHandler(t, n, u)
    PROVE  /\ Inv'
           /\ \A x, y, g : Has(x, y, g)' <=>
                  Has(x, y, g) /\ ~(x = t /\ y = n /\ g.uuid = u)
  <1>1. CASE ~HasHandlersForNode(t, n)
    <2>1. data' = data /\ ret' = FALSE
      BY <1>1 DEF RemoveHandler
    <2>2. Inv'
      <3>1. ret' \in BOOLEAN
        BY <2>1
      <3> QED
        BY <2>1, <3>1, DataKept
    <2>3. \A g : ~Has(t, n, g)
      BY <1>1 DEF Has, HasHandler
    <2>4. \A x, y, g : Has(x, y, g)' <=> Has(x, y, g)
      BY <2>1, HasIs
    <2> QED
      BY <2>2, <2>3, <2>4
  <1>2. CASE HasHandlersForNode(t, n)
    <2> DEFINE left == Erase(data[t][n], u)
               top == PutOrErase(data[t], n, left)
    <2>0. t \in DOMAIN data /\ n \in DOMAIN data[t]
      BY <1>2 DEF HasHandlersForNode
    <2>1. data' = PutOrErase(data, t, top) /\ ret' = (DOMAIN left = {})
      BY <1>2 DEF RemoveHandler
    <2>2. /\ DOMAIN left = DOMAIN data[t][n] \ {u}
          /\ \A v \in DOMAIN left : left[v] = data[t][n][v]
      BY DEF Erase
    <2> HIDE DEF left
    <2>3. /\ DOMAIN top = IF DOMAIN left = {} THEN DOMAIN data[t] \ {n}
                          ELSE DOMAIN data[t] \cup {n}
          /\ \A y \in DOMAIN top : top[y] = IF y = n THEN left ELSE data[t][y]
      BY DEF PutOrErase, Put, Erase
    <2> HIDE DEF top
    <2>4. ASSUME NEW y \in DOMAIN top
          PROVE  y \in Nodes /\ Sound(top[y])
      <3>1. CASE y = n
        <4>1. Sound(data[t][n])
          BY <2>0, InvIs
        <4>2. Sound(left)
          BY <2>2, <2>3, <3>1, <4>1 DEF Sound
        <4> QED
          BY <2>3, <3>1, <4>2
      <3>2. CASE y # n
        <4>1. y \in DOMAIN data[t] /\ top[y] = data[t][y]
          BY <2>3, <3>2
        <4> QED
          BY <2>0, <4>1, InvIs
      <3> QED
        BY <3>1, <3>2
    <2>5. ret' \in BOOLEAN
      BY <2>1
    <2>6. /\ Inv'
          /\ \A x, y, g : Has(x, y, g)' <=>
                 IF x = t THEN /\ y \in DOMAIN top
                               /\ g.uuid \in DOMAIN top[y]
                               /\ top[y][g.uuid] = g
                 ELSE Has(x, y, g)
      BY <2>1, <2>4, <2>5, TopicReplaced
    <2>7. ASSUME NEW x, NEW y, NEW g
          PROVE  Has(x, y, g)' <=>
                     Has(x, y, g) /\ ~(x = t /\ y = n /\ g.uuid = u)
      <3>1. CASE x # t
        BY <2>6, <3>1
      <3>2. CASE x = t /\ y # n
        <4>1. Has(x, y, g) <=> y \in DOMAIN data[t] /\ g.uuid \in DOMAIN data[t][y]
                               /\ data[t][y][g.uuid] = g
          BY <2>0, <3>2, HasIs
        <4>2. Has(x, y, g)' <=> y \in DOMAIN top /\ g.uuid \in DOMAIN top[y]
                                /\ top[y][g.uuid] = g
          BY <2>6, <3>2
        <4> QED
          BY <2>3, <3>2, <4>1, <4>2
      <3>3. CASE x = t /\ y = n
        <4>1. Has(x, y, g) <=> g.uuid \in DOMAIN data[t][n]
                               /\ data[t][n][g.uuid] = g
          BY <2>0, <3>3, HasIs
        <4>2. Has(x, y, g)' <=> n \in DOMAIN top /\ g.uuid \in DOMAIN top[n]
                                /\ top[n][g.uuid] = g
          BY <2>6, <3>3
        <4> QED
          BY <2>2, <2>3, <3>3, <4>1, <4>2
      <3> QED
        BY <3>1, <3>2, <3>3
    <2> QED
      BY <2>6, <2>7
  <1> QED
    BY <1>1, <1>2

\* RemoveHandlersForNode takes a node's registrations of a topic away, and
\* answers whether there were any.
LEMMA RemoveNodeEffect ==
    ASSUME Inv, NEW t \in Topics, NEW n \in Nodes,
           RemoveHandlersForNode(t, n)
    PROVE  /\ Inv'
           /\ \A x, y, g : Has(x, y, g)' <=> Has(x, y, g) /\ ~(x = t /\ y = n)
           /\ ret' \in BOOLEAN
           /\ ret' <=> HasHandlersForNode(t, n)
  <1>1. CASE t \notin DOMAIN data
    <2>1. data' = data /\ ret' = FALSE
      BY <1>1 DEF RemoveHandlersForNode
    <2>2. Inv'
      <3>1. ret' \in BOOLEAN
        BY <2>1
      <3> QED
        BY <2>1, <3>1, DataKept
    <2>3. ~HasHandlersForNode(t, n) /\ \A g : ~Has(t, n, g)
      BY <1>1 DEF HasHandlersForNode, HasHandler, Has
    <2>4. \A x, y, g : Has(x, y, g)' <=> Has(x, y, g)
      BY <2>1, HasIs
    <2> QED
      BY <2>1, <2>2, <2>3, <2>4
  <1>2. CASE t \in DOMAIN data
    <2> DEFINE top == Erase(data[t], n)
    <2>1. data' = PutOrErase(data, t, top) /\ ret' = (n \in DOMAIN data[t])
      BY <1>2 DEF RemoveHandlersForNode
    <2>2. /\ DOMAIN top = DOMAIN data[t] \ {n}
          /\ \A y \in DOMAIN top : top[y] = data[t][y]
      BY DEF Erase
    <2> HIDE DEF top
    <2>3. \A y \in DOMAIN top : y \in Nodes /\ Sound(top[y])
      BY <1>2, <2>2, InvIs
    <2>4. ret' \in BOOLEAN /\ (ret' <=> HasHandlersForNode(t, n))
      <3>1. ret' \in BOOLEAN
        BY <2>1
      <3>2. ret' <=> n \in DOMAIN data[t]
        BY <2>1, Zenon
      <3> QED
        BY <1>2, <3>1, <3>2, Zenon DEF HasHandlersForNode
    <2>5. /\ Inv'
          /\ \A x, y, g : Has(x, y, g)' <=>
                 IF x = t THEN /\ y \in DOMAIN top
                               /\ g.uuid \in DOMAIN top[y]
                               /\ top[y][g.uuid] = g
                 ELSE Has(x, y, g)
      BY <2>1, <2>3, <2>4, TopicReplaced
    <2>6. ASSUME NEW x, NEW y, NEW g
          PROVE  Has(x, y, g)' <=> Has(x, y, g) /\ ~(x = t /\ y = n)
      BY <1>2, <2>2, <2>5, HasIs
    <2> QED
      BY <2>4, <2>5, <2>6
  <1> QED
    BY <1>1, <1>2

\* Inv is inductive.
LEMMA InvStep ==
    ASSUME Inv, [Next]_vars
    PROVE  Inv'
  <1>1. CASE UNCHANGED vars
    BY <1>1 DEF vars, Inv, TypeOK, NoEmptyMap
  <1> QED
    BY <1>1, AddEffect, RemoveEffect, RemoveNodeEffect DEF Next

\* Inv holds in every reachable state.
LEMMA InvAlways == Spec => []Inv
  <1>1. Init => Inv
    BY DEF Init, Inv, TypeOK, NoEmptyMap, EmptyMap
  <1>2. Inv /\ [Next]_vars => Inv'
    BY InvStep
  <1> QED
    BY <1>1, <1>2, PTL DEF Spec

\* The table is well typed after any sequence of calls.
THEOREM TypeCorrect == Spec => []TypeOK
  <1>1. Inv => TypeOK
    BY DEF Inv
  <1> QED
    BY <1>1, InvAlways, PTL

---------------------------------------------------------------------------
\* The table as a set of registrations.

Reg(t, n, h) == [topic |-> t, node |-> n, handler |-> h]

\* A handler is registered if and only if GetHandler finds it.
FoundIsRegistered ==
    /\ \A t, n, h : Reg(t, n, h) \in Registered <=> Has(t, n, h)
    /\ \A r \in Registered : /\ r = Reg(r.topic, r.node, r.handler)
                             /\ Has(r.topic, r.node, r.handler)

\* It is, as a handler is stored under its own UUID.
LEMMA RegisteredIs ==
    ASSUME Inv
    PROVE  FoundIsRegistered
  <1>1. ASSUME NEW t, NEW n, NEW h, Has(t, n, h)
        PROVE  Reg(t, n, h) \in Registered
    <2>1. /\ t \in DOMAIN data /\ n \in DOMAIN data[t]
          /\ h.uuid \in DOMAIN data[t][n] /\ data[t][n][h.uuid] = h
      BY <1>1, HasIs
    <2>2. Reg(t, n, h) \in {[topic |-> t, node |-> n, handler |-> data[t][n][v]] :
                                v \in DOMAIN data[t][n]}
      BY <2>1 DEF Reg
    <2> QED
      BY <2>1, <2>2 DEF Registered
  <1>2. ASSUME NEW r \in Registered
        PROVE  \E t, n, h : r = Reg(t, n, h) /\ Has(t, n, h)
    <2>1. PICK t \in DOMAIN data :
              r \in UNION {{[topic |-> t, node |-> n, handler |-> data[t][n][u]] :
                                u \in DOMAIN data[t][n]} : n \in DOMAIN data[t]}
      BY <1>2 DEF Registered
    <2>2. PICK n \in DOMAIN data[t] :
              r \in {[topic |-> t, node |-> n, handler |-> data[t][n][u]] :
                         u \in DOMAIN data[t][n]}
      BY <2>1
    <2>3. PICK u \in DOMAIN data[t][n] :
              r = [topic |-> t, node |-> n, handler |-> data[t][n][u]]
      BY <2>2
    <2>4. data[t][n][u].uuid = u
      BY DEF Inv, TypeOK
    <2>5. r = Reg(t, n, data[t][n][u]) /\ Has(t, n, data[t][n][u])
      BY <2>3, <2>4, HasIs DEF Reg
    <2> QED
      BY <2>5
  <1>3. ASSUME NEW t, NEW n, NEW h
        PROVE  /\ Reg(t, n, h).topic = t
               /\ Reg(t, n, h).node = n
               /\ Reg(t, n, h).handler = h
    BY DEF Reg
  <1>4. ASSUME NEW r \in Registered
        PROVE  /\ r = Reg(r.topic, r.node, r.handler)
               /\ Has(r.topic, r.node, r.handler)
    <2>1. PICK t, n, h : r = Reg(t, n, h) /\ Has(t, n, h)
      BY <1>2
    <2>2. r.topic = t /\ r.node = n /\ r.handler = h
      BY <1>3, <2>1
    <2> QED
      BY <2>1, <2>2
  <1>5. ASSUME NEW t, NEW n, NEW h, Reg(t, n, h) \in Registered
        PROVE  Has(t, n, h)
    <2> DEFINE r == Reg(t, n, h)
    <2>1. r.topic = t /\ r.node = n /\ r.handler = h
      BY <1>3
    <2>2. Has(r.topic, r.node, r.handler)
      BY <1>4, <1>5
    <2> HIDE DEF r
    <2> QED
      BY <2>1, <2>2
  <1> QED
    BY <1>1, <1>4, <1>5 DEF FoundIsRegistered

\* A node has at most one handler under a UUID, the one of the maps.
LEMMA OneForUuid ==
    ASSUME NEW t, NEW n, NEW h, Has(t, n, h)
    PROVE  HasHandler(t, n, h.uuid) /\ h = data[t][n][h.uuid]
  BY DEF Has

\* What the maps hold under a UUID is registered.
LEMMA HeldIsFound ==
    ASSUME Inv, NEW t, NEW n, NEW u, HasHandler(t, n, u)
    PROVE  Has(t, n, data[t][n][u]) /\ data[t][n][u].uuid = u
  <1>1. t \in DOMAIN data /\ n \in DOMAIN data[t] /\ u \in DOMAIN data[t][n]
    BY DEF HasHandler, HasHandlersForNode
  <1>2. data[t][n][u].uuid = u
    BY <1>1 DEF Inv, TypeOK
  <1> QED
    BY <1>1, <1>2, HasIs

\* GetHandler(topic) answers a handler of the topic, if the topic has a map.
LEMMA FirstIs ==
    ASSUME Inv, NEW t \in DOMAIN data
    PROVE  FirstDefined(t) /\ \E n : Has(t, n, First(t))
  <1> DEFINE n == Begin(data[t])
             u == Begin(data[t][n])
  <1>1. DOMAIN data[t] # {} /\ DOMAIN data[t] \subseteq Nat
    BY HandlersAssumption DEF Inv, TypeOK, NoEmptyMap
  <1>2. n \in DOMAIN data[t]
    BY <1>1, BeginIs
  <1>3. DOMAIN data[t][n] # {} /\ DOMAIN data[t][n] \subseteq Nat
    BY <1>2, HandlersAssumption DEF Inv, TypeOK, NoEmptyMap
  <1>4. u \in DOMAIN data[t][n]
    <2> HIDE DEF n
    <2> QED
      BY <1>3, BeginIs
  <1>5. First(t) = data[t][n][u]
    BY DEF First
  <1>6. FirstDefined(t)
    BY <1>1, <1>3 DEF FirstDefined
  <1> HIDE DEF n, u
  <1>7. HasHandler(t, n, u)
    BY <1>2, <1>4 DEF HasHandler, HasHandlersForNode
  <1>8. Has(t, n, First(t))
    BY <1>5, <1>7, HeldIsFound
  <1> QED
    BY <1>6, <1>8

\* The queries answer of the registered handlers and of no others.
THEOREM QueriesCorrect == Spec => []QueriesAgree
  <1>1. ASSUME Inv PROVE QueriesAgree
    <2> USE <1>1
    <2> SUFFICES ASSUME NEW t \in Topics
                 PROVE  LET ofTopic == {r \in Registered : r.topic = t}
                        IN  /\ HasHandlersForTopic(t) <=> ofTopic # {}
                            /\ t \in DOMAIN data <=> ofTopic # {}
                            /\ t \in DOMAIN data =>
                                  /\ FirstDefined(t)
                                  /\ First(t) \in {r.handler : r \in ofTopic}
                            /\ \A n \in Nodes :
                                  /\ HasHandlersForNode(t, n) <=>
                                        \E r \in ofTopic : r.node = n
                                  /\ \A u \in Uuids :
                                        {r.handler : r \in Registry!Under(t, n, u)} =
                                            IF HasHandler(t, n, u)
                                            THEN {data[t][n][u]} ELSE {}
      BY DEF QueriesAgree
    <2> DEFINE ofTopic == {r \in Registered : r.topic = t}
    <2>1. ASSUME NEW n, NEW h
          PROVE  Reg(t, n, h) \in ofTopic <=> Has(t, n, h)
      <3>1. Reg(t, n, h).topic = t
        BY DEF Reg
      <3> QED
        BY <3>1, RegisteredIs DEF FoundIsRegistered
    <2>2. ASSUME NEW r \in ofTopic
          PROVE  r = Reg(t, r.node, r.handler) /\ Has(t, r.node, r.handler)
      BY RegisteredIs DEF FoundIsRegistered
    <2>3. ASSUME NEW n, NEW h
          PROVE  Reg(t, n, h).node = n /\ Reg(t, n, h).handler = h
      BY DEF Reg
    <2>4. ASSUME NEW n \in Nodes, NEW u \in Uuids
          PROVE  {r.handler : r \in Registry!Under(t, n, u)} =
                     IF HasHandler(t, n, u) THEN {data[t][n][u]} ELSE {}
      <3>1. Registry!Under(t, n, u) =
                {r \in ofTopic : r.node = n /\ r.handler.uuid = u}
        BY DEF Registry!Under
      <3>2. ASSUME NEW r \in Registry!Under(t, n, u)
            PROVE  HasHandler(t, n, u) /\ r.handler = data[t][n][u]
        <4>1. r \in ofTopic /\ r.node = n /\ r.handler.uuid = u
          BY <3>1
        <4> QED
          BY <2>2, <4>1, OneForUuid
      <3>3. ASSUME HasHandler(t, n, u)
            PROVE  \E r \in Registry!Under(t, n, u) : r.handler = data[t][n][u]
        <4> DEFINE r == Reg(t, n, data[t][n][u])
        <4>1. Has(t, n, data[t][n][u]) /\ data[t][n][u].uuid = u
          BY <3>3, HeldIsFound
        <4>2. r \in ofTopic /\ r.node = n /\ r.handler = data[t][n][u]
          BY <2>1, <2>3, <4>1
        <4> HIDE DEF r, ofTopic
        <4> QED
          BY <3>1, <4>1, <4>2
      <3> QED
        BY <3>2, <3>3
    <2> HIDE DEF ofTopic
    <2>5. ASSUME t \in DOMAIN data
          PROVE  First(t) \in {r.handler : r \in ofTopic}
      <3>1. PICK n : Has(t, n, First(t))
        BY <2>5, FirstIs
      <3>2. Reg(t, n, First(t)) \in ofTopic
        BY <2>1, <3>1
      <3> QED
        BY <2>3, <3>2
    <2>6. ASSUME NEW r \in ofTopic
          PROVE  t \in DOMAIN data
      BY <2>2, <2>6, HasIs
    <2>7. t \in DOMAIN data <=> ofTopic # {}
      BY <2>5, <2>6
    <2>8. HasHandlersForTopic(t) <=> ofTopic # {}
      BY <2>7 DEF HasHandlersForTopic, Inv, NoEmptyMap
    <2>9. t \in DOMAIN data => FirstDefined(t)
      BY FirstIs
    <2>10. ASSUME NEW n \in Nodes
           PROVE  HasHandlersForNode(t, n) <=> \E r \in ofTopic : r.node = n
      <3>1. ASSUME HasHandlersForNode(t, n)
            PROVE  \E r \in ofTopic : r.node = n
        <4>1. DOMAIN data[t][n] # {}
          BY <3>1 DEF HasHandlersForNode, Inv, NoEmptyMap
        <4>2. PICK u : HasHandler(t, n, u)
          BY <3>1, <4>1 DEF HasHandler
        <4> QED
          BY <2>1, <2>3, <4>2, HeldIsFound
      <3>2. ASSUME NEW r \in ofTopic, r.node = n
            PROVE  HasHandlersForNode(t, n)
        BY <2>2, <3>2 DEF Has, HasHandler
      <3> QED
        BY <3>1, <3>2
    <2> QED
      BY <2>4, <2>5, <2>7, <2>8, <2>9, <2>10 DEF ofTopic
  <1> QED
    BY <1>1, InvAlways, PTL

---------------------------------------------------------------------------
\* The refinement.

\* What a step does to the handlers found it does to the registrations.
LEMMA RegistryStep ==
    ASSUME Inv, FoundIsRegistered, FoundIsRegistered', [Next]_vars
    PROVE  Registry!RegistrationsNext \/ (Registered' = Registered /\ ret' = ret)
  <1>0. ASSUME NEW r \in Registered \cup Registered'
        PROVE  r = Reg(r.topic, r.node, r.handler)
    <2>1. CASE r \in Registered
      BY <2>1 DEF FoundIsRegistered
    <2>2. CASE r \in Registered'
      BY <2>2 DEF FoundIsRegistered, Reg
    <2> QED
      BY <1>0, <2>1, <2>2
  <1>1. ASSUME NEW t, NEW n, NEW h
        PROVE  /\ Reg(t, n, h) \in Registered <=> Has(t, n, h)
               /\ Reg(t, n, h) \in Registered' <=> Has(t, n, h)'
               /\ Reg(t, n, h).topic = t /\ Reg(t, n, h).node = n
               /\ Reg(t, n, h).handler = h
    <2>1. Reg(t, n, h) \in Registered <=> Has(t, n, h)
      BY DEF FoundIsRegistered
    <2>2. Reg(t, n, h) \in Registered' <=> Has(t, n, h)'
      BY DEF FoundIsRegistered, Reg
    <2> QED
      BY <2>1, <2>2 DEF Reg
  <1>2. CASE UNCHANGED vars
    BY <1>2 DEF vars, Registered
  <1>3. ASSUME NEW t \in Topics, NEW n \in Nodes, NEW h \in Handler,
               AddHandler(t, n, h)
        PROVE  Registry!RegistrationsNext
    <2> DEFINE new == IF HasHandler(t, n, h.uuid) THEN {} ELSE {Reg(t, n, h)}
    <2>1. \A x, y, g : Has(x, y, g)' <=>
              \/ Has(x, y, g)
              \/ x = t /\ y = n /\ g = h /\ ~HasHandler(t, n, h.uuid)
      BY <1>3, AddEffect
    <2>2. ASSUME NEW r \in Registered'
          PROVE  r \in Registered \cup new
      <3>1. r = Reg(r.topic, r.node, r.handler)
        BY <1>0
      <3>2. Has(r.topic, r.node, r.handler)'
        BY <1>1, <3>1
      <3> QED
        BY <1>1, <2>1, <3>1, <3>2
    <2>3. ASSUME NEW r \in Registered \cup new
          PROVE  r \in Registered'
      <3>1. CASE r \in new
        <4>1. r = Reg(t, n, h) /\ ~HasHandler(t, n, h.uuid)
          BY <3>1
        <4> QED
          BY <1>1, <2>1, <4>1
      <3>2. CASE r \in Registered
        <4>1. r = Reg(r.topic, r.node, r.handler)
          BY <1>0, <3>2
        <4>2. Has(r.topic, r.node, r.handler)
          BY <3>2 DEF FoundIsRegistered
        <4>3. Has(r.topic, r.node, r.handler)'
          BY <2>1, <4>2
        <4> QED
          BY <1>1, <4>1, <4>3
      <3> QED
        BY <2>3, <3>1, <3>2
    <2>4. Registered' = Registered \cup new /\ ret' = FALSE
      <3>1. ret' = FALSE
        BY <1>3 DEF AddHandler
      <3> HIDE DEF new
      <3> QED
        BY <2>2, <2>3, <3>1
    <2>5. Registry!Under(t, n, h.uuid) = {} <=> ~HasHandler(t, n, h.uuid)
      <3>1. ASSUME HasHandler(t, n, h.uuid)
            PROVE  Reg(t, n, data[t][n][h.uuid]) \in Registry!Under(t, n, h.uuid)
        <4> DEFINE g == data[t][n][h.uuid]
        <4>1. Has(t, n, g) /\ g.uuid = h.uuid
          BY <3>1, HeldIsFound
        <4> HIDE DEF g
        <4>2. Reg(t, n, g) \in Registry!Under(t, n, h.uuid)
          BY <1>1, <4>1 DEF Registry!Under
        <4> QED
          BY <4>2 DEF g
      <3>2. ASSUME NEW r \in Registry!Under(t, n, h.uuid)
            PROVE  HasHandler(t, n, h.uuid)
        <4>1. r \in Registered /\ r.topic = t /\ r.node = n
              /\ r.handler.uuid = h.uuid
          BY DEF Registry!Under
        <4>2. Has(r.topic, r.node, r.handler)
          BY <4>1 DEF FoundIsRegistered
        <4> QED
          BY <4>1, <4>2, OneForUuid
      <3> QED
        BY <3>1, <3>2
    <2>6. Reg(t, n, h) \in Registry!Registration
      BY DEF Registry!Registration, Registry!Handler, Handler, Reg
    <2>7. /\ Reg(t, n, h).topic = t /\ Reg(t, n, h).node = n
          /\ Reg(t, n, h).handler = h
      BY <1>1
    <2> DEFINE r == Reg(t, n, h)
    <2>8. Registered' = IF Registry!Under(t, n, h.uuid) = {}
                        THEN Registered \cup {r} ELSE Registered
      BY <2>4, <2>5
    <2> HIDE DEF r, new
    <2>9. Registry!Add(r)
      BY <2>4, <2>7, <2>8 DEF Registry!Add, r
    <2> QED
      BY <2>6, <2>9 DEF Registry!RegistrationsNext, r
  <1>4. ASSUME NEW t \in Topics, NEW n \in Nodes, NEW u \in Uuids,
               RemoveHandler(t, n, u)
        PROVE  Registry!RegistrationsNext
    <2>1. \A x, y, g : Has(x, y, g)' <=>
              Has(x, y, g) /\ ~(x = t /\ y = n /\ g.uuid = u)
      BY <1>4, RemoveEffect
    <2>2. ASSUME NEW r \in Registered'
          PROVE  r \in Registered \ Registry!Under(t, n, u)
      <3>1. r = Reg(r.topic, r.node, r.handler)
        BY <1>0
      <3>2. Has(r.topic, r.node, r.handler)'
        BY <1>1, <3>1
      <3> QED
        BY <1>1, <2>1, <3>1, <3>2 DEF Registry!Under
    <2>3. ASSUME NEW r \in Registered \ Registry!Under(t, n, u)
          PROVE  r \in Registered'
      <3>1. r = Reg(r.topic, r.node, r.handler)
        BY <1>0
      <3>2. Has(r.topic, r.node, r.handler)
        BY DEF FoundIsRegistered
      <3>3. ~(r.topic = t /\ r.node = n /\ r.handler.uuid = u)
        BY DEF Registry!Under
      <3>4. Has(r.topic, r.node, r.handler)'
        BY <2>1, <3>2, <3>3
      <3> QED
        BY <1>1, <3>1, <3>4
    <2>4. Registered' = Registered \ Registry!Under(t, n, u)
      BY <2>2, <2>3
    <2> QED
      BY <2>4 DEF Registry!RegistrationsNext
  <1>5. ASSUME NEW t \in Topics, NEW n \in Nodes, RemoveHandlersForNode(t, n)
        PROVE  Registry!RegistrationsNext
    <2> DEFINE gone == {r \in Registered : r.topic = t /\ r.node = n}
    <2>1. /\ \A x, y, g : Has(x, y, g)' <=>
                 Has(x, y, g) /\ ~(x = t /\ y = n)
          /\ ret' \in BOOLEAN
          /\ ret' <=> HasHandlersForNode(t, n)
      BY <1>5, RemoveNodeEffect
    <2>2. ASSUME NEW r \in Registered'
          PROVE  r \in Registered \ gone
      <3>1. r = Reg(r.topic, r.node, r.handler)
        BY <1>0
      <3>2. Has(r.topic, r.node, r.handler)'
        BY <1>1, <3>1
      <3> QED
        BY <1>1, <2>1, <3>1, <3>2
    <2>3. ASSUME NEW r \in Registered \ gone
          PROVE  r \in Registered'
      <3>1. r = Reg(r.topic, r.node, r.handler)
        BY <1>0
      <3>2. Has(r.topic, r.node, r.handler)
        BY DEF FoundIsRegistered
      <3>3. Has(r.topic, r.node, r.handler)'
        BY <2>1, <2>3, <3>2
      <3> QED
        BY <1>1, <3>1, <3>3
    <2>4. Registered' = Registered \ gone
      BY <2>2, <2>3
    <2>5. HasHandlersForNode(t, n) <=> gone # {}
      <3>1. ASSUME HasHandlersForNode(t, n)
            PROVE  gone # {}
        <4>1. DOMAIN data[t][n] # {}
          BY <3>1 DEF HasHandlersForNode, Inv, NoEmptyMap
        <4>2. PICK u : HasHandler(t, n, u)
          BY <3>1, <4>1 DEF HasHandler
        <4>3. Reg(t, n, data[t][n][u]) \in gone
          BY <1>1, <4>2, HeldIsFound
        <4> QED
          BY <4>3
      <3>2. ASSUME NEW r \in gone
            PROVE  HasHandlersForNode(t, n)
        <4>1. Has(r.topic, r.node, r.handler) /\ r.topic = t /\ r.node = n
          BY DEF FoundIsRegistered
        <4> QED
          BY <4>1 DEF Has, HasHandler
      <3> QED
        BY <3>1, <3>2
    <2>6. ret' = (gone # {})
      BY <2>1, <2>5
    <2>7. Registry!RemoveNode(t, n)
      BY <2>4, <2>6 DEF Registry!RemoveNode
    <2> QED
      BY <2>7 DEF Registry!RegistrationsNext
  <1> QED
    BY <1>2, <1>3, <1>4, <1>5 DEF Next

\* The nested maps implement the set of registrations of HandlerRegistry: adding
\* a handler of a node keeps the node's others and the one of the same UUID,
\* removing one keeps all others, and RemoveHandlersForNode answers as
\* documented.
THEOREM ImplementsRegistrations == Spec => RefinesRegistrations
  <1>1. Init => Registry!Init
    BY DEF Init, Registry!Init, Registered, EmptyMap
  <1>2. Inv => FoundIsRegistered
    BY RegisteredIs
  <1>3. Inv /\ FoundIsRegistered /\ FoundIsRegistered' /\ [Next]_vars
            => [Registry!RegistrationsNext]_<<Registered, ret>>
    BY RegistryStep
  <1> QED
    BY <1>1, <1>2, <1>3, InvAlways, PTL
    DEF Spec, RefinesRegistrations, Registry!RegistrationsSpec

=============================================================================

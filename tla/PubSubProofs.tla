---------------------------- MODULE PubSubProofs ----------------------------
(***************************************************************************)
(* Theorems about PubSub, for any processes, nodes, topics, scopes and     *)
(* bounds, and whatever may go wrong.                                      *)
(***************************************************************************)
EXTENDS PubSub, FiniteSetTheorems, TLAPS

Entries == {x.entry : x \in Offers}

---------------------------------------------------------------------------
\* The state the properties rest on.

\* A process knows, and takes back, offers really made; there are finitely many,
\* by offering nodes, and their address is that of the process.
KnownOffered ==
    /\ IsFiniteSet(offered)
    /\ \A x \in offered : x.entry.addr = x.entry.proc /\ x.entry.node \in Offerers
    /\ withdrawn \subseteq offered
    /\ \A p \in Procs : known[p] \subseteq offered

\* Subscribing nodes subscribe in their own process and are registered; what ends
\* a registration names no process.
OwnSubscribers ==
    \A p \in Procs :
        /\ \A s \in subs[p] : s[2] \in Subscribers /\ OwnerOf[s[2]] = p
        /\ \A c \in ctrl[p] : IF c.type = "NewConnection" THEN c.node \in Subscribers
                              ELSE c.proc \notin Procs
        /\ \A r \in remoteSubs[p] : r.node \in Subscribers

\* A process connects to other processes only.
RemoteConnections ==
    \A p \in Procs :
        /\ links[p][p] = 0
        /\ \A e \in connections[p] : e.addr = e.proc /\ e.proc # p

---------------------------------------------------------------------------
\* What the discovery service does to its tables.

\* An offer of a node is an offer at the address of its process (Advertise).
LEMMA OfferType ==
    ASSUME NEW t \in Topics, NEW n \in Nodes, NEW s \in Scopes
    PROVE  LET x == Offer(t, n, s)
           IN  /\ x \in Offers
               /\ x.entry.proc = OwnerOf[n] /\ x.entry.addr = OwnerOf[n]
               /\ x.entry.node = n
  BY PubSubAssumption DEF Offer, Offers

\* The fields of an offer.
LEMMA OfferFields ==
    ASSUME NEW x \in Offers
    PROVE  /\ x.entry.proc \in Procs /\ x.entry.topic \in Topics
           /\ x.entry.node \in Nodes /\ x.kind = "msg"
           /\ x.entry \in Entries
  BY DEF Offers, Entries

\* The fields of an entry.
LEMMA EntryFields ==
    ASSUME NEW e \in Entries
    PROVE  e.proc \in Procs /\ e.topic \in Topics /\ e.node \in Nodes
  BY OfferFields DEF Entries

\* Advertising adds the offer to those made, and at most to those the process
\* itself knows.
LEMMA OfferEffect ==
    ASSUME known \in [Procs -> SUBSET Offers], NEW x \in Offers, Dir!Offer(x)
    PROVE  /\ offered' = offered \cup {x}
           /\ known' \in [Procs -> SUBSET Offers]
           /\ \A p \in Procs : known[p] \subseteq known'[p]
           /\ \A p \in Procs : \A y \in known'[p] :
                 y \in known[p] \/ (y = x /\ p = x.entry.proc)
  <1>1. x.entry.proc \in Procs
    BY OfferFields
  <1> QED
    BY <1>1 DEF Dir!Offer, Dir!Owner

\* A process that learns an offer of another process knows it besides the rest.
LEMMA LearnEffect ==
    ASSUME known \in [Procs -> SUBSET Offers], offered \subseteq Offers,
           NEW p \in Procs, NEW x \in offered, Dir!Learn(p, x)
    PROVE  /\ offered' = offered /\ x.entry.proc # p
           /\ known' \in [Procs -> SUBSET Offers]
           /\ \A q \in Procs : known'[q] = IF q = p THEN known[p] \cup {x}
                                           ELSE known[q]
  BY DEF Dir!Learn, Dir!Owner

\* A process that forgets offers knows the others still.
LEMMA ForgetEffect ==
    ASSUME known \in [Procs -> SUBSET Offers], NEW p \in Procs, NEW S,
           Dir!Forget(p, S)
    PROVE  /\ offered' = offered
           /\ known' \in [Procs -> SUBSET Offers]
           /\ \A q \in Procs : known'[q] = IF q = p THEN known[p] \ S ELSE known[q]
  BY DEF Dir!Forget

\* The same for one that takes back an offer.
LEMMA WithdrawEffect ==
    ASSUME known \in [Procs -> SUBSET Offers], NEW x \in Offers, Dir!Withdraw(x)
    PROVE  /\ offered' = offered /\ x \in known[x.entry.proc]
           /\ known' \in [Procs -> SUBSET Offers]
           /\ \A q \in Procs : known'[q] = IF q = x.entry.proc THEN known[q] \ {x}
                                           ELSE known[q]
  <1>1. x.entry.proc \in Procs
    BY OfferFields
  <1> QED
    BY <1>1 DEF Dir!Withdraw, Dir!Owner

\* The remote offers of a topic: finitely many entries, at the addresses of
\* other processes.
LEMMA RemoteOffers ==
    ASSUME TypeOK, KnownOffered, NEW p \in Procs, NEW t \in Topics
    PROVE  /\ KnownRemote(p, t) \in SUBSET Entries
           /\ IsFiniteSet(KnownRemote(p, t))
           /\ \A e \in KnownRemote(p, t) : e.addr = e.proc /\ e.proc # p /\ e.topic = t
  <1> DEFINE K == known[p]
             T == {x.entry : x \in K}
             f == [x \in K |-> x.entry]
  <1>1. K \subseteq Offers /\ \A x \in K : x.entry.addr = x.entry.proc
    BY DEF TypeOK, KnownOffered
  <1>2. IsFiniteSet(K)
    BY FS_Subset DEF KnownOffered
  <1>3. IsFiniteSet(T)
    <2>1. f \in Surjection(K, T)
      <3>1. f \in [K -> T]
        OBVIOUS
      <3>2. \A e \in T : \E x \in K : f[x] = e
        OBVIOUS
      <3> QED
        BY <3>1, <3>2 DEF Surjection
    <2> HIDE DEF f, T, K
    <2> QED
      BY <1>2, <2>1, FS_Surjection
  <1>4. KnownRemote(p, t) \in SUBSET T
    BY DEF KnownRemote
  <1>5. IsFiniteSet(KnownRemote(p, t))
    <2> HIDE DEF T
    <2> QED
      BY <1>3, <1>4, FS_Subset
  <1>6. T \subseteq Entries /\ \A e \in T : e.addr = e.proc
    BY <1>1, OfferFields
  <1> QED
    BY <1>4, <1>5, <1>6 DEF KnownRemote

---------------------------------------------------------------------------
\* Control messages and connections.

\* SendControl puts some of the messages into control sockets, and all of them
\* where nothing is lost.
LEMMA SendEffect ==
    ASSUME NEW qs \in SUBSET Procs, NEW ms, SendControl(qs, ms)
    PROVE  /\ ctrl' = [q \in Procs |-> ctrl'[q]]
           /\ \A q \in Procs : /\ ctrl[q] \subseteq ctrl'[q]
                               /\ ctrl'[q] \subseteq ctrl[q] \cup ms
           /\ "control" \notin Faults =>
                 \A q \in qs : Up(q) => ms \subseteq ctrl'[q]
  <1> DEFINE G == [{q \in qs : Up(q)} ->
                      IF "control" \in Faults THEN SUBSET ms ELSE {ms}]
  <1>1. PICK got \in G :
           ctrl' = [q \in Procs |-> IF q \in DOMAIN got THEN ctrl[q] \cup got[q]
                                    ELSE ctrl[q]]
    BY DEF SendControl
  <1>2. DOMAIN got = {q \in qs : Up(q)} /\ \A q \in DOMAIN got : got[q] \subseteq ms
    OBVIOUS
  <1>3. "control" \notin Faults => \A q \in DOMAIN got : got[q] = ms
    OBVIOUS
  <1> HIDE DEF G
  <1> QED
    BY <1>1, <1>2, <1>3

\* What ConnectTo does to the tables, entry by entry.
LEMMA ConnectEffect ==
    ASSUME TypeOK, NEW p \in Procs, NEW t \in Topics, NEW S, NEW E \in SUBSET Entries,
           IsFiniteSet(E), ConnectTo(p, S, t, E)
    PROVE  /\ connections' \in [Procs -> SUBSET Entries]
           /\ links' \in [Procs -> [Procs -> Nat]]
           /\ filters' \in [Procs -> [Topics -> 0..MaxFilters]]
           /\ \A q \in Procs : connections'[q] =
                 IF q = p THEN connections[p] \cup
                                  {e \in E : ~HasEntry(connections[p], e)}
                 ELSE connections[q]
           /\ \A q, r \in Procs : links'[q][r] =
                 IF q = p /\ ~HasAddress(connections[p], r) /\ \E e \in E : e.proc = r
                 THEN links[q][r] + 1 ELSE links[q][r]
           /\ \A q \in Procs, u \in Topics : filters'[q][u] =
                 IF q = p /\ u = t THEN filters[p][t] + Cardinality(E)
                 ELSE filters[q][u]
  <1> USE PubSubAssumption
  <1>1. Cardinality(E) \in Nat
    BY FS_CardinalityType
  <1>2. /\ connections \in [Procs -> SUBSET Entries]
        /\ links \in [Procs -> [Procs -> Nat]]
        /\ filters \in [Procs -> [Topics -> 0..MaxFilters]]
    BY DEF TypeOK, Entries
  <1>3. /\ connections' \in [Procs -> SUBSET Entries]
        /\ \A q \in Procs : connections'[q] =
              IF q = p THEN connections[p] \cup
                               {e \in E : ~HasEntry(connections[p], e)}
              ELSE connections[q]
    BY <1>2 DEF ConnectTo
  <1>4. /\ links' \in [Procs -> [Procs -> Nat]]
        /\ \A q, r \in Procs : links'[q][r] =
              IF q = p /\ ~HasAddress(connections[p], r) /\ \E e \in E : e.proc = r
              THEN links[q][r] + 1 ELSE links[q][r]
    <2> DEFINE row == [q \in Procs |->
                          IF q \in {e.proc : e \in E} /\ ~HasAddress(connections[p], q)
                          THEN links[p][q] + 1 ELSE links[p][q]]
    <2>1. links' = [links EXCEPT ![p] = row]
      BY DEF ConnectTo
    <2>2. /\ row \in [Procs -> Nat]
          /\ \A r \in Procs : row[r] =
                IF ~HasAddress(connections[p], r) /\ \E e \in E : e.proc = r
                THEN links[p][r] + 1 ELSE links[p][r]
      BY <1>2
    <2> HIDE DEF row
    <2> QED
      BY <1>2, <2>1, <2>2
  <1>5. /\ filters' \in [Procs -> [Topics -> 0..MaxFilters]]
        /\ \A q \in Procs, u \in Topics : filters'[q][u] =
              IF q = p /\ u = t THEN filters[p][t] + Cardinality(E)
              ELSE filters[q][u]
    <2> DEFINE v == filters[p][t] + Cardinality(E)
               row == [filters[p] EXCEPT ![t] = v]
    <2>1. filters' = [filters EXCEPT ![p] = row] /\ v <= MaxFilters
      BY DEF ConnectTo
    <2>2. v \in 0..MaxFilters
      BY <1>1, <1>2, <2>1
    <2> HIDE DEF v
    <2>3. row \in [Topics -> 0..MaxFilters] /\ \A u \in Topics : row[u] =
             IF u = t THEN v ELSE filters[p][u]
      BY <1>2, <2>2
    <2> HIDE DEF row
    <2>4. /\ filters' \in [Procs -> [Topics -> 0..MaxFilters]]
          /\ \A q \in Procs, u \in Topics : filters'[q][u] =
                IF q = p /\ u = t THEN v ELSE filters[q][u]
      BY <1>2, <2>1, <2>3
    <2> QED
      BY <2>4 DEF v
  <1> QED
    BY <1>3, <1>4, <1>5

\* OnNewConnection connects to those offers that do not throw, and remembers the
\* others.
LEMMA NewConnectionAttempt ==
    ASSUME TypeOK, NEW p \in Procs, NEW t \in Topics, NEW S, NEW E \in SUBSET Entries,
           OnNewConnection(p, S, t, E)
    PROVE  \E F \in SUBSET Entries :
              /\ F \subseteq E /\ ConnectTo(p, S, t, F)
              /\ E \ refused'[p] \subseteq F
              /\ refused' \in [Procs -> SUBSET Entries]
              /\ \A q \in Procs : refused[q] \subseteq
                                      IF q = p THEN refused'[q] \cup E ELSE refused'[q]
  <1>1. PICK F \in IF "connect" \in Faults THEN SUBSET E ELSE {E} :
           ConnectTo(p, S, t, F) /\ refused' = [refused EXCEPT ![p] = (@ \cup E) \ F]
    BY DEF OnNewConnection
  <1>2. F \in SUBSET Entries /\ F \subseteq E
    OBVIOUS
  <1>3. refused \in [Procs -> SUBSET Entries]
    BY DEF TypeOK, Entries
  <1> QED
    BY <1>1, <1>2, <1>3

\* The registrations OnNewConnection sends.
Registrations(p, S, t) ==
    {[type |-> "NewConnection", topic |-> t, proc |-> p, node |-> s[2]] :
        s \in {r \in S : r[1] = t}}

\* What OnNewConnection does to the control sockets.
LEMMA NewConnectionControl ==
    ASSUME TypeOK, NEW p \in Procs, NEW t \in Topics, NEW S, NEW E \in SUBSET Entries,
           OnNewConnection(p, S, t, E)
    PROVE  /\ ctrl' = [q \in Procs |-> ctrl'[q]]
           /\ \A q \in Procs :
                 /\ ctrl[q] \subseteq ctrl'[q]
                 /\ ctrl'[q] \subseteq ctrl[q] \cup Registrations(p, S, t)
           /\ "control" \notin Faults =>
                 \A e \in E \ refused'[p] :
                    Up(e.proc) => Registrations(p, S, t) \subseteq ctrl'[e.proc]
  <1>1. PICK F \in SUBSET Entries : ConnectTo(p, S, t, F) /\ E \ refused'[p] \subseteq F
    BY NewConnectionAttempt
  <1>2. {e.proc : e \in F} \in SUBSET Procs
    BY EntryFields
  <1>3. SendControl({e.proc : e \in F}, Registrations(p, S, t))
    BY <1>1 DEF ConnectTo, Registrations
  <1>4. \A e \in F : e.proc \in {f.proc : f \in F}
    OBVIOUS
  <1> DEFINE qs == {e.proc : e \in F}
             ms == Registrations(p, S, t)
  <1> HIDE DEF qs, ms
  <1>5. /\ ctrl' = [q \in Procs |-> ctrl'[q]]
        /\ \A q \in Procs : /\ ctrl[q] \subseteq ctrl'[q]
                            /\ ctrl'[q] \subseteq ctrl[q] \cup ms
        /\ "control" \notin Faults =>
              \A q \in qs : Up(q) => ms \subseteq ctrl'[q]
    BY <1>2, <1>3, SendEffect DEF qs, ms
  <1> QED
    BY <1>1, <1>4, <1>5 DEF qs, ms

\* The registrations are control messages, under the UUID of their process.
LEMMA RegistrationType ==
    ASSUME NEW p \in Procs, NEW t \in Topics, NEW S \in SUBSET (Topics \X Nodes)
    PROVE  Registrations(p, S, t) \subseteq Control
  BY DEF Registrations, Control, Senders

\* OnNewConnection keeps the types.
LEMMA NewConnectionTypes ==
    ASSUME TypeOK, NEW p \in Procs, NEW t \in Topics, NEW S \in SUBSET (Topics \X Nodes),
           NEW E \in SUBSET Entries, IsFiniteSet(E), OnNewConnection(p, S, t, E)
    PROVE  /\ connections' \in [Procs -> SUBSET Entries]
           /\ links' \in [Procs -> [Procs -> Nat]]
           /\ filters' \in [Procs -> [Topics -> 0..MaxFilters]]
           /\ refused' \in [Procs -> SUBSET Entries]
           /\ ctrl' \in [Procs -> SUBSET Control]
  <1>1. PICK F \in SUBSET Entries : /\ F \subseteq E /\ ConnectTo(p, S, t, F)
                                    /\ refused' \in [Procs -> SUBSET Entries]
    BY NewConnectionAttempt
  <1>2. IsFiniteSet(F)
    BY <1>1, FS_Subset
  <1>3. /\ connections' \in [Procs -> SUBSET Entries]
        /\ links' \in [Procs -> [Procs -> Nat]]
        /\ filters' \in [Procs -> [Topics -> 0..MaxFilters]]
    BY <1>1, <1>2, ConnectEffect
  <1>4. ctrl' \in [Procs -> SUBSET Control]
    <2>1. Registrations(p, S, t) \subseteq Control
      BY RegistrationType
    <2>2. /\ ctrl' = [q \in Procs |-> ctrl'[q]]
          /\ \A q \in Procs : ctrl'[q] \subseteq ctrl[q] \cup Registrations(p, S, t)
      BY NewConnectionControl
    <2>3. \A q \in Procs : ctrl[q] \subseteq Control
      BY DEF TypeOK
    <2> QED
      BY <2>1, <2>2, <2>3
  <1> QED
    BY <1>1, <1>3, <1>4

---------------------------------------------------------------------------
\* Types.

\* A table keeps its type when one process changes its part of it.
LEMMA Update ==
    ASSUME NEW A, NEW B, NEW f \in [A -> B], NEW a \in A, NEW b \in B
    PROVE  [f EXCEPT ![a] = b] \in [A -> B]
  OBVIOUS

\* A process that ends leaves nothing behind.
LEMMA VanishEffect ==
    ASSUME TypeOK, NEW p \in Procs, Vanish(p)
    PROVE  /\ UNCHANGED <<offered, withdrawn>>
           /\ known' = [known EXCEPT ![p] = {}]
           /\ status' = [status EXCEPT ![p] = "down"]
           /\ TypeOK'
  <1> USE PubSubAssumption
  <1>1. /\ UNCHANGED <<offered, withdrawn>>
        /\ known' = [known EXCEPT ![p] = {}]
        /\ status' = [status EXCEPT ![p] = "down"]
    BY DEF Vanish, Dir!End
  <1>2. /\ status' \in [Procs -> {"up", "down"}]
        /\ known' \in [Procs -> SUBSET Offers]
    BY <1>1 DEF TypeOK
  <1>3. /\ subs' \in [Procs -> SUBSET (Topics \X Nodes)]
        /\ connections' \in [Procs -> SUBSET {x.entry : x \in Offers}]
        /\ remoteSubs' \in [Procs -> SUBSET RemoteSub]
        /\ ctrl' \in [Procs -> SUBSET Control]
        /\ refused' \in [Procs -> SUBSET {x.entry : x \in Offers}]
    BY DEF Vanish, TypeOK
  <1>4. /\ links' \in [Procs -> [Procs -> Nat]]
        /\ filters' \in [Procs -> [Topics -> 0..MaxFilters]]
    BY DEF Vanish, TypeOK
  <1> QED
    BY <1>1, <1>2, <1>3, <1>4 DEF TypeOK

\* Every step keeps the types, and what is known among the finitely many offers
\* made.
LEMMA TypeStep ==
    ASSUME TypeOK, KnownOffered, [Next]_vars
    PROVE  TypeOK' /\ KnownOffered'
  <1> USE PubSubAssumption
  <1>0. known \in [Procs -> SUBSET Offers] /\ offered \subseteq Offers
    BY DEF TypeOK
  <1>1. ASSUME NEW t \in Topics, NEW n \in Offerers, NEW s \in Scopes,
               Advertise(OwnerOf[n], Offer(t, n, s))
        PROVE  TypeOK' /\ KnownOffered'
    <2> DEFINE x == Offer(t, n, s)
    <2>1. /\ x \in Offers /\ x.entry.addr = x.entry.proc /\ x.entry.node \in Offerers
      BY OfferType
    <2> HIDE DEF x
    <2>2. Dir!Offer(x) /\ UNCHANGED <<status, withdrawn, subs, connections, links,
                                      filters, remoteSubs, ctrl, refused>>
      BY <1>1 DEF Advertise, x
    <2>3. /\ offered' = offered \cup {x}
          /\ known' \in [Procs -> SUBSET Offers]
          /\ \A p \in Procs : \A y \in known'[p] : y \in known[p] \/ y = x
      BY <1>0, <2>1, <2>2, OfferEffect
    <2>4. IsFiniteSet(offered')
      BY <2>3, FS_AddElement DEF KnownOffered
    <2>5. KnownOffered'
      BY <2>1, <2>2, <2>3, <2>4 DEF KnownOffered
    <2> QED
      BY <2>1, <2>2, <2>3, <2>5 DEF TypeOK
  <1>2. ASSUME NEW p \in Procs, NEW x \in known[p], Unadvertise(p, x)
        PROVE  TypeOK' /\ KnownOffered'
    <2>1. x \in Offers /\ x \in offered
      BY DEF TypeOK, KnownOffered
    <2>2. /\ offered' = offered /\ known' \in [Procs -> SUBSET Offers]
          /\ \A q \in Procs : known'[q] \subseteq known[q]
      BY <1>0, <1>2, <2>1, WithdrawEffect DEF Unadvertise
    <2> QED
      BY <1>2, <2>1, <2>2 DEF TypeOK, KnownOffered, Unadvertise
  <1>3. ASSUME NEW p \in Procs, NEW t \in Topics, NEW n \in Subscribers,
               Subscribe(p, t, n)
        PROVE  TypeOK' /\ KnownOffered'
    <2> DEFINE S == subs'[p]
               E == KnownRemote(p, t)
    <2>1. /\ E \in SUBSET Entries /\ IsFiniteSet(E)
      BY RemoteOffers
    <2>2. subs' \in [Procs -> SUBSET (Topics \X Nodes)]
      <3>1. subs[p] \cup {<<t, n>>} \in SUBSET (Topics \X Nodes)
        BY DEF TypeOK
      <3> QED
        BY <1>3, <3>1 DEF Subscribe, TypeOK
    <2>3. OnNewConnection(p, S, t, E)
      BY <1>3 DEF Subscribe
    <2>4. S \in SUBSET (Topics \X Nodes)
      BY <2>2
    <2> HIDE DEF S, E
    <2>5. /\ connections' \in [Procs -> SUBSET Entries]
          /\ links' \in [Procs -> [Procs -> Nat]]
          /\ filters' \in [Procs -> [Topics -> 0..MaxFilters]]
          /\ refused' \in [Procs -> SUBSET Entries]
          /\ ctrl' \in [Procs -> SUBSET Control]
      BY <2>1, <2>3, <2>4, NewConnectionTypes
    <2> QED
      BY <1>3, <2>2, <2>5 DEF Subscribe, TypeOK, KnownOffered, Entries
  <1>4. ASSUME NEW p \in Procs, NEW t \in Topics, NEW n \in Subscribers,
               Unsubscribe(p, t, n)
        PROVE  TypeOK' /\ KnownOffered'
    <2> DEFINE ms == {[type |-> "EndConnection", topic |-> t,
                       proc |-> Endpoint(p), node |-> n]}
               qs == {e.proc : e \in KnownRemote(p, t)}
    <2>1. subs' \in [Procs -> SUBSET (Topics \X Nodes)]
      BY <1>4 DEF Unsubscribe, TypeOK
    <2>2. filters' \in [Procs -> [Topics -> 0..MaxFilters]]
      <3> DEFINE v == IF filters[p][t] > 0 THEN filters[p][t] - 1 ELSE 0
      <3>1. filters \in [Procs -> [Topics -> 0..MaxFilters]]
        BY DEF TypeOK
      <3>2. filters' = filters \/ filters' = [filters EXCEPT ![p][t] = v]
        BY <1>4 DEF Unsubscribe
      <3>3. v \in 0..MaxFilters
        BY <3>1
      <3> HIDE DEF v
      <3>4. [filters[p] EXCEPT ![t] = v] \in [Topics -> 0..MaxFilters]
        BY <3>1, <3>3
      <3> QED
        BY <3>1, <3>2, <3>4
    <2>3. ctrl' \in [Procs -> SUBSET Control]
      <3>1. qs \in SUBSET Procs
        BY RemoteOffers, EntryFields
      <3>2. ms \subseteq Control
        BY DEF Control, Senders
      <3>3. SendControl(qs, ms)
        BY <1>4 DEF Unsubscribe
      <3> HIDE DEF ms, qs
      <3>4. /\ ctrl' = [q \in Procs |-> ctrl'[q]]
            /\ \A q \in Procs : ctrl'[q] \subseteq ctrl[q] \cup ms
        BY <3>1, <3>3, SendEffect
      <3>5. \A q \in Procs : ctrl[q] \subseteq Control
        BY DEF TypeOK
      <3> QED
        BY <3>2, <3>4, <3>5
    <2> QED
      BY <1>4, <2>1, <2>2, <2>3 DEF Unsubscribe, TypeOK, KnownOffered
  <1>5. ASSUME NEW p \in Procs, NEW x \in offered, Learn(p, x)
        PROVE  TypeOK' /\ KnownOffered'
    <2> DEFINE t == x.entry.topic
               S == subs[p]
               E == {x.entry}
    <2>1. /\ offered' = offered /\ known' \in [Procs -> SUBSET Offers]
          /\ \A q \in Procs : known'[q] \subseteq known[q] \cup {x}
      <3>1. Dir!Learn(p, x)
        BY <1>5 DEF Learn
      <3> QED
        BY <1>0, <3>1, LearnEffect
    <2>2. E \in SUBSET Entries /\ t \in Topics /\ IsFiniteSet(E)
      <3>1. x.entry \in Entries /\ t \in Topics
        BY <1>0, OfferFields
      <3>2. IsFiniteSet({x.entry})
        BY FS_Singleton
      <3> QED
        BY <3>1, <3>2
    <2>3. S \in SUBSET (Topics \X Nodes)
      BY DEF TypeOK
    <2>4. \/ OnNewConnection(p, S, t, E)
          \/ UNCHANGED <<connections, links, filters, ctrl, refused>>
      BY <1>5 DEF Learn
    <2> HIDE DEF t, S, E
    <2>5. /\ connections' \in [Procs -> SUBSET Entries]
          /\ links' \in [Procs -> [Procs -> Nat]]
          /\ filters' \in [Procs -> [Topics -> 0..MaxFilters]]
          /\ refused' \in [Procs -> SUBSET Entries]
          /\ ctrl' \in [Procs -> SUBSET Control]
      <3>1. CASE OnNewConnection(p, S, t, E)
        BY <2>2, <2>3, <3>1, NewConnectionTypes
      <3>2. CASE UNCHANGED <<connections, links, filters, ctrl, refused>>
        BY <3>2 DEF TypeOK, Entries
      <3> QED
        BY <2>4, <3>1, <3>2
    <2> QED
      BY <1>5, <2>1, <2>5 DEF Learn, TypeOK, KnownOffered, Entries
  <1>6. ASSUME NEW p \in Procs, NEW x \in withdrawn, OnUnadvertised(p, x)
        PROVE  TypeOK' /\ KnownOffered'
    <2>1. /\ offered' = offered /\ known' \in [Procs -> SUBSET Offers]
          /\ \A q \in Procs : known'[q] \subseteq known[q]
      BY <1>0, <1>6, ForgetEffect DEF OnUnadvertised
    <2>2. x.entry.proc \in Procs
      BY OfferFields DEF TypeOK
    <2>3. links' \in [Procs -> [Procs -> Nat]]
      <3>1. links \in [Procs -> [Procs -> Nat]]
        BY DEF TypeOK
      <3>2. \/ links' = links
            \/ /\ links[p][x.entry.proc] > 0
               /\ links' = [links EXCEPT ![p][x.entry.proc] = @ - 1]
        BY <1>6 DEF OnUnadvertised
      <3>3. links[p][x.entry.proc] > 0 => links[p][x.entry.proc] - 1 \in Nat
        BY <2>2, <3>1
      <3> DEFINE v == links[p][x.entry.proc] - 1
      <3> HIDE DEF v
      <3>4. v \in Nat => [links[p] EXCEPT ![x.entry.proc] = v] \in [Procs -> Nat]
        BY <2>2, <3>1
      <3>5. \/ links' = links
            \/ v \in Nat /\ links' = [links EXCEPT ![p][x.entry.proc] = v]
        BY <3>2, <3>3 DEF v
      <3> QED
        BY <3>1, <3>4, <3>5
    <2>4. connections' \in [Procs -> SUBSET {y.entry : y \in Offers}]
      BY <1>6 DEF OnUnadvertised, TypeOK
    <2>5. remoteSubs' \in [Procs -> SUBSET RemoteSub]
      BY <1>6 DEF OnUnadvertised, WithoutSubscriber, TypeOK
    <2> QED
      BY <1>6, <2>1, <2>3, <2>4, <2>5 DEF OnUnadvertised, TypeOK, KnownOffered
  <1>7. ASSUME NEW p \in Procs, Vanish(p) PROVE TypeOK' /\ KnownOffered'
    <2>1. \A q \in Procs : known'[q] \subseteq known[q]
      BY <1>0, <1>7, VanishEffect
    <2> QED
      BY <1>7, <2>1, VanishEffect DEF KnownOffered
  <1>8. ASSUME NEW p \in Procs, NEW q \in Procs, OnProcessLost(p, q)
        PROVE  TypeOK' /\ KnownOffered'
    <2>1. /\ offered' = offered /\ known' \in [Procs -> SUBSET Offers]
          /\ \A r \in Procs : known'[r] \subseteq known[r]
      BY <1>0, <1>8, ForgetEffect DEF OnProcessLost
    <2>2. remoteSubs' \in [Procs -> SUBSET RemoteSub]
      BY <1>8 DEF OnProcessLost, TypeOK
    <2> QED
      BY <1>8, <2>1, <2>2 DEF OnProcessLost, TypeOK, KnownOffered
  <1>9. ASSUME NEW p \in Procs, NEW c \in ctrl[p], RecvControlUpdate(p, c)
        PROVE  TypeOK' /\ KnownOffered'
    <2>1. c \in Control /\ remoteSubs \in [Procs -> SUBSET RemoteSub]
      BY DEF TypeOK
    <2>2. [topic |-> c.topic, proc |-> c.proc, node |-> c.node] \in RemoteSub
      BY <2>1 DEF Control, RemoteSub
    <2>3. remoteSubs' \in [Procs -> SUBSET RemoteSub]
      BY <1>9, <2>1, <2>2 DEF RecvControlUpdate, WithoutSubscriber
    <2>4. ctrl' \in [Procs -> SUBSET Control]
      BY <1>9 DEF RecvControlUpdate, TypeOK
    <2> QED
      BY <1>9, <2>3, <2>4 DEF RecvControlUpdate, TypeOK, KnownOffered
  <1>10. CASE UNCHANGED vars
    BY <1>10 DEF vars, TypeOK, KnownOffered
  <1> QED
    BY <1>1, <1>2, <1>3, <1>4, <1>5, <1>6, <1>7, <1>8, <1>9, <1>10
       DEF Next, End, OnUnadvertisedAborts

\* No process runs, knows or is connected to anything at the start.
LEMMA InitTypes == Init => TypeOK /\ KnownOffered
  BY PubSubAssumption, FS_EmptySet DEF Init, Dir!Init, TypeOK, KnownOffered

\* Every variable keeps its type: among other things no disconnection makes the
\* count of a socket's connections negative (OnUnadvertised).
THEOREM TypeCorrect == Spec => []TypeOK
  <1>1. TypeOK /\ KnownOffered /\ [Next]_vars => (TypeOK /\ KnownOffered)'
    BY TypeStep
  <1> QED
    BY <1>1, InitTypes, PTL DEF Spec

---------------------------------------------------------------------------
\* The socket's connections.

\* OnNewConnection connects only to what the connections do not name.
LEMMA NewConnectionLinks ==
    ASSUME TypeOK, NoDoubleConnect, RemoteConnections,
           NEW p \in Procs, NEW t \in Topics, NEW S, NEW E \in SUBSET Entries,
           IsFiniteSet(E), \A e \in E : e.addr = e.proc /\ e.proc # p,
           OnNewConnection(p, S, t, E)
    PROVE  NoDoubleConnect' /\ RemoteConnections'
  <1>1. PICK F \in SUBSET Entries : F \subseteq E /\ ConnectTo(p, S, t, F)
    BY NewConnectionAttempt
  <1>2. IsFiniteSet(F) /\ \A e \in F : e.addr = e.proc /\ e.proc # p
    BY <1>1, FS_Subset
  <1>3. \A q \in Procs : connections'[q] =
           IF q = p THEN connections[p] \cup
                            {e \in F : ~HasEntry(connections[p], e)}
           ELSE connections[q]
    BY <1>1 DEF ConnectTo, TypeOK
  <1>4. \A q, r \in Procs : links'[q][r] =
           IF q = p /\ ~HasAddress(connections[p], r) /\ \E e \in F : e.proc = r
           THEN links[q][r] + 1 ELSE links[q][r]
    BY <1>1, <1>2, ConnectEffect
  <1>5. \A q, r \in Procs : links[q][r] \in Nat
    BY DEF TypeOK
  <1>6. ASSUME NEW q \in Procs, NEW r \in Procs
        PROVE  links'[q][r] <= 1 /\ (links'[q][r] = 1 => HasAddress(connections'[q], r))
    <2>1. CASE links'[q][r] = links[q][r]
      <3>1. connections[q] \subseteq connections'[q]
        BY <1>3
      <3> QED
        BY <2>1, <3>1 DEF NoDoubleConnect, HasAddress
    <2>2. CASE q = p /\ ~HasAddress(connections[p], r) /\ \E e \in F : e.proc = r
      <3>1. PICK e \in F : e.proc = r
        BY <2>2
      <3>2. ~HasEntry(connections[p], e)
        BY <1>2, <2>2, <3>1 DEF HasEntry, HasAddress, SameAddress
      <3>3. HasAddress(connections'[p], r)
        BY <1>3, <1>2, <3>1, <3>2 DEF HasAddress
      <3>4. links[p][r] = 0
        BY <1>5, <2>2 DEF NoDoubleConnect
      <3> QED
        BY <1>4, <2>2, <3>3, <3>4
    <2> QED
      BY <1>4, <2>1, <2>2
  <1>7. RemoteConnections'
    <2>1. \A q \in Procs : links'[q][q] = 0
      BY <1>4, <1>2 DEF RemoteConnections
    <2>2. \A q \in Procs : \A e \in connections'[q] : e.addr = e.proc /\ e.proc # q
      BY <1>3, <1>2 DEF RemoteConnections
    <2> QED
      BY <2>1, <2>2 DEF RemoteConnections
  <1> QED
    BY <1>6, <1>7 DEF NoDoubleConnect

\* Every step keeps the socket and the table of connections together.
LEMMA LinkStep ==
    ASSUME TypeOK, KnownOffered, NoDoubleConnect, RemoteConnections, [Next]_vars
    PROVE  NoDoubleConnect' /\ RemoteConnections'
  <1>1. ASSUME UNCHANGED <<connections, links>>
        PROVE  NoDoubleConnect' /\ RemoteConnections'
    BY <1>1 DEF NoDoubleConnect, RemoteConnections
  <1>2. ASSUME NEW p \in Procs, NEW t \in Topics, NEW n \in Subscribers,
               Subscribe(p, t, n)
        PROVE  NoDoubleConnect' /\ RemoteConnections'
    <2> DEFINE S == subs'[p]
               E == KnownRemote(p, t)
    <2>1. /\ E \in SUBSET Entries /\ IsFiniteSet(E)
          /\ \A e \in E : e.addr = e.proc /\ e.proc # p
      BY RemoteOffers
    <2>2. OnNewConnection(p, S, t, E)
      BY <1>2 DEF Subscribe
    <2> HIDE DEF S, E
    <2> QED
      BY <2>1, <2>2, NewConnectionLinks
  <1>3. ASSUME NEW p \in Procs, NEW x \in offered, Learn(p, x)
        PROVE  NoDoubleConnect' /\ RemoteConnections'
    <2> DEFINE t == x.entry.topic
               S == subs[p]
               E == {x.entry}
    <2>1. x.entry \in Entries /\ t \in Topics /\ x.entry.addr = x.entry.proc
      BY OfferFields DEF TypeOK, KnownOffered
    <2>2. x.entry.proc # p
      BY <1>3 DEF Learn, Dir!Learn, Dir!Owner
    <2>3. IsFiniteSet({x.entry})
      BY FS_Singleton
    <2>4. /\ E \in SUBSET Entries /\ IsFiniteSet(E)
          /\ \A e \in E : e.addr = e.proc /\ e.proc # p
      BY <2>1, <2>2, <2>3
    <2>5. OnNewConnection(p, S, t, E) \/ UNCHANGED <<connections, links>>
      BY <1>3 DEF Learn
    <2> HIDE DEF t, S, E
    <2> QED
      BY <1>1, <2>1, <2>4, <2>5, NewConnectionLinks
  <1>4. ASSUME NEW p \in Procs, NEW x \in withdrawn, OnUnadvertised(p, x)
        PROVE  NoDoubleConnect' /\ RemoteConnections'
    <2> DEFINE q == x.entry.proc
    <2>1. q \in Procs
      BY OfferFields DEF TypeOK
    <2>2. /\ links \in [Procs -> [Procs -> Nat]]
          /\ connections \in [Procs -> SUBSET Entries]
      BY DEF TypeOK, Entries
    <2>3. /\ \A r \in Procs : connections'[r] =
                IF r = p THEN connections[p] \ ConnectionsTo(p, x) ELSE connections[r]
          /\ \A e \in ConnectionsTo(p, x) : e.proc = q
      BY <1>4, <2>2 DEF OnUnadvertised, ConnectionsTo, AddressesByNode
    <2>4. CASE ConnectionsTo(p, x) = {}
      BY <1>1, <1>4, <2>2, <2>3, <2>4 DEF OnUnadvertised
    <2>5. CASE ConnectionsTo(p, x) # {}
      <3>1. links' = [links EXCEPT ![p][q] = links[p][q] - 1]
        BY <1>4, <2>5 DEF OnUnadvertised
      <3>2. links[p][q] > 0
        BY <1>4, <2>5 DEF OnUnadvertised
      <3> HIDE DEF q
      <3>3. \A r, s \in Procs : links'[r][s] =
               IF r = p /\ s = q THEN links[p][q] - 1 ELSE links[r][s]
        BY <2>1, <2>2, <3>1
      <3>4. links'[p][q] = 0
        BY <2>1, <2>2, <3>2, <3>3 DEF NoDoubleConnect
      <3>5. \A r, s \in Procs : ~(r = p /\ s = q) =>
               (HasAddress(connections[r], s) => HasAddress(connections'[r], s))
        BY <2>3 DEF HasAddress, RemoteConnections
      <3>6. NoDoubleConnect'
        <4> SUFFICES ASSUME NEW r \in Procs, NEW s \in Procs
                     PROVE  /\ links'[r][s] <= 1
                            /\ links'[r][s] = 1 => HasAddress(connections'[r], s)
          BY DEF NoDoubleConnect
        <4>1. CASE r = p /\ s = q
          BY <3>4, <4>1
        <4>2. CASE ~(r = p /\ s = q)
          BY <3>3, <3>5, <4>2 DEF NoDoubleConnect
        <4> QED
          BY <4>1, <4>2
      <3>7. \A e \in connections[p] : e.proc # p
        BY DEF RemoteConnections
      <3>8. q # p
        BY <2>3, <2>5, <3>7 DEF ConnectionsTo, AddressesByNode
      <3>9. RemoteConnections'
        BY <2>3, <3>3, <3>8 DEF RemoteConnections
      <3> QED
        BY <3>6, <3>9
    <2> QED
      BY <2>4, <2>5
  <1>5. ASSUME NEW p \in Procs, Vanish(p) PROVE NoDoubleConnect' /\ RemoteConnections'
    <2>1. /\ \A q, r \in Procs : links'[q][r] = IF q = p THEN 0 ELSE links[q][r]
          /\ \A q \in Procs : connections'[q] = IF q = p THEN {} ELSE connections[q]
      BY <1>5 DEF Vanish, TypeOK
    <2> QED
      BY <2>1 DEF NoDoubleConnect, RemoteConnections
  <1>6. CASE UNCHANGED vars
    BY <1>1, <1>6 DEF vars
  <1> QED
    BY <1>1, <1>2, <1>3, <1>4, <1>5, <1>6
       DEF Next, End, OnUnadvertisedAborts, Advertise, Unadvertise, Unsubscribe,
           OnProcessLost, RecvControlUpdate

\* The SUB socket of a process never has two connections to one endpoint, and
\* has one only to an endpoint its connections name, whichever of Subscribe and
\* the discovery callback connects, disconnects and connects again.
THEOREM ConnectedOnce == Spec => []NoDoubleConnect
  <1>1. Init => NoDoubleConnect /\ RemoteConnections
    BY DEF Init, NoDoubleConnect, RemoteConnections
  <1>2. TypeOK /\ KnownOffered /\ NoDoubleConnect /\ RemoteConnections /\ [Next]_vars
           => (TypeOK /\ KnownOffered /\ NoDoubleConnect /\ RemoteConnections)'
    BY TypeStep, LinkStep
  <1> QED
    BY <1>1, <1>2, InitTypes, PTL DEF Spec

---------------------------------------------------------------------------
\* Interest and connections.

\* What InterestConnected says of one process and one topic.
Interested(p, t) ==
    HasHandlersForTopic(subs[p], t) /\ Reachable(p, t) # {} =>
        /\ \A e \in Reachable(p, t) : HasEntry(connections[p], e)
        /\ filters[p][t] > 0

\* OnNewConnection connects to every offer it is given but those refused, sets the
\* filter for each, and takes no connection and no filter away.
LEMMA NewConnectionConnects ==
    ASSUME TypeOK, NEW p \in Procs, NEW t \in Topics, NEW S, NEW E \in SUBSET Entries,
           IsFiniteSet(E), OnNewConnection(p, S, t, E)
    PROVE  /\ \A e \in E \ refused'[p] : HasEntry(connections'[p], e)
           /\ E \ refused'[p] # {} => filters'[p][t] > 0
           /\ \A q \in Procs : connections[q] \subseteq connections'[q]
           /\ \A q \in Procs, u \in Topics : filters[q][u] <= filters'[q][u]
           /\ \A q \in Procs : refused[q] \subseteq
                                   IF q = p THEN refused'[q] \cup E ELSE refused'[q]
  <1>1. PICK F \in SUBSET Entries :
           /\ F \subseteq E /\ ConnectTo(p, S, t, F) /\ E \ refused'[p] \subseteq F
           /\ \A q \in Procs : refused[q] \subseteq
                                   IF q = p THEN refused'[q] \cup E ELSE refused'[q]
    BY NewConnectionAttempt
  <1>2. IsFiniteSet(F)
    BY <1>1, FS_Subset
  <1>3. \A q \in Procs : connections'[q] =
           IF q = p THEN connections[p] \cup
                            {e \in F : ~HasEntry(connections[p], e)}
           ELSE connections[q]
    BY <1>1 DEF ConnectTo, TypeOK
  <1>4. \A e \in F : HasEntry(connections'[p], e)
    BY <1>3 DEF HasEntry, SameAddress
  <1>5. \A q \in Procs, u \in Topics : filters'[q][u] =
           IF q = p /\ u = t THEN filters[p][t] + Cardinality(F) ELSE filters[q][u]
    BY <1>1, <1>2, ConnectEffect
  <1>6. Cardinality(F) \in Nat /\ (F # {} => Cardinality(F) # 0)
    BY <1>2, FS_CardinalityType, FS_EmptySet
  <1>7. \A q \in Procs, u \in Topics : filters[q][u] \in Nat
    BY PubSubAssumption DEF TypeOK
  <1>8. \A q \in Procs, u \in Topics : filters[q][u] <= filters'[q][u]
    BY <1>5, <1>6, <1>7
  <1>9. F # {} => filters'[p][t] > 0
    BY <1>5, <1>6, <1>7
  <1> QED
    BY <1>1, <1>3, <1>4, <1>8, <1>9

\* Where handlers and remote offers only go, and connections and filters stay,
\* interest stays connected.
LEMMA InterestKept ==
    ASSUME TypeOK, TypeOK', NEW p \in Procs, NEW t \in Topics, Interested(p, t),
           HasHandlersForTopic(subs'[p], t) => HasHandlersForTopic(subs[p], t),
           \A x \in known'[p] : x \in known[p] \/ x.entry.proc = p,
           \A e \in connections[p] : e \in connections'[p] \/
              \A y \in known'[p] : y.entry.topic = t => ~SameAddress(y.entry, e),
           \A e \in refused[p] : e \in refused'[p] \/ e.topic # t,
           HasHandlersForTopic(subs'[p], t) => filters[p][t] <= filters'[p][t]
    PROVE  Interested(p, t)'
  <1>1. SUFFICES ASSUME HasHandlersForTopic(subs'[p], t), Reachable(p, t)' # {}
                 PROVE  /\ \A e \in Reachable(p, t)' : HasEntry(connections'[p], e)
                        /\ filters'[p][t] > 0
    BY DEF Interested
  <1>2. Reachable(p, t)' \subseteq Reachable(p, t)
    BY DEF KnownRemote, Reachable
  <1>3. /\ \A e \in Reachable(p, t)' : HasEntry(connections[p], e)
        /\ filters[p][t] > 0
    BY <1>1, <1>2 DEF Interested
  <1>4. ASSUME NEW e \in Reachable(p, t)' PROVE HasEntry(connections'[p], e)
    <2>1. PICK y \in known'[p] : y.entry = e /\ e.topic = t
      BY <1>4 DEF KnownRemote, Reachable
    <2>2. PICK f \in connections[p] : SameAddress(e, f)
      BY <1>3, <1>4 DEF HasEntry
    <2>3. f \in connections'[p]
      BY <2>1, <2>2
    <2> QED
      BY <2>2, <2>3 DEF HasEntry
  <1>5. filters[p][t] \in Nat /\ filters'[p][t] \in Nat
    BY PubSubAssumption DEF TypeOK
  <1>6. filters'[p][t] > 0
    BY <1>1, <1>3, <1>5
  <1> QED
    BY <1>4, <1>6

\* Every step keeps interest connected.
LEMMA InterestStep ==
    ASSUME TypeOK, TypeOK', KnownOffered, InterestConnected, [Next]_vars
    PROVE  InterestConnected'
  <1> USE PubSubAssumption
  <1>0. /\ known \in [Procs -> SUBSET Offers] /\ offered \subseteq Offers
        /\ \A p \in Procs, t \in Topics : Interested(p, t)
        /\ \A p \in Procs, t \in Topics : filters[p][t] \in Nat
    BY DEF TypeOK, InterestConnected, Interested
  <1> SUFFICES ASSUME NEW q \in Procs, NEW u \in Topics PROVE Interested(q, u)'
    BY DEF InterestConnected, Interested
  <1>1. ASSUME \A x \in known'[q] : x \in known[q] \/ x.entry.proc = q,
               UNCHANGED <<subs, connections, filters, refused>>
        PROVE  Interested(q, u)'
    BY <1>0, <1>1, InterestKept
  <1>2. ASSUME NEW t \in Topics, NEW n \in Offerers, NEW s \in Scopes,
               Advertise(OwnerOf[n], Offer(t, n, s))
        PROVE  Interested(q, u)'
    <2> DEFINE x == Offer(t, n, s)
    <2>1. x \in Offers
      BY OfferType
    <2> HIDE DEF x
    <2>2. Dir!Offer(x) /\ UNCHANGED <<subs, connections, filters, refused>>
      BY <1>2 DEF Advertise, x
    <2>3. \A y \in known'[q] : y \in known[q] \/ y.entry.proc = q
      BY <1>0, <2>1, <2>2, OfferEffect
    <2> QED
      BY <1>1, <2>2, <2>3
  <1>3. ASSUME NEW p \in Procs, NEW x \in known[p], Unadvertise(p, x)
        PROVE  Interested(q, u)'
    <2>1. x \in Offers /\ Dir!Withdraw(x)
      BY <1>3 DEF TypeOK, Unadvertise
    <2>2. known'[q] \subseteq known[q]
      BY <1>0, <2>1, WithdrawEffect
    <2> QED
      BY <1>1, <1>3, <2>2 DEF Unadvertise
  <1>4. ASSUME NEW p \in Procs, NEW t \in Topics, NEW n \in Subscribers,
               Subscribe(p, t, n)
        PROVE  Interested(q, u)'
    <2> DEFINE S == subs'[p]
               E == KnownRemote(p, t)
    <2>1. /\ E \in SUBSET Entries /\ IsFiniteSet(E) /\ \A e \in E : e.topic = t
      BY RemoteOffers
    <2>2. OnNewConnection(p, S, t, E) /\ known' = known
      BY <1>4 DEF Subscribe
    <2>3. Reachable(p, t)' = E \ refused'[p]
      BY <2>2 DEF KnownRemote, Reachable
    <2> HIDE DEF S, E
    <2>4. /\ \A e \in E \ refused'[p] : HasEntry(connections'[p], e)
          /\ E \ refused'[p] # {} => filters'[p][t] > 0
          /\ connections[q] \subseteq connections'[q]
          /\ filters[q][u] <= filters'[q][u]
          /\ refused[q] \subseteq IF q = p THEN refused'[q] \cup E ELSE refused'[q]
      BY <2>1, <2>2, NewConnectionConnects
    <2>5. CASE q = p /\ u = t
      BY <2>3, <2>4, <2>5 DEF Interested
    <2>6. CASE ~(q = p /\ u = t)
      <3>1. HasHandlersForTopic(subs'[q], u) => HasHandlersForTopic(subs[q], u)
        BY <1>4, <2>6 DEF Subscribe, HasHandlersForTopic, TypeOK
      <3>2. \A e \in refused[q] : e \in refused'[q] \/ e.topic # u
        BY <2>1, <2>4, <2>6
      <3> QED
        BY <1>0, <2>2, <2>4, <3>1, <3>2, InterestKept
    <2> QED
      BY <2>5, <2>6
  <1>5. ASSUME NEW p \in Procs, NEW t \in Topics, NEW n \in Subscribers,
               Unsubscribe(p, t, n)
        PROVE  Interested(q, u)'
    <2>1. UNCHANGED <<known, connections, refused>>
      BY <1>5 DEF Unsubscribe
    <2>2. HasHandlersForTopic(subs'[q], u) => HasHandlersForTopic(subs[q], u)
      BY <1>5 DEF Unsubscribe, HasHandlersForTopic, TypeOK
    <2>3. HasHandlersForTopic(subs'[q], u) => filters[q][u] <= filters'[q][u]
      <3>1. CASE HasHandlersForTopic(subs'[p], t)
        <4>1. filters' = filters
          BY <1>5, <3>1 DEF Unsubscribe
        <4> QED
          BY <1>0, <4>1
      <3>2. CASE ~HasHandlersForTopic(subs'[p], t)
        <4>1. ~(q = p /\ u = t) => filters'[q][u] = filters[q][u]
          BY <1>5, <3>2 DEF Unsubscribe, TypeOK
        <4> QED
          BY <1>0, <3>2, <4>1
      <3> QED
        BY <3>1, <3>2
    <2> QED
      BY <1>0, <2>1, <2>2, <2>3, InterestKept
  <1>6. ASSUME NEW p \in Procs, NEW x \in offered, Learn(p, x)
        PROVE  Interested(q, u)'
    <2> DEFINE t == x.entry.topic
               S == subs[p]
               E == {x.entry}
    <2>1. x.entry \in Entries /\ t \in Topics
      BY <1>0, OfferFields
    <2>2. E \in SUBSET Entries /\ IsFiniteSet(E) /\ \A e \in E : e.topic = t
      <3>1. IsFiniteSet({x.entry})
        BY FS_Singleton
      <3> QED
        BY <2>1, <3>1
    <2>3. Dir!Learn(p, x) /\ subs' = subs
      BY <1>6 DEF Learn
    <2>4. \A r \in Procs : known'[r] = IF r = p THEN known[p] \cup {x} ELSE known[r]
      BY <1>0, <2>3, LearnEffect
    <2>5. CASE HasHandlersForTopic(S, t)
      <3>1. OnNewConnection(p, S, t, E)
        BY <1>6, <2>5 DEF Learn
      <3>2. x.entry \in E
        OBVIOUS
      <3> HIDE DEF S, E
      <3>3. /\ \A e \in E \ refused'[p] : HasEntry(connections'[p], e)
            /\ E \ refused'[p] # {} => filters'[p][t] > 0
            /\ connections[q] \subseteq connections'[q]
            /\ filters[q][u] <= filters'[q][u]
            /\ refused[q] \subseteq IF q = p THEN refused'[q] \cup E ELSE refused'[q]
        BY <2>1, <2>2, <3>1, NewConnectionConnects
      <3>4. CASE q = p /\ u = t
        <4>1. ASSUME NEW e \in Reachable(p, t)', HasHandlersForTopic(subs[p], t)
              PROVE  HasEntry(connections'[p], e) /\ filters'[p][t] > 0
          <5>1. PICK y \in known'[p] : y.entry = e /\ e.topic = t /\ e.proc # p
            BY <4>1 DEF KnownRemote, Reachable
          <5>2. e \notin refused'[p]
            BY <4>1 DEF Reachable
          <5>3. CASE e \in E
            BY <3>3, <5>2, <5>3
          <5>4. CASE e \notin E
            <6>1. y \in known[p]
              BY <2>4, <3>2, <5>1, <5>4
            <6>2. e \in Reachable(p, t)
              BY <3>3, <3>4, <5>1, <5>2, <5>4, <6>1 DEF KnownRemote, Reachable
            <6>3. HasEntry(connections[p], e) /\ filters[p][t] > 0
              BY <1>0, <2>1, <4>1, <6>2 DEF Interested
            <6>4. filters[p][t] \in Nat /\ filters'[p][t] \in Nat
              BY <2>1 DEF TypeOK
            <6> QED
              BY <3>3, <3>4, <6>3, <6>4 DEF HasEntry
          <5> QED
            BY <5>3, <5>4
        <4> QED
          BY <2>3, <3>4, <4>1 DEF Interested
      <3>5. CASE ~(q = p /\ u = t)
        <4>1. KnownRemote(q, u)' = KnownRemote(q, u)
          BY <2>4, <3>5 DEF KnownRemote
        <4>2. /\ filters[q][u] \in Nat /\ filters'[q][u] \in Nat
          BY DEF TypeOK
        <4>3. \A e \in KnownRemote(q, u) : e \in refused[q] => e \in refused'[q]
          BY <2>2, <3>3, <3>5 DEF KnownRemote
        <4>4. Reachable(q, u)' \subseteq Reachable(q, u)
          BY <4>1, <4>3 DEF Reachable
        <4> QED
          BY <1>0, <2>3, <3>3, <4>2, <4>4 DEF Interested, HasEntry
      <3> QED
        BY <3>4, <3>5
    <2>6. CASE ~HasHandlersForTopic(S, t)
      <3>1. UNCHANGED <<connections, filters, refused>>
        BY <1>6, <2>6 DEF Learn
      <3>2. CASE q = p /\ u = t
        BY <2>3, <2>6, <3>2 DEF Interested
      <3>3. CASE ~(q = p /\ u = t)
        <4>1. KnownRemote(q, u)' = KnownRemote(q, u)
          BY <2>4, <3>3 DEF KnownRemote
        <4> QED
          BY <1>0, <2>3, <3>1, <4>1 DEF Interested, Reachable
      <3> QED
        BY <3>2, <3>3
    <2> QED
      BY <2>5, <2>6
  <1>7. ASSUME NEW p \in Procs, NEW x \in withdrawn, OnUnadvertised(p, x)
        PROVE  Interested(q, u)'
    <2>1. UNCHANGED <<subs, filters, refused>>
      BY <1>7 DEF OnUnadvertised
    <2>2. \A r \in Procs : known'[r] =
             IF r = p THEN known[p] \ {y \in known[p] : Dir!SameOffer(x, y)}
             ELSE known[r]
      BY <1>0, <1>7, ForgetEffect DEF OnUnadvertised
    <2>3. \A r \in Procs : connections'[r] =
             IF r = p THEN connections[p] \ ConnectionsTo(p, x) ELSE connections[r]
      BY <1>7 DEF OnUnadvertised, TypeOK
    <2>4. ASSUME NEW e \in connections[q], e \notin connections'[q],
                 NEW y \in known'[q], SameAddress(y.entry, e)
          PROVE  FALSE
      <3>1. q = p /\ e \in ConnectionsTo(p, x)
        BY <2>3, <2>4
      <3>2. e.topic = x.entry.topic /\ e.proc = x.entry.proc /\ e.node = x.entry.node
        BY <3>1 DEF ConnectionsTo, AddressesByNode
      <3>3. y \in known[p] /\ ~Dir!SameOffer(x, y)
        BY <2>2, <2>4, <3>1
      <3>4. x.kind = "msg" /\ y.kind = "msg"
        BY <3>3, OfferFields DEF TypeOK
      <3> QED
        BY <2>4, <3>2, <3>3, <3>4 DEF Dir!SameOffer, SameAddress
    <2>5. \A y \in known'[q] : y \in known[q]
      BY <2>2
    <2> QED
      BY <1>0, <2>1, <2>4, <2>5, InterestKept
  <1>8. ASSUME NEW p \in Procs, Vanish(p) PROVE Interested(q, u)'
    <2>1. subs' = [subs EXCEPT ![p] = {}]
      BY <1>8 DEF Vanish
    <2>2. CASE q = p
      <3>1. subs'[q] = {}
        BY <2>1, <2>2 DEF TypeOK
      <3> QED
        BY <3>1 DEF Interested, HasHandlersForTopic
    <2>3. CASE q # p
      <3>1. /\ subs'[q] = subs[q] /\ connections'[q] = connections[q]
            /\ filters'[q] = filters[q] /\ known'[q] = known[q]
            /\ refused'[q] = refused[q]
        <4>1. known' = [known EXCEPT ![p] = {}]
          BY <1>8, VanishEffect
        <4>2. known'[q] = known[q]
          BY <1>0, <2>3, <4>1
        <4> QED
          BY <1>8, <2>3, <4>2 DEF Vanish, TypeOK
      <3> QED
        BY <1>0, <3>1 DEF Interested, KnownRemote, Reachable
    <2> QED
      BY <2>2, <2>3
  <1>9. ASSUME NEW p \in Procs, NEW r \in Procs, OnProcessLost(p, r)
        PROVE  Interested(q, u)'
    <2>1. known'[q] \subseteq known[q]
      BY <1>0, <1>9, ForgetEffect DEF OnProcessLost
    <2> QED
      BY <1>1, <1>9, <2>1 DEF OnProcessLost
  <1>10. ASSUME NEW p \in Procs, NEW c \in ctrl[p], RecvControlUpdate(p, c)
         PROVE  Interested(q, u)'
    BY <1>1, <1>10 DEF RecvControlUpdate
  <1>11. CASE UNCHANGED vars
    BY <1>1, <1>11 DEF vars
  <1> QED
    BY <1>2, <1>3, <1>4, <1>5, <1>6, <1>7, <1>8, <1>9, <1>10, <1>11
       DEF Next, End, OnUnadvertisedAborts

\* While a process has handlers for a topic, it has a connection entry for every
\* remote offer of it that it knows and could connect to, and the filter is set:
\* the order in which nodes subscribe and unsubscribe and offers come and go does
\* not matter.
THEOREM InterestIsConnected == Spec => []InterestConnected
  <1>1. Init => InterestConnected
    BY DEF Init, InterestConnected, HasHandlersForTopic
  <1>2. TypeOK /\ KnownOffered /\ InterestConnected /\ [Next]_vars
           => (TypeOK /\ KnownOffered /\ InterestConnected)'
    BY TypeStep, InterestStep
  <1> QED
    BY <1>1, <1>2, InitTypes, PTL DEF Spec

---------------------------------------------------------------------------
\* Registrations.

\* Every step keeps nodes to their processes and roles.
LEMMA OwnStep ==
    ASSUME TypeOK, KnownOffered, OwnSubscribers, [Next]_vars
    PROVE  OwnSubscribers'
  <1> USE PubSubAssumption
  <1>1. ASSUME \A q \in Procs : /\ subs'[q] \subseteq subs[q]
                                /\ ctrl'[q] \subseteq ctrl[q]
                                /\ remoteSubs'[q] \subseteq remoteSubs[q]
        PROVE  OwnSubscribers'
    BY <1>1 DEF OwnSubscribers
  <1>2. ASSUME NEW p \in Procs, NEW t \in Topics, NEW n \in Subscribers,
               OwnerOf[n] = p, Subscribe(p, t, n)
        PROVE  OwnSubscribers'
    <2> DEFINE S == subs'[p]
               E == KnownRemote(p, t)
    <2>1. \A q \in Procs : subs'[q] = IF q = p THEN subs[p] \cup {<<t, n>>} ELSE subs[q]
      BY <1>2 DEF Subscribe, TypeOK
    <2>2. \A s \in S : s[2] \in Subscribers
      BY <1>2, <2>1 DEF OwnSubscribers
    <2>3. \A c \in Registrations(p, S, t) : c.type = "NewConnection" /\ c.node \in Subscribers
      BY <2>2 DEF Registrations
    <2>4. E \in SUBSET Entries /\ OnNewConnection(p, S, t, E)
      BY <1>2, RemoteOffers DEF Subscribe
    <2> HIDE DEF S, E
    <2>5. \A q \in Procs : ctrl'[q] \subseteq ctrl[q] \cup Registrations(p, S, t)
      BY <2>4, NewConnectionControl
    <2>6. remoteSubs' = remoteSubs
      BY <1>2 DEF Subscribe
    <2> QED
      BY <1>2, <2>1, <2>3, <2>5, <2>6 DEF OwnSubscribers
  <1>3. ASSUME NEW p \in Procs, NEW t \in Topics, NEW n \in Subscribers,
               Unsubscribe(p, t, n)
        PROVE  OwnSubscribers'
    <2> DEFINE ms == {[type |-> "EndConnection", topic |-> t,
                       proc |-> Endpoint(p), node |-> n]}
               qs == {e.proc : e \in KnownRemote(p, t)}
    <2>1. \A c \in ms : c.type # "NewConnection" /\ c.proc \notin Procs
      BY DEF Endpoint
    <2>2. qs \in SUBSET Procs
      BY RemoteOffers, EntryFields
    <2>3. SendControl(qs, ms)
      BY <1>3 DEF Unsubscribe
    <2> HIDE DEF ms, qs
    <2>4. \A q \in Procs : ctrl'[q] \subseteq ctrl[q] \cup ms
      BY <2>2, <2>3, SendEffect
    <2>5. remoteSubs' = remoteSubs /\ \A q \in Procs : subs'[q] \subseteq subs[q]
      BY <1>3 DEF Unsubscribe, TypeOK
    <2> QED
      BY <2>1, <2>4, <2>5 DEF OwnSubscribers
  <1>4. ASSUME NEW p \in Procs, NEW x \in offered, Learn(p, x)
        PROVE  OwnSubscribers'
    <2> DEFINE t == x.entry.topic
               S == subs[p]
               E == {x.entry}
    <2>1. x.entry \in Entries /\ t \in Topics
      BY OfferFields DEF TypeOK
    <2>2. E \in SUBSET Entries
      BY <2>1
    <2>3. \A c \in Registrations(p, S, t) : c.type = "NewConnection" /\ c.node \in Subscribers
      BY DEF Registrations, OwnSubscribers
    <2>4. OnNewConnection(p, S, t, E) \/ ctrl' = ctrl
      BY <1>4 DEF Learn
    <2> HIDE DEF t, S, E
    <2>5. \A q \in Procs : ctrl'[q] \subseteq ctrl[q] \cup Registrations(p, S, t)
      BY <2>1, <2>2, <2>4, NewConnectionControl
    <2>6. UNCHANGED <<subs, remoteSubs>>
      BY <1>4 DEF Learn
    <2> QED
      BY <2>3, <2>5, <2>6 DEF OwnSubscribers
  <1>5. ASSUME NEW p \in Procs, NEW x \in withdrawn, OnUnadvertised(p, x)
        PROVE  OwnSubscribers'
    BY <1>1, <1>5 DEF OnUnadvertised, WithoutSubscriber, TypeOK
  <1>6. ASSUME NEW p \in Procs, Vanish(p) PROVE OwnSubscribers'
    BY <1>1, <1>6 DEF Vanish, TypeOK
  <1>7. ASSUME NEW p \in Procs, NEW q \in Procs, OnProcessLost(p, q)
        PROVE  OwnSubscribers'
    BY <1>1, <1>7 DEF OnProcessLost, TypeOK
  <1>8. ASSUME NEW p \in Procs, NEW c \in ctrl[p], RecvControlUpdate(p, c)
        PROVE  OwnSubscribers'
    <2>1. subs' = subs /\ \A q \in Procs : ctrl'[q] \subseteq ctrl[q]
      BY <1>8 DEF RecvControlUpdate, TypeOK
    <2>2. \A q \in Procs : \A r \in remoteSubs'[q] :
             r \in remoteSubs[q] \/ (c.type = "NewConnection" /\ r.node = c.node)
      BY <1>8 DEF RecvControlUpdate, WithoutSubscriber, TypeOK
    <2> QED
      BY <2>1, <2>2 DEF OwnSubscribers
  <1>9. ASSUME UNCHANGED <<subs, ctrl, remoteSubs>> PROVE OwnSubscribers'
    BY <1>1, <1>9
  <1>10. CASE UNCHANGED vars
    BY <1>9, <1>10 DEF vars
  <1> QED
    BY <1>2, <1>3, <1>4, <1>5, <1>6, <1>7, <1>8, <1>9, <1>10
       DEF Next, End, OnUnadvertisedAborts, Advertise, Unadvertise

\* Process p has, or has on its way, a registration of q for topic t.
Registered(p, q, t) ==
    \/ \E r \in remoteSubs[p] : r.topic = t /\ r.proc = q
    \/ \E c \in ctrl[p] : c.type = "NewConnection" /\ c.topic = t /\ c.proc = q

\* What OnNewConnection connects to is told of the subscribers.
LEMMA NewConnectionRegisters ==
    ASSUME TypeOK, "control" \notin Faults,
           NEW p \in Procs, NEW t \in Topics, NEW S, NEW E \in SUBSET Entries,
           HasHandlersForTopic(S, t), OnNewConnection(p, S, t, E)
    PROVE  \A e \in E \ refused'[p] : Up(e.proc) => Registered(e.proc, p, t)'
  <1>1. \E c \in Registrations(p, S, t) :
           c.type = "NewConnection" /\ c.topic = t /\ c.proc = p
    <2>1. PICK s \in S : s[1] = t
      BY DEF HasHandlersForTopic
    <2> DEFINE c == [type |-> "NewConnection", topic |-> t, proc |-> p, node |-> s[2]]
    <2>2. c \in Registrations(p, S, t)
      BY <2>1 DEF Registrations
    <2>3. c.type = "NewConnection" /\ c.topic = t /\ c.proc = p
      OBVIOUS
    <2> QED
      BY <2>2, <2>3
  <1>2. \A e \in E \ refused'[p] :
           Up(e.proc) => Registrations(p, S, t) \subseteq ctrl'[e.proc]
    BY NewConnectionControl
  <1> QED
    BY <1>1, <1>2 DEF Registered

\* A step that cuts off a subscriber loses a control message, takes the subscriber
\* for lost, or hears that a node of it stopped offering the topic.
LEMMA KeptStep ==
    ASSUME TypeOK, KnownOffered, OwnSubscribers, [Next]_vars, "control" \notin Faults,
           NEW p \in Procs, NEW q \in Procs, NEW t \in Topics,
           CutOff(p, q, t)', ~CutOff(p, q, t), ~OnProcessLost(p, q),
           \A x \in withdrawn : x.entry.proc = q /\ x.entry.topic = t =>
              ~OnUnadvertised(p, x)
    PROVE  FALSE
  <1>0. /\ known \in [Procs -> SUBSET Offers] /\ offered \subseteq Offers
        /\ status'[p] = "up" /\ status'[q] = "up" /\ HasHandlersForTopic(subs'[q], t)
        /\ ~Registered(p, q, t)'
    BY DEF TypeOK, CutOff, Up, Registered
  <1> PICK e \in Reachable(q, t)' : e.proc = p
    BY DEF CutOff
  <1>1. ASSUME status[p] = "up", status[q] = "up", HasHandlersForTopic(subs[q], t),
               e \in Reachable(q, t)
        PROVE  Registered(p, q, t)
    BY <1>1 DEF CutOff, Up, Registered
  <1>2. ASSUME status[p] = "up", status[q] = "up", HasHandlersForTopic(subs[q], t),
               e \in Reachable(q, t), ctrl[p] \subseteq ctrl'[p],
               \A r \in remoteSubs[p] :
                  r.topic = t /\ r.proc = q => r \in remoteSubs'[p]
        PROVE  FALSE
    BY <1>0, <1>1, <1>2 DEF Registered
  <1>3. ASSUME UNCHANGED <<status, ctrl, remoteSubs, subs, refused>>,
               \A x \in known'[q] : x \in known[q] \/ x.entry.proc = q
        PROVE  FALSE
    <2>1. e \in Reachable(q, t)
      BY <1>3 DEF Reachable, KnownRemote
    <2> QED
      BY <1>0, <1>2, <1>3, <2>1
  <1>4. ASSUME NEW u \in Topics, NEW n \in Offerers, NEW s \in Scopes,
               Advertise(OwnerOf[n], Offer(u, n, s))
        PROVE  FALSE
    <2> DEFINE x == Offer(u, n, s)
    <2>1. x \in Offers
      BY PubSubAssumption, OfferType
    <2> HIDE DEF x
    <2>2. Dir!Offer(x) /\ UNCHANGED <<status, ctrl, remoteSubs, subs, refused>>
      BY <1>4 DEF Advertise, x
    <2>3. \A y \in known'[q] : y \in known[q] \/ y.entry.proc = q
      BY <1>0, <2>1, <2>2, OfferEffect
    <2> QED
      BY <1>3, <2>2, <2>3
  <1>5. ASSUME NEW o \in Procs, NEW x \in known[o], Unadvertise(o, x)
        PROVE  FALSE
    <2>1. x \in Offers /\ Dir!Withdraw(x)
      BY <1>5 DEF TypeOK, Unadvertise
    <2>2. known'[q] \subseteq known[q]
      BY <1>0, <2>1, WithdrawEffect
    <2> QED
      BY <1>3, <1>5, <2>2 DEF Unadvertise
  <1>6. ASSUME NEW o \in Procs, NEW u \in Topics, NEW n \in Subscribers,
               Subscribe(o, u, n)
        PROVE  FALSE
    <2> DEFINE S == subs'[o]
               E == KnownRemote(o, u)
    <2>1. /\ OnNewConnection(o, S, u, E)
          /\ UNCHANGED <<status, known, remoteSubs>>
          /\ \A r \in Procs : subs'[r] = IF r = o THEN subs[o] \cup {<<u, n>>} ELSE subs[r]
      BY <1>6 DEF Subscribe, TypeOK
    <2>2. E \in SUBSET Entries /\ IsFiniteSet(E) /\ \A f \in E : f.topic = u
      BY RemoteOffers
    <2>3. e \in KnownRemote(q, t) /\ e \notin refused'[q] /\ e.topic = t
      BY <2>1 DEF Reachable, KnownRemote
    <2>4. CASE q = o /\ t = u
      <3>1. e \in E \ refused'[o] /\ HasHandlersForTopic(S, u) /\ Up(e.proc)
        BY <1>0, <2>1, <2>3, <2>4 DEF Up
      <3> HIDE DEF S, E
      <3>2. Registered(e.proc, o, u)'
        BY <2>1, <2>2, <3>1, NewConnectionRegisters
      <3> QED
        BY <1>0, <2>4, <3>2
    <2>5. CASE ~(q = o /\ t = u)
      <3>1. HasHandlersForTopic(subs[q], t)
        BY <1>0, <2>1, <2>5 DEF HasHandlersForTopic
      <3> HIDE DEF S, E
      <3>2. ctrl[p] \subseteq ctrl'[p]
        BY <2>1, <2>2, NewConnectionControl
      <3>3. refused[q] \subseteq IF q = o THEN refused'[q] \cup E ELSE refused'[q]
        BY <2>1, <2>2, NewConnectionConnects
      <3>4. e \in Reachable(q, t)
        BY <2>2, <2>3, <2>5, <3>3 DEF Reachable
      <3> QED
        BY <1>0, <1>2, <2>1, <3>1, <3>2, <3>4
    <2> QED
      BY <2>4, <2>5
  <1>7. ASSUME NEW o \in Procs, NEW u \in Topics, NEW n \in Subscribers,
               Unsubscribe(o, u, n)
        PROVE  FALSE
    <2> DEFINE ms == {[type |-> "EndConnection", topic |-> u,
                       proc |-> Endpoint(o), node |-> n]}
               qs == {f.proc : f \in KnownRemote(o, u)}
    <2>1. qs \in SUBSET Procs /\ SendControl(qs, ms)
      BY <1>7, RemoteOffers, EntryFields DEF Unsubscribe
    <2>2. ctrl[p] \subseteq ctrl'[p]
      <3> HIDE DEF ms, qs
      <3> QED
        BY <2>1, SendEffect
    <2>3. /\ UNCHANGED <<status, known, remoteSubs, refused>>
          /\ \A r \in Procs : subs'[r] \subseteq subs[r]
      BY <1>7 DEF Unsubscribe, TypeOK
    <2>4. HasHandlersForTopic(subs[q], t) /\ e \in Reachable(q, t)
      BY <1>0, <2>3 DEF HasHandlersForTopic, Reachable, KnownRemote
    <2> QED
      BY <1>0, <1>2, <2>2, <2>3, <2>4
  <1>8. ASSUME NEW o \in Procs, NEW x \in offered, Learn(o, x)
        PROVE  FALSE
    <2> DEFINE u == x.entry.topic
               S == subs[o]
               E == {x.entry}
    <2>1. x.entry \in Entries /\ u \in Topics
      BY <1>0, OfferFields
    <2>2. E \in SUBSET Entries /\ IsFiniteSet(E) /\ \A f \in E : f.topic = u
      <3>1. IsFiniteSet({x.entry})
        BY FS_Singleton
      <3> QED
        BY <2>1, <3>1
    <2>3. UNCHANGED <<status, subs, remoteSubs>> /\ Dir!Learn(o, x)
      BY <1>8 DEF Learn
    <2>4. \A r \in Procs : known'[r] = IF r = o THEN known[o] \cup {x} ELSE known[r]
      BY <1>0, <2>3, LearnEffect
    <2>5. e \notin refused'[q] /\ e.topic = t
      BY DEF Reachable, KnownRemote
    <2>6. e \in KnownRemote(q, t) \/ (q = o /\ e \in E)
      <3>1. PICK y \in known'[q] : y.entry = e /\ e.topic = t /\ e.proc # q
        BY DEF Reachable, KnownRemote
      <3> QED
        BY <2>4, <3>1 DEF KnownRemote
    <2>7. CASE HasHandlersForTopic(S, u)
      <3>1. OnNewConnection(o, S, u, E)
        BY <1>8, <2>7 DEF Learn
      <3> HIDE DEF S, E
      <3>2. CASE q = o /\ e \in E
        <4>1. e \in E \ refused'[o] /\ Up(e.proc) /\ u = t
          BY <1>0, <2>2, <2>3, <2>5, <3>2 DEF Up
        <4>2. Registered(e.proc, o, u)'
          BY <2>1, <2>2, <2>7, <3>1, <4>1, NewConnectionRegisters
        <4> QED
          BY <1>0, <3>2, <4>1, <4>2
      <3>3. CASE ~(q = o /\ e \in E)
        <4>1. ctrl[p] \subseteq ctrl'[p]
          BY <2>1, <2>2, <3>1, NewConnectionControl
        <4>2. refused[q] \subseteq IF q = o THEN refused'[q] \cup E ELSE refused'[q]
          BY <2>1, <2>2, <3>1, NewConnectionConnects
        <4>3. e \in Reachable(q, t)
          BY <2>5, <2>6, <3>3, <4>2 DEF Reachable
        <4> QED
          BY <1>0, <1>2, <2>3, <4>1, <4>3
      <3> QED
        BY <3>2, <3>3
    <2>8. CASE ~HasHandlersForTopic(S, u)
      <3>1. UNCHANGED <<ctrl, refused>>
        BY <1>8, <2>8 DEF Learn
      <3>2. ~(q = o /\ e \in E)
        BY <1>0, <2>3, <2>5, <2>8
      <3>3. e \in Reachable(q, t)
        BY <2>5, <2>6, <3>1, <3>2 DEF Reachable
      <3> QED
        BY <1>0, <1>2, <2>3, <3>1, <3>3
    <2> QED
      BY <2>7, <2>8
  <1>9. ASSUME NEW o \in Procs, NEW x \in withdrawn, OnUnadvertised(o, x)
        PROVE  FALSE
    <2>1. UNCHANGED <<status, subs, ctrl, refused>>
      BY <1>9 DEF OnUnadvertised
    <2>2. known'[q] \subseteq known[q]
      BY <1>0, <1>9, ForgetEffect DEF OnUnadvertised
    <2>3. \A r \in remoteSubs[p] :
             \/ r \in remoteSubs'[p]
             \/ o = p /\ r.topic = x.entry.topic /\ r.proc = x.entry.proc
      BY <1>9 DEF OnUnadvertised, WithoutSubscriber, TypeOK
    <2>4. \A r \in remoteSubs[p] : r.topic = t /\ r.proc = q => r \in remoteSubs'[p]
      BY <1>9, <2>3
    <2>5. e \in Reachable(q, t)
      BY <2>1, <2>2 DEF Reachable, KnownRemote
    <2> QED
      BY <1>0, <1>2, <2>1, <2>4, <2>5
  <1>10. ASSUME NEW o \in Procs, Vanish(o) PROVE FALSE
    <2>1. /\ \A r \in Procs : status'[r] = IF r = o THEN "down" ELSE status[r]
          /\ known' = [known EXCEPT ![o] = {}]
      BY <1>10 DEF Vanish, Dir!End, TypeOK
    <2>2. p # o /\ q # o /\ status[p] = "up" /\ status[q] = "up"
      BY <1>0, <2>1
    <2>3. /\ subs'[q] = subs[q] /\ refused'[q] = refused[q] /\ known'[q] = known[q]
          /\ ctrl'[p] = ctrl[p] /\ remoteSubs'[p] = remoteSubs[p]
      BY <1>0, <1>10, <2>1, <2>2 DEF Vanish, TypeOK
    <2>4. e \in Reachable(q, t)
      BY <2>3 DEF Reachable, KnownRemote
    <2> QED
      BY <1>0, <1>2, <2>2, <2>3, <2>4
  <1>11. ASSUME NEW o \in Procs, NEW r \in Procs, OnProcessLost(o, r)
         PROVE  FALSE
    <2>1. UNCHANGED <<status, subs, ctrl, refused>>
      BY <1>11 DEF OnProcessLost
    <2>2. known'[q] \subseteq known[q]
      BY <1>0, <1>11, ForgetEffect DEF OnProcessLost
    <2>3. \A s \in remoteSubs[p] : s \in remoteSubs'[p] \/ (o = p /\ s.proc = r)
      BY <1>11 DEF OnProcessLost, TypeOK
    <2>4. \A s \in remoteSubs[p] : s.topic = t /\ s.proc = q => s \in remoteSubs'[p]
      BY <1>11, <2>3
    <2>5. e \in Reachable(q, t)
      BY <2>1, <2>2 DEF Reachable, KnownRemote
    <2> QED
      BY <1>0, <1>2, <2>1, <2>4, <2>5
  <1>12. ASSUME NEW o \in Procs, NEW c \in ctrl[o], RecvControlUpdate(o, c)
         PROVE  FALSE
    <2>1. UNCHANGED <<status, subs, known, refused>>
      BY <1>12 DEF RecvControlUpdate
    <2>2. e \in Reachable(q, t)
      BY <2>1 DEF Reachable, KnownRemote
    <2>3. Registered(p, q, t)
      BY <1>0, <1>1, <2>1, <2>2
    <2>4. CASE o # p
      <3>1. ctrl'[p] = ctrl[p] /\ remoteSubs'[p] = remoteSubs[p]
        BY <1>12, <2>4 DEF RecvControlUpdate, WithoutSubscriber, TypeOK
      <3> QED
        BY <1>0, <2>3, <3>1 DEF Registered
    <2>5. CASE o = p /\ c.type = "NewConnection"
      <3>1. /\ ctrl'[p] = ctrl[p] \ {c}
            /\ remoteSubs'[p] = remoteSubs[p] \cup
                  {[topic |-> c.topic, proc |-> c.proc, node |-> c.node]}
        BY <1>12, <2>5 DEF RecvControlUpdate, TypeOK
      <3> DEFINE r == [topic |-> c.topic, proc |-> c.proc, node |-> c.node]
      <3>2. r.topic = c.topic /\ r.proc = c.proc /\ r \in remoteSubs'[p]
        BY <3>1
      <3> HIDE DEF r
      <3> QED
        BY <1>0, <2>3, <3>1, <3>2 DEF Registered
    <2>6. CASE o = p /\ c.type # "NewConnection"
      <3>1. /\ ctrl'[p] = ctrl[p] \ {c}
            /\ remoteSubs'[p] = remoteSubs[p] \
                  {[topic |-> c.topic, proc |-> c.proc, node |-> c.node]}
        BY <1>12, <2>6 DEF RecvControlUpdate, WithoutSubscriber, TypeOK
      <3>2. c.proc # q
        BY <2>6 DEF OwnSubscribers
      <3> QED
        BY <1>0, <2>3, <2>6, <3>1, <3>2 DEF Registered
    <2> QED
      BY <2>4, <2>5, <2>6
  <1>13. CASE UNCHANGED vars
    BY <1>3, <1>13 DEF vars
  <1> QED
    BY <1>4, <1>5, <1>6, <1>7, <1>8, <1>9, <1>10, <1>11, <1>12, <1>13
       DEF Next, End, OnUnadvertisedAborts

\* Where control messages arrive, a subscriber who can reach the publisher stays
\* registered there, or is about to be, until the publisher takes it for lost or
\* one of its nodes stops offering the same topic: Publish, which looks at the
\* registrations only, leaves it out for no other reason.
THEOREM SubscribersStay == Spec => SubscribersKept
  <1> DEFINE Inv == TypeOK /\ KnownOffered /\ OwnSubscribers
  <1>1. Init => Inv
    BY InitTypes DEF Init, OwnSubscribers
  <1>2. Inv /\ [Next]_vars => Inv'
    BY TypeStep, OwnStep
  <1>3. Inv /\ [Next]_vars =>
           [\A p, q \in Procs, t \in Topics :
               CutOff(p, q, t)' /\ ~CutOff(p, q, t) =>
                  \/ "control" \in Faults
                  \/ OnProcessLost(p, q)
                  \/ \E x \in withdrawn : /\ x.entry.proc = q /\ x.entry.topic = t
                                          /\ OnUnadvertised(p, x)]_vars
    BY KeptStep
  <1> HIDE DEF Inv
  <1> QED
    BY <1>1, <1>2, <1>3, PTL DEF Spec, SubscribersKept

=============================================================================

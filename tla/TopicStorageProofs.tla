------------------------- MODULE TopicStorageProofs -------------------------
(***************************************************************************)
(* Theorems about TopicStorage, for any topics, processes, nodes,          *)
(* endpoints and scopes, and vectors of any length.                        *)
(***************************************************************************)
EXTENDS TopicStorage, FiniteSetTheorems, TLAPS

---------------------------------------------------------------------------
\* The vectors.

\* How many positions of I come before i or are i.
Rank(I, i) == Cardinality({k \in I : k <= i})

\* The positions of a finite set of numbers have the ranks 1, 2, ..., each once.
LEMMA RankIs ==
    ASSUME NEW I \in SUBSET Nat, IsFiniteSet(I)
    PROVE  /\ Cardinality(I) \in Nat
           /\ \A i \in I : Rank(I, i) \in 1..Cardinality(I)
           /\ \A i, k \in I : Rank(I, i) = Rank(I, k) => i = k
           /\ \A j \in 1..Cardinality(I) : \E i \in I : Rank(I, i) = j
  <1> DEFINE upTo(i) == {k \in I : k <= i}
             n == Cardinality(I)
  <1>1. n \in Nat
    BY FS_CardinalityType
  <1>2. ASSUME NEW i \in I
        PROVE  /\ IsFiniteSet(upTo(i))
               /\ Cardinality(upTo(i)) \in Nat
               /\ Cardinality(upTo(i)) # 0
               /\ Cardinality(upTo(i)) <= n
    <2>1. upTo(i) \in SUBSET I /\ i \in upTo(i)
      OBVIOUS
    <2> HIDE DEF upTo
    <2>2. IsFiniteSet(upTo(i)) /\ Cardinality(upTo(i)) <= n
      BY <2>1, FS_Subset
    <2>3. Cardinality(upTo(i)) \in Nat
      BY <2>2, FS_CardinalityType
    <2>4. Cardinality(upTo(i)) # 0
      BY <2>1, <2>2, FS_EmptySet
    <2> QED
      BY <2>2, <2>3, <2>4
  <1>3. ASSUME NEW i \in I, NEW k \in I, i < k
        PROVE  Cardinality(upTo(i)) # Cardinality(upTo(k))
    <2>1. upTo(i) \in SUBSET upTo(k) /\ k \in upTo(k) /\ k \notin upTo(i)
      <3>1. i \in Nat /\ k \in Nat
        OBVIOUS
      <3>2. \A l \in Nat : l <= i => l <= k
        BY <1>3, <3>1
      <3>3. k <= k /\ ~(k <= i)
        BY <1>3, <3>1
      <3> QED
        BY <3>2, <3>3
    <2>2. IsFiniteSet(upTo(k))
      BY <1>2
    <2> HIDE DEF upTo
    <2> QED
      BY <2>1, <2>2, FS_Subset
  <1>4. ASSUME NEW i \in I
        PROVE  Rank(I, i) = Cardinality(upTo(i))
    BY DEF Rank
  <1> HIDE DEF upTo
  <1>5. \A i \in I : Rank(I, i) \in 1..n
    <2> SUFFICES ASSUME NEW i \in I PROVE Rank(I, i) \in 1..n
      OBVIOUS
    <2>1. Rank(I, i) \in Nat /\ Rank(I, i) # 0 /\ Rank(I, i) <= n
      BY <1>2, <1>4
    <2> HIDE DEF n
    <2> QED
      BY <1>1, <2>1
  <1>6. \A i, k \in I : Rank(I, i) = Rank(I, k) => i = k
    <2> SUFFICES ASSUME NEW i \in I, NEW k \in I, i # k
                 PROVE  Rank(I, i) # Rank(I, k)
      OBVIOUS
    <2>1. i < k \/ k < i
      OBVIOUS
    <2> QED
      BY <1>3, <1>4, <2>1
  <1>7. ASSUME NEW j \in 1..n
        PROVE  \E i \in I : Rank(I, i) = j
    <2> DEFINE f == [i \in I |-> Rank(I, i)]
    <2>1. f \in Injection(I, 1..n)
      <3> HIDE DEF n
      <3> QED
        BY <1>5, <1>6 DEF Injection, IsInjective
    <2>2. IsFiniteSet(1..n) /\ Cardinality(1..n) = n
      <3> HIDE DEF n
      <3>1. IsFiniteSet(1..n) /\ Cardinality(1..n) = IF 1 > n THEN 0 ELSE n - 1 + 1
        BY <1>1, FS_Interval
      <3> QED
        BY <1>1, <3>1
    <2>3. f \in Surjection(I, 1..n)
      <3> HIDE DEF f
      <3> QED
        BY <2>1, <2>2, FS_Injection
    <2>4. PICK i \in I : f[i] = j
      <3> HIDE DEF f, n
      <3> QED
        BY <2>3 DEF Surjection
    <2> QED
      BY <2>4
  <1> QED
    BY <1>1, <1>5, <1>6, <1>7

\* Is w what vector v has at the positions I: all of it, nothing else, and each
\* position once?
Kept(S, v, I, w) ==
    /\ w \in Seq(S)
    /\ Len(w) = Cardinality(I)
    /\ IsFiniteSet(DOMAIN v)
    /\ Cardinality(DOMAIN v) = Len(v)
    /\ \E f \in [DOMAIN w -> I] :
          /\ \A j \in DOMAIN w : w[j] = v[f[j]]
          /\ \A j, l \in DOMAIN w : f[j] = f[l] => j = l
          /\ \A i \in I : \E j \in DOMAIN w : f[j] = i

\* Keep, which is what remove_if leaves of a vector, is.
LEMMA KeepIs ==
    ASSUME NEW S, NEW v \in Seq(S), NEW I \in SUBSET DOMAIN v
    PROVE  Kept(S, v, I, Keep(v, I))
  <1> DEFINE n == Cardinality(I)
             Nth(j) == CHOOSE i \in I : Rank(I, i) = j
             pos == [j \in 1..n |-> Nth(j)]
             w == Keep(v, I)
  <1>1. /\ Len(v) \in Nat /\ DOMAIN v = 1..Len(v)
        /\ \A i \in DOMAIN v : v[i] \in S
    OBVIOUS
  <1>2. IsFiniteSet(DOMAIN v) /\ Cardinality(DOMAIN v) = Len(v)
    <2>1. IsFiniteSet(1..Len(v))
          /\ Cardinality(1..Len(v)) = IF 1 > Len(v) THEN 0 ELSE Len(v) - 1 + 1
      BY <1>1, FS_Interval
    <2> QED
      BY <1>1, <2>1
  <1>3. IsFiniteSet(I) /\ I \in SUBSET Nat
    BY <1>1, <1>2, FS_Subset
  <1>4. /\ n \in Nat
        /\ \A i \in I : Rank(I, i) \in 1..n
        /\ \A i, k \in I : Rank(I, i) = Rank(I, k) => i = k
        /\ \A j \in 1..n : \E i \in I : Rank(I, i) = j
    BY <1>3, RankIs
  <1>5. w = [j \in 1..n |-> v[Nth(j)]]
    BY DEF Keep, Rank
  <1> HIDE DEF n, w
  <1>6. ASSUME NEW j \in 1..n
        PROVE  Nth(j) \in I /\ Rank(I, Nth(j)) = j
    BY <1>4
  <1> HIDE DEF Nth
  <1>7. w \in Seq(S) /\ Len(w) = n /\ DOMAIN w = 1..n
    <2>1. \A j \in 1..n : v[Nth(j)] \in S
      BY <1>1, <1>6
    <2>2. w \in [1..n -> S]
      BY <1>5, <2>1
    <2> QED
      BY <1>4, <2>2
  <1>8. pos \in [DOMAIN w -> I]
    BY <1>6, <1>7
  <1>9. \A j \in DOMAIN w : w[j] = v[pos[j]]
    BY <1>5, <1>7
  <1>10. \A j, l \in DOMAIN w : pos[j] = pos[l] => j = l
    BY <1>6, <1>7
  <1>11. \A i \in I : \E j \in DOMAIN w : pos[j] = i
    <2> SUFFICES ASSUME NEW i \in I PROVE \E j \in DOMAIN w : pos[j] = i
      OBVIOUS
    <2>1. Rank(I, i) \in 1..n
      BY <1>4
    <2>2. Nth(Rank(I, i)) = i
      BY <1>4, <1>6, <2>1
    <2> QED
      BY <1>7, <2>1, <2>2
  <1> HIDE DEF pos
  <1>12. \E f \in [DOMAIN w -> I] :
            /\ \A j \in DOMAIN w : w[j] = v[f[j]]
            /\ \A j, l \in DOMAIN w : f[j] = f[l] => j = l
            /\ \A i \in I : \E j \in DOMAIN w : f[j] = i
    BY <1>8, <1>9, <1>10, <1>11
  <1> QED
    BY <1>2, <1>7, <1>12 DEF w, n, Kept

---------------------------------------------------------------------------
\* The inductive invariant: every vector of the table has an address, and no
\* endpoint of a node twice; no map is empty.
Distinct(v) ==
    \A i, j \in DOMAIN v : v[i].addr = v[j].addr /\ v[i].node = v[j].node => i = j

Sound(v) == v \in Seq(Address) /\ DOMAIN v # {} /\ Distinct(v)

Inv ==
    /\ DOMAIN data \subseteq Topics
    /\ \A t \in DOMAIN data :
          /\ DOMAIN data[t] \subseteq Procs
          /\ DOMAIN data[t] # {}
          /\ \A p \in DOMAIN data[t] : Sound(data[t][p])
    /\ ret \in BOOLEAN

\* Does the table have address a of process p for topic t?
Stored(t, p, a) ==
    /\ t \in DOMAIN data
    /\ p \in DOMAIN data[t]
    /\ \E i \in DOMAIN data[t][p] : data[t][p][i] = a

\* The vector of a topic and a process, empty if there is none.
LEMMA VectorIs ==
    ASSUME Inv, NEW t, NEW p
    PROVE  /\ Vector(t, p) \in Seq(Address)
           /\ Distinct(Vector(t, p))
           /\ HasAnyAddresses(t, p) => Vector(t, p) = data[t][p]
           /\ \A a : Stored(t, p, a) <=>
                         \E i \in DOMAIN Vector(t, p) : Vector(t, p)[i] = a
  <1>1. CASE HasAnyAddresses(t, p)
    <2>1. t \in DOMAIN data /\ p \in DOMAIN data[t]
      BY <1>1 DEF HasAnyAddresses, HasTopic
    <2>2. Vector(t, p) = data[t][p]
      BY <2>1 DEF Vector, At
    <2>3. Sound(data[t][p])
      BY <2>1 DEF Inv
    <2>4. \A a : Stored(t, p, a) <=> \E i \in DOMAIN data[t][p] : data[t][p][i] = a
      BY <2>1 DEF Stored
    <2> QED
      BY <2>2, <2>3, <2>4 DEF Sound
  <1>2. CASE ~HasAnyAddresses(t, p)
    <2>1. Vector(t, p) = <<>>
      BY <1>2 DEF HasAnyAddresses, HasTopic, Vector, At, EmptyMap
    <2>2. \A a : ~Stored(t, p, a)
      BY <1>2 DEF Stored, HasAnyAddresses, HasTopic
    <2> QED
      BY <1>2, <2>1, <2>2 DEF Distinct
  <1> QED
    BY <1>1, <1>2

\* A table that a call leaves as it is.
LEMMA TableSame ==
    ASSUME Inv, data' = data, ret' \in BOOLEAN
    PROVE  /\ Inv'
           /\ \A x, y, a : Stored(x, y, a)' <=> Stored(x, y, a)
  <1>1. \A t \in DOMAIN data' :
            /\ DOMAIN data'[t] \subseteq Procs
            /\ DOMAIN data'[t] # {}
            /\ \A p \in DOMAIN data'[t] : Sound(data'[t][p])
    BY DEF Inv
  <1>2. DOMAIN data' \subseteq Topics
    BY DEF Inv
  <1>3. Inv'
    BY <1>1, <1>2 DEF Inv, Sound, Distinct, Address
  <1> QED
    BY <1>3 DEF Stored

\* A table in which the map of one topic was replaced by a map of sound
\* vectors, or erased if there was nothing left of it.
LEMMA TopicReplaced ==
    ASSUME Inv, NEW t \in Topics, NEW top, ret' \in BOOLEAN,
           data' = PutOrErase(data, t, top),
           \A y \in DOMAIN top : y \in Procs /\ Sound(top[y])
    PROVE  /\ Inv'
           /\ \A x, y, a : Stored(x, y, a)' <=>
                  IF x = t THEN y \in DOMAIN top /\ \E i \in DOMAIN top[y] : top[y][i] = a
                  ELSE Stored(x, y, a)
  <1>1. /\ DOMAIN data' = IF DOMAIN top = {} THEN DOMAIN data \ {t}
                          ELSE DOMAIN data \cup {t}
        /\ \A x \in DOMAIN data' : data'[x] = IF x = t THEN top ELSE data[x]
    BY DEF PutOrErase, Put, Erase
  <1>2. DOMAIN data' \subseteq Topics
    BY <1>1 DEF Inv
  <1>3. ASSUME NEW x \in DOMAIN data'
        PROVE  /\ DOMAIN data'[x] \subseteq Procs
               /\ DOMAIN data'[x] # {}
               /\ \A y \in DOMAIN data'[x] : Sound(data'[x][y])
    <2>1. CASE x = t
      BY <1>1, <2>1
    <2>2. CASE x # t
      <3>1. x \in DOMAIN data /\ data'[x] = data[x]
        BY <1>1, <2>2
      <3> QED
        BY <3>1 DEF Inv
    <2> QED
      BY <2>1, <2>2
  <1>4. Inv'
    BY <1>2, <1>3 DEF Inv, Sound, Distinct, Address
  <1>5. ASSUME NEW x, NEW y, NEW a
        PROVE  Stored(x, y, a)' <=>
                   IF x = t THEN y \in DOMAIN top /\ \E i \in DOMAIN top[y] : top[y][i] = a
                   ELSE Stored(x, y, a)
    <2>1. Stored(x, y, a)' <=>
              /\ x \in DOMAIN data'
              /\ y \in DOMAIN data'[x]
              /\ \E i \in DOMAIN data'[x][y] : data'[x][y][i] = a
      BY DEF Stored
    <2>2. Stored(x, y, a) <=>
              /\ x \in DOMAIN data
              /\ y \in DOMAIN data[x]
              /\ \E i \in DOMAIN data[x][y] : data[x][y][i] = a
      BY DEF Stored
    <2> QED
      BY <1>1, <2>1, <2>2
  <1> QED
    BY <1>4, <1>5

\* Appending an address whose endpoint and node the vector does not have.
LEMMA AppendSound ==
    ASSUME NEW v \in Seq(Address), Distinct(v), NEW a \in Address,
           \A i \in DOMAIN v : ~(v[i].addr = a.addr /\ v[i].node = a.node)
    PROVE  /\ Sound(Append(v, a))
           /\ \A b : (\E i \in DOMAIN Append(v, a) : Append(v, a)[i] = b) <=>
                         (\E i \in DOMAIN v : v[i] = b) \/ b = a
  <1> DEFINE w == Append(v, a)
  <1>1. /\ w \in Seq(Address) /\ Len(v) \in Nat
        /\ DOMAIN v = 1..Len(v) /\ DOMAIN w = 1..(Len(v) + 1)
        /\ \A i \in DOMAIN v : w[i] = v[i]
        /\ w[Len(v) + 1] = a
    OBVIOUS
  <1> HIDE DEF w
  <1>2. /\ Len(v) + 1 \in DOMAIN w
        /\ \A i \in DOMAIN w : i \in DOMAIN v \/ i = Len(v) + 1
        /\ \A i \in DOMAIN v : i \in DOMAIN w
    BY <1>1
  <1>3. Distinct(w)
    BY <1>1, <1>2 DEF Distinct
  <1>4. \A b : (\E i \in DOMAIN w : w[i] = b) <=> (\E i \in DOMAIN v : v[i] = b) \/ b = a
    BY <1>1, <1>2
  <1> QED
    BY <1>1, <1>2, <1>3, <1>4 DEF Sound, w

\* AddAddress stores an address unless it has its endpoint and node already,
\* with whatever scope, and answers whether it stored it.
LEMMA AddEffect ==
    ASSUME Inv, NEW t \in Topics, NEW p \in Procs, NEW a \in Address,
           AddAddress(t, p, a)
    PROVE  LET known == \E b : Stored(t, p, b) /\ b.addr = a.addr /\ b.node = a.node
           IN  /\ Inv'
               /\ \A x, y, b : Stored(x, y, b)' <=>
                      Stored(x, y, b) \/ (~known /\ x = t /\ y = p /\ b = a)
               /\ ret' = ~known
  <1> DEFINE known == \E b : Stored(t, p, b) /\ b.addr = a.addr /\ b.node = a.node
             v == Vector(t, p)
             outer == At(data, t, EmptyMap)
             top == Put(outer, p, Append(v, a))
             dup == \E i \in DOMAIN v : v[i].addr = a.addr /\ v[i].node = a.node
  <1>1. /\ v \in Seq(Address) /\ Distinct(v)
        /\ \A b : Stored(t, p, b) <=> \E i \in DOMAIN v : v[i] = b
    BY VectorIs
  <1>2. /\ data' = IF dup THEN data ELSE Put(data, t, top)
        /\ ret' = ~dup
    BY DEF AddAddress
  <1>3. dup <=> known
    <2> HIDE DEF v
    <2> QED
      BY <1>1
  <1>4. ret' = ~known
    BY <1>2, <1>3
  <1>5. CASE known
    <2>1. data' = data /\ ret' \in BOOLEAN
      BY <1>2, <1>3, <1>5
    <2>2. Inv'
      BY <2>1, TableSame
    <2>3. \A x, y, b : Stored(x, y, b)' <=> Stored(x, y, b)
      BY <2>1, TableSame
    <2> QED
      BY <1>4, <1>5, <2>2, <2>3
  <1>6. CASE ~known
    <2>1. /\ Sound(Append(v, a))
          /\ \A b : (\E i \in DOMAIN Append(v, a) : Append(v, a)[i] = b) <=>
                         (\E i \in DOMAIN v : v[i] = b) \/ b = a
      <3>1. \A i \in DOMAIN v : ~(v[i].addr = a.addr /\ v[i].node = a.node)
        BY <1>3, <1>6
      <3> HIDE DEF v
      <3> QED
        BY <1>1, <3>1, AppendSound
    <2> DEFINE w == Append(v, a)
    <2>2. /\ DOMAIN outer = IF t \in DOMAIN data THEN DOMAIN data[t] ELSE {}
          /\ t \in DOMAIN data => outer = data[t]
      BY DEF At, EmptyMap
    <2>3. /\ DOMAIN top = DOMAIN outer \cup {p}
          /\ \A y \in DOMAIN top : top[y] = IF y = p THEN w ELSE outer[y]
      <3>1. top = Put(outer, p, w)
        OBVIOUS
      <3> HIDE DEF top, outer, w
      <3> QED
        BY <3>1 DEF Put
    <2>4. data' = Put(data, t, top)
      BY <1>2, <1>3, <1>6
    <2> HIDE DEF top, outer, w
    <2>5. data' = PutOrErase(data, t, top)
      BY <2>3, <2>4 DEF PutOrErase
    <2>6. \A y \in DOMAIN top : y \in Procs /\ Sound(top[y])
      BY <2>1, <2>2, <2>3 DEF Inv, w
    <2>7. ret' \in BOOLEAN
      BY <1>2
    <2>8. /\ Inv'
          /\ \A x, y, b : Stored(x, y, b)' <=>
                 IF x = t THEN y \in DOMAIN top /\ \E i \in DOMAIN top[y] : top[y][i] = b
                 ELSE Stored(x, y, b)
      BY <2>5, <2>6, <2>7, TopicReplaced
    <2>9. ASSUME NEW x, NEW y, NEW b
          PROVE  Stored(x, y, b)' <=> Stored(x, y, b) \/ (x = t /\ y = p /\ b = a)
      <3>1. CASE x # t
        BY <2>8, <3>1
      <3>2. CASE x = t /\ y # p
        <4>1. Stored(x, y, b) <=>
                  /\ t \in DOMAIN data
                  /\ y \in DOMAIN data[t]
                  /\ \E i \in DOMAIN data[t][y] : data[t][y][i] = b
          BY <3>2 DEF Stored
        <4> QED
          BY <2>2, <2>3, <2>8, <3>2, <4>1
      <3>3. CASE x = t /\ y = p
        <4>1. Stored(x, y, b)' <=> \E i \in DOMAIN w : w[i] = b
          BY <2>3, <2>8, <3>3
        <4>2. Stored(x, y, b) <=> \E i \in DOMAIN v : v[i] = b
          BY <1>1, <3>3
        <4> QED
          BY <2>1, <3>3, <4>1, <4>2 DEF w
      <3> QED
        BY <3>1, <3>2, <3>3
    <2> HIDE DEF known
    <2>10. \A x, y, b : Stored(x, y, b)' <=>
               Stored(x, y, b) \/ (~known /\ x = t /\ y = p /\ b = a)
      BY <1>6, <2>9
    <2> QED
      BY <1>4, <2>8, <2>10 DEF known
  <1> QED
    BY <1>5, <1>6

\* What remove_if leaves of a vector: the addresses of the other nodes, each
\* once, and fewer than before if the node had any.
LEMMA RemoveSound ==
    ASSUME NEW v \in Seq(Address), Distinct(v), NEW n
    PROVE  LET w == Keep(v, DOMAIN v \ PositionsOf(v, n))
           IN  /\ w \in Seq(Address)
               /\ Distinct(w)
               /\ \A b : (\E i \in DOMAIN w : w[i] = b) <=>
                             (\E i \in DOMAIN v : v[i] = b) /\ b.node # n
               /\ Len(w) < Len(v) <=> \E i \in DOMAIN v : v[i].node = n
  <1> DEFINE I == DOMAIN v \ PositionsOf(v, n)
             w == Keep(v, I)
  <1>0. /\ I \in SUBSET DOMAIN v
        /\ \A i \in DOMAIN v : i \in I <=> v[i].node # n
    BY DEF PositionsOf
  <1> HIDE DEF I, w
  <1>1. /\ w \in Seq(Address)
        /\ Len(w) = Cardinality(I)
        /\ IsFiniteSet(DOMAIN v)
        /\ Cardinality(DOMAIN v) = Len(v)
        /\ \E f \in [DOMAIN w -> I] :
              /\ \A j \in DOMAIN w : w[j] = v[f[j]]
              /\ \A j, l \in DOMAIN w : f[j] = f[l] => j = l
              /\ \A i \in I : \E j \in DOMAIN w : f[j] = i
    <2>1. Kept(Address, v, I, w)
      BY <1>0, KeepIs DEF w
    <2> QED
      BY <2>1 DEF Kept
  <1>2. PICK f \in [DOMAIN w -> I] :
              /\ \A j \in DOMAIN w : w[j] = v[f[j]]
              /\ \A j, l \in DOMAIN w : f[j] = f[l] => j = l
              /\ \A i \in I : \E j \in DOMAIN w : f[j] = i
    BY <1>1
  <1>3. \A j \in DOMAIN w : f[j] \in I /\ f[j] \in DOMAIN v
    BY <1>0
  <1>4. Distinct(w)
    BY <1>2, <1>3 DEF Distinct
  <1>5. ASSUME NEW b
        PROVE  (\E i \in DOMAIN w : w[i] = b) <=>
                   (\E i \in DOMAIN v : v[i] = b) /\ b.node # n
    <2>1. ASSUME NEW i \in DOMAIN w, w[i] = b
          PROVE  (\E k \in DOMAIN v : v[k] = b) /\ b.node # n
      BY <1>0, <1>2, <1>3, <2>1
    <2>2. ASSUME NEW i \in DOMAIN v, v[i] = b, b.node # n
          PROVE  \E k \in DOMAIN w : w[k] = b
      <3>1. i \in I
        BY <1>0, <2>2
      <3> QED
        BY <1>2, <2>2, <3>1
    <2> QED
      BY <2>1, <2>2
  <1>6. Len(w) < Len(v) <=> \E i \in DOMAIN v : v[i].node = n
    <2>1. /\ Cardinality(I) \in Nat /\ Cardinality(I) <= Cardinality(DOMAIN v)
          /\ Cardinality(I) = Cardinality(DOMAIN v) => I = DOMAIN v
      BY <1>0, <1>1, FS_Subset, FS_CardinalityType
    <2>2. Len(v) \in Nat
      OBVIOUS
    <2>3. Len(w) < Len(v) <=> I # DOMAIN v
      BY <1>1, <2>1, <2>2
    <2>4. I # DOMAIN v <=> \E i \in DOMAIN v : v[i].node = n
      BY <1>0
    <2> QED
      BY <2>3, <2>4
  <1> QED
    BY <1>1, <1>4, <1>5, <1>6 DEF w, I

\* DelAddressByNode removes a node's addresses of a topic and answers whether
\* there were any.
LEMMA DelByNodeEffect ==
    ASSUME Inv, NEW t \in Topics, NEW p \in Procs, NEW n \in Nodes,
           DelAddressByNode(t, p, n)
    PROVE  /\ Inv'
           /\ \A x, y, b : Stored(x, y, b)' <=>
                  Stored(x, y, b) /\ ~(x = t /\ y = p /\ b.node = n)
           /\ ret' = \E b : Stored(t, p, b) /\ b.node = n
  <1> DEFINE v == Vector(t, p)
             w == Keep(v, DOMAIN v \ PositionsOf(v, n))
  <1>1. /\ v \in Seq(Address) /\ Distinct(v)
        /\ HasAnyAddresses(t, p) => v = data[t][p]
        /\ \A b : Stored(t, p, b) <=> \E i \in DOMAIN v : v[i] = b
    BY VectorIs
  <1>2. /\ data' = IF HasAnyAddresses(t, p)
                   THEN PutOrErase(data, t, PutOrErase(data[t], p, w))
                   ELSE data
        /\ ret' = (Len(w) < Len(v))
    BY DEF DelAddressByNode
  <1> HIDE DEF v
  <1>3. /\ w \in Seq(Address)
        /\ Distinct(w)
        /\ \A b : (\E i \in DOMAIN w : w[i] = b) <=>
                      (\E i \in DOMAIN v : v[i] = b) /\ b.node # n
        /\ Len(w) < Len(v) <=> \E i \in DOMAIN v : v[i].node = n
    BY <1>1, RemoveSound
  <1> HIDE DEF w
  <1>4. ret' = \E b : Stored(t, p, b) /\ b.node = n
    <2>1. (Len(w) < Len(v)) <=> \E b : Stored(t, p, b) /\ b.node = n
      BY <1>1, <1>3
    <2>2. ret' = (Len(w) < Len(v))
      BY <1>2
    <2>3. ret' \in BOOLEAN
      BY <2>2
    <2>4. ret' <=> \E b : Stored(t, p, b) /\ b.node = n
      BY <2>1, <2>2, Zenon
    <2> QED
      BY <2>3, <2>4
  <1>5. ret' \in BOOLEAN
    BY <1>2
  <1>6. CASE ~HasAnyAddresses(t, p)
    <2>1. data' = data
      BY <1>2, <1>6
    <2>2. \A b : ~Stored(t, p, b)
      BY <1>6 DEF Stored, HasAnyAddresses, HasTopic
    <2>3. Inv' /\ \A x, y, b : Stored(x, y, b)' <=> Stored(x, y, b)
      BY <1>5, <2>1, TableSame
    <2>4. \A x, y, b : Stored(x, y, b)' <=>
              Stored(x, y, b) /\ ~(x = t /\ y = p /\ b.node = n)
      BY <2>2, <2>3
    <2> QED
      BY <1>4, <2>3, <2>4
  <1>7. CASE HasAnyAddresses(t, p)
    <2> DEFINE top == PutOrErase(data[t], p, w)
    <2>0. t \in DOMAIN data /\ p \in DOMAIN data[t]
      BY <1>7 DEF HasAnyAddresses, HasTopic
    <2>1. data' = PutOrErase(data, t, top)
      BY <1>2, <1>7
    <2>2. /\ DOMAIN top = IF DOMAIN w = {} THEN DOMAIN data[t] \ {p}
                          ELSE DOMAIN data[t] \cup {p}
          /\ \A y \in DOMAIN top : top[y] = IF y = p THEN w ELSE data[t][y]
      BY DEF PutOrErase, Put, Erase
    <2> HIDE DEF top
    <2>3. \A y \in DOMAIN top : y \in Procs /\ Sound(top[y])
      <3> SUFFICES ASSUME NEW y \in DOMAIN top PROVE y \in Procs /\ Sound(top[y])
        OBVIOUS
      <3>1. CASE y = p
        BY <1>3, <2>2, <3>1 DEF Sound
      <3>2. CASE y # p
        <4>1. y \in DOMAIN data[t] /\ top[y] = data[t][y]
          BY <2>2, <3>2
        <4> QED
          BY <2>0, <4>1 DEF Inv
      <3> QED
        BY <3>1, <3>2
    <2>4. /\ Inv'
          /\ \A x, y, b : Stored(x, y, b)' <=>
                 IF x = t THEN y \in DOMAIN top /\ \E i \in DOMAIN top[y] : top[y][i] = b
                 ELSE Stored(x, y, b)
      BY <1>5, <2>1, <2>3, TopicReplaced
    <2>5. ASSUME NEW x, NEW y, NEW b
          PROVE  Stored(x, y, b)' <=>
                     Stored(x, y, b) /\ ~(x = t /\ y = p /\ b.node = n)
      <3>1. CASE x # t
        BY <2>4, <3>1
      <3>2. CASE x = t /\ y # p
        <4>1. Stored(x, y, b) <=>
                  y \in DOMAIN data[t] /\ \E i \in DOMAIN data[t][y] : data[t][y][i] = b
          BY <2>0, <3>2 DEF Stored
        <4> QED
          BY <2>0, <2>2, <2>4, <3>2, <4>1
      <3>3. CASE x = t /\ y = p
        <4>1. Stored(x, y, b)' <=> \E i \in DOMAIN w : w[i] = b
          <5>1. Stored(x, y, b)' <=>
                    p \in DOMAIN top /\ \E i \in DOMAIN top[p] : top[p][i] = b
            BY <2>4, <3>3
          <5>2. CASE DOMAIN w = {}
            BY <2>2, <5>1, <5>2
          <5>3. CASE DOMAIN w # {}
            BY <2>2, <5>1, <5>3
          <5> QED
            BY <5>2, <5>3
        <4> QED
          BY <1>1, <1>3, <3>3, <4>1
      <3> QED
        BY <3>1, <3>2, <3>3
    <2> QED
      BY <1>4, <2>4, <2>5
  <1> QED
    BY <1>6, <1>7

\* DelAddressesByProc removes a process from every topic; its answer can only
\* be TRUE if the process had an address.
LEMMA DelByProcEffect ==
    ASSUME Inv, NEW p \in Procs, DelAddressesByProc(p)
    PROVE  /\ Inv'
           /\ \A x, y, b : Stored(x, y, b)' <=> Stored(x, y, b) /\ y # p
  <1> DEFINE left == {u \in DOMAIN data : DOMAIN data[u] # {p}}
  <1>1. data' = [t \in left |-> Erase(data[t], p)]
    BY DEF DelAddressesByProc
  <1>2. /\ DOMAIN data' = left
        /\ \A t \in left : /\ DOMAIN data'[t] = DOMAIN data[t] \ {p}
                           /\ \A q \in DOMAIN data'[t] : data'[t][q] = data[t][q]
    <2> HIDE DEF left
    <2> QED
      BY <1>1 DEF Erase
  <1>3. ret' \in BOOLEAN
    BY DEF DelAddressesByProc
  <1>4. \A t \in DOMAIN data' :
            /\ DOMAIN data'[t] \subseteq Procs
            /\ DOMAIN data'[t] # {}
            /\ \A q \in DOMAIN data'[t] : Sound(data'[t][q])
    BY <1>2 DEF Inv
  <1>5. Inv'
    BY <1>2, <1>3, <1>4 DEF Inv, Sound, Distinct, Address
  <1>6. ASSUME NEW x, NEW y, NEW b
        PROVE  Stored(x, y, b)' <=> Stored(x, y, b) /\ y # p
    <2>1. Stored(x, y, b)' <=>
              /\ x \in DOMAIN data'
              /\ y \in DOMAIN data'[x]
              /\ \E i \in DOMAIN data'[x][y] : data'[x][y][i] = b
      BY DEF Stored
    <2>2. Stored(x, y, b) <=>
              /\ x \in DOMAIN data
              /\ y \in DOMAIN data[x]
              /\ \E i \in DOMAIN data[x][y] : data[x][y][i] = b
      BY DEF Stored
    <2> QED
      BY <1>2, <2>1, <2>2
  <1> QED
    BY <1>5, <1>6

\* Inv is inductive.
LEMMA InvStep ==
    ASSUME Inv, [Next]_vars
    PROVE  Inv'
  <1>1. CASE UNCHANGED vars
    <2>1. data' = data /\ ret' \in BOOLEAN
      BY <1>1 DEF vars, Inv
    <2> QED
      BY <2>1, TableSame
  <1>2. ASSUME NEW t \in Topics, NEW p \in Procs, NEW a \in Address,
               AddAddress(t, p, a)
        PROVE  Inv'
    BY <1>2, AddEffect
  <1>3. ASSUME NEW t \in Topics, NEW p \in Procs, NEW n \in Nodes,
               DelAddressByNode(t, p, n)
        PROVE  Inv'
    BY <1>3, DelByNodeEffect
  <1>4. ASSUME NEW p \in Procs, DelAddressesByProc(p)
        PROVE  Inv'
    BY <1>4, DelByProcEffect
  <1> QED
    BY <1>1, <1>2, <1>3, <1>4 DEF Next

\* Inv holds in every reachable state.
LEMMA InvAlways == Spec => []Inv
  <1>1. Init => Inv
    BY DEF Init, Inv, EmptyMap
  <1>2. Inv /\ [Next]_vars => Inv'
    BY InvStep
  <1> QED
    BY <1>1, <1>2, PTL DEF Spec

\* The table is well typed after any sequence of calls.
THEOREM TypeCorrect == Spec => []TypeOK
  <1>1. Inv => TypeOK
    BY DEF Inv, TypeOK, Sound
  <1> QED
    BY <1>1, InvAlways, PTL

\* No vector holds an endpoint of a node twice, after any sequence of calls.
THEOREM StoredOnce == Spec => []NoDuplicates
  <1>1. Inv => NoDuplicates
    BY DEF Inv, NoDuplicates, Sound, Distinct
  <1> QED
    BY <1>1, InvAlways, PTL

---------------------------------------------------------------------------
\* The table as a set of entries.

Ent(t, p, a) == [topic |-> t, proc |-> p, addr |-> a.addr,
                 node |-> a.node, scope |-> a.scope]

AddressOf(e) == [addr |-> e.addr, node |-> e.node, scope |-> e.scope]

\* An address is in the table if and only if its entry is in the set.
EntriesAreStored ==
    /\ \A t, p : \A a \in Address : Ent(t, p, a) \in Entries <=> Stored(t, p, a)
    /\ \A e \in Entries : /\ e = Ent(e.topic, e.proc, AddressOf(e))
                          /\ AddressOf(e) \in Address
                          /\ e.topic \in Topics /\ e.proc \in Procs
                          /\ Stored(e.topic, e.proc, AddressOf(e))

\* The fields of an entry; different addresses have different entries.
LEMMA EntFields ==
    ASSUME NEW t, NEW p, NEW a \in Address
    PROVE  /\ Ent(t, p, a).topic = t
           /\ Ent(t, p, a).proc = p
           /\ Ent(t, p, a).addr = a.addr
           /\ Ent(t, p, a).node = a.node
           /\ Ent(t, p, a).scope = a.scope
           /\ AddressOf(Ent(t, p, a)) = a
  BY DEF Ent, AddressOf, Address

\* What is stored has the types of the constants.
LEMMA StoredTypes ==
    ASSUME Inv, NEW t, NEW p, NEW a, Stored(t, p, a)
    PROVE  t \in Topics /\ p \in Procs /\ a \in Address
  <1>1. /\ t \in DOMAIN data /\ p \in DOMAIN data[t]
        /\ \E i \in DOMAIN data[t][p] : data[t][p][i] = a
    BY DEF Stored
  <1>2. data[t][p] \in Seq(Address)
    BY <1>1 DEF Inv, Sound
  <1>3. \A i \in DOMAIN data[t][p] : data[t][p][i] \in Address
    BY <1>2
  <1> QED
    BY <1>1, <1>3 DEF Inv

\* They are.
LEMMA EntriesAre ==
    ASSUME Inv
    PROVE  EntriesAreStored
  <1>1. ASSUME NEW t, NEW p, NEW a, Stored(t, p, a)
        PROVE  Ent(t, p, a) \in Entries
    <2>1. /\ t \in DOMAIN data /\ p \in DOMAIN data[t]
          /\ \E i \in DOMAIN data[t][p] : data[t][p][i] = a
      BY <1>1 DEF Stored
    <2>2. PICK i \in DOMAIN data[t][p] : data[t][p][i] = a
      BY <2>1
    <2>3. Ent(t, p, a) \in
              {[topic |-> t, proc |-> p, addr |-> data[t][p][k].addr,
                node |-> data[t][p][k].node, scope |-> data[t][p][k].scope] :
                   k \in DOMAIN data[t][p]}
      BY <2>2 DEF Ent
    <2> QED
      BY <2>1, <2>3 DEF Entries
  <1>2. ASSUME NEW e \in Entries
        PROVE  \E t, p, a : e = Ent(t, p, a) /\ Stored(t, p, a)
    <2>1. PICK t \in DOMAIN data :
              e \in UNION {{[topic |-> t, proc |-> p, addr |-> data[t][p][i].addr,
                             node |-> data[t][p][i].node,
                             scope |-> data[t][p][i].scope] :
                                i \in DOMAIN data[t][p]} : p \in DOMAIN data[t]}
      BY <1>2 DEF Entries
    <2>2. PICK p \in DOMAIN data[t] :
              e \in {[topic |-> t, proc |-> p, addr |-> data[t][p][i].addr,
                      node |-> data[t][p][i].node,
                      scope |-> data[t][p][i].scope] : i \in DOMAIN data[t][p]}
      BY <2>1
    <2>3. PICK i \in DOMAIN data[t][p] :
              e = [topic |-> t, proc |-> p, addr |-> data[t][p][i].addr,
                   node |-> data[t][p][i].node, scope |-> data[t][p][i].scope]
      BY <2>2
    <2>4. e = Ent(t, p, data[t][p][i]) /\ Stored(t, p, data[t][p][i])
      BY <2>3 DEF Ent, Stored
    <2> QED
      BY <2>4
  <1>3. ASSUME NEW e \in Entries
        PROVE  /\ e = Ent(e.topic, e.proc, AddressOf(e))
               /\ AddressOf(e) \in Address
               /\ e.topic \in Topics /\ e.proc \in Procs
               /\ Stored(e.topic, e.proc, AddressOf(e))
    <2>1. PICK t, p, a : e = Ent(t, p, a) /\ Stored(t, p, a)
      BY <1>2
    <2>2. t \in Topics /\ p \in Procs /\ a \in Address
      BY <2>1, StoredTypes
    <2>3. e.topic = t /\ e.proc = p /\ AddressOf(e) = a
      BY <2>1, <2>2, EntFields
    <2> QED
      BY <2>1, <2>2, <2>3
  <1>4. ASSUME NEW t, NEW p, NEW a \in Address, Ent(t, p, a) \in Entries
        PROVE  Stored(t, p, a)
    <2> DEFINE e == Ent(t, p, a)
    <2>1. e.topic = t /\ e.proc = p /\ AddressOf(e) = a
      BY EntFields
    <2>2. Stored(e.topic, e.proc, AddressOf(e))
      BY <1>3, <1>4
    <2> HIDE DEF e
    <2> QED
      BY <2>1, <2>2
  <1> QED
    BY <1>1, <1>3, <1>4 DEF EntriesAreStored

\* GetAddress finds an address of a node if and only if one is stored.
LEMMA NodeAddresses ==
    ASSUME Inv, NEW t, NEW p, NEW n
    PROVE  AddressesOfNode(t, p, n) # <<>> <=> \E a : Stored(t, p, a) /\ a.node = n
  <1> DEFINE v == Vector(t, p)
             I == PositionsOf(v, n)
             w == Keep(v, I)
  <1>1. /\ v \in Seq(Address)
        /\ \A a : Stored(t, p, a) <=> \E i \in DOMAIN v : v[i] = a
    BY VectorIs
  <1>2. AddressesOfNode(t, p, n) = w
    BY DEF AddressesOfNode
  <1> HIDE DEF v
  <1>3. /\ I \in SUBSET DOMAIN v
        /\ \A i \in DOMAIN v : i \in I <=> v[i].node = n
    BY DEF PositionsOf
  <1> HIDE DEF I, w
  <1>4. Kept(Address, v, I, w)
    BY <1>1, <1>3, KeepIs DEF w
  <1>5. w \in Seq(Address)
    BY <1>4 DEF Kept
  <1>6. PICK f \in [DOMAIN w -> I] : \A i \in I : \E j \in DOMAIN w : f[j] = i
    BY <1>4 DEF Kept
  <1>7. DOMAIN w # {} <=> I # {}
    BY <1>6
  <1>8. w # <<>> <=> DOMAIN w # {}
    BY <1>5
  <1>9. I # {} <=> \E a : Stored(t, p, a) /\ a.node = n
    BY <1>1, <1>3
  <1> QED
    BY <1>2, <1>7, <1>8, <1>9

\* The queries answer of the stored addresses and of no others.
THEOREM QueriesCorrect == Spec => []QueriesAgree
  <1>1. ASSUME Inv PROVE QueriesAgree
    <2> USE <1>1
    <2>0. EntriesAreStored
      BY EntriesAre
    <2>1. ASSUME NEW t, NEW p, NEW a, Stored(t, p, a)
          PROVE  /\ Ent(t, p, a) \in Entries
                 /\ Ent(t, p, a).topic = t /\ Ent(t, p, a).proc = p
                 /\ Ent(t, p, a).addr = a.addr /\ Ent(t, p, a).node = a.node
      <3>1. a \in Address
        BY <2>1, StoredTypes
      <3> QED
        BY <2>0, <2>1, <3>1, EntFields DEF EntriesAreStored
    <2>2. ASSUME NEW e \in Entries
          PROVE  /\ Stored(e.topic, e.proc, AddressOf(e))
                 /\ AddressOf(e).addr = e.addr /\ AddressOf(e).node = e.node
      BY <2>0 DEF EntriesAreStored, AddressOf
    <2>3. ASSUME NEW t, NEW p
          PROVE  HasAnyAddresses(t, p) <=> \E a : Stored(t, p, a)
      <3>1. ASSUME HasAnyAddresses(t, p)
            PROVE  \E a : Stored(t, p, a)
        <4>1. t \in DOMAIN data /\ p \in DOMAIN data[t]
          BY <3>1 DEF HasAnyAddresses, HasTopic
        <4>2. DOMAIN data[t][p] # {}
          BY <4>1 DEF Inv, Sound
        <4>3. PICK i \in DOMAIN data[t][p] : TRUE
          BY <4>2
        <4>4. Stored(t, p, data[t][p][i])
          BY <4>1, <4>3 DEF Stored
        <4> QED
          BY <4>4
      <3>2. ASSUME NEW a, Stored(t, p, a)
            PROVE  HasAnyAddresses(t, p)
        BY <3>2 DEF Stored, HasAnyAddresses, HasTopic
      <3> QED
        BY <3>1, <3>2
    <2>4. ASSUME NEW t
          PROVE  HasTopic(t) <=> \E p, a : Stored(t, p, a)
      <3>1. ASSUME HasTopic(t)
            PROVE  \E p, a : Stored(t, p, a)
        <4>1. PICK p : p \in DOMAIN data[t]
          BY <3>1 DEF HasTopic, Inv
        <4>2. HasAnyAddresses(t, p)
          BY <3>1, <4>1 DEF HasAnyAddresses
        <4> QED
          BY <2>3, <4>2
      <3>2. ASSUME NEW p, NEW a, Stored(t, p, a)
            PROVE  HasTopic(t)
        BY <3>2 DEF Stored, HasTopic
      <3> QED
        BY <3>1, <3>2
    <2>5. ASSUME NEW t \in Topics
          PROVE  HasTopic(t) <=> Book!HasTopic(Entries, t)
      <3>1. ASSUME NEW p, NEW a, Stored(t, p, a)
            PROVE  \E e \in Entries : e.topic = t
        BY <2>1, <3>1
      <3>2. ASSUME NEW e \in Entries, e.topic = t
            PROVE  \E p, a : Stored(t, p, a)
        BY <2>2, <3>2
      <3> QED
        BY <2>4, <3>1, <3>2 DEF Book!HasTopic
    <2>6. ASSUME NEW t \in Topics, NEW p \in Procs
          PROVE  HasAnyAddresses(t, p) <=> Book!HasAnyAddresses(Entries, t, p)
      <3>1. ASSUME NEW a, Stored(t, p, a)
            PROVE  \E e \in Entries : e.proc = p /\ e.topic = t
        BY <2>1, <3>1
      <3>2. ASSUME NEW e \in Entries, e.proc = p, e.topic = t
            PROVE  \E a : Stored(t, p, a)
        BY <2>2, <3>2
      <3>3. Book!HasAnyAddresses(Entries, t, p) <=>
                \E e \in Entries : e.proc = p /\ e.topic = t
        BY DEF Book!HasAnyAddresses, Book!HasTopic, Book!AddressesByProc
      <3> QED
        BY <2>3, <3>1, <3>2, <3>3
    <2>7. ASSUME NEW t \in Topics, NEW p \in Procs, NEW n \in Nodes
          PROVE  AddressesOfNode(t, p, n) # <<>> <=>
                     Book!AddressesByNode(Entries, t, p, n) # {}
      <3>1. ASSUME NEW a, Stored(t, p, a), a.node = n
            PROVE  \E e \in Entries : e.topic = t /\ e.proc = p /\ e.node = n
        BY <2>1, <3>1
      <3>2. ASSUME NEW e \in Entries, e.topic = t, e.proc = p, e.node = n
            PROVE  \E a : Stored(t, p, a) /\ a.node = n
        BY <2>2, <3>2
      <3>3. Book!AddressesByNode(Entries, t, p, n) # {} <=>
                \E e \in Entries : e.topic = t /\ e.proc = p /\ e.node = n
        BY DEF Book!AddressesByNode
      <3> QED
        BY <3>1, <3>2, <3>3, NodeAddresses
    <2>8. ASSUME NEW a \in Addrs
          PROVE  HasAddress(a) <=> Book!HasAddress(Entries, a)
      <3>1. HasAddress(a) <=> \E t, p, b : Stored(t, p, b) /\ b.addr = a
        BY DEF HasAddress, Stored
      <3>2. ASSUME NEW t, NEW p, NEW b, Stored(t, p, b), b.addr = a
            PROVE  \E e \in Entries : e.addr = a
        BY <2>1, <3>2
      <3>3. ASSUME NEW e \in Entries, e.addr = a
            PROVE  \E t, p, b : Stored(t, p, b) /\ b.addr = a
        BY <2>2, <3>3
      <3> QED
        BY <3>1, <3>2, <3>3 DEF Book!HasAddress
    <2>9. ASSUME NEW p \in Procs
          PROVE  GetAddressesByProc(p) =
                     {e.topic : e \in Book!AddressesByProc(Entries, p)}
      <3>1. \A t : t \in GetAddressesByProc(p) <=> HasAnyAddresses(t, p)
        BY DEF GetAddressesByProc, HasAnyAddresses, HasTopic
      <3>2. ASSUME NEW t, NEW a, Stored(t, p, a)
            PROVE  \E e \in Entries : e.proc = p /\ e.topic = t
        BY <2>1, <3>2
      <3>3. ASSUME NEW t, NEW e \in Entries, e.proc = p, e.topic = t
            PROVE  \E a : Stored(t, p, a)
        BY <2>2, <3>3
      <3>4. \A t : t \in {e.topic : e \in Book!AddressesByProc(Entries, p)} <=>
                       \E e \in Entries : e.proc = p /\ e.topic = t
        BY DEF Book!AddressesByProc
      <3>5. \A t : t \in GetAddressesByProc(p) <=>
                       t \in {e.topic : e \in Book!AddressesByProc(Entries, p)}
        BY <2>3, <3>1, <3>2, <3>3, <3>4
      <3> QED
        BY <3>5
    <2> QED
      BY <2>5, <2>6, <2>7, <2>8, <2>9 DEF QueriesAgree
  <1> QED
    BY <1>1, InvAlways, PTL

---------------------------------------------------------------------------
\* The refinement.

\* What a step does to the addresses stored it does to the entries.
LEMMA BookStep ==
    ASSUME Inv, EntriesAreStored, EntriesAreStored', [Next]_vars
    PROVE  Book!EntriesNext \/ (Entries' = Entries /\ ret' = ret)
  <1>0. ASSUME NEW e \in Entries \cup Entries'
        PROVE  e = Ent(e.topic, e.proc, AddressOf(e)) /\ AddressOf(e) \in Address
    <2>1. CASE e \in Entries
      BY <2>1 DEF EntriesAreStored
    <2>2. CASE e \in Entries'
      BY <2>2 DEF EntriesAreStored, Ent, Address, AddressOf
    <2> QED
      BY <1>0, <2>1, <2>2
  <1>1. ASSUME NEW t, NEW p, NEW a \in Address
        PROVE  /\ Ent(t, p, a) \in Entries <=> Stored(t, p, a)
               /\ Ent(t, p, a) \in Entries' <=> Stored(t, p, a)'
    <2>1. Ent(t, p, a) \in Entries <=> Stored(t, p, a)
      BY DEF EntriesAreStored
    <2>2. Ent(t, p, a) \in Entries' <=> Stored(t, p, a)'
      BY DEF EntriesAreStored, Ent, Address
    <2> QED
      BY <2>1, <2>2
  <1>2. ASSUME NEW e \in Entries \cup Entries'
        PROVE  /\ e \in Entries <=> Stored(e.topic, e.proc, AddressOf(e))
               /\ e \in Entries' <=> Stored(e.topic, e.proc, AddressOf(e))'
               /\ AddressOf(e).addr = e.addr /\ AddressOf(e).node = e.node
    <2>1. AddressOf(e).addr = e.addr /\ AddressOf(e).node = e.node
      BY DEF AddressOf
    <2> QED
      BY <1>0, <1>1, <2>1
  <1>3. CASE UNCHANGED vars
    BY <1>3 DEF vars, Entries
  <1>4. ASSUME NEW t \in Topics, NEW p \in Procs, NEW a \in Address,
               AddAddress(t, p, a)
        PROVE  Book!EntriesNext
    <2> DEFINE known == \E b : Stored(t, p, b) /\ b.addr = a.addr /\ b.node = a.node
               new == Ent(t, p, a)
    <2>1. /\ \A x, y, b : Stored(x, y, b)' <=>
                 Stored(x, y, b) \/ (~known /\ x = t /\ y = p /\ b = a)
          /\ ret' = ~known
      BY <1>4, AddEffect
    <2>2. /\ new.topic = t /\ new.proc = p /\ new.addr = a.addr
          /\ new.node = a.node /\ AddressOf(new) = a
      BY EntFields
    <2>3. new \in Book!Entry
      BY DEF Book!Entry, Ent, Address
    <2>4. known <=> Book!HasEntry(Entries, new)
      <3>1. ASSUME NEW b, Stored(t, p, b), b.addr = a.addr, b.node = a.node
            PROVE  \E e \in Entries : Book!SameAddress(new, e)
        <4>1. b \in Address
          BY <3>1, StoredTypes
        <4>2. Ent(t, p, b) \in Entries
          BY <1>1, <3>1, <4>1
        <4>3. Book!SameAddress(new, Ent(t, p, b))
          BY <3>1, <4>1, <2>2, EntFields DEF Book!SameAddress
        <4> QED
          BY <4>2, <4>3
      <3>2. ASSUME NEW e \in Entries, Book!SameAddress(new, e)
            PROVE  known
        BY <1>2, <2>2, <3>2 DEF Book!SameAddress
      <3> QED
        BY <3>1, <3>2 DEF Book!HasEntry
    <2>5. /\ known => Entries' = Entries
          /\ ~known => Entries' = Entries \cup {new}
      <3> HIDE DEF known, new
      <3>1. ASSUME NEW e \in Entries
            PROVE  e \in Entries'
        BY <1>2, <2>1
      <3>2. ASSUME NEW e \in Entries'
            PROVE  e \in Entries \/ (~known /\ e = new)
        <4>1. e \in Entries \/ (~known /\ e.topic = t /\ e.proc = p /\ AddressOf(e) = a)
          BY <1>2, <2>1
        <4> QED
          BY <1>0, <4>1 DEF new
      <3>3. ~known => new \in Entries'
        BY <1>1, <2>1 DEF new
      <3> QED
        BY <3>1, <3>2, <3>3
    <2> HIDE DEF known, new
    <2>6. Entries' = Book!AddAddress(Entries, new)
      BY <2>4, <2>5 DEF Book!AddAddress
    <2>7. ret' = ~Book!HasEntry(Entries, new)
      <3>1. ret' \in BOOLEAN /\ (ret' <=> ~known)
        BY <2>1, Zenon
      <3>2. Book!HasEntry(Entries, new) \in BOOLEAN
        BY DEF Book!HasEntry
      <3> QED
        BY <2>4, <3>1, <3>2
    <2>8. Book!Add(new)
      BY <2>6, <2>7 DEF Book!Add
    <2> QED
      BY <2>3, <2>8 DEF Book!EntriesNext
  <1>5. ASSUME NEW t \in Topics, NEW p \in Procs, NEW n \in Nodes,
               DelAddressByNode(t, p, n)
        PROVE  Book!EntriesNext
    <2> DEFINE some == \E b : Stored(t, p, b) /\ b.node = n
               gone == Book!AddressesByNode(Entries, t, p, n)
    <2>1. /\ \A x, y, b : Stored(x, y, b)' <=>
                 Stored(x, y, b) /\ ~(x = t /\ y = p /\ b.node = n)
          /\ ret' = some
      BY <1>5, DelByNodeEffect
    <2>2. gone = {e \in Entries : e.topic = t /\ e.proc = p /\ e.node = n}
      BY DEF Book!AddressesByNode
    <2> HIDE DEF gone
    <2>3. Entries' = Entries \ gone
      <3>1. ASSUME NEW e \in Entries \ gone
            PROVE  e \in Entries'
        BY <1>2, <2>1, <2>2
      <3>2. ASSUME NEW e \in Entries'
            PROVE  e \in Entries \ gone
        BY <1>2, <2>1, <2>2
      <3> QED
        BY <3>1, <3>2
    <2>4. some <=> gone # {}
      <3>1. ASSUME NEW b, Stored(t, p, b), b.node = n
            PROVE  gone # {}
        <4>1. b \in Address
          BY <3>1, StoredTypes
        <4>2. Ent(t, p, b) \in gone
          BY <1>1, <2>2, <3>1, <4>1, EntFields
        <4> QED
          BY <4>2
      <3>2. ASSUME NEW e \in gone
            PROVE  some
        BY <1>2, <2>2
      <3> QED
        BY <3>1, <3>2
    <2>5. ret' = (gone # {})
      <3>1. ret' \in BOOLEAN /\ (ret' <=> some)
        BY <2>1, Zenon
      <3> QED
        BY <2>4, <3>1
    <2>6. Book!DelByNode(t, p, n)
      BY <2>3, <2>5 DEF Book!DelByNode, Book!DelAddressByNode, gone
    <2> QED
      BY <2>6 DEF Book!EntriesNext
  <1>6. ASSUME NEW p \in Procs, DelAddressesByProc(p)
        PROVE  Book!EntriesNext
    <2> DEFINE gone == Book!AddressesByProc(Entries, p)
    <2>1. \A x, y, b : Stored(x, y, b)' <=> Stored(x, y, b) /\ y # p
      BY <1>6, DelByProcEffect
    <2>2. gone = {e \in Entries : e.proc = p}
      BY DEF Book!AddressesByProc
    <2> HIDE DEF gone
    <2>3. Entries' = Entries \ gone
      <3>1. ASSUME NEW e \in Entries \ gone
            PROVE  e \in Entries'
        BY <1>2, <2>1, <2>2
      <3>2. ASSUME NEW e \in Entries'
            PROVE  e \in Entries \ gone
        BY <1>2, <2>1, <2>2
      <3> QED
        BY <3>1, <3>2
    <2>4. Entries' = Book!DelAddressesByProc(Entries, p)
      BY <2>3 DEF Book!DelAddressesByProc, gone
    <2> QED
      BY <2>4 DEF Book!EntriesNext
  <1> QED
    BY <1>3, <1>4, <1>5, <1>6 DEF Next

\* TopicStorage keeps the entries of AddressBook: no call loses, doubles or
\* invents an address, and AddAddress and DelAddressByNode answer as documented.
THEOREM ImplementsEntries == Spec => RefinesEntries
  <1>1. Init => Book!Init
    BY DEF Init, Book!Init, Entries, EmptyMap
  <1>2. Inv => EntriesAreStored
    BY EntriesAre
  <1>3. Inv /\ EntriesAreStored /\ EntriesAreStored' /\ [Next]_vars
            => [Book!EntriesNext]_<<Entries, ret>>
    BY BookStep
  <1> QED
    BY <1>1, <1>2, <1>3, InvAlways, PTL DEF Spec, RefinesEntries, Book!EntriesSpec

=============================================================================

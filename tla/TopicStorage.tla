---------------------------- MODULE TopicStorage ----------------------------
(***************************************************************************)
(* Class TopicStorage (src/src/TopicStorage.cc): a map from topics to maps *)
(* from process UUIDs to vectors of addresses.  One action per method that *)
(* changes the table; the queries are operators over the current table.    *)
(* Topics are numbers because std::map visits its keys in order, and one   *)
(* answer (of DelAddressesByProc) depends on that order.                   *)
(***************************************************************************)
EXTENDS Maps, Integers, Sequences, FiniteSets

CONSTANTS Topics, Procs, Addrs, Nodes, Scopes,
          MaxAddresses    \* bound: addresses stored at once

ASSUME StorageAssumption == Topics \subseteq Nat /\ MaxAddresses \in Nat

VARIABLES data,   \* topic -> (pUuid -> vector of [addr, node, scope])
          ret     \* the answer of the last method called

vars == <<data, ret>>

Address == [addr : Addrs, node : Nodes, scope : Scopes]

---------------------------------------------------------------------------
Vector(t, p) == At(At(data, t, EmptyMap), p, <<>>)

\* Where vector v has the addresses of node n.
PositionsOf(v, n) == {i \in DOMAIN v : v[i].node = n}

\* What vector v has at the positions in I, in its order.
Keep(v, I) ==
    LET Nth(j) == CHOOSE i \in I : Cardinality({k \in I : k <= i}) = j
    IN  [j \in 1..Cardinality(I) |-> v[Nth(j)]]

---------------------------------------------------------------------------
\* The table as the set of entries it stands for.
Entries ==
    UNION {UNION {{[topic |-> t, proc |-> p, addr |-> data[t][p][i].addr,
                    node |-> data[t][p][i].node, scope |-> data[t][p][i].scope] :
                       i \in DOMAIN data[t][p]} :
                  p \in DOMAIN data[t]} :
           t \in DOMAIN data}

Book == INSTANCE AddressBook WITH book <- Entries

---------------------------------------------------------------------------
\* The queries.
HasTopic(t) == t \in DOMAIN data

HasAnyAddresses(t, p) == HasTopic(t) /\ p \in DOMAIN data[t]

HasAddress(a) ==
    \E t \in DOMAIN data : \E p \in DOMAIN data[t] :
        \E i \in DOMAIN data[t][p] : data[t][p][i].addr = a

\* GetAddress finds an address iff this is non-empty, and answers its first.
AddressesOfNode(t, p, n) == Keep(Vector(t, p), PositionsOf(Vector(t, p), n))

GetAddressesByProc(p) == {t \in DOMAIN data : p \in DOMAIN data[t]}

---------------------------------------------------------------------------
Init == data = EmptyMap /\ ret = FALSE

\* Mutant: the answer is taken before the duplicate is looked up.
AddAlways(t, p, a) ==
    /\ data' = Put(data, t, Put(At(data, t, EmptyMap), p,
                                Append(Vector(t, p), a)))
    /\ ret' = TRUE

\* Mutant: the initializer list of the new address is in the wrong order.
AddSwapped(t, p, a) ==
    /\ data' = Put(data, t, Put(At(data, t, EmptyMap), p,
                                Append(Vector(t, p), [a EXCEPT !.addr = a.node,
                                                               !.node = a.addr])))
    /\ ret' = TRUE

AddAddress(t, p, a) ==
    LET v == Vector(t, p)
        known == \E i \in DOMAIN v : v[i].addr = a.addr /\ v[i].node = a.node
    IN  /\ data' = IF known THEN data
                   ELSE Put(data, t, Put(At(data, t, EmptyMap), p, Append(v, a)))
        /\ ret' = ~known

\* Mutant: the maps that became empty stay in the table.
DelLeavesEmptyMaps(t, p, n) ==
    LET v == Keep(Vector(t, p), DOMAIN Vector(t, p) \ PositionsOf(Vector(t, p), n))
    IN  /\ data' = IF HasAnyAddresses(t, p)
                   THEN Put(data, t, Put(data[t], p, v))
                   ELSE data
        /\ ret' = (Len(v) < Len(Vector(t, p)))

\* std::remove_if and erase.
DelAddressByNode(t, p, n) ==
    LET v == Keep(Vector(t, p), DOMAIN Vector(t, p) \ PositionsOf(Vector(t, p), n))
    IN  /\ data' = IF HasAnyAddresses(t, p)
                   THEN PutOrErase(data, t, PutOrErase(data[t], p, v))
                   ELSE data
        /\ ret' = (Len(v) < Len(Vector(t, p)))

\* Mutant: the loop advances past the topic after an erased one.
DelSkipsNextTopic(p) ==
    LET skipped == {t \in DOMAIN data : \E u \in DOMAIN data :
                       u < t /\ DOMAIN data[u] = {p}}
    IN  /\ data' = [t \in skipped \cup {u \in DOMAIN data : DOMAIN data[u] # {p}} |->
                       IF t \in skipped THEN data[t] ELSE Erase(data[t], p)]
        /\ ret' = (data' # data)

\* counter is assigned, not added to, in every round of the loop: the answer
\* speaks of the last topic visited only.
DelAddressesByProc(p) ==
    /\ data' = [t \in {u \in DOMAIN data : DOMAIN data[u] # {p}} |->
                   Erase(data[t], p)]
    /\ ret' = \E t \in DOMAIN data :
                 (\A u \in DOMAIN data : u <= t) /\ p \in DOMAIN data[t]

Next ==
    \/ \E t \in Topics, p \in Procs, a \in Address :
           Cardinality(Entries) < MaxAddresses /\ AddAddress(t, p, a)
    \/ \E t \in Topics, p \in Procs, n \in Nodes : DelAddressByNode(t, p, n)
    \/ \E p \in Procs : DelAddressesByProc(p)

Spec == Init /\ [][Next]_vars

---------------------------------------------------------------------------
\* The table is a map of maps of vectors of addresses.
TypeOK ==
    /\ DOMAIN data \subseteq Topics
    /\ \A t \in DOMAIN data :
          /\ DOMAIN data[t] \subseteq Procs
          /\ \A p \in DOMAIN data[t] : data[t][p] \in Seq(Address)
    /\ ret \in BOOLEAN

\* The queries answer what the header documents about the entries stored, after
\* any sequence of additions and removals: HasTopic and HasAnyAddresses only
\* look for the presence of a map and rely on no empty map being left behind
\* (TopicStorage::DelAddressByNode and DelAddressesByProc erase them).
QueriesAgree ==
    /\ \A t \in Topics :
          /\ HasTopic(t) <=> Book!HasTopic(Entries, t)
          /\ \A p \in Procs :
                /\ HasAnyAddresses(t, p) <=> Book!HasAnyAddresses(Entries, t, p)
                /\ \A n \in Nodes : AddressesOfNode(t, p, n) # <<>> <=>
                                    Book!AddressesByNode(Entries, t, p, n) # {}
    /\ \A a \in Addrs : HasAddress(a) <=> Book!HasAddress(Entries, a)
    /\ \A p \in Procs : GetAddressesByProc(p) =
                        {e.topic : e \in Book!AddressesByProc(Entries, p)}

\* A vector never holds the same endpoint of the same node twice, whatever the
\* order of AddAddress and DelAddressByNode calls.  Without this a subscriber
\* would be counted, and a connection made, once per re-advertisement.
NoDuplicates ==
    \A t \in DOMAIN data : \A p \in DOMAIN data[t] :
        \A i, j \in DOMAIN data[t][p] :
            /\ data[t][p][i].addr = data[t][p][j].addr
            /\ data[t][p][i].node = data[t][p][j].node
            => i = j

\* The nested maps behave as the set of entries of AddressBook: no call of
\* AddAddress, DelAddressByNode or DelAddressesByProc loses, doubles or invents
\* an entry, and the first two answer as documented.  Of the answer of the third
\* nothing is said here.
RefinesEntries == Book!EntriesSpec

\* The same with all answers, among them that of DelAddressesByProc:
\* TopicStorage.hh:107, "True when at least one address was removed or false
\* otherwise."
RefinesBook == Book!Spec

=============================================================================

------------------------------- MODULE Names --------------------------------
(***************************************************************************)
(* Topic names: class TopicUtils, the constructor of Node, and what Node   *)
(* does to get a topic back out of a fully qualified name.  A string is a  *)
(* sequence of ASCII codes.                                                *)
(***************************************************************************)
EXTENDS Integers, Sequences, SequencesExt, FiniteSetsExt

Space == 32
Slash == 47
At == 64
Tilde == 126

IsValidNamespace(ns) ==
    /\ ns # <<Slash>>
    /\ ~Contains(ns, Tilde)
    /\ ~Contains(ns, Space)
    /\ \A i \in 1 .. Len(ns) - 1 : ~(ns[i] = Slash /\ ns[i + 1] = Slash)
    /\ ~Contains(ns, At)

IsValidTopic(topic) == IsValidNamespace(topic) /\ topic # <<>>

StartsWithSlash(s) == s # <<>> /\ Head(s) = Slash
EndsWithSlash(s) == s # <<>> /\ Last(s) = Slash

\* The node falls back to the default, "", for what it finds invalid.
Constructed(partition, ns) ==
    [partition |-> IF IsValidNamespace(partition) THEN partition ELSE <<>>,
     ns |-> IF IsValidNamespace(ns) THEN ns ELSE <<>>]

\* Mutant: the partition is not closed.
NameWithoutDelimiter(partition, ns, topic) ==
    <<At>> \o partition \o (IF StartsWithSlash(topic) THEN topic
                            ELSE ns \o <<Slash>> \o topic)

\* Mutant: the slash at the end of the topic stays.
NameKeepsTrailingSlash(partition, ns, topic) ==
    LET p == IF partition # <<>> /\ ~StartsWithSlash(partition)
             THEN <<Slash>> \o partition ELSE partition
        p2 == IF EndsWithSlash(p) THEN Front(p) ELSE p
        n == IF EndsWithSlash(ns) THEN ns ELSE Append(ns, Slash)
        n2 == IF StartsWithSlash(n) THEN n ELSE <<Slash>> \o n
    IN  <<At>> \o p2 \o <<At>> \o (IF StartsWithSlash(topic) THEN topic
                                   ELSE n2 \o topic)

\* The name is made only when every part is valid.  The steps are in the order
\* of the code: "/" is put in front of the partition before one is taken from
\* its end, and behind the namespace before one is put in front of it.
GetFullyQualifiedName(partition, ns, topic) ==
    LET p == IF partition # <<>> /\ ~StartsWithSlash(partition)
             THEN <<Slash>> \o partition ELSE partition
        p2 == IF EndsWithSlash(p) THEN Front(p) ELSE p
        n == IF EndsWithSlash(ns) THEN ns ELSE Append(ns, Slash)
        n2 == IF StartsWithSlash(n) THEN n ELSE <<Slash>> \o n
        t == IF EndsWithSlash(topic) THEN Front(topic) ELSE topic
    IN  <<At>> \o p2 \o <<At>> \o (IF StartsWithSlash(t) THEN t ELSE n2 \o t)

\* std::string::find_last_of("@"); every fully qualified name has one.
LastAt(name) == Max({i \in DOMAIN name : name[i] = At})

\* Mutant: erase(0, find_last_of("@")).
StripLeavesAt(name) == SubSeq(name, LastAt(name), Len(name))

\* erase(0, find_last_of("@") + 1)
Strip(name) == SubSeq(name, LastAt(name) + 1, Len(name))

\* The partition as Node::GetTopicList reads it from a name.
PartitionOf(name) ==
    LET p == SubSeq(name, 2, LastAt(name) - 1)
    IN  IF p = <<>> THEN p ELSE Tail(p)

\* Mutant: the topics of every partition.
ListAll(partition, names) == {Strip(n) : n \in names}

\* Node::GetTopicList and Node::GetServiceList: the names known to discovery
\* whose partition is this node's, as the node was given it.
GetTopicList(partition, names) ==
    {Strip(n) : n \in {m \in names : PartitionOf(m) = partition}}

=============================================================================

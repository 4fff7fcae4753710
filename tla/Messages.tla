------------------------------ MODULE Messages ------------------------------
(***************************************************************************)
(* The messages themselves: Node::Publish (src/src/Node.cc) and            *)
(* NodeShared::RecvMsgUpdate (src/src/NodeShared.cc), on top of the        *)
(* connections, filters and registrations of PubSub.  A message runs the   *)
(* handlers of the publisher's own process at once, and goes to the PUB    *)
(* socket only if some remote subscriber is registered for its topic.      *)
(*                                                                         *)
(* 0MQ, from its use: the PUB socket puts a copy in the queue of every     *)
(* connection whose SUB socket has a matching filter, or drops it (the     *)
(* filter has not travelled yet, the queue is full).  A filter is a prefix *)
(* of the name, and the SUB socket checks it again when it is read.        *)
(***************************************************************************)
EXTENDS PubSub

CONSTANTS Msgs,       \* messages, each published at most once
          PrefixOf    \* PrefixOf[t]: the topics whose name is a prefix of t's

ASSUME MessagesAssumption ==
    PrefixOf \in [Topics -> SUBSET Topics] /\ \A t \in Topics : t \in PrefixOf[t]

VARIABLES sent,    \* history: sent[m]: the offer under which m was published,
                   \* a set with at most one member
          queue,   \* queue[p][m]: copies of m in p's SUB socket
          ran      \* history: ran[m][n]: how often m was given to n's handlers

mvars == <<vars, sent, queue, ran>>

MInit ==
    /\ Init
    /\ sent = [m \in Msgs |-> {}]
    /\ queue = [p \in Procs |-> [m \in Msgs |-> 0]]
    /\ ran = [m \in Msgs |-> [n \in Nodes |-> 0]]

\* No filter of p lets topic t through.
Filtered(p, t) == \A u \in PrefixOf[t] : filters[p][u] = 0

\* m on topic t runs the handlers of p's nodes.
RunHandlers(p, m, t) ==
    ran' = [ran EXCEPT ![m] = [n \in Nodes |->
               IF <<t, n>> \in subs[p] THEN ran[m][n] + 1 ELSE ran[m][n]]]

\* NodeShared::Publish: the PUB socket of p puts a copy of m in the queue of
\* every connection that lets t through, except those of the processes in
\* dropped.
Send(p, m, t, dropped) ==
    queue' = [q \in Procs |->
                 IF Filtered(q, t) \/ q \in dropped THEN queue[q]
                 ELSE [queue[q] EXCEPT ![m] = @ + links[q][p]]]

\* Node::Publish of m under the offer x of a node of p.  A node that does not
\* advertise the topic is refused.
Publish(p, m, x) ==
    LET t == x.entry.topic
    IN  /\ Up(p)
        /\ sent[m] = {}
        /\ x \in known[p] /\ x.entry.proc = p
        /\ sent' = [sent EXCEPT ![m] = {x}]
        /\ RunHandlers(p, m, t)
        /\ IF HasTopic(remoteSubs[p], t)
           THEN \E dropped \in SUBSET Procs : Send(p, m, t, dropped)
           ELSE UNCHANGED queue
        /\ UNCHANGED vars

\* Mutant: the answer of recv is not looked at.
RecvMsgUpdateEmpty(p, m) ==
    /\ Up(p)
    /\ queue' = [queue EXCEPT ![p][m] = @ - 1]
    /\ \E x \in sent[m] :
          IF Filtered(p, x.entry.topic) THEN UNCHANGED ran
          ELSE RunHandlers(p, m, x.entry.topic)
    /\ UNCHANGED <<vars, sent>>

\* RecvMsgUpdate runs whatever handlers there are when the message is read.  The
\* SUB socket skips a message whose filter has gone.
RecvMsgUpdate(p, m) ==
    /\ Up(p)
    /\ queue[p][m] > 0
    /\ queue' = [queue EXCEPT ![p][m] = @ - 1]
    /\ \E x \in sent[m] :
          IF Filtered(p, x.entry.topic) THEN UNCHANGED ran
          ELSE RunHandlers(p, m, x.entry.topic)
    /\ UNCHANGED <<vars, sent>>

\* Every step of PubSub; the queue of a process that ends goes with it.
Connect ==
    /\ Next
    /\ queue' = [p \in Procs |-> IF status'[p] = "up" THEN queue[p]
                                 ELSE [m \in Msgs |-> 0]]
    /\ UNCHANGED <<sent, ran>>

MNext ==
    \/ Connect
    \/ \E p \in Procs, m \in Msgs :
          (\E x \in known[p] : Publish(p, m, x)) \/ RecvMsgUpdate(p, m)

MSpec == MInit /\ [][MNext]_mvars

---------------------------------------------------------------------------
MTypeOK ==
    /\ TypeOK
    /\ sent \in [Msgs -> SUBSET Offers]
    /\ queue \in [Procs -> [Msgs -> Nat]]
    /\ ran \in [Msgs -> [Nodes -> Nat]]

\* A message is given to the handlers of a node at most once, whichever way it
\* comes: directly within the process, over a connection shared by several
\* topics and nodes, under a filter that is a prefix of another topic's, and
\* however often the node subscribed, unsubscribed and connected meanwhile.
AtMostOnce == \A m \in Msgs, n \in Nodes : ran[m][n] <= 1

\* TransportTypes.hh:46: "Process: Topic only available to subscribers in the
\* same process as the publisher.", and the same for Host: a message reaches
\* only the processes that the scope of its publisher reaches.
ScopeKept ==
    \A m \in Msgs, n \in Nodes :
        ran[m][n] > 0 => \A x \in sent[m] : Dir!Reaches(x, OwnerOf[n])

=============================================================================

----------------------------- MODULE Directory -----------------------------
(***************************************************************************)
(* What the discovery service promises, with no messages, clocks or        *)
(* threads: every process knows some of the topics and services that have  *)
(* really been offered, only those whose scope reaches it, and at most one *)
(* scope for each of them; it forgets others' offers at any time (they may *)
(* come back), its own only when they are withdrawn or it ends.            *)
(***************************************************************************)
CONSTANTS Procs,     \* process UUIDs
          HostOf,    \* the host each process runs on
          Offers     \* [kind, entry : [topic, proc, addr, node, scope]]

VARIABLES offered,   \* every offer ever made
          known      \* known[p]: the offers process p knows

Owner(x) == x.entry.proc

SameOffer(x, y) ==
    /\ x.kind = y.kind
    /\ x.entry.topic = y.entry.topic
    /\ x.entry.proc = y.entry.proc
    /\ x.entry.node = y.entry.node

\* Does the scope of offer x reach process p?
Reaches(x, p) ==
    \/ Owner(x) = p
    \/ x.entry.scope = "All"
    \/ x.entry.scope = "Host" /\ HostOf[Owner(x)] = HostOf[p]

Others(p) == {x \in known[p] : Owner(x) # p}

Init ==
    /\ offered = {}
    /\ known = [p \in Procs |-> {}]

\* A process offers x.  It keeps the first scope if it offered x before.
Offer(x) ==
    /\ offered' = offered \cup {x}
    /\ known' = IF \E y \in known[Owner(x)] : SameOffer(x, y)
                THEN known
                ELSE [known EXCEPT ![Owner(x)] = @ \cup {x}]

Withdraw(x) ==
    /\ x \in known[Owner(x)]
    /\ known' = [known EXCEPT ![Owner(x)] = @ \ {x}]
    /\ UNCHANGED offered

Learn(p, x) ==
    /\ x \in offered
    /\ Owner(x) # p
    /\ Reaches(x, p)
    /\ \A y \in known[p] : ~SameOffer(x, y)
    /\ known' = [known EXCEPT ![p] = @ \cup {x}]
    /\ UNCHANGED offered

Forget(p, S) ==
    /\ S \subseteq Others(p)
    /\ known' = [known EXCEPT ![p] = @ \ S]
    /\ UNCHANGED offered

End(p) ==
    /\ known' = [known EXCEPT ![p] = {}]
    /\ UNCHANGED offered

Next ==
    \/ \E x \in Offers : Offer(x)
    \/ \E x \in offered : Withdraw(x)
    \/ \E p \in Procs : \/ \E x \in offered : Learn(p, x)
                       \/ \E S \in SUBSET Others(p) : Forget(p, S)
                       \/ End(p)

Spec == Init /\ [][Next]_<<offered, known>>

=============================================================================

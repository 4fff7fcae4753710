----------------------------- MODULE Addresses -----------------------------
(***************************************************************************)
(* A table of addresses as a set of entries, and what each operation of    *)
(* class TopicStorage (src/src/TopicStorage.cc) does to it.  An entry says *)
(* that node "node" of process "proc" offers topic "topic" at endpoint     *)
(* "addr" with scope "scope".  The control address (ctrl) is left out: it  *)
(* travels with addr and no operation compares it.                         *)
(* Discovery, PubSub and Services keep their tables in this form; module   *)
(* TopicStorage shows that the nested maps of vectors of the code agree    *)
(* with it.                                                                *)
(***************************************************************************)

\* The entries that AddAddress takes for the same one: the scope is not
\* compared, so an address offered again with another scope keeps the old one.
SameAddress(e, f) ==
    e.topic = f.topic /\ e.proc = f.proc /\ e.addr = f.addr /\ e.node = f.node

HasEntry(S, e) == \E f \in S : SameAddress(e, f)

AddAddress(S, e) == IF HasEntry(S, e) THEN S ELSE S \cup {e}

HasTopic(S, t) == \E e \in S : e.topic = t

AddressesByProc(S, p) == {e \in S : e.proc = p}

HasAnyAddresses(S, t, p) == HasTopic(AddressesByProc(S, p), t)

HasAddress(S, a) == \E e \in S : e.addr = a

AddressesByNode(S, t, p, n) ==
    {e \in S : e.topic = t /\ e.proc = p /\ e.node = n}

DelAddressByNode(S, t, p, n) == S \ AddressesByNode(S, t, p, n)

DelAddressesByProc(S, p) == S \ AddressesByProc(S, p)

=============================================================================

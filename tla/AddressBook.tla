---------------------------- MODULE AddressBook ----------------------------
(***************************************************************************)
(* What class TopicStorage promises its users: a set of entries, changed   *)
(* by three operations whose Boolean answers are those its header          *)
(* documents (src/include/ignition/transport/TopicStorage.hh).             *)
(***************************************************************************)
EXTENDS Addresses

CONSTANTS Topics, Procs, Addrs, Nodes, Scopes

VARIABLES book,   \* the set of entries
          ret     \* the answer of the last operation

Entry == [topic : Topics, proc : Procs, addr : Addrs,
          node : Nodes, scope : Scopes]

Init == book = {} /\ ret = FALSE

Add(e) ==
    /\ book' = AddAddress(book, e)
    /\ ret' = ~HasEntry(book, e)

DelByNode(t, p, n) ==
    /\ book' = DelAddressByNode(book, t, p, n)
    /\ ret' = (AddressesByNode(book, t, p, n) # {})

DelByProc(p) ==
    /\ book' = DelAddressesByProc(book, p)
    /\ ret' = (AddressesByProc(book, p) # {})

Next ==
    \/ \E e \in Entry : Add(e)
    \/ \E t \in Topics, p \in Procs, n \in Nodes : DelByNode(t, p, n)
    \/ \E p \in Procs : DelByProc(p)

Spec == Init /\ [][Next]_<<book, ret>>

---------------------------------------------------------------------------
\* Spec, without a word about what DelByProc answers.
EntriesNext ==
    \/ \E e \in Entry : Add(e)
    \/ \E t \in Topics, p \in Procs, n \in Nodes : DelByNode(t, p, n)
    \/ \E p \in Procs : book' = DelAddressesByProc(book, p)

EntriesSpec == Init /\ [][EntriesNext]_<<book, ret>>

=============================================================================

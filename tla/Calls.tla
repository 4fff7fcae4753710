------------------------------- MODULE Calls -------------------------------
(***************************************************************************)
(* What a service call promises, with no processes, sockets or handlers: a *)
(* replier runs a request at most once, the caller is answered at most     *)
(* once and only with the answer of a run, and a caller that gave up is    *)
(* never answered, although its request may still run.                     *)
(***************************************************************************)
EXTENDS Naturals

CONSTANT Reqs       \* requests, each made once

VARIABLES outcome,  \* what the caller has got so far
          ran       \* how often a replier ran the request

Outcomes == {"none", "open", "answered", "timedOut", "ended"}

Init ==
    /\ outcome = [r \in Reqs |-> "none"]
    /\ ran = [r \in Reqs |-> 0]

Run(r) ==
    /\ ran[r] = 0
    /\ ran' = [ran EXCEPT ![r] = 1]

Place(r) ==
    /\ outcome[r] = "none"
    /\ \/ outcome' = [outcome EXCEPT ![r] = "open"] /\ UNCHANGED ran
       \/ outcome' = [outcome EXCEPT ![r] = "answered"] /\ Run(r)

Serve(r) ==
    /\ outcome[r] # "none"
    /\ Run(r)
    /\ UNCHANGED outcome

Answer(r) ==
    /\ outcome[r] = "open"
    /\ ran[r] = 1
    /\ outcome' = [outcome EXCEPT ![r] = "answered"]
    /\ UNCHANGED ran

TimeOut(r) ==
    /\ outcome[r] = "open"
    /\ outcome' = [outcome EXCEPT ![r] = "timedOut"]
    /\ UNCHANGED ran

\* The process of some callers ends.
End(S) ==
    /\ \A r \in S : outcome[r] \in {"none", "open"}
    /\ outcome' = [r \in Reqs |-> IF r \in S THEN "ended" ELSE outcome[r]]
    /\ UNCHANGED ran

Next ==
    \/ \E r \in Reqs : Place(r) \/ Serve(r) \/ Answer(r) \/ TimeOut(r)
    \/ \E S \in SUBSET Reqs : End(S)

Spec == Init /\ [][Next]_<<outcome, ran>>

=============================================================================

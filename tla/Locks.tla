------------------------------- MODULE Locks --------------------------------
(***************************************************************************)
(* The two recursive mutexes: DiscoveryPrivate::mutex ("disc", which       *)
(* guards the tables of Discovery, "info") and NodeShared::mutex           *)
(* ("shared", which guards those of NodeShared, "tables").  The other      *)
(* modules make every call one step; here a call is the sequence of its    *)
(* lock, unlock and access steps, and the user's threads, the three        *)
(* threads of discovery and the reception thread of NodeShared interleave. *)
(* Only which mutex is taken when matters, so the tables have no contents. *)
(***************************************************************************)
EXTENDS Integers, Sequences

CONSTANTS UserThreads,
          Calls,           \* the calls of Node that the user's threads make
          CallbackCalls    \* the calls that the user's callbacks make

Mutexes == {"disc", "shared"}

Do(what, on) == <<[do |-> what, on |-> on]>>

\* std::lock_guard: body runs with m held.
Under(m, body) == Do("lock", m) \o body \o Do("unlock", m)

\* A user's callback runs; it may make one call of CallbackCalls.
UserCallback == Do("callback", "user")

---------------------------------------------------------------------------
\* Methods of Discovery that Node and NodeShared call, and the callbacks into
\* NodeShared, which run with the discovery mutex held.
OnNewConnection == Under("shared", Do("write", "tables"))
OnNewDisconnection == Under("shared", Do("write", "tables"))
OnNewSrvConnection == Under("shared", Do("write", "tables") \o Do("read", "info"))

DiscoveryAdvertise == Under("disc", Do("write", "info"))
DiscoveryDiscover == Under("disc", Do("read", "info") \o OnNewConnection)
DiscoveryDiscoverSrv == Under("disc", Do("read", "info") \o OnNewSrvConnection)
DiscoveryGetTopicList == Under("disc", Do("read", "info"))
\* No lock here: the caller is trusted to hold it,
GetAddresses == Do("read", "info")
\* and one does not.
GetMsgAddresses == Do("peek", "info")

\* Mutant: the mutexes in the other order.
SubscribeReversed ==
    Under("shared", Do("write", "tables") \o DiscoveryDiscover)

\* Mutant: the lock of discovery is given back before its tables are asked.
BlockingUnlocksEarly ==
    Do("lock", "disc") \o Do("lock", "shared") \o Do("write", "tables")
    \o Do("unlock", "disc") \o GetAddresses
    \o Do("wait", "shared") \o Do("unlock", "shared")

\* Mutant: the lock of the node is given back by hand and then by a guard too.
BlockingUnlocksTwice ==
    Do("lock", "disc") \o Under("shared", Do("write", "tables")
    \o GetAddresses \o DiscoveryDiscoverSrv \o Do("unlock", "disc")
    \o Do("wait", "shared") \o Do("unlock", "shared"))

\* Mutant: the lock of discovery is kept while waiting.
BlockingKeepsDiscovery ==
    Do("lock", "disc") \o Do("lock", "shared") \o Do("write", "tables")
    \o GetAddresses \o DiscoveryDiscoverSrv
    \o Do("wait", "shared") \o Do("unlock", "shared") \o Do("unlock", "disc")

\* The calls of Node; some run a callback.
Advertise == Under("disc", Under("shared", Do("write", "tables") \o DiscoveryAdvertise))
Subscribe == Under("disc", Under("shared", Do("write", "tables") \o DiscoveryDiscover))
Unsubscribe == Under("shared", Do("write", "tables") \o GetMsgAddresses)
Publish(callback) == Under("shared", Do("read", "tables") \o callback)
RequestLocal(callback) ==
    Under("disc", Under("shared", Do("read", "tables") \o callback))
Request ==
    Under("disc", Under("shared", Do("write", "tables") \o GetAddresses
                                  \o DiscoveryDiscoverSrv))
\* The blocking call unlocks by hand, and waits on a condition variable.
BlockingRequest ==
    Do("lock", "disc") \o Do("lock", "shared") \o Do("write", "tables")
    \o GetAddresses \o DiscoveryDiscoverSrv \o Do("unlock", "disc")
    \o Do("wait", "shared") \o Do("unlock", "shared")
AdvertisedTopics == Under("shared", Do("read", "tables"))
GetTopicList == Under("shared", DiscoveryGetTopicList)

Code(callback) ==
    [Advertise |-> Advertise, Subscribe |-> Subscribe,
     Unsubscribe |-> Unsubscribe, Publish |-> Publish(callback),
     RequestLocal |-> RequestLocal(callback), Request |-> Request,
     BlockingRequest |-> BlockingRequest,
     AdvertisedTopics |-> AdvertisedTopics, GetTopicList |-> GetTopicList]

\* One round of each thread of the library.
RunActivityTask == Under("disc", Do("write", "info") \o OnNewDisconnection)
RunHeartbeatTask == Under("disc", Do("read", "info"))
DispatchDiscoveryMsg ==
    {Under("disc", Do("write", "info") \o cb) :
        cb \in {<<>>, OnNewConnection, OnNewDisconnection, OnNewSrvConnection}}
RunReceptionTask ==
    {Under("shared", Do("read", "tables") \o UserCallback),
     Under("shared", Do("write", "tables")),
     Under("shared", UserCallback \o Do("write", "tables"))}

ServiceThreads == {"activity", "heartbeat", "discovery", "reception"}
Threads == UserThreads \cup ServiceThreads

\* What an idle thread may do next.
Rounds(t) ==
    CASE t = "activity" -> {RunActivityTask}
      [] t = "heartbeat" -> {RunHeartbeatTask}
      [] t = "discovery" -> DispatchDiscoveryMsg
      [] t = "reception" -> RunReceptionTask
      [] OTHER -> {Code(UserCallback)[c] : c \in Calls}

ASSUME LocksAssumption ==
    /\ UserThreads \cap ServiceThreads = {}
    /\ Calls \subseteq DOMAIN Code(<<>>)
    /\ CallbackCalls \subseteq DOMAIN Code(<<>>)

---------------------------------------------------------------------------
VARIABLES todo,   \* todo[t]: the steps that thread t still has to take
          held    \* held[m][t]: how often t has locked m

vars == <<todo, held>>

Init ==
    /\ todo = [t \in Threads |-> <<>>]
    /\ held = [m \in Mutexes |-> [t \in Threads |-> 0]]

\* Thread t is about to do "what" to "on".
At(t, what, on) == todo[t] # <<>> /\ Head(todo[t]) = [do |-> what, on |-> on]

Done(t) == todo' = [todo EXCEPT ![t] = Tail(@)]

Free(m, t) == \A u \in Threads \ {t} : held[m][u] = 0

Begin(t) ==
    /\ todo[t] = <<>>
    /\ \E code \in Rounds(t) : todo' = [todo EXCEPT ![t] = code]
    /\ UNCHANGED held

\* std::recursive_mutex::lock, and the return from a wait.
Lock(t, m) ==
    /\ At(t, "lock", m) \/ At(t, "wake", m)
    /\ Free(m, t)
    /\ held' = [held EXCEPT ![m][t] = @ + 1]
    /\ Done(t)

Unlock(t, m) ==
    /\ At(t, "unlock", m)
    /\ held' = [held EXCEPT ![m][t] = @ - 1]
    /\ Done(t)

\* IReqHandler::WaitUntil unlocks once; it comes back with the response or when
\* the time is over, and must lock again.
WaitUntil(t, m) ==
    /\ At(t, "wait", m)
    /\ held' = [held EXCEPT ![m][t] = @ - 1]
    /\ todo' = [todo EXCEPT ![t] = Do("wake", m) \o Tail(@)]

\* To "peek" is to read without the table's mutex.
Uses == {"read", "write", "peek"}

Access(t) ==
    /\ \E what \in Uses, on \in {"info", "tables"} : At(t, what, on)
    /\ Done(t)
    /\ UNCHANGED held

\* The callback returns at once or calls back into the library.  Callbacks of
\* callbacks do nothing (a bound).
RunCallback(t) ==
    /\ At(t, "callback", "user")
    /\ \E code \in {<<>>} \cup {Code(<<>>)[c] : c \in CallbackCalls} :
          todo' = [todo EXCEPT ![t] = code \o Tail(@)]
    /\ UNCHANGED held

Next ==
    \E t \in Threads :
        \/ Begin(t)
        \/ \E m \in Mutexes : Lock(t, m) \/ Unlock(t, m) \/ WaitUntil(t, m)
        \/ Access(t)
        \/ RunCallback(t)

Spec == Init /\ [][Next]_vars

---------------------------------------------------------------------------
Step == [do : {"lock", "unlock", "wait", "wake", "callback"} \cup Uses,
         on : Mutexes \cup {"info", "tables", "user"}]

TypeOK ==
    /\ todo \in [Threads -> Seq(Step)]
    /\ held \in [Mutexes -> [Threads -> Nat]]

WaitsFor(t, m) == (At(t, "lock", m) \/ At(t, "wake", m)) /\ ~Free(m, t)

\* No two threads ever wait for each other, each with one of the mutexes in its
\* hands: whatever calls, callbacks and threads of the library meet.
NoCircularWait ==
    \A t, u \in Threads :
        ~ /\ WaitsFor(t, "disc") /\ held["shared"][t] > 0
          /\ WaitsFor(u, "shared") /\ held["disc"][u] > 0

Collide(t, u, x) ==
    t # u /\ At(t, "write", x) /\ \E what \in Uses : At(u, what, x)

\* DiscoveryPrivate.hh:153: "Mutex to guarantee exclusive access between the
\* threads.", and NodeShared.hh:205 alike: while a thread is about to write a
\* table, no other one is about to use it.  Unsubscribe, which every destroyed
\* subscriber makes, looks into discovery's table without its mutex.
NoRace == \A t, u \in Threads, x \in {"info", "tables"} : ~Collide(t, u, x)

\* Nothing else collides, whatever calls, callbacks and threads of the library
\* meet; and Unsubscribe collides with discovery's own threads at most: a call
\* that writes discovery's table has the mutex that Unsubscribe has.
OnlyUnsubscribeCollides ==
    \A t, u \in Threads, x \in {"info", "tables"} :
        Collide(t, u, x) => At(u, "peek", "info") /\ held["shared"][t] = 0

\* A thread that waits for a response holds no mutex: the reception thread could
\* not hand it over, or discovery find the service.
WaiterLetsGo ==
    \A t \in Threads, m \in Mutexes :
        At(t, "wake", m) => \A l \in Mutexes : held[l][t] = 0

=============================================================================

----------------------------- MODULE LocksProofs -----------------------------
(***************************************************************************)
(* Theorems about Locks, for any number of user threads and under the      *)
(* weakest conditions on the calls they and the callbacks make.            *)
(* The steps a thread has still to take are judged like a program in       *)
(* Hoare's logic: Runs(code, a, b) says that a thread that has locked the  *)
(* mutexes as often as a says may take the steps of code, one after the    *)
(* other, and has then locked them as often as b says.                     *)
(***************************************************************************)
EXTENDS Locks, SequenceTheorems, TLAPS

---------------------------------------------------------------------------
\* What the calls and the callbacks have to leave out, so that nobody locks
\* discovery's mutex last and nobody waits for a response with a mutex held.
OrderKept ==
    /\ "GetTopicList" \notin Calls
    /\ CallbackCalls \subseteq {"Publish", "AdvertisedTopics", "Unsubscribe"}

WaitsOutside == "BlockingRequest" \notin CallbackCalls

---------------------------------------------------------------------------
\* How often a thread has locked each mutex.
Levels == [Mutexes -> Nat]

Zero == [m \in Mutexes |-> 0]

Level(t) == [m \in Mutexes |-> held[m][t]]

Up(a, m) == [a EXCEPT ![m] = @ + 1]

\* May a thread at level a lock m?
InOrder(a, m) ==
    OrderKept /\ m = "disc" /\ a["shared"] > 0 => a["disc"] > 0

\* The mutex of a table.
Guards(m, x) == (m = "disc" /\ x = "info") \/ (m = "shared" /\ x = "tables")

\* May a thread at level a take step c, and is it at level b then?
Rule(c, a, b) ==
    \/ /\ c.do = "lock" /\ c.on \in Mutexes
       /\ InOrder(a, c.on)
       /\ b = Up(a, c.on)
    \/ /\ c.do = "unlock" /\ c.on \in Mutexes
       /\ a = Up(b, c.on)
    \/ /\ c.do = "wait" /\ c.on = "shared"
       /\ a["shared"] > 0
       /\ WaitsOutside => a = Up(Zero, "shared")
       /\ b = a
    \/ /\ c.do = "wake" /\ c.on = "shared"
       /\ WaitsOutside => a = Zero
       /\ b = Up(a, "shared")
    \/ /\ c.do \in {"read", "write"} /\ c.on \in {"info", "tables"}
       /\ \A m \in Mutexes : Guards(m, c.on) => a[m] > 0
       /\ b = a
    \/ /\ c.do = "peek" /\ c.on = "info"
       /\ a["shared"] > 0
       /\ b = a
    \/ /\ c.do = "callback" /\ c.on = "user"
       /\ b = a

Runs(code, a, b) ==
    /\ code \in Seq(Step)
    /\ \E h \in [1..(Len(code) + 1) -> Levels] :
          /\ h[1] = a
          /\ h[Len(code) + 1] = b
          /\ \A i \in 1..Len(code) : Rule(code[i], h[i], h[i + 1])

---------------------------------------------------------------------------
\* The rules of composition.

LEMMA NothingRuns ==
    ASSUME NEW a \in Levels
    PROVE  Runs(<<>>, a, a)
  <1> DEFINE h == [i \in 1..1 |-> a]
  <1>1. <<>> \in Seq(Step) /\ Len(<<>>) = 0
    OBVIOUS
  <1>2. h \in [1..(Len(<<>>) + 1) -> Levels] /\ h[1] = a /\ h[Len(<<>>) + 1] = a
    BY <1>1
  <1>3. \A i \in 1..Len(<<>>) : Rule(<<>>[i], h[i], h[i + 1])
    BY <1>1
  <1> HIDE DEF h
  <1> QED
    BY <1>1, <1>2, <1>3 DEF Runs

LEMMA StepRuns ==
    ASSUME NEW c \in Step, NEW a \in Levels, NEW b \in Levels, Rule(c, a, b)
    PROVE  Runs(<<c>>, a, b)
  <1> DEFINE h == [i \in 1..2 |-> IF i = 1 THEN a ELSE b]
  <1>1. <<c>> \in Seq(Step) /\ Len(<<c>>) = 1 /\ <<c>>[1] = c
    OBVIOUS
  <1>2. /\ h \in [1..(Len(<<c>>) + 1) -> Levels]
        /\ h[1] = a /\ h[2] = b /\ h[Len(<<c>>) + 1] = b
    BY <1>1
  <1> HIDE DEF h
  <1>3. \A i \in 1..Len(<<c>>) : Rule(<<c>>[i], h[i], h[i + 1])
    <2> SUFFICES ASSUME NEW i \in 1..Len(<<c>>) PROVE Rule(<<c>>[i], h[i], h[i + 1])
      OBVIOUS
    <2>1. i = 1 /\ i + 1 = 2
      BY <1>1
    <2>2. <<c>>[i] = c /\ h[i] = a /\ h[i + 1] = b
      BY <1>1, <1>2, <2>1
    <2> QED
      BY <2>2
  <1> QED
    BY <1>1, <1>2, <1>3 DEF Runs

LEMMA ThenRuns ==
    ASSUME NEW x, NEW y, NEW a, NEW b, NEW c, Runs(x, a, b), Runs(y, b, c)
    PROVE  Runs(x \o y, a, c)
  <1>1. PICK h \in [1..(Len(x) + 1) -> Levels] :
            /\ h[1] = a
            /\ h[Len(x) + 1] = b
            /\ \A i \in 1..Len(x) : Rule(x[i], h[i], h[i + 1])
    BY DEF Runs
  <1>2. PICK k \in [1..(Len(y) + 1) -> Levels] :
            /\ k[1] = b
            /\ k[Len(y) + 1] = c
            /\ \A i \in 1..Len(y) : Rule(y[i], k[i], k[i + 1])
    BY DEF Runs
  <1>3. /\ x \in Seq(Step) /\ y \in Seq(Step)
        /\ Len(x) \in Nat /\ Len(y) \in Nat
    BY DEF Runs
  <1>4. /\ x \o y \in Seq(Step)
        /\ Len(x \o y) = Len(x) + Len(y)
        /\ \A i \in 1..(Len(x) + Len(y)) :
              (x \o y)[i] = IF i <= Len(x) THEN x[i] ELSE y[i - Len(x)]
    BY <1>3, ConcatProperties
  <1> DEFINE n == Len(x)
             l == Len(y)
             g == [i \in 1..(n + l + 1) |-> IF i <= n THEN h[i] ELSE k[i - n]]
  <1>5. g \in [1..(n + l + 1) -> Levels]
    <2> HIDE DEF n, l
    <2>1. n \in Nat /\ l \in Nat
      BY <1>3 DEF n, l
    <2>2. \A i \in 1..(n + l + 1) : IF i <= n THEN i \in 1..(n + 1) ELSE i - n \in 1..(l + 1)
      BY <2>1
    <2>3. /\ \A i \in 1..(n + 1) : h[i] \in Levels
          /\ \A i \in 1..(l + 1) : k[i] \in Levels
      BY DEF n, l
    <2> QED
      BY <2>2, <2>3
  <1>6. \A i \in 1..(n + 1) : g[i] = h[i]
    <2> SUFFICES ASSUME NEW i \in 1..(n + 1) PROVE g[i] = h[i]
      OBVIOUS
    <2>1. CASE i <= n
      BY <1>3, <2>1
    <2>2. CASE i = n + 1
      BY <1>1, <1>2, <1>3, <2>2
    <2> QED
      BY <1>3, <2>1, <2>2
  <1>7. \A i \in 1..(l + 1) : g[n + i] = k[i]
    BY <1>3
  <1>8. n \in Nat /\ l \in Nat
    BY <1>3
  <1>9. ASSUME NEW i \in 1..(n + l)
        PROVE  Rule((x \o y)[i], g[i], g[i + 1])
    <2> HIDE DEF g
    <2>1. CASE i <= n
      <3>1. i \in 1..n /\ i \in 1..(n + 1) /\ i + 1 \in 1..(n + 1)
        BY <1>8, <2>1
      <3>2. (x \o y)[i] = x[i]
        BY <1>4, <2>1
      <3>3. Rule(x[i], h[i], h[i + 1])
        BY <1>1, <3>1
      <3> QED
        BY <1>6, <3>1, <3>2, <3>3
    <2>2. CASE ~(i <= n)
      <3> DEFINE j == i - n
      <3>1. j \in 1..l /\ j \in 1..(l + 1) /\ j + 1 \in 1..(l + 1)
            /\ i = n + j /\ i + 1 = n + (j + 1)
        BY <1>8, <2>2
      <3>2. (x \o y)[i] = y[j]
        BY <1>4, <2>2
      <3> HIDE DEF j
      <3>3. Rule(y[j], k[j], k[j + 1])
        BY <1>2, <3>1
      <3>4. g[i] = k[j] /\ g[i + 1] = k[j + 1]
        BY <1>7, <3>1
      <3> QED
        BY <3>2, <3>3, <3>4
    <2> QED
      BY <2>1, <2>2
  <1>10. g[1] = a /\ g[n + l + 1] = c
    <2> HIDE DEF g
    <2>0. 1 \in 1..(n + 1)
      BY <1>8
    <2>1. g[1] = h[1]
      BY <1>6, <2>0
    <2>2. l + 1 \in 1..(l + 1) /\ n + (l + 1) = n + l + 1
      BY <1>8
    <2>3. g[n + l + 1] = k[l + 1]
      BY <1>7, <2>2
    <2> QED
      BY <1>1, <1>2, <2>1, <2>3
  <1> HIDE DEF g
  <1> QED
    BY <1>4, <1>5, <1>9, <1>10 DEF Runs

\* The first step, and what is left after it.
LEMMA HeadRuns ==
    ASSUME NEW code, NEW a, NEW b, Runs(code, a, b), code # <<>>
    PROVE  /\ Head(code) \in Step
           /\ \E c \in Levels : Rule(Head(code), a, c) /\ Runs(Tail(code), c, b)
  <1>1. PICK h \in [1..(Len(code) + 1) -> Levels] :
            /\ h[1] = a
            /\ h[Len(code) + 1] = b
            /\ \A i \in 1..Len(code) : Rule(code[i], h[i], h[i + 1])
    BY DEF Runs
  <1>2. code \in Seq(Step)
    BY DEF Runs
  <1> DEFINE n == Len(code)
             rest == Tail(code)
             g == [i \in 1..n |-> h[i + 1]]
  <1>3. /\ n \in Nat /\ n >= 1
        /\ Head(code) \in Step /\ Head(code) = code[1]
        /\ rest \in Seq(Step) /\ Len(rest) + 1 = n
        /\ \A i \in 1..Len(rest) : rest[i] = code[i + 1]
    <2>1. n \in Nat /\ n >= 1 /\ Head(code) = code[1]
      BY <1>2
    <2>2. /\ Head(code) \in Step
          /\ rest \in Seq(Step) /\ Len(rest) = n - 1
          /\ \A i \in 1..Len(rest) : rest[i] = code[i + 1]
      BY <1>2, HeadTailProperties
    <2> QED
      BY <2>1, <2>2
  <1> HIDE DEF n, rest
  <1>4. h \in [1..(n + 1) -> Levels] /\ h[n + 1] = b
    BY <1>1 DEF n
  <1>5. \A i \in 1..n : g[i] = h[i + 1] /\ i + 1 \in 1..(n + 1)
    BY <1>3
  <1>6. g \in [1..(Len(rest) + 1) -> Levels] /\ g[1] = h[2] /\ g[Len(rest) + 1] = b
    <2>1. g \in [1..n -> Levels]
      BY <1>4, <1>5
    <2>2. 1 \in 1..n /\ n \in 1..n
      BY <1>3
    <2> HIDE DEF g
    <2>3. g[1] = h[1 + 1] /\ g[n] = h[n + 1]
      BY <1>5, <2>2
    <2> QED
      BY <1>3, <1>4, <2>1, <2>3
  <1> HIDE DEF g
  <1>7. ASSUME NEW i \in 1..Len(rest)
        PROVE  Rule(rest[i], g[i], g[i + 1])
    <2>1. i \in 1..n /\ i + 1 \in 1..n
      BY <1>3
    <2>2. g[i] = h[i + 1] /\ g[i + 1] = h[(i + 1) + 1]
      BY <1>5, <2>1
    <2>3. Rule(code[i + 1], h[i + 1], h[(i + 1) + 1])
      BY <1>1, <2>1 DEF n
    <2> QED
      BY <1>3, <2>2, <2>3
  <1>8. Runs(rest, h[2], b)
    BY <1>3, <1>6, <1>7 DEF Runs
  <1>9. Rule(code[1], a, h[2])
    <2>1. 1 \in 1..n /\ 1 + 1 = 2
      BY <1>3
    <2> QED
      BY <1>1, <2>1 DEF n
  <1>10. h[2] \in Levels
    <2>1. 2 \in 1..(n + 1)
      BY <1>3
    <2> QED
      BY <1>4, <2>1
  <1> QED
    BY <1>3, <1>8, <1>9, <1>10 DEF rest

---------------------------------------------------------------------------
\* The levels.

LEMMA LevelsUp ==
    ASSUME NEW a \in Levels, NEW m \in Mutexes
    PROVE  /\ Up(a, m) \in Levels
           /\ Up(a, m)[m] = a[m] + 1
           /\ Up(a, m)[m] > 0
           /\ \A l \in Mutexes : l # m => Up(a, m)[l] = a[l]
  BY DEF Up, Levels

\* The mutexes may be locked in any order, and so may they be unlocked.
LEMMA UpsCommute ==
    ASSUME NEW a \in Levels, NEW m \in Mutexes, NEW l \in Mutexes
    PROVE  Up(Up(a, m), l) = Up(Up(a, l), m)
  BY DEF Up, Levels

\* Locking m, a body, and unlocking it.
LEMMA UnderRuns ==
    ASSUME NEW m \in Mutexes, NEW a \in Levels, NEW body, InOrder(a, m),
           Runs(body, Up(a, m), Up(a, m))
    PROVE  Runs(Under(m, body), a, a)
  <1> DEFINE lock == [do |-> "lock", on |-> m]
             unlock == [do |-> "unlock", on |-> m]
  <1>1. lock \in Step /\ unlock \in Step
    BY DEF Step
  <1>2. Up(a, m) \in Levels
    BY LevelsUp
  <1>3. Rule(lock, a, Up(a, m)) /\ Rule(unlock, Up(a, m), a)
    BY DEF Rule
  <1> HIDE DEF lock, unlock
  <1>4. Runs(<<lock>>, a, Up(a, m)) /\ Runs(<<unlock>>, Up(a, m), a)
    BY <1>1, <1>2, <1>3, StepRuns
  <1>5. Runs(<<lock>> \o body, a, Up(a, m))
    BY <1>4, ThenRuns
  <1>6. Runs((<<lock>> \o body) \o <<unlock>>, a, a)
    BY <1>4, <1>5, ThenRuns
  <1> QED
    BY <1>6 DEF Under, Do, lock, unlock

\* Reading or writing a table.
LEMMA AccessRuns ==
    ASSUME NEW what \in {"read", "write"}, NEW on \in {"info", "tables"},
           NEW a \in Levels,
           \A m \in Mutexes : Guards(m, on) => a[m] > 0
    PROVE  Runs(Do(what, on), a, a)
  <1> DEFINE c == [do |-> what, on |-> on]
  <1>1. c \in Step
    BY DEF Step, Uses
  <1>2. Rule(c, a, a)
    BY DEF Rule
  <1> HIDE DEF c
  <1>3. Runs(<<c>>, a, a)
    BY <1>1, <1>2, StepRuns
  <1> QED
    BY <1>3 DEF Do, c

\* Reading discovery's table with NodeShared::mutex alone.
LEMMA PeekRuns ==
    ASSUME NEW a \in Levels, a["shared"] > 0
    PROVE  Runs(GetMsgAddresses, a, a)
  <1> DEFINE c == [do |-> "peek", on |-> "info"]
  <1>1. c \in Step
    BY DEF Step, Uses
  <1>2. Rule(c, a, a)
    BY DEF Rule
  <1> HIDE DEF c
  <1>3. Runs(<<c>>, a, a)
    BY <1>1, <1>2, StepRuns
  <1> QED
    BY <1>3 DEF GetMsgAddresses, Do, c

LEMMA CallbackRuns ==
    ASSUME NEW a \in Levels
    PROVE  Runs(UserCallback, a, a)
  <1> DEFINE c == [do |-> "callback", on |-> "user"]
  <1>1. c \in Step
    BY DEF Step
  <1>2. Rule(c, a, a)
    BY DEF Rule
  <1> HIDE DEF c
  <1>3. Runs(<<c>>, a, a)
    BY <1>1, <1>2, StepRuns
  <1> QED
    BY <1>3 DEF UserCallback, Do, c

---------------------------------------------------------------------------
\* The methods of Discovery and NodeShared, and the calls of Node.

\* With the discovery mutex held everything is in order, and so it is with none.
LEMMA Orders ==
    ASSUME NEW a \in Levels
    PROVE  /\ InOrder(a, "shared")
           /\ a["disc"] > 0 => InOrder(a, "disc")
           /\ a["shared"] = 0 => InOrder(a, "disc")
  BY DEF InOrder, Levels, Mutexes

\* The tables of NodeShared under its mutex.
LEMMA TablesRun ==
    ASSUME NEW what \in {"read", "write"}, NEW a \in Levels, a["shared"] > 0
    PROVE  Runs(Do(what, "tables"), a, a)
  BY AccessRuns DEF Guards

\* The tables of Discovery under its mutex.
LEMMA InfoRuns ==
    ASSUME NEW what \in {"read", "write"}, NEW a \in Levels, a["disc"] > 0
    PROVE  Runs(Do(what, "info"), a, a)
  BY AccessRuns DEF Guards

\* NodeShared::mutex may be locked at any time.
LEMMA SharedRuns ==
    ASSUME NEW a \in Levels, NEW body,
           Runs(body, Up(a, "shared"), Up(a, "shared"))
    PROVE  Runs(Under("shared", body), a, a)
  BY UnderRuns, Orders DEF Mutexes

LEMMA DiscRuns ==
    ASSUME NEW a \in Levels, NEW body, InOrder(a, "disc"),
           Runs(body, Up(a, "disc"), Up(a, "disc"))
    PROVE  Runs(Under("disc", body), a, a)
  BY UnderRuns DEF Mutexes

LEMMA ConnectionRuns ==
    ASSUME NEW a \in Levels
    PROVE  /\ Runs(OnNewConnection, a, a)
           /\ Runs(OnNewDisconnection, a, a)
           /\ a["disc"] > 0 => Runs(OnNewSrvConnection, a, a)
  <1> DEFINE b == Up(a, "shared")
  <1>1. b \in Levels /\ b["shared"] > 0 /\ b["disc"] = a["disc"]
    BY LevelsUp DEF Mutexes
  <1>2. Runs(Do("write", "tables"), b, b)
    BY <1>1, TablesRun
  <1>3. Runs(OnNewConnection, a, a) /\ Runs(OnNewDisconnection, a, a)
    BY <1>2, SharedRuns DEF OnNewConnection, OnNewDisconnection
  <1>4. ASSUME a["disc"] > 0
        PROVE  Runs(OnNewSrvConnection, a, a)
    <2> HIDE DEF b
    <2>1. Runs(Do("read", "info"), b, b)
      BY <1>1, <1>4, InfoRuns
    <2>2. Runs(Do("write", "tables") \o Do("read", "info"), b, b)
      BY <1>2, <2>1, ThenRuns
    <2> QED
      BY <2>2, SharedRuns DEF b, OnNewSrvConnection
  <1> QED
    BY <1>3, <1>4

LEMMA DiscoveryRuns ==
    ASSUME NEW a \in Levels, InOrder(a, "disc")
    PROVE  /\ Runs(DiscoveryAdvertise, a, a)
           /\ Runs(DiscoveryDiscover, a, a)
           /\ Runs(DiscoveryDiscoverSrv, a, a)
           /\ Runs(DiscoveryGetTopicList, a, a)
  <1> DEFINE b == Up(a, "disc")
  <1>1. b \in Levels /\ b["disc"] > 0
    BY LevelsUp DEF Mutexes
  <1> HIDE DEF b
  <1>2. Runs(Do("write", "info"), b, b) /\ Runs(Do("read", "info"), b, b)
    BY <1>1, InfoRuns
  <1>3. Runs(OnNewConnection, b, b) /\ Runs(OnNewSrvConnection, b, b)
    BY <1>1, ConnectionRuns
  <1>4. Runs(Do("read", "info") \o OnNewConnection, b, b)
    BY <1>2, <1>3, ThenRuns
  <1>5. Runs(Do("read", "info") \o OnNewSrvConnection, b, b)
    BY <1>2, <1>3, ThenRuns
  <1>6. Runs(DiscoveryAdvertise, a, a) /\ Runs(DiscoveryGetTopicList, a, a)
    BY <1>2, DiscRuns DEF b, DiscoveryAdvertise, DiscoveryGetTopicList
  <1>7. Runs(DiscoveryDiscover, a, a)
    BY <1>4, DiscRuns DEF b, DiscoveryDiscover
  <1>8. Runs(DiscoveryDiscoverSrv, a, a)
    BY <1>5, DiscRuns DEF b, DiscoveryDiscoverSrv
  <1> QED
    BY <1>6, <1>7, <1>8

\* Discovery's tables, read by a caller that holds discovery's mutex.
LEMMA AddressesRun ==
    ASSUME NEW a \in Levels, a["disc"] > 0
    PROVE  Runs(GetAddresses, a, a)
  BY AccessRuns DEF GetAddresses, Guards

\* Advertise, Subscribe and Request lock discovery's mutex first.
LEMMA BothRun ==
    ASSUME NEW a \in Levels, InOrder(a, "disc")
    PROVE  /\ Runs(Advertise, a, a)
           /\ Runs(Subscribe, a, a)
           /\ Runs(Request, a, a)
  <1> DEFINE b == Up(a, "disc")
             c == Up(b, "shared")
  <1>1. b \in Levels /\ b["disc"] > 0
    BY LevelsUp DEF Mutexes
  <1> HIDE DEF b
  <1>2. c \in Levels /\ c["disc"] > 0 /\ c["shared"] > 0
    BY <1>1, LevelsUp DEF Mutexes
  <1> HIDE DEF c
  <1>3. Runs(Do("write", "tables"), c, c)
    BY <1>2, TablesRun
  <1>4. InOrder(c, "disc")
    BY <1>2, Orders
  <1>5. /\ Runs(DiscoveryAdvertise, c, c)
        /\ Runs(DiscoveryDiscover, c, c)
        /\ Runs(DiscoveryDiscoverSrv, c, c)
    BY <1>2, <1>4, DiscoveryRuns
  <1>6. Runs(GetAddresses, c, c)
    BY <1>2, AddressesRun
  <1>7. Runs(Do("write", "tables") \o DiscoveryAdvertise, c, c)
    BY <1>3, <1>5, ThenRuns
  <1>8. Runs(Do("write", "tables") \o DiscoveryDiscover, c, c)
    BY <1>3, <1>5, ThenRuns
  <1>9. Runs(Do("write", "tables") \o GetAddresses \o DiscoveryDiscoverSrv, c, c)
    <2>1. Runs(Do("write", "tables") \o GetAddresses, c, c)
      BY <1>3, <1>6, ThenRuns
    <2> QED
      BY <1>5, <2>1, ThenRuns
  <1>10. ASSUME NEW body, Runs(body, c, c)
         PROVE  Runs(Under("disc", Under("shared", body)), a, a)
    <2>1. Runs(Under("shared", body), b, b)
      BY <1>1, <1>10, SharedRuns DEF c
    <2> QED
      BY <2>1, DiscRuns DEF b
  <1> QED
    BY <1>7, <1>8, <1>9, <1>10 DEF Advertise, Subscribe, Request

\* The calls that run a callback with NodeShared::mutex held.
LEMMA PublishRuns ==
    ASSUME NEW a \in Levels, NEW callback,
           \A l \in Levels : Runs(callback, l, l)
    PROVE  /\ Runs(Publish(callback), a, a)
           /\ InOrder(a, "disc") => Runs(RequestLocal(callback), a, a)
  <1>1. ASSUME NEW b \in Levels
        PROVE  Runs(Under("shared", Do("read", "tables") \o callback), b, b)
    <2> DEFINE c == Up(b, "shared")
    <2>1. c \in Levels /\ c["shared"] > 0
      BY LevelsUp DEF Mutexes
    <2> HIDE DEF c
    <2>2. Runs(Do("read", "tables"), c, c) /\ Runs(callback, c, c)
      BY <2>1, TablesRun
    <2>3. Runs(Do("read", "tables") \o callback, c, c)
      BY <2>2, ThenRuns
    <2> QED
      BY <2>3, SharedRuns DEF c
  <1>2. Up(a, "disc") \in Levels
    BY LevelsUp DEF Mutexes
  <1>3. InOrder(a, "disc") => Runs(RequestLocal(callback), a, a)
    BY <1>1, <1>2, DiscRuns DEF RequestLocal
  <1> QED
    BY <1>1, <1>3 DEF Publish

\* The calls with NodeShared::mutex alone; Unsubscribe reads discovery's table
\* with it, and GetTopicList locks discovery's mutex under it.
LEMMA SharedOnlyRun ==
    ASSUME NEW a \in Levels
    PROVE  /\ Runs(AdvertisedTopics, a, a)
           /\ Runs(Unsubscribe, a, a)
           /\ ~OrderKept => Runs(GetTopicList, a, a)
  <1> DEFINE b == Up(a, "shared")
  <1>1. b \in Levels /\ b["shared"] > 0
    BY LevelsUp DEF Mutexes
  <1> HIDE DEF b
  <1>2. Runs(Do("read", "tables"), b, b) /\ Runs(Do("write", "tables"), b, b)
    BY <1>1, TablesRun
  <1>3. Runs(AdvertisedTopics, a, a)
    BY <1>2, SharedRuns DEF b, AdvertisedTopics
  <1>4. Runs(Unsubscribe, a, a)
    <2>1. Runs(GetMsgAddresses, b, b)
      BY <1>1, PeekRuns
    <2>2. Runs(Do("write", "tables") \o GetMsgAddresses, b, b)
      BY <1>2, <2>1, ThenRuns
    <2> QED
      BY <2>2, SharedRuns DEF b, Unsubscribe
  <1>5. ASSUME ~OrderKept
        PROVE  Runs(GetTopicList, a, a)
    <2>1. InOrder(b, "disc")
      BY <1>5 DEF InOrder
    <2>2. Runs(DiscoveryGetTopicList, b, b)
      BY <1>1, <2>1, DiscoveryRuns
    <2> QED
      BY <2>2, SharedRuns DEF b, GetTopicList
  <1> QED
    BY <1>3, <1>4, <1>5

\* A step as a sequence of one.
LEMMA DoRuns ==
    ASSUME NEW what, NEW on, NEW a \in Levels, NEW b \in Levels,
           [do |-> what, on |-> on] \in Step, Rule([do |-> what, on |-> on], a, b)
    PROVE  Runs(Do(what, on), a, b)
  BY StepRuns DEF Do

\* The blocking call, which locks and unlocks by hand and waits in between.
LEMMA BlockingRuns ==
    ASSUME NEW a \in Levels, InOrder(a, "disc"), WaitsOutside => a = Zero
    PROVE  Runs(BlockingRequest, a, a)
  <1> DEFINE b == Up(a, "disc")
             c == Up(b, "shared")
             e == Up(a, "shared")
  <1>1. b \in Levels /\ b["disc"] > 0
    BY LevelsUp DEF Mutexes
  <1>2. e \in Levels /\ e["shared"] > 0
    BY LevelsUp DEF Mutexes
  <1>3. c = Up(e, "disc")
    BY UpsCommute DEF Mutexes
  <1>4. WaitsOutside => e = Up(Zero, "shared")
    OBVIOUS
  <1>5. Rule([do |-> "lock", on |-> "disc"], a, b)
    BY DEF Rule, Mutexes
  <1>6. Rule([do |-> "unlock", on |-> "shared"], e, a)
    BY DEF Rule, Mutexes
  <1> HIDE DEF b, e
  <1>7. c \in Levels /\ c["disc"] > 0 /\ c["shared"] > 0
    BY <1>1, LevelsUp DEF Mutexes
  <1>8. Rule([do |-> "lock", on |-> "shared"], b, c)
    BY <1>1, Orders DEF Rule, Mutexes
  <1> HIDE DEF c
  <1>9. Rule([do |-> "unlock", on |-> "disc"], c, e)
    BY <1>3 DEF Rule, Mutexes
  <1>10. Rule([do |-> "wait", on |-> "shared"], e, e)
    BY <1>2, <1>4 DEF Rule
  <1>11. \A what \in {"lock", "unlock", "wait"}, on \in Mutexes :
             [do |-> what, on |-> on] \in Step
    BY DEF Step
  <1>12. /\ Runs(Do("lock", "disc"), a, b)
         /\ Runs(Do("lock", "shared"), b, c)
         /\ Runs(Do("unlock", "disc"), c, e)
         /\ Runs(Do("wait", "shared"), e, e)
         /\ Runs(Do("unlock", "shared"), e, a)
    BY <1>1, <1>2, <1>5, <1>6, <1>7, <1>8, <1>9, <1>10, <1>11, DoRuns DEF Mutexes
  <1>13. /\ Runs(Do("write", "tables"), c, c)
         /\ Runs(GetAddresses, c, c)
         /\ Runs(DiscoveryDiscoverSrv, c, c)
    <2>1. InOrder(c, "disc")
      BY <1>7, Orders
    <2> QED
      BY <1>7, <2>1, TablesRun, AddressesRun, DiscoveryRuns
  <1>14. Runs(Do("lock", "disc") \o Do("lock", "shared"), a, c)
    BY <1>12, ThenRuns
  <1>15. Runs(Do("lock", "disc") \o Do("lock", "shared") \o Do("write", "tables"), a, c)
    BY <1>13, <1>14, ThenRuns
  <1>16. Runs(Do("lock", "disc") \o Do("lock", "shared") \o Do("write", "tables")
              \o GetAddresses, a, c)
    BY <1>13, <1>15, ThenRuns
  <1>17. Runs(Do("lock", "disc") \o Do("lock", "shared") \o Do("write", "tables")
              \o GetAddresses \o DiscoveryDiscoverSrv, a, c)
    BY <1>13, <1>16, ThenRuns
  <1>18. Runs(Do("lock", "disc") \o Do("lock", "shared") \o Do("write", "tables")
              \o GetAddresses \o DiscoveryDiscoverSrv \o Do("unlock", "disc"), a, e)
    BY <1>12, <1>17, ThenRuns
  <1>19. Runs(Do("lock", "disc") \o Do("lock", "shared") \o Do("write", "tables")
              \o GetAddresses \o DiscoveryDiscoverSrv \o Do("unlock", "disc")
              \o Do("wait", "shared"), a, e)
    BY <1>12, <1>18, ThenRuns
  <1>20. Runs(Do("lock", "disc") \o Do("lock", "shared") \o Do("write", "tables")
              \o GetAddresses \o DiscoveryDiscoverSrv \o Do("unlock", "disc")
              \o Do("wait", "shared") \o Do("unlock", "shared"), a, a)
    BY <1>12, <1>19, ThenRuns
  <1> QED
    BY <1>20 DEF BlockingRequest

\* Every call, made by a thread that holds nothing or by a callback, wherever
\* it was run.
LEMMA CallsRun ==
    ASSUME NEW c, NEW a \in Levels, NEW callback,
           \A l \in Levels : Runs(callback, l, l),
           (c \in Calls /\ a = Zero) \/ c \in CallbackCalls
    PROVE  Runs(Code(callback)[c], a, a)
  <1>1. c \in {"Advertise", "Subscribe", "Unsubscribe", "Publish", "RequestLocal",
               "Request", "BlockingRequest", "AdvertisedTopics", "GetTopicList"}
    BY LocksAssumption DEF Code
  <1>2. InOrder(a, "disc") \/ c \in {"Publish", "AdvertisedTopics", "Unsubscribe"}
    BY DEF InOrder, OrderKept, Zero, Mutexes
  <1>3. c = "GetTopicList" => ~OrderKept
    BY DEF OrderKept
  <1>5. c = "BlockingRequest" => (WaitsOutside => a = Zero)
    BY DEF WaitsOutside
  <1>6. CASE c = "Advertise"
    BY <1>2, <1>6, BothRun DEF Code
  <1>7. CASE c = "Subscribe"
    BY <1>2, <1>7, BothRun DEF Code
  <1>8. CASE c = "Unsubscribe"
    BY <1>8, SharedOnlyRun DEF Code
  <1>9. CASE c = "Publish"
    <2>1. Runs(Publish(callback), a, a)
      BY PublishRuns
    <2> QED
      BY <1>9, <2>1 DEF Code
  <1>10. CASE c = "RequestLocal"
    <2>1. Runs(RequestLocal(callback), a, a)
      BY <1>2, <1>10, PublishRuns
    <2> QED
      BY <1>10, <2>1 DEF Code
  <1>11. CASE c = "Request"
    BY <1>2, <1>11, BothRun DEF Code
  <1>12. CASE c = "BlockingRequest"
    BY <1>2, <1>5, <1>12, BlockingRuns DEF Code
  <1>13. CASE c = "AdvertisedTopics"
    BY <1>13, SharedOnlyRun DEF Code
  <1>14. CASE c = "GetTopicList"
    BY <1>3, <1>14, SharedOnlyRun DEF Code
  <1> QED
    BY <1>1, <1>6, <1>7, <1>8, <1>9, <1>10, <1>11, <1>12, <1>13, <1>14

\* What an idle thread may start runs from no mutex to no mutex.
LEMMA RoundsRun ==
    ASSUME NEW t \in Threads, NEW code \in Rounds(t)
    PROVE  Runs(code, Zero, Zero)
  <1> DEFINE b == Up(Zero, "disc")
             s == Up(Zero, "shared")
  <1>0. Zero \in Levels /\ InOrder(Zero, "disc")
    BY DEF Levels, Zero, InOrder, Mutexes
  <1>1. b \in Levels /\ b["disc"] > 0 /\ s \in Levels /\ s["shared"] > 0
    BY <1>0, LevelsUp DEF Mutexes
  <1> HIDE DEF b, s
  <1>2. /\ Runs(Do("write", "info"), b, b)
        /\ Runs(Do("read", "info"), b, b)
        /\ Runs(<<>>, b, b)
        /\ Runs(OnNewConnection, b, b)
        /\ Runs(OnNewDisconnection, b, b)
        /\ Runs(OnNewSrvConnection, b, b)
    BY <1>1, InfoRuns, NothingRuns, ConnectionRuns
  <1>3. ASSUME NEW cb \in {<<>>, OnNewConnection, OnNewDisconnection, OnNewSrvConnection}
        PROVE  Runs(Under("disc", Do("write", "info") \o cb), Zero, Zero)
    <2>1. Runs(Do("write", "info") \o cb, b, b)
      BY <1>2, ThenRuns
    <2> QED
      BY <1>0, <2>1, DiscRuns DEF b
  <1>4. CASE t = "activity"
    <2>1. code = RunActivityTask
      BY <1>4 DEF Rounds
    <2> QED
      BY <1>3, <2>1 DEF RunActivityTask
  <1>5. CASE t = "heartbeat"
    <2>1. code = RunHeartbeatTask
      BY <1>5 DEF Rounds
    <2> QED
      BY <1>0, <1>2, <2>1, DiscRuns DEF RunHeartbeatTask, b
  <1>6. CASE t = "discovery"
    <2>1. code \in DispatchDiscoveryMsg
      BY <1>6 DEF Rounds
    <2> QED
      BY <1>3, <2>1 DEF DispatchDiscoveryMsg
  <1>7. CASE t = "reception"
    <2>1. code \in RunReceptionTask
      BY <1>7 DEF Rounds
    <2>2. /\ Runs(Do("read", "tables"), s, s)
          /\ Runs(Do("write", "tables"), s, s)
          /\ Runs(UserCallback, s, s)
      BY <1>1, TablesRun, CallbackRuns
    <2>3. /\ Runs(Do("read", "tables") \o UserCallback, s, s)
          /\ Runs(UserCallback \o Do("write", "tables"), s, s)
      BY <2>2, ThenRuns
    <2>4. /\ Runs(Under("shared", Do("read", "tables") \o UserCallback), Zero, Zero)
          /\ Runs(Under("shared", Do("write", "tables")), Zero, Zero)
          /\ Runs(Under("shared", UserCallback \o Do("write", "tables")), Zero, Zero)
      BY <1>0, <2>2, <2>3, SharedRuns DEF s
    <2> QED
      BY <2>1, <2>4 DEF RunReceptionTask
  <1>8. CASE t \notin ServiceThreads
    <2>1. PICK c \in Calls : code = Code(UserCallback)[c]
      BY <1>8 DEF Rounds, ServiceThreads
    <2>2. \A l \in Levels : Runs(UserCallback, l, l)
      BY CallbackRuns
    <2> QED
      BY <1>0, <2>1, <2>2, CallsRun
  <1> QED
    BY <1>4, <1>5, <1>6, <1>7, <1>8 DEF ServiceThreads

---------------------------------------------------------------------------
\* The inductive invariant: one thread at a time has a mutex, and every thread
\* can take all steps it has still to take and holds nothing then.
Exclusive ==
    \A m \in Mutexes : \A t, u \in Threads :
        held[m][t] > 0 /\ held[m][u] > 0 => t = u

Inv ==
    /\ TypeOK
    /\ Exclusive
    /\ \A t \in Threads : Runs(todo[t], Level(t), Zero)

\* A step of thread t after which it has code left and is at level a.
LEMMA ThreadStep ==
    ASSUME Inv, NEW t \in Threads, NEW code, NEW a \in Levels,
           Runs(code, a, Zero),
           todo' = [todo EXCEPT ![t] = code],
           held' = [m \in Mutexes |-> [held[m] EXCEPT ![t] = a[m]]],
           \A m \in Mutexes : a[m] > 0 => held[m][t] > 0 \/ Free(m, t)
    PROVE  Inv'
  <1>1. /\ todo \in [Threads -> Seq(Step)]
        /\ held \in [Mutexes -> [Threads -> Nat]]
    BY DEF Inv, TypeOK
  <1>2. \A m \in Mutexes : a[m] \in Nat
    BY DEF Levels
  <1>3. /\ \A u \in Threads : todo'[u] = IF u = t THEN code ELSE todo[u]
        /\ \A m \in Mutexes, u \in Threads :
              held'[m][u] = IF u = t THEN a[m] ELSE held[m][u]
    BY <1>1
  <1>4. TypeOK'
    <2>1. code \in Seq(Step)
      BY DEF Runs
    <2>2. todo' \in [Threads -> Seq(Step)]
      BY <1>1, <2>1
    <2>3. held' \in [Mutexes -> [Threads -> Nat]]
      BY <1>1, <1>2
    <2> QED
      BY <2>2, <2>3 DEF TypeOK
  <1>5. Exclusive'
    <2> SUFFICES ASSUME NEW m \in Mutexes, NEW u \in Threads, NEW v \in Threads,
                        held'[m][u] > 0, held'[m][v] > 0, u # v
                 PROVE  FALSE
      BY DEF Exclusive
    <2>1. ASSUME NEW x \in Threads, x # t, a[m] > 0, held[m][x] > 0
          PROVE  FALSE
      <3>1. held[m][t] > 0 \/ held[m][x] = 0
        BY <2>1 DEF Free
      <3> QED
        BY <1>1, <2>1, <3>1 DEF Inv, Exclusive
    <2>2. CASE u = t
      BY <1>3, <2>1, <2>2
    <2>3. CASE v = t
      BY <1>3, <2>1, <2>3
    <2>4. CASE u # t /\ v # t
      BY <1>3, <2>4 DEF Inv, Exclusive
    <2> QED
      BY <2>2, <2>3, <2>4
  <1>6. ASSUME NEW u \in Threads
        PROVE  Runs(todo[u], Level(u), Zero)'
    <2>1. Level(u)' = IF u = t THEN a ELSE Level(u)
      BY <1>3 DEF Level, Levels
    <2>2. Runs(todo[u], Level(u), Zero)
      BY DEF Inv
    <2>3. Runs(todo'[u], Level(u)', Zero)
      BY <1>3, <2>1, <2>2
    <2>4. Zero' = Zero
      BY DEF Zero
    <2> QED
      BY <2>3 DEF Runs, Zero
  <1> QED
    BY <1>4, <1>5, <1>6 DEF Inv

\* The next step of a thread obeys the rule, and what is left runs.
LEMMA NextStep ==
    ASSUME Inv, NEW t \in Threads, todo[t] # <<>>
    PROVE  /\ Head(todo[t]) \in Step
           /\ Level(t) \in Levels
           /\ \E b \in Levels : /\ Rule(Head(todo[t]), Level(t), b)
                                /\ Runs(Tail(todo[t]), b, Zero)
  <1>1. Runs(todo[t], Level(t), Zero)
    BY DEF Inv
  <1>2. Level(t) \in Levels
    BY DEF Inv, TypeOK, Level, Levels
  <1> QED
    BY <1>1, <1>2, HeadRuns

\* The rule for each kind of step.
LEMMA RuleIs ==
    ASSUME NEW what, NEW on, NEW a \in Levels, NEW b \in Levels,
           Rule([do |-> what, on |-> on], a, b)
    PROVE  /\ what = "lock" => /\ on \in Mutexes /\ InOrder(a, on)
                               /\ b = Up(a, on)
           /\ what = "unlock" => on \in Mutexes /\ a = Up(b, on)
           /\ what = "wait" => /\ on = "shared" /\ a["shared"] > 0 /\ b = a
                               /\ WaitsOutside => a = Up(Zero, "shared")
           /\ what = "wake" => /\ on = "shared" /\ b = Up(a, "shared")
                               /\ WaitsOutside => a = Zero
           /\ what \in {"read", "write"} =>
                 /\ b = a
                 /\ \A m \in Mutexes : Guards(m, on) => a[m] > 0
           /\ what = "peek" => on = "info" /\ a["shared"] > 0 /\ b = a
           /\ what = "callback" => b = a
  BY DEF Rule

\* The tables of the locks if no count changed.
LEMMA HeldSame ==
    ASSUME Inv, NEW t \in Threads, held' = held
    PROVE  held' = [l \in Mutexes |-> [held[l] EXCEPT ![t] = Level(t)[l]]]
  BY DEF Inv, TypeOK, Level

---------------------------------------------------------------------------
\* Each action keeps the invariant.

LEMMA BeginStep ==
    ASSUME Inv, NEW t \in Threads, Begin(t)
    PROVE  Inv'
  <1>1. PICK code \in Rounds(t) : todo' = [todo EXCEPT ![t] = code]
    BY DEF Begin
  <1>2. held' = held /\ todo[t] = <<>>
    BY DEF Begin
  <1>3. Runs(<<>>, Level(t), Zero)
    BY <1>2 DEF Inv
  <1>4. Level(t) = Zero
    BY <1>3 DEF Runs
  <1>5. Runs(code, Zero, Zero)
    BY RoundsRun
  <1>6. held' = [l \in Mutexes |-> [held[l] EXCEPT ![t] = Level(t)[l]]]
    BY <1>2, HeldSame
  <1>7. Zero \in Levels /\ \A m \in Mutexes : ~(Zero[m] > 0)
    BY DEF Zero, Levels
  <1> QED
    BY <1>1, <1>4, <1>5, <1>6, <1>7, ThreadStep

LEMMA LockStep ==
    ASSUME Inv, NEW t \in Threads, NEW m \in Mutexes, Lock(t, m)
    PROVE  Inv'
  <1> DEFINE a == Level(t)
  <1>1. /\ todo[t] # <<>>
        /\ Head(todo[t]) \in {[do |-> "lock", on |-> m], [do |-> "wake", on |-> m]}
        /\ Free(m, t)
        /\ held' = [held EXCEPT ![m][t] = @ + 1]
        /\ todo' = [todo EXCEPT ![t] = Tail(@)]
    BY DEF Lock, At, Done
  <1>2. PICK b \in Levels : Rule(Head(todo[t]), a, b) /\ Runs(Tail(todo[t]), b, Zero)
    BY <1>1, NextStep
  <1>3. a \in Levels
    BY <1>1, NextStep
  <1>4. b = Up(a, m)
    <2> HIDE DEF a
    <2>1. CASE Head(todo[t]) = [do |-> "lock", on |-> m]
      BY <1>2, <1>3, <2>1, RuleIs
    <2>2. CASE Head(todo[t]) = [do |-> "wake", on |-> m]
      BY <1>2, <1>3, <2>2, RuleIs
    <2> QED
      BY <1>1, <2>1, <2>2
  <1>5. held[m][t] \in Nat /\ held' = [held EXCEPT ![m][t] = held[m][t] + 1]
    BY <1>1 DEF Inv, TypeOK
  <1>6. b = [Level(t) EXCEPT ![m] = held[m][t] + 1]
    BY <1>4 DEF Up, Level
  <1>7. held' = [l \in Mutexes |-> [held[l] EXCEPT ![t] = b[l]]]
    BY <1>5, <1>6 DEF Inv, TypeOK, Level
  <1>8. \A l \in Mutexes : b[l] > 0 => held[l][t] > 0 \/ Free(l, t)
    BY <1>1, <1>6 DEF Level
  <1>9. todo' = [todo EXCEPT ![t] = Tail(todo[t])]
    BY <1>1 DEF Inv, TypeOK
  <1> QED
    BY <1>2, <1>7, <1>8, <1>9, ThreadStep

LEMMA UnlockStep ==
    ASSUME Inv, NEW t \in Threads, NEW m \in Mutexes, Unlock(t, m)
    PROVE  Inv'
  <1> DEFINE a == Level(t)
  <1>1. /\ todo[t] # <<>>
        /\ Head(todo[t]) = [do |-> "unlock", on |-> m]
        /\ held' = [held EXCEPT ![m][t] = @ - 1]
        /\ todo' = [todo EXCEPT ![t] = Tail(@)]
    BY DEF Unlock, At, Done
  <1>2. PICK b \in Levels : Rule(Head(todo[t]), a, b) /\ Runs(Tail(todo[t]), b, Zero)
    BY <1>1, NextStep
  <1>3. a \in Levels
    BY <1>1, NextStep
  <1>4. a = Up(b, m)
    <2> HIDE DEF a
    <2> QED
      BY <1>1, <1>2, <1>3, RuleIs
  <1>5. /\ a = [l \in Mutexes |-> held[l][t]]
        /\ b[m] \in Nat /\ a[m] = b[m] + 1
        /\ \A l \in Mutexes : l # m => a[l] = b[l]
    BY <1>4, LevelsUp DEF Level, Levels
  <1>6. held[m][t] - 1 = b[m] /\ held' = [held EXCEPT ![m][t] = held[m][t] - 1]
    BY <1>1, <1>5 DEF Inv, TypeOK
  <1>7. held' = [l \in Mutexes |-> [held[l] EXCEPT ![t] = b[l]]]
    BY <1>5, <1>6 DEF Inv, TypeOK
  <1>8. \A l \in Mutexes : b[l] > 0 => held[l][t] > 0 \/ Free(l, t)
    BY <1>5
  <1>9. todo' = [todo EXCEPT ![t] = Tail(todo[t])]
    BY <1>1 DEF Inv, TypeOK
  <1> QED
    BY <1>2, <1>7, <1>8, <1>9, ThreadStep

LEMMA WaitStep ==
    ASSUME Inv, NEW t \in Threads, NEW m \in Mutexes, WaitUntil(t, m)
    PROVE  Inv'
  <1> DEFINE a == Level(t)
             wake == [do |-> "wake", on |-> m]
             b == [a EXCEPT ![m] = held[m][t] - 1]
  <1>1. /\ todo[t] # <<>>
        /\ Head(todo[t]) = [do |-> "wait", on |-> m]
        /\ held' = [held EXCEPT ![m][t] = @ - 1]
        /\ todo' = [todo EXCEPT ![t] = Do("wake", m) \o Tail(@)]
    BY DEF WaitUntil, At
  <1>2. Rule(Head(todo[t]), a, a) /\ Runs(Tail(todo[t]), a, Zero)
    <2>1. PICK c \in Levels : Rule(Head(todo[t]), a, c) /\ Runs(Tail(todo[t]), c, Zero)
      BY <1>1, NextStep
    <2>2. a \in Levels
      BY <1>1, NextStep
    <2> HIDE DEF a
    <2>3. c = a
      BY <1>1, <2>1, <2>2, RuleIs
    <2> QED
      BY <2>1, <2>3
  <1>3. a \in Levels
    BY <1>1, NextStep
  <1>4. /\ m = "shared" /\ a["shared"] > 0
        /\ WaitsOutside => a = Up(Zero, "shared")
    <2> HIDE DEF a
    <2> QED
      BY <1>1, <1>2, <1>3, RuleIs
  <1>5. held[m][t] \in Nat /\ held[m][t] > 0 /\ a = [l \in Mutexes |-> held[l][t]]
    BY <1>4 DEF Inv, TypeOK, Level
  <1>6. b \in Levels /\ a = Up(b, "shared") /\ \A l \in Mutexes : b[l] <= held[l][t]
    BY <1>3, <1>4, <1>5 DEF Up, Levels
  <1>7. WaitsOutside => b = Zero
    <2> SUFFICES ASSUME WaitsOutside PROVE b = Zero
      OBVIOUS
    <2>1. a = Up(Zero, "shared")
      BY <1>4
    <2>2. b[m] = held[m][t] - 1 /\ b = [l \in Mutexes |-> IF l = m THEN held[m][t] - 1 ELSE a[l]]
      BY <1>5
    <2>3. a[m] = 1 /\ \A l \in Mutexes : l # m => a[l] = 0
      BY <1>4, <2>1 DEF Up, Zero
    <2> QED
      BY <1>5, <2>2, <2>3 DEF Zero
  <1> HIDE DEF a, b
  <1>8. Rule(wake, b, a) /\ wake \in Step
    BY <1>4, <1>6, <1>7 DEF Rule, Step
  <1>9. Runs(<<wake>>, b, a)
    BY <1>3, <1>6, <1>8, StepRuns
  <1>10. Runs(<<wake>> \o Tail(todo[t]), b, Zero)
    BY <1>2, <1>9, ThenRuns
  <1>11. held[m][t] - 1 \in Nat /\ held' = [held EXCEPT ![m][t] = held[m][t] - 1]
    BY <1>1, <1>5 DEF Inv, TypeOK
  <1>12. held' = [l \in Mutexes |-> [held[l] EXCEPT ![t] = b[l]]]
    BY <1>11 DEF Inv, TypeOK, Level, b, a
  <1>13. todo' = [todo EXCEPT ![t] = <<wake>> \o Tail(todo[t])]
    BY <1>1 DEF Inv, TypeOK, Do
  <1>14. \A l \in Mutexes : b[l] > 0 => held[l][t] > 0 \/ Free(l, t)
    BY <1>6 DEF Inv, TypeOK, Levels
  <1> QED
    BY <1>6, <1>10, <1>12, <1>13, <1>14, ThreadStep

LEMMA AccessStep ==
    ASSUME Inv, NEW t \in Threads, Access(t)
    PROVE  Inv'
  <1> DEFINE a == Level(t)
  <1>1. PICK what \in Uses, on \in {"info", "tables"} : At(t, what, on)
    BY DEF Access
  <1>2. /\ todo[t] # <<>>
        /\ Head(todo[t]) = [do |-> what, on |-> on]
        /\ held' = held
        /\ todo' = [todo EXCEPT ![t] = Tail(@)]
    BY <1>1 DEF Access, At, Done
  <1>3. PICK b \in Levels : Rule(Head(todo[t]), a, b) /\ Runs(Tail(todo[t]), b, Zero)
    BY <1>2, NextStep
  <1>4. a \in Levels
    BY <1>2, NextStep
  <1>5. b = a
    <2> HIDE DEF a
    <2> QED
      BY <1>1, <1>2, <1>3, <1>4, RuleIs DEF Uses
  <1>6. held' = [l \in Mutexes |-> [held[l] EXCEPT ![t] = a[l]]]
    BY <1>2, HeldSame
  <1>7. \A l \in Mutexes : a[l] > 0 => held[l][t] > 0
    BY DEF Level
  <1>8. todo' = [todo EXCEPT ![t] = Tail(todo[t])]
    BY <1>2 DEF Inv, TypeOK
  <1> QED
    BY <1>3, <1>4, <1>5, <1>6, <1>7, <1>8, ThreadStep

LEMMA CallbackStep ==
    ASSUME Inv, NEW t \in Threads, RunCallback(t)
    PROVE  Inv'
  <1> DEFINE a == Level(t)
  <1>1. /\ todo[t] # <<>>
        /\ Head(todo[t]) = [do |-> "callback", on |-> "user"]
        /\ held' = held
    BY DEF RunCallback, At
  <1>2. PICK code \in {<<>>} \cup {Code(<<>>)[c] : c \in CallbackCalls} :
            todo' = [todo EXCEPT ![t] = code \o Tail(@)]
    BY DEF RunCallback
  <1>3. PICK b \in Levels : Rule(Head(todo[t]), a, b) /\ Runs(Tail(todo[t]), b, Zero)
    BY <1>1, NextStep
  <1>4. a \in Levels
    BY <1>1, NextStep
  <1>5. b = a
    <2> HIDE DEF a
    <2> QED
      BY <1>1, <1>3, <1>4, RuleIs
  <1>6. Runs(code, a, a)
    <2> HIDE DEF a
    <2>1. \A l \in Levels : Runs(<<>>, l, l)
      BY NothingRuns
    <2>2. CASE code = <<>>
      BY <1>4, <2>1, <2>2
    <2>3. ASSUME NEW c \in CallbackCalls, code = Code(<<>>)[c]
          PROVE  Runs(code, a, a)
      BY <1>4, <2>1, <2>3, CallsRun
    <2> QED
      BY <2>2, <2>3
  <1>7. Runs(code \o Tail(todo[t]), a, Zero)
    BY <1>3, <1>5, <1>6, ThenRuns
  <1>8. held' = [l \in Mutexes |-> [held[l] EXCEPT ![t] = a[l]]]
    BY <1>1, HeldSame
  <1>9. \A l \in Mutexes : a[l] > 0 => held[l][t] > 0
    BY DEF Level
  <1>10. todo' = [todo EXCEPT ![t] = code \o Tail(todo[t])]
    BY <1>2 DEF Inv, TypeOK
  <1> QED
    BY <1>4, <1>7, <1>8, <1>9, <1>10, ThreadStep

\* Inv is inductive.
LEMMA InvStep ==
    ASSUME Inv, [Next]_vars
    PROVE  Inv'
  <1>1. CASE UNCHANGED vars
    <2>1. todo' = todo /\ held' = held
      BY <1>1 DEF vars
    <2>2. Inv'
      <3>1. TypeOK' /\ Exclusive'
        BY <2>1 DEF Inv, TypeOK, Exclusive
      <3>2. ASSUME NEW t \in Threads
            PROVE  Runs(todo[t], Level(t), Zero)'
        <4>1. Runs(todo[t], Level(t), Zero)
          BY DEF Inv
        <4>2. Level(t)' = Level(t)
          BY <2>1 DEF Level
        <4>3. Runs(todo'[t], Level(t)', Zero)
          BY <2>1, <4>1, <4>2
        <4> QED
          BY <4>3 DEF Runs, Zero
      <3> QED
        BY <3>1, <3>2 DEF Inv
    <2> QED
      BY <2>2
  <1>2. CASE Next
    <2>1. PICK t \in Threads :
              \/ Begin(t)
              \/ \E m \in Mutexes : Lock(t, m) \/ Unlock(t, m) \/ WaitUntil(t, m)
              \/ Access(t)
              \/ RunCallback(t)
      BY <1>2 DEF Next
    <2> QED
      BY <2>1, BeginStep, LockStep, UnlockStep, WaitStep, AccessStep, CallbackStep
  <1> QED
    BY <1>1, <1>2

\* Inv holds in every reachable state.
LEMMA InvAlways == Spec => []Inv
  <1>1. Init => Inv
    <2> SUFFICES ASSUME Init PROVE Inv
      OBVIOUS
    <2>1. TypeOK /\ Exclusive
      BY DEF Init, TypeOK, Exclusive
    <2>2. ASSUME NEW t \in Threads
          PROVE  Runs(todo[t], Level(t), Zero)
      <3>1. todo[t] = <<>> /\ Level(t) = Zero /\ Zero \in Levels
        BY DEF Init, Level, Zero, Levels
      <3> QED
        BY <3>1, NothingRuns
    <2> QED
      BY <2>1, <2>2 DEF Inv
  <1>2. Inv /\ [Next]_vars => Inv'
    BY InvStep
  <1> QED
    BY <1>1, <1>2, PTL DEF Spec

---------------------------------------------------------------------------
\* The theorems.

\* The steps left are steps, and no mutex is unlocked more often than it was
\* locked, whatever calls are made by whom.
THEOREM TypeCorrect == Spec => []TypeOK
  <1>1. Inv => TypeOK
    BY DEF Inv
  <1> QED
    BY <1>1, InvAlways, PTL

\* What a thread is about to do obeys the rule.
LEMMA AtRule ==
    ASSUME Inv, NEW t \in Threads, NEW what, NEW on, At(t, what, on)
    PROVE  /\ Level(t) \in Levels
           /\ \A m \in Mutexes : Level(t)[m] = held[m][t]
           /\ \E b \in Levels : Rule([do |-> what, on |-> on], Level(t), b)
  <1>1. todo[t] # <<>> /\ Head(todo[t]) = [do |-> what, on |-> on]
    BY DEF At
  <1>2. \A m \in Mutexes : Level(t)[m] = held[m][t]
    BY DEF Level
  <1>3. /\ Level(t) \in Levels
        /\ \E b \in Levels : Rule(Head(todo[t]), Level(t), b)
    BY <1>1, NextStep
  <1> QED
    BY <1>1, <1>2, <1>3

\* Where nobody asks for a list of topics, and callbacks make no call that locks
\* discovery's mutex, no two threads ever wait for each other's mutex: discovery's
\* is always locked before NodeShared's.
THEOREM NoneWaitInCircle ==
    ASSUME "GetTopicList" \notin Calls,
           CallbackCalls \subseteq {"Publish", "AdvertisedTopics", "Unsubscribe"}
    PROVE  Spec => []NoCircularWait
  <1>0. OrderKept
    BY DEF OrderKept
  <1>1. ASSUME Inv PROVE NoCircularWait
    <2> USE <1>1
    <2> SUFFICES ASSUME NEW t \in Threads, NEW u \in Threads,
                        WaitsFor(t, "disc"), held["shared"][t] > 0,
                        held["disc"][u] > 0
                 PROVE  FALSE
      BY DEF NoCircularWait
    <2>1. At(t, "lock", "disc") \/ At(t, "wake", "disc")
      BY DEF WaitsFor
    <2>2. ~At(t, "wake", "disc")
      <3> SUFFICES ASSUME At(t, "wake", "disc") PROVE FALSE
        OBVIOUS
      <3>1. /\ Level(t) \in Levels
            /\ \E b \in Levels : Rule([do |-> "wake", on |-> "disc"], Level(t), b)
        BY AtRule
      <3> QED
        BY <3>1, RuleIs
    <2>3. held["disc"][t] > 0
      <3>1. /\ Level(t) \in Levels
            /\ Level(t)["disc"] = held["disc"][t]
            /\ Level(t)["shared"] = held["shared"][t]
            /\ \E b \in Levels : Rule([do |-> "lock", on |-> "disc"], Level(t), b)
        BY <2>1, <2>2, AtRule DEF Mutexes
      <3>2. InOrder(Level(t), "disc")
        BY <3>1, RuleIs
      <3> QED
        BY <1>0, <3>1, <3>2 DEF InOrder
    <2>4. PICK v \in Threads \ {t} : held["disc"][v] # 0
      BY DEF WaitsFor, Free
    <2>5. held["disc"][v] > 0
      BY <2>4 DEF Inv, TypeOK, Mutexes
    <2> QED
      BY <2>3, <2>4, <2>5 DEF Inv, Exclusive, Mutexes
  <1> QED
    BY <1>1, InvAlways, PTL

\* Whatever is called, by whatever threads and callbacks, no table is written
\* while another thread uses it, save that Unsubscribe may look into discovery's
\* table when one of discovery's own threads writes it: everything else has the
\* mutex of every table it uses, even those that may wait for each other.
THEOREM NoneElseCollides == Spec => []OnlyUnsubscribeCollides
  <1>1. ASSUME Inv PROVE OnlyUnsubscribeCollides
    <2> USE <1>1
    <2>1. ASSUME NEW t \in Threads, NEW what \in {"read", "write"},
                 NEW x \in {"info", "tables"}, At(t, what, x),
                 NEW m \in Mutexes, Guards(m, x)
          PROVE  held[m][t] > 0
      <3>1. /\ Level(t) \in Levels
            /\ Level(t)[m] = held[m][t]
            /\ \E b \in Levels : Rule([do |-> what, on |-> x], Level(t), b)
        BY <2>1, AtRule
      <3>2. Level(t)[m] > 0
        BY <2>1, <3>1, RuleIs
      <3> QED
        BY <3>1, <3>2
    <2>2. ASSUME NEW u \in Threads, NEW x \in {"info", "tables"}, At(u, "peek", x)
          PROVE  x = "info" /\ held["shared"][u] > 0
      <3>1. /\ Level(u) \in Levels
            /\ Level(u)["shared"] = held["shared"][u]
            /\ \E b \in Levels : Rule([do |-> "peek", on |-> x], Level(u), b)
        BY <2>2, AtRule DEF Mutexes
      <3> QED
        BY <3>1, RuleIs
    <2> SUFFICES ASSUME NEW t \in Threads, NEW u \in Threads,
                        NEW x \in {"info", "tables"}, t # u, At(t, "write", x),
                        NEW what \in Uses, At(u, what, x)
                 PROVE  At(u, "peek", "info") /\ held["shared"][t] = 0
      BY DEF OnlyUnsubscribeCollides, Collide
    <2>3. what = "peek"
      <3> SUFFICES ASSUME what # "peek" PROVE FALSE
        OBVIOUS
      <3>1. what \in {"read", "write"}
        BY DEF Uses
      <3>2. PICK m \in Mutexes : Guards(m, x)
        BY DEF Guards, Mutexes
      <3>3. held[m][t] > 0 /\ held[m][u] > 0
        BY <2>1, <3>1, <3>2
      <3> QED
        BY <3>3 DEF Inv, Exclusive
    <2>4. x = "info" /\ held["shared"][u] > 0
      BY <2>2, <2>3
    <2>5. ~(held["shared"][t] > 0)
      BY <2>4 DEF Inv, Exclusive, Mutexes
    <2>6. held["shared"][t] \in Nat
      BY DEF Inv, TypeOK, Mutexes
    <2> QED
      BY <2>3, <2>4, <2>5, <2>6
  <1> QED
    BY <1>1, InvAlways, PTL

\* Where callbacks make no blocking call, who waits for a response holds no
\* mutex, so that the response can be received and given to it.
THEOREM WaitersLetGo ==
    ASSUME "BlockingRequest" \notin CallbackCalls
    PROVE  Spec => []WaiterLetsGo
  <1>0. WaitsOutside
    BY DEF WaitsOutside
  <1>1. ASSUME Inv PROVE WaiterLetsGo
    <2> USE <1>1
    <2> SUFFICES ASSUME NEW t \in Threads, NEW m \in Mutexes, At(t, "wake", m),
                        NEW l \in Mutexes
                 PROVE  held[l][t] = 0
      BY DEF WaiterLetsGo
    <2>1. /\ Level(t) \in Levels
          /\ Level(t)[l] = held[l][t]
          /\ \E b \in Levels : Rule([do |-> "wake", on |-> m], Level(t), b)
      BY AtRule
    <2>2. Level(t) = Zero
      BY <1>0, <2>1, RuleIs
    <2> QED
      BY <2>1, <2>2 DEF Zero
  <1> QED
    BY <1>1, InvAlways, PTL

=============================================================================

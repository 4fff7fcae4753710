------------------------------ MODULE Packets -------------------------------
(***************************************************************************)
(* The datagrams of discovery: classes Header, SubscriptionMsg,            *)
(* AdvertiseMsg and AdvertiseSrv, byte by byte.  A string and a datagram   *)
(* are sequences of bytes.  Pack returns what it writes, which is less     *)
(* than a message when a field is missing; numbers stay below 2^16.        *)
(***************************************************************************)
EXTENDS Integers, Sequences

Byte == 0 .. 255
Bytes == Seq(Byte)

\* A message is the record of what its class and its base class read.
With(f, g) ==
    [x \in DOMAIN f \cup DOMAIN g |-> IF x \in DOMAIN f THEN f[x] ELSE g[x]]

Uninitialized == 0
AdvType == 1
SubType == 2
UnadvType == 3
HeartbeatType == 4
ByeType == 5
AdvSrvType == 6
SubSrvType == 7
UnadvSrvType == 8

Process == 0
Host == 1
All == 2

\* memcpy of a number of w bytes, the lowest first, and of a string behind its
\* length, a uint64_t.
Number(n, w) == [i \in 1 .. w |-> CASE i = 1 -> n % 256
                                    [] i = 2 -> (n \div 256) % 256
                                    [] OTHER -> 0]
String(s) == Number(Len(s), 8) \o s

\* Reading at offset k.  Behind the end of the datagram there is whatever the
\* buffer held, here 0.
ByteAt(b, k) == IF k + 1 \in DOMAIN b THEN b[k + 1] ELSE 0
NumberAt(b, k, w) == ByteAt(b, k) + (IF w = 1 THEN 0 ELSE 256 * ByteAt(b, k + 1))
StringAt(b, k) == [i \in 1 .. NumberAt(b, k, 8) |-> ByteAt(b, k + 7 + i)]
AfterString(b, k) == k + 8 + NumberAt(b, k, 8)

---------------------------------------------------------------------------
\* Class Header.
Header == [version : Nat, pUuid : Bytes, type : Byte, flags : Nat]

\* Mutant: the flags are forgotten.
HeaderLengthShort(h) == 2 + 8 + Len(h.pUuid) + 1

GetHeaderLength(h) == 2 + 8 + Len(h.pUuid) + 1 + 2

PackHeader(h) ==
    IF h.version = 0 \/ h.pUuid = <<>> \/ h.type = Uninitialized THEN <<>>
    ELSE Number(h.version, 2) \o String(h.pUuid) \o Number(h.type, 1)
         \o Number(h.flags, 2)

UnpackHeader(b) ==
    LET k == AfterString(b, 2)
    IN  [version |-> NumberAt(b, 0, 2), pUuid |-> StringAt(b, 2),
         type |-> NumberAt(b, k, 1), flags |-> NumberAt(b, k + 1, 2)]

\* Class SubscriptionMsg.
SubscriptionMsg == [header : Header, topic : Bytes]

SubscriptionLength(m) == GetHeaderLength(m.header) + 8 + Len(m.topic)

PackSubscription(m) ==
    LET h == PackHeader(m.header)
    IN  IF h = <<>> \/ m.topic = <<>> THEN h ELSE h \o String(m.topic)

UnpackSubscription(b, k) == [topic |-> StringAt(b, k)]

\* Class AdvertiseBase, the part that AdvertiseMsg and AdvertiseSrv share.
Complete(m) == m.topic # <<>> /\ m.addr # <<>> /\ m.nUuid # <<>>

AdvertiseBaseLength(m) ==
    GetHeaderLength(m.header) + 8 + Len(m.topic) + 8 + Len(m.addr)
    + 8 + Len(m.ctrl) + 8 + Len(m.nUuid) + 1

PackAdvertiseBase(m) ==
    LET h == PackHeader(m.header)
    IN  IF h = <<>> \/ ~Complete(m) THEN h
        ELSE h \o String(m.topic) \o String(m.addr) \o String(m.ctrl)
             \o String(m.nUuid) \o Number(m.scope, 1)

\* Mutant: the scope is read as a uint16_t.
UnpackWideScope(b, k) ==
    LET addr == AfterString(b, k)
        ctrl == AfterString(b, addr)
        nUuid == AfterString(b, ctrl)
        scope == AfterString(b, nUuid)
    IN  [topic |-> StringAt(b, k), addr |-> StringAt(b, addr),
         ctrl |-> StringAt(b, ctrl), nUuid |-> StringAt(b, nUuid),
         scope |-> NumberAt(b, scope, 2)]

UnpackAdvertiseBase(b, k) ==
    LET addr == AfterString(b, k)
        ctrl == AfterString(b, addr)
        nUuid == AfterString(b, ctrl)
        scope == AfterString(b, nUuid)
    IN  [topic |-> StringAt(b, k), addr |-> StringAt(b, addr),
         ctrl |-> StringAt(b, ctrl), nUuid |-> StringAt(b, nUuid),
         scope |-> NumberAt(b, scope, 1)]

\* What UnpackBody of AdvertiseBase returns: where the next field starts.
AfterAdvertiseBase(b, k) ==
    AfterString(b, AfterString(b, AfterString(b, AfterString(b, k)))) + 1

\* Class AdvertiseMsg.
AdvertiseMsg ==
    [header : Header, topic : Bytes, addr : Bytes, ctrl : Bytes, nUuid : Bytes,
     scope : {Process, Host, All}, msgTypeName : Bytes]

AdvertiseMsgLength(m) == AdvertiseBaseLength(m) + 8 + Len(m.msgTypeName)

PackAdvertiseMsg(m) ==
    LET base == PackAdvertiseBase(m)
    IN  IF base = <<>> \/ ~Complete(m) \/ m.msgTypeName = <<>> THEN base
        ELSE base \o String(m.msgTypeName)

UnpackAdvertiseMsg(b, k) ==
    With(UnpackAdvertiseBase(b, k),
         [msgTypeName |-> StringAt(b, AfterAdvertiseBase(b, k))])

\* Class AdvertiseSrv.
AdvertiseSrv ==
    [header : Header, topic : Bytes, addr : Bytes, ctrl : Bytes, nUuid : Bytes,
     scope : {Process, Host, All}, reqTypeName : Bytes, repTypeName : Bytes]

AdvertiseSrvLength(m) ==
    AdvertiseBaseLength(m) + 8 + Len(m.reqTypeName) + 8 + Len(m.repTypeName)

PackAdvertiseSrv(m) ==
    LET base == PackAdvertiseBase(m)
    IN  IF base = <<>> \/ ~Complete(m) \/ m.reqTypeName = <<>> \/ m.repTypeName = <<>>
        THEN base
        ELSE base \o String(m.reqTypeName) \o String(m.repTypeName)

UnpackAdvertiseSrv(b, k) ==
    LET req == AfterAdvertiseBase(b, k)
    IN  With(UnpackAdvertiseBase(b, k),
             [reqTypeName |-> StringAt(b, req),
              repTypeName |-> StringAt(b, AfterString(b, req))])

=============================================================================

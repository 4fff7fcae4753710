----------------------------- MODULE WireProofs -----------------------------
(***************************************************************************)
(* Theorems about Wire, for any partitions, namespaces, topics, addresses  *)
(* and identifiers that fit into a datagram, and any number of topics and  *)
(* datagrams: unpacking inverts packing, names are equal when partition    *)
(* and path are, and whatever a node announced it takes back.              *)
(***************************************************************************)
EXTENDS Wire, SequenceTheorems, FiniteSetTheorems, TLAPS

---------------------------------------------------------------------------
\* What is where in a datagram.

\* The bytes s are in the datagram b at offset k.
Holds(b, k, s) ==
    /\ k + Len(s) <= Len(b)
    /\ \A i \in 1..Len(s) : b[k + i] = s[i]

\* A string that fits into a datagram.
Short(s) == s \in Bytes /\ Len(s) < 65536

\* A string behind another: its length,
LEMMA JoinedLen ==
    ASSUME NEW x \in Bytes, NEW y \in Bytes
    PROVE  /\ x \o y \in Bytes
           /\ Len(x \o y) = Len(x) + Len(y)
  BY DEF Bytes, Byte

\* and its bytes.
LEMMA JoinedAt ==
    ASSUME NEW x \in Bytes, NEW y \in Bytes
    PROVE  /\ \A i \in 1..Len(x) : (x \o y)[i] = x[i]
           /\ \A i \in 1..Len(y) : (x \o y)[Len(x) + i] = y[i]
  BY DEF Bytes, Byte

\* A datagram holds itself.
LEMMA HoldsAll ==
    ASSUME NEW b \in Bytes
    PROVE  Holds(b, 0, b)
  BY DEF Holds, Bytes, Byte

\* What is held as a whole is held in parts, each behind the one before it.
LEMMA HoldsParts ==
    ASSUME NEW b \in Bytes, NEW k \in Nat, NEW x \in Bytes, NEW y \in Bytes,
           Holds(b, k, x \o y)
    PROVE  Holds(b, k, x) /\ Holds(b, k + Len(x), y)
  <1>0. Len(x) \in Nat /\ Len(y) \in Nat /\ Len(b) \in Nat
    BY DEF Bytes
  <1>1. Holds(b, k, x)
    <2>1. ASSUME NEW i \in 1..Len(x) PROVE b[k + i] = x[i]
      <3>1. i \in 1..Len(x \o y) /\ (x \o y)[i] = x[i]
        BY <1>0, JoinedLen, JoinedAt
      <3> QED
        BY <3>1 DEF Holds
    <2> QED
      BY <1>0, <2>1, JoinedLen DEF Holds
  <1>2. Holds(b, k + Len(x), y)
    <2>1. ASSUME NEW i \in 1..Len(y) PROVE b[k + Len(x) + i] = y[i]
      <3>1. Len(x) + i \in 1..Len(x \o y) /\ (x \o y)[Len(x) + i] = y[i]
        BY <1>0, JoinedLen, JoinedAt
      <3>2. b[k + (Len(x) + i)] = (x \o y)[Len(x) + i]
        BY <3>1 DEF Holds
      <3>3. k + (Len(x) + i) = k + Len(x) + i
        BY <1>0
      <3> QED
        BY <3>1, <3>2, <3>3
    <2> QED
      BY <1>0, <2>1, JoinedLen DEF Holds
  <1> QED
    BY <1>1, <1>2

\* Of uint8_t, uint16_t and uint64_t.
Widths == {1, 2, 8}

\* The bytes that memcpy writes for a number (Pack of each message class).
LEMMA NumberIs ==
    ASSUME NEW n \in Nat, n < 65536, NEW w \in Widths
    PROVE  /\ Number(n, w) \in Bytes
           /\ Len(Number(n, w)) = w
           /\ Number(n, w)[1] = n % 256
           /\ w # 1 => Number(n, w)[2] = n \div 256
  <1> w \in Nat \ {0}
    BY DEF Widths
  <1>1. n % 256 \in Byte /\ n \div 256 \in Byte /\ (n \div 256) % 256 = n \div 256
    <2>1. n % 256 \in Nat /\ n % 256 < 256
      OBVIOUS
    <2>2. n \div 256 \in Nat /\ n \div 256 < 256
      OBVIOUS
    <2>3. \A i \in Nat : i < 256 => i \in Byte /\ i % 256 = i
      BY DEF Byte
    <2> QED
      BY <2>1, <2>2, <2>3
  <1>2. Number(n, w) \in [1..w -> Byte]
    <2>1. 0 \in Byte
      BY DEF Byte
    <2> QED
      BY <1>1, <2>1 DEF Number
  <1>3. Number(n, w) \in Bytes /\ Len(Number(n, w)) = w
    BY <1>2 DEF Bytes
  <1>4. 1 \in 1..w /\ (w # 1 => 2 \in 1..w)
    BY DEF Widths
  <1> QED
    BY <1>1, <1>3, <1>4 DEF Number

\* A number is read back where it was written (Unpack).
LEMMA ReadNumber ==
    ASSUME NEW b \in Bytes, NEW k \in Nat, NEW n \in Nat, n < 65536, NEW w \in Widths,
           w = 1 => n < 256, Holds(b, k, Number(n, w))
    PROVE  NumberAt(b, k, w) = n
  <1>0. Len(b) \in Nat /\ DOMAIN b = 1..Len(b)
    BY DEF Bytes
  <1>1. b[k + 1] = n % 256 /\ k + 1 \in 1..Len(b)
    <2>1. 1 \in 1..w
      BY DEF Widths
    <2>2. Len(Number(n, w)) = w /\ Number(n, w)[1] = n % 256
      BY NumberIs
    <2>3. k + w <= Len(b) /\ b[k + 1] = Number(n, w)[1]
      BY <2>1, <2>2 DEF Holds
    <2> QED
      BY <1>0, <2>1, <2>2, <2>3
  <1>2. ASSUME w # 1
        PROVE  b[k + 2] = n \div 256 /\ k + 2 \in 1..Len(b)
    <2>1. 2 \in 1..w
      BY <1>2 DEF Widths
    <2>2. Len(Number(n, w)) = w /\ Number(n, w)[2] = n \div 256
      BY <1>2, NumberIs
    <2>3. k + w <= Len(b) /\ b[k + 2] = Number(n, w)[2]
      BY <2>1, <2>2 DEF Holds
    <2> QED
      BY <1>0, <2>1, <2>2, <2>3
  <1>3. ByteAt(b, k) = n % 256
    BY <1>0, <1>1 DEF ByteAt
  <1>4. CASE w = 1
    BY <1>3, <1>4 DEF NumberAt
  <1>5. CASE w # 1
    <2>1. k + 1 + 1 = k + 2
      OBVIOUS
    <2>2. ByteAt(b, k + 1) = n \div 256
      BY <1>0, <1>2, <1>5, <2>1 DEF ByteAt
    <2>3. (n % 256) + 256 * (n \div 256) = n
      OBVIOUS
    <2>4. NumberAt(b, k, w) = ByteAt(b, k) + 256 * ByteAt(b, k + 1)
      BY <1>5 DEF NumberAt
    <2> QED
      BY <1>3, <2>2, <2>3, <2>4
  <1> QED
    BY <1>4, <1>5

\* A string is written as its length and its bytes.
LEMMA StringIs ==
    ASSUME NEW s, Short(s)
    PROVE  \E x \in Bytes :
              /\ String(s) = x \o s
              /\ Len(x) = 8
              /\ \A b \in Bytes, k \in Nat :
                    Holds(b, k, x) => NumberAt(b, k, 8) = Len(s)
  <1>1. PICK n \in Nat : n = Len(s) /\ n < 65536
    BY DEF Short, Bytes
  <1>2. PICK w \in Widths : w = 8
    BY DEF Widths
  <1>3. Number(n, w) \in Bytes /\ Len(Number(n, w)) = w
    BY <1>1, NumberIs
  <1>4. String(s) = Number(n, w) \o s
    BY <1>1, <1>2 DEF String
  <1>5. ASSUME NEW b \in Bytes, NEW k \in Nat, Holds(b, k, Number(n, w))
        PROVE  NumberAt(b, k, w) = n
    <2>1. w = 1 => n < 256
      BY <1>2
    <2> QED
      BY <1>1, <1>5, <2>1, ReadNumber
  <1>6. \A b \in Bytes, k \in Nat :
            Holds(b, k, Number(n, w)) => NumberAt(b, k, 8) = Len(s)
    BY <1>1, <1>2, <1>5
  <1> QED
    BY <1>2, <1>3, <1>4, <1>6

\* A string takes eight bytes more than its length, as GetMsgLength counts.
LEMMA StringLen ==
    ASSUME NEW s, Short(s)
    PROVE  /\ String(s) \in Bytes
           /\ Len(String(s)) = 8 + Len(s)
  <1>1. PICK x \in Bytes : String(s) = x \o s /\ Len(x) = 8
    BY StringIs
  <1>2. s \in Bytes
    BY DEF Short
  <1> QED
    BY <1>1, <1>2, JoinedLen

\* A string is read back where it was written, and what follows is behind it.
LEMMA ReadString ==
    ASSUME NEW b \in Bytes, NEW k \in Nat, NEW s, Short(s), Holds(b, k, String(s))
    PROVE  StringAt(b, k) = s /\ AfterString(b, k) = k + 8 + Len(s)
  <1>1. Len(s) \in Nat /\ s \in Bytes
    BY DEF Short, Bytes
  <1>2. PICK x \in Bytes :
           /\ String(s) = x \o s
           /\ Len(x) = 8
           /\ Holds(b, k, x) => NumberAt(b, k, 8) = Len(s)
    BY StringIs
  <1>3. Holds(b, k, x) /\ Holds(b, k + 8, s)
    <2>1. Holds(b, k, x \o s) /\ Len(x) = 8
      BY <1>2
    <2> QED
      BY <1>1, <2>1, HoldsParts
  <1>4. NumberAt(b, k, 8) = Len(s)
    BY <1>2, <1>3
  <1>5. \A i \in 1..Len(s) : ByteAt(b, k + 7 + i) = s[i]
    <2> SUFFICES ASSUME NEW i \in 1..Len(s) PROVE ByteAt(b, k + 7 + i) = s[i]
      OBVIOUS
    <2>1. k + 7 + i + 1 = k + 8 + i /\ k + 8 + i \in 1..Len(b)
      BY <1>1, <1>3 DEF Holds, Bytes
    <2>2. b[k + 8 + i] = s[i] /\ DOMAIN b = 1..Len(b)
      BY <1>3 DEF Holds, Bytes
    <2> QED
      BY <2>1, <2>2 DEF ByteAt
  <1>6. StringAt(b, k) = [i \in 1..Len(s) |-> s[i]]
    BY <1>4, <1>5 DEF StringAt
  <1>7. s = [i \in 1..Len(s) |-> s[i]]
    BY <1>1 DEF Bytes
  <1> QED
    BY <1>4, <1>6, <1>7 DEF AfterString

\* A datagram is written field by field; each field behind the prefix p is found
\* there, and the next one behind it.
Then(x, y) == x \o y

\* A string behind p.
LEMMA StringField ==
    ASSUME NEW p \in Bytes, NEW s, Short(s)
    PROVE  /\ Then(p, String(s)) \in Bytes
           /\ Len(Then(p, String(s))) = Len(p) + 8 + Len(s)
           /\ \A b \in Bytes : Holds(b, 0, Then(p, String(s))) =>
                 /\ Holds(b, 0, p)
                 /\ StringAt(b, Len(p)) = s
                 /\ AfterString(b, Len(p)) = Len(Then(p, String(s)))
  <1>1. PICK x \in Bytes : x = String(s) /\ Len(x) = 8 + Len(s)
    BY StringLen
  <1>2. Len(p) \in Nat /\ Len(s) \in Nat
    BY DEF Short, Bytes
  <1>3. p \o x \in Bytes /\ Len(p \o x) = Len(p) + 8 + Len(s)
    BY <1>1, <1>2, JoinedLen
  <1>4. ASSUME NEW b \in Bytes, Holds(b, 0, p \o x)
        PROVE  /\ Holds(b, 0, p)
               /\ StringAt(b, Len(p)) = s
               /\ AfterString(b, Len(p)) = Len(p) + 8 + Len(s)
    <2>1. Holds(b, 0, p) /\ Holds(b, 0 + Len(p), x)
      BY <1>4, HoldsParts
    <2>2. Holds(b, Len(p), String(s))
      BY <1>1, <1>2, <2>1
    <2> QED
      BY <1>2, <2>1, <2>2, ReadString
  <1> QED
    BY <1>1, <1>3, <1>4 DEF Then

\* A number behind p.
LEMMA NumberField ==
    ASSUME NEW p \in Bytes, NEW n \in Nat, n < 65536, NEW w \in Widths,
           w = 1 => n < 256
    PROVE  /\ Then(p, Number(n, w)) \in Bytes
           /\ Len(Then(p, Number(n, w))) = Len(p) + w
           /\ \A b \in Bytes : Holds(b, 0, Then(p, Number(n, w))) =>
                 Holds(b, 0, p) /\ NumberAt(b, Len(p), w) = n
  <1>1. PICK x \in Bytes : x = Number(n, w) /\ Len(x) = w
    BY NumberIs
  <1>2. Len(p) \in Nat
    BY DEF Bytes
  <1>3. p \o x \in Bytes /\ Len(p \o x) = Len(p) + w
    BY <1>1, <1>2, JoinedLen
  <1>4. ASSUME NEW b \in Bytes, Holds(b, 0, p \o x)
        PROVE  Holds(b, 0, p) /\ NumberAt(b, Len(p), w) = n
    <2>1. Holds(b, 0, p) /\ Holds(b, 0 + Len(p), x)
      BY <1>4, HoldsParts
    <2>2. Holds(b, Len(p), Number(n, w))
      BY <1>1, <1>2, <2>1
    <2> QED
      BY <1>2, <2>1, <2>2, ReadNumber
  <1> QED
    BY <1>1, <1>3, <1>4 DEF Then

---------------------------------------------------------------------------
\* The messages.

\* A header that is written.
Written(h) ==
    /\ h \in Header
    /\ h.version # 0 /\ h.version < 65536
    /\ h.pUuid # <<>> /\ Short(h.pUuid)
    /\ h.type # Uninitialized
    /\ h.flags < 65536

\* Header: Pack fills what GetHeaderLength says, Unpack reads what Pack wrote.
LEMMA HeaderRead ==
    ASSUME NEW h, Written(h)
    PROVE  /\ PackHeader(h) \in Bytes
           /\ PackHeader(h) # <<>>
           /\ Len(PackHeader(h)) = GetHeaderLength(h)
           /\ \A b \in Bytes : Holds(b, 0, PackHeader(h)) => UnpackHeader(b) = h
  <1>1. PICK w1 \in Widths, w2 \in Widths : w1 = 1 /\ w2 = 2
    BY DEF Widths
  <1>2. PICK v \in Nat, f \in Nat, y \in Nat :
           /\ h.version = v /\ v < 65536
           /\ h.flags = f /\ f < 65536
           /\ h.type = y /\ y < 256
    <2>1. h.version \in Nat /\ h.flags \in Nat /\ h.type \in Byte
      BY DEF Written, Header
    <2>2. \A i \in Byte : i \in Nat /\ i < 256
      BY DEF Byte
    <2> QED
      BY <2>1, <2>2 DEF Written
  <1> Short(h.pUuid)
    BY DEF Written
  <1>a. /\ v < 65536 /\ f < 65536 /\ y < 65536
        /\ w1 = 1 => y < 256
        /\ w2 = 1 => v < 256 /\ f < 256
    BY <1>1, <1>2
  <1> DEFINE p1 == Number(v, w2)
             p2 == Then(p1, String(h.pUuid))
             p3 == Then(p2, Number(y, w1))
             p4 == Then(p3, Number(f, w2))
  <1>3. PackHeader(h) = p4
    BY <1>1, <1>2 DEF PackHeader, Written, Then
  <1>4. p1 \in Bytes /\ Len(p1) = w2
    BY <1>a, NumberIs
  <1>5. \A b \in Bytes : Holds(b, 0, p1) => NumberAt(b, 0, w2) = v
    BY <1>a, ReadNumber
  <1> HIDE DEF p1
  <1>6. /\ p2 \in Bytes /\ Len(p2) = Len(p1) + 8 + Len(h.pUuid)
        /\ \A b \in Bytes : Holds(b, 0, p2) =>
              /\ Holds(b, 0, p1)
              /\ StringAt(b, Len(p1)) = h.pUuid
              /\ AfterString(b, Len(p1)) = Len(p2)
    BY <1>2, <1>4, StringField
  <1> HIDE DEF p2
  <1>7. /\ p3 \in Bytes /\ Len(p3) = Len(p2) + w1
        /\ \A b \in Bytes : Holds(b, 0, p3) =>
              Holds(b, 0, p2) /\ NumberAt(b, Len(p2), w1) = y
    <2>1. p2 \in Bytes
      BY <1>6
    <2> QED
      BY <1>a, <2>1, NumberField
  <1> HIDE DEF p3
  <1>8. /\ p4 \in Bytes /\ Len(p4) = Len(p3) + w2
        /\ \A b \in Bytes : Holds(b, 0, p4) =>
              Holds(b, 0, p3) /\ NumberAt(b, Len(p3), w2) = f
    <2>1. p3 \in Bytes
      BY <1>7
    <2> QED
      BY <1>a, <2>1, NumberField
  <1> HIDE DEF p4
  <1>9. Len(h.pUuid) \in Nat
    BY <1>2 DEF Short, Bytes
  <1>10. Len(p4) = GetHeaderLength(h)
    BY <1>1, <1>4, <1>6, <1>7, <1>8, <1>9 DEF GetHeaderLength
  <1>11. p4 # <<>>
    BY <1>10, <1>9 DEF GetHeaderLength
  <1>12. ASSUME NEW b \in Bytes, Holds(b, 0, p4)
         PROVE  UnpackHeader(b) = h
    <2>1. Holds(b, 0, p3) /\ NumberAt(b, Len(p3), w2) = f
      BY <1>8, <1>12
    <2>2. Holds(b, 0, p2) /\ NumberAt(b, Len(p2), w1) = y
      BY <1>7, <2>1
    <2>3. /\ Holds(b, 0, p1) /\ StringAt(b, 2) = h.pUuid
          /\ AfterString(b, 2) = Len(p2)
      BY <1>1, <1>4, <1>6, <2>2
    <2>4. NumberAt(b, 0, w2) = v
      BY <1>5, <2>3
    <2>5. Len(p3) = Len(p2) + 1
      BY <1>1, <1>7
    <2>6. UnpackHeader(b) = [version |-> h.version, pUuid |-> h.pUuid,
                             type |-> h.type, flags |-> h.flags]
      BY <1>1, <1>2, <2>1, <2>2, <2>3, <2>4, <2>5 DEF UnpackHeader
    <2>7. h \in Header
      BY DEF Written
    <2> QED
      BY <2>6, <2>7 DEF Header
  <1> QED
    BY <1>3, <1>8, <1>10, <1>11, <1>12

\* The part of a message that AdvertiseMsg and AdvertiseSrv share.
WrittenBase(m) ==
    /\ Written(m.header)
    /\ Complete(m)
    /\ Short(m.topic) /\ Short(m.addr) /\ Short(m.ctrl) /\ Short(m.nUuid)
    /\ m.scope \in Nat /\ m.scope < 256

\* What Unpack of AdvertiseBase reads.
Base(m) ==
    [topic |-> m.topic, addr |-> m.addr, ctrl |-> m.ctrl, nUuid |-> m.nUuid,
     scope |-> m.scope]

\* The same for AdvertiseBase, and UnpackBody returns where its fields end.
LEMMA BaseRead ==
    ASSUME NEW m, WrittenBase(m)
    PROVE  LET p == PackAdvertiseBase(m)
               k == GetHeaderLength(m.header)
           IN  /\ p \in Bytes
               /\ p # <<>>
               /\ Len(p) = AdvertiseBaseLength(m)
               /\ \A b \in Bytes : Holds(b, 0, p) =>
                     /\ Holds(b, 0, PackHeader(m.header))
                     /\ UnpackAdvertiseBase(b, k) = Base(m)
                     /\ AfterAdvertiseBase(b, k) = Len(p)
  <1>1. PICK w \in Widths : w = 1
    BY DEF Widths
  <1>2. PICK n \in Nat : m.scope = n /\ n < 65536 /\ (w = 1 => n < 256)
    BY DEF WrittenBase
  <1>3. Short(m.topic) /\ Short(m.addr) /\ Short(m.ctrl) /\ Short(m.nUuid)
    BY DEF WrittenBase
  <1>4. PICK q \in Bytes : /\ q = PackHeader(m.header)
                          /\ q # <<>>
                          /\ Len(q) = GetHeaderLength(m.header)
    BY HeaderRead DEF WrittenBase
  <1> DEFINE p1 == Then(q, String(m.topic))
             p2 == Then(p1, String(m.addr))
             p3 == Then(p2, String(m.ctrl))
             p4 == Then(p3, String(m.nUuid))
             p5 == Then(p4, Number(n, w))
  <1>5. PackAdvertiseBase(m) = p5
    <2>1. Complete(m) /\ q # <<>>
      BY <1>4 DEF WrittenBase
    <2> QED
      BY <1>1, <1>2, <1>4, <2>1 DEF PackAdvertiseBase, Then
  <1>6. /\ p1 \in Bytes /\ Len(p1) = Len(q) + 8 + Len(m.topic)
        /\ \A b \in Bytes : Holds(b, 0, p1) =>
              /\ Holds(b, 0, q)
              /\ StringAt(b, Len(q)) = m.topic
              /\ AfterString(b, Len(q)) = Len(p1)
    BY <1>3, <1>4, StringField
  <1> HIDE DEF p1
  <1>7. /\ p2 \in Bytes /\ Len(p2) = Len(p1) + 8 + Len(m.addr)
        /\ \A b \in Bytes : Holds(b, 0, p2) =>
              /\ Holds(b, 0, p1)
              /\ StringAt(b, Len(p1)) = m.addr
              /\ AfterString(b, Len(p1)) = Len(p2)
    BY <1>3, <1>6, StringField
  <1> HIDE DEF p2
  <1>8. /\ p3 \in Bytes /\ Len(p3) = Len(p2) + 8 + Len(m.ctrl)
        /\ \A b \in Bytes : Holds(b, 0, p3) =>
              /\ Holds(b, 0, p2)
              /\ StringAt(b, Len(p2)) = m.ctrl
              /\ AfterString(b, Len(p2)) = Len(p3)
    BY <1>3, <1>7, StringField
  <1> HIDE DEF p3
  <1>9. /\ p4 \in Bytes /\ Len(p4) = Len(p3) + 8 + Len(m.nUuid)
        /\ \A b \in Bytes : Holds(b, 0, p4) =>
              /\ Holds(b, 0, p3)
              /\ StringAt(b, Len(p3)) = m.nUuid
              /\ AfterString(b, Len(p3)) = Len(p4)
    BY <1>3, <1>8, StringField
  <1> HIDE DEF p4
  <1>10. /\ p5 \in Bytes /\ Len(p5) = Len(p4) + w
         /\ \A b \in Bytes : Holds(b, 0, p5) =>
               Holds(b, 0, p4) /\ NumberAt(b, Len(p4), w) = n
    <2>1. p4 \in Bytes
      BY <1>9
    <2> QED
      BY <1>2, <2>1, NumberField
  <1> HIDE DEF p5
  <1>11. /\ Len(q) \in Nat
         /\ Len(m.topic) \in Nat /\ Len(m.addr) \in Nat
         /\ Len(m.ctrl) \in Nat /\ Len(m.nUuid) \in Nat
    BY <1>3 DEF Short, Bytes
  <1>12. /\ Len(p5) = AdvertiseBaseLength(m)
         /\ Len(p5) = Len(p4) + 1 /\ Len(p5) > 0
    BY <1>1, <1>4, <1>6, <1>7, <1>8, <1>9, <1>10, <1>11 DEF AdvertiseBaseLength
  <1>13. p5 # <<>>
    BY <1>12
  <1>14. ASSUME NEW b \in Bytes, Holds(b, 0, p5)
         PROVE  LET k == GetHeaderLength(m.header)
                IN  /\ Holds(b, 0, q)
                    /\ UnpackAdvertiseBase(b, k) = Base(m)
                    /\ AfterAdvertiseBase(b, k) = Len(p5)
    <2>1. Holds(b, 0, p4) /\ NumberAt(b, Len(p4), 1) = m.scope
      BY <1>1, <1>2, <1>10, <1>14
    <2>2. /\ Holds(b, 0, p3) /\ StringAt(b, Len(p3)) = m.nUuid
          /\ AfterString(b, Len(p3)) = Len(p4)
      BY <1>9, <2>1
    <2>3. /\ Holds(b, 0, p2) /\ StringAt(b, Len(p2)) = m.ctrl
          /\ AfterString(b, Len(p2)) = Len(p3)
      BY <1>8, <2>2
    <2>4. /\ Holds(b, 0, p1) /\ StringAt(b, Len(p1)) = m.addr
          /\ AfterString(b, Len(p1)) = Len(p2)
      BY <1>7, <2>3
    <2>5. /\ Holds(b, 0, q) /\ StringAt(b, Len(q)) = m.topic
          /\ AfterString(b, Len(q)) = Len(p1)
      BY <1>6, <2>4
    <2>6. UnpackAdvertiseBase(b, Len(q)) = Base(m)
      BY <2>1, <2>2, <2>3, <2>4, <2>5 DEF UnpackAdvertiseBase, Base
    <2>7. AfterAdvertiseBase(b, Len(q)) = Len(p5)
      BY <1>12, <2>2, <2>3, <2>4, <2>5 DEF AfterAdvertiseBase
    <2> QED
      BY <1>4, <2>5, <2>6, <2>7
  <1> QED
    BY <1>4, <1>5, <1>10, <1>12, <1>13, <1>14

\* AdvertiseMsg: whatever the lengths of the strings, Pack fills exactly what
\* GetMsgLength says and Unpack returns what was packed.
LEMMA AdvertiseMsgRead ==
    ASSUME NEW m, WrittenBase(m), Short(m.msgTypeName), m.msgTypeName # <<>>
    PROVE  LET p == PackAdvertiseMsg(m)
           IN  /\ p \in Bytes
               /\ Len(p) = AdvertiseMsgLength(m)
               /\ \A b \in Bytes : Holds(b, 0, p) =>
                     /\ Holds(b, 0, PackHeader(m.header))
                     /\ UnpackAdvertiseMsg(b, GetHeaderLength(m.header))
                           = With(Base(m), [msgTypeName |-> m.msgTypeName])
  <1> DEFINE k == GetHeaderLength(m.header)
  <1>1. PICK q \in Bytes :
           /\ q = PackAdvertiseBase(m)
           /\ q # <<>>
           /\ Len(q) = AdvertiseBaseLength(m)
           /\ \A b \in Bytes : Holds(b, 0, q) =>
                 /\ Holds(b, 0, PackHeader(m.header))
                 /\ UnpackAdvertiseBase(b, k) = Base(m)
                 /\ AfterAdvertiseBase(b, k) = Len(q)
    BY BaseRead
  <1> HIDE DEF k
  <1> DEFINE p == Then(q, String(m.msgTypeName))
  <1>2. PackAdvertiseMsg(m) = p
    <2>1. Complete(m)
      BY DEF WrittenBase
    <2> QED
      BY <1>1, <2>1 DEF PackAdvertiseMsg, Then
  <1>3. /\ p \in Bytes /\ Len(p) = Len(q) + 8 + Len(m.msgTypeName)
        /\ \A b \in Bytes : Holds(b, 0, p) =>
              /\ Holds(b, 0, q)
              /\ StringAt(b, Len(q)) = m.msgTypeName
    BY StringField
  <1> HIDE DEF p
  <1>4. Len(p) = AdvertiseMsgLength(m)
    BY <1>1, <1>3 DEF AdvertiseMsgLength
  <1>5. ASSUME NEW b \in Bytes, Holds(b, 0, p)
        PROVE  /\ Holds(b, 0, PackHeader(m.header))
               /\ UnpackAdvertiseMsg(b, k)
                     = With(Base(m), [msgTypeName |-> m.msgTypeName])
    <2>1. Holds(b, 0, q) /\ StringAt(b, Len(q)) = m.msgTypeName
      BY <1>3, <1>5
    <2>2. /\ Holds(b, 0, PackHeader(m.header))
          /\ UnpackAdvertiseBase(b, k) = Base(m)
          /\ AfterAdvertiseBase(b, k) = Len(q)
      BY <1>1, <2>1
    <2> QED
      BY <2>1, <2>2 DEF UnpackAdvertiseMsg
  <1> QED
    BY <1>2, <1>3, <1>4, <1>5 DEF k

\* The same for AdvertiseSrv.
LEMMA AdvertiseSrvRead ==
    ASSUME NEW m, WrittenBase(m), Short(m.reqTypeName), m.reqTypeName # <<>>,
           Short(m.repTypeName), m.repTypeName # <<>>
    PROVE  LET p == PackAdvertiseSrv(m)
           IN  /\ p \in Bytes
               /\ Len(p) = AdvertiseSrvLength(m)
               /\ \A b \in Bytes : Holds(b, 0, p) =>
                     /\ Holds(b, 0, PackHeader(m.header))
                     /\ UnpackAdvertiseSrv(b, GetHeaderLength(m.header))
                           = With(Base(m), [reqTypeName |-> m.reqTypeName,
                                            repTypeName |-> m.repTypeName])
  <1> DEFINE k == GetHeaderLength(m.header)
  <1>1. PICK q \in Bytes :
           /\ q = PackAdvertiseBase(m)
           /\ q # <<>>
           /\ Len(q) = AdvertiseBaseLength(m)
           /\ \A b \in Bytes : Holds(b, 0, q) =>
                 /\ Holds(b, 0, PackHeader(m.header))
                 /\ UnpackAdvertiseBase(b, k) = Base(m)
                 /\ AfterAdvertiseBase(b, k) = Len(q)
    BY BaseRead
  <1> HIDE DEF k
  <1> DEFINE p1 == Then(q, String(m.reqTypeName))
             p2 == Then(p1, String(m.repTypeName))
  <1>2. PackAdvertiseSrv(m) = p2
    <2>1. Complete(m)
      BY DEF WrittenBase
    <2> QED
      BY <1>1, <2>1 DEF PackAdvertiseSrv, Then
  <1>3. /\ p1 \in Bytes /\ Len(p1) = Len(q) + 8 + Len(m.reqTypeName)
        /\ \A b \in Bytes : Holds(b, 0, p1) =>
              /\ Holds(b, 0, q)
              /\ StringAt(b, Len(q)) = m.reqTypeName
              /\ AfterString(b, Len(q)) = Len(p1)
    BY StringField
  <1> HIDE DEF p1
  <1>4. /\ p2 \in Bytes /\ Len(p2) = Len(p1) + 8 + Len(m.repTypeName)
        /\ \A b \in Bytes : Holds(b, 0, p2) =>
              /\ Holds(b, 0, p1)
              /\ StringAt(b, Len(p1)) = m.repTypeName
    BY <1>3, StringField
  <1> HIDE DEF p2
  <1>5. Len(p2) = AdvertiseSrvLength(m)
    <2>1. Len(q) \in Nat /\ Len(m.reqTypeName) \in Nat /\ Len(m.repTypeName) \in Nat
      BY DEF Short, Bytes
    <2> QED
      BY <1>1, <1>3, <1>4, <2>1 DEF AdvertiseSrvLength
  <1>6. ASSUME NEW b \in Bytes, Holds(b, 0, p2)
        PROVE  /\ Holds(b, 0, PackHeader(m.header))
               /\ UnpackAdvertiseSrv(b, k)
                     = With(Base(m), [reqTypeName |-> m.reqTypeName,
                                      repTypeName |-> m.repTypeName])
    <2>1. Holds(b, 0, p1) /\ StringAt(b, Len(p1)) = m.repTypeName
      BY <1>4, <1>6
    <2>2. /\ Holds(b, 0, q) /\ StringAt(b, Len(q)) = m.reqTypeName
          /\ AfterString(b, Len(q)) = Len(p1)
      BY <1>3, <2>1
    <2>3. /\ Holds(b, 0, PackHeader(m.header))
          /\ UnpackAdvertiseBase(b, k) = Base(m)
          /\ AfterAdvertiseBase(b, k) = Len(q)
      BY <1>1, <2>2
    <2> QED
      BY <2>1, <2>2, <2>3 DEF UnpackAdvertiseSrv
  <1> QED
    BY <1>2, <1>4, <1>5, <1>6 DEF k

\* The same for SubscriptionMsg.
LEMMA SubscriptionRead ==
    ASSUME NEW m, Written(m.header), Short(m.topic), m.topic # <<>>
    PROVE  LET p == PackSubscription(m)
           IN  /\ p \in Bytes
               /\ Len(p) = SubscriptionLength(m)
               /\ \A b \in Bytes : Holds(b, 0, p) =>
                     /\ Holds(b, 0, PackHeader(m.header))
                     /\ UnpackSubscription(b, GetHeaderLength(m.header))
                           = [topic |-> m.topic]
  <1>1. PICK q \in Bytes : q = PackHeader(m.header)
    BY HeaderRead
  <1>2. q # <<>> /\ Len(q) = GetHeaderLength(m.header)
    BY <1>1, HeaderRead
  <1> DEFINE p == Then(q, String(m.topic))
  <1>3. PackSubscription(m) = p
    BY <1>1, <1>2 DEF PackSubscription, Then
  <1>4. /\ p \in Bytes /\ Len(p) = Len(q) + 8 + Len(m.topic)
        /\ \A b \in Bytes : Holds(b, 0, p) =>
              /\ Holds(b, 0, q)
              /\ StringAt(b, Len(q)) = m.topic
    BY StringField
  <1> HIDE DEF p
  <1>5. Len(p) = SubscriptionLength(m)
    BY <1>2, <1>4 DEF SubscriptionLength
  <1> QED
    BY <1>1, <1>2, <1>3, <1>4, <1>5 DEF UnpackSubscription

---------------------------------------------------------------------------
\* Strings put one behind the other.

Sl == <<Slash>>

\* "/" as a string,
LEMMA SlashIs == Sl \in Bytes /\ Sl # <<>> /\ Len(Sl) = 1
  BY DEF Sl, Bytes, Byte, Slash

\* and the empty one.
LEMMA NothingIs == <<>> \in Bytes
  BY DEF Bytes

\* Concatenation: type and length,
LEMMA ThenType ==
    ASSUME NEW x \in Bytes, NEW y \in Bytes
    PROVE  Then(x, y) \in Bytes /\ Len(Then(x, y)) = Len(x) + Len(y)
  BY JoinedLen DEF Then

\* associativity,
LEMMA ThenAssoc ==
    ASSUME NEW x \in Bytes, NEW y \in Bytes, NEW z \in Bytes
    PROVE  Then(Then(x, y), z) = Then(x, Then(y, z))
  BY ConcatAssociative DEF Then, Bytes

\* the empty string,
LEMMA ThenNothing ==
    ASSUME NEW x \in Bytes
    PROVE  Then(x, <<>>) = x /\ Then(<<>>, x) = x
  BY ConcatEmptySeq DEF Then, Bytes

\* cancellation,
LEMMA ThenSame ==
    ASSUME NEW x \in Bytes, NEW y \in Bytes, NEW z \in Bytes
    PROVE  /\ Then(x, y) = Then(x, z) => y = z
           /\ Then(x, z) = Then(y, z) => x = y
  BY ConcatSimplifications DEF Then, Bytes

\* and when nothing comes out.
LEMMA ThenEmpty ==
    ASSUME NEW x \in Bytes, NEW y \in Bytes
    PROVE  Then(x, y) = <<>> <=> x = <<>> /\ y = <<>>
  BY ConcatEqualIffEmpty DEF Then, Bytes

LEMMA SlashInFront ==
    ASSUME NEW s \in Bytes, StartsWithSlash(s)
    PROVE  Tail(s) \in Bytes /\ s = Then(Sl, Tail(s))
  BY DEF StartsWithSlash, Then, Sl, Bytes

\* The slash that ends a string is its last byte.
LEMMA SlashBehind ==
    ASSUME NEW s \in Bytes, EndsWithSlash(s)
    PROVE  Front(s) \in Bytes /\ s = Then(Front(s), Sl)
  <1>1. s # <<>> /\ s[Len(s)] = Slash
    BY DEF EndsWithSlash, Last
  <1>2. Len(s) \in Nat \ {0}
    BY <1>1, EmptySeq DEF Bytes
  <1>3. Front(s) = SubSeq(s, 1, Len(s) - 1)
    BY DEF Front
  <1>4. SubSeq(s, 1, Len(s)) = SubSeq(s, 1, Len(s) - 1) \o << s[Len(s)] >>
    BY <1>2, SubSeqRecursiveSecond DEF Bytes
  <1>5. SubSeq(s, 1, Len(s)) = s
    BY SubSeqFull DEF Bytes
  <1>6. Front(s) \in Bytes
    BY <1>2, <1>3 DEF Bytes
  <1> QED
    BY <1>1, <1>3, <1>4, <1>5, <1>6 DEF Then, Sl

\* The first of two strings decides how they start,
LEMMA ThenStarts ==
    ASSUME NEW x \in Bytes, NEW y \in Bytes, x # <<>>
    PROVE  StartsWithSlash(Then(x, y)) <=> StartsWithSlash(x)
  <1>1. Len(x) \in Nat \ {0} /\ Len(y) \in Nat
    BY EmptySeq DEF Bytes
  <1>2. Then(x, y) # <<>>
    BY ThenEmpty
  <1>3. Head(Then(x, y)) = Head(x)
    <2>1. Then(x, y)[1] = x[1]
      BY <1>1, JoinedAt DEF Then
    <2> QED
      BY <1>2, <2>1, ThenType DEF Bytes
  <1> QED
    BY <1>2, <1>3 DEF StartsWithSlash

\* the second how they end.
LEMMA ThenEnds ==
    ASSUME NEW x \in Bytes, NEW y \in Bytes, y # <<>>
    PROVE  EndsWithSlash(Then(x, y)) <=> EndsWithSlash(y)
  <1>1. Len(y) \in Nat \ {0} /\ Len(x) \in Nat
    BY EmptySeq DEF Bytes
  <1>2. Then(x, y) # <<>>
    BY ThenEmpty
  <1>3. Then(x, y)[Len(x) + Len(y)] = y[Len(y)]
    BY <1>1, JoinedAt DEF Then
  <1> QED
    BY <1>2, <1>3, ThenType DEF EndsWithSlash, Last

\* "/" starts and ends with a slash, the empty string does not.
LEMMA SlashEnds ==
    /\ StartsWithSlash(Sl) /\ EndsWithSlash(Sl)
    /\ ~StartsWithSlash(<<>>) /\ ~EndsWithSlash(<<>>)
  BY DEF StartsWithSlash, EndsWithSlash, Sl, Last

\* Taking the slash off again, at the end
LEMMA FrontOf ==
    ASSUME NEW x \in Bytes
    PROVE  Front(Then(x, Sl)) = x
  <1>1. Then(x, Sl) \in Bytes /\ EndsWithSlash(Then(x, Sl))
    BY SlashIs, ThenType, ThenEnds, SlashEnds
  <1>2. Front(Then(x, Sl)) \in Bytes /\ Then(Front(Then(x, Sl)), Sl) = Then(x, Sl)
    BY <1>1, SlashBehind
  <1> QED
    BY <1>2, SlashIs, ThenSame

\* and at the start.
LEMMA TailOf ==
    ASSUME NEW x \in Bytes
    PROVE  Tail(Then(Sl, x)) = x
  <1>1. Then(Sl, x) \in Bytes /\ StartsWithSlash(Then(Sl, x))
    BY SlashIs, ThenType, ThenStarts, SlashEnds
  <1>2. Tail(Then(Sl, x)) \in Bytes /\ Then(Sl, Tail(Then(Sl, x))) = Then(Sl, x)
    BY <1>1, SlashInFront
  <1> QED
    BY <1>2, SlashIs, ThenSame

---------------------------------------------------------------------------
\* Valid strings.

\* What IsValidNamespace refuses in a string.
Reserved == {Space, At, Tilde}

Clean(s) ==
    /\ \A i \in 1..Len(s) : s[i] \notin Reserved
    /\ \A i \in 1..Len(s) - 1 : ~(s[i] = Slash /\ s[i + 1] = Slash)

\* IsValidNamespace refuses reserved characters, "//" and "/" itself.
LEMMA ValidIsClean ==
    ASSUME NEW s \in Bytes
    PROVE  IsValidNamespace(s) <=> Clean(s) /\ s # Sl
  <1> DEFINE C == Contains(s, Tilde) \/ Contains(s, Space) \/ Contains(s, At)
             D == \A i \in 1 .. Len(s) - 1 : ~(s[i] = Slash /\ s[i + 1] = Slash)
  <1>1. Clean(s) <=> ~C /\ D
    BY DEF Contains, Clean, Reserved
  <1>2. IsValidNamespace(s) <=> s # Sl /\ ~C /\ D
    BY DEF IsValidNamespace, Contains, Sl
  <1> HIDE DEF C, D
  <1> QED
    BY <1>1, <1>2

\* The parts of a valid string are valid and do not meet in two slashes.
LEMMA CleanParts ==
    ASSUME NEW x \in Bytes, NEW y \in Bytes, Clean(Then(x, y))
    PROVE  /\ Clean(x) /\ Clean(y)
           /\ ~(EndsWithSlash(x) /\ StartsWithSlash(y))
  <1> DEFINE z == Then(x, y)
  <1>1. /\ Len(x) \in Nat /\ Len(y) \in Nat /\ Len(z) = Len(x) + Len(y)
        /\ x # <<>> => Len(x) > 0
        /\ y # <<>> => Len(y) > 0
    <2>1. Len(z) = Len(x) + Len(y)
      BY ThenType
    <2>2. \A t \in Bytes : Len(t) \in Nat /\ (t # <<>> => Len(t) > 0)
      BY EmptySeq DEF Bytes
    <2> QED
      BY <2>1, <2>2
  <1>2. /\ \A i \in 1..Len(x) : z[i] = x[i]
        /\ \A i \in 1..Len(y) : z[Len(x) + i] = y[i]
    BY JoinedAt DEF Then
  <1>3. /\ \A i \in 1..Len(z) : z[i] \notin Reserved
        /\ \A i \in 1..Len(z) - 1 : ~(z[i] = Slash /\ z[i + 1] = Slash)
    BY DEF Clean
  <1> HIDE DEF z
  <1>4. Clean(x)
    <2>1. ASSUME NEW i \in 1..Len(x) PROVE x[i] \notin Reserved
      BY <1>1, <1>2, <1>3
    <2>2. ASSUME NEW i \in 1..Len(x) - 1 PROVE ~(x[i] = Slash /\ x[i + 1] = Slash)
      <3>1. i \in 1..Len(x) /\ i + 1 \in 1..Len(x) /\ i \in 1..Len(z) - 1
        BY <1>1
      <3> QED
        BY <1>2, <1>3, <3>1
    <2> QED
      BY <2>1, <2>2 DEF Clean
  <1>5. Clean(y)
    <2>1. ASSUME NEW i \in 1..Len(y) PROVE y[i] \notin Reserved
      <3>1. Len(x) + i \in 1..Len(z)
        BY <1>1
      <3> QED
        BY <1>2, <1>3, <3>1
    <2>2. ASSUME NEW i \in 1..Len(y) - 1 PROVE ~(y[i] = Slash /\ y[i + 1] = Slash)
      <3>1. /\ i \in 1..Len(y) /\ i + 1 \in 1..Len(y)
            /\ Len(x) + i \in 1..Len(z) - 1
            /\ Len(x) + (i + 1) = (Len(x) + i) + 1
        BY <1>1
      <3>2. z[Len(x) + i] = y[i] /\ z[Len(x) + (i + 1)] = y[i + 1]
        BY <1>2, <3>1
      <3> QED
        BY <1>3, <3>1, <3>2
    <2> QED
      BY <2>1, <2>2 DEF Clean
  <1>6. ASSUME EndsWithSlash(x), StartsWithSlash(y) PROVE FALSE
    <2>1. x # <<>> /\ x[Len(x)] = Slash /\ y # <<>> /\ y[1] = Slash
      BY <1>6 DEF EndsWithSlash, StartsWithSlash, Last, Bytes
    <2>2. Len(x) \in 1..Len(x) /\ 1 \in 1..Len(y) /\ Len(x) \in 1..Len(z) - 1
      BY <1>1, <2>1
    <2>3. z[Len(x)] = x[Len(x)] /\ z[Len(x) + 1] = y[1]
      BY <1>2, <2>2
    <2> QED
      BY <1>3, <2>1, <2>2, <2>3
  <1> QED
    BY <1>4, <1>5, <1>6

\* Valid strings that do not meet in two slashes make a valid string.
LEMMA CleanJoin ==
    ASSUME NEW x \in Bytes, NEW y \in Bytes, Clean(x), Clean(y),
           ~(EndsWithSlash(x) /\ StartsWithSlash(y))
    PROVE  Clean(Then(x, y))
  <1> DEFINE z == Then(x, y)
  <1>1. /\ Len(x) \in Nat /\ Len(y) \in Nat /\ Len(z) = Len(x) + Len(y)
        /\ x # <<>> <=> Len(x) > 0
        /\ y # <<>> <=> Len(y) > 0
    <2>1. Len(z) = Len(x) + Len(y)
      BY ThenType
    <2>2. \A t \in Bytes : Len(t) \in Nat /\ (t # <<>> <=> Len(t) > 0)
      BY EmptySeq DEF Bytes
    <2> QED
      BY <2>1, <2>2
  <1>2. /\ \A i \in 1..Len(x) : z[i] = x[i]
        /\ \A i \in 1..Len(y) : z[Len(x) + i] = y[i]
    BY JoinedAt DEF Then
  <1> HIDE DEF z
  <1>3. ASSUME NEW i \in 1..Len(z)
        PROVE  \/ i \in 1..Len(x) /\ z[i] = x[i]
               \/ i - Len(x) \in 1..Len(y) /\ z[i] = y[i - Len(x)]
    <2>1. CASE i <= Len(x)
      BY <1>1, <1>2, <2>1
    <2>2. CASE i > Len(x)
      <3>1. i - Len(x) \in 1..Len(y) /\ Len(x) + (i - Len(x)) = i
        BY <1>1, <2>2
      <3>2. z[Len(x) + (i - Len(x))] = y[i - Len(x)]
        BY <1>2, <3>1
      <3> QED
        BY <3>1, <3>2
    <2> QED
      BY <1>1, <2>1, <2>2
  <1>4. ASSUME NEW i \in 1..Len(z) PROVE z[i] \notin Reserved
    BY <1>3 DEF Clean
  <1>5. ASSUME NEW i \in 1..Len(z) - 1 PROVE ~(z[i] = Slash /\ z[i + 1] = Slash)
    <2>1. CASE i < Len(x)
      <3>1. i \in 1..Len(x) /\ i + 1 \in 1..Len(x) /\ i \in 1..Len(x) - 1
        BY <1>1, <2>1
      <3> QED
        BY <1>2, <3>1 DEF Clean
    <2>2. CASE i > Len(x)
      <3>1. /\ i - Len(x) \in 1..Len(y) - 1
            /\ i - Len(x) \in 1..Len(y) /\ (i - Len(x)) + 1 \in 1..Len(y)
            /\ Len(x) + (i - Len(x)) = i
            /\ Len(x) + ((i - Len(x)) + 1) = i + 1
        BY <1>1, <2>2
      <3>2. z[Len(x) + (i - Len(x))] = y[i - Len(x)]
        BY <1>2, <3>1
      <3>3. z[Len(x) + ((i - Len(x)) + 1)] = y[(i - Len(x)) + 1]
        BY <1>2, <3>1
      <3> QED
        BY <3>1, <3>2, <3>3 DEF Clean
    <2>3. CASE i = Len(x)
      <3>1. Len(x) > 0 /\ Len(y) > 0 /\ Len(x) \in 1..Len(x) /\ 1 \in 1..Len(y)
        BY <1>1, <2>3
      <3>2. z[i] = x[Len(x)] /\ z[i + 1] = y[1]
        BY <1>2, <2>3, <3>1
      <3>3. x # <<>> /\ y # <<>>
        BY <1>1, <3>1
      <3> QED
        BY <3>2, <3>3 DEF EndsWithSlash, StartsWithSlash, Last, Bytes
    <2> QED
      BY <1>1, <2>1, <2>2, <2>3
  <1>6. Clean(z)
    BY <1>4, <1>5 DEF Clean
  <1> QED
    BY <1>6 DEF z

---------------------------------------------------------------------------
\* What a name is made of.

\* A valid string is what is left without its slashes, and the slashes.
LEMMA TrimmedForm ==
    ASSUME NEW s \in Bytes, IsValidNamespace(s), s # <<>>
    PROVE  LET c == Trimmed(s)
           IN  /\ c \in Bytes /\ c # <<>> /\ Clean(c)
               /\ ~StartsWithSlash(c) /\ ~EndsWithSlash(c)
               /\ s = Then(IF StartsWithSlash(s) THEN Sl ELSE <<>>,
                           Then(c, IF EndsWithSlash(s) THEN Sl ELSE <<>>))
  <1>1. Clean(s) /\ s # Sl
    BY ValidIsClean
  <1>2. PICK t : t = IF StartsWithSlash(s) THEN Tail(s) ELSE s
    OBVIOUS
  <1>3. PICK l \in Bytes : /\ l = IF StartsWithSlash(s) THEN Sl ELSE <<>>
                           /\ t \in Bytes
                           /\ s = Then(l, t)
    BY <1>2, SlashInFront, SlashIs, NothingIs, ThenNothing
  <1>4. t # <<>>
    BY <1>1, <1>3, SlashIs, ThenNothing
  <1>5. Clean(t) /\ ~StartsWithSlash(t)
    <2>1. CASE StartsWithSlash(s)
      <3>1. l = Sl
        BY <1>3, <2>1
      <3> QED
        BY <1>1, <1>3, <3>1, CleanParts, SlashEnds
    <2>2. CASE ~StartsWithSlash(s)
      BY <1>1, <1>2, <2>2
    <2> QED
      BY <2>1, <2>2
  <1>6. EndsWithSlash(t) <=> EndsWithSlash(s)
    BY <1>3, <1>4, ThenEnds
  <1>7. Trimmed(s) = IF EndsWithSlash(t) THEN Front(t) ELSE t
    BY <1>2 DEF Trimmed
  <1>8. CASE EndsWithSlash(t)
    <2>1. PICK c \in Bytes : c = Front(t) /\ t = Then(c, Sl)
      BY <1>3, <1>8, SlashBehind
    <2>2. c # <<>>
      <3>1. StartsWithSlash(Sl)
        BY SlashEnds
      <3> QED
        BY <1>5, <2>1, <3>1, SlashIs, ThenNothing
    <2>3. Clean(c) /\ ~EndsWithSlash(c)
      BY <1>5, <2>1, CleanParts, SlashIs, SlashEnds
    <2>4. ~StartsWithSlash(c)
      BY <1>5, <2>1, <2>2, ThenStarts, SlashIs
    <2> QED
      BY <1>3, <1>6, <1>7, <1>8, <2>1, <2>2, <2>3, <2>4
  <1>9. CASE ~EndsWithSlash(t)
    <2>1. t = Then(t, <<>>)
      BY <1>3, ThenNothing
    <2> QED
      BY <1>3, <1>4, <1>5, <1>6, <1>7, <1>9, <2>1
  <1> QED
    BY <1>8, <1>9

\* Nothing is left of nothing,
LEMMA TrimmedNothing == Trimmed(<<>>) = <<>>
  BY SlashEnds DEF Trimmed

\* and only of nothing.
LEMMA TrimmedType ==
    ASSUME NEW s \in Bytes, IsValidNamespace(s)
    PROVE  /\ Trimmed(s) \in Bytes /\ Clean(Trimmed(s))
           /\ ~StartsWithSlash(Trimmed(s)) /\ ~EndsWithSlash(Trimmed(s))
           /\ Trimmed(s) = <<>> <=> s = <<>>
  <1>1. CASE s = <<>>
    <2>1. Clean(<<>>)
      BY <1>1, ValidIsClean
    <2> QED
      BY <1>1, <2>1, TrimmedNothing, SlashEnds
  <1>2. CASE s # <<>>
    BY <1>2, TrimmedForm
  <1> QED
    BY <1>1, <1>2

\* A partition behind its "/".
Rooted(s) == IF s = <<>> THEN <<>> ELSE Then(Sl, s)

\* "/" in front of the partition, none behind it.
LEMMA PartitionPart ==
    ASSUME NEW s \in Bytes, IsValidNamespace(s)
    PROVE  LET p == IF s # <<>> /\ ~StartsWithSlash(s) THEN Then(Sl, s) ELSE s
           IN  (IF EndsWithSlash(p) THEN Front(p) ELSE p) = Rooted(Trimmed(s))
  <1>1. CASE s = <<>>
    BY <1>1, TrimmedNothing, SlashEnds DEF Rooted
  <1>2. CASE s # <<>>
    <2> DEFINE c == Trimmed(s)
               r == IF EndsWithSlash(s) THEN Sl ELSE <<>>
    <2>1. /\ c \in Bytes /\ c # <<>> /\ ~EndsWithSlash(c) /\ ~StartsWithSlash(c)
          /\ s = Then(IF StartsWithSlash(s) THEN Sl ELSE <<>>, Then(c, r))
      BY <1>2, TrimmedForm
    <2> HIDE DEF c
    <2>2. r \in Bytes /\ Then(c, r) \in Bytes
      BY <2>1, SlashIs, NothingIs, ThenType
    <2>3. (IF s # <<>> /\ ~StartsWithSlash(s) THEN Then(Sl, s) ELSE s)
             = Then(Sl, Then(c, r))
      <3> HIDE DEF r
      <3> QED
        BY <1>2, <2>1, <2>2, ThenNothing
    <2>4. /\ Then(Sl, c) \in Bytes
          /\ Then(Sl, Then(c, Sl)) = Then(Then(Sl, c), Sl)
          /\ Then(c, <<>>) = c
      BY <2>1, SlashIs, ThenType, ThenAssoc, ThenNothing
    <2>5. Rooted(c) = Then(Sl, c)
      BY <2>1 DEF Rooted
    <2>6. CASE EndsWithSlash(s)
      <3>1. EndsWithSlash(Then(Then(Sl, c), Sl)) /\ Front(Then(Then(Sl, c), Sl)) = Then(Sl, c)
        BY <2>4, SlashIs, SlashEnds, ThenEnds, FrontOf
      <3> QED
        BY <2>3, <2>4, <2>5, <2>6, <3>1 DEF c
    <2>7. CASE ~EndsWithSlash(s)
      <3>1. ~EndsWithSlash(Then(Sl, c))
        BY <2>1, SlashIs, ThenEnds
      <3> QED
        BY <2>3, <2>4, <2>5, <2>7, <3>1 DEF c
    <2> QED
      BY <2>6, <2>7
  <1> QED
    BY <1>1, <1>2

\* Slashes at both ends of the namespace.
LEMMA NamespacePart ==
    ASSUME NEW s \in Bytes, IsValidNamespace(s)
    PROVE  LET n == IF EndsWithSlash(s) THEN s ELSE Then(s, Sl)
           IN  (IF StartsWithSlash(n) THEN n ELSE Then(Sl, n))
                  = IF Trimmed(s) = <<>> THEN Sl
                    ELSE Then(Sl, Then(Trimmed(s), Sl))
  <1>1. CASE s = <<>>
    BY <1>1, TrimmedNothing, SlashEnds, SlashIs, ThenNothing
  <1>2. CASE s # <<>>
    <2> DEFINE c == Trimmed(s)
               l == IF StartsWithSlash(s) THEN Sl ELSE <<>>
    <2>1. /\ c \in Bytes /\ c # <<>> /\ ~EndsWithSlash(c) /\ ~StartsWithSlash(c)
          /\ s = Then(l, Then(c, IF EndsWithSlash(s) THEN Sl ELSE <<>>))
      BY <1>2, TrimmedForm
    <2> HIDE DEF c
    <2>a. l \in Bytes
      BY SlashIs, NothingIs
    <2>b. /\ Then(c, Sl) \in Bytes /\ Then(c, <<>>) = c /\ Then(c, Sl) # <<>>
      BY <2>1, SlashIs, ThenType, ThenNothing, ThenEmpty
    <2>c. /\ Then(l, c) \in Bytes
          /\ Then(Then(l, c), Sl) = Then(l, Then(c, Sl))
      <3> HIDE DEF l
      <3> QED
        BY <2>1, <2>a, SlashIs, ThenType, ThenAssoc
    <2>2. /\ l \in Bytes /\ Then(c, Sl) \in Bytes /\ Then(l, c) \in Bytes
          /\ Then(c, <<>>) = c
          /\ Then(c, Sl) # <<>>
          /\ Then(Then(l, c), Sl) = Then(l, Then(c, Sl))
      BY <2>a, <2>b, <2>c
    <2>3. (IF EndsWithSlash(s) THEN s ELSE Then(s, Sl)) = Then(l, Then(c, Sl))
      <3> HIDE DEF l
      <3>1. CASE EndsWithSlash(s)
        BY <2>1, <3>1
      <3>2. CASE ~EndsWithSlash(s)
        <4>1. s = Then(l, c)
          BY <2>1, <2>2, <3>2
        <4> QED
          BY <2>2, <3>2, <4>1
      <3> QED
        BY <3>1, <3>2
    <2>4. CASE StartsWithSlash(s)
      <3>1. StartsWithSlash(Then(Sl, Then(c, Sl)))
        BY <2>2, SlashIs, SlashEnds, ThenStarts
      <3> QED
        BY <2>1, <2>3, <2>4, <3>1 DEF c
    <2>5. CASE ~StartsWithSlash(s)
      <3>1. ~StartsWithSlash(Then(c, Sl))
        BY <2>1, SlashIs, ThenStarts
      <3>2. Then(<<>>, Then(c, Sl)) = Then(c, Sl)
        BY <2>2, ThenNothing
      <3> QED
        BY <2>1, <2>3, <2>5, <3>1, <3>2 DEF c
    <2> QED
      BY <2>4, <2>5
  <1> QED
    BY <1>1, <1>2

\* None behind the topic.
LEMMA TopicPart ==
    ASSUME NEW s \in Bytes, IsValidTopic(s)
    PROVE  LET t == IF EndsWithSlash(s) THEN Front(s) ELSE s
           IN  /\ StartsWithSlash(t) <=> StartsWithSlash(s)
               /\ t = IF StartsWithSlash(s) THEN Then(Sl, Trimmed(s)) ELSE Trimmed(s)
  <1> DEFINE c == Trimmed(s)
             l == IF StartsWithSlash(s) THEN Sl ELSE <<>>
             t == IF EndsWithSlash(s) THEN Front(s) ELSE s
  <1>1. /\ c \in Bytes /\ c # <<>> /\ ~EndsWithSlash(c) /\ ~StartsWithSlash(c)
        /\ s = Then(l, Then(c, IF EndsWithSlash(s) THEN Sl ELSE <<>>))
    BY TrimmedForm DEF IsValidTopic
  <1> HIDE DEF c
  <1>2. /\ l \in Bytes /\ Then(l, c) \in Bytes
        /\ Then(c, <<>>) = c /\ Then(<<>>, c) = c
        /\ Then(Then(l, c), Sl) = Then(l, Then(c, Sl))
    <2>1. l \in Bytes
      BY SlashIs, NothingIs
    <2> HIDE DEF l
    <2>2. Then(l, c) \in Bytes
      BY <1>1, <2>1, ThenType
    <2>3. Then(c, <<>>) = c /\ Then(<<>>, c) = c
      BY <1>1, ThenNothing
    <2>4. Then(Then(l, c), Sl) = Then(l, Then(c, Sl))
      BY <1>1, <2>1, SlashIs, ThenAssoc
    <2> QED
      BY <2>1, <2>2, <2>3, <2>4
  <1>3. t = Then(l, c)
    <2> HIDE DEF l
    <2>1. Front(Then(Then(l, c), Sl)) = Then(l, c)
      BY <1>2, FrontOf
    <2> QED
      BY <1>1, <1>2, <2>1
  <1>4. CASE StartsWithSlash(s)
    <2>1. StartsWithSlash(Then(Sl, c))
      BY <1>1, SlashIs, SlashEnds, ThenStarts
    <2> QED
      BY <1>3, <1>4, <2>1 DEF c
  <1>5. CASE ~StartsWithSlash(s)
    BY <1>1, <1>2, <1>3, <1>5 DEF c
  <1> QED
    BY <1>4, <1>5

\* A user's partition, namespace and topic.
Proper(n) ==
    /\ n.partition \in Bytes /\ IsValidNamespace(n.partition)
    /\ n.ns \in Bytes /\ IsValidNamespace(n.ns)

\* The path that a node means by a topic.
LEMMA PathIs ==
    ASSUME NEW n, Proper(n), NEW topic \in Bytes, IsValidTopic(topic)
    PROVE  /\ Path(n, topic) \in Bytes /\ Path(n, topic) # <<>>
           /\ Clean(Path(n, topic))
           /\ ~StartsWithSlash(Path(n, topic)) /\ ~EndsWithSlash(Path(n, topic))
           /\ Path(n, topic) =
                 IF StartsWithSlash(topic) \/ Trimmed(n.ns) = <<>> THEN Trimmed(topic)
                 ELSE Then(Then(Trimmed(n.ns), Sl), Trimmed(topic))
  <1>1. PICK c \in Bytes : c = Trimmed(topic)
    BY TrimmedType DEF IsValidTopic
  <1>2. Clean(c) /\ ~StartsWithSlash(c) /\ ~EndsWithSlash(c) /\ c # <<>>
    BY <1>1, TrimmedType DEF IsValidTopic
  <1>3. PICK d \in Bytes : d = Trimmed(n.ns)
    BY TrimmedType DEF Proper
  <1>4. Clean(d) /\ ~StartsWithSlash(d) /\ ~EndsWithSlash(d)
    BY <1>3, TrimmedType DEF Proper
  <1>5. Path(n, topic) = IF StartsWithSlash(topic) \/ d = <<>> THEN c
                         ELSE Then(Then(d, Sl), c)
    BY <1>1, <1>3 DEF Path, Then, Sl
  <1>6. CASE StartsWithSlash(topic) \/ d = <<>>
    BY <1>1, <1>2, <1>3, <1>5, <1>6
  <1>7. CASE ~(StartsWithSlash(topic) \/ d = <<>>)
    <2>1. Clean(Sl)
      BY DEF Clean, Sl, Reserved, Slash, Space, At, Tilde
    <2>2. Then(d, Sl) \in Bytes /\ Clean(Then(d, Sl)) /\ Then(d, Sl) # <<>>
      BY <1>4, <2>1, SlashIs, ThenType, CleanJoin, ThenEmpty
    <2>3. /\ Then(Then(d, Sl), c) \in Bytes /\ Clean(Then(Then(d, Sl), c))
          /\ Then(Then(d, Sl), c) # <<>>
      BY <1>2, <2>2, ThenType, CleanJoin, ThenEmpty
    <2>4. ~StartsWithSlash(Then(Then(d, Sl), c))
      BY <1>4, <1>7, <2>2, SlashIs, ThenStarts
    <2>5. ~EndsWithSlash(Then(Then(d, Sl), c))
      BY <1>2, <2>2, ThenEnds
    <2> QED
      BY <1>1, <1>3, <1>5, <1>7, <2>3, <2>4, <2>5
  <1> QED
    BY <1>6, <1>7

Mark == <<At>>

\* "@" as a string.
LEMMA MarkIs == Mark \in Bytes /\ Mark # <<>> /\ Len(Mark) = 1 /\ Mark[1] = At
  BY DEF Mark, Bytes, Byte, At

\* push_back of a slash.
LEMMA AppendSlash ==
    ASSUME NEW s \in Bytes
    PROVE  Append(s, Slash) = Then(s, Sl)
  BY DEF Then, Sl, Bytes

\* A fully qualified name: "@", the partition, "@/", the path.
LEMMA NameIs ==
    ASSUME NEW n, Proper(n), NEW topic \in Bytes, IsValidTopic(topic)
    PROVE  Name(n, topic) = Then(Then(Then(Mark, Rooted(Trimmed(n.partition))), Mark),
                                 Then(Sl, Path(n, topic)))
  <1> DEFINE p == IF n.partition # <<>> /\ ~StartsWithSlash(n.partition)
                  THEN Then(Sl, n.partition) ELSE n.partition
             p2 == IF EndsWithSlash(p) THEN Front(p) ELSE p
             m == IF EndsWithSlash(n.ns) THEN n.ns ELSE Then(n.ns, Sl)
             m2 == IF StartsWithSlash(m) THEN m ELSE Then(Sl, m)
             t == IF EndsWithSlash(topic) THEN Front(topic) ELSE topic
             x == IF StartsWithSlash(t) THEN t ELSE Then(m2, t)
  <1>1. Name(n, topic) = Then(Then(Then(Mark, p2), Mark), x)
    <2> DEFINE a == IF EndsWithSlash(n.ns) THEN n.ns ELSE Append(n.ns, Slash)
               a2 == IF StartsWithSlash(a) THEN a ELSE Then(Sl, a)
    <2>1. Append(n.ns, Slash) = Then(n.ns, Sl)
      BY AppendSlash DEF Proper
    <2>2. Name(n, topic) = Then(Then(Then(Mark, p2), Mark),
                                IF StartsWithSlash(t) THEN t ELSE Then(a2, t))
      BY Zenon DEF Name, GetFullyQualifiedName, Then, Sl, Mark
    <2>3. a = m
      BY <2>1
    <2>4. a2 = m2
      <3> HIDE DEF a, m
      <3> QED
        BY <2>3
    <2> HIDE DEF a2, m2, p2, t
    <2> QED
      BY <2>2, <2>4
  <1>2. p2 = Rooted(Trimmed(n.partition))
    BY PartitionPart DEF Proper
  <1>3. m2 = IF Trimmed(n.ns) = <<>> THEN Sl ELSE Then(Sl, Then(Trimmed(n.ns), Sl))
    BY NamespacePart DEF Proper
  <1>4. /\ StartsWithSlash(t) <=> StartsWithSlash(topic)
        /\ t = IF StartsWithSlash(topic) THEN Then(Sl, Trimmed(topic))
               ELSE Trimmed(topic)
    BY TopicPart
  <1> HIDE DEF p2, m2, t
  <1>5. x = Then(Sl, Path(n, topic))
    <2>1. PICK c \in Bytes : c = Trimmed(topic)
      BY TrimmedType DEF IsValidTopic
    <2>2. PICK d \in Bytes : d = Trimmed(n.ns)
      BY TrimmedType DEF Proper
    <2>3. Path(n, topic) = IF StartsWithSlash(topic) \/ d = <<>> THEN c
                           ELSE Then(Then(d, Sl), c)
      BY <2>1, <2>2, PathIs
    <2>4. /\ Then(d, Sl) \in Bytes
          /\ Then(Then(Sl, Then(d, Sl)), c) = Then(Sl, Then(Then(d, Sl), c))
      BY SlashIs, ThenType, ThenAssoc
    <2> QED
      BY <1>3, <1>4, <2>1, <2>2, <2>3, <2>4
  <1> QED
    BY <1>1, <1>2, <1>5

---------------------------------------------------------------------------
\* What is found in a name again.

\* No "@" in a string.
Bare(s) == \A i \in 1..Len(s) : s[i] # At

\* A name: its partition r, and q behind it.
Qualified(r, q) == Then(Then(Then(Mark, r), Mark), q)

\* The bytes of two strings, one behind the other.
LEMMA ThenAt ==
    ASSUME NEW x \in Bytes, NEW y \in Bytes
    PROVE  /\ \A i \in 1..Len(x) : Then(x, y)[i] = x[i]
           /\ \A i \in 1..Len(y) : Then(x, y)[Len(x) + i] = y[i]
  BY JoinedAt DEF Then

\* The bytes of a qualified name.
LEMMA NameAt ==
    ASSUME NEW r \in Bytes, NEW q \in Bytes
    PROVE  \E z \in Bytes :
              /\ z = Qualified(r, q)
              /\ Len(z) = Len(r) + 2 + Len(q)
              /\ z[1] = At /\ z[Len(r) + 2] = At
              /\ \A i \in 1..Len(r) : z[1 + i] = r[i]
              /\ \A i \in 1..Len(q) : z[Len(r) + 2 + i] = q[i]
  <1>0. Len(r) \in Nat /\ Len(q) \in Nat
    BY DEF Bytes
  <1>1. PICK x \in Bytes : x = Then(Mark, r)
    BY MarkIs, ThenType
  <1>2. /\ Len(x) = 1 + Len(r) /\ x[1] = At
        /\ \A i \in 1..Len(r) : x[1 + i] = r[i]
    <2>1. Len(x) = 1 + Len(r)
      <3>1. Len(Then(Mark, r)) = Len(Mark) + Len(r)
        BY MarkIs, ThenType
      <3>2. Len(Mark) = 1
        BY MarkIs
      <3> QED
        BY <1>1, <3>1, <3>2
    <2>2. /\ \A i \in 1..Len(Mark) : Then(Mark, r)[i] = Mark[i]
          /\ \A i \in 1..Len(r) : Then(Mark, r)[Len(Mark) + i] = r[i]
      BY MarkIs, ThenAt
    <2>3. x[1] = At
      BY <1>1, <2>2, MarkIs
    <2> QED
      BY <1>1, <2>1, <2>2, <2>3, MarkIs
  <1>3. PICK y \in Bytes : y = Then(x, Mark)
    BY MarkIs, ThenType
  <1>4. /\ Len(y) = Len(r) + 2 /\ y[1] = At /\ y[Len(r) + 2] = At
        /\ \A i \in 1..Len(r) : y[1 + i] = r[i]
    <2>1. Len(y) = 1 + Len(r) + 1
      <3>1. Len(Then(x, Mark)) = Len(x) + Len(Mark)
        BY MarkIs, ThenType
      <3>2. Len(Mark) = 1
        BY MarkIs
      <3>3. Len(x) = 1 + Len(r)
        BY <1>2
      <3> QED
        BY <1>3, <3>1, <3>2, <3>3
    <2>2. /\ \A i \in 1..Len(x) : y[i] = x[i]
          /\ \A i \in 1..Len(Mark) : y[Len(x) + i] = Mark[i]
      BY <1>3, MarkIs, ThenAt
    <2>3. y[1] = At
      BY <1>0, <1>2, <2>2
    <2>4. y[Len(r) + 2] = At
      <3>1. y[Len(x) + 1] = At
        BY <2>2, MarkIs
      <3> QED
        BY <1>0, <1>2, <3>1
    <2>5. ASSUME NEW i \in 1..Len(r) PROVE y[1 + i] = r[i]
      <3>1. 1 + i \in 1..Len(x)
        BY <1>0, <1>2
      <3> QED
        BY <1>2, <2>2, <3>1
    <2> QED
      BY <1>0, <2>1, <2>3, <2>4, <2>5
  <1>5. PICK z \in Bytes : z = Then(y, q)
    BY ThenType
  <1>6. /\ Len(z) = Len(y) + Len(q)
        /\ \A i \in 1..Len(y) : z[i] = y[i]
        /\ \A i \in 1..Len(q) : z[Len(y) + i] = q[i]
    <2>1. Len(z) = Len(y) + Len(q)
      BY <1>5, ThenType
    <2> QED
      BY <1>5, <2>1, ThenAt
  <1>7. z[1] = At /\ z[Len(r) + 2] = At
    BY <1>0, <1>4, <1>6
  <1>8. ASSUME NEW i \in 1..Len(r) PROVE z[1 + i] = r[i]
    <2>1. 1 + i \in 1..Len(y)
      BY <1>0, <1>4
    <2> QED
      BY <1>4, <1>6, <2>1
  <1>9. Qualified(r, q) = z
    BY <1>1, <1>3, <1>5 DEF Qualified
  <1> QED
    BY <1>4, <1>6, <1>7, <1>8, <1>9

\* Its two "@", and no other.
LEMMA NameMarks ==
    ASSUME NEW r \in Bytes, NEW q \in Bytes, Bare(r), Bare(q),
           NEW i \in DOMAIN Qualified(r, q)
    PROVE  Qualified(r, q)[i] = At <=> i = 1 \/ i = Len(r) + 2
  <1>0. Len(r) \in Nat /\ Len(q) \in Nat
    BY DEF Bytes
  <1>a. PICK z \in Bytes :
           /\ z = Qualified(r, q)
           /\ Len(z) = Len(r) + 2 + Len(q)
           /\ z[1] = At /\ z[Len(r) + 2] = At
           /\ \A j \in 1..Len(r) : z[1 + j] = r[j]
           /\ \A j \in 1..Len(q) : z[Len(r) + 2 + j] = q[j]
    BY NameAt
  <1>1. z = Qualified(r, q)
    BY <1>a
  <1>2. /\ Len(z) = Len(r) + 2 + Len(q)
        /\ z[1] = At /\ z[Len(r) + 2] = At
        /\ \A j \in 1..Len(r) : z[1 + j] = r[j]
        /\ \A j \in 1..Len(q) : z[Len(r) + 2 + j] = q[j]
    BY <1>a
  <1>3. i \in 1..Len(z)
    BY <1>1 DEF Bytes
  <1>4. CASE i = 1 \/ i = Len(r) + 2
    BY <1>1, <1>2, <1>4
  <1>5. CASE i > 1 /\ i < Len(r) + 2
    <2>1. PICK j \in 1..Len(r) : i = 1 + j
      <3>1. i - 1 \in 1..Len(r) /\ i = 1 + (i - 1)
        BY <1>0, <1>3, <1>5
      <3> QED
        BY <3>1
    <2>2. z[i] # At
      BY <1>2, <2>1 DEF Bare
    <2> QED
      BY <1>0, <1>1, <1>5, <2>2
  <1>6. CASE i > Len(r) + 2
    <2>1. PICK j \in 1..Len(q) : i = Len(r) + 2 + j
      <3>0. Len(z) = Len(r) + 2 + Len(q)
        BY <1>2
      <3>1. i - (Len(r) + 2) \in 1..Len(q) /\ i = Len(r) + 2 + (i - (Len(r) + 2))
        BY <1>0, <1>3, <1>6, <3>0
      <3> QED
        BY <3>1
    <2>2. z[i] # At
      BY <1>2, <2>1 DEF Bare
    <2> QED
      BY <1>0, <1>1, <1>6, <2>2
  <1> QED
    BY <1>0, <1>3, <1>4, <1>5, <1>6

\* What find_last_of finds, what is behind it (Strip) and what is in front of it.
LEMMA NameRead ==
    ASSUME NEW r \in Bytes, NEW q \in Bytes, Bare(r), Bare(q)
    PROVE  LET z == Qualified(r, q)
           IN  /\ LastAt(z) = Len(r) + 2
               /\ Strip(z) = q
               /\ SubSeq(z, 2, LastAt(z) - 1) = r
  <1>0. Len(r) \in Nat /\ Len(q) \in Nat
    BY DEF Bytes
  <1>a. PICK z \in Bytes :
           /\ z = Qualified(r, q)
           /\ Len(z) = Len(r) + 2 + Len(q)
           /\ z[1] = At /\ z[Len(r) + 2] = At
           /\ \A i \in 1..Len(r) : z[1 + i] = r[i]
           /\ \A i \in 1..Len(q) : z[Len(r) + 2 + i] = q[i]
    BY NameAt
  <1>1. z = Qualified(r, q)
    BY <1>a
  <1>2. /\ Len(z) = Len(r) + 2 + Len(q)
        /\ z[1] = At /\ z[Len(r) + 2] = At
        /\ \A j \in 1..Len(r) : z[1 + j] = r[j]
        /\ \A j \in 1..Len(q) : z[Len(r) + 2 + j] = q[j]
    BY <1>a
  <1>3. DOMAIN z = 1..Len(z)
    BY DEF Bytes
  <1>4. LastAt(z) = Len(r) + 2
    <2> DEFINE S == {i \in DOMAIN z : z[i] = At}
    <2>1. S = {1, Len(r) + 2}
      <3>1. 1 \in DOMAIN z /\ Len(r) + 2 \in DOMAIN z
        BY <1>0, <1>2, <1>3
      <3>2. \A i \in DOMAIN z : z[i] = At <=> i = 1 \/ i = Len(r) + 2
        BY <1>1, NameMarks
      <3> QED
        BY <3>1, <3>2
    <2> HIDE DEF S
    <2>2. Max(S) = CHOOSE x \in S : \A y \in S : x >= y
      BY DEF Max
    <2>3. Len(r) + 2 \in S /\ \A y \in S : Len(r) + 2 >= y
      BY <1>0, <2>1
    <2>4. \A x \in S : (\A y \in S : x >= y) => x = Len(r) + 2
      BY <1>0, <2>1
    <2> QED
      BY <2>2, <2>3, <2>4 DEF LastAt, S
  <1>5. Strip(z) = q
    <2> DEFINE k == Len(r) + 3
    <2>1. Strip(z) = SubSeq(z, k, Len(z))
      BY <1>0, <1>4 DEF Strip
    <2>2. SubSeq(z, k, Len(z)) = [i \in 1..Len(q) |-> z[i + k - 1]]
      BY <1>0, <1>2 DEF Bytes
    <2>3. \A i \in 1..Len(q) : z[i + k - 1] = q[i]
      <3> SUFFICES ASSUME NEW i \in 1..Len(q) PROVE z[i + k - 1] = q[i]
        OBVIOUS
      <3>1. i + k - 1 = Len(r) + 2 + i
        BY <1>0
      <3> QED
        BY <1>2, <3>1
    <2>4. q = [i \in 1..Len(q) |-> q[i]]
      BY DEF Bytes
    <2> HIDE DEF k
    <2>5. [i \in 1..Len(q) |-> z[i + k - 1]] = [i \in 1..Len(q) |-> q[i]]
      BY <2>3
    <2> QED
      BY <2>1, <2>2, <2>4, <2>5
  <1>6. SubSeq(z, 2, LastAt(z) - 1) = r
    <2>1. LastAt(z) - 1 = Len(r) + 1
      BY <1>0, <1>4
    <2>2. SubSeq(z, 2, Len(r) + 1) = [i \in 1..Len(r) |-> z[i + 2 - 1]]
      BY <1>0, <1>2 DEF Bytes
    <2>3. \A i \in 1..Len(r) : z[i + 2 - 1] = r[i]
      <3> SUFFICES ASSUME NEW i \in 1..Len(r) PROVE z[i + 2 - 1] = r[i]
        OBVIOUS
      <3>1. i + 2 - 1 = 1 + i
        BY <1>0
      <3> QED
        BY <1>2, <3>1
    <2>4. r = [i \in 1..Len(r) |-> r[i]]
      BY DEF Bytes
    <2>5. [i \in 1..Len(r) |-> z[i + 2 - 1]] = [i \in 1..Len(r) |-> r[i]]
      BY <2>3
    <2> QED
      BY <2>1, <2>2, <2>4, <2>5
  <1> QED
    BY <1>1, <1>4, <1>5, <1>6

\* A name that begins with another has the same partition.
LEMMA NamePrefix ==
    ASSUME NEW r \in Bytes, NEW q \in Bytes, Bare(r), Bare(q),
           NEW s \in Bytes, NEW p \in Bytes, Bare(s), Bare(p),
           IsPrefix(Qualified(r, q), Qualified(s, p))
    PROVE  r = s
  <1>0. Len(r) \in Nat /\ Len(q) \in Nat /\ Len(s) \in Nat /\ Len(p) \in Nat
    BY DEF Bytes
  <1>3. PICK y \in Bytes :
           /\ y = Qualified(r, q)
           /\ Len(y) = Len(r) + 2 + Len(q)
           /\ y[1] = At /\ y[Len(r) + 2] = At
           /\ \A i \in 1..Len(r) : y[1 + i] = r[i]
           /\ \A i \in 1..Len(q) : y[Len(r) + 2 + i] = q[i]
    BY NameAt
  <1>4. PICK z \in Bytes :
           /\ z = Qualified(s, p)
           /\ Len(z) = Len(s) + 2 + Len(p)
           /\ z[1] = At /\ z[Len(s) + 2] = At
           /\ \A i \in 1..Len(s) : z[1 + i] = s[i]
           /\ \A i \in 1..Len(p) : z[Len(s) + 2 + i] = p[i]
    BY NameAt
  <1>1. y = Qualified(r, q)
    BY <1>3
  <1>2. z = Qualified(s, p)
    BY <1>4
  <1>5. Len(y) <= Len(z) /\ \A i \in 1..Len(y) : z[i] = y[i]
    <2>1. IsPrefix(y, z)
      BY <1>1, <1>2
    <2>2. DOMAIN y = 1..Len(y) /\ DOMAIN z = 1..Len(z)
      BY DEF Bytes
    <2> QED
      BY <2>1, <2>2 DEF IsPrefix, Bytes
  <1>6. Len(r) + 2 \in DOMAIN z /\ z[Len(r) + 2] = At
    <2>1. Len(r) + 2 \in 1..Len(y) /\ Len(r) + 2 \in 1..Len(z)
      BY <1>0, <1>3, <1>4, <1>5
    <2> QED
      BY <1>3, <1>5, <2>1 DEF Bytes
  <1>7. Len(r) = Len(s)
    <2>1. Len(r) + 2 = 1 \/ Len(r) + 2 = Len(s) + 2
      BY <1>2, <1>6, NameMarks
    <2> QED
      BY <1>0, <2>1
  <1>8. ASSUME NEW i \in 1..Len(r) PROVE r[i] = s[i]
    <2>1. 1 + i \in 1..Len(y) /\ i \in 1..Len(s)
      BY <1>0, <1>3, <1>7
    <2> QED
      BY <1>3, <1>4, <1>5, <2>1
  <1>9. r = [i \in 1..Len(r) |-> r[i]] /\ s = [i \in 1..Len(s) |-> s[i]]
    BY DEF Bytes
  <1>10. [i \in 1..Len(r) |-> r[i]] = [i \in 1..Len(s) |-> s[i]]
    BY <1>7, <1>8
  <1> QED
    BY <1>9, <1>10

\* A valid string has no "@".
LEMMA CleanBare ==
    ASSUME NEW s, Clean(s)
    PROVE  Bare(s)
  BY DEF Clean, Bare, Reserved

\* The partition with its "/": no "@", one byte longer, and the partition is
\* what remains without it (PartitionOf).
LEMMA RootedPart ==
    ASSUME NEW s \in Bytes, Clean(s), ~StartsWithSlash(s)
    PROVE  /\ Rooted(s) \in Bytes /\ Bare(Rooted(s))
           /\ Len(Rooted(s)) <= Len(s) + 1
           /\ s = IF Rooted(s) = <<>> THEN Rooted(s) ELSE Tail(Rooted(s))
  <1>0. Len(s) \in Nat
    BY DEF Bytes
  <1>1. CASE s = <<>>
    <2>1. Rooted(s) = s
      BY <1>1 DEF Rooted
    <2> QED
      BY <1>0, <1>1, <2>1, CleanBare
  <1>2. CASE s # <<>>
    <2>1. Rooted(s) = Then(Sl, s)
      BY <1>2 DEF Rooted
    <2>2. Then(Sl, s) \in Bytes /\ Len(Then(Sl, s)) = 1 + Len(s)
      BY <1>0, SlashIs, ThenType
    <2>3. Clean(Sl)
      BY DEF Clean, Sl, Reserved, Slash, Space, At, Tilde
    <2>4. Clean(Then(Sl, s))
      BY <2>3, SlashIs, CleanJoin
    <2>5. Tail(Then(Sl, s)) = s /\ Then(Sl, s) # <<>>
      BY SlashIs, TailOf, ThenEmpty
    <2> QED
      BY <1>0, <2>1, <2>2, <2>4, <2>5, CleanBare
  <1> QED
    BY <1>1, <1>2

\* Taking slashes off makes nothing longer.
LEMMA TrimmedShort ==
    ASSUME NEW s \in Bytes, IsValidNamespace(s)
    PROVE  Len(Trimmed(s)) <= Len(s)
  <1>1. CASE s = <<>>
    BY <1>1, TrimmedNothing
  <1>2. CASE s # <<>>
    <2>1. PICK c \in Bytes, l \in Bytes, r \in Bytes :
             c = Trimmed(s) /\ s = Then(l, Then(c, r))
      BY <1>2, TrimmedForm, SlashIs, NothingIs
    <2>2. Len(c) \in Nat /\ Len(l) \in Nat /\ Len(r) \in Nat
      BY DEF Bytes
    <2>3. Then(c, r) \in Bytes /\ Len(Then(c, r)) = Len(c) + Len(r)
      BY ThenType
    <2>4. Len(s) = Len(l) + Len(Then(c, r))
      BY <2>1, <2>3, ThenType
    <2>5. Len(c) <= Len(s)
      <3>1. Len(s) = Len(l) + (Len(c) + Len(r))
        BY <2>3, <2>4
      <3>2. \A i, j, k \in Nat : j <= i + (j + k)
        OBVIOUS
      <3> QED
        BY <2>2, <3>1, <3>2
    <2> QED
      BY <2>1, <2>5
  <1> QED
    BY <1>1, <1>2

\* The partition in a name, and what follows it.
Root(n) == Rooted(Trimmed(n.partition))
Rest(n, topic) == Then(Sl, Path(n, topic))

\* GetFullyQualifiedName, taken apart.
LEMMA NameForm ==
    ASSUME NEW n, Proper(n), NEW topic \in Bytes, IsValidTopic(topic)
    PROVE  /\ Root(n) \in Bytes /\ Bare(Root(n))
           /\ Rest(n, topic) \in Bytes /\ Bare(Rest(n, topic))
           /\ Name(n, topic) = Qualified(Root(n), Rest(n, topic))
  <1>1. PICK p \in Bytes : p = Trimmed(n.partition) /\ Clean(p) /\ ~StartsWithSlash(p)
    BY TrimmedType DEF Proper
  <1>2. Root(n) \in Bytes /\ Bare(Root(n))
    BY <1>1, RootedPart DEF Root
  <1>3. PICK x \in Bytes : x = Path(n, topic) /\ Clean(x) /\ ~StartsWithSlash(x)
    BY PathIs
  <1>4. Clean(Sl)
    BY DEF Clean, Sl, Reserved, Slash, Space, At, Tilde
  <1>5. Then(Sl, x) \in Bytes /\ Clean(Then(Sl, x))
    BY <1>3, <1>4, SlashIs, ThenType, CleanJoin
  <1>6. Rest(n, topic) \in Bytes /\ Bare(Rest(n, topic))
    BY <1>3, <1>5, CleanBare DEF Rest
  <1>7. Name(n, topic) = Qualified(Root(n), Rest(n, topic))
    BY NameIs DEF Qualified, Root, Rest
  <1> QED
    BY <1>2, <1>6, <1>7

\* AdvertisedTopics and GetTopicList get path and partition out of a name again.
LEMMA NameSplit ==
    ASSUME NEW n, Proper(n), NEW topic \in Bytes, IsValidTopic(topic)
    PROVE  /\ Name(n, topic) \in Bytes /\ Name(n, topic) # <<>>
           /\ Strip(Name(n, topic)) = Rest(n, topic)
           /\ PartitionOf(Name(n, topic)) = Trimmed(n.partition)
  <1>1. PICK r \in Bytes : r = Root(n) /\ Bare(r)
    BY NameForm
  <1>2. PICK q \in Bytes : q = Rest(n, topic) /\ Bare(q)
    BY NameForm
  <1>3. Name(n, topic) = Qualified(r, q)
    BY <1>1, <1>2, NameForm
  <1>4. PICK z \in Bytes : z = Qualified(r, q) /\ Len(z) = Len(r) + 2 + Len(q)
    BY NameAt
  <1>5. z # <<>>
    <2>1. Len(r) \in Nat /\ Len(q) \in Nat
      BY DEF Bytes
    <2> QED
      BY <1>4, <2>1
  <1>6. Strip(z) = q /\ SubSeq(z, 2, LastAt(z) - 1) = r
    BY <1>1, <1>2, <1>4, NameRead
  <1>7. PICK p \in Bytes : p = Trimmed(n.partition) /\ Clean(p) /\ ~StartsWithSlash(p)
    BY TrimmedType DEF Proper
  <1>8. p = IF r = <<>> THEN r ELSE Tail(r)
    BY <1>1, <1>7, RootedPart DEF Root
  <1>9. PartitionOf(z) = p
    BY <1>6, <1>8 DEF PartitionOf
  <1> QED
    BY <1>2, <1>3, <1>4, <1>5, <1>6, <1>7, <1>9

\* Two names are equal exactly when their partitions and their paths are.
LEMMA NamesEqual ==
    ASSUME NEW n, Proper(n), NEW m, Proper(m),
           NEW t \in Bytes, IsValidTopic(t), NEW u \in Bytes, IsValidTopic(u)
    PROVE  Name(n, t) = Name(m, u) <=>
              /\ Trimmed(n.partition) = Trimmed(m.partition)
              /\ Path(n, t) = Path(m, u)
  <1>1. ASSUME Name(n, t) = Name(m, u)
        PROVE  /\ Trimmed(n.partition) = Trimmed(m.partition)
               /\ Path(n, t) = Path(m, u)
    <2>1. Trimmed(n.partition) = Trimmed(m.partition) /\ Rest(n, t) = Rest(m, u)
      BY <1>1, NameSplit
    <2>2. Path(n, t) \in Bytes /\ Path(m, u) \in Bytes
      BY PathIs
    <2> QED
      BY <2>1, <2>2, SlashIs, ThenSame DEF Rest
  <1>2. ASSUME Trimmed(n.partition) = Trimmed(m.partition), Path(n, t) = Path(m, u)
        PROVE  Name(n, t) = Name(m, u)
    BY <1>2, NameForm DEF Root, Rest
  <1> QED
    BY <1>1, <1>2

\* A name that begins with another is of the same partition.
LEMMA NamesBegin ==
    ASSUME NEW n, Proper(n), NEW m, Proper(m),
           NEW t \in Bytes, IsValidTopic(t), NEW u \in Bytes, IsValidTopic(u),
           IsPrefix(Name(m, u), Name(n, t))
    PROVE  Trimmed(n.partition) = Trimmed(m.partition)
  <1>1. PICK r \in Bytes : r = Root(n) /\ Bare(r)
    BY NameForm
  <1>2. PICK q \in Bytes : q = Rest(n, t) /\ Bare(q)
    BY NameForm
  <1>3. PICK s \in Bytes : s = Root(m) /\ Bare(s)
    BY NameForm
  <1>4. PICK p \in Bytes : p = Rest(m, u) /\ Bare(p)
    BY NameForm
  <1>5. Name(n, t) = Qualified(r, q)
    BY <1>1, <1>2, NameForm
  <1>6. Name(m, u) = Qualified(s, p)
    BY <1>3, <1>4, NameForm
  <1>7. r = s
    BY <1>1, <1>2, <1>3, <1>4, <1>5, <1>6, NamePrefix
  <1>8. PICK x \in Bytes : x = Trimmed(n.partition) /\ Clean(x) /\ ~StartsWithSlash(x)
    BY TrimmedType DEF Proper
  <1>9. PICK y \in Bytes : y = Trimmed(m.partition) /\ Clean(y) /\ ~StartsWithSlash(y)
    BY TrimmedType DEF Proper
  <1>10. /\ x = IF r = <<>> THEN r ELSE Tail(r)
         /\ y = IF s = <<>> THEN s ELSE Tail(s)
    BY <1>1, <1>3, <1>8, <1>9, RootedPart DEF Root
  <1> QED
    BY <1>7, <1>8, <1>9, <1>10

---------------------------------------------------------------------------
\* The datagrams.

\* The scopes.
Reach == {Process, Host, All}
Types == AdvTypes \cup SubTypes \cup {HeartbeatType, ByeType}

\* The types of messages are non-zero bytes,
LEMMA TypesAre ==
    ASSUME NEW type \in Types
    PROVE  type \in Nat /\ type \in Byte /\ type # Uninitialized
  BY DEF Types, AdvTypes, SubTypes, AdvType, AdvSrvType, UnadvType, UnadvSrvType,
         SubType, SubSrvType, HeartbeatType, ByeType, Byte, Uninitialized

\* each of one sort only.
LEMMA TypesApart ==
    /\ AdvTypes \cap SubTypes = {} /\ AdvTypes \subseteq Types /\ SubTypes \subseteq Types
    /\ HeartbeatType \notin AdvTypes \cup SubTypes /\ HeartbeatType \in Types
    /\ ByeType \notin AdvTypes \cup SubTypes /\ ByeType \in Types
  BY DEF Types, AdvTypes, SubTypes, AdvType, AdvSrvType, UnadvType, UnadvSrvType,
         SubType, SubSrvType, HeartbeatType, ByeType

\* The strings of the node and its process fit into a datagram,
LEMMA ShortStrings ==
    /\ PUuid # <<>> /\ NUuid # <<>> /\ Addr # <<>> /\ Ctrl # <<>>
    /\ Short(PUuid) /\ Short(NUuid) /\ Short(Addr) /\ Short(Ctrl)
  <1>1. \A s \in Bytes : Len(s) \in Nat
    BY DEF Bytes
  <1>2. ASSUME NEW s \in {PUuid, NUuid, Addr, Ctrl}
        PROVE  s # <<>> /\ Short(s)
    <2>1. s \in Bytes /\ s # <<>> /\ Len(s) < 65536
      BY WireAssumption DEF MaxRcvStr
    <2> QED
      BY <1>1, <2>1 DEF Short
  <1> QED
    BY <1>2

\* and so does "not used".
LEMMA NotUsedShort == NotUsed # <<>> /\ Short(NotUsed)
  <1>1. NotUsed \in Bytes
    <2>1. 110 \in Byte /\ 111 \in Byte /\ 116 \in Byte /\ 32 \in Byte
          /\ 117 \in Byte /\ 115 \in Byte /\ 101 \in Byte /\ 100 \in Byte
      BY DEF Byte
    <2> QED
      BY <2>1 DEF NotUsed, Bytes
  <1>2. Len(NotUsed) = 8
    BY DEF NotUsed
  <1>3. NotUsed # <<>>
    BY <1>2
  <1> QED
    BY <1>1, <1>2, <1>3 DEF Short

\* Every header is complete: Pack never refuses it.
LEMMA HeaderWritten ==
    ASSUME NEW type \in Types
    PROVE  /\ Written(HeaderOf(type)) /\ HeaderOf(type) \in Header
           /\ HeaderOf(type).type = type
  <1>1. HeaderOf(type) \in Header
    BY TypesAre, ShortStrings DEF HeaderOf, Header, Version, Short
  <1> QED
    BY <1>1, TypesAre, ShortStrings DEF HeaderOf, Written, Version

\* SendMsg sends what Pack wrote when the buffer is as long as that.
LEMMA SentIs ==
    ASSUME NEW p \in Bytes, NEW l, l = Len(p)
    PROVE  Sent(l, p) = p
  <1>1. DOMAIN p = 1..Len(p) /\ p = [i \in 1..Len(p) |-> p[i]]
    BY DEF Bytes
  <1> QED
    BY <1>1 DEF Sent

\* A header, the shared part and the type name make an AdvertiseMsg.
LEMMA AdvRecord ==
    ASSUME NEW h, NEW topic, NEW addr, NEW ctrl, NEW nUuid, NEW scope, NEW name
    PROVE  With([header |-> h],
                With([topic |-> topic, addr |-> addr, ctrl |-> ctrl,
                      nUuid |-> nUuid, scope |-> scope], [msgTypeName |-> name]))
              = [header |-> h, topic |-> topic, addr |-> addr, ctrl |-> ctrl,
                 nUuid |-> nUuid, scope |-> scope, msgTypeName |-> name]
  <1> DEFINE b == [topic |-> topic, addr |-> addr, ctrl |-> ctrl,
                   nUuid |-> nUuid, scope |-> scope]
             c == [msgTypeName |-> name]
             g == [header |-> h]
             m == [header |-> h, topic |-> topic, addr |-> addr, ctrl |-> ctrl,
                   nUuid |-> nUuid, scope |-> scope, msgTypeName |-> name]
             k == {"topic", "addr", "ctrl", "nUuid", "scope"}
  <1>1. With(b, c) = [x \in k \cup {"msgTypeName"} |-> IF x \in k THEN b[x] ELSE c[x]]
    BY DEF With
  <1>2. With(g, With(b, c)) = [x \in {"header"} \cup (k \cup {"msgTypeName"}) |->
                                 IF x \in {"header"} THEN g[x] ELSE With(b, c)[x]]
    BY <1>1 DEF With
  <1>3. m = [x \in {"header"} \cup (k \cup {"msgTypeName"}) |-> m[x]]
    OBVIOUS
  <1>4. ASSUME NEW x \in {"header"} \cup (k \cup {"msgTypeName"})
        PROVE  m[x] = IF x \in {"header"} THEN g[x] ELSE With(b, c)[x]
    BY <1>1
  <1> HIDE DEF m, g, b, c, k
  <1>5. With(g, With(b, c)) = m
    BY <1>2, <1>3, <1>4
  <1> QED
    BY <1>5 DEF m, g, b, c

\* A header, the shared part and the type names make an AdvertiseSrv.
LEMMA SrvRecord ==
    ASSUME NEW h, NEW topic, NEW addr, NEW ctrl, NEW nUuid, NEW scope, NEW req, NEW rep
    PROVE  With([header |-> h],
                With([topic |-> topic, addr |-> addr, ctrl |-> ctrl,
                      nUuid |-> nUuid, scope |-> scope],
                     [reqTypeName |-> req, repTypeName |-> rep]))
              = [header |-> h, topic |-> topic, addr |-> addr, ctrl |-> ctrl,
                 nUuid |-> nUuid, scope |-> scope, reqTypeName |-> req,
                 repTypeName |-> rep]
  <1> DEFINE b == [topic |-> topic, addr |-> addr, ctrl |-> ctrl,
                   nUuid |-> nUuid, scope |-> scope]
             c == [reqTypeName |-> req, repTypeName |-> rep]
             g == [header |-> h]
             m == [header |-> h, topic |-> topic, addr |-> addr, ctrl |-> ctrl,
                   nUuid |-> nUuid, scope |-> scope, reqTypeName |-> req,
                   repTypeName |-> rep]
             k == {"topic", "addr", "ctrl", "nUuid", "scope"}
             j == {"reqTypeName", "repTypeName"}
  <1>1. With(b, c) = [x \in k \cup j |-> IF x \in k THEN b[x] ELSE c[x]]
    BY DEF With
  <1>2. With(g, With(b, c)) = [x \in {"header"} \cup (k \cup j) |->
                                 IF x \in {"header"} THEN g[x] ELSE With(b, c)[x]]
    BY <1>1 DEF With
  <1>3. m = [x \in {"header"} \cup (k \cup j) |-> m[x]]
    OBVIOUS
  <1>4. ASSUME NEW x \in {"header"} \cup (k \cup j)
        PROVE  m[x] = IF x \in {"header"} THEN g[x] ELSE With(b, c)[x]
    BY <1>1
  <1> HIDE DEF m, g, b, c, k, j
  <1>5. With(g, With(b, c)) = m
    BY <1>2, <1>3, <1>4
  <1> QED
    BY <1>5 DEF m, g, b, c

\* The AdvertiseSrv that says the same as an AdvertiseMsg.
LEMMA AsSrv ==
    ASSUME NEW h, NEW topic, NEW addr, NEW ctrl, NEW nUuid, NEW scope, NEW name,
           NEW req, NEW rep
    PROVE  LET m == [header |-> h, topic |-> topic, addr |-> addr, ctrl |-> ctrl,
                     nUuid |-> nUuid, scope |-> scope, msgTypeName |-> name]
           IN  With([x \in DOMAIN m \ {"msgTypeName"} |-> m[x]],
                    [reqTypeName |-> req, repTypeName |-> rep])
                  = [header |-> h, topic |-> topic, addr |-> addr, ctrl |-> ctrl,
                     nUuid |-> nUuid, scope |-> scope, reqTypeName |-> req,
                     repTypeName |-> rep]
  <1> DEFINE m == [header |-> h, topic |-> topic, addr |-> addr, ctrl |-> ctrl,
                   nUuid |-> nUuid, scope |-> scope, msgTypeName |-> name]
             b == [x \in DOMAIN m \ {"msgTypeName"} |-> m[x]]
             c == [reqTypeName |-> req, repTypeName |-> rep]
             d == [header |-> h, topic |-> topic, addr |-> addr, ctrl |-> ctrl,
                   nUuid |-> nUuid, scope |-> scope, reqTypeName |-> req,
                   repTypeName |-> rep]
             k == {"header", "topic", "addr", "ctrl", "nUuid", "scope"}
             j == {"reqTypeName", "repTypeName"}
  <1>1. b = [x \in k |-> m[x]]
    BY DOMAIN m \ {"msgTypeName"} = k
  <1> HIDE DEF b
  <1>2. With(b, c) = [x \in k \cup j |-> IF x \in k THEN b[x] ELSE c[x]]
    BY <1>1 DEF With
  <1>3. d = [x \in k \cup j |-> d[x]]
    OBVIOUS
  <1>4. ASSUME NEW x \in k \cup j
        PROVE  d[x] = IF x \in k THEN b[x] ELSE c[x]
    BY <1>1
  <1> HIDE DEF d, c, k, j
  <1>5. With(b, c) = d
    BY <1>2, <1>3, <1>4
  <1> QED
    BY <1>5 DEF b, c, d

\* An ADVERTISE or UNADVERTISE datagram is intact, and an AdvertiseSrv in its
\* place would be,
LEMMA AdvIntact ==
    ASSUME NEW type \in AdvTypes, NEW name, Short(name), name # <<>>,
           NEW scope \in Reach
    PROVE  LET d == AdvDatagram(type, name, scope)
           IN  /\ d.data \in Bytes
               /\ Intact(d)
  <1> DEFINE h == HeaderOf(type)
             m == [header |-> h, topic |-> name, addr |-> Addr, ctrl |-> Ctrl,
                   nUuid |-> NUuid, scope |-> scope, msgTypeName |-> NotUsed]
             s == [header |-> h, topic |-> name, addr |-> Addr, ctrl |-> Ctrl,
                   nUuid |-> NUuid, scope |-> scope, reqTypeName |-> NotUsed,
                   repTypeName |-> name]
             base == [topic |-> name, addr |-> Addr, ctrl |-> Ctrl,
                      nUuid |-> NUuid, scope |-> scope]
             k == GetHeaderLength(h)
             d == AdvDatagram(type, name, scope)
  <1>1. /\ type \in Types /\ type \notin SubTypes
        /\ scope \in Nat /\ scope < 256
    BY TypesApart DEF Reach, Process, Host, All
  <1>2. Written(h) /\ h.type = type
    BY <1>1, HeaderWritten
  <1> HIDE DEF h
  <1>3. WrittenBase(m) /\ WrittenBase(s)
    BY <1>1, <1>2, ShortStrings DEF WrittenBase, Complete
  <1>4. Base(m) = base /\ Base(s) = base
    BY DEF Base
  <1>5. m.msgTypeName = NotUsed /\ s.reqTypeName = NotUsed /\ s.repTypeName = name
        /\ m.header = h /\ s.header = h /\ m.topic = name
    OBVIOUS
  <1>6. With([header |-> h], With(base, [msgTypeName |-> NotUsed])) = m
    BY AdvRecord
  <1>7. With([header |-> h], With(base, [reqTypeName |-> NotUsed,
                                         repTypeName |-> name])) = s
    BY SrvRecord
  <1>8. With([x \in DOMAIN m \ {"msgTypeName"} |-> m[x]],
             [reqTypeName |-> NotUsed, repTypeName |-> name]) = s
    BY AsSrv
  <1>9. d = [msg |-> m, data |-> Sent(AdvertiseMsgLength(m), PackAdvertiseMsg(m))]
    BY DEF AdvDatagram, h
  <1> HIDE DEF m, s, base, d
  <1>10. PICK p \in Bytes :
            /\ p = PackAdvertiseMsg(m)
            /\ Len(p) = AdvertiseMsgLength(m)
            /\ \A b \in Bytes : Holds(b, 0, p) =>
                  /\ Holds(b, 0, PackHeader(h))
                  /\ UnpackAdvertiseMsg(b, k)
                        = With(base, [msgTypeName |-> NotUsed])
    BY <1>3, <1>4, <1>5, NotUsedShort, AdvertiseMsgRead
  <1>11. PICK q \in Bytes :
            /\ q = PackAdvertiseSrv(s)
            /\ Len(q) = AdvertiseSrvLength(s)
            /\ \A b \in Bytes : Holds(b, 0, q) =>
                  /\ Holds(b, 0, PackHeader(h))
                  /\ UnpackAdvertiseSrv(b, k)
                        = With(base, [reqTypeName |-> NotUsed, repTypeName |-> name])
    BY <1>3, <1>4, <1>5, NotUsedShort, AdvertiseSrvRead
  <1>12. d.data = p /\ d.msg = m
    <2>1. Sent(AdvertiseMsgLength(m), p) = p
      BY <1>10, SentIs
    <2> QED
      BY <1>9, <1>10, <2>1
  <1>13. /\ Holds(p, 0, PackHeader(h))
         /\ UnpackAdvertiseMsg(p, k) = With(base, [msgTypeName |-> NotUsed])
    BY <1>10, HoldsAll
  <1>14. /\ Holds(q, 0, PackHeader(h))
         /\ UnpackAdvertiseSrv(q, k)
               = With(base, [reqTypeName |-> NotUsed, repTypeName |-> name])
    BY <1>11, HoldsAll
  <1>15. UnpackHeader(p) = h /\ UnpackHeader(q) = h
    BY <1>2, <1>13, <1>14, HeaderRead
  <1>16. Unpacked(p) = m
    <2>1. Unpacked(p) = With([header |-> h], UnpackAdvertiseMsg(p, k))
      BY <1>1, <1>2, <1>15 DEF Unpacked
    <2> QED
      BY <1>6, <1>13, <2>1
  <1>17. Intact(d)
    <2>1. m.header.type = type
      BY <1>2, <1>5
    <2>2. With([x \in DOMAIN m \ {"msgTypeName"} |-> m[x]],
               [reqTypeName |-> NotUsed, repTypeName |-> m.topic]) = s
      BY <1>5, <1>8
    <2>3. With([header |-> s.header],
               UnpackAdvertiseSrv(q, GetHeaderLength(s.header))) = s
      BY <1>5, <1>7, <1>14
    <2>4. UnpackHeader(q) = s.header
      BY <1>5, <1>15
    <2> QED
      BY <1>1, <1>10, <1>11, <1>12, <1>16, <2>1, <2>2, <2>3, <2>4 DEF Intact
  <1> QED
    BY <1>12, <1>17 DEF d

\* a SUBSCRIBE datagram is,
LEMMA SubIntact ==
    ASSUME NEW type \in SubTypes, NEW name, Short(name), name # <<>>
    PROVE  LET d == SubDatagram(type, name)
           IN  d.data \in Bytes /\ Intact(d)
  <1> DEFINE h == HeaderOf(type)
             m == [header |-> h, topic |-> name]
             k == GetHeaderLength(h)
             d == SubDatagram(type, name)
  <1>1. type \in Types /\ type \notin AdvTypes
    BY TypesApart
  <1>2. Written(h) /\ h.type = type
    BY <1>1, HeaderWritten
  <1> HIDE DEF h
  <1>3. m.header = h /\ m.topic = name
    OBVIOUS
  <1>4. With([header |-> h], [topic |-> name]) = m
    <2>1. With([header |-> h], [topic |-> name])
             = [x \in {"header"} \cup {"topic"} |->
                   IF x \in {"header"} THEN [header |-> h][x] ELSE [topic |-> name][x]]
      BY DEF With
    <2>2. m = [x \in {"header"} \cup {"topic"} |-> m[x]]
      OBVIOUS
    <2>3. ASSUME NEW x \in {"header"} \cup {"topic"}
          PROVE  m[x] = IF x \in {"header"} THEN [header |-> h][x]
                        ELSE [topic |-> name][x]
      OBVIOUS
    <2> HIDE DEF m
    <2> QED
      BY <2>1, <2>2, <2>3
  <1>5. d = [msg |-> m, data |-> Sent(SubscriptionLength(m), PackSubscription(m))]
    BY DEF SubDatagram, h
  <1> HIDE DEF m, d
  <1>6. PICK p \in Bytes :
           /\ p = PackSubscription(m)
           /\ Len(p) = SubscriptionLength(m)
           /\ \A b \in Bytes : Holds(b, 0, p) =>
                 /\ Holds(b, 0, PackHeader(h))
                 /\ UnpackSubscription(b, k) = [topic |-> name]
    BY <1>2, <1>3, SubscriptionRead
  <1>7. d.data = p /\ d.msg = m
    <2>1. Sent(SubscriptionLength(m), p) = p
      BY <1>6, SentIs
    <2> QED
      BY <1>5, <1>6, <2>1
  <1>8. Holds(p, 0, PackHeader(h)) /\ UnpackSubscription(p, k) = [topic |-> name]
    BY <1>6, HoldsAll
  <1>9. UnpackHeader(p) = h
    BY <1>2, <1>8, HeaderRead
  <1>10. Unpacked(p) = m
    BY <1>1, <1>2, <1>4, <1>8, <1>9 DEF Unpacked
  <1>11. Intact(d)
    BY <1>1, <1>2, <1>3, <1>6, <1>7, <1>10 DEF Intact
  <1> QED
    BY <1>7, <1>11 DEF d

\* and a HEARTBEAT or BYE datagram is.
LEMMA PlainIntact ==
    ASSUME NEW type \in {HeartbeatType, ByeType}
    PROVE  LET d == PlainDatagram(type)
           IN  d.data \in Bytes /\ Intact(d)
  <1> DEFINE h == HeaderOf(type)
             d == PlainDatagram(type)
  <1>1. type \in Types /\ type \notin AdvTypes /\ type \notin SubTypes
    BY TypesApart
  <1>2. Written(h) /\ h.type = type
    BY <1>1, HeaderWritten
  <1>3. d = [msg |-> [header |-> h], data |-> Sent(GetHeaderLength(h), PackHeader(h))]
    BY DEF PlainDatagram
  <1> HIDE DEF h, d
  <1>4. PICK p \in Bytes :
           /\ p = PackHeader(h)
           /\ Len(p) = GetHeaderLength(h)
           /\ \A b \in Bytes : Holds(b, 0, p) => UnpackHeader(b) = h
    BY <1>2, HeaderRead
  <1>5. d.data = p /\ d.msg = [header |-> h]
    <2>1. Sent(GetHeaderLength(h), p) = p
      BY <1>4, SentIs
    <2> QED
      BY <1>3, <1>4, <2>1
  <1>6. UnpackHeader(p) = h
    BY <1>4, HoldsAll
  <1>7. Unpacked(p) = [header |-> h]
    BY <1>1, <1>2, <1>6 DEF Unpacked
  <1>8. Intact(d)
    BY <1>1, <1>2, <1>4, <1>5, <1>7 DEF Intact
  <1> QED
    BY <1>5, <1>8 DEF d

---------------------------------------------------------------------------
\* The nodes.

\* What AdvertisedTopics lists leads back to the name.
LEMMA Again ==
    ASSUME NEW n, Proper(n), NEW topic \in Bytes, IsValidTopic(topic)
    PROVE  /\ Strip(Name(n, topic)) \in Bytes
           /\ IsValidTopic(Strip(Name(n, topic)))
           /\ Name(n, Strip(Name(n, topic))) = Name(n, topic)
  <1>1. PICK x \in Bytes : x = Path(n, topic)
    BY PathIs
  <1>2. /\ Clean(x) /\ x # <<>> /\ ~StartsWithSlash(x) /\ ~EndsWithSlash(x)
    BY <1>1, PathIs
  <1>3. PICK t \in Bytes : t = Then(Sl, x)
    BY SlashIs, ThenType
  <1>4. Strip(Name(n, topic)) = t
    BY <1>1, <1>3, NameSplit DEF Rest
  <1>5. Tail(t) = x /\ StartsWithSlash(t)
    BY <1>3, SlashIs, SlashEnds, TailOf, ThenStarts
  <1>6. IsValidTopic(t)
    <2>1. Clean(Sl)
      BY DEF Clean, Sl, Reserved, Slash, Space, At, Tilde
    <2>2. Clean(t) /\ t # <<>>
      BY <1>2, <1>3, <2>1, SlashIs, CleanJoin, ThenEmpty
    <2>3. t # Sl
      <3>1. Then(Sl, <<>>) = Sl
        BY SlashIs, ThenNothing
      <3>2. t = Sl => x = <<>>
        BY <1>3, <3>1, SlashIs, NothingIs, ThenSame
      <3> QED
        BY <1>2, <3>2
    <2> QED
      BY <2>2, <2>3, ValidIsClean DEF IsValidTopic
  <1>7. Path(n, t) = x
    BY <1>2, <1>5 DEF Path, Trimmed
  <1>8. Name(n, t) = Name(n, topic)
    BY <1>1, <1>6, <1>7, NamesEqual
  <1> QED
    BY <1>4, <1>6, <1>8

\* What a node of the same partition, given without slashes, is shown leads back
\* to the name in its own qualification: the path is absolute.
LEMMA ListedAgain ==
    ASSUME NEW n, Proper(n), NEW m, Proper(m), NEW topic \in Bytes, IsValidTopic(topic),
           Trimmed(n.partition) = m.partition
    PROVE  /\ IsValidTopic(Strip(Name(n, topic)))
           /\ Name(m, Strip(Name(n, topic))) = Name(n, topic)
  <1>1. PICK t \in Bytes : t = Strip(Name(n, topic)) /\ IsValidTopic(t)
    BY Again
  <1>2. PICK p \in Bytes : p = m.partition /\ ~StartsWithSlash(p) /\ ~EndsWithSlash(p)
    BY TrimmedType DEF Proper
  <1>3. Trimmed(m.partition) = m.partition
    BY <1>2 DEF Trimmed
  <1>4. StartsWithSlash(t)
    BY <1>1, PathIs, NameSplit, SlashIs, SlashEnds, ThenStarts DEF Rest
  <1>5. Path(m, t) = Path(n, t)
    BY <1>4 DEF Path
  <1>6. Name(m, t) = Name(n, t)
    BY <1>1, <1>3, <1>5, NamesEqual
  <1> QED
    BY <1>1, <1>6, Again

\* A name of parts of these lengths fits into a datagram.
Fits(i, j, k) == i + j + k + 5 < 65536

\* A node of WireAssumption's strings.
Named(n) ==
    /\ Proper(n) /\ n \in [partition : Bytes, ns : Bytes]
    /\ \A t \in Topics : Fits(Len(n.partition), Len(n.ns), Len(t))

\* What the constructor of Node leaves is valid.
LEMMA ConstructedNamed ==
    ASSUME NEW p \in Partitions, NEW n \in Namespaces
    PROVE  Named(Constructed(p, n))
  <1>0. \A s \in Bytes : Len(s) \in Nat
    BY DEF Bytes
  <1>1. p \in Bytes /\ n \in Bytes /\ Topics \subseteq Bytes
    BY WireAssumption
  <1>2. <<>> \in Bytes /\ Len(<<>>) = 0
    BY NothingIs
  <1>3. IsValidNamespace(<<>>)
    <2>1. Clean(<<>>)
      BY DEF Clean
    <2>2. <<>> # Sl
      BY SlashIs
    <2> QED
      BY <1>2, <2>1, <2>2, ValidIsClean
  <1>4. /\ Constructed(p, n).partition \in {p, <<>>} /\ Constructed(p, n).ns \in {n, <<>>}
        /\ Proper(Constructed(p, n)) /\ Constructed(p, n) \in [partition : Bytes, ns : Bytes]
    BY <1>1, <1>2, <1>3 DEF Constructed, Proper
  <1>5. ASSUME NEW t \in Topics
        PROVE  Fits(Len(Constructed(p, n).partition), Len(Constructed(p, n).ns), Len(t))
    <2>1. Fits(Len(p), Len(n), Len(t))
      BY WireAssumption DEF MaxRcvStr, Fits
    <2>2. Len(p) \in Nat /\ Len(n) \in Nat /\ Len(t) \in Nat
      BY <1>0, <1>1
    <2>3. /\ Len(Constructed(p, n).partition) \in {Len(p), 0}
          /\ Len(Constructed(p, n).ns) \in {Len(n), 0}
      BY <1>2, <1>4
    <2>4. PICK i \in Nat, j \in Nat, k \in Nat : i = Len(p) /\ j = Len(n) /\ k = Len(t)
      BY <2>2
    <2>5. PICK x \in Nat, y \in Nat :
             /\ x = Len(Constructed(p, n).partition) /\ y = Len(Constructed(p, n).ns)
             /\ x = i \/ x = 0
             /\ y = j \/ y = 0
      BY <2>3, <2>4
    <2>6. x <= i /\ y <= j
      BY <2>5
    <2>7. Fits(i, j, k)
      BY <2>1, <2>4
    <2>8. Fits(x, y, k)
      BY <2>6, <2>7 DEF Fits
    <2>9. /\ Len(Constructed(p, n).partition) = x /\ Len(Constructed(p, n).ns) = y
          /\ Len(t) = k
      BY <2>4, <2>5
    <2> QED
      BY <2>8, <2>9
  <1> QED
    BY <1>4, <1>5 DEF Named

\* The topics that Advertise accepts.
LEMMA TopicsAre ==
    ASSUME NEW t \in ValidTopics
    PROVE  t \in Bytes /\ IsValidTopic(t) /\ t \in Topics
  BY WireAssumption DEF ValidTopics

\* A name fits into a datagram.
LEMMA NameShort ==
    ASSUME NEW n, Named(n), NEW t \in ValidTopics
    PROVE  Name(n, t) \in Bytes /\ Name(n, t) # <<>> /\ Short(Name(n, t))
  <1>0. \A s \in Bytes : Len(s) \in Nat
    BY DEF Bytes
  <1>1. Proper(n) /\ t \in Bytes /\ IsValidTopic(t) /\ t \in Topics
    BY TopicsAre DEF Named
  <1>2. /\ n.partition \in Bytes /\ IsValidNamespace(n.partition)
        /\ n.ns \in Bytes /\ IsValidNamespace(n.ns)
    BY DEF Named, Proper
  <1>13. PICK i \in Nat, j \in Nat, k \in Nat :
            i = Len(n.partition) /\ j = Len(n.ns) /\ k = Len(t)
    BY <1>0, <1>1, <1>2
  <1>14. Fits(i, j, k)
    BY <1>1, <1>13 DEF Named
  <1>3. PICK p \in Bytes : /\ p = Trimmed(n.partition) /\ Clean(p)
                           /\ ~StartsWithSlash(p) /\ Len(p) <= i
    <2>1. Len(Trimmed(n.partition)) <= Len(n.partition)
      BY <1>2, TrimmedShort
    <2>2. /\ Trimmed(n.partition) \in Bytes /\ Clean(Trimmed(n.partition))
          /\ ~StartsWithSlash(Trimmed(n.partition))
      BY <1>2, TrimmedType
    <2> QED
      BY <1>13, <2>1, <2>2
  <1>4. PICK r \in Bytes : r = Root(n) /\ Len(r) <= i + 1
    BY <1>0, <1>3, <1>13, RootedPart DEF Root
  <1>5. PICK c \in Bytes : c = Trimmed(t) /\ Len(c) <= k
    <2>1. IsValidNamespace(t)
      BY <1>1 DEF IsValidTopic
    <2>2. Len(Trimmed(t)) <= Len(t) /\ Trimmed(t) \in Bytes
      BY <1>1, <2>1, TrimmedShort, TrimmedType
    <2> QED
      BY <1>13, <2>2
  <1>6. PICK d \in Bytes : d = Trimmed(n.ns) /\ Len(d) <= j
    <2>1. Len(Trimmed(n.ns)) <= Len(n.ns) /\ Trimmed(n.ns) \in Bytes
      BY <1>2, TrimmedShort, TrimmedType
    <2> QED
      BY <1>13, <2>1
  <1>7. PICK x \in Bytes : x = Path(n, t) /\ Len(x) <= j + 1 + k
    <2>1. /\ Path(n, t) \in Bytes
          /\ Path(n, t) = c \/ Path(n, t) = Then(Then(d, Sl), c)
      BY <1>1, <1>5, <1>6, PathIs
    <2>2. Len(Then(d, Sl)) = Len(d) + 1 /\ Then(d, Sl) \in Bytes
      BY SlashIs, ThenType
    <2>3. Len(Then(Then(d, Sl), c)) = Len(Then(d, Sl)) + Len(c)
      BY <2>2, ThenType
    <2> QED
      BY <1>0, <1>5, <1>6, <1>13, <2>1, <2>2, <2>3
  <1>8. PICK q \in Bytes : q = Rest(n, t) /\ Len(q) <= j + 2 + k
    <2>1. Then(Sl, x) \in Bytes /\ Len(Then(Sl, x)) = Len(Sl) + Len(x)
      BY SlashIs, ThenType
    <2>2. Len(Sl) = 1 /\ Len(x) \in Nat
      BY <1>0, SlashIs
    <2> QED
      BY <1>7, <1>13, <2>1, <2>2 DEF Rest
  <1>9. PICK z \in Bytes : z = Qualified(r, q) /\ Len(z) = Len(r) + 2 + Len(q)
    BY NameAt
  <1>10. Name(n, t) = z
    BY <1>1, <1>4, <1>8, <1>9, NameForm
  <1>11. Len(z) < 65536 /\ Len(z) > 0
    <2>1. PICK a \in Nat, b \in Nat, e \in Nat : a = Len(r) /\ b = Len(q) /\ e = Len(z)
      BY <1>0
    <2>2. a <= i + 1
      BY <1>4, <2>1
    <2>3. b <= j + 2 + k
      BY <1>8, <2>1
    <2>4. e = a + 2 + b
      BY <1>9, <2>1
    <2>5. e < 65536 /\ e > 0
      BY <1>14, <2>2, <2>3, <2>4 DEF Fits
    <2> QED
      BY <2>1, <2>5
  <1> QED
    BY <1>10, <1>11 DEF Short

---------------------------------------------------------------------------
\* The state.

\* The names of the node's topics.
NodeNames == {Name(node, t) : t \in ValidTopics}

\* What the node and its process send.
Datagrams ==
    {AdvDatagram(type, n, s) :
        type \in {AdvType, AdvSrvType, UnadvType}, n \in NodeNames, s \in Reach}
    \cup {SubDatagram(type, n) : type \in SubTypes, n \in NodeNames}
    \cup {PlainDatagram(type) : type \in {HeartbeatType, ByeType}}

\* Every datagram that is sent is intact.
LEMMA DatagramFits ==
    ASSUME Named(node), NEW d \in Datagrams
    PROVE  /\ d.data \in Bytes
           /\ d.msg \in AdvertiseMsg \cup SubscriptionMsg \cup [header : Header]
           /\ Intact(d)
  <1>1. \A n \in NodeNames : n \in Bytes /\ n # <<>> /\ Short(n)
    BY NameShort DEF NodeNames
  <1>2. ASSUME NEW type \in {AdvType, AdvSrvType, UnadvType}, NEW n \in NodeNames,
               NEW s \in Reach, d = AdvDatagram(type, n, s)
        PROVE  /\ d.data \in Bytes /\ Intact(d)
               /\ d.msg \in AdvertiseMsg
    <2>1. type \in AdvTypes
      BY DEF AdvTypes
    <2>2. d.data \in Bytes /\ Intact(d)
      BY <1>1, <1>2, <2>1, AdvIntact
    <2>3. HeaderOf(type) \in Header
      BY <2>1, TypesApart, HeaderWritten
    <2>4. /\ Addr \in Bytes /\ Ctrl \in Bytes /\ NUuid \in Bytes /\ NotUsed \in Bytes
          /\ n \in Bytes
      BY <1>1, ShortStrings, NotUsedShort DEF Short
    <2>5. d.msg = [header |-> HeaderOf(type), topic |-> n, addr |-> Addr,
                   ctrl |-> Ctrl, nUuid |-> NUuid, scope |-> s,
                   msgTypeName |-> NotUsed]
      BY <1>2 DEF AdvDatagram
    <2> QED
      BY <2>2, <2>3, <2>4, <2>5 DEF AdvertiseMsg, Reach
  <1>3. ASSUME NEW type \in SubTypes, NEW n \in NodeNames, d = SubDatagram(type, n)
        PROVE  /\ d.data \in Bytes /\ Intact(d)
               /\ d.msg \in SubscriptionMsg
    <2>1. d.data \in Bytes /\ Intact(d)
      BY <1>1, <1>3, SubIntact
    <2>2. HeaderOf(type) \in Header
      BY TypesApart, HeaderWritten
    <2>3. d.msg = [header |-> HeaderOf(type), topic |-> n]
      BY <1>3 DEF SubDatagram
    <2> QED
      BY <1>1, <2>1, <2>2, <2>3 DEF SubscriptionMsg
  <1>4. ASSUME NEW type \in {HeartbeatType, ByeType}, d = PlainDatagram(type)
        PROVE  /\ d.data \in Bytes /\ Intact(d)
               /\ d.msg \in [header : Header]
    <2>1. d.data \in Bytes /\ Intact(d)
      BY <1>4, PlainIntact
    <2>2. HeaderOf(type) \in Header
      BY TypesApart, HeaderWritten
    <2>3. d.msg = [header |-> HeaderOf(type)]
      BY <1>4 DEF PlainDatagram
    <2> QED
      BY <2>1, <2>2, <2>3
  <1> QED
    BY <1>2, <1>3, <1>4 DEF Datagrams

\* Every order of a finite set has each of its members.
LEMMA Orders ==
    ASSUME NEW S, IsFiniteSet(S), NEW order \in SetToSeqs(S)
    PROVE  /\ order \in Seq(S)
           /\ \A x \in S : \E i \in 1..Len(order) : order[i] = x
  <1>1. PICK n \in Nat : n = Cardinality(S)
    BY FS_CardinalityType
  <1>2. /\ order \in [1..n -> S]
        /\ \A i, j \in 1..n : i # j => order[i] # order[j]
    BY <1>1 DEF SetToSeqs
  <1>3. order \in Seq(S) /\ Len(order) = n
    BY <1>2
  <1>4. order \in Injection(1..n, S)
    BY <1>2 DEF Injection, IsInjective
  <1>5. Cardinality(1..n) = n
    <2>1. Cardinality(1..n) = IF 1 > n THEN 0 ELSE n - 1 + 1
      BY FS_Interval
    <2> QED
      BY <2>1
  <1>6. order \in Surjection(1..n, S)
    BY <1>1, <1>4, <1>5, FS_Injection
  <1>7. \A x \in S : \E i \in 1..n : order[i] = x
    BY <1>6 DEF Surjection
  <1> QED
    BY <1>3, <1>7

\* What the other process stores of the node.
Entries ==
    [topic : NodeNames, addr : {Addr}, ctrl : {Ctrl}, proc : {PUuid},
     node : {NUuid}, scope : Reach]

\* The types, the names that can occur and the form of each datagram.
Sound ==
    /\ Named(node) /\ Named(peer)
    /\ status \in {"alive", "destroyed", "ended"}
    /\ advertised \in [Kinds -> SUBSET NodeNames]
    /\ own \in [Kinds -> SUBSET [topic : NodeNames, scope : Reach]]
    /\ \A k \in Kinds : IsFiniteSet(own[k])
    /\ heard \in [Kinds -> SUBSET Entries]
    /\ net \in Seq(Datagrams)
    /\ widened \subseteq NodeNames

\* Sound is more than the type invariant and intact datagrams.
LEMMA SoundSays == Sound => TypeOK /\ DatagramsIntact
  <1> SUFFICES ASSUME Sound PROVE TypeOK /\ DatagramsIntact
    OBVIOUS
  <1>1. node \in Ends /\ peer \in Ends
    BY DEF Sound, Named, Ends
  <1>2. \A n \in NodeNames : n \in Bytes
    BY NameShort DEF Sound, NodeNames
  <1>3. Addr \in Bytes /\ Ctrl \in Bytes /\ PUuid \in Bytes /\ NUuid \in Bytes
    BY ShortStrings DEF Short
  <1>4. ASSUME NEW k \in Kinds
        PROVE  /\ advertised[k] \subseteq Bytes
               /\ own[k] \subseteq [topic : Bytes, scope : {Process, Host, All}]
               /\ heard[k] \subseteq [topic : Bytes, addr : Bytes, ctrl : Bytes,
                                      proc : Bytes, node : Bytes,
                                      scope : {Process, Host, All}]
    <2>1. advertised[k] \subseteq Bytes
      BY <1>2 DEF Sound
    <2>2. own[k] \subseteq [topic : Bytes, scope : {Process, Host, All}]
      BY <1>2 DEF Sound, Reach
    <2>3. Entries \subseteq [topic : Bytes, addr : Bytes, ctrl : Bytes,
                             proc : Bytes, node : Bytes, scope : {Process, Host, All}]
      BY <1>2, <1>3 DEF Entries, Reach
    <2> QED
      BY <2>1, <2>2, <2>3 DEF Sound
  <1>5. \A i \in DOMAIN net : net[i] \in Datagrams
    BY DEF Sound
  <1>6. \A i \in DOMAIN net :
           /\ net[i].data \in Bytes
           /\ net[i].msg \in AdvertiseMsg \cup SubscriptionMsg \cup [header : Header]
           /\ Intact(net[i])
    BY <1>5, DatagramFits DEF Sound
  <1>7. TypeOK
    BY <1>1, <1>2, <1>4, <1>6 DEF TypeOK, Sound
  <1> QED
    BY <1>6, <1>7 DEF DatagramsIntact

---------------------------------------------------------------------------
\* What the receiver does with a datagram.

AdvTypesSent == {AdvType, AdvSrvType, UnadvType}

\* The fields of an ADVERTISE or UNADVERTISE message,
LEMMA AdvFields ==
    ASSUME NEW type, NEW n, NEW s
    PROVE  LET m == AdvDatagram(type, n, s).msg
           IN  /\ m.header.type = type /\ m.header.pUuid = PUuid /\ m.topic = n
               /\ m.addr = Addr /\ m.ctrl = Ctrl /\ m.nUuid = NUuid /\ m.scope = s
  BY DEF AdvDatagram, HeaderOf

\* the types that DispatchDiscoveryMsg tells apart,
LEMMA TypesDiffer ==
    /\ AdvType # AdvSrvType /\ AdvType # UnadvType /\ AdvType # UnadvSrvType
    /\ AdvSrvType # UnadvType /\ AdvSrvType # UnadvSrvType /\ UnadvType # UnadvSrvType
    /\ \A t \in SubTypes \cup {HeartbeatType, ByeType} :
          t # AdvType /\ t # AdvSrvType /\ t # UnadvType /\ t # UnadvSrvType
    /\ ByeType # HeartbeatType /\ ByeType \notin SubTypes
  BY DEF AdvType, AdvSrvType, UnadvType, UnadvSrvType, SubTypes, SubType, SubSrvType,
         HeartbeatType, ByeType

\* and what it does with the message: an UNADVERTISE leaves no entry of its
\* topic, an ADVERTISE adds none but of its topic.
LEMMA AppliedAdvert ==
    ASSUME Sound, NEW type \in AdvTypesSent, NEW n \in NodeNames, NEW s \in Reach
    PROVE  LET h == Applied(AdvDatagram(type, n, s).msg)
           IN  /\ h \in [Kinds -> SUBSET Entries]
               /\ type = UnadvType /\ ~Ignored(s) =>
                     \A f \in h["msg"] : f.topic # n /\ f \in heard["msg"]
               /\ type # UnadvType \/ Ignored(s) =>
                     \A f \in h["msg"] : \/ f \in heard["msg"]
                                         \/ /\ type = AdvType /\ ~Ignored(s)
                                            /\ f.topic = n
  <1> DEFINE m == AdvDatagram(type, n, s).msg
             h == Applied(m)
             k == KindOf(type)
             e == [topic |-> n, addr |-> Addr, ctrl |-> Ctrl, proc |-> PUuid,
                   node |-> NUuid, scope |-> s]
  <1>1. /\ m.header.type = type /\ m.header.pUuid = PUuid /\ m.topic = n
        /\ m.addr = Addr /\ m.ctrl = Ctrl /\ m.nUuid = NUuid /\ m.scope = s
    BY AdvFields
  <1>2. heard \in [Kinds -> SUBSET Entries]
    BY DEF Sound
  <1>3. k \in Kinds /\ (k = "msg" <=> type # AdvSrvType)
    BY DEF KindOf, Kinds, AdvTypesSent, AdvType, AdvSrvType, UnadvType, SubType
  <1>4. e \in Entries /\ e.topic = n
    BY DEF Entries
  <1>5. type \in AdvTypes
    BY DEF AdvTypes, AdvTypesSent
  <1>6. "msg" \in Kinds
    BY DEF Kinds
  <1> HIDE DEF m
  <1>7. CASE Ignored(s)
    <2>1. h = heard
      BY <1>1, <1>5, <1>7 DEF Applied
    <2> QED
      BY <1>2, <1>7, <2>1 DEF m
  <1>8. CASE ~Ignored(s) /\ type \in {AdvType, AdvSrvType}
    <2>1. h = heard \/ h = [heard EXCEPT ![k] = @ \cup {e}]
      BY <1>1, <1>8, TypesDiffer DEF Applied
    <2>2. h \in [Kinds -> SUBSET Entries]
      <3> HIDE DEF e, k, h
      <3> QED
        BY <1>2, <1>3, <1>4, <2>1
    <2>3. ASSUME NEW f \in h["msg"], f \notin heard["msg"]
          PROVE  type = AdvType /\ f.topic = n
      <3> HIDE DEF e, k, h
      <3>1. h = [heard EXCEPT ![k] = @ \cup {e}]
        BY <2>1, <2>3
      <3>2. k = "msg" /\ f = e
        BY <1>2, <1>3, <1>6, <2>3, <3>1
      <3> QED
        BY <1>3, <1>4, <1>8, <3>2
    <2>4. type # UnadvType
      BY <1>8, TypesDiffer
    <2> QED
      BY <1>8, <2>2, <2>3, <2>4 DEF m
  <1>9. CASE ~Ignored(s) /\ type = UnadvType
    <2>1. h = [heard EXCEPT ![k] = {f \in @ : \/ f.topic # n \/ f.proc # PUuid
                                             \/ f.node # NUuid}]
      BY <1>1, <1>9, TypesDiffer DEF Applied
    <2>2. k = "msg"
      BY <1>3, <1>9, TypesDiffer
    <2>3. h \in [Kinds -> SUBSET Entries]
      <3> HIDE DEF k, h
      <3> QED
        BY <1>2, <1>3, <2>1
    <2>4. ASSUME NEW f \in h["msg"]
          PROVE  f.topic # n /\ f \in heard["msg"]
      <3> HIDE DEF k, h
      <3>1. /\ f \in heard["msg"]
            /\ f.topic # n \/ f.proc # PUuid \/ f.node # NUuid
        BY <1>2, <1>6, <2>1, <2>2, <2>4
      <3>2. f.proc = PUuid /\ f.node = NUuid
        BY <1>2, <1>6, <3>1 DEF Entries
      <3> QED
        BY <3>1, <3>2
    <2> QED
      BY <1>9, <2>3, <2>4 DEF m
  <1> QED
    BY <1>7, <1>8, <1>9 DEF AdvTypesSent

\* A SUBSCRIBE or HEARTBEAT changes no table, a BYE empties them.
LEMMA AppliedOther ==
    ASSUME Sound
    PROVE  /\ \A type \in SubTypes, n \in NodeNames :
                 Applied(SubDatagram(type, n).msg) = heard
           /\ Applied(PlainDatagram(HeartbeatType).msg) = heard
           /\ Applied(PlainDatagram(ByeType).msg) = [k \in Kinds |-> {}]
  <1>1. ASSUME NEW type \in SubTypes, NEW n \in NodeNames
        PROVE  Applied(SubDatagram(type, n).msg) = heard
    <2>1. SubDatagram(type, n).msg.header.type = type
      BY DEF SubDatagram, HeaderOf
    <2>2. type \notin AdvTypes /\ type # ByeType
      BY TypesApart, TypesDiffer
    <2> QED
      BY <2>1, <2>2, TypesDiffer DEF Applied
  <1>2. ASSUME NEW type
        PROVE  /\ PlainDatagram(type).msg.header.type = type
               /\ PlainDatagram(type).msg.header.pUuid = PUuid
    BY DEF PlainDatagram, HeaderOf
  <1>3. Applied(PlainDatagram(HeartbeatType).msg) = heard
    BY <1>2, TypesApart, TypesDiffer DEF Applied
  <1>4. Applied(PlainDatagram(ByeType).msg)
           = [k \in Kinds |-> {f \in heard[k] : f.proc # PUuid}]
    <2> DEFINE m == PlainDatagram(ByeType).msg
    <2>1. m.header.type = ByeType /\ m.header.pUuid = PUuid
      BY <1>2
    <2>2. /\ ByeType \notin AdvTypes /\ ByeType \notin {AdvType, AdvSrvType}
          /\ ByeType \notin {UnadvType, UnadvSrvType}
      BY TypesApart, TypesDiffer
    <2> HIDE DEF m
    <2>3. Applied(m) = [k \in Kinds |-> {f \in heard[k] : f.proc # PUuid}]
      BY <2>1, <2>2 DEF Applied
    <2> QED
      BY <2>3 DEF m
  <1>5. \A k \in Kinds : {f \in heard[k] : f.proc # PUuid} = {}
    BY DEF Sound, Entries
  <1> QED
    BY <1>1, <1>3, <1>4, <1>5

---------------------------------------------------------------------------
\* What is heard is followed by what takes it back.

\* The datagram takes the topic n out of the receiver's table.
Retracts(d, n) ==
    d.msg.header.type = UnadvType /\ ~Ignored(d.msg.scope) /\ d.msg.topic = n

\* The datagram may put its topic there.
Announces(d) == d.msg.header.type = AdvType /\ ~Ignored(d.msg.scope)

\* The topics that the node offers to the other process, or announced to it
\* although their entry keeps them from it.
Accounted == {e.topic : e \in {f \in own["msg"] : ~Ignored(f.scope)}} \cup widened

\* A topic goes from topicsAdvertised and from the own table together.
OwnAdvertised == \A e \in own["msg"] : e.topic \in advertised["msg"]

\* A topic in the other table is accounted for, or will be retracted.
HeardFollowed ==
    \A f \in heard["msg"] :
        \/ f.topic \in Accounted
        \/ \E j \in 1..Len(net) : Retracts(net[j], f.topic)

\* So is one that is announced.
AnnouncedFollowed ==
    \A i \in 1..Len(net) : Announces(net[i]) =>
        \/ net[i].msg.topic \in Accounted
        \/ \E j \in 1..Len(net) : j > i /\ Retracts(net[j], net[i].msg.topic)

\* A destroyed node advertises nothing; BYE is the last that its process says.
GoneSilent ==
    /\ status # "alive" => \A k \in Kinds : advertised[k] = {}
    /\ status = "ended" =>
          IF net = <<>> THEN \A k \in Kinds : heard[k] = {}
          ELSE net[Len(net)] = PlainDatagram(ByeType)

\* The inductive invariant.
Followed == Sound /\ OwnAdvertised /\ HeardFollowed /\ AnnouncedFollowed /\ GoneSilent

\* With the network empty nothing is left to follow.
LEMMA FollowedSays == Followed => TakenBack
  <1> SUFFICES ASSUME Followed PROVE TakenBack
    OBVIOUS
  <1>0. "msg" \in Kinds /\ "srv" \in Kinds
    BY DEF Kinds
  <1>1. ASSUME status # "alive" PROVE own["msg"] = {}
    BY <1>0, <1>1 DEF Followed, OwnAdvertised, GoneSilent
  <1>2. ASSUME net = <<>>, NEW f \in heard["msg"]
        PROVE  f.topic \in {e.topic : e \in own["msg"]} \cup widened
    <2>1. 1..Len(net) = {}
      BY <1>2
    <2> QED
      BY <1>2, <2>1 DEF Followed, HeardFollowed, Accounted
  <1> QED
    BY <1>0, <1>1, <1>2 DEF TakenBack, Known, Followed, GoneSilent

\* While the node is the same, so are its names.
LEMMA SameNames ==
    ASSUME node' = node
    PROVE  NodeNames' = NodeNames /\ Datagrams' = Datagrams /\ Entries' = Entries
  <1>1. NodeNames' = NodeNames
    BY DEF NodeNames
  <1> QED
    BY <1>1 DEF Datagrams, Entries

\* Datagrams put behind those in the network (SendMsg): nothing heard or
\* announced is left without an offer or a later UNADVERTISE, if each offer that
\* the step takes back is retracted by one of them.
LEMMA Extended ==
    ASSUME Followed, NEW order \in Seq(Datagrams), net' = net \o order, heard' = heard,
           \A n : n \in Accounted => \/ n \in Accounted'
                                \/ \E j \in 1..Len(order) : Retracts(order[j], n),
           \A i \in 1..Len(order) :
              Announces(order[i]) => order[i].msg.topic \in Accounted'
    PROVE  net' \in Seq(Datagrams) /\ HeardFollowed' /\ AnnouncedFollowed'
  <1>0. net \in Seq(Datagrams) /\ Len(net) \in Nat /\ Len(order) \in Nat
    BY DEF Followed, Sound
  <1>1. /\ net' \in Seq(Datagrams)
        /\ Len(net') = Len(net) + Len(order)
        /\ \A i \in 1..Len(net) : net'[i] = net[i]
        /\ \A i \in 1..Len(order) : net'[Len(net) + i] = order[i]
    BY <1>0
  <1>2. ASSUME NEW n, n \in Accounted
        PROVE  n \in Accounted' \/ \E j \in 1..Len(net') : j > Len(net) /\ Retracts(net'[j], n)
    <2>1. CASE n \in Accounted'
      BY <2>1
    <2>2. CASE \E j \in 1..Len(order) : Retracts(order[j], n)
      <3>1. PICK j \in 1..Len(order) : Retracts(order[j], n)
        BY <2>2
      <3>2. Len(net) + j \in 1..Len(net') /\ Len(net) + j > Len(net)
            /\ net'[Len(net) + j] = order[j]
        BY <1>0, <1>1
      <3> QED
        BY <3>1, <3>2
    <2> QED
      BY <1>2, <2>1, <2>2
  <1>3. ASSUME NEW n, NEW j \in 1..Len(net), Retracts(net[j], n)
        PROVE  j \in 1..Len(net') /\ Retracts(net'[j], n)
    BY <1>0, <1>1, <1>3
  <1>4. HeardFollowed'
    <2> SUFFICES ASSUME NEW f \in heard["msg"]
                 PROVE  \/ f.topic \in Accounted'
                        \/ \E j \in 1..Len(net') : Retracts(net'[j], f.topic)
      BY DEF HeardFollowed
    <2>1. \/ f.topic \in Accounted
          \/ \E j \in 1..Len(net) : Retracts(net[j], f.topic)
      BY DEF Followed, HeardFollowed
    <2> QED
      BY <1>2, <1>3, <2>1
  <1>5. AnnouncedFollowed'
    <2> SUFFICES ASSUME NEW i \in 1..Len(net'), Announces(net'[i])
                 PROVE  \/ net'[i].msg.topic \in Accounted'
                        \/ \E j \in 1..Len(net') : j > i
                              /\ Retracts(net'[j], net'[i].msg.topic)
      BY DEF AnnouncedFollowed
    <2>1. CASE i <= Len(net)
      <3>1. i \in 1..Len(net) /\ net'[i] = net[i]
        BY <1>0, <1>1, <2>1
      <3>2. \/ net[i].msg.topic \in Accounted
            \/ \E j \in 1..Len(net) : j > i /\ Retracts(net[j], net[i].msg.topic)
        BY <3>1 DEF Followed, AnnouncedFollowed
      <3>3. CASE net[i].msg.topic \in Accounted
        <4>1. \/ net[i].msg.topic \in Accounted'
              \/ \E j \in 1..Len(net') : j > Len(net) /\ Retracts(net'[j], net[i].msg.topic)
          BY <1>2, <3>3
        <4>2. \A j \in 1..Len(net') : j > Len(net) => j > i
          BY <1>0, <1>1, <2>1
        <4> QED
          BY <3>1, <4>1, <4>2
      <3>4. CASE \E j \in 1..Len(net) : j > i /\ Retracts(net[j], net[i].msg.topic)
        BY <1>3, <3>1, <3>4
      <3> QED
        BY <3>2, <3>3, <3>4
    <2>2. CASE i > Len(net)
      <3>1. i - Len(net) \in 1..Len(order) /\ Len(net) + (i - Len(net)) = i
        BY <1>0, <1>1, <2>2
      <3>2. net'[i] = order[i - Len(net)]
        BY <1>1, <3>1
      <3>3. order[i - Len(net)].msg.topic \in Accounted'
        BY <3>1, <3>2
      <3> QED
        BY <3>2, <3>3
    <2> QED
      BY <1>0, <1>1, <2>1, <2>2
  <1> QED
    BY <1>1, <1>4, <1>5

---------------------------------------------------------------------------
\* The steps.

\* What the own table stores.
Owns == [topic : NodeNames, scope : Reach]

\* Discovery::Unadvertise of some names: their topics go from the own table, and
\* each that the other process may know is retracted.
LEMMA Withdrawn ==
    ASSUME Followed, NEW names, Withdraw(names), node' = node, widened' = widened
    PROVE  /\ own' \in [Kinds -> SUBSET Owns]
           /\ \A k \in Kinds : IsFiniteSet(own'[k])
           /\ own'["msg"] = {e \in own["msg"] : e.topic \notin names}
           /\ \E order \in Seq(Datagrams) :
                 /\ net' = net \o order
                 /\ \A n \in Accounted : \/ n \in Accounted'
                                         \/ \E j \in 1..Len(order) : Retracts(order[j], n)
                 /\ \A i \in 1..Len(order) : ~Announces(order[i])
  <1> DEFINE gone == {e \in own["msg"] : e.topic \in names}
             told == {f \in gone : f.scope # Process}
             S == {AdvDatagram(UnadvType, e.topic, e.scope) : e \in told}
  <1>1. /\ own \in [Kinds -> SUBSET Owns] /\ "msg" \in Kinds
        /\ \A k \in Kinds : IsFiniteSet(own[k])
    BY DEF Followed, Sound, Owns, Kinds
  <1>2. own' = [own EXCEPT !["msg"] = @ \ gone]
    BY DEF Withdraw
  <1>3. PICK order \in SetToSeqs(S) : net' = net \o order
    BY DEF Withdraw
  <1>4. own' \in [Kinds -> SUBSET Owns]
    <2> HIDE DEF gone
    <2> QED
      BY <1>1, <1>2
  <1>5. own'["msg"] = {e \in own["msg"] : e.topic \notin names}
    <2>1. own'["msg"] = own["msg"] \ gone
      <3> HIDE DEF gone
      <3> QED
        BY <1>1, <1>2
    <2> QED
      BY <2>1
  <1>6. ASSUME NEW k \in Kinds PROVE IsFiniteSet(own'[k])
    <2>1. own'[k] \subseteq own[k]
      <3> HIDE DEF gone
      <3> QED
        BY <1>1, <1>2
    <2> QED
      BY <1>1, <2>1, FS_Subset
  <1>7. IsFiniteSet(S)
    <2>1. IsFiniteSet(told)
      <3>1. told \subseteq own["msg"]
        OBVIOUS
      <3> QED
        BY <1>1, <3>1, FS_Subset
    <2> HIDE DEF told
    <2> DEFINE g == [e \in told |-> AdvDatagram(UnadvType, e.topic, e.scope)]
    <2>2. g \in Surjection(told, S)
      BY DEF Surjection
    <2> HIDE DEF g, S
    <2> QED
      BY <2>1, <2>2, FS_Surjection
  <1>8. S \subseteq Datagrams
    <2> SUFFICES ASSUME NEW e \in own["msg"]
                 PROVE  AdvDatagram(UnadvType, e.topic, e.scope) \in Datagrams
      OBVIOUS
    <2>1. e.topic \in NodeNames /\ e.scope \in Reach
      BY <1>1 DEF Owns
    <2> QED
      BY <2>1 DEF Datagrams
  <1>9. /\ order \in Seq(S)
        /\ \A x \in S : \E i \in 1..Len(order) : order[i] = x
    <2> HIDE DEF S
    <2> QED
      BY <1>7, Orders
  <1>10. order \in Seq(Datagrams)
    <2> HIDE DEF S
    <2> QED
      BY <1>8, <1>9
  <1>11. ASSUME NEW n \in Accounted, n \notin Accounted'
         PROVE  \E j \in 1..Len(order) : Retracts(order[j], n)
    <2>1. PICK e \in own["msg"] : e.topic = n /\ ~Ignored(e.scope)
      BY <1>11 DEF Accounted
    <2>2. e \notin own'["msg"]
      BY <1>11, <2>1 DEF Accounted
    <2>3. e \in told
      BY <1>5, <2>1, <2>2 DEF Ignored
    <2>4. PICK j \in 1..Len(order) : order[j] = AdvDatagram(UnadvType, e.topic, e.scope)
      <3>1. AdvDatagram(UnadvType, e.topic, e.scope) \in S
        BY <2>3
      <3> HIDE DEF S
      <3> QED
        BY <1>9, <3>1
    <2>5. Retracts(order[j], n)
      BY <2>1, <2>4, AdvFields DEF Retracts
    <2> QED
      BY <2>5
  <1>12. ASSUME NEW i \in 1..Len(order) PROVE ~Announces(order[i])
    <2>1. order[i] \in S
      <3> HIDE DEF S
      <3> QED
        BY <1>9
    <2>2. PICK e \in told : order[i] = AdvDatagram(UnadvType, e.topic, e.scope)
      BY <2>1
    <2>3. order[i].msg.header.type = UnadvType
      BY <2>2, AdvFields
    <2> QED
      BY <2>3, TypesDiffer DEF Announces
  <1> QED
    BY <1>3, <1>4, <1>5, <1>6, <1>10, <1>11, <1>12

\* A valid topic has a name.
LEMMA NameFound ==
    ASSUME NEW t \in Topics, IsValidTopic(t)
    PROVE  Name(node, t) \in NodeNames
  BY DEF NodeNames, ValidTopics

\* The names that ~Node finds again are all of them.
LEMMA AllFound ==
    ASSUME Sound, NEW k \in Kinds
    PROVE  FoundAgain(k) = advertised[k]
  <1>1. ASSUME NEW n \in advertised[k]
        PROVE  IsValidTopic(Strip(n)) /\ Name(node, Strip(n)) = n
    <2>1. n \in NodeNames
      BY DEF Sound
    <2>2. PICK t \in ValidTopics : n = Name(node, t)
      BY <2>1 DEF NodeNames
    <2>3. t \in Bytes /\ IsValidTopic(t) /\ Proper(node)
      BY TopicsAre DEF Sound, Named
    <2> QED
      BY <2>2, <2>3, Again
  <1> QED
    BY <1>1 DEF FoundAgain

\* Sound holds after a step that keeps the nodes and the types.
LEMMA StillSound ==
    ASSUME Sound, node' = node, peer' = peer,
           status' \in {"alive", "destroyed", "ended"},
           advertised' \in [Kinds -> SUBSET NodeNames],
           own' \in [Kinds -> SUBSET Owns], \A k \in Kinds : IsFiniteSet(own'[k]),
           heard' \in [Kinds -> SUBSET Entries], net' \in Seq(Datagrams),
           widened' \subseteq NodeNames
    PROVE  Sound'
  <1>1. NodeNames' = NodeNames /\ Datagrams' = Datagrams /\ Entries' = Entries
    BY SameNames
  <1> QED
    BY <1>1 DEF Sound, Owns

\* A step that only puts a datagram into the network.
LEMMA Said ==
    ASSUME Followed, NEW d \in Datagrams, net' = Append(net, d), ~Announces(d),
           UNCHANGED <<node, peer, advertised, own, heard, widened>>
    PROVE  net' \in Seq(Datagrams) /\ HeardFollowed' /\ AnnouncedFollowed'
  <1> DEFINE order == <<d>>
  <1>1. order \in Seq(Datagrams) /\ Len(order) = 1 /\ order[1] = d
    OBVIOUS
  <1>2. net' = net \o order
    BY DEF Followed, Sound
  <1>3. Accounted' = Accounted
    BY DEF Accounted
  <1>4. \A i \in 1..Len(order) : ~Announces(order[i])
    BY <1>1
  <1> HIDE DEF order
  <1> QED
    BY <1>1, <1>2, <1>3, <1>4, Extended

\* Discover keeps Followed.
LEMMA DiscoverStep ==
    ASSUME Followed, NEW k \in Kinds, NEW t \in Topics, Discover(k, t)
    PROVE  Followed'
  <1>1. PICK type \in SubTypes : net' = Append(net, SubDatagram(type, Name(node, t)))
    BY DEF Discover, SubTypes
  <1>2. /\ IsValidTopic(t) /\ status = "alive"
        /\ UNCHANGED <<node, peer, status, advertised, own, heard, widened>>
    BY DEF Discover
  <1> DEFINE d == SubDatagram(type, Name(node, t))
  <1>3. d \in Datagrams
    BY <1>2, NameFound DEF Datagrams
  <1>4. ~Announces(d)
    <2>1. d.msg.header.type = type
      BY DEF SubDatagram, HeaderOf
    <2> QED
      BY <2>1, TypesDiffer DEF Announces
  <1>5. net' = Append(net, d)
    BY <1>1
  <1> HIDE DEF d
  <1>6. net' \in Seq(Datagrams) /\ HeardFollowed' /\ AnnouncedFollowed'
    BY <1>2, <1>3, <1>4, <1>5, Said
  <1>7. Sound'
    BY <1>2, <1>6, StillSound DEF Followed, Sound, Owns
  <1>8. OwnAdvertised' /\ GoneSilent'
    BY <1>2 DEF Followed, OwnAdvertised, GoneSilent
  <1> QED
    BY <1>6, <1>7, <1>8 DEF Followed

\* So does the heartbeat,
LEMMA HeartbeatStep ==
    ASSUME Followed, Heartbeat
    PROVE  Followed'
  <1>1. /\ net' = Append(net, PlainDatagram(HeartbeatType)) /\ status # "ended"
        /\ UNCHANGED <<node, peer, status, advertised, own, heard, widened>>
    BY DEF Heartbeat
  <1>2. PlainDatagram(HeartbeatType) \in Datagrams
    BY DEF Datagrams
  <1>3. ~Announces(PlainDatagram(HeartbeatType))
    <2>1. PlainDatagram(HeartbeatType).msg.header.type = HeartbeatType
      BY DEF PlainDatagram, HeaderOf
    <2> QED
      BY <2>1, TypesDiffer DEF Announces
  <1>4. net' \in Seq(Datagrams) /\ HeardFollowed' /\ AnnouncedFollowed'
    BY <1>1, <1>2, <1>3, Said
  <1>5. Sound'
    BY <1>1, <1>4, StillSound DEF Followed, Sound, Owns
  <1>6. OwnAdvertised' /\ GoneSilent'
    BY <1>1 DEF Followed, OwnAdvertised, GoneSilent
  <1> QED
    BY <1>4, <1>5, <1>6 DEF Followed

\* so does Advertise: what it announces it offers, or announces wider than its
\* entry,
LEMMA AdvertiseStep ==
    ASSUME Followed, NEW k \in Kinds, NEW t \in Topics, NEW s \in Scopes,
           Advertise(k, t, s)
    PROVE  Followed'
  <1> DEFINE name == Name(node, t)
             type == IF k = "msg" THEN AdvType ELSE AdvSrvType
             d == AdvDatagram(type, name, s)
             e == [topic |-> name, scope |-> s]
             order == IF s = Process THEN <<>> ELSE <<d>>
             again == {f.topic : f \in {g \in own["msg"] : g.topic = name
                                                        /\ Ignored(g.scope)}}
  <1>1. /\ IsValidTopic(t) /\ status = "alive"
        /\ advertised' = [advertised EXCEPT ![k] = @ \cup {name}]
        /\ own' = IF \E f \in own[k] : f.topic = name THEN own
                  ELSE [own EXCEPT ![k] = @ \cup {e}]
        /\ net' = IF s = Process THEN net ELSE Append(net, d)
        /\ widened' = IF k = "msg" /\ ~Ignored(s) THEN widened \cup again
                      ELSE widened
        /\ UNCHANGED <<node, peer, status, heard>>
    BY DEF Advertise
  <1>2. name \in NodeNames /\ s \in Reach
    BY <1>1, NameFound, WireAssumption DEF Reach
  <1>3. d \in Datagrams
    BY <1>2 DEF Datagrams
  <1>4. e \in Owns /\ e.topic = name /\ e.scope = s
    BY <1>2 DEF Owns
  <1>5. d.msg.header.type = type /\ d.msg.topic = name /\ d.msg.scope = s
    BY AdvFields
  <1>6. /\ own \in [Kinds -> SUBSET Owns] /\ advertised \in [Kinds -> SUBSET NodeNames]
        /\ \A l \in Kinds : IsFiniteSet(own[l])
        /\ net \in Seq(Datagrams) /\ heard \in [Kinds -> SUBSET Entries]
        /\ "msg" \in Kinds
    BY DEF Followed, Sound, Owns, Kinds
  <1>7. type = AdvType <=> k = "msg"
    BY TypesDiffer
  <1> HIDE DEF name, d, e, type, again
  <1>8. /\ own' \in [Kinds -> SUBSET Owns]
        /\ advertised' \in [Kinds -> SUBSET NodeNames]
    BY <1>1, <1>2, <1>4, <1>6
  <1>9. ASSUME NEW l \in Kinds PROVE IsFiniteSet(own'[l])
    <2>1. own'[l] = own[l] \/ own'[l] = own[l] \cup {e}
      BY <1>1, <1>6
    <2>2. IsFiniteSet(own[l])
      BY <1>6
    <2>3. IsFiniteSet(own[l] \cup {e})
      BY <2>2, FS_AddElement
    <2> QED
      BY <2>1, <2>2, <2>3
  <1>10. /\ \A f \in own["msg"] : f \in own'["msg"]
         /\ \A f \in own'["msg"] : f \in own["msg"] \/ (k = "msg" /\ f = e)
         /\ k = "msg" /\ ~(\E f \in own["msg"] : f.topic = name) => e \in own'["msg"]
    BY <1>1, <1>6
  <1>11. /\ order \in Seq(Datagrams) /\ net' = net \o order
         /\ \A i \in 1..Len(order) : order[i] = d
    <2>1. CASE s = Process
      BY <1>1, <1>6, <2>1
    <2>2. CASE s # Process
      BY <1>1, <1>3, <1>6, <2>2
    <2> QED
      BY <2>1, <2>2
  <1> HIDE DEF order
  <1>12. \A n \in Accounted : n \in Accounted'
    <2>1. widened \subseteq widened'
      BY <1>1
    <2> QED
      BY <1>10, <2>1 DEF Accounted
  <1>13. Announces(d) => d.msg.topic \in Accounted'
    <2> SUFFICES ASSUME Announces(d) PROVE name \in Accounted'
      BY <1>5
    <2>1. k = "msg" /\ ~Ignored(s)
      BY <1>5, <1>7 DEF Announces
    <2>2. CASE \E f \in own["msg"] : f.topic = name
      <3>1. PICK f \in own["msg"] : f.topic = name
        BY <2>2
      <3>2. CASE Ignored(f.scope)
        <4>1. name \in again
          BY <3>1, <3>2 DEF again
        <4>2. widened' = widened \cup again
          BY <1>1, <2>1
        <4> QED
          BY <4>1, <4>2 DEF Accounted
      <3>3. CASE ~Ignored(f.scope)
        BY <1>10, <3>1, <3>3 DEF Accounted
      <3> QED
        BY <3>2, <3>3
    <2>3. CASE ~(\E f \in own["msg"] : f.topic = name)
      BY <1>4, <1>10, <2>1, <2>3 DEF Accounted
    <2> QED
      BY <2>2, <2>3
  <1>14. net' \in Seq(Datagrams) /\ HeardFollowed' /\ AnnouncedFollowed'
    BY <1>1, <1>11, <1>12, <1>13, Extended
  <1>15. Sound'
    <2>1. again \subseteq NodeNames /\ widened \subseteq NodeNames
      BY <1>2 DEF Followed, Sound, again
    <2>2. widened' \subseteq NodeNames
      BY <1>1, <2>1
    <2> QED
      BY <1>1, <1>6, <1>8, <1>9, <1>14, <2>2, StillSound DEF Followed, Sound
  <1>16. OwnAdvertised'
    <2>1. \A n \in advertised["msg"] : n \in advertised'["msg"]
      BY <1>1, <1>6
    <2>2. k = "msg" => name \in advertised'["msg"]
      BY <1>1, <1>6
    <2> QED
      BY <1>4, <1>10, <2>1, <2>2 DEF Followed, OwnAdvertised
  <1>17. GoneSilent'
    BY <1>1 DEF GoneSilent
  <1> QED
    BY <1>14, <1>15, <1>16, <1>17 DEF Followed

\* so do Unadvertise and UnadvertiseSrv,
LEMMA UnadvertiseStep ==
    ASSUME Followed, NEW k \in Kinds, NEW t \in Topics, Unadvertise(k, t)
    PROVE  Followed'
  <1> DEFINE name == Name(node, t)
  <1>1. /\ status = "alive"
        /\ advertised' = [advertised EXCEPT ![k] = @ \ {name}]
        /\ Withdraw({name})
        /\ UNCHANGED <<node, peer, status, heard, widened>>
    BY DEF Unadvertise
  <1> HIDE DEF name
  <1>2. advertised \in [Kinds -> SUBSET NodeNames] /\ "msg" \in Kinds
    BY DEF Followed, Sound, Kinds
  <1>3. /\ own' \in [Kinds -> SUBSET Owns]
        /\ \A l \in Kinds : IsFiniteSet(own'[l])
        /\ own'["msg"] = {e \in own["msg"] : e.topic \notin {name}}
    BY <1>1, Withdrawn
  <1>4. PICK order \in Seq(Datagrams) :
           /\ net' = net \o order
           /\ \A n \in Accounted : \/ n \in Accounted'
                                   \/ \E j \in 1..Len(order) : Retracts(order[j], n)
           /\ \A i \in 1..Len(order) : ~Announces(order[i])
    BY <1>1, Withdrawn
  <1>5. net' \in Seq(Datagrams) /\ HeardFollowed' /\ AnnouncedFollowed'
    BY <1>1, <1>4, Extended
  <1>6. advertised' \in [Kinds -> SUBSET NodeNames]
    BY <1>1, <1>2
  <1>7. Sound'
    BY <1>1, <1>3, <1>5, <1>6, StillSound DEF Followed, Sound
  <1>8. OwnAdvertised'
    <2>1. \A n \in advertised["msg"] : n # name => n \in advertised'["msg"]
      BY <1>1, <1>2
    <2> QED
      BY <1>3, <2>1 DEF Followed, OwnAdvertised
  <1>9. GoneSilent'
    BY <1>1 DEF GoneSilent
  <1> QED
    BY <1>5, <1>7, <1>8, <1>9 DEF Followed

\* so does ~Node, which finds all of its names again,
LEMMA DestroyStep ==
    ASSUME Followed, Destroy
    PROVE  Followed'
  <1> DEFINE names == FoundAgain("msg") \cup FoundAgain("srv")
  <1>1. /\ status = "alive" /\ status' = "destroyed"
        /\ advertised' = [k \in Kinds |-> advertised[k] \ FoundAgain(k)]
        /\ Withdraw(names)
        /\ UNCHANGED <<node, peer, heard, widened>>
    BY DEF Destroy
  <1>2. advertised \in [Kinds -> SUBSET NodeNames] /\ "msg" \in Kinds
    BY DEF Followed, Sound, Kinds
  <1>3. advertised["msg"] \subseteq names
    BY <1>2, AllFound DEF Followed
  <1> HIDE DEF names
  <1>4. /\ own' \in [Kinds -> SUBSET Owns]
        /\ \A l \in Kinds : IsFiniteSet(own'[l])
        /\ own'["msg"] = {e \in own["msg"] : e.topic \notin names}
    BY <1>1, Withdrawn
  <1>5. PICK order \in Seq(Datagrams) :
           /\ net' = net \o order
           /\ \A n \in Accounted : \/ n \in Accounted'
                                   \/ \E j \in 1..Len(order) : Retracts(order[j], n)
           /\ \A i \in 1..Len(order) : ~Announces(order[i])
    BY <1>1, Withdrawn
  <1>6. net' \in Seq(Datagrams) /\ HeardFollowed' /\ AnnouncedFollowed'
    BY <1>1, <1>5, Extended
  <1>7. \A k \in Kinds : advertised'[k] = {}
    BY <1>1, AllFound DEF Followed
  <1>8. advertised' \in [Kinds -> SUBSET NodeNames]
    BY <1>1, <1>7
  <1>9. Sound'
    BY <1>1, <1>4, <1>6, <1>8, StillSound DEF Followed, Sound
  <1>10. OwnAdvertised'
    BY <1>3, <1>4 DEF Followed, OwnAdvertised
  <1>11. GoneSilent'
    BY <1>1, <1>7 DEF GoneSilent
  <1> QED
    BY <1>6, <1>9, <1>10, <1>11 DEF Followed

\* and so does ~Discovery, when the node offers nothing any more.
LEMMA EndStep ==
    ASSUME Followed, End
    PROVE  Followed'
  <1> DEFINE d == PlainDatagram(ByeType)
             order == <<d>>
  <1>1. /\ status = "destroyed" /\ status' = "ended"
        /\ own' = [k \in Kinds |-> {}]
        /\ net' = Append(net, d)
        /\ UNCHANGED <<node, peer, advertised, heard, widened>>
    BY DEF End
  <1>2. /\ d \in Datagrams /\ d.msg.header.type = ByeType
        /\ "msg" \in Kinds
    BY DEF Datagrams, PlainDatagram, HeaderOf, Kinds
  <1>3. net \in Seq(Datagrams) /\ heard \in [Kinds -> SUBSET Entries]
        /\ advertised \in [Kinds -> SUBSET NodeNames]
    BY DEF Followed, Sound
  <1>4. own["msg"] = {}
    BY <1>1, <1>2 DEF Followed, OwnAdvertised, GoneSilent
  <1>5. ~Announces(d)
    BY <1>2, TypesDiffer DEF Announces
  <1> HIDE DEF d
  <1>6. /\ order \in Seq(Datagrams) /\ net' = net \o order
        /\ \A i \in 1..Len(order) : ~Announces(order[i])
        /\ net' # <<>> /\ net'[Len(net')] = d
    <2>1. order \in Seq(Datagrams) /\ Len(order) = 1 /\ order[1] = d
      BY <1>2
    <2>2. net' = net \o order
      BY <1>1, <1>3
    <2>3. Len(net') = Len(net) + 1 /\ net'[Len(net) + 1] = d /\ Len(net) \in Nat
      BY <1>1, <1>3
    <2> HIDE DEF order
    <2> QED
      BY <1>5, <2>1, <2>2, <2>3
  <1> HIDE DEF order
  <1>7. \A n \in Accounted : n \in Accounted'
    BY <1>1, <1>4 DEF Accounted
  <1>8. net' \in Seq(Datagrams) /\ HeardFollowed' /\ AnnouncedFollowed'
    BY <1>1, <1>6, <1>7, Extended
  <1>9. own' \in [Kinds -> SUBSET Owns] /\ \A k \in Kinds : IsFiniteSet(own'[k])
    BY <1>1, FS_EmptySet
  <1>10. Sound'
    BY <1>1, <1>3, <1>8, <1>9, StillSound DEF Followed, Sound
  <1>11. OwnAdvertised'
    BY <1>1, <1>2 DEF OwnAdvertised
  <1>12. GoneSilent'
    BY <1>1, <1>6 DEF Followed, GoneSilent, d
  <1> QED
    BY <1>8, <1>10, <1>11, <1>12 DEF Followed

\* What the receiver knows after a datagram.
LEMMA AppliedIs ==
    ASSUME Sound, NEW d \in Datagrams
    PROVE  /\ Applied(d.msg) \in [Kinds -> SUBSET Entries]
           /\ \A f \in Applied(d.msg)["msg"] :
                 /\ ~Retracts(d, f.topic)
                 /\ f \in heard["msg"] \/ (Announces(d) /\ f.topic = d.msg.topic)
           /\ d = PlainDatagram(ByeType) => Applied(d.msg) = [k \in Kinds |-> {}]
  <1>1. heard \in [Kinds -> SUBSET Entries] /\ "msg" \in Kinds
    BY DEF Sound, Kinds
  <1>2. ASSUME NEW type \in AdvTypesSent, NEW n \in NodeNames, NEW s \in Reach,
               d = AdvDatagram(type, n, s)
        PROVE  /\ Applied(d.msg) \in [Kinds -> SUBSET Entries]
               /\ \A f \in Applied(d.msg)["msg"] :
                     /\ ~Retracts(d, f.topic)
                     /\ f \in heard["msg"] \/ (Announces(d) /\ f.topic = d.msg.topic)
               /\ d # PlainDatagram(ByeType)
    <2>1. d.msg.header.type = type /\ d.msg.topic = n /\ d.msg.scope = s
      BY <1>2, AdvFields
    <2>2. PlainDatagram(ByeType).msg.header.type = ByeType
      BY DEF PlainDatagram, HeaderOf
    <2>3. type # ByeType
      BY TypesDiffer DEF AdvTypesSent
    <2>4. PICK h : h = Applied(d.msg)
      OBVIOUS
    <2>5. /\ h \in [Kinds -> SUBSET Entries]
          /\ type = UnadvType /\ ~Ignored(s) =>
                \A f \in h["msg"] : f.topic # n /\ f \in heard["msg"]
          /\ type # UnadvType \/ Ignored(s) =>
                \A f \in h["msg"] : \/ f \in heard["msg"]
                                    \/ /\ type = AdvType /\ ~Ignored(s)
                                       /\ f.topic = n
      BY <1>2, <2>4, AppliedAdvert
    <2>6. CASE type = UnadvType /\ ~Ignored(s)
      BY <2>1, <2>2, <2>3, <2>4, <2>5, <2>6 DEF Retracts
    <2>7. CASE type # UnadvType \/ Ignored(s)
      BY <2>1, <2>2, <2>3, <2>4, <2>5, <2>7 DEF Retracts, Announces
    <2> QED
      BY <2>6, <2>7
  <1>3. ASSUME NEW type \in SubTypes, NEW n \in NodeNames, d = SubDatagram(type, n)
        PROVE  /\ Applied(d.msg) = heard
               /\ \A t : ~Retracts(d, t)
               /\ d # PlainDatagram(ByeType)
    <2>1. d.msg.header.type = type
      BY <1>3 DEF SubDatagram, HeaderOf
    <2>2. PlainDatagram(ByeType).msg.header.type = ByeType
      BY DEF PlainDatagram, HeaderOf
    <2> QED
      BY <1>3, <2>1, <2>2, AppliedOther, TypesDiffer DEF Retracts
  <1>4. ASSUME NEW type \in {HeartbeatType, ByeType}, d = PlainDatagram(type)
        PROVE  /\ Applied(d.msg) = IF type = ByeType THEN [k \in Kinds |-> {}] ELSE heard
               /\ \A t : ~Retracts(d, t)
               /\ d.msg.header.type = type
    <2>1. d.msg.header.type = type
      BY <1>4 DEF PlainDatagram, HeaderOf
    <2> QED
      BY <1>4, <2>1, AppliedOther, TypesDiffer DEF Retracts
  <1>5. CASE \E type \in AdvTypesSent, n \in NodeNames, s \in Reach :
                d = AdvDatagram(type, n, s)
    BY <1>2, <1>5
  <1>6. CASE \E type \in SubTypes, n \in NodeNames : d = SubDatagram(type, n)
    BY <1>1, <1>3, <1>6
  <1>7. CASE \E type \in {HeartbeatType, ByeType} : d = PlainDatagram(type)
    <2>1. PICK type \in {HeartbeatType, ByeType} : d = PlainDatagram(type)
      BY <1>7
    <2>2. CASE type = ByeType
      <3>1. Applied(d.msg) = [k \in Kinds |-> {}]
        BY <1>4, <2>1, <2>2
      <3> QED
        BY <1>1, <3>1
    <2>3. CASE type # ByeType
      <3>1. Applied(d.msg) = heard /\ \A t : ~Retracts(d, t)
        BY <1>4, <2>1, <2>3
      <3>2. d # PlainDatagram(ByeType)
        <4>1. PlainDatagram(ByeType).msg.header.type = ByeType
          BY DEF PlainDatagram, HeaderOf
        <4> QED
          BY <1>4, <2>1, <2>3, <4>1
      <3> QED
        BY <1>1, <3>1, <3>2
    <2> QED
      BY <2>2, <2>3
  <1> QED
    BY <1>5, <1>6, <1>7 DEF Datagrams, AdvTypesSent

\* RecvDiscoveryUpdate keeps Followed: the later datagram that retracts an entry
\* is still in the network, or was the one that was read.
LEMMA RecvStep ==
    ASSUME Followed, RecvDiscoveryUpdate
    PROVE  Followed'
  <1>1. /\ net # <<>> /\ net' = Tail(net)
        /\ heard' = Applied(Unpacked(Head(net).data))
        /\ UNCHANGED <<node, peer, status, advertised, own, widened>>
    BY DEF RecvDiscoveryUpdate
  <1>2. Sound /\ net \in Seq(Datagrams)
    BY DEF Followed, Sound
  <1>3. PICK d \in Datagrams : d = Head(net) /\ d = net[1]
    BY <1>1, <1>2
  <1>4. Unpacked(d.data) = d.msg
    BY <1>2, DatagramFits DEF Intact, Sound
  <1>5. heard' = Applied(d.msg)
    BY <1>1, <1>3, <1>4
  <1>6. /\ heard' \in [Kinds -> SUBSET Entries]
        /\ \A f \in heard'["msg"] :
              /\ ~Retracts(d, f.topic)
              /\ f \in heard["msg"] \/ (Announces(d) /\ f.topic = d.msg.topic)
        /\ d = PlainDatagram(ByeType) => heard' = [k \in Kinds |-> {}]
    BY <1>2, <1>5, AppliedIs
  <1>7. /\ Len(net) \in Nat /\ Len(net) > 0 /\ Len(net') = Len(net) - 1
        /\ \A i \in 1..Len(net') : net'[i] = net[i + 1]
        /\ net' \in Seq(Datagrams)
    BY <1>1, <1>2
  <1>8. Accounted' = Accounted
    BY <1>1 DEF Accounted
  <1>9. ASSUME NEW n, NEW j \in 1..Len(net), j > 1, Retracts(net[j], n)
        PROVE  j - 1 \in 1..Len(net') /\ Retracts(net'[j - 1], n)
    <2>1. j - 1 \in 1..Len(net') /\ (j - 1) + 1 = j
      BY <1>7, <1>9
    <2>2. net'[j - 1] = net[j]
      BY <1>7, <2>1
    <2> QED
      BY <1>9, <2>1, <2>2
  <1>10. Sound'
    BY <1>1, <1>6, <1>7, StillSound DEF Followed, Sound, Owns
  <1>11. HeardFollowed'
    <2> SUFFICES ASSUME NEW f \in heard'["msg"], f.topic \notin Accounted
                 PROVE  \E j \in 1..Len(net') : Retracts(net'[j], f.topic)
      BY <1>8 DEF HeardFollowed
    <2>1. ~Retracts(net[1], f.topic)
      BY <1>3, <1>6
    <2>2. \E j \in 1..Len(net) : Retracts(net[j], f.topic)
      <3>1. CASE f \in heard["msg"]
        BY <3>1 DEF Followed, HeardFollowed
      <3>2. CASE Announces(d) /\ f.topic = d.msg.topic
        <4>1. 1 \in 1..Len(net)
          BY <1>7
        <4> QED
          BY <1>3, <3>2, <4>1 DEF Followed, AnnouncedFollowed
      <3> QED
        BY <1>6, <3>1, <3>2
    <2>3. PICK j \in 1..Len(net) : Retracts(net[j], f.topic)
      BY <2>2
    <2>4. j > 1
      BY <2>1, <2>3
    <2> QED
      BY <1>9, <2>3, <2>4
  <1>12. AnnouncedFollowed'
    <2> SUFFICES ASSUME NEW i \in 1..Len(net'), Announces(net'[i]),
                        net'[i].msg.topic \notin Accounted
                 PROVE  \E j \in 1..Len(net') : j > i
                           /\ Retracts(net'[j], net'[i].msg.topic)
      BY <1>8 DEF AnnouncedFollowed
    <2>1. i + 1 \in 1..Len(net) /\ net'[i] = net[i + 1]
      BY <1>7
    <2>2. PICK j \in 1..Len(net) : j > i + 1 /\ Retracts(net[j], net[i + 1].msg.topic)
      BY <2>1 DEF Followed, AnnouncedFollowed
    <2>3. j > 1 /\ j - 1 > i
      BY <2>2
    <2>4. j - 1 \in 1..Len(net') /\ Retracts(net'[j - 1], net[i + 1].msg.topic)
      BY <1>9, <2>2, <2>3
    <2> QED
      BY <2>1, <2>3, <2>4
  <1>13. OwnAdvertised'
    BY <1>1 DEF Followed, OwnAdvertised
  <1>14. GoneSilent'
    <2>1. status' # "alive" => \A k \in Kinds : advertised'[k] = {}
      BY <1>1 DEF Followed, GoneSilent
    <2>2. ASSUME status' = "ended"
          PROVE  IF net' = <<>> THEN \A k \in Kinds : heard'[k] = {}
                 ELSE net'[Len(net')] = PlainDatagram(ByeType)
      <3>1. net[Len(net)] = PlainDatagram(ByeType)
        BY <1>1, <2>2 DEF Followed, GoneSilent
      <3>2. CASE Len(net) = 1
        <4>1. d = PlainDatagram(ByeType)
          BY <1>3, <3>1, <3>2
        <4>2. net' = <<>>
          BY <1>7, <3>2
        <4> QED
          BY <1>6, <4>1, <4>2
      <3>3. CASE Len(net) # 1
        <4>1. /\ Len(net') \in 1..Len(net') /\ Len(net') + 1 = Len(net)
              /\ Len(net') > 0
          BY <1>7, <3>3
        <4>2. net'[Len(net')] = net[Len(net)]
          BY <1>7, <4>1
        <4>3. net' # <<>>
          BY <4>1
        <4> QED
          BY <3>1, <4>2, <4>3
      <3> QED
        BY <3>2, <3>3
    <2> QED
      BY <2>1, <2>2 DEF GoneSilent
  <1> QED
    BY <1>10, <1>11, <1>12, <1>13, <1>14 DEF Followed

\* Followed is inductive: it holds at first,
LEMMA InitFollowed == Init => Followed
  <1> SUFFICES ASSUME Init PROVE Followed
    OBVIOUS
  <1>1. Named(node) /\ Named(peer)
    BY ConstructedNamed DEF Init
  <1>2. "msg" \in Kinds
    BY DEF Kinds
  <1>3. Sound
    BY <1>1, FS_EmptySet DEF Init, Sound
  <1>4. own["msg"] = {} /\ heard["msg"] = {} /\ net = <<>> /\ status = "alive"
    BY <1>2 DEF Init
  <1>5. 1..Len(net) = {}
    BY <1>4
  <1> QED
    BY <1>3, <1>4, <1>5 DEF Followed, OwnAdvertised, HeardFollowed, AnnouncedFollowed,
                           GoneSilent

\* and every step keeps it.
LEMMA NextFollowed == Followed /\ [Next]_vars => Followed'
  <1> SUFFICES ASSUME Followed, [Next]_vars PROVE Followed'
    OBVIOUS
  <1>1. CASE RecvDiscoveryUpdate
    BY <1>1, RecvStep
  <1>2. ASSUME NEW k \in Kinds, NEW t \in Topics, Unadvertise(k, t) PROVE Followed'
    BY <1>2, UnadvertiseStep
  <1>3. ASSUME NEW k \in Kinds, NEW t \in Topics, Discover(k, t) PROVE Followed'
    BY <1>3, DiscoverStep
  <1>4. ASSUME NEW k \in Kinds, NEW t \in Topics, NEW s \in Scopes, Advertise(k, t, s)
        PROVE  Followed'
    BY <1>4, AdvertiseStep
  <1>5. CASE Destroy
    BY <1>5, DestroyStep
  <1>6. CASE Heartbeat
    BY <1>6, HeartbeatStep
  <1>7. CASE End
    BY <1>7, EndStep
  <1>8. CASE UNCHANGED vars
    BY <1>8 DEF vars, Followed, Sound, OwnAdvertised, HeardFollowed, AnnouncedFollowed,
                GoneSilent, Accounted, Datagrams, NodeNames, Entries
  <1> QED
    BY <1>1, <1>2, <1>3, <1>4, <1>5, <1>6, <1>7, <1>8 DEF Next

---------------------------------------------------------------------------
\* The theorems.

\* Names of two nodes and of the tables, from Sound alone.
LEMMA SoundNames ==
    ASSUME Sound
    PROVE  /\ NamesMeet
           /\ PartitionsApart
           /\ ListsLeadBack
  <1>1. Proper(node) /\ Proper(peer)
    BY DEF Sound, Named
  <1>2. NamesMeet
    <2> SUFFICES ASSUME NEW t \in ValidTopics, NEW u \in ValidTopics
                 PROVE  Name(node, t) = Name(peer, u) <=>
                           /\ Trimmed(node.partition) = Trimmed(peer.partition)
                           /\ Path(node, t) = Path(peer, u)
      BY DEF NamesMeet
    <2> QED
      BY <1>1, TopicsAre, NamesEqual
  <1>3. PartitionsApart
    <2> SUFFICES ASSUME NEW n \in advertised["msg"], NEW u \in ValidTopics,
                        IsPrefix(Name(peer, u), n)
                 PROVE  Trimmed(node.partition) = Trimmed(peer.partition)
      BY DEF PartitionsApart
    <2>1. PICK t \in ValidTopics : n = Name(node, t)
      BY DEF Sound, Kinds, NodeNames
    <2> QED
      BY <1>1, <2>1, TopicsAre, NamesBegin
  <1>4. ListsLeadBack
    <2> SUFFICES ASSUME NEW k \in Kinds
                 PROVE  /\ \A t \in Listed(k) : IsValidTopic(t) /\ Name(peer, t) \in Known(k)
                        /\ Trimmed(node.partition) = peer.partition =>
                              \A n \in Known(k) : \E t \in Listed(k) : Name(peer, t) = n
      BY DEF ListsLeadBack
    <2>1. Listed(k) = {Strip(n) : n \in {m \in Known(k) : PartitionOf(m) = peer.partition}}
      BY DEF Listed, GetTopicList
    <2>2. ASSUME NEW n \in Known(k)
          PROVE  PartitionOf(n) = Trimmed(node.partition)
      <3>1. n \in NodeNames
        BY DEF Known, Sound, Entries
      <3>2. PICK t \in ValidTopics : n = Name(node, t)
        BY <3>1 DEF NodeNames
      <3> QED
        BY <1>1, <3>2, TopicsAre, NameSplit
    <2>3. ASSUME NEW n \in Known(k), PartitionOf(n) = peer.partition
          PROVE  IsValidTopic(Strip(n)) /\ Name(peer, Strip(n)) = n
      <3>1. n \in NodeNames
        BY DEF Known, Sound, Entries
      <3>2. PICK t \in ValidTopics : n = Name(node, t)
        BY <3>1 DEF NodeNames
      <3>3. t \in Bytes /\ IsValidTopic(t)
        BY TopicsAre
      <3>4. Trimmed(node.partition) = peer.partition
        BY <2>2, <2>3
      <3> QED
        BY <1>1, <3>2, <3>3, <3>4, ListedAgain
    <2> QED
      BY <2>1, <2>2, <2>3
  <1> QED
    BY <1>2, <1>3, <1>4

\* Everything heard or announced is still offered or about to be retracted.
THEOREM FollowedInvariant == Spec => []Followed
  BY InitFollowed, NextFollowed, PTL DEF Spec

\* Every variable has its type.
THEOREM TypeCorrect == Spec => []TypeOK
  <1>1. Followed => TypeOK
    BY SoundSays DEF Followed
  <1> QED
    BY <1>1, FollowedInvariant, PTL

\* Every datagram fills its buffer exactly and is read back as what was put in
\* (GetMsgLength, Pack and Unpack of each message class, Discovery::SendMsg).
THEOREM Intactness == Spec => []DatagramsIntact
  <1>1. Followed => DatagramsIntact
    BY SoundSays DEF Followed
  <1> QED
    BY <1>1, FollowedInvariant, PTL

\* Two nodes meet on a topic exactly when partition and path are the same
\* (TopicUtils::GetFullyQualifiedName).
THEOREM NamesCorrect == Spec => []NamesMeet
  <1>1. Followed => NamesMeet
    BY SoundNames DEF Followed
  <1> QED
    BY <1>1, FollowedInvariant, PTL

\* No subscription filter lets topics of another partition through
\* (GetFullyQualifiedName, AddFilter).
THEOREM PartitionsSeparate == Spec => []PartitionsApart
  <1>1. Followed => PartitionsApart
    BY SoundNames DEF Followed
  <1> QED
    BY <1>1, FollowedInvariant, PTL

\* What a node lists leads back to what discovery knows, in the node's own
\* partition, whatever the other node's namespace is (Node::GetTopicList).
THEOREM ListsCorrect == Spec => []ListsLeadBack
  <1>1. Followed => ListsLeadBack
    BY SoundNames DEF Followed
  <1> QED
    BY <1>1, FollowedInvariant, PTL

\* A topic that others know is in its node's own table or was announced wider
\* than its entry; a destroyed node has none, and nothing outlives the process
\* (Discovery::Advertise, Unadvertise, UnadvertiseSrv, ~Node, ~Discovery).
THEOREM Forgotten == Spec => []TakenBack
  BY FollowedInvariant, FollowedSays, PTL

=============================================================================

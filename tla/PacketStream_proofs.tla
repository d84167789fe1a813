------------------------ MODULE PacketStream_proofs ------------------------
(***************************************************************************)
(* What holds of PacketStream for every set of threads and of messages,    *)
(* every width of a byte and number of digits, every size of the socket    *)
(* and any number of new sockets.                                          *)
(***************************************************************************)
EXTENDS PacketStream, MqttPacket_proofs

----------------------------------------------------------------------------
(* What Pow and Build give.                                                *)

LEMMA PowStep ==
  Pow \in [Nat -> Nat] /\ Pow[0] = 1 /\ \A n \in Nat : Pow[n + 1] = Half * Pow[n]
<1> DEFINE step == [p \in Nat \X Nat |-> Half * p[2]]
<1>1. step \in [Nat \X Nat -> Nat] /\ \A n, x \in Nat : step[<<n, x>>] = Half * x
  BY HalfAssumption
<1> HIDE DEF step
<1>2. PICK f \in [Nat -> Nat] : Iterates(f, 1, step)
  BY <1>1, Recursion
<1>3. f[0] = 1 /\ \A n \in Nat : f[n + 1] = Half * f[n]
  BY <1>1, <1>2 DEF Iterates
<1>4. f = [n \in Nat |-> IF n = 0 THEN 1 ELSE Half * f[n - 1]]
  <2>1. ASSUME NEW n \in Nat PROVE f[n] = IF n = 0 THEN 1 ELSE Half * f[n - 1]
    <3>1. CASE n = 0
      BY <1>3, <3>1
    <3>2. CASE n # 0
      <4>1. PICK m \in Nat : n = m + 1 /\ m = n - 1
        BY <3>2
      <4>2. QED
        BY <1>3, <4>1, <3>2
    <3>3. QED
      BY <3>1, <3>2
  <2>2. QED
    BY <2>1
<1>5. Pow = [n \in Nat |-> IF n = 0 THEN 1 ELSE Half * Pow[n - 1]]
  BY <1>4 DEF Pow
<1>6. \A n \in Nat : Pow[n] = IF n = 0 THEN 1 ELSE Half * Pow[n - 1]
  BY <1>5
<1>7. Pow[0] = 1
  BY <1>6
<1>8. ASSUME NEW n \in Nat PROVE Pow[n + 1] = Half * Pow[n]
  <2>1. n + 1 \in Nat /\ n + 1 # 0 /\ (n + 1) - 1 = n
    OBVIOUS
  <2>2. QED
    BY <1>6, <2>1
<1> DEFINE T == {n \in Nat : Pow[n] \in Nat}
<1>9. T \subseteq Nat /\ \A n \in Nat : n \in T <=> Pow[n] \in Nat
  OBVIOUS
<1> HIDE DEF T
<1>10. 0 \in T
  BY <1>7, <1>9
<1>11. ASSUME NEW n \in T PROVE n + 1 \in T
  <2>1. n \in Nat /\ n + 1 \in Nat /\ Pow[n] \in Nat
    BY <1>9
  <2>2. Half * Pow[n] \in Nat
    BY <2>1, HalfAssumption
  <2>3. QED
    BY <1>8, <1>9, <2>1, <2>2
<1>12. T = Nat
  BY <1>9, <1>10, <1>11, SetInduction
<1>13. \A n \in Nat : Pow[n] \in Nat
  BY <1>9, <1>12
<1>14. Pow \in [Nat -> Nat]
  BY <1>5, <1>13
<1>15. QED
  BY <1>7, <1>8, <1>14

IsFramed(b) == \E first \in Nat, body \in Seq(Nat) : b = Framed(first, body)

LEMMA NoBody == BuildPingreq = Framed(192, <<>>) /\ BuildDisconnect = Framed(224, <<>>)
<1>1. VarLen[0] = <<0>>
  <2>1. 0 \in Nat /\ 0 < Half
    BY HalfAssumption
  <2>2. QED
    BY <2>1, VarLenDigits
<1>2. <<>> \in Seq(Nat) /\ Len(<<>>) = 0
  OBVIOUS
<1>3. ASSUME NEW first \in Nat PROVE Framed(first, <<>>) = <<first, 0>>
  <2>1. Framed(first, <<>>) = <<first>> \o VarLen[Len(<<>>) % U32Space] \o <<>>
    BY DEF Framed
  <2>2. VarLen[Len(<<>>) % U32Space] = <<0>>
    <3>1. 0 % U32Space = 0
      BY U32Type
    <3>2. QED
      BY <1>1, <1>2, <3>1
  <2>3. <<first>> \o <<0>> = <<first, 0>>
    <3>1. <<first>> \in Seq(Nat) /\ <<0>> \in Seq(Nat) /\ <<first, 0>> \in Seq(Nat)
      OBVIOUS
    <3>2. /\ <<first>> \o <<0>> \in Seq(Nat)
          /\ Len(<<first>> \o <<0>>) = 2 /\ Len(<<first, 0>>) = 2
          /\ (<<first>> \o <<0>>)[1] = first /\ (<<first>> \o <<0>>)[2] = 0
      BY <3>1
    <3>3. \A i \in 1 .. 2 : (<<first>> \o <<0>>)[i] = <<first, 0>>[i]
      BY <3>2
    <3>4. QED
      BY <3>1, <3>2, <3>3, SeqEqual
  <2>4. <<first, 0>> \in Seq(Nat)
    OBVIOUS
  <2>5. <<first, 0>> \o <<>> = <<first, 0>>
    BY <2>4, ConcatEmptySeq
  <2>6. QED
    BY <2>1, <2>2, <2>3, <2>5
<1>4. QED
  BY <1>3 DEF BuildPingreq, BuildDisconnect

LEMMA ShortFramed == IsFramed(BuildPingreq) /\ IsFramed(BuildDisconnect)
<1>1. <<>> \in Seq(Nat) /\ 192 \in Nat /\ 224 \in Nat
  OBVIOUS
<1>2. QED
  BY <1>1, NoBody DEF IsFramed

LEMMA U16SpaceNat == U16Space \in Nat
  BY ByteType

(* Whatever is sent is a packet.                                           *)
LEMMA BuildConnectFramed ==
  ASSUME NEW m \in Message, m.kind = "connect"
  PROVE  IsFramed(BuildConnect(m))
<1>1. /\ m.clientId \in Text /\ m.keepaliveSeconds \in Nat
      /\ m.username \in {None} \cup Text /\ m.password \in {None} \cup Text
      /\ m.will \in {None} \cup Will
  BY U16SpaceNat DEF Message, AnyMessage
<1> DEFINE will == IF m.will = None THEN <<>>
                   ELSE MqttString(m.will.topic) \o MqttString(m.will.payload)
<1>2. will \in Seq(Nat)
  <2>1. CASE m.will = None
    BY <2>1
  <2>2. CASE m.will # None
    <3>1. m.will.topic \in Seq(Nat) /\ m.will.payload \in Seq(Nat)
      BY <1>1, <2>2 DEF Will, Text
    <3>2. MqttString(m.will.topic) \in Seq(Nat) /\ MqttString(m.will.payload) \in Seq(Nat)
      BY <3>1, MqttStringType
    <3>3. MqttString(m.will.topic) \o MqttString(m.will.payload) \in Seq(Nat)
      BY <3>2
    <3>4. QED
      BY <2>2, <3>3
  <2>3. QED
    BY <2>1, <2>2
<1> HIDE DEF will
<1>3. ConnectFlags(m) \in Nat
  <2>1. (IF m.will = None THEN 0 ELSE 4 + 8 * (m.will.qos % 4) + Flag(m.will.retained, 32)) \in Nat
    <3>1. CASE m.will = None
      BY <3>1
    <3>2. CASE m.will # None
      <4>1. m.will.qos \in Nat
        BY <1>1, <3>2 DEF Will
      <4>2. Flag(m.will.retained, 32) \in Nat
        BY DEF Flag
      <4>3. 4 + 8 * (m.will.qos % 4) + Flag(m.will.retained, 32) \in Nat
        BY <4>1, <4>2
      <4>4. QED
        BY <3>2, <4>3
    <3>3. QED
      BY <3>1, <3>2
  <2>2. /\ Flag(m.cleanSession, 2) \in Nat /\ Flag(m.username # None, 128) \in Nat
        /\ Flag(m.password # None, 64) \in Nat
    BY DEF Flag
  <2>3. QED
    BY <2>1, <2>2 DEF ConnectFlags
<1>4. MqttString(<<77, 81, 84, 84>>) \in Seq(Nat)
  <2>1. <<77, 81, 84, 84>> \in Seq(Nat)
    OBVIOUS
  <2>2. QED
    BY <2>1, MqttStringType
<1>5. <<4, ConnectFlags(m)>> \in Seq(Nat)
  BY <1>3
<1>6. U16(m.keepaliveSeconds) \in Seq(Nat)
  BY <1>1, U16Type
<1>7. MqttString(m.clientId) \in Seq(Nat)
  BY <1>1, MqttStringType DEF Text
<1>8. Optional(m.username) \in Seq(Nat) /\ Optional(m.password) \in Seq(Nat)
  BY <1>1, OptionalType DEF Text
<1> DEFINE body == MqttString(<<77, 81, 84, 84>>) \o <<4, ConnectFlags(m)>>
                     \o U16(m.keepaliveSeconds) \o MqttString(m.clientId) \o will
                     \o Optional(m.username) \o Optional(m.password)
<1>9. body \in Seq(Nat)
  BY <1>2, <1>4, <1>5, <1>6, <1>7, <1>8
<1>10. BuildConnect(m) = Framed(16, body)
  BY DEF BuildConnect, will
<1> HIDE DEF body
<1>11. 16 \in Nat
  OBVIOUS
<1>12. QED
  BY <1>9, <1>10, <1>11 DEF IsFramed

LEMMA BuildPublishFramed ==
  ASSUME NEW m \in Message, m.kind = "publish"
  PROVE  IsFramed(BuildPublish(m))
<1>1. m.topic \in Seq(Nat) /\ m.payload \in Seq(Nat) /\ m.qos \in Nat /\ m.packetId \in Nat
  BY U16SpaceNat DEF Message, AnyMessage, PacketId, Text
<1> DEFINE id == IF m.qos > 0 THEN U16(m.packetId) ELSE <<>>
<1>2. id \in Seq(Nat)
  BY <1>1, U16Type
<1> HIDE DEF id
<1>3. MqttString(m.topic) \in Seq(Nat)
  BY <1>1, MqttStringType
<1>4. MqttString(m.topic) \o id \o m.payload \in Seq(Nat)
  BY <1>1, <1>2, <1>3
<1>5. Flag(m.dup, 8) \in Nat /\ Flag(m.retained, 1) \in Nat
  BY DEF Flag
<1>6. 48 + Flag(m.dup, 8) + 2 * (m.qos % 4) + Flag(m.retained, 1) \in Nat
  BY <1>1, <1>5
<1>7. QED
  BY <1>4, <1>6 DEF IsFramed, BuildPublish, id

LEMMA BuildFramed ==
  ASSUME NEW m \in Message
  PROVE  IsFramed(Build(m))
<1>1. CASE m.kind = "connect"
  BY <1>1, BuildConnectFramed DEF Build
<1>2. CASE m.kind = "publish"
  BY <1>2, BuildPublishFramed DEF Build
<1>3. CASE m.kind = "puback"
  <2>1. m.packetId \in Nat
    BY <1>3, U16SpaceNat DEF Message, AnyMessage, PacketId
  <2>2. U16(m.packetId) \in Seq(Nat)
    BY <2>1, U16Type
  <2>3. QED
    BY <1>3, <2>2 DEF Build, BuildPuback, IsFramed
<1>4. CASE m.kind = "subscribe"
  <2>1. m.packetId \in Nat /\ m.subs \in Seq([topic : Text, qos : 0 .. 2])
    BY <1>4, U16SpaceNat DEF Message, AnyMessage, PacketId
  <2>2. U16(m.packetId) \in Seq(Nat) /\ Topics(m.subs) \in Seq(Nat)
    BY <2>1, U16Type, TopicsType DEF Text
  <2>3. U16(m.packetId) \o Topics(m.subs) \in Seq(Nat)
    BY <2>2
  <2>4. QED
    BY <1>4, <2>3 DEF Build, BuildSubscribe, IsFramed
<1>5. CASE m.kind = "unsubscribe"
  <2>1. m.packetId \in Nat /\ m.topics \in Seq(Text)
    BY <1>5, U16SpaceNat DEF Message, AnyMessage, PacketId
  <2>2. U16(m.packetId) \in Seq(Nat) /\ Filters(m.topics) \in Seq(Nat)
    BY <2>1, U16Type, FiltersType DEF Text
  <2>3. U16(m.packetId) \o Filters(m.topics) \in Seq(Nat)
    BY <2>2
  <2>4. QED
    BY <1>5, <2>3 DEF Build, BuildUnsubscribe, IsFramed
<1>6. CASE m.kind \in {"pingreq", "disconnect"}
  BY <1>6, ShortFramed DEF Build
<1>7. CASE m.kind = "connack"
  <2>1. m.returnCode \in Nat
    BY <1>7 DEF Message, AnyMessage
  <2>2. Flag(m.sessionPresent, 1) \in Nat
    BY DEF Flag
  <2>3. <<Flag(m.sessionPresent, 1), m.returnCode>> \in Seq(Nat)
    BY <2>1, <2>2
  <2>4. QED
    BY <1>7, <2>3 DEF Build, IsFramed
<1>8. CASE m.kind = "suback"
  <2>1. m.packetId \in Nat /\ m.returnCodes \in Seq(Nat)
    BY <1>8, U16SpaceNat DEF Message, AnyMessage, PacketId, Text
  <2>2. U16(m.packetId) \in Seq(Nat)
    BY <2>1, U16Type
  <2>3. U16(m.packetId) \o m.returnCodes \in Seq(Nat)
    BY <2>1, <2>2
  <2>4. QED
    BY <1>8, <2>3 DEF Build, IsFramed
<1>9. m.kind \in {"connect", "publish", "puback", "subscribe", "unsubscribe", "pingreq",
                  "disconnect", "connack", "suback"}
  BY DEF Message, AnyMessage
<1>10. QED
  BY <1>1, <1>2, <1>3, <1>4, <1>5, <1>6, <1>7, <1>8, <1>9

LEMMA BuildParts ==
  ASSUME NEW m \in Message
  PROVE  \E body \in Seq(Nat) :
           LET b == Build(m)
               k == Len(VarLen[Len(body)])
           IN  /\ b \in Seq(Nat) /\ Len(b) = 1 + k + Len(body)
               /\ b[1] \in Nat
               /\ \A j \in 1 .. k : b[1 + j] = VarLen[Len(body)][j]
<1>1. PICK first \in Nat, body \in Seq(Nat) : Build(m) = Framed(first, body)
  BY BuildFramed DEF IsFramed
<1>2. LET b == Build(m)
          k == Len(VarLen[Len(body)])
      IN  /\ b \in Seq(Nat) /\ Len(b) = 1 + k + Len(body)
          /\ b[1] = first
          /\ \A j \in 1 .. k : b[1 + j] = VarLen[Len(body)][j]
  <2>1. LET b == Framed(first, body)
            k == Len(VarLen[Len(body)])
        IN  /\ b \in Seq(Nat) /\ Len(b) = 1 + k + Len(body)
            /\ b[1] = first
            /\ \A j \in 1 .. k : b[1 + j] = VarLen[Len(body)][j]
    <3>1. Len(Framed(first, body)) < U32Space
      BY <1>1 DEF Message
    <3>2. QED
      BY <3>1, FramedParts
  <2>2. QED
    BY <1>1, <2>1
<1>3. QED
  BY <1>2

LEMMA BuildType ==
  ASSUME NEW m \in Message
  PROVE  Build(m) \in Seq(Nat) /\ Len(Build(m)) \in Nat /\ Len(Build(m)) >= 2
<1>1. PICK body \in Seq(Nat) :
        Build(m) \in Seq(Nat) /\ Len(Build(m)) = 1 + Len(VarLen[Len(body)]) + Len(body)
  BY BuildParts
<1>2. Len(body) \in Nat
  OBVIOUS
<1>3. Len(VarLen[Len(body)]) \in Nat \ {0}
  BY <1>2, VarLenDigits
<1>4. QED
  BY <1>1, <1>2, <1>3

----------------------------------------------------------------------------
(* The writers: whoever sends has sendMtx and bytes left to send.          *)
WriterInv ==
  \A t \in Threads :
    /\ message[t] # None => sendMtx = t
    /\ sendMtx = t => message[t] # None /\ sent[t] < Len(Build(message[t]))
    /\ message[t] = None => sent[t] = 0

(* The reader has room for another digit when it waits for one.            *)
DigitInv == at[1] # "error" /\ at[2] = "length" => packet.digits < MaxDigits

(* The bytes of the packet under way that the reader has taken.            *)
Taken ==
  CASE at[2] = "first"  -> 0
    [] at[2] = "length" -> 1 + packet.digits
    [] OTHER            -> 1 + packet.digits + Len(packet.body)

(* off says where in the stream of bytes each message ends.                *)
Ends(off) ==
  /\ off \in [0 .. Len(begun) -> Nat]
  /\ off[0] = 0
  /\ \A i \in 1 .. Len(begun) : off[i] = off[i - 1] + Len(Build(begun[i]))
  /\ \A i, j \in 0 .. Len(begun) : i <= j => off[i] <= off[j]

(* The bytes in the socket are those after the first from of the stream.   *)
InSocket(off, from) ==
  /\ from + Len(socket) <= off[Len(begun)]
  /\ \A i \in 1 .. Len(begun) : \A k \in 1 .. Len(Build(begun[i])) :
       from < off[i - 1] + k /\ off[i - 1] + k <= from + Len(socket)
         => socket[(off[i - 1] + k) - from] = Build(begun[i])[k]

(* They go as far as the senders have come.                                *)
SentUpTo(off, from) ==
  open => IF sendMtx = NoThread
            THEN from + Len(socket) = off[Len(begun)]
            ELSE /\ Len(begun) > 0 /\ begun[Len(begun)] = message[sendMtx]
                 /\ from + Len(socket) = off[Len(begun) - 1] + sent[sendMtx]

(* The first byte of b and some digits of its length are read, and rest is *)
(* what they leave: its digits follow, and with it the length is right.    *)
LengthLeft(b, digits, remaining, multiplier, rest) ==
  /\ remaining < multiplier
  /\ Len(b) = 1 + digits + Len(VarLen[rest]) + (remaining + multiplier * rest)
  /\ \A j \in 1 .. Len(VarLen[rest]) : b[1 + digits + j] = VarLen[rest][j]

MidLength(b) ==
  /\ packet.first = b[1]
  /\ packet.body = <<>>
  /\ packet.multiplier = Pow[packet.digits]
  /\ \E rest \in Nat :
       /\ packet.digits > 0 => rest > 0
       /\ LengthLeft(b, packet.digits, packet.remaining, packet.multiplier, rest)

(* The length of b is read, and some of what follows.                      *)
MidBody(b) ==
  /\ packet.first = b[1]
  /\ packet.digits > 0 /\ Len(b) = 1 + packet.digits + packet.remaining
  /\ packet.remaining < Pow[packet.digits]
  /\ packet.digits = 1 \/ packet.remaining >= Pow[packet.digits - 1]
  /\ Len(packet.body) < packet.remaining
  /\ \A j \in 1 .. Len(packet.body) : packet.body[j] = b[1 + packet.digits + j]

(* The packet under way is the one after those delivered.                  *)
Reading ==
  LET d == Len(delivered) IN
  /\ at[2] = "first"  => packet = NoPacket
  /\ at[2] = "length" => d < Len(begun) /\ MidLength(Build(begun[d + 1]))
  /\ at[2] = "body"   => d < Len(begun) /\ MidBody(Build(begun[d + 1]))

Streams(off) ==
  /\ Ends(off)
  /\ InSocket(off, off[Len(delivered)] + Taken)
  /\ SentUpTo(off, off[Len(delivered)] + Taken)

----------------------------------------------------------------------------
(* The types, the writers and the number of digits, step by step.          *)

TypeInv == TypeOK /\ WriterInv /\ DigitInv

(* What one piece of a packet does to the socket.                          *)
LEMMA SendFacts ==
  ASSUME TypeInv, NEW t \in Threads, Send(t)
  PROVE  LET b == Build(message[t]) IN
         \E n \in Nat \ {0} :
           /\ sendMtx = t /\ message[t] \in Message /\ open
           /\ b \in Seq(Nat)
           /\ sent[t] + n <= Len(b) /\ Len(socket) + n <= Cap
           /\ SubSeq(b, sent[t] + 1, sent[t] + n) \in Seq(Nat)
           /\ Len(SubSeq(b, sent[t] + 1, sent[t] + n)) = n
           /\ \A j \in 1 .. n : SubSeq(b, sent[t] + 1, sent[t] + n)[j] = b[sent[t] + j]
           /\ socket' = socket \o SubSeq(b, sent[t] + 1, sent[t] + n)
           /\ IF sent[t] + n = Len(b)
                THEN SendReturns(t, "Ok")
                ELSE sent' = [sent EXCEPT ![t] = @ + n] /\ UNCHANGED <<message, result, sendMtx>>
<1> DEFINE b == Build(message[t])
<1>1. sendMtx = t /\ message[t] \in Message /\ sent[t] \in Nat /\ open
  BY MessagesAssumption DEF TypeInv, TypeOK, WriterInv, Send, Sending
<1>2. b \in Seq(Nat) /\ Len(b) \in Nat
  BY <1>1, BuildType
<1>3. PICK n \in 1 .. Cap - Len(socket) :
        /\ sent[t] + n <= Len(b)
        /\ socket' = socket \o SubSeq(b, sent[t] + 1, sent[t] + n)
        /\ IF sent[t] + n = Len(b)
             THEN SendReturns(t, "Ok")
             ELSE sent' = [sent EXCEPT ![t] = @ + n] /\ UNCHANGED <<message, result, sendMtx>>
  BY DEF Send
<1> HIDE DEF b
<1>4. n \in Nat \ {0} /\ Len(socket) + n <= Cap
  <2>1. PICK L \in Nat : L = Len(socket)
    BY DEF TypeInv, TypeOK
  <2>2. n \in 1 .. Cap - L /\ Cap \in Nat
    BY <2>1, BoundsAssumption
  <2>3. n \in Nat \ {0} /\ L + n <= Cap
    BY <2>2
  <2>4. QED
    BY <2>1, <2>3
<1>5. PICK s \in Nat : s = sent[t]
  BY <1>1
<1>6. /\ SubSeq(b, s + 1, s + n) \in Seq(Nat)
      /\ Len(SubSeq(b, s + 1, s + n)) = n
      /\ \A j \in 1 .. n : SubSeq(b, s + 1, s + n)[j] = b[s + j]
  <2>1. s + n <= Len(b)
    BY <1>3, <1>5
  <2>2. \A i \in s + 1 .. s + n : b[i] \in Nat
    BY <1>2, <1>4, <2>1
  <2>3. s + 1 \in Int /\ s + n \in Int
    BY <1>4
  <2>4. /\ SubSeq(b, s + 1, s + n) \in Seq(Nat)
        /\ Len(SubSeq(b, s + 1, s + n)) = IF s + 1 <= s + n THEN (s + n) - (s + 1) + 1 ELSE 0
        /\ \A j \in 1 .. (s + n) - (s + 1) + 1 : SubSeq(b, s + 1, s + n)[j] = b[(s + 1) + j - 1]
    BY <2>2, <2>3, SubSeqProperties
  <2>5. (IF s + 1 <= s + n THEN (s + n) - (s + 1) + 1 ELSE 0) = n /\ (s + n) - (s + 1) + 1 = n
    BY <1>4
  <2>6. \A j \in 1 .. n : (s + 1) + j - 1 = s + j
    BY <1>4
  <2>7. QED
    BY <2>4, <2>5, <2>6
<1>7. QED
  BY <1>1, <1>2, <1>3, <1>4, <1>5, <1>6 DEF b

(* What taking bytes does to it.                                           *)
LEMMA TakeFacts ==
  ASSUME TypeInv, NEW n \in 1 .. Len(socket), Take(n)
  PROVE  /\ socket' \in Seq(Nat) /\ Len(socket') = Len(socket) - n
         /\ \A j \in 1 .. Len(socket) - n : socket'[j] = socket[n + j]
<1>1. PICK N \in Nat : N = Len(socket)
  BY DEF TypeInv, TypeOK
<1>2. \A i \in n + 1 .. N : socket[i] \in Nat
  BY <1>1 DEF TypeInv, TypeOK
<1>3. n + 1 \in Int /\ N \in Int /\ n <= N /\ n \in Nat
  BY <1>1
<1>4. /\ SubSeq(socket, n + 1, N) \in Seq(Nat)
      /\ Len(SubSeq(socket, n + 1, N)) = IF n + 1 <= N THEN N - (n + 1) + 1 ELSE 0
      /\ \A j \in 1 .. N - (n + 1) + 1 : SubSeq(socket, n + 1, N)[j] = socket[(n + 1) + j - 1]
  BY <1>2, <1>3, SubSeqProperties
<1>5. (IF n + 1 <= N THEN N - (n + 1) + 1 ELSE 0) = N - n /\ N - (n + 1) + 1 = N - n
  BY <1>3
<1>6. \A j \in 1 .. N - n : (n + 1) + j - 1 = n + j
  BY <1>3
<1>7. socket' = SubSeq(socket, n + 1, N)
  BY <1>1 DEF Take
<1>8. QED
  BY <1>1, <1>4, <1>5, <1>6, <1>7

LEMMA TypeInit == Init => TypeInv
<1> SUFFICES ASSUME Init PROVE TypeInv
  OBVIOUS
<1>1. socket \in Seq(Nat) /\ Len(socket) = 0
  BY DEF Init
<1>2. Len(socket) <= Cap
  BY <1>1, BoundsAssumption
<1>3. /\ packet \in [first : Nat, remaining : Nat, multiplier : Nat, digits : 0 .. MaxDigits,
                     body : Seq(Nat)]
  BY DigitsAssumption DEF Init, NoPacket
<1>4. /\ delivered \in Seq([type : Nat, flags : 0 .. 15, body : Seq(Nat)])
      /\ begun \in Seq(UNION {Messages[t] : t \in Threads})
  BY DEF Init
<1>5. reopens \in 0 .. MaxReopen
  BY BoundsAssumption DEF Init
<1>6. at \in Checks \cup Recvs \cup Returns
  BY DEF Init, Checks, Fields
<1>7. TypeOK
  BY <1>1, <1>2, <1>3, <1>4, <1>5, <1>6 DEF Init, TypeOK
<1>8. WriterInv
  BY ThreadsAssumption DEF Init, WriterInv
<1>9. DigitInv
  BY DEF Init, DigitInv
<1>10. QED
  BY <1>7, <1>8, <1>9 DEF TypeInv

LEMMA LockType ==
  ASSUME TypeInv, NEW t \in Threads, NEW m \in Messages[t], Lock(t, m)
  PROVE  TypeInv'
<1>1. m \in Message /\ m # None
  BY MessagesAssumption, NoneAssumption
<1>2. message' = [message EXCEPT ![t] = m] /\ message \in [Threads -> Message \cup {None}]
  BY DEF Lock, TypeInv, TypeOK
<1>3. message' \in [Threads -> Message \cup {None}] /\ message'[t] = m
      /\ \A u \in Threads : u # t => message'[u] = message[u]
  BY <1>1, <1>2
<1>4. \A u \in Threads : message'[u] \in Messages[u] \cup {None}
  BY <1>3 DEF TypeInv, TypeOK
<1>5. m \in UNION {Messages[u] : u \in Threads}
  OBVIOUS
<1>6. begun' \in Seq(UNION {Messages[u] : u \in Threads})
  BY <1>5 DEF TypeInv, TypeOK, Lock
<1>7. TypeOK'
  BY <1>3, <1>4, <1>6 DEF TypeInv, TypeOK, Lock, readVars, connVars
<1>8. sent[t] = 0 /\ message[t] = None /\ sendMtx = NoThread /\ sent' = sent /\ sendMtx' = t
  BY DEF TypeInv, WriterInv, Lock
<1>9. Len(Build(m)) >= 2
  BY <1>1, BuildType
<1>10. \A u \in Threads : u # t => message[u] = None
  BY <1>8, ThreadsAssumption DEF TypeInv, WriterInv
<1>11. WriterInv'
  <2>1. ASSUME NEW u \in Threads
        PROVE  /\ message'[u] # None => sendMtx' = u
               /\ sendMtx' = u => message'[u] # None /\ sent'[u] < Len(Build(message'[u]))
               /\ message'[u] = None => sent'[u] = 0
    <3>1. CASE u = t
      <4>1. 0 < Len(Build(m))
        BY <1>1, <1>9, BuildType
      <4>2. QED
        BY <3>1, <1>1, <1>3, <1>8, <4>1
    <3>2. CASE u # t
      BY <3>2, <1>3, <1>8, <1>10 DEF TypeInv, WriterInv
    <3>3. QED
      BY <3>1, <3>2
  <2>2. QED
    BY <2>1 DEF WriterInv
<1>12. DigitInv'
  BY DEF TypeInv, DigitInv, Lock, readVars
<1>13. QED
  BY <1>7, <1>11, <1>12 DEF TypeInv

(* A sender that returns leaves a free mutex and nothing to send.          *)
LEMMA ReturnsType ==
  ASSUME TypeInv, NEW t \in Threads, NEW r \in {"Ok", "ConnectionLost"},
         Sending(t), SendReturns(t, r)
  PROVE  /\ sendMtx' = NoThread
         /\ message' = [u \in Threads |-> None] /\ sent' = [u \in Threads |-> 0]
         /\ result' \in [Threads -> {"none", "Ok", "ConnectionLost"}]
<1>1. \A u \in Threads : u # t => message[u] = None /\ sent[u] = 0
  BY DEF TypeInv, WriterInv, Sending
<1>2. message \in [Threads -> Message \cup {None}] /\ sent \in [Threads -> Nat]
      /\ result \in [Threads -> {"none", "Ok", "ConnectionLost"}]
  BY DEF TypeInv, TypeOK
<1>3. message' = [u \in Threads |-> None]
  BY <1>1, <1>2 DEF SendReturns
<1>4. sent' = [u \in Threads |-> 0]
  BY <1>1, <1>2 DEF SendReturns
<1>5. QED
  BY <1>2, <1>3, <1>4 DEF SendReturns

LEMMA ReturnsInv ==
  ASSUME TypeInv, NEW t \in Threads, NEW r \in {"Ok", "ConnectionLost"},
         Sending(t), SendReturns(t, r)
  PROVE  /\ WriterInv'
         /\ sendMtx' \in Threads \cup {NoThread}
         /\ message' \in [Threads -> Message \cup {None}]
         /\ \A u \in Threads : message'[u] \in Messages[u] \cup {None}
         /\ sent' \in [Threads -> Nat]
         /\ result' \in [Threads -> {"none", "Ok", "ConnectionLost"}]
<1>1. /\ sendMtx' = NoThread
      /\ message' = [u \in Threads |-> None] /\ sent' = [u \in Threads |-> 0]
      /\ result' \in [Threads -> {"none", "Ok", "ConnectionLost"}]
  BY ReturnsType
<1>2. WriterInv'
  BY <1>1, ThreadsAssumption DEF WriterInv
<1>3. QED
  BY <1>1, <1>2

LEMMA SendType ==
  ASSUME TypeInv, NEW t \in Threads, Send(t)
  PROVE  TypeInv'
<1> DEFINE b == Build(message[t])
<1>1. PICK n \in Nat \ {0} :
        /\ sendMtx = t /\ message[t] \in Message /\ open
        /\ b \in Seq(Nat)
        /\ sent[t] + n <= Len(b) /\ Len(socket) + n <= Cap
        /\ SubSeq(b, sent[t] + 1, sent[t] + n) \in Seq(Nat)
        /\ Len(SubSeq(b, sent[t] + 1, sent[t] + n)) = n
        /\ socket' = socket \o SubSeq(b, sent[t] + 1, sent[t] + n)
        /\ IF sent[t] + n = Len(b)
             THEN SendReturns(t, "Ok")
             ELSE sent' = [sent EXCEPT ![t] = @ + n] /\ UNCHANGED <<message, result, sendMtx>>
  BY SendFacts
<1>2. Sending(t) /\ UNCHANGED <<begun, readVars, connVars>>
  BY DEF Send
<1> DEFINE piece == SubSeq(b, sent[t] + 1, sent[t] + n)
<1>3. piece \in Seq(Nat) /\ Len(piece) = n /\ socket' = socket \o piece
      /\ socket \in Seq(Nat)
  BY <1>1 DEF TypeInv, TypeOK
<1> HIDE DEF piece
<1>4. socket' \in Seq(Nat) /\ Len(socket') = Len(socket) + n
  BY <1>3, ConcatProperties
<1>5. Len(socket') <= Cap
  BY <1>1, <1>4
<1>6. /\ WriterInv'
      /\ sendMtx' \in Threads \cup {NoThread}
      /\ message' \in [Threads -> Message \cup {None}]
      /\ \A u \in Threads : message'[u] \in Messages[u] \cup {None}
      /\ sent' \in [Threads -> Nat]
      /\ result' \in [Threads -> {"none", "Ok", "ConnectionLost"}]
  <2>1. CASE sent[t] + n = Len(b)
    <3>1. SendReturns(t, "Ok")
      BY <1>1, <2>1
    <3>2. QED
      BY <1>2, <3>1, ReturnsInv
  <2>2. CASE sent[t] + n # Len(b)
    <3>1. sent' = [sent EXCEPT ![t] = @ + n] /\ UNCHANGED <<message, result, sendMtx>>
      BY <1>1, <2>2
    <3>2. sent \in [Threads -> Nat]
      BY DEF TypeInv, TypeOK
    <3>3. sent' \in [Threads -> Nat] /\ sent'[t] = sent[t] + n
          /\ \A u \in Threads : u # t => sent'[u] = sent[u]
      BY <3>1, <3>2
    <3>4. sent'[t] < Len(Build(message[t])) /\ message[t] # None /\ sendMtx = t
      <4>1. sent[t] \in Nat /\ Len(b) \in Nat
        BY <1>1, <3>2
      <4>2. sent[t] + n < Len(b)
        BY <1>1, <2>2, <4>1
      <4>3. QED
        BY <1>1, <1>2, <3>3, <4>2 DEF Sending
    <3> HIDE DEF b
    <3>5. WriterInv'
      <4>1. ASSUME NEW u \in Threads
            PROVE  /\ message'[u] # None => sendMtx' = u
                   /\ sendMtx' = u => message'[u] # None /\ sent'[u] < Len(Build(message'[u]))
                   /\ message'[u] = None => sent'[u] = 0
        <5>1. CASE u = t
          BY <3>1, <3>4, <5>1
        <5>2. CASE u # t
          BY <3>1, <3>3, <3>4, <5>2 DEF TypeInv, WriterInv
        <5>3. QED
          BY <5>1, <5>2
      <4>2. QED
        BY <4>1 DEF WriterInv
    <3>6. QED
      BY <3>1, <3>3, <3>5 DEF TypeInv, TypeOK
  <2>3. QED
    BY <2>1, <2>2
<1>7. TypeOK'
  BY <1>2, <1>4, <1>5, <1>6 DEF TypeInv, TypeOK, readVars, connVars
<1>8. DigitInv'
  BY <1>2 DEF TypeInv, DigitInv, readVars
<1>9. QED
  BY <1>6, <1>7, <1>8 DEF TypeInv

LEMMA SendErrorType ==
  ASSUME TypeInv, NEW t \in Threads, SendError(t)
  PROVE  TypeInv'
<1>1. /\ Sending(t) /\ SendReturns(t, "ConnectionLost")
      /\ UNCHANGED <<begun, readVars, connVars, socket>>
  BY DEF SendError
<1>2. /\ WriterInv'
      /\ sendMtx' \in Threads \cup {NoThread}
      /\ message' \in [Threads -> Message \cup {None}]
      /\ \A u \in Threads : message'[u] \in Messages[u] \cup {None}
      /\ sent' \in [Threads -> Nat]
      /\ result' \in [Threads -> {"none", "Ok", "ConnectionLost"}]
  BY <1>1, ReturnsInv
<1>3. TypeOK'
  BY <1>1, <1>2 DEF TypeInv, TypeOK, readVars, connVars
<1>4. DigitInv'
  BY <1>1 DEF TypeInv, DigitInv, readVars
<1>5. QED
  BY <1>2, <1>3, <1>4 DEF TypeInv


(* A step of the reader that leaves the writers alone keeps WriterInv.     *)
LEMMA ReaderType ==
  ASSUME TypeInv, UNCHANGED <<sendVars, connVars, begun>>,
         socket' \in Seq(Nat), Len(socket') <= Cap,
         at' \in Checks \cup Recvs \cup Returns,
         packet' \in [first : Nat, remaining : Nat, multiplier : Nat, digits : 0 .. MaxDigits,
                      body : Seq(Nat)],
         delivered' \in Seq([type : Nat, flags : 0 .. 15, body : Seq(Nat)]),
         DigitInv'
  PROVE  TypeInv'
<1>1. TypeOK'
  BY DEF TypeInv, TypeOK, sendVars, connVars
<1>2. WriterInv'
  BY DEF TypeInv, WriterInv, sendVars
<1>3. QED
  BY <1>1, <1>2 DEF TypeInv

LEMMA NoBytesType ==
  ASSUME TypeInv, NEW f \in Fields, Check(f) \/ Timeout(f) \/ Closed(f)
  PROVE  TypeInv'
<1>1. UNCHANGED <<sendVars, connVars, packet, delivered, begun, socket>>
  BY DEF Check, Timeout, Closed
<1>2. \/ at' \in Returns
      \/ at' \in {<<"check", f>>, <<"recv", f>>} /\ at \in {<<"check", f>>, <<"recv", f>>}
  BY DEF Check, Timeout, Closed, In, To, Returns
<1>3. at' \in Checks \cup Recvs \cup Returns
  BY <1>2 DEF Checks, Recvs
<1>4. DigitInv'
  <2>1. CASE at' \in Returns
    BY <2>1 DEF DigitInv, Returns
  <2>2. CASE at' \in {<<"check", f>>, <<"recv", f>>} /\ at \in {<<"check", f>>, <<"recv", f>>}
    BY <2>2, <1>1 DEF TypeInv, DigitInv
  <2>3. QED
    BY <1>2, <2>1, <2>2
<1>5. QED
  BY <1>1, <1>3, <1>4, ReaderType DEF TypeInv, TypeOK

LEMMA ReadFirstType ==
  ASSUME TypeInv, ReadFirst
  PROVE  TypeInv'
<1>1. socket \in Seq(Nat) /\ socket # <<>>
  BY DEF TypeInv, TypeOK, ReadFirst
<1>2. Head(socket) \in Nat /\ 1 \in 1 .. Len(socket)
  BY <1>1
<1>3. packet' \in [first : Nat, remaining : Nat, multiplier : Nat, digits : 0 .. MaxDigits,
                   body : Seq(Nat)]
  <2>1. packet' = [first |-> Head(socket), remaining |-> 0, multiplier |-> 1, digits |-> 0,
                   body |-> <<>>]
    BY DEF ReadFirst, NoPacket
  <2>2. 0 \in 0 .. MaxDigits /\ 0 \in Nat /\ 1 \in Nat /\ <<>> \in Seq(Nat)
    BY DigitsAssumption
  <2>3. QED
    BY <1>2, <2>1, <2>2
<1>4. Take(1) /\ at' = <<"check", "length">> /\ UNCHANGED <<sendVars, connVars, delivered, begun>>
  BY DEF ReadFirst, To
<1>5. socket' \in Seq(Nat) /\ Len(socket') = Len(socket) - 1
  BY <1>2, <1>4, TakeFacts
<1>6. Len(socket') <= Cap
  <2>1. Len(socket) <= Cap /\ Len(socket) \in Nat /\ Cap \in Nat
    BY BoundsAssumption DEF TypeInv, TypeOK
  <2>2. QED
    BY <1>5, <2>1
<1>7. DigitInv'
  <2>1. packet'.digits = 0
    BY DEF ReadFirst, NoPacket
  <2>2. QED
    BY <2>1, DigitsAssumption DEF DigitInv
<1>8. QED
  BY <1>3, <1>4, <1>5, <1>6, <1>7, ReaderType DEF TypeInv, TypeOK, Checks, Fields

(* What is delivered.                                                      *)
LEMMA DeliverType ==
  ASSUME TypeInv, NEW p, p.first \in Nat, p.body \in Seq(Nat), Deliver(p)
  PROVE  /\ at' = <<"check", "first">>
         /\ packet' \in [first : Nat, remaining : Nat, multiplier : Nat, digits : 0 .. MaxDigits,
                         body : Seq(Nat)]
         /\ delivered' \in Seq([type : Nat, flags : 0 .. 15, body : Seq(Nat)])
<1>1. p.first \div 16 \in Nat /\ p.first % 16 \in 0 .. 15
  <2>1. \A x \in Nat : x \div 16 \in Nat /\ x % 16 \in 0 .. 15
    OBVIOUS
  <2>2. QED
    BY <2>1
<1>2. [type |-> p.first \div 16, flags |-> p.first % 16, body |-> p.body]
        \in [type : Nat, flags : 0 .. 15, body : Seq(Nat)]
  BY <1>1
<1>3. packet' \in [first : Nat, remaining : Nat, multiplier : Nat, digits : 0 .. MaxDigits,
                   body : Seq(Nat)]
  BY DigitsAssumption DEF Deliver, NoPacket
<1>4. delivered' = Append(delivered, [type |-> p.first \div 16, flags |-> p.first % 16,
                                      body |-> p.body])
  BY DEF Deliver
<1>5. delivered \in Seq([type : Nat, flags : 0 .. 15, body : Seq(Nat)])
  BY DEF TypeInv, TypeOK
<1>6. delivered' \in Seq([type : Nat, flags : 0 .. 15, body : Seq(Nat)])
  BY <1>2, <1>4, <1>5
<1>7. QED
  BY <1>3, <1>6 DEF Deliver, To

LEMMA ReadLengthType ==
  ASSUME TypeInv, ReadLength
  PROVE  TypeInv'
<1> DEFINE b == Head(socket)
           p == [packet EXCEPT !.remaining = @ + (b % Half) * packet.multiplier,
                               !.multiplier = @ * Half, !.digits = @ + 1]
<1>1. at = <<"recv", "length">> /\ socket # <<>> /\ Take(1)
      /\ UNCHANGED <<sendVars, connVars, begun>>
  BY DEF ReadLength, In
<1>2. socket \in Seq(Nat) /\ packet \in [first : Nat, remaining : Nat, multiplier : Nat,
                                         digits : 0 .. MaxDigits, body : Seq(Nat)]
  BY DEF TypeInv, TypeOK
<1>3. b \in Nat /\ 1 \in 1 .. Len(socket)
  BY <1>1, <1>2
<1>4. packet.digits < MaxDigits
  BY <1>1 DEF TypeInv, DigitInv
<1>5. packet.remaining + (b % Half) * packet.multiplier \in Nat /\ packet.multiplier * Half \in Nat
  <2>1. b % Half \in Nat
    BY <1>3, HalfAssumption
  <2>2. ASSUME NEW x \in Nat, NEW y \in Nat PROVE x * y \in Nat
    OBVIOUS
  <2>3. (b % Half) * packet.multiplier \in Nat /\ packet.multiplier * Half \in Nat
    BY <1>2, <2>1, <2>2, HalfAssumption
  <2>4. QED
    BY <1>2, <2>3
<1> HIDE DEF b
<1>6. p \in [first : Nat, remaining : Nat, multiplier : Nat, digits : 0 .. MaxDigits,
             body : Seq(Nat)]
  <2>1. packet.digits + 1 \in 0 .. MaxDigits
    BY <1>2, <1>4, DigitsAssumption
  <2>2. QED
    BY <1>2, <1>5, <2>1
<1>7. p.digits = packet.digits + 1
  BY <1>2
<1>8. \/ /\ packet' = p /\ UNCHANGED delivered
         /\ \/ at' = <<"error", "Malformed">>
            \/ at' = <<"check", "length">> /\ ~NoMoreDigits(p)
            \/ at' = <<"check", "body">>
      \/ Deliver(p)
  BY DEF ReadLength, To, b
<1> HIDE DEF p
<1>9. socket' \in Seq(Nat) /\ Len(socket') <= Cap
  <2>1. Len(socket) <= Cap /\ Len(socket) \in Nat /\ Cap \in Nat
    BY BoundsAssumption DEF TypeInv, TypeOK
  <2>2. socket' \in Seq(Nat) /\ Len(socket') = Len(socket) - 1
    BY <1>1, <1>3, TakeFacts
  <2>3. QED
    BY <2>1, <2>2
<1>10. CASE Deliver(p)
  <2>1. /\ at' = <<"check", "first">>
        /\ packet' \in [first : Nat, remaining : Nat, multiplier : Nat, digits : 0 .. MaxDigits,
                        body : Seq(Nat)]
        /\ delivered' \in Seq([type : Nat, flags : 0 .. 15, body : Seq(Nat)])
    BY <1>6, <1>10, DeliverType
  <2>2. DigitInv' /\ at' \in Checks
    BY <2>1 DEF DigitInv, Checks, Fields
  <2>3. QED
    BY <1>1, <1>9, <2>1, <2>2, ReaderType
<1>11. CASE packet' = p /\ UNCHANGED delivered
            /\ \/ at' = <<"error", "Malformed">>
               \/ at' = <<"check", "length">> /\ ~NoMoreDigits(p)
               \/ at' = <<"check", "body">>
  <2>1. at' \in Checks \cup Recvs \cup Returns
    BY <1>11 DEF Checks, Fields, Returns
  <2>2. DigitInv'
    <3>1. CASE at' = <<"check", "length">> /\ ~NoMoreDigits(p)
      <4>1. p.digits \in 0 .. MaxDigits /\ p.digits # MaxDigits
        BY <1>6, <3>1 DEF NoMoreDigits
      <4>2. p.digits < MaxDigits
        BY <4>1, DigitsAssumption
      <4>3. QED
        BY <1>11, <4>2 DEF DigitInv
    <3>2. CASE at' = <<"error", "Malformed">> \/ at' = <<"check", "body">>
      BY <3>2 DEF DigitInv
    <3>3. QED
      BY <1>11, <3>1, <3>2
  <2>3. delivered' \in Seq([type : Nat, flags : 0 .. 15, body : Seq(Nat)])
    BY <1>11 DEF TypeInv, TypeOK
  <2>4. QED
    BY <1>1, <1>6, <1>9, <1>11, <2>1, <2>2, <2>3, ReaderType
<1>12. QED
  BY <1>8, <1>10, <1>11

LEMMA ReadBodyFacts ==
  ASSUME TypeInv, ReadBody
  PROVE  \E n \in 1 .. Len(socket) :
           LET p == [packet EXCEPT !.body = @ \o SubSeq(socket, 1, n)] IN
           /\ n \in Nat \ {0} /\ Take(n)
           /\ p \in [first : Nat, remaining : Nat, multiplier : Nat, digits : 0 .. MaxDigits,
                     body : Seq(Nat)]
           /\ p.first = packet.first /\ p.remaining = packet.remaining
           /\ p.digits = packet.digits
           /\ Len(p.body) = Len(packet.body) + n /\ Len(p.body) <= packet.remaining
           /\ \A j \in 1 .. Len(packet.body) : p.body[j] = packet.body[j]
           /\ \A j \in 1 .. n : p.body[Len(packet.body) + j] = socket[j]
           /\ IF Len(p.body) = packet.remaining
                THEN Deliver(p)
                ELSE at' = <<"check", "body">> /\ packet' = p /\ UNCHANGED delivered
<1>1. PICK n \in 1 .. Len(socket) :
        LET p == [packet EXCEPT !.body = @ \o SubSeq(socket, 1, n)] IN
        /\ Len(p.body) <= packet.remaining /\ Take(n)
        /\ IF Len(p.body) = packet.remaining
             THEN Deliver(p)
             ELSE at' = <<"check", "body">> /\ packet' = p /\ UNCHANGED delivered
  BY DEF ReadBody, To
<1> DEFINE s == SubSeq(socket, 1, n)
           p == [packet EXCEPT !.body = @ \o s]
<1>2. socket \in Seq(Nat) /\ packet \in [first : Nat, remaining : Nat, multiplier : Nat,
                                         digits : 0 .. MaxDigits, body : Seq(Nat)]
  BY DEF TypeInv, TypeOK
<1>3. PICK L \in Nat : L = Len(socket)
  BY <1>2
<1>4. n \in Nat /\ n # 0 /\ n <= L
  BY <1>3
<1>5. s \in Seq(Nat) /\ Len(s) = n /\ \A j \in 1 .. n : s[j] = socket[j]
  <2>1. \A i \in 1 .. n : socket[i] \in Nat
    BY <1>2, <1>3, <1>4
  <2>2. 1 \in Int /\ n \in Int
    BY <1>4
  <2>3. /\ s \in Seq(Nat)
        /\ Len(s) = IF 1 <= n THEN n - 1 + 1 ELSE 0
        /\ \A j \in 1 .. n - 1 + 1 : s[j] = socket[1 + j - 1]
    BY <2>1, <2>2, SubSeqProperties
  <2>4. (IF 1 <= n THEN n - 1 + 1 ELSE 0) = n /\ n - 1 + 1 = n
    BY <1>4
  <2>5. \A j \in 1 .. n : 1 + j - 1 = j
    BY <1>4
  <2>6. QED
    BY <2>3, <2>4, <2>5
<1> HIDE DEF s
<1>6. packet.body \in Seq(Nat)
  BY <1>2
<1>7. /\ packet.body \o s \in Seq(Nat) /\ Len(packet.body \o s) = Len(packet.body) + n
      /\ \A j \in 1 .. Len(packet.body) : (packet.body \o s)[j] = packet.body[j]
      /\ \A j \in 1 .. n : (packet.body \o s)[Len(packet.body) + j] = s[j]
  <2>1. PICK b \in Seq(Nat) : b = packet.body
    BY <1>6
  <2>2. b \o s \in Seq(Nat) /\ Len(b \o s) = Len(b) + n
    BY <1>5, ConcatProperties
  <2>3. \A j \in 1 .. Len(b) : (b \o s)[j] = b[j]
    BY <1>5
  <2>4. \A j \in 1 .. n : (b \o s)[Len(b) + j] = s[j]
    BY <1>5
  <2>5. QED
    BY <2>1, <2>2, <2>3, <2>4
<1>8. /\ p \in [first : Nat, remaining : Nat, multiplier : Nat, digits : 0 .. MaxDigits,
                body : Seq(Nat)]
      /\ p.first = packet.first /\ p.remaining = packet.remaining
      /\ p.digits = packet.digits /\ p.body = packet.body \o s
  BY <1>2, <1>7
<1>9. /\ Len(p.body) <= packet.remaining /\ Take(n)
      /\ IF Len(p.body) = packet.remaining
           THEN Deliver(p)
           ELSE at' = <<"check", "body">> /\ packet' = p /\ UNCHANGED delivered
  BY <1>1 DEF s
<1> HIDE DEF p
<1>10. /\ n \in Nat \ {0} /\ Take(n)
       /\ p \in [first : Nat, remaining : Nat, multiplier : Nat, digits : 0 .. MaxDigits,
                 body : Seq(Nat)]
       /\ p.first = packet.first /\ p.remaining = packet.remaining
       /\ p.digits = packet.digits
       /\ Len(p.body) = Len(packet.body) + n /\ Len(p.body) <= packet.remaining
       /\ \A j \in 1 .. Len(packet.body) : p.body[j] = packet.body[j]
       /\ \A j \in 1 .. n : p.body[Len(packet.body) + j] = socket[j]
       /\ IF Len(p.body) = packet.remaining
            THEN Deliver(p)
            ELSE at' = <<"check", "body">> /\ packet' = p /\ UNCHANGED delivered
  BY <1>4, <1>5, <1>7, <1>8, <1>9
<1>11. QED
  BY <1>10 DEF p, s

LEMMA ReadBodyType ==
  ASSUME TypeInv, ReadBody
  PROVE  TypeInv'
<1>1. PICK n \in 1 .. Len(socket), p \in [first : Nat, remaining : Nat, multiplier : Nat,
                                          digits : 0 .. MaxDigits, body : Seq(Nat)] :
        /\ Take(n) /\ n \in Nat
        /\ \/ Deliver(p)
           \/ at' = <<"check", "body">> /\ packet' = p /\ UNCHANGED delivered
  BY ReadBodyFacts
<1>2. UNCHANGED <<sendVars, connVars, begun>>
  BY DEF ReadBody
<1>3. socket' \in Seq(Nat) /\ Len(socket') <= Cap
  <2>1. Len(socket) <= Cap /\ Len(socket) \in Nat /\ Cap \in Nat
    BY BoundsAssumption DEF TypeInv, TypeOK
  <2>2. socket' \in Seq(Nat) /\ Len(socket') = Len(socket) - n
    BY <1>1, TakeFacts
  <2>3. QED
    BY <1>1, <2>1, <2>2
<1>4. p.first \in Nat /\ p.body \in Seq(Nat)
  OBVIOUS
<1>5. CASE Deliver(p)
  <2>1. /\ at' = <<"check", "first">>
        /\ packet' \in [first : Nat, remaining : Nat, multiplier : Nat, digits : 0 .. MaxDigits,
                        body : Seq(Nat)]
        /\ delivered' \in Seq([type : Nat, flags : 0 .. 15, body : Seq(Nat)])
    BY <1>4, <1>5, DeliverType
  <2>2. DigitInv' /\ at' \in Checks
    BY <2>1 DEF DigitInv, Checks, Fields
  <2>3. QED
    BY <1>2, <1>3, <2>1, <2>2, ReaderType
<1>6. CASE at' = <<"check", "body">> /\ packet' = p /\ UNCHANGED delivered
  <2>1. DigitInv' /\ at' \in Checks
    BY <1>6 DEF DigitInv, Checks, Fields
  <2>2. delivered' \in Seq([type : Nat, flags : 0 .. 15, body : Seq(Nat)])
    BY <1>6 DEF TypeInv, TypeOK
  <2>3. QED
    BY <1>2, <1>3, <1>6, <2>1, <2>2, ReaderType
<1>7. QED
  BY <1>1, <1>5, <1>6

LEMMA ConnectionType ==
  ASSUME TypeInv, Stop \/ Lose
  PROVE  TypeInv'
<1>1. /\ UNCHANGED <<sendVars, readVars, torn, reopens, begun>>
      /\ open' \in BOOLEAN /\ stopFlag' \in BOOLEAN
  BY DEF Stop, Lose, TypeInv, TypeOK
<1>2. socket' = socket \/ socket' = <<>>
  BY DEF Stop, Lose
<1>3. socket' \in Seq(Nat) /\ Len(socket') <= Cap
  <2>1. CASE socket' = socket
    BY <2>1 DEF TypeInv, TypeOK
  <2>2. CASE socket' = <<>>
    BY <2>2, BoundsAssumption
  <2>3. QED
    BY <1>2, <2>1, <2>2
<1>4. TypeOK'
  BY <1>1, <1>3 DEF TypeInv, TypeOK, sendVars, readVars
<1>5. WriterInv' /\ DigitInv'
  BY <1>1 DEF TypeInv, WriterInv, DigitInv, sendVars, readVars
<1>6. QED
  BY <1>4, <1>5 DEF TypeInv

LEMMA ReopenType ==
  ASSUME TypeInv, Reopen
  PROVE  TypeInv'
<1>1. /\ open' = TRUE /\ stopFlag' = FALSE /\ torn' \in BOOLEAN /\ reopens' = reopens + 1
      /\ reopens < MaxReopen /\ socket' = <<>> /\ at' = <<"check", "first">>
      /\ packet' = NoPacket /\ delivered' = <<>> /\ UNCHANGED sendVars
      /\ begun' = IF sendMtx = NoThread THEN <<>> ELSE <<message[sendMtx]>>
  BY DEF Reopen
<1>2. reopens' \in 0 .. MaxReopen
  BY <1>1, BoundsAssumption DEF TypeInv, TypeOK
<1>3. socket' \in Seq(Nat) /\ Len(socket') <= Cap
  BY <1>1, BoundsAssumption
<1>4. begun' \in Seq(UNION {Messages[t] : t \in Threads})
  <2>1. CASE sendMtx = NoThread
    BY <1>1, <2>1
  <2>2. CASE sendMtx # NoThread
    <3>1. sendMtx \in Threads
      BY <2>2 DEF TypeInv, TypeOK
    <3>2. message[sendMtx] \in Messages[sendMtx]
      BY <3>1 DEF TypeInv, TypeOK, WriterInv
    <3>3. QED
      BY <1>1, <2>2, <3>1, <3>2
  <2>3. QED
    BY <2>1, <2>2
<1>5. packet' \in [first : Nat, remaining : Nat, multiplier : Nat, digits : 0 .. MaxDigits,
                   body : Seq(Nat)]
  BY <1>1, DigitsAssumption DEF NoPacket
<1>6. delivered' \in Seq([type : Nat, flags : 0 .. 15, body : Seq(Nat)])
  BY <1>1
<1>7. at' \in Checks
  BY <1>1 DEF Checks, Fields
<1>8. TypeOK'
  BY <1>1, <1>2, <1>3, <1>4, <1>5, <1>6, <1>7 DEF TypeInv, TypeOK, sendVars
<1>9. WriterInv' /\ DigitInv'
  BY <1>1 DEF TypeInv, WriterInv, DigitInv, sendVars
<1>10. QED
  BY <1>8, <1>9 DEF TypeInv

LEMMA TypeStep == TypeInv /\ [Next]_vars => TypeInv'
<1> SUFFICES ASSUME TypeInv, [Next]_vars PROVE TypeInv'
  OBVIOUS
<1>1. CASE \E t \in Threads : Write(t)
  <2>1. PICK t \in Threads : Write(t)
    BY <1>1
  <2>2. QED
    BY <2>1, LockType, SendType, SendErrorType DEF Write
<1>2. CASE Read
  BY <1>2, NoBytesType, ReadFirstType, ReadLengthType, ReadBodyType DEF Read
<1>3. CASE Stop \/ Lose \/ Reopen
  BY <1>3, ConnectionType, ReopenType
<1>4. CASE UNCHANGED vars
  <2>1. UNCHANGED <<sendVars, readVars, connVars, socket, begun>>
    BY <1>4 DEF vars
  <2>2. TypeOK'
    BY <2>1 DEF TypeInv, TypeOK, sendVars, readVars, connVars
  <2>3. WriterInv' /\ DigitInv'
    BY <2>1 DEF TypeInv, WriterInv, DigitInv, sendVars, readVars
  <2>4. QED
    BY <2>2, <2>3 DEF TypeInv
<1>5. QED
  BY <1>1, <1>2, <1>3, <1>4 DEF Next

(* The reader never waits for a digit it has no room for, and whoever      *)
(* holds sendMtx has bytes left to send.                                   *)
THEOREM PacketsTyped == Spec => []TypeOK
<1>1. Init => TypeInv
  BY TypeInit
<1>2. TypeInv /\ [Next]_vars => TypeInv'
  BY TypeStep
<1>3. TypeInv => TypeOK
  BY DEF TypeInv
<1>4. QED
  BY <1>1, <1>2, <1>3, PTL DEF Spec


----------------------------------------------------------------------------
(* Reading a length, digit by digit.                                       *)

LEMMA TimesGrows ==
  ASSUME NEW a \in Nat, NEW b \in Nat, NEW m \in Nat, a <= b
  PROVE  a * m \in Nat /\ b * m \in Nat /\ a * m <= b * m
<1>1. PICK c \in Nat : b = a + c
  <2>1. b - a \in Nat /\ b = a + (b - a)
    OBVIOUS
  <2>2. QED
    BY <2>1
<1>2. c * m \in Nat /\ a * m \in Nat /\ (a + c) * m = a * m + c * m
  OBVIOUS
<1>3. QED
  BY <1>1, <1>2

LEMMA DigitBound ==
  ASSUME NEW r \in Nat, NEW d \in Nat, NEW m \in Nat, NEW h \in Nat, r < m, d < h
  PROVE  r + d * m \in Nat /\ r + d * m < m * h
<1>1. d + 1 \in Nat /\ d + 1 <= h
  OBVIOUS
<1>2. (d + 1) * m <= h * m /\ h * m \in Nat
  BY <1>1, TimesGrows
<1>3. (d + 1) * m = d * m + m /\ d * m \in Nat /\ h * m = m * h
  OBVIOUS
<1>4. QED
  BY <1>2, <1>3

LEMMA DigitValue ==
  ASSUME NEW r \in Nat, NEW d \in Nat, NEW m \in Nat, NEW h \in Nat, NEW q \in Nat
  PROVE  (r + d * m) + (m * h) * q = r + m * (h * q + d)
<1>1. (m * h) * q = m * (h * q)
  OBVIOUS
<1>2. d * m = m * d
  OBVIOUS
<1>3. h * q \in Nat /\ d * m \in Nat
  OBVIOUS
<1>4. ASSUME NEW x \in Nat PROVE m * (x + d) = m * x + m * d /\ m * x \in Nat
  OBVIOUS
<1>5. m * (h * q + d) = m * (h * q) + m * d /\ m * (h * q) \in Nat
  BY <1>3, <1>4
<1>6. QED
  BY <1>1, <1>2, <1>3, <1>5

(* The next byte is a digit that says whether it is the last one.          *)
LEMMA NextDigit ==
  ASSUME NEW b \in Seq(Nat), NEW digits \in Nat, NEW remaining \in Nat, NEW multiplier \in Nat,
         NEW rest \in Nat, LengthLeft(b, digits, remaining, multiplier, rest)
  PROVE  /\ 1 + digits + 1 <= Len(b)
         /\ b[1 + digits + 1] % Half = IF rest < Half THEN rest ELSE Digit(rest)
         /\ (b[1 + digits + 1] \div Half) % 2 = IF rest < Half THEN 0 ELSE 1
<1>1. Len(VarLen[rest]) \in Nat \ {0}
  BY VarLenDigits
<1>2. b[1 + digits + 1] = VarLen[rest][1]
  <2>1. 1 \in 1 .. Len(VarLen[rest])
    BY <1>1
  <2>2. QED
    BY <2>1 DEF LengthLeft
<1>3. multiplier * rest \in Nat /\ remaining + multiplier * rest \in Nat
  OBVIOUS
<1>4. 1 + digits + 1 <= Len(b)
  <2>1. PICK l \in Nat \ {0} : l = Len(VarLen[rest])
    BY <1>1
  <2>2. PICK w \in Nat : w = remaining + multiplier * rest
    BY <1>3
  <2>3. Len(b) = 1 + digits + l + w
    BY <2>1, <2>2 DEF LengthLeft
  <2>4. QED
    BY <2>3
<1>5. QED
  BY <1>2, <1>4, FirstDigit

LEMMA MoreDigits ==
  ASSUME NEW b \in Seq(Nat), NEW digits \in Nat, NEW remaining \in Nat, NEW multiplier \in Nat,
         NEW rest \in Nat, LengthLeft(b, digits, remaining, multiplier, rest), rest >= Half
  PROVE  /\ Rest(rest) \in Nat /\ Rest(rest) > 0
         /\ LengthLeft(b, digits + 1, remaining + Digit(rest) * multiplier, multiplier * Half,
                       Rest(rest))
<1>1. Rest(rest) \in Nat /\ Rest(rest) > 0 /\ Digit(rest) \in Nat /\ Digit(rest) < Half
  BY TakeDigit
<1>2. /\ Len(VarLen[rest]) = 1 + Len(VarLen[Rest(rest)])
      /\ \A j \in 1 .. Len(VarLen[Rest(rest)]) : VarLen[rest][1 + j] = VarLen[Rest(rest)][j]
  BY OtherDigits
<1>3. Len(VarLen[Rest(rest)]) \in Nat
  BY <1>1, VarLenDigits
<1>4. remaining + Digit(rest) * multiplier < multiplier * Half
  BY <1>1, DigitBound, HalfAssumption DEF LengthLeft
<1>5. (remaining + Digit(rest) * multiplier) + (multiplier * Half) * Rest(rest)
        = remaining + multiplier * rest
  <2>1. rest = Half * Rest(rest) + Digit(rest)
    BY DigitAndRest
  <2>2. (remaining + Digit(rest) * multiplier) + (multiplier * Half) * Rest(rest)
          = remaining + multiplier * (Half * Rest(rest) + Digit(rest))
    BY <1>1, DigitValue, HalfAssumption
  <2>3. QED
    BY <2>1, <2>2
<1>6. Len(b) = 1 + (digits + 1) + Len(VarLen[Rest(rest)])
                 + ((remaining + Digit(rest) * multiplier) + (multiplier * Half) * Rest(rest))
  <2>1. remaining + multiplier * rest \in Nat
    OBVIOUS
  <2>2. PICK w \in Nat : w = remaining + multiplier * rest
    BY <2>1
  <2>3. Len(b) = 1 + digits + (1 + Len(VarLen[Rest(rest)])) + w
    BY <1>2, <2>2 DEF LengthLeft
  <2>4. Len(b) = 1 + (digits + 1) + Len(VarLen[Rest(rest)]) + w
    <3>1. PICK l \in Nat : l = Len(VarLen[Rest(rest)])
      BY <1>3
    <3>2. 1 + digits + (1 + l) + w = 1 + (digits + 1) + l + w
      OBVIOUS
    <3>3. QED
      BY <2>3, <3>1, <3>2
  <2>5. QED
    BY <1>5, <2>2, <2>4
<1>7. ASSUME NEW j \in 1 .. Len(VarLen[Rest(rest)])
      PROVE  b[1 + (digits + 1) + j] = VarLen[Rest(rest)][j]
  <2>1. 1 + j \in 1 .. Len(VarLen[rest]) /\ 1 + digits + (1 + j) = 1 + (digits + 1) + j
    BY <1>2, <1>3
  <2>2. b[1 + digits + (1 + j)] = VarLen[rest][1 + j]
    BY <2>1 DEF LengthLeft
  <2>3. QED
    BY <1>2, <2>1, <2>2
<1>8. QED
  BY <1>1, <1>4, <1>6, <1>7 DEF LengthLeft

LEMMA LastDigit ==
  ASSUME NEW b \in Seq(Nat), NEW digits \in Nat, NEW remaining \in Nat, NEW multiplier \in Nat,
         NEW rest \in Nat, LengthLeft(b, digits, remaining, multiplier, rest), rest < Half
  PROVE  /\ remaining + rest * multiplier \in Nat
         /\ remaining + rest * multiplier < multiplier * Half
         /\ Len(b) = 1 + (digits + 1) + (remaining + rest * multiplier)
         /\ rest > 0 => remaining + rest * multiplier >= multiplier
<1>1. remaining + rest * multiplier \in Nat /\ remaining + rest * multiplier < multiplier * Half
  BY DigitBound, HalfAssumption DEF LengthLeft
<1>2. Len(VarLen[rest]) = 1
  <2>1. VarLen[rest] = <<rest>>
    BY VarLenDigits
  <2>2. QED
    BY <2>1
<1>3. multiplier * rest = rest * multiplier
  OBVIOUS
<1>4. Len(b) = 1 + (digits + 1) + (remaining + rest * multiplier)
  <2>1. PICK w \in Nat : w = remaining + rest * multiplier
    BY <1>1
  <2>2. Len(b) = 1 + digits + 1 + w
    BY <1>2, <1>3, <2>1 DEF LengthLeft
  <2>3. 1 + digits + 1 + w = 1 + (digits + 1) + w
    OBVIOUS
  <2>4. QED
    BY <2>1, <2>2, <2>3
<1>5. ASSUME rest > 0 PROVE remaining + rest * multiplier >= multiplier
  <2>1. 1 * multiplier <= rest * multiplier /\ rest * multiplier \in Nat
    BY <1>5, TimesGrows
  <2>2. QED
    BY <2>1
<1>6. QED
  BY <1>1, <1>4, <1>5

(* A length of which a digit is left after the last one readPacket takes.  *)
LEMMA TooLong ==
  ASSUME NEW b \in Seq(Nat), NEW digits \in Nat, NEW remaining \in Nat, NEW multiplier \in Nat,
         NEW rest \in Nat, LengthLeft(b, digits, remaining, multiplier, rest), rest >= Half
  PROVE  Len(b) >= 1 + (digits + 2) + Half * multiplier
<1>1. Rest(rest) \in Nat /\ Len(VarLen[rest]) = 1 + Len(VarLen[Rest(rest)])
  BY TakeDigit, OtherDigits
<1>2. Len(VarLen[Rest(rest)]) \in Nat \ {0}
  BY <1>1, VarLenDigits
<1>3. Half * multiplier \in Nat /\ rest * multiplier \in Nat
      /\ Half * multiplier <= rest * multiplier
  BY TimesGrows, HalfAssumption
<1>4. multiplier * rest = rest * multiplier
  OBVIOUS
<1>5. PICK w \in Nat : w = rest * multiplier
  BY <1>3
<1>6. Len(b) = 1 + digits + (1 + Len(VarLen[Rest(rest)])) + (remaining + w)
  BY <1>1, <1>4, <1>5 DEF LengthLeft
<1>7. Half * multiplier <= w
  BY <1>3, <1>5
<1>8. PICK v \in Nat : v = Half * multiplier
  BY <1>3
<1>9. PICK l \in Nat \ {0} : l = Len(VarLen[Rest(rest)])
  BY <1>2
<1>10. 1 + digits + (1 + l) + (remaining + w) >= 1 + (digits + 2) + v
  BY <1>7, <1>8
<1>11. QED
  BY <1>6, <1>8, <1>9, <1>10


----------------------------------------------------------------------------
(* The stream of bytes, and the packets in it.                             *)

(* What readPacket returned, as ReadsWhatWasSent has it.                   *)
ReadsWell ==
  /\ Len(delivered) <= Len(begun)
  /\ \A i \in 1 .. Len(delivered) : Frames(begun[i], delivered[i])

GaveUp ==
  at = <<"error", "Malformed">> =>
    /\ Len(delivered) < Len(begun)
    /\ Len(Build(begun[Len(delivered) + 1])) >= 1 + (MaxDigits + 1) + Pow[MaxDigits]

Underway == Reading /\ \E off : Streams(off)

StreamInv == ~torn => ReadsWell /\ GaveUp /\ (at[1] # "error" => Underway)

LEMMA Counts ==
  ASSUME TypeInv
  PROVE  /\ Len(begun) \in Nat /\ Len(delivered) \in Nat /\ Len(socket) \in Nat
         /\ \A i \in 1 .. Len(begun) :
              /\ begun[i] \in Message /\ Build(begun[i]) \in Seq(Nat)
              /\ Len(Build(begun[i])) \in Nat /\ Len(Build(begun[i])) >= 2
<1>1. Len(begun) \in Nat /\ Len(delivered) \in Nat /\ Len(socket) \in Nat
  BY DEF TypeInv, TypeOK
<1>2. ASSUME NEW i \in 1 .. Len(begun) PROVE begun[i] \in Message
  <2>1. begun[i] \in UNION {Messages[t] : t \in Threads}
    BY DEF TypeInv, TypeOK
  <2>2. QED
    BY <2>1, MessagesAssumption
<1>3. QED
  BY <1>1, <1>2, BuildType

LEMMA Offsets ==
  ASSUME TypeInv, NEW off, Ends(off)
  PROVE  /\ \A i \in 0 .. Len(begun) : off[i] \in Nat
         /\ \A i \in 1 .. Len(begun) :
              /\ off[i - 1] \in Nat /\ off[i] = off[i - 1] + Len(Build(begun[i]))
              /\ off[i] <= off[Len(begun)]
<1>1. Len(begun) \in Nat
  BY Counts
<1>2. \A i \in 0 .. Len(begun) : off[i] \in Nat
  BY DEF Ends
<1>3. ASSUME NEW i \in 1 .. Len(begun)
      PROVE  /\ off[i - 1] \in Nat /\ off[i] = off[i - 1] + Len(Build(begun[i]))
             /\ off[i] <= off[Len(begun)]
  <2>1. i - 1 \in 0 .. Len(begun) /\ i \in 0 .. Len(begun) /\ Len(begun) \in 0 .. Len(begun)
        /\ i <= Len(begun)
    BY <1>1
  <2>2. QED
    BY <1>2, <2>1 DEF Ends
<1>4. QED
  BY <1>2, <1>3

(* The reader takes bytes from the socket: the stream goes on behind them. *)
LEMMA TakeStream ==
  ASSUME TypeInv, NEW off, NEW from \in Nat, NEW n \in 1 .. Len(socket),
         Ends(off), InSocket(off, from), SentUpTo(off, from),
         Take(n), UNCHANGED <<sendVars, connVars, begun>>
  PROVE  Ends(off)' /\ InSocket(off, from + n)' /\ SentUpTo(off, from + n)'
<1>1. PICK L \in Nat : L = Len(socket)
  BY Counts
<1>2. /\ Len(socket') = L - n /\ \A j \in 1 .. L - n : socket'[j] = socket[n + j]
      /\ n \in Nat /\ n <= L
  BY <1>1, TakeFacts
<1>3. (from + n) + Len(socket') = from + Len(socket)
  BY <1>1, <1>2
<1>4. begun' = begun /\ open' = open /\ sendMtx' = sendMtx /\ message' = message /\ sent' = sent
  BY DEF sendVars, connVars
<1>5. Ends(off)'
  BY <1>4 DEF Ends
<1>6. SentUpTo(off, from + n)'
  BY <1>3, <1>4 DEF SentUpTo
<1>7. InSocket(off, from + n)'
  <2>1. (from + n) + Len(socket') <= off[Len(begun')]
    BY <1>3, <1>4 DEF InSocket
  <2>2. ASSUME NEW i \in 1 .. Len(begun), NEW k \in 1 .. Len(Build(begun[i])),
               from + n < off[i - 1] + k,
               off[i - 1] + k <= (from + n) + Len(socket')
        PROVE  socket'[(off[i - 1] + k) - (from + n)] = Build(begun[i])[k]
    <3>1. PICK x \in Nat : x = off[i - 1] + k
      <4>1. off[i - 1] \in Nat /\ k \in Nat
        BY Offsets, Counts
      <4>2. QED
        BY <4>1
    <3>2. from < x /\ x <= from + L
      BY <1>1, <1>2, <1>3, <2>2, <3>1
    <3>3. socket[x - from] = Build(begun[i])[k]
      BY <1>1, <2>2, <3>1, <3>2 DEF InSocket
    <3>4. x - (from + n) \in 1 .. L - n /\ n + (x - (from + n)) = x - from
      <4>1. from + n < x
        BY <2>2, <3>1
      <4>2. QED
        BY <1>2, <3>2, <4>1
    <3>5. QED
      BY <1>2, <3>1, <3>3, <3>4
  <2>3. QED
    BY <1>4, <2>1, <2>2 DEF InSocket
<1>8. QED
  BY <1>5, <1>6, <1>7

(* A whole packet, taken from b, frames the message it was built from.     *)
LEMMA WholePacket ==
  ASSUME NEW m \in Message, NEW first \in Nat, NEW digits \in 1 .. MaxDigits,
         NEW remaining \in Nat, NEW body \in Seq(Nat),
         first = Build(m)[1], Len(Build(m)) = 1 + digits + remaining,
         remaining < Pow[digits], digits = 1 \/ remaining >= Pow[digits - 1],
         Len(body) = remaining,
         \A j \in 1 .. remaining : body[j] = Build(m)[1 + digits + j]
  PROVE  Frames(m, [type |-> first \div 16, flags |-> first % 16, body |-> body])
<1> DEFINE b == Build(m)
           p == [type |-> first \div 16, flags |-> first % 16, body |-> body]
<1>1. b \in Seq(Nat) /\ digits \in Nat
  BY BuildType, DigitsAssumption
<1> HIDE DEF b
<1>2. p.type = first \div 16 /\ p.flags = first % 16 /\ p.body = body
  OBVIOUS
<1> HIDE DEF p
<1>3. first = 16 * (first \div 16) + (first % 16)
  OBVIOUS
<1>4. Len(b) - Len(p.body) - 1 = digits
  <2>1. Len(b) = 1 + digits + remaining /\ Len(p.body) = remaining
    BY <1>2 DEF b
  <2>2. 1 + digits + remaining - remaining - 1 = digits
    BY <1>1
  <2>3. QED
    BY <2>1, <2>2
<1>5. body = SubSeq(b, digits + 2, Len(b))
  <2>1. PICK N \in Nat : N = Len(b) /\ N = 1 + digits + remaining
    BY <1>1 DEF b
  <2>2. \A i \in digits + 2 .. N : b[i] \in Nat
    <3>1. \A i \in digits + 2 .. N : i \in 1 .. N
      BY <1>1
    <3>2. ASSUME NEW s \in Seq(Nat) PROVE \A i \in 1 .. Len(s) : s[i] \in Nat
      OBVIOUS
    <3>3. \A i \in 1 .. N : b[i] \in Nat
      BY <1>1, <2>1, <3>2
    <3>4. QED
      BY <3>1, <3>3
  <2>3. digits + 2 \in Int /\ N \in Int
    BY <1>1
  <2>4. /\ SubSeq(b, digits + 2, N) \in Seq(Nat)
        /\ Len(SubSeq(b, digits + 2, N)) = IF digits + 2 <= N THEN N - (digits + 2) + 1 ELSE 0
        /\ \A i \in 1 .. N - (digits + 2) + 1 :
             SubSeq(b, digits + 2, N)[i] = b[(digits + 2) + i - 1]
    BY <2>2, <2>3, SubSeqProperties
  <2>5. N - (digits + 2) + 1 = remaining
        /\ (IF digits + 2 <= N THEN N - (digits + 2) + 1 ELSE 0) = remaining
    BY <1>1, <2>1
  <2>6. \A i \in 1 .. remaining : (digits + 2) + i - 1 = 1 + digits + i
    BY <1>1
  <2>7. \A i \in 1 .. Len(body) : body[i] = SubSeq(b, digits + 2, N)[i]
    BY <2>4, <2>5, <2>6 DEF b
  <2>8. body = SubSeq(b, digits + 2, N)
    BY <2>4, <2>5, <2>7, SeqEqual
  <2>9. QED
    BY <2>1, <2>8
<1>6. b[1] = 16 * p.type + p.flags
  BY <1>2, <1>3 DEF b
<1>7. Frames(m, p)
  BY <1>2, <1>4, <1>5, <1>6 DEF Frames, b
<1>8. QED
  BY <1>7 DEF p

(* p is the packet of b, as far as it is read.                             *)
LEMMA DeliverWell ==
  ASSUME TypeInv, ReadsWell, Len(delivered) < Len(begun), begun' = begun,
         NEW p, p.first \in Nat, p.digits \in 1 .. MaxDigits, p.remaining \in Nat,
         p.body \in Seq(Nat), Deliver(p),
         LET b == Build(begun[Len(delivered) + 1]) IN
           /\ p.first = b[1] /\ Len(b) = 1 + p.digits + p.remaining
           /\ p.remaining < Pow[p.digits]
           /\ p.digits = 1 \/ p.remaining >= Pow[p.digits - 1]
           /\ Len(p.body) = p.remaining
           /\ \A j \in 1 .. p.remaining : p.body[j] = b[1 + p.digits + j]
  PROVE  ReadsWell' /\ Len(delivered') = Len(delivered) + 1
<1>1. PICK d \in Nat : d = Len(delivered)
  BY Counts
<1>2. d + 1 \in 1 .. Len(begun) /\ begun[d + 1] \in Message
  <2>1. d + 1 \in 1 .. Len(begun)
    <3>1. PICK N \in Nat : N = Len(begun)
      BY Counts
    <3>2. d < N
      BY <1>1, <3>1
    <3>3. d + 1 \in 1 .. N
      BY <3>2
    <3>4. QED
      BY <3>1, <3>3
  <2>2. QED
    BY <2>1, Counts
<1> DEFINE q == [type |-> p.first \div 16, flags |-> p.first % 16, body |-> p.body]
<1>3. Frames(begun[d + 1], q)
  BY <1>1, <1>2, WholePacket
<1>4. delivered' = Append(delivered, q)
  BY DEF Deliver
<1> HIDE DEF q
<1>5. delivered \in Seq([type : Nat, flags : 0 .. 15, body : Seq(Nat)])
  BY DEF TypeInv, TypeOK
<1>6. Len(delivered') = d + 1 /\ delivered'[d + 1] = q
      /\ \A i \in 1 .. d : delivered'[i] = delivered[i]
  BY <1>1, <1>4, <1>5
<1>7. ASSUME NEW i \in 1 .. d + 1 PROVE Frames(begun[i], delivered'[i])
  <2>1. CASE i = d + 1
    BY <1>3, <1>6, <2>1
  <2>2. CASE i \in 1 .. d
    BY <1>1, <1>6, <2>2 DEF ReadsWell
  <2>3. QED
    BY <2>1, <2>2
<1>8. Len(delivered') <= Len(begun)
  BY <1>2, <1>6
<1>9. ReadsWell'
  <2>1. \A i \in 1 .. Len(delivered') : Frames(begun[i], delivered'[i])
    BY <1>6, <1>7
  <2>2. (\A i \in 1 .. Len(delivered) : Frames(begun[i], delivered[i]))'
    BY <2>1 DEF Frames
  <2>3. QED
    BY <1>8, <2>2 DEF ReadsWell
<1>10. QED
  BY <1>1, <1>6, <1>9


(* More is sent, or nothing: what has been read stays as it is.            *)
Extended == Len(begun) <= Len(begun') /\ \A i \in 1 .. Len(begun) : begun'[i] = begun[i]

LEMMA ReadsSame ==
  ASSUME TypeInv, ReadsWell, Extended, begun' \in Seq(UNION {Messages[t] : t \in Threads}),
         delivered' = delivered
  PROVE  ReadsWell'
<1>1. Len(delivered') <= Len(begun')
  <2>1. Len(begun) \in Nat /\ Len(delivered) \in Nat /\ Len(begun') \in Nat
    BY Counts
  <2>2. QED
    BY <2>1 DEF ReadsWell, Extended
<1>2. ASSUME NEW i \in 1 .. Len(delivered) PROVE Frames(begun'[i], delivered'[i])
  <2>1. i \in 1 .. Len(begun)
    BY Counts DEF ReadsWell
  <2>2. begun'[i] = begun[i]
    BY <2>1 DEF Extended
  <2>3. QED
    BY <2>2 DEF ReadsWell
<1>3. (\A i \in 1 .. Len(delivered) : Frames(begun[i], delivered[i]))'
  BY <1>2 DEF Frames
<1>4. QED
  BY <1>1, <1>3 DEF ReadsWell

LEMMA NextBegun ==
  ASSUME TypeInv, Extended, begun' \in Seq(UNION {Messages[t] : t \in Threads}),
         Len(delivered) < Len(begun)
  PROVE  Len(delivered) < Len(begun') /\ begun'[Len(delivered) + 1] = begun[Len(delivered) + 1]
<1>1. PICK d \in Nat, n \in Nat, m \in Nat :
        d = Len(delivered) /\ n = Len(begun) /\ m = Len(begun')
  BY Counts
<1>2. d < n /\ n <= m
  BY <1>1 DEF Extended
<1>3. d < m /\ d + 1 \in 1 .. n
  BY <1>2
<1>4. QED
  BY <1>1, <1>3 DEF Extended

LEMMA GaveUpSame ==
  ASSUME TypeInv, GaveUp, Extended, begun' \in Seq(UNION {Messages[t] : t \in Threads}),
         delivered' = delivered, at' = at \/ at' # <<"error", "Malformed">>
  PROVE  GaveUp'
<1> SUFFICES ASSUME at' = <<"error", "Malformed">>
             PROVE  /\ Len(delivered') < Len(begun')
                    /\ Len(Build(begun'[Len(delivered') + 1])) >= 1 + (MaxDigits + 1) + Pow[MaxDigits]
  BY DEF GaveUp
<1>1. at = <<"error", "Malformed">>
  OBVIOUS
<1>2. QED
  BY <1>1, NextBegun DEF GaveUp

LEMMA ReadingSame ==
  ASSUME TypeInv, Reading, Extended, begun' \in Seq(UNION {Messages[t] : t \in Threads}),
         delivered' = delivered, packet' = packet, at'[2] = at[2]
  PROVE  Reading'
<1>1. at'[2] = "first" => packet' = NoPacket
  BY DEF Reading
<1>2. ASSUME at[2] \in {"length", "body"}
      PROVE  /\ Len(delivered') < Len(begun')
             /\ begun'[Len(delivered') + 1] = begun[Len(delivered) + 1]
  BY <1>2, NextBegun DEF Reading
<1>3. at'[2] = "length" => Len(delivered') < Len(begun')
                           /\ MidLength(Build(begun[Len(delivered) + 1]))'
  BY <1>2 DEF Reading, MidLength
<1>4. at'[2] = "body" => Len(delivered') < Len(begun')
                         /\ MidBody(Build(begun[Len(delivered) + 1]))'
  BY <1>2 DEF Reading, MidBody
<1>5. QED
  BY <1>1, <1>3, <1>4 DEF Reading

LEMMA TakenSame == ASSUME packet' = packet, at'[2] = at[2] PROVE Taken' = Taken
  BY DEF Taken

LEMMA TakenType ==
  ASSUME TypeInv, at[1] # "error"
  PROVE  Taken \in Nat /\ at[2] \in Fields
<1>1. at[2] \in Fields
  BY DEF TypeInv, TypeOK, Checks, Recvs, Returns
<1>2. packet.digits \in Nat /\ packet.body \in Seq(Nat)
  BY DigitsAssumption DEF TypeInv, TypeOK
<1>3. Len(packet.body) \in Nat
  BY <1>2
<1>4. QED
  BY <1>1, <1>2, <1>3 DEF Taken, Fields

(* Where the reader is in the stream.                                      *)
LEMMA From ==
  ASSUME TypeInv, ReadsWell, Underway, at[1] # "error"
  PROVE  \E off : \E from \in Nat :
           /\ from = off[Len(delivered)] + Taken
           /\ off[Len(delivered)] \in Nat
           /\ Ends(off) /\ InSocket(off, from) /\ SentUpTo(off, from)
<1>1. PICK off : Streams(off)
  BY DEF Underway
<1>2. Len(delivered) \in 0 .. Len(begun)
  BY Counts DEF ReadsWell
<1>3. off[Len(delivered)] \in Nat
  BY <1>1, <1>2, Offsets DEF Streams
<1>4. PICK from \in Nat : from = off[Len(delivered)] + Taken
  BY <1>3, TakenType
<1>5. QED
  BY <1>1, <1>3, <1>4 DEF Streams

LEMMA LockStream ==
  ASSUME TypeInv, NEW t \in Threads, NEW m \in Messages[t], Lock(t, m),
         NEW off, NEW from \in Nat, Ends(off), InSocket(off, from), SentUpTo(off, from)
  PROVE  \E new :
           /\ \A i \in 0 .. Len(begun) : new[i] = off[i]
           /\ Ends(new)' /\ InSocket(new, from)' /\ SentUpTo(new, from)'
<1>1. PICK n \in Nat : n = Len(begun)
  BY Counts
<1>2. m \in Message /\ Build(m) \in Seq(Nat) /\ Len(Build(m)) \in Nat
  BY MessagesAssumption, BuildType
<1>3. /\ begun' = Append(begun, m) /\ UNCHANGED <<socket, open, sent>> /\ sendMtx = NoThread
      /\ sendMtx' = t /\ message'[t] = m /\ sent[t] = 0
  BY DEF Lock, connVars, TypeInv, TypeOK, WriterInv
<1>4. begun \in Seq(UNION {Messages[u] : u \in Threads}) /\ m \in UNION {Messages[u] : u \in Threads}
  BY DEF TypeInv, TypeOK
<1>5. Len(begun') = n + 1 /\ begun'[n + 1] = m /\ \A i \in 1 .. n : begun'[i] = begun[i]
  BY <1>1, <1>3, <1>4
<1> DEFINE new == [i \in 0 .. n + 1 |-> IF i <= n THEN off[i] ELSE off[n] + Len(Build(m))]
<1>6. /\ \A i \in 0 .. n : new[i] = off[i] /\ off[i] \in Nat
      /\ new[n + 1] = off[n] + Len(Build(m)) /\ new[n + 1] \in Nat
  <2>1. \A i \in 0 .. n : off[i] \in Nat
    BY <1>1, Offsets
  <2>2. n \in 0 .. n /\ n + 1 \in 0 .. n + 1 /\ ~(n + 1 <= n)
    OBVIOUS
  <2>3. \A i \in 0 .. n : i \in 0 .. n + 1 /\ i <= n
    OBVIOUS
  <2>4. QED
    BY <1>2, <2>1, <2>2, <2>3
<1>7. new \in [0 .. n + 1 -> Nat]
  <2>1. \A i \in 0 .. n + 1 : (IF i <= n THEN off[i] ELSE off[n] + Len(Build(m))) \in Nat
    <3>1. \A i \in 0 .. n + 1 : i <= n => i \in 0 .. n
      OBVIOUS
    <3>2. off[n] + Len(Build(m)) \in Nat
      BY <1>6
    <3>3. QED
      BY <1>6, <3>1, <3>2
  <2>2. QED
    BY <2>1
<1> HIDE DEF new
<1>8. Ends(new)'
  <2>1. new[0] = 0
    BY <1>6 DEF Ends
  <2>2. ASSUME NEW i \in 1 .. n + 1
        PROVE  new[i] = new[i - 1] + Len(Build(begun'[i]))
    <3>1. CASE i = n + 1
      <4>1. i - 1 = n /\ n \in 0 .. n
        BY <3>1
      <4>2. QED
        BY <1>5, <1>6, <3>1, <4>1
    <3>2. CASE i # n + 1
      <4>1. i \in 1 .. n /\ i \in 0 .. n /\ i - 1 \in 0 .. n
        BY <3>2
      <4>2. off[i] = off[i - 1] + Len(Build(begun[i]))
        BY <1>1, <4>1 DEF Ends
      <4>3. QED
        BY <1>5, <1>6, <4>1, <4>2
    <3>3. QED
      BY <3>1, <3>2
  <2>3. ASSUME NEW i \in 0 .. n + 1, NEW j \in 0 .. n + 1, i <= j
        PROVE  new[i] <= new[j]
    <3>1. CASE j = n + 1
      <4>1. CASE i = n + 1
        BY <1>6, <3>1, <4>1
      <4>2. CASE i # n + 1
        <5>1. i \in 0 .. n /\ n \in 0 .. n /\ i <= n
          BY <4>2
        <5>2. off[i] <= off[n]
          BY <1>1, <5>1 DEF Ends
        <5>3. new[i] \in Nat /\ off[n] \in Nat /\ new[i] <= off[n]
          BY <1>6, <5>1, <5>2
        <5>4. QED
          BY <1>2, <1>6, <3>1, <5>3
      <4>3. QED
        BY <4>1, <4>2
    <3>2. CASE j # n + 1
      <4>1. i \in 0 .. n /\ j \in 0 .. n
        BY <2>3, <3>2
      <4>2. off[i] <= off[j]
        BY <1>1, <2>3, <4>1 DEF Ends
      <4>3. QED
        BY <1>6, <4>1, <4>2
    <3>3. QED
      BY <3>1, <3>2
  <2>4. QED
    BY <1>5, <1>7, <2>1, <2>2, <2>3 DEF Ends
<1>9. PICK L \in Nat : L = Len(socket)
  BY Counts
<1>10. n \in 0 .. n /\ off[n] \in Nat /\ new[n] = off[n] /\ from + L <= off[n]
  BY <1>1, <1>6, <1>9 DEF InSocket
<1>11. InSocket(new, from)'
  <2>1. from + L <= new[n + 1]
    BY <1>2, <1>6, <1>10
  <2>2. ASSUME NEW i \in 1 .. n + 1, NEW k \in 1 .. Len(Build(begun'[i])),
               from < new[i - 1] + k, new[i - 1] + k <= from + L
        PROVE  socket[(new[i - 1] + k) - from] = Build(begun'[i])[k]
    <3>1. CASE i = n + 1
      <4>1. i - 1 = n /\ k \in Nat /\ k >= 1
        BY <1>2, <1>5, <3>1
      <4>2. off[n] + k <= from + L
        BY <1>10, <2>2, <4>1
      <4>3. FALSE
        BY <1>10, <4>1, <4>2
      <4>4. QED
        BY <4>3
    <3>2. CASE i # n + 1
      <4>1. i \in 1 .. n /\ i - 1 \in 0 .. n
        BY <3>2
      <4>2. begun'[i] = begun[i] /\ new[i - 1] = off[i - 1]
        BY <1>5, <1>6, <4>1
      <4>3. QED
        BY <1>1, <1>9, <2>2, <4>1, <4>2 DEF InSocket
    <3>3. QED
      BY <3>1, <3>2
  <2>3. socket' = socket
    BY <1>3
  <2>4. QED
    BY <1>5, <1>9, <2>1, <2>2, <2>3 DEF InSocket
<1>12. SentUpTo(new, from)'
  <2>1. open => from + L = off[n]
    BY <1>1, <1>3, <1>9 DEF SentUpTo
  <2>2. t # NoThread
    BY ThreadsAssumption
  <2>3. n + 1 > 0 /\ (n + 1) - 1 = n
    OBVIOUS
  <2>4. off[n] + 0 = off[n]
    BY <1>10
  <2>5. QED
    BY <1>3, <1>5, <1>9, <1>10, <2>1, <2>2, <2>3, <2>4 DEF SentUpTo
<1>13. QED
  BY <1>1, <1>6, <1>8, <1>11, <1>12

LEMMA SendStream ==
  ASSUME TypeInv, NEW t \in Threads, Send(t),
         NEW off, NEW from \in Nat, Ends(off), InSocket(off, from), SentUpTo(off, from)
  PROVE  Ends(off)' /\ InSocket(off, from)' /\ SentUpTo(off, from)'
<1> DEFINE b == Build(message[t])
<1>1. PICK n \in Nat \ {0} :
        /\ sendMtx = t /\ message[t] \in Message /\ open
        /\ b \in Seq(Nat)
        /\ sent[t] + n <= Len(b)
        /\ SubSeq(b, sent[t] + 1, sent[t] + n) \in Seq(Nat)
        /\ Len(SubSeq(b, sent[t] + 1, sent[t] + n)) = n
        /\ \A j \in 1 .. n : SubSeq(b, sent[t] + 1, sent[t] + n)[j] = b[sent[t] + j]
        /\ socket' = socket \o SubSeq(b, sent[t] + 1, sent[t] + n)
        /\ IF sent[t] + n = Len(b)
             THEN SendReturns(t, "Ok")
             ELSE sent' = [sent EXCEPT ![t] = @ + n] /\ UNCHANGED <<message, result, sendMtx>>
  BY SendFacts
<1>2. begun' = begun /\ open' = open
  BY DEF Send, connVars
<1>3. PICK N \in Nat : N = Len(begun)
  BY Counts
<1>4. PICK L \in Nat : L = Len(socket)
  BY Counts
<1>5. PICK s \in Nat : s = sent[t]
  BY DEF TypeInv, TypeOK
<1>6. PICK l \in Nat : l = Len(b)
  BY <1>1
<1>7. N > 0 /\ begun[N] = message[t] /\ from + L = off[N - 1] + s
  BY <1>1, <1>3, <1>4, <1>5, ThreadsAssumption DEF SentUpTo
<1> DEFINE piece == SubSeq(b, s + 1, s + n)
<1>8. piece \in Seq(Nat) /\ Len(piece) = n /\ socket' = socket \o piece
      /\ \A j \in 1 .. n : piece[j] = b[s + j]
  BY <1>1, <1>5
<1>9. s + n <= l
  BY <1>1, <1>5, <1>6
<1> HIDE DEF piece
<1>10. /\ socket \in Seq(Nat)
       /\ \A j \in 1 .. L : socket'[j] = socket[j]
       /\ \A j \in 1 .. n : socket'[L + j] = piece[j]
       /\ Len(socket') = L + n
  <2>1. socket \in Seq(Nat)
    BY DEF TypeInv, TypeOK
  <2>2. ASSUME NEW a \in Seq(Nat), NEW c \in Seq(Nat)
        PROVE  /\ \A j \in 1 .. Len(a) : (a \o c)[j] = a[j]
               /\ \A j \in 1 .. Len(c) : (a \o c)[Len(a) + j] = c[j]
               /\ Len(a \o c) = Len(a) + Len(c)
    OBVIOUS
  <2>3. QED
    BY <1>4, <1>8, <2>1, <2>2
<1>11. /\ \A i \in 1 .. N : off[i - 1] \in Nat /\ off[i] \in Nat
       /\ off[N] = off[N - 1] + l
  <2>1. N \in 1 .. N
    BY <1>7
  <2>2. \A i \in 1 .. N : i \in 0 .. N
    OBVIOUS
  <2>3. QED
    BY <1>3, <1>6, <1>7, <2>1, <2>2, Offsets
<1>12. \A i \in 1 .. N : i < N => off[i] <= off[N - 1]
  <2>1. \A i \in 1 .. N : i < N => i \in 0 .. N /\ N - 1 \in 0 .. N /\ i <= N - 1
    OBVIOUS
  <2>2. QED
    BY <1>3, <2>1 DEF Ends
<1> HIDE DEF b
<1>13. Ends(off)'
  BY <1>2 DEF Ends
<1>14. InSocket(off, from)'
  <2>1. from + Len(socket') <= off[N]
    <3>1. from + Len(socket') = off[N - 1] + s + n
      <4>1. N \in 1 .. N
        BY <1>7
      <4>2. off[N - 1] \in Nat
        BY <1>11, <4>1
      <4>3. QED
        BY <1>7, <1>10, <4>2
    <3>2. N \in 1 .. N
      BY <1>7
    <3>3. off[N - 1] \in Nat
      BY <1>11, <3>2
    <3>4. QED
      BY <1>9, <1>11, <3>1, <3>3
  <2>2. ASSUME NEW i \in 1 .. N, NEW k \in 1 .. Len(Build(begun[i])),
               from < off[i - 1] + k, off[i - 1] + k <= from + (L + n)
        PROVE  socket'[(off[i - 1] + k) - from] = Build(begun[i])[k]
    <3>1. PICK x \in Nat : x = off[i - 1] + k
      <4>1. off[i - 1] \in Nat /\ k \in Nat
        BY <1>3, <1>11, Counts
      <4>2. QED
        BY <4>1
    <3>2. CASE x <= from + L
      <4>1. socket[x - from] = Build(begun[i])[k]
        BY <1>3, <1>4, <2>2, <3>1, <3>2 DEF InSocket
      <4>2. x - from \in 1 .. L
        BY <2>2, <3>1, <3>2
      <4>3. QED
        BY <1>10, <3>1, <4>1, <4>2
    <3>3. CASE x > from + L
      <4>1. i = N
        <5>1. SUFFICES ASSUME i # N PROVE FALSE
          OBVIOUS
        <5>2. i < N
          BY <5>1
        <5>3. off[i] <= off[N - 1]
          BY <1>12, <5>2
        <5>4. off[i] = off[i - 1] + Len(Build(begun[i])) /\ off[i - 1] \in Nat /\ off[i] \in Nat
          BY <1>3, <1>11, Offsets
        <5>5. k \in Nat /\ k <= Len(Build(begun[i])) /\ Len(Build(begun[i])) \in Nat
          BY <1>3, Counts
        <5>6. x <= off[i]
          BY <3>1, <5>4, <5>5
        <5>7. N \in 1 .. N
          BY <1>7
        <5>8. off[N - 1] \in Nat
          BY <1>11, <5>7
        <5>9. QED
          BY <1>7, <3>3, <5>3, <5>4, <5>6, <5>8
      <4>2. off[N - 1] \in Nat /\ k \in Nat
        BY <1>3, <1>11, <4>1, Counts
      <4>3. PICK j \in 1 .. n : x = from + L + j
        <5>1. x - (from + L) \in 1 .. n /\ x = from + L + (x - (from + L))
          BY <2>2, <3>1, <3>3
        <5>2. QED
          BY <5>1
      <4>4. k = s + j
        BY <1>7, <3>1, <4>1, <4>2, <4>3
      <4>5. x - from = L + j
        BY <4>3
      <4>6. Build(begun[i])[k] = b[s + j]
        BY <1>7, <4>1, <4>4 DEF b
      <4>7. QED
        BY <1>8, <1>10, <3>1, <4>3, <4>5, <4>6
    <3>4. QED
      BY <3>2, <3>3
  <2>3. QED
    BY <1>2, <1>3, <1>10, <2>1, <2>2 DEF InSocket
<1>15. SentUpTo(off, from)'
  <2>1. N \in 1 .. N
    BY <1>7
  <2>2. off[N - 1] \in Nat
    BY <1>11, <2>1
  <2>3. from + Len(socket') = off[N - 1] + (s + n)
    <3>1. PICK o \in Nat : o = off[N - 1]
      BY <2>2
    <3>2. from + L = o + s
      BY <1>7, <3>1
    <3>3. from + (L + n) = o + (s + n)
      BY <3>2
    <3>4. QED
      BY <1>10, <3>1, <3>3
  <2>4. CASE s + n = l
    <3>1. sendMtx' = NoThread
      BY <1>1, <1>5, <1>6, <2>4 DEF SendReturns, b
    <3>2. from + Len(socket') = off[N]
      BY <1>11, <2>3, <2>4
    <3>3. QED
      BY <1>2, <1>3, <3>1, <3>2 DEF SentUpTo
  <2>5. CASE s + n # l
    <3>1. sent' = [sent EXCEPT ![t] = @ + n] /\ message' = message /\ sendMtx' = t
      BY <1>1, <1>5, <1>6, <2>5 DEF b
    <3>2. sent'[t] = s + n
      BY <1>5, <3>1 DEF TypeInv, TypeOK
    <3>3. QED
      BY <1>2, <1>3, <1>7, <2>3, <3>1, <3>2, ThreadsAssumption DEF SentUpTo
  <2>6. QED
    BY <2>4, <2>5
<1>16. QED
  BY <1>13, <1>14, <1>15


LEMMA UnderwayAgain ==
  ASSUME Reading', NEW off, NEW from, from = off[Len(delivered')] + Taken',
         Ends(off)', InSocket(off, from)', SentUpTo(off, from)'
  PROVE  Underway'
<1>1. Streams(off)'
  BY DEF Streams
<1>2. (\E o : Streams(o))'
  BY <1>1
<1>3. QED
  BY <1>2 DEF Underway

LEMMA WriteStream ==
  ASSUME TypeInv, StreamInv, NEW t \in Threads, Write(t)
  PROVE  StreamInv'
<1>1. TypeInv'
  BY LockType, SendType, SendErrorType DEF Write
<1>2. begun' \in Seq(UNION {Messages[u] : u \in Threads})
  BY <1>1 DEF TypeInv, TypeOK
<1>3. UNCHANGED <<readVars, connVars>>
  BY DEF Write, Lock, Send, SendError
<1>4. at' = at /\ packet' = packet /\ delivered' = delivered /\ torn' = torn
  BY <1>3 DEF readVars, connVars
<1>5. Extended
  <2>1. CASE begun' = begun
    BY <2>1, Counts DEF Extended
  <2>2. CASE \E m \in Messages[t] : Lock(t, m)
    <3>1. PICK m \in Messages[t] : begun' = Append(begun, m)
      BY <2>2 DEF Lock
    <3>2. begun \in Seq(UNION {Messages[u] : u \in Threads})
          /\ m \in UNION {Messages[u] : u \in Threads}
      BY DEF TypeInv, TypeOK
    <3>3. Len(begun') = Len(begun) + 1 /\ \A i \in 1 .. Len(begun) : begun'[i] = begun[i]
      BY <3>1, <3>2
    <3>4. QED
      BY <3>3, Counts DEF Extended
  <2>3. QED
    BY <2>1, <2>2 DEF Write, Send, SendError
<1> SUFFICES ASSUME ~torn PROVE ReadsWell' /\ GaveUp' /\ (at'[1] # "error" => Underway')
  BY <1>4 DEF StreamInv
<1>6. ReadsWell /\ GaveUp /\ (at[1] # "error" => Underway)
  BY DEF StreamInv
<1>7. ReadsWell'
  BY <1>2, <1>4, <1>5, <1>6, ReadsSame
<1>8. GaveUp'
  BY <1>2, <1>4, <1>5, <1>6, GaveUpSame
<1>9. ASSUME at'[1] # "error" PROVE Underway'
  <2>1. Underway /\ at[1] # "error"
    BY <1>4, <1>6, <1>9
  <2>2. Reading'
    BY <1>2, <1>4, <1>5, <2>1, ReadingSame DEF Underway
  <2>3. PICK off : \E from \in Nat :
          /\ from = off[Len(delivered)] + Taken
          /\ Ends(off) /\ InSocket(off, from) /\ SentUpTo(off, from)
    BY <1>6, <2>1, From
  <2>4. PICK from \in Nat :
          /\ from = off[Len(delivered)] + Taken
          /\ Ends(off) /\ InSocket(off, from) /\ SentUpTo(off, from)
    BY <2>3
  <2>5. Taken' = Taken
    BY <1>4, TakenSame
  <2>6. CASE \E m \in Messages[t] : Lock(t, m)
    <3>1. PICK m \in Messages[t] : Lock(t, m)
      BY <2>6
    <3>2. PICK new :
            /\ \A i \in 0 .. Len(begun) : new[i] = off[i]
            /\ Ends(new)' /\ InSocket(new, from)' /\ SentUpTo(new, from)'
      BY <2>4, <3>1, LockStream
    <3>3. Len(delivered) \in 0 .. Len(begun)
      BY <1>6, Counts DEF ReadsWell
    <3>4. from = new[Len(delivered')] + Taken'
      BY <1>4, <2>4, <2>5, <3>2, <3>3
    <3>5. QED
      BY <2>2, <3>2, <3>4, UnderwayAgain
  <2>7. CASE Send(t)
    <3>1. Ends(off)' /\ InSocket(off, from)' /\ SentUpTo(off, from)'
      BY <2>4, <2>7, SendStream
    <3>2. from = off[Len(delivered')] + Taken'
      BY <1>4, <2>4, <2>5
    <3>3. QED
      BY <2>2, <3>1, <3>2, UnderwayAgain
  <2>8. CASE SendError(t)
    <3>1. UNCHANGED <<begun, socket, open>> /\ ~open
      BY <2>8 DEF SendError, connVars
    <3>2. Ends(off)'
      BY <2>4, <3>1 DEF Ends
    <3>3. InSocket(off, from)'
      BY <2>4, <3>1 DEF InSocket
    <3>4. SentUpTo(off, from)'
      BY <3>1 DEF SentUpTo
    <3>5. from = off[Len(delivered')] + Taken'
      BY <1>4, <2>4, <2>5
    <3>6. QED
      BY <2>2, <3>2, <3>3, <3>4, <3>5, UnderwayAgain
  <2>9. QED
    BY <2>6, <2>7, <2>8 DEF Write
<1>10. QED
  BY <1>7, <1>8, <1>9

(* Looking at stopFlag, and a recv() without bytes.                        *)
LEMMA NoBytesStream ==
  ASSUME TypeInv, StreamInv, NEW f \in Fields, Check(f) \/ Timeout(f) \/ Closed(f)
  PROVE  StreamInv'
<1>1. UNCHANGED <<sendVars, connVars, packet, delivered, begun, socket>>
  BY DEF Check, Timeout, Closed
<1>2. \/ at' \in {<<"error", "Stopped">>, <<"error", "ConnectionLost">>}
      \/ at' \in {<<"check", f>>, <<"recv", f>>} /\ at \in {<<"check", f>>, <<"recv", f>>}
  BY DEF Check, Timeout, Closed, In, To
<1>3. torn' = torn /\ open' = open /\ sendMtx' = sendMtx /\ message' = message /\ sent' = sent
  BY <1>1 DEF sendVars, connVars
<1>4. Extended /\ begun' \in Seq(UNION {Messages[u] : u \in Threads})
  BY <1>1, Counts DEF Extended, TypeInv, TypeOK
<1> SUFFICES ASSUME ~torn PROVE ReadsWell' /\ GaveUp' /\ (at'[1] # "error" => Underway')
  BY <1>3 DEF StreamInv
<1>5. ReadsWell /\ GaveUp /\ (at[1] # "error" => Underway)
  BY DEF StreamInv
<1>6. ReadsWell'
  BY <1>1, <1>4, <1>5, ReadsSame
<1>7. GaveUp'
  BY <1>2 DEF GaveUp
<1>8. ASSUME at'[1] # "error" PROVE Underway'
  <2>1. at[1] # "error" /\ at'[2] = at[2]
    BY <1>2, <1>8
  <2>2. Reading'
    BY <1>1, <1>4, <1>5, <2>1, ReadingSame DEF Underway
  <2>3. PICK off : Streams(off)
    BY <1>5, <2>1 DEF Underway
  <2>4. Taken' = Taken
    BY <1>1, <2>1, TakenSame
  <2>5. Ends(off)'
    BY <1>1, <2>3 DEF Streams, Ends
  <2>6. InSocket(off, off[Len(delivered)] + Taken)'
    BY <1>1, <2>3, <2>4 DEF Streams, InSocket
  <2>7. SentUpTo(off, off[Len(delivered)] + Taken)'
    BY <1>1, <1>3, <2>3, <2>4 DEF Streams, SentUpTo
  <2>8. Streams(off)'
    BY <2>5, <2>6, <2>7 DEF Streams
  <2>9. (\E o : Streams(o))'
    BY <2>8
  <2>10. QED
    BY <2>2, <2>9 DEF Underway
<1>9. QED
  BY <1>6, <1>7, <1>8

LEMMA ConnectionStream ==
  ASSUME TypeInv, StreamInv, Stop \/ Lose
  PROVE  StreamInv'
<1>1. UNCHANGED <<sendVars, readVars, torn, begun>>
  BY DEF Stop, Lose
<1>2. \/ socket' = socket /\ open' = open
      \/ socket' \in {socket, <<>>} /\ open' = FALSE
  BY DEF Stop, Lose
<1>3. sendMtx' = sendMtx /\ message' = message /\ sent' = sent /\ at' = at /\ packet' = packet
      /\ delivered' = delivered
  BY <1>1 DEF sendVars, readVars
<1>4. Extended /\ begun' \in Seq(UNION {Messages[u] : u \in Threads})
  BY <1>1, Counts DEF Extended, TypeInv, TypeOK
<1> SUFFICES ASSUME ~torn PROVE ReadsWell' /\ GaveUp' /\ (at'[1] # "error" => Underway')
  BY <1>1 DEF StreamInv
<1>5. ReadsWell /\ GaveUp /\ (at[1] # "error" => Underway)
  BY DEF StreamInv
<1>6. ReadsWell'
  BY <1>3, <1>4, <1>5, ReadsSame
<1>7. GaveUp'
  BY <1>3, <1>4, <1>5, GaveUpSame
<1>8. ASSUME at'[1] # "error" PROVE Underway'
  <2>1. Underway /\ at[1] # "error"
    BY <1>3, <1>5, <1>8
  <2>2. Reading'
    BY <1>3, <1>4, <2>1, ReadingSame DEF Underway
  <2>3. PICK off : \E from \in Nat :
          /\ from = off[Len(delivered)] + Taken
          /\ Ends(off) /\ InSocket(off, from) /\ SentUpTo(off, from)
    BY <1>5, <2>1, From
  <2>4. PICK from \in Nat :
          /\ from = off[Len(delivered)] + Taken
          /\ Ends(off) /\ InSocket(off, from) /\ SentUpTo(off, from)
    BY <2>3
  <2>5. Taken' = Taken
    BY <1>3, TakenSame
  <2>6. Ends(off)'
    BY <1>1, <2>4 DEF Ends
  <2>7. InSocket(off, from)'
    <3>1. CASE socket' = socket
      BY <1>1, <2>4, <3>1 DEF InSocket
    <3>2. CASE socket' = <<>>
      <4>1. Len(socket') = 0
        BY <3>2
      <4>2. from + 0 <= off[Len(begun)]
        <5>1. Len(begun) \in 0 .. Len(begun)
          BY Counts
        <5>2. off[Len(begun)] \in Nat
          BY <2>4, <5>1, Offsets
        <5>3. from + Len(socket) <= off[Len(begun)] /\ Len(socket) \in Nat
          BY <2>4, Counts DEF InSocket
        <5>4. QED
          BY <5>2, <5>3
      <4>3. ASSUME NEW i \in 1 .. Len(begun), NEW k \in 1 .. Len(Build(begun[i]))
            PROVE  ~(from < off[i - 1] + k /\ off[i - 1] + k <= from + 0)
        <5>1. off[i - 1] \in Nat /\ k \in Nat
          BY <2>4, Offsets, Counts
        <5>2. QED
          BY <5>1
      <4>4. QED
        BY <1>1, <4>1, <4>2, <4>3 DEF InSocket
    <3>3. QED
      BY <1>2, <3>1, <3>2
  <2>8. SentUpTo(off, from)'
    <3>1. CASE socket' = socket /\ open' = open
      BY <1>1, <1>3, <2>4, <3>1 DEF SentUpTo
    <3>2. CASE open' = FALSE
      BY <3>2 DEF SentUpTo
    <3>3. QED
      BY <1>2, <3>1, <3>2
  <2>9. from = off[Len(delivered')] + Taken'
    BY <1>3, <2>4, <2>5
  <2>10. QED
    BY <2>2, <2>6, <2>7, <2>8, <2>9, UnderwayAgain
<1>9. QED
  BY <1>6, <1>7, <1>8

(* A new socket: nothing is on its way, or all of one message.             *)
LEMMA ReopenStream ==
  ASSUME TypeInv, Reopen
  PROVE  StreamInv'
<1>1. /\ torn' = (HalfSent # {}) /\ socket' = <<>> /\ at' = <<"check", "first">>
      /\ packet' = NoPacket /\ delivered' = <<>> /\ UNCHANGED sendVars
      /\ begun' = IF sendMtx = NoThread THEN <<>> ELSE <<message[sendMtx]>>
  BY DEF Reopen
<1>2. sendMtx' = sendMtx /\ message' = message /\ sent' = sent
  BY <1>1 DEF sendVars
<1>3. TypeInv'
  BY ReopenType
<1> SUFFICES ASSUME HalfSent = {} PROVE ReadsWell' /\ GaveUp' /\ Underway'
  BY <1>1 DEF StreamInv
<1>4. Len(delivered') = 0 /\ Len(socket') = 0
  BY <1>1
<1>5. Len(begun') \in Nat
  BY <1>3 DEF TypeInv, TypeOK
<1>6. ReadsWell'
  <2>1. Len(delivered') <= Len(begun')
    BY <1>4, <1>5
  <2>2. (\A i \in 1 .. Len(delivered) : Frames(begun[i], delivered[i]))'
    BY <1>4
  <2>3. QED
    BY <2>1, <2>2 DEF ReadsWell
<1>7. GaveUp'
  BY <1>1 DEF GaveUp
<1>8. Reading'
  BY <1>1 DEF Reading
<1>9. Taken' = 0
  BY <1>1 DEF Taken
<1>10. CASE sendMtx = NoThread
  <2> DEFINE off == [i \in 0 .. 0 |-> 0]
  <2>1. off[0] = 0 /\ off \in [0 .. 0 -> Nat] /\ \A i \in 0 .. 0 : i = 0
    OBVIOUS
  <2> HIDE DEF off
  <2>2. Len(begun') = 0 /\ begun' = <<>>
    BY <1>1, <1>10
  <2>3. Ends(off)'
    <3>1. \A i, j \in 0 .. 0 : off[i] <= off[j]
      BY <2>1
    <3>2. QED
      BY <2>1, <2>2, <3>1 DEF Ends
  <2>4. InSocket(off, 0)'
    BY <1>4, <2>1, <2>2 DEF InSocket
  <2>5. SentUpTo(off, 0)'
    BY <1>2, <1>4, <1>10, <2>1, <2>2 DEF SentUpTo
  <2>6. 0 = off[Len(delivered')] + Taken'
    BY <1>4, <1>9, <2>1
  <2>7. Underway'
    BY <1>8, <2>3, <2>4, <2>5, <2>6, UnderwayAgain
  <2>8. QED
    BY <1>6, <1>7, <2>7
<1>11. CASE sendMtx # NoThread
  <2>1. sendMtx \in Threads /\ message[sendMtx] # None
    BY <1>11 DEF TypeInv, TypeOK, WriterInv
  <2>2. PICK m \in Message : m = message[sendMtx]
    BY <2>1 DEF TypeInv, TypeOK
  <2> DEFINE off == [i \in 0 .. 1 |-> IF i = 0 THEN 0 ELSE Len(Build(m))]
  <2>3. sent[sendMtx] = 0
    BY <2>1 DEF HalfSent, Sending, TypeInv, TypeOK
  <2>4. Len(Build(m)) \in Nat
    BY BuildType
  <2>5. off[0] = 0 /\ off[1] = Len(Build(m)) /\ off \in [0 .. 1 -> Nat]
    BY <2>4
  <2> HIDE DEF off
  <2>6. Len(begun') = 1 /\ begun'[1] = m
    BY <1>1, <1>11, <2>2
  <2>7. \A i \in 1 .. 1 : i = 1 /\ i - 1 = 0
    OBVIOUS
  <2>8. Ends(off)'
    <3>1. off[1] = off[0] + Len(Build(m)) /\ off[0] <= off[1] /\ off[0] <= off[0] /\ off[1] <= off[1]
      BY <2>4, <2>5
    <3>2. \A i \in 0 .. 1 : i = 0 \/ i = 1
      OBVIOUS
    <3>3. \A i, j \in 0 .. 1 : i <= j => off[i] <= off[j]
      BY <3>1, <3>2
    <3>4. QED
      BY <2>5, <2>6, <2>7, <3>1, <3>3 DEF Ends
  <2>9. InSocket(off, 0)'
    <3>1. 0 + 0 <= off[1]
      BY <2>4, <2>5
    <3>2. ASSUME NEW k \in 1 .. Len(Build(m)) PROVE ~(0 < off[0] + k /\ off[0] + k <= 0 + 0)
      BY <2>4, <2>5
    <3>3. QED
      BY <1>4, <2>6, <2>7, <3>1, <3>2 DEF InSocket
  <2>10. SentUpTo(off, 0)'
    BY <1>2, <1>4, <1>11, <2>3, <2>2, <2>5, <2>6 DEF SentUpTo
  <2>11. 0 = off[Len(delivered')] + Taken'
    BY <1>4, <1>9, <2>5
  <2>12. Underway'
    BY <1>8, <2>8, <2>9, <2>10, <2>11, UnderwayAgain
  <2>13. QED
    BY <1>6, <1>7, <2>12
<1>12. QED
  BY <1>10, <1>11


(* The reader has taken so many bytes of the packet under way, which       *)
(* starts in the stream where the d-th one ends.                           *)
InPacket(off, from, d, taken) ==
  /\ from \in Nat /\ d \in Nat /\ taken \in Nat
  /\ Ends(off) /\ InSocket(off, from)
  /\ d = Len(delivered) /\ d < Len(begun) /\ from = off[d] + taken

(* Its next bytes are in the socket.                                       *)
LEMMA ByteAt ==
  ASSUME TypeInv, NEW off, NEW from, NEW d, NEW taken, InPacket(off, from, d, taken)
  PROVE  \A j \in 1 .. Len(socket) :
           taken + j <= Len(Build(begun[d + 1])) => socket[j] = Build(begun[d + 1])[taken + j]
<1> SUFFICES ASSUME NEW j \in 1 .. Len(socket), taken + j <= Len(Build(begun[d + 1]))
             PROVE  socket[j] = Build(begun[d + 1])[taken + j]
  OBVIOUS
<1> USE DEF InPacket
<1>1. d + 1 \in 1 .. Len(begun) /\ (d + 1) - 1 = d
  BY Counts
<1>2. PICK L \in Nat : L = Len(socket)
  BY Counts
<1>3. off[d] \in Nat
  BY <1>1, Offsets
<1>4. PICK l \in Nat : l = Len(Build(begun[d + 1]))
  BY <1>1, Counts
<1>5. taken + j \in 1 .. l
  BY <1>2, <1>4
<1>6. /\ from < off[d] + (taken + j) /\ off[d] + (taken + j) <= from + L
      /\ (off[d] + (taken + j)) - from = j
  BY <1>2, <1>3
<1>7. QED
  BY <1>1, <1>2, <1>4, <1>5, <1>6 DEF InSocket

(* The reader is through with a packet.                                    *)
LEMMA NextPacket ==
  ASSUME TypeInv, NEW d \in Nat, d = Len(delivered), d < Len(begun), begun' = begun,
         Len(delivered') = d + 1, at' = <<"check", "first">>, packet' = NoPacket,
         NEW off, NEW from \in Nat, Ends(off)', InSocket(off, from)', SentUpTo(off, from)',
         from = off[d] + Len(Build(begun[d + 1]))
  PROVE  Underway'
<1>1. d + 1 \in 1 .. Len(begun) /\ (d + 1) - 1 = d
  BY Counts
<1>2. Ends(off)
  BY DEF Ends
<1>3. off[d + 1] = off[d] + Len(Build(begun[d + 1])) /\ d + 1 \in 0 .. Len(begun)
  BY <1>1, <1>2, Offsets
<1>4. off[d + 1] \in Nat /\ from = off[d + 1]
  BY <1>2, <1>3, Offsets
<1>5. Taken' = 0
  BY DEF Taken
<1>6. from = off[Len(delivered')] + Taken'
  BY <1>4, <1>5
<1>7. Reading'
  BY DEF Reading
<1>8. QED
  BY <1>6, <1>7, UnderwayAgain

LEMMA ReadFirstStream ==
  ASSUME TypeInv, StreamInv, ReadFirst
  PROVE  StreamInv'
<1>1. /\ at = <<"recv", "first">> /\ socket # <<>> /\ Take(1) /\ at' = <<"check", "length">>
      /\ packet' = [NoPacket EXCEPT !.first = Head(socket)]
      /\ UNCHANGED <<sendVars, connVars, delivered, begun>>
  BY DEF ReadFirst, In, To
<1>2. Extended /\ begun' \in Seq(UNION {Messages[u] : u \in Threads}) /\ torn' = torn
  BY <1>1, Counts DEF Extended, TypeInv, TypeOK, connVars
<1> SUFFICES ASSUME ~torn PROVE ReadsWell' /\ GaveUp' /\ Underway'
  BY <1>2 DEF StreamInv
<1>3. ReadsWell /\ GaveUp /\ Underway
  BY <1>1 DEF StreamInv
<1>4. ReadsWell'
  BY <1>1, <1>2, <1>3, ReadsSame
<1>5. GaveUp'
  BY <1>1 DEF GaveUp
<1>6. PICK off : \E from \in Nat :
        /\ from = off[Len(delivered)] + Taken /\ off[Len(delivered)] \in Nat
        /\ Ends(off) /\ InSocket(off, from) /\ SentUpTo(off, from)
  BY <1>1, <1>3, From
<1>7. PICK from \in Nat :
        /\ from = off[Len(delivered)] + Taken /\ off[Len(delivered)] \in Nat
        /\ Ends(off) /\ InSocket(off, from) /\ SentUpTo(off, from)
  BY <1>6
<1>8. PICK d \in Nat : d = Len(delivered)
  BY Counts
<1>9. Taken = 0 /\ from = off[d] + 0
  BY <1>1, <1>7, <1>8 DEF Taken
<1>10. 1 \in 1 .. Len(socket) /\ Head(socket) = socket[1] /\ Len(socket) \in Nat
  BY <1>1 DEF TypeInv, TypeOK
<1>11. d < Len(begun)
  <2>1. PICK N \in Nat : N = Len(begun)
    BY Counts
  <2>2. d <= N
    BY <1>3, <1>8, <2>1 DEF ReadsWell
  <2>3. off[d] + 0 + Len(socket) <= off[N]
    BY <1>7, <1>9, <2>1 DEF InSocket
  <2>4. d # N
    <3>1. SUFFICES ASSUME d = N PROVE FALSE
      OBVIOUS
    <3>2. off[d] \in Nat
      BY <1>7, <1>8
    <3>3. QED
      BY <1>10, <2>3, <3>1, <3>2
  <2>5. QED
    BY <2>1, <2>2, <2>4
<1>12. begun[d + 1] \in Message
  <2>1. d + 1 \in 1 .. Len(begun)
    BY <1>11, Counts
  <2>2. QED
    BY <2>1, Counts
<1> DEFINE m == begun[d + 1]
<1>13. PICK body \in Seq(Nat) :
         /\ Build(m) \in Seq(Nat)
         /\ Len(Build(m)) = 1 + Len(VarLen[Len(body)]) + Len(body)
         /\ \A j \in 1 .. Len(VarLen[Len(body)]) : Build(m)[1 + j] = VarLen[Len(body)][j]
  BY <1>12, BuildParts
<1>14. PICK rest \in Nat : rest = Len(body)
  OBVIOUS
<1>15. Head(socket) = Build(m)[1]
  <2>1. Len(Build(m)) >= 2 /\ Len(Build(m)) \in Nat
    BY <1>12, BuildType
  <2>2. PICK taken \in Nat : taken = 0
    OBVIOUS
  <2>3. InPacket(off, from, d, taken)
    BY <1>7, <1>8, <1>9, <1>11, <2>2 DEF InPacket
  <2>4. taken + 1 <= Len(Build(begun[d + 1])) /\ taken + 1 = 1
    BY <2>1, <2>2
  <2>5. socket[1] = Build(begun[d + 1])[taken + 1]
    <3>1. \A j \in 1 .. Len(socket) :
            taken + j <= Len(Build(begun[d + 1]))
              => socket[j] = Build(begun[d + 1])[taken + j]
      BY <2>3, ByteAt
    <3>2. QED
      BY <1>10, <2>4, <3>1
  <2>6. QED
    BY <1>10, <2>4, <2>5
<1>16. LengthLeft(Build(m), 0, 0, 1, rest)
  <2>1. 0 < 1 /\ 0 + 1 * rest = rest
    OBVIOUS
  <2>2. Len(VarLen[rest]) \in Nat
    BY VarLenDigits
  <2>3. 1 + 0 + Len(VarLen[rest]) + rest = 1 + Len(VarLen[rest]) + rest
    BY <2>2
  <2>4. \A j \in 1 .. Len(VarLen[rest]) : 1 + 0 + j = 1 + j
    BY <2>2
  <2>5. QED
    BY <1>13, <1>14, <2>1, <2>3, <2>4 DEF LengthLeft
<1>17. packet' = [first |-> Build(m)[1], remaining |-> 0, multiplier |-> 1, digits |-> 0,
                  body |-> <<>>]
  BY <1>1, <1>15 DEF NoPacket
<1>18. MidLength(Build(m))'
  <2>1. Build(m)' = Build(m)
    BY <1>1 DEF Build
  <2>2. /\ packet'.first = Build(m)[1] /\ packet'.body = <<>>
        /\ packet'.multiplier = 1 /\ packet'.digits = 0 /\ packet'.remaining = 0
    BY <1>17
  <2>3. Pow[0] = 1
    BY PowStep
  <2>4. packet'.multiplier = Pow[packet'.digits]
    BY <2>2, <2>3
  <2>5. LengthLeft(Build(m), packet'.digits, packet'.remaining, packet'.multiplier, rest)
    BY <1>16, <2>2
  <2>6. packet'.digits > 0 => rest > 0
    BY <2>2
  <2>7. QED
    BY <1>1, <2>2, <2>4, <2>5, <2>6 DEF MidLength
<1>19. Reading'
  <2>1. at'[2] = "length"
    BY <1>1
  <2>2. Len(delivered') = d /\ begun' = begun
    BY <1>1, <1>8
  <2>3. QED
    BY <1>11, <1>18, <2>1, <2>2 DEF Reading
<1>20. Ends(off)' /\ InSocket(off, from + 1)' /\ SentUpTo(off, from + 1)'
  BY <1>1, <1>7, <1>10, TakeStream
<1>21. Taken' = 1
  <2>1. packet'.digits = 0 /\ at'[2] = "length"
    BY <1>1, <1>17
  <2>2. QED
    BY <2>1 DEF Taken
<1>22. from + 1 = off[Len(delivered')] + Taken'
  BY <1>1, <1>7, <1>8, <1>9, <1>21
<1>23. Underway'
  BY <1>19, <1>20, <1>22, UnderwayAgain
<1>24. QED
  BY <1>4, <1>5, <1>23

LEMMA ReadLengthStream ==
  ASSUME TypeInv, StreamInv, ReadLength
  PROVE  StreamInv'
<1> DEFINE c == Head(socket)
           p == [packet EXCEPT !.remaining = @ + (c % Half) * packet.multiplier,
                               !.multiplier = @ * Half, !.digits = @ + 1]
<1>1. /\ at = <<"recv", "length">> /\ socket # <<>> /\ Take(1)
      /\ UNCHANGED <<sendVars, connVars, begun>>
  BY DEF ReadLength, In
<1>2. IF (c \div Half) % 2 = 1
        THEN /\ IF NoMoreDigits(p) THEN at' = <<"error", "Malformed">> ELSE at' = <<"check", "length">>
             /\ packet' = p /\ delivered' = delivered
        ELSE IF p.remaining > 0
               THEN at' = <<"check", "body">> /\ packet' = p /\ delivered' = delivered
               ELSE Deliver(p)
  BY DEF ReadLength, To
<1>3. Extended /\ begun' \in Seq(UNION {Messages[u] : u \in Threads}) /\ torn' = torn
  BY <1>1, Counts DEF Extended, TypeInv, TypeOK, connVars
<1> SUFFICES ASSUME ~torn PROVE ReadsWell' /\ GaveUp' /\ (at'[1] # "error" => Underway')
  BY <1>3 DEF StreamInv
<1>4. ReadsWell /\ GaveUp /\ Underway
  BY <1>1 DEF StreamInv
<1>5. PICK off : \E from \in Nat :
        /\ from = off[Len(delivered)] + Taken /\ off[Len(delivered)] \in Nat
        /\ Ends(off) /\ InSocket(off, from) /\ SentUpTo(off, from)
  BY <1>1, <1>4, From
<1>6. PICK from \in Nat :
        /\ from = off[Len(delivered)] + Taken /\ off[Len(delivered)] \in Nat
        /\ Ends(off) /\ InSocket(off, from) /\ SentUpTo(off, from)
  BY <1>5
<1>7. PICK d \in Nat : d = Len(delivered)
  BY Counts
<1>8. d < Len(begun) /\ MidLength(Build(begun[d + 1]))
  BY <1>1, <1>4, <1>7 DEF Underway, Reading
<1>9. PICK m \in Message : m = begun[d + 1]
  <2>1. d + 1 \in 1 .. Len(begun)
    BY <1>8, Counts
  <2>2. QED
    BY <2>1, Counts
<1>10. PICK b \in Seq(Nat) : b = Build(m)
  BY BuildType
<1>11. packet \in [first : Nat, remaining : Nat, multiplier : Nat, digits : 0 .. MaxDigits,
                   body : Seq(Nat)]
  BY DEF TypeInv, TypeOK
<1>12. PICK digits \in Nat, remaining \in Nat, multiplier \in Nat :
         digits = packet.digits /\ remaining = packet.remaining /\ multiplier = packet.multiplier
  BY <1>11, DigitsAssumption
<1>13. packet.first = b[1] /\ packet.body = <<>> /\ multiplier = Pow[digits]
  BY <1>8, <1>9, <1>10, <1>12 DEF MidLength
<1>14. PICK rest \in Nat :
         (digits > 0 => rest > 0) /\ LengthLeft(b, digits, remaining, multiplier, rest)
  BY <1>8, <1>9, <1>10, <1>12 DEF MidLength
<1>15. digits < MaxDigits
  BY <1>1, <1>12 DEF TypeInv, DigitInv
<1>16. Taken = 1 + digits /\ from = off[d] + (1 + digits)
  BY <1>1, <1>6, <1>7, <1>12 DEF Taken
<1>17. 1 \in 1 .. Len(socket) /\ c = socket[1]
  BY <1>1 DEF TypeInv, TypeOK
<1>18. /\ 1 + digits + 1 <= Len(b)
       /\ b[1 + digits + 1] % Half = IF rest < Half THEN rest ELSE Digit(rest)
       /\ (b[1 + digits + 1] \div Half) % 2 = IF rest < Half THEN 0 ELSE 1
  BY <1>14, NextDigit
<1>19. c = b[1 + digits + 1]
  <2>1. PICK taken \in Nat : taken = 1 + digits
    OBVIOUS
  <2>2. taken + 1 <= Len(Build(begun[d + 1])) /\ from = off[d] + taken
    BY <1>9, <1>10, <1>16, <1>18, <2>1
  <2>3. socket[1] = Build(begun[d + 1])[taken + 1]
    <3>1. InPacket(off, from, d, taken)
      BY <1>6, <1>7, <1>8, <2>2 DEF InPacket
    <3>2. 1 \in 1 .. Len(socket)
      BY <1>17
    <3>3. \A j \in 1 .. Len(socket) :
            taken + j <= Len(Build(begun[d + 1]))
              => socket[j] = Build(begun[d + 1])[taken + j]
      BY <3>1, ByteAt
    <3>4. QED
      BY <2>2, <3>2, <3>3
  <2>4. QED
    BY <1>9, <1>10, <1>17, <2>1, <2>3
<1> HIDE DEF c
<1>20. /\ p.first = b[1] /\ p.body = <<>> /\ p.digits = digits + 1
       /\ p.multiplier = multiplier * Half
       /\ p.remaining = remaining + (c % Half) * multiplier
  BY <1>11, <1>12, <1>13
<1> HIDE DEF p
<1>21. p.multiplier = Pow[digits + 1]
  <2>1. Pow[digits + 1] = Half * Pow[digits] /\ Pow[digits] \in Nat
    BY PowStep
  <2>2. multiplier * Half = Half * multiplier
    BY HalfAssumption
  <2>3. QED
    BY <1>13, <1>20, <2>1, <2>2
<1>22. Ends(off)' /\ InSocket(off, from + 1)' /\ SentUpTo(off, from + 1)'
  BY <1>1, <1>6, <1>17, TakeStream
<1>23. from + 1 = off[d] + (1 + (digits + 1))
  <2>1. PICK o \in Nat : o = off[d]
    BY <1>6, <1>7
  <2>2. from = o + (1 + digits)
    BY <1>16, <2>1
  <2>3. from + 1 = o + (1 + (digits + 1))
    BY <2>2
  <2>4. QED
    BY <2>1, <2>3
<1>24. CASE rest >= Half
  <2>1. c % Half = Digit(rest) /\ (c \div Half) % 2 = 1
    BY <1>18, <1>19, <1>24, HalfAssumption
  <2>2. /\ packet' = p /\ delivered' = delivered
        /\ IF NoMoreDigits(p) THEN at' = <<"error", "Malformed">> ELSE at' = <<"check", "length">>
    BY <1>2, <2>1
  <2>3. ReadsWell'
    BY <1>3, <1>4, <2>2, ReadsSame
  <2>4. CASE NoMoreDigits(p)
    <3>1. digits + 1 = MaxDigits
      BY <1>20, <2>4 DEF NoMoreDigits
    <3>2. Half * multiplier = Pow[MaxDigits]
      <4>1. Pow[digits + 1] = Half * Pow[digits]
        BY PowStep
      <4>2. QED
        BY <1>13, <3>1, <4>1
    <3>3. Len(b) >= 1 + (digits + 2) + Half * multiplier
      BY <1>14, <1>24, TooLong
    <3>4. digits + 2 = MaxDigits + 1
      BY <3>1
    <3>5. Len(b) >= 1 + (MaxDigits + 1) + Pow[MaxDigits]
      BY <3>2, <3>3, <3>4
    <3>6. GaveUp'
      BY <1>1, <1>7, <1>8, <1>9, <1>10, <2>2, <3>5 DEF GaveUp, Build
    <3>7. at'[1] = "error"
      BY <2>2, <2>4
    <3>8. QED
      BY <2>3, <3>6, <3>7
  <2>5. CASE ~NoMoreDigits(p)
    <3>1. at' = <<"check", "length">>
      BY <2>2, <2>5
    <3>2. /\ Rest(rest) \in Nat /\ Rest(rest) > 0
          /\ LengthLeft(b, digits + 1, remaining + Digit(rest) * multiplier, multiplier * Half,
                        Rest(rest))
      BY <1>14, <1>24, MoreDigits
    <3>3. LengthLeft(b, p.digits, p.remaining, p.multiplier, Rest(rest))
      BY <1>20, <2>1, <3>2
    <3>4. MidLength(Build(begun[d + 1]))'
      <4>1. packet'.first = b[1] /\ packet'.body = <<>> /\ packet'.multiplier = Pow[packet'.digits]
        BY <1>20, <1>21, <2>2
      <4>2. \E r \in Nat :
              /\ packet'.digits > 0 => r > 0
              /\ LengthLeft(b, packet'.digits, packet'.remaining, packet'.multiplier, r)
        BY <2>2, <3>2, <3>3
      <4>3. Build(begun'[d + 1]) = b
        BY <1>1, <1>9, <1>10
      <4>4. QED
        BY <1>1, <1>9, <1>10, <4>1, <4>2, <4>3 DEF MidLength
    <3>5. Reading'
      <4>1. at'[2] = "length" /\ Len(delivered') = d /\ begun' = begun
        BY <1>1, <1>7, <2>2, <3>1
      <4>2. QED
        BY <1>8, <3>4, <4>1 DEF Reading
    <3>6. Taken' = 1 + (digits + 1)
      <4>1. at'[2] = "length" /\ packet'.digits = digits + 1
        BY <1>20, <2>2, <3>1
      <4>2. QED
        BY <4>1 DEF Taken
    <3>7. from + 1 = off[Len(delivered')] + Taken'
      BY <1>7, <1>23, <2>2, <3>6
    <3>8. Underway'
      BY <1>22, <3>5, <3>7, UnderwayAgain
    <3>9. GaveUp'
      BY <3>1 DEF GaveUp
    <3>10. QED
      BY <2>3, <3>8, <3>9
  <2>6. QED
    BY <2>4, <2>5
<1>25. CASE rest < Half
  <2>1. c % Half = rest /\ (c \div Half) % 2 = 0
    BY <1>18, <1>19, <1>25
  <2>2. PICK n \in Nat : n = remaining + rest * multiplier
    BY <1>14, <1>25, LastDigit
  <2>3. p.remaining = n
    BY <1>20, <2>1, <2>2
  <2>4. /\ n < multiplier * Half
        /\ Len(b) = 1 + (digits + 1) + n
        /\ rest > 0 => n >= multiplier
    BY <1>14, <1>25, <2>2, LastDigit
  <2>5. n < Pow[digits + 1] /\ (digits + 1 = 1 \/ n >= Pow[(digits + 1) - 1])
    <3>1. n < Pow[digits + 1]
      BY <1>20, <1>21, <2>4
    <3>2. (digits + 1) - 1 = digits /\ (digits > 0 \/ digits + 1 = 1)
      OBVIOUS
    <3>3. QED
      BY <1>13, <1>14, <2>4, <3>1, <3>2
  <2>6. CASE n > 0
    <3>1. at' = <<"check", "body">> /\ packet' = p /\ delivered' = delivered
      BY <1>2, <2>1, <2>3, <2>6
    <3>2. ReadsWell'
      BY <1>3, <1>4, <3>1, ReadsSame
    <3>3. GaveUp'
      BY <3>1 DEF GaveUp
    <3>4. MidBody(Build(begun[d + 1]))'
      <4>1. Build(begun'[d + 1]) = b
        BY <1>1, <1>9, <1>10
      <4>2. /\ packet'.first = b[1] /\ packet'.body = <<>> /\ packet'.digits = digits + 1
            /\ packet'.remaining = n
        BY <1>20, <2>3, <3>1
      <4>3. Len(packet'.body) = 0 /\ digits + 1 > 0
        BY <4>2
      <4>4. \A j \in 1 .. 0 : packet'.body[j] = b[1 + (digits + 1) + j]
        OBVIOUS
      <4>5. QED
        BY <1>1, <1>9, <1>10, <2>4, <2>5, <2>6, <4>1, <4>2, <4>3, <4>4 DEF MidBody
    <3>5. Reading'
      <4>1. at'[2] = "body" /\ Len(delivered') = d /\ begun' = begun
        BY <1>1, <1>7, <3>1
      <4>2. QED
        BY <1>8, <3>4, <4>1 DEF Reading
    <3>6. Taken' = 1 + (digits + 1)
      <4>1. at'[2] = "body" /\ packet'.digits = digits + 1 /\ Len(packet'.body) = 0
        BY <1>20, <3>1
      <4>2. Taken' = 1 + (digits + 1) + 0
        BY <4>1 DEF Taken
      <4>3. QED
        BY <4>2
    <3>7. from + 1 = off[Len(delivered')] + Taken'
      BY <1>7, <1>23, <3>1, <3>6
    <3>8. Underway'
      BY <1>22, <3>5, <3>7, UnderwayAgain
    <3>9. QED
      BY <3>2, <3>3, <3>8
  <2>7. CASE n = 0
    <3>1. Deliver(p)
      BY <1>2, <2>1, <2>3, <2>7
    <3>2. p.first \in Nat /\ p.digits \in 1 .. MaxDigits /\ p.body \in Seq(Nat) /\ Len(p.body) = 0
      <4>1. p.first = packet.first /\ packet.first \in Nat
        BY <1>11, <1>13, <1>20
      <4>2. digits + 1 \in 1 .. MaxDigits
        BY <1>15, DigitsAssumption
      <4>3. QED
        BY <1>20, <4>1, <4>2
    <3>3. \A j \in 1 .. 0 : p.body[j] = b[1 + p.digits + j]
      OBVIOUS
    <3>4. ReadsWell' /\ Len(delivered') = Len(delivered) + 1
      BY <1>1, <1>4, <1>7, <1>8, <1>9, <1>10, <1>20, <2>3, <2>4, <2>5, <2>7, <3>1, <3>2, <3>3,
         DeliverWell
    <3>5. at' = <<"check", "first">> /\ packet' = NoPacket
      BY <3>1 DEF Deliver, To
    <3>6. GaveUp'
      BY <3>5 DEF GaveUp
    <3>7. from + 1 = off[d] + Len(Build(begun[d + 1]))
      <4>1. Len(b) = 1 + (digits + 1)
        BY <2>4, <2>7
      <4>2. QED
        BY <1>9, <1>10, <1>23, <4>1
    <3>8. from + 1 \in Nat
      OBVIOUS
    <3>9. Underway'
      BY <1>1, <1>7, <1>8, <1>22, <3>4, <3>5, <3>7, <3>8, NextPacket
    <3>10. QED
      BY <3>4, <3>6, <3>9
  <2>8. QED
    BY <2>6, <2>7
<1>26. QED
  BY <1>24, <1>25, HalfAssumption

LEMMA ReadBodyStream ==
  ASSUME TypeInv, StreamInv, ReadBody
  PROVE  StreamInv'
<1>1. at = <<"recv", "body">> /\ UNCHANGED <<sendVars, connVars, begun>>
  BY DEF ReadBody, In
<1>2. PICK n, p :
        /\ n \in 1 .. Len(socket) /\ n \in Nat \ {0} /\ Take(n)
        /\ p \in [first : Nat, remaining : Nat, multiplier : Nat, digits : 0 .. MaxDigits,
                  body : Seq(Nat)]
        /\ p.first = packet.first /\ p.remaining = packet.remaining
        /\ p.digits = packet.digits
        /\ Len(p.body) = Len(packet.body) + n /\ Len(p.body) <= packet.remaining
        /\ \A j \in 1 .. Len(packet.body) : p.body[j] = packet.body[j]
        /\ \A j \in 1 .. n : p.body[Len(packet.body) + j] = socket[j]
        /\ IF Len(p.body) = packet.remaining
             THEN Deliver(p)
             ELSE at' = <<"check", "body">> /\ packet' = p /\ UNCHANGED delivered
  BY ReadBodyFacts
<1>3. Extended /\ begun' \in Seq(UNION {Messages[u] : u \in Threads}) /\ torn' = torn
  BY <1>1, Counts DEF Extended, TypeInv, TypeOK, connVars
<1> SUFFICES ASSUME ~torn PROVE ReadsWell' /\ GaveUp' /\ Underway'
  BY <1>3 DEF StreamInv
<1>4. ReadsWell /\ GaveUp /\ Underway
  BY <1>1 DEF StreamInv
<1>5. PICK off : \E from \in Nat :
        /\ from = off[Len(delivered)] + Taken /\ off[Len(delivered)] \in Nat
        /\ Ends(off) /\ InSocket(off, from) /\ SentUpTo(off, from)
  BY <1>1, <1>4, From
<1>6. PICK from \in Nat :
        /\ from = off[Len(delivered)] + Taken /\ off[Len(delivered)] \in Nat
        /\ Ends(off) /\ InSocket(off, from) /\ SentUpTo(off, from)
  BY <1>5
<1>7. PICK d \in Nat : d = Len(delivered)
  BY Counts
<1>8. d < Len(begun) /\ MidBody(Build(begun[d + 1]))
  BY <1>1, <1>4, <1>7 DEF Underway, Reading
<1>9. PICK m \in Message : m = begun[d + 1]
  <2>1. d + 1 \in 1 .. Len(begun)
    BY <1>8, Counts
  <2>2. QED
    BY <2>1, Counts
<1>10. PICK b \in Seq(Nat) : b = Build(m)
  BY BuildType
<1>11. packet \in [first : Nat, remaining : Nat, multiplier : Nat, digits : 0 .. MaxDigits,
                   body : Seq(Nat)]
  BY DEF TypeInv, TypeOK
<1>12. PICK digits \in Nat, remaining \in Nat, got \in Nat :
         digits = packet.digits /\ remaining = packet.remaining /\ got = Len(packet.body)
  BY <1>11, DigitsAssumption
<1>13. /\ packet.first = b[1] /\ digits > 0 /\ Len(b) = 1 + digits + remaining
       /\ remaining < Pow[digits] /\ (digits = 1 \/ remaining >= Pow[digits - 1])
       /\ \A j \in 1 .. got : packet.body[j] = b[1 + digits + j]
  BY <1>8, <1>9, <1>10, <1>12 DEF MidBody
<1>14. /\ p.first = b[1] /\ p.remaining = remaining /\ p.digits = digits
       /\ Len(p.body) = got + n /\ got + n <= remaining
  BY <1>2, <1>12, <1>13
<1>15. Taken = 1 + digits + got /\ from = off[d] + (1 + digits + got)
  BY <1>1, <1>6, <1>7, <1>12 DEF Taken
<1>16. PICK taken \in Nat : taken = 1 + digits + got
  OBVIOUS
<1>17. InPacket(off, from, d, taken)
  BY <1>6, <1>7, <1>8, <1>15, <1>16 DEF InPacket
<1>18. \A j \in 1 .. Len(socket) :
         taken + j <= Len(Build(begun[d + 1])) => socket[j] = Build(begun[d + 1])[taken + j]
  BY <1>17, ByteAt
<1>19. \A j \in 1 .. got + n : p.body[j] = b[1 + digits + j]
  <2>1. ASSUME NEW j \in 1 .. got PROVE p.body[j] = b[1 + digits + j]
    BY <1>2, <1>12, <1>13
  <2>2. ASSUME NEW j \in 1 .. n PROVE p.body[got + j] = b[1 + digits + (got + j)]
    <3>1. p.body[got + j] = socket[j]
      BY <1>2, <1>12
    <3>2. j \in 1 .. Len(socket)
      BY <1>2, Counts
    <3>3. taken + j <= Len(Build(begun[d + 1]))
      <4>1. taken + j <= 1 + digits + remaining
        BY <1>2, <1>14, <1>16
      <4>2. QED
        BY <1>9, <1>10, <1>13, <4>1
    <3>4. socket[j] = Build(begun[d + 1])[taken + j]
      BY <1>18, <3>2, <3>3
    <3>5. taken + j = 1 + digits + (got + j)
      BY <1>2, <1>16
    <3>6. QED
      BY <1>9, <1>10, <3>1, <3>4, <3>5
  <2>3. ASSUME NEW j \in 1 .. got + n PROVE p.body[j] = b[1 + digits + j]
    <3>1. CASE j \in 1 .. got
      BY <2>1, <3>1
    <3>2. CASE j \notin 1 .. got
      <4>1. j - got \in 1 .. n /\ got + (j - got) = j
        BY <1>2, <3>2
      <4>2. QED
        BY <2>2, <4>1
    <3>3. QED
      BY <3>1, <3>2
  <2>4. QED
    BY <2>3
<1>20. Ends(off)' /\ InSocket(off, from + n)' /\ SentUpTo(off, from + n)'
  BY <1>1, <1>2, <1>6, TakeStream
<1>21. from + n = off[d] + (1 + digits + (got + n)) /\ from + n \in Nat
  <2>1. PICK o \in Nat : o = off[d]
    BY <1>6, <1>7
  <2>2. from = o + (1 + digits + got) /\ n \in Nat
    BY <1>2, <1>15, <2>1
  <2>3. from + n = o + (1 + digits + (got + n)) /\ from + n \in Nat
    BY <2>2
  <2>4. QED
    BY <2>1, <2>3
<1>22. CASE got + n = remaining
  <2>1. Deliver(p)
    BY <1>2, <1>12, <1>14, <1>22
  <2>2. p.first \in Nat /\ p.digits \in 1 .. MaxDigits /\ p.body \in Seq(Nat)
        /\ p.remaining \in Nat /\ Len(p.body) = p.remaining
    <3>1. p.digits \in 0 .. MaxDigits /\ p.digits > 0
      BY <1>2, <1>13, <1>14
    <3>2. p.digits \in 1 .. MaxDigits
      BY <3>1, DigitsAssumption
    <3>3. QED
      BY <1>2, <1>14, <1>22, <3>2
  <2>3. ReadsWell' /\ Len(delivered') = Len(delivered) + 1
    BY <1>1, <1>4, <1>7, <1>8, <1>9, <1>10, <1>13, <1>14, <1>19, <1>22, <2>1, <2>2, DeliverWell
  <2>4. at' = <<"check", "first">> /\ packet' = NoPacket
    BY <2>1 DEF Deliver, To
  <2>5. GaveUp'
    BY <2>4 DEF GaveUp
  <2>6. from + n = off[d] + Len(Build(begun[d + 1]))
    BY <1>9, <1>10, <1>13, <1>21, <1>22
  <2>7. Underway'
    BY <1>1, <1>7, <1>8, <1>20, <1>21, <2>3, <2>4, <2>6, NextPacket
  <2>8. QED
    BY <2>3, <2>5, <2>7
<1>23. CASE got + n # remaining
  <2>1. at' = <<"check", "body">> /\ packet' = p /\ delivered' = delivered
    BY <1>2, <1>12, <1>14, <1>23
  <2>2. ReadsWell'
    BY <1>3, <1>4, <2>1, ReadsSame
  <2>3. GaveUp'
    BY <2>1 DEF GaveUp
  <2>4. MidBody(Build(begun[d + 1]))'
    <3>1. Build(begun'[d + 1]) = b
      BY <1>1, <1>9, <1>10
    <3>2. got + n < remaining
      BY <1>2, <1>14, <1>23
    <3>3. /\ packet'.first = b[1] /\ packet'.remaining = remaining /\ packet'.digits = digits
          /\ Len(packet'.body) = got + n
          /\ \A j \in 1 .. got + n : packet'.body[j] = b[1 + digits + j]
      BY <1>14, <1>19, <2>1
    <3>4. QED
      BY <1>1, <1>9, <1>10, <1>13, <3>1, <3>2, <3>3 DEF MidBody
  <2>5. Reading'
    <3>1. at'[2] = "body" /\ Len(delivered') = d /\ begun' = begun
      BY <1>1, <1>7, <2>1
    <3>2. QED
      BY <1>8, <2>4, <3>1 DEF Reading
  <2>6. Taken' = 1 + digits + (got + n)
    <3>1. at'[2] = "body" /\ packet'.digits = digits /\ Len(packet'.body) = got + n
      BY <1>14, <2>1
    <3>2. QED
      BY <3>1 DEF Taken
  <2>7. from + n = off[Len(delivered')] + Taken'
    BY <1>7, <1>21, <2>1, <2>6
  <2>8. Underway'
    BY <1>20, <2>5, <2>7, UnderwayAgain
  <2>9. QED
    BY <2>2, <2>3, <2>8
<1>24. QED
  BY <1>22, <1>23

LEMMA StreamInit == Init => StreamInv
<1> SUFFICES ASSUME Init PROVE StreamInv
  OBVIOUS
<1>1. /\ at = <<"check", "first">> /\ packet = NoPacket /\ Len(delivered) = 0 /\ Len(begun) = 0
      /\ Len(socket) = 0 /\ sendMtx = NoThread
  BY DEF Init
<1>2. ReadsWell /\ GaveUp
  BY <1>1 DEF ReadsWell, GaveUp
<1>3. Reading /\ Taken = 0
  BY <1>1 DEF Reading, Taken
<1> DEFINE off == [i \in 0 .. 0 |-> 0]
<1>4. off[0] = 0 /\ off \in [0 .. 0 -> Nat] /\ \A i \in 0 .. 0 : i = 0
  OBVIOUS
<1> HIDE DEF off
<1>5. Ends(off)
  <2>1. \A i, j \in 0 .. 0 : off[i] <= off[j]
    BY <1>4
  <2>2. QED
    BY <1>1, <1>4, <2>1 DEF Ends
<1>6. off[Len(delivered)] + Taken = 0
  BY <1>1, <1>3, <1>4
<1>7. InSocket(off, 0) /\ SentUpTo(off, 0)
  BY <1>1, <1>4 DEF InSocket, SentUpTo
<1>8. Streams(off)
  BY <1>5, <1>6, <1>7 DEF Streams
<1>9. QED
  BY <1>2, <1>3, <1>8 DEF StreamInv, Underway

LEMMA StreamStep == TypeInv /\ StreamInv /\ [Next]_vars => StreamInv'
<1> SUFFICES ASSUME TypeInv, StreamInv, [Next]_vars PROVE StreamInv'
  OBVIOUS
<1>1. CASE \E t \in Threads : Write(t)
  BY <1>1, WriteStream
<1>2. CASE Read
  BY <1>2, NoBytesStream, ReadFirstStream, ReadLengthStream, ReadBodyStream DEF Read
<1>3. CASE Stop \/ Lose \/ Reopen
  BY <1>3, ConnectionStream, ReopenStream
<1>4. CASE UNCHANGED vars
  <2>1. UNCHANGED <<sendVars, readVars, connVars, socket, begun>>
    BY <1>4 DEF vars
  <2>2. ReadsWell' = ReadsWell /\ GaveUp' = GaveUp
    BY <2>1 DEF ReadsWell, GaveUp, Frames, Build, readVars
  <2>3. Reading' = Reading
    BY <2>1 DEF Reading, MidLength, MidBody, readVars
  <2>4. (\E o : Streams(o))' = (\E o : Streams(o))
    BY <2>1 DEF Streams, Ends, InSocket, SentUpTo, Taken, sendVars, readVars, connVars
  <2>5. QED
    BY <2>1, <2>2, <2>3, <2>4 DEF StreamInv, Underway, readVars, connVars
<1>5. QED
  BY <1>1, <1>2, <1>3, <1>4 DEF Next

LEMMA StreamHolds == Spec => [](TypeInv /\ StreamInv)
<1>1. Init => TypeInv /\ StreamInv
  BY TypeInit, StreamInit
<1>2. TypeInv /\ StreamInv /\ [Next]_vars => (TypeInv /\ StreamInv)'
  BY TypeStep, StreamStep
<1>3. QED
  BY <1>1, <1>2, PTL DEF Spec

(* readPacket, recvByte and recvExact hand out what sendAll was given:     *)
(* every packet of a connection whole, in the order of the senders, for    *)
(* however many threads, whatever they send, and in whatever pieces the    *)
(* bytes move.                                                             *)
THEOREM PacketsRead == Spec => []ReadsWhatWasSent
<1>1. TypeInv /\ StreamInv => ReadsWhatWasSent
  <2> SUFFICES ASSUME TypeInv, StreamInv, ~torn
               PROVE  /\ Len(delivered) <= Len(begun)
                      /\ \A i \in DOMAIN delivered : Frames(begun[i], delivered[i])
    BY DEF ReadsWhatWasSent
  <2>1. DOMAIN delivered = 1 .. Len(delivered)
    BY DEF TypeInv, TypeOK
  <2>2. QED
    BY <2>1 DEF StreamInv, ReadsWell
<1>2. QED
  BY <1>1, StreamHolds, PTL

(* readPacket's Malformed is right: the packet that comes then is longer   *)
(* than MQTT has lengths for.                                              *)
THEOREM MalformedIsTooLong == Spec => []MalformedMeansTooLong
<1>1. TypeInv /\ StreamInv => MalformedMeansTooLong
  BY DEF StreamInv, GaveUp, MalformedMeansTooLong
<1>2. QED
  BY <1>1, StreamHolds, PTL

----------------------------------------------------------------------------
(* What a packet says: its strings, each at its place.                     *)

(* A 16-bit number is what it was, if it has room.                         *)
LEMMA U16Value ==
  ASSUME NEW n \in Nat
  PROVE  /\ U16(n)[1] * Byte + U16(n)[2] \in Nat
         /\ U16(n)[1] * Byte + U16(n)[2] < U16Space
         /\ n < U16Space => U16(n)[1] * Byte + U16(n)[2] = n
<1> DEFINE q == n \div Byte
           hi == q % Byte
           lo == n % Byte
<1>1. U16(n)[1] = hi /\ U16(n)[2] = lo
  BY DEF U16
<1>2. ASSUME NEW b \in Nat, b > 1, NEW m \in Nat
      PROVE  m \div b \in Nat /\ m % b \in Nat /\ m % b < b /\ m = b * (m \div b) + (m % b)
  BY <1>2
<1>3. q \in Nat /\ lo \in Nat /\ lo < Byte /\ n = Byte * q + lo
  BY <1>2, ByteType
<1> HIDE DEF q
<1>4. hi \in Nat /\ hi < Byte
  BY <1>2, <1>3, ByteType
<1>5. q < Byte => hi = q
  <2>1. ASSUME NEW b \in Nat, NEW m \in Nat, m < b PROVE m % b = m
    BY <2>1
  <2>2. QED
    BY <1>3, <2>1, ByteType
<1> HIDE DEF hi, lo
<1>6. lo + hi * Byte \in Nat /\ lo + hi * Byte < Byte * Byte
  BY <1>3, <1>4, ByteType, DigitBound
<1>7. hi * Byte + lo = lo + hi * Byte
  <2>1. hi * Byte \in Nat
    BY <1>4, ByteType
  <2>2. QED
    BY <1>3, <2>1
<1>8. ASSUME n < U16Space PROVE hi * Byte + lo = n
  <2>1. q < Byte
    <3>1. SUFFICES ASSUME Byte <= q PROVE FALSE
      BY <1>3, ByteType
    <3>2. Byte * Byte <= q * Byte /\ q * Byte \in Nat /\ Byte * Byte \in Nat
      BY <1>3, <3>1, ByteType, TimesGrows
    <3>3. q * Byte = Byte * q
      BY <1>3, ByteType
    <3>4. QED
      BY <1>3, <1>8, <3>2, <3>3 DEF U16Space
  <2>2. hi * Byte = Byte * q
    BY <1>3, <1>5, <2>1, ByteType
  <2>3. QED
    BY <1>3, <2>2
<1>9. QED
  BY <1>1, <1>6, <1>7, <1>8 DEF U16Space

(* The number n, and the string s, are in b after its first x bytes.       *)
Number(b, x, n) == x + 2 <= Len(b) /\ b[x + 1] = U16(n)[1] /\ b[x + 2] = U16(n)[2]

String(b, x, s) ==
  /\ x + 2 + Len(s) <= Len(b)
  /\ Number(b, x, Len(s))
  /\ \A j \in 1 .. Len(s) : b[x + 2 + j] = s[j]

LEMMA Appended ==
  ASSUME NEW a \in Seq(Nat), NEW c \in Seq(Nat)
  PROVE  /\ a \o c \in Seq(Nat) /\ Len(a \o c) = Len(a) + Len(c)
         /\ \A j \in 1 .. Len(a) : (a \o c)[j] = a[j]
         /\ \A j \in 1 .. Len(c) : (a \o c)[Len(a) + j] = c[j]
<1>1. PICK x \in Nat, y \in Nat : x = Len(a) /\ y = Len(c)
  OBVIOUS
<1>2. /\ a \o c \in Seq(Nat) /\ Len(a \o c) = x + y
      /\ \A i \in 1 .. x + y : (a \o c)[i] = IF i <= x THEN a[i] ELSE c[i - x]
  BY <1>1, ConcatProperties
<1>3. PICK d \in Seq(Nat) : d = a \o c
  BY <1>2
<1>4. \A i \in 1 .. x + y : d[i] = IF i <= x THEN a[i] ELSE c[i - x]
  BY <1>2, <1>3
<1>5. ASSUME NEW j \in 1 .. x PROVE d[j] = a[j]
  <2>1. j \in 1 .. x + y /\ j <= x
    BY <1>1
  <2>2. QED
    BY <1>4, <2>1
<1>6. ASSUME NEW j \in 1 .. y PROVE d[x + j] = c[j]
  <2>1. PICK k \in Nat : k = x + j
    BY <1>1
  <2>2. k \in 1 .. x + y /\ ~(k <= x) /\ k - x = j
    BY <1>1, <2>1
  <2>3. d[k] = c[j]
    BY <1>4, <2>2
  <2>4. QED
    BY <2>1, <2>3
<1>7. QED
  BY <1>1, <1>2, <1>3, <1>5, <1>6

LEMMA NumberAt ==
  ASSUME NEW n \in Nat, NEW x \in Nat, NEW b, Number(b, x, n)
  PROVE  /\ U16At(b, x + 1) \in Nat /\ U16At(b, x + 1) < U16Space
         /\ n < U16Space => U16At(b, x + 1) = n
<1>1. x + 1 + 1 = x + 2
  OBVIOUS
<1>2. PICK v \in Nat : v = U16(n)[1] * Byte + U16(n)[2] /\ v < U16Space /\ (n < U16Space => v = n)
  BY U16Value
<1>3. U16At(b, x + 1) = U16(n)[1] * Byte + U16(n)[2]
  BY <1>1 DEF Number, U16At
<1>4. QED
  BY <1>2, <1>3

LEMMA NumberAppended ==
  ASSUME NEW a \in Seq(Nat), NEW n \in Nat
  PROVE  a \o U16(n) \in Seq(Nat) /\ Len(a \o U16(n)) = Len(a) + 2 /\ Number(a \o U16(n), Len(a), n)
<1>1. PICK u \in Seq(Nat) : u = U16(n) /\ Len(u) = 2
  BY U16Type
<1>2. PICK x \in Nat : x = Len(a)
  OBVIOUS
<1>3. /\ a \o u \in Seq(Nat) /\ Len(a \o u) = Len(a) + Len(u)
      /\ \A j \in 1 .. Len(u) : (a \o u)[Len(a) + j] = u[j]
  BY Appended
<1>4. a \o u \in Seq(Nat) /\ Len(a \o u) = x + 2 /\ \A j \in 1 .. 2 : (a \o u)[x + j] = u[j]
  BY <1>1, <1>2, <1>3
<1>5. (a \o u)[x + 1] = u[1] /\ (a \o u)[x + 2] = u[2]
  BY <1>4
<1>6. x + 2 <= x + 2
  OBVIOUS
<1>7. QED
  BY <1>1, <1>2, <1>4, <1>5, <1>6 DEF Number

(* What is there stays when something is put behind it.                    *)
LEMMA NumberStays ==
  ASSUME NEW a \in Seq(Nat), NEW c \in Seq(Nat), NEW x \in Nat, NEW n \in Nat, Number(a, x, n)
  PROVE  Number(a \o c, x, n)
<1>1. PICK l \in Nat, k \in Nat : l = Len(a) /\ k = Len(c)
  OBVIOUS
<1>2. x + 2 <= l /\ a[x + 1] = U16(n)[1] /\ a[x + 2] = U16(n)[2]
  BY <1>1 DEF Number
<1>3. x + 1 \in 1 .. l /\ x + 2 \in 1 .. l /\ x + 2 <= l + k
  BY <1>1, <1>2
<1>4. Len(a \o c) = l + k /\ \A j \in 1 .. l : (a \o c)[j] = a[j]
  BY <1>1, Appended
<1>5. (a \o c)[x + 1] = a[x + 1] /\ (a \o c)[x + 2] = a[x + 2]
  BY <1>3, <1>4
<1>6. QED
  BY <1>2, <1>3, <1>4, <1>5 DEF Number

LEMMA StringStays ==
  ASSUME NEW a \in Seq(Nat), NEW c \in Seq(Nat), NEW x \in Nat, NEW s \in Seq(Nat), String(a, x, s)
  PROVE  String(a \o c, x, s)
<1>1. PICK l \in Nat, k \in Nat, n \in Nat : l = Len(a) /\ k = Len(c) /\ n = Len(s)
  OBVIOUS
<1>2. x + 2 + n <= l /\ Number(a, x, n) /\ \A j \in 1 .. n : a[x + 2 + j] = s[j]
  BY <1>1 DEF String
<1>3. Len(a \o c) = l + k /\ \A j \in 1 .. l : (a \o c)[j] = a[j]
  BY <1>1, Appended
<1>4. Number(a \o c, x, n)
  BY <1>1, <1>2, NumberStays
<1>5. ASSUME NEW j \in 1 .. n PROVE (a \o c)[x + 2 + j] = s[j]
  <2>1. PICK i \in Nat : i = x + 2 + j
    BY <1>1
  <2>2. i \in 1 .. l
    BY <1>1, <1>2, <2>1
  <2>3. QED
    BY <1>2, <1>3, <2>1, <2>2
<1>6. x + 2 + n <= l + k
  BY <1>1, <1>2
<1>7. QED
  BY <1>1, <1>3, <1>4, <1>5, <1>6 DEF String

LEMMA StringAppended ==
  ASSUME NEW a \in Seq(Nat), NEW s \in Seq(Nat)
  PROVE  /\ a \o MqttString(s) \in Seq(Nat)
         /\ Len(a \o MqttString(s)) = Len(a) + 2 + Len(s)
         /\ String(a \o MqttString(s), Len(a), s)
<1>1. PICK x \in Nat, n \in Nat : x = Len(a) /\ n = Len(s)
  OBVIOUS
<1>2. PICK u \in Seq(Nat) : u = U16(n) /\ Len(u) = 2
  BY U16Type
<1>3. PICK d \in Seq(Nat) : d = a \o u /\ Len(d) = x + 2 /\ Number(d, x, n)
  BY <1>1, <1>2, NumberAppended
<1>4. (a \o u) \o s = a \o (u \o s)
  BY RegroupBytes, Zenon
<1>5. a \o MqttString(s) = d \o s
  BY <1>1, <1>2, <1>3, <1>4 DEF MqttString
<1>6. /\ d \o s \in Seq(Nat) /\ Len(d \o s) = Len(d) + Len(s)
      /\ \A j \in 1 .. Len(s) : (d \o s)[Len(d) + j] = s[j]
  BY Appended
<1>7. /\ d \o s \in Seq(Nat) /\ Len(d \o s) = x + 2 + n
      /\ \A j \in 1 .. n : (d \o s)[x + 2 + j] = s[j]
  BY <1>1, <1>3, <1>6
<1>8. Number(d \o s, x, n)
  BY <1>3, NumberStays
<1>9. x + 2 + n <= x + 2 + n
  OBVIOUS
<1>10. String(d \o s, x, s)
  BY <1>1, <1>7, <1>8, <1>9 DEF String
<1>11. QED
  BY <1>1, <1>5, <1>7, <1>10

(* A string is read as itself, if its length has room in 16 bits, and as   *)
(* something shorter if it has not.                                        *)
LEMMA StringIsRead ==
  ASSUME NEW b \in Seq(Nat), NEW s \in Seq(Nat), NEW x \in Nat, String(b, x, s)
  PROVE  \E v \in Nat :
           /\ v <= Len(s) /\ After(b, x + 1) = x + 3 + v
           /\ Len(s) < U16Space => v = Len(s) /\ StringAt(b, x + 1) = s
           /\ ~(Len(s) < U16Space) => StringAt(b, x + 1) # s
           /\ StringAt(b, x + 1) \in Seq(Nat)
<1>1. PICK l \in Nat, n \in Nat : l = Len(b) /\ n = Len(s)
  OBVIOUS
<1>2. x + 2 + n <= l /\ Number(b, x, n) /\ \A j \in 1 .. n : b[x + 2 + j] = s[j]
  BY <1>1 DEF String
<1>3. PICK v \in Nat : v = U16At(b, x + 1) /\ v < U16Space /\ (n < U16Space => v = n)
  BY <1>2, NumberAt
<1>4. v <= n
  BY <1>1, <1>3, ByteType
<1>5. PICK f \in Nat, e \in Nat : f = x + 3 /\ e = x + 2 + v
  OBVIOUS
<1>6. StringAt(b, x + 1) = SubSeq(b, f, e) /\ After(b, x + 1) = x + 3 + v
  <2>1. x + 1 + 2 = f /\ x + 1 + 1 + v = e /\ x + 1 + 2 + v = x + 3 + v
    BY <1>3, <1>5
  <2>2. QED
    BY <1>3, <2>1 DEF StringAt, After
<1>7. \A j \in f .. e : j \in 1 .. l
  BY <1>1, <1>2, <1>3, <1>4, <1>5
<1>8. \A j \in f .. e : b[j] \in Nat
  <2>1. \A j \in 1 .. l : b[j] \in Nat
    BY <1>1
  <2>2. QED
    BY <1>7, <2>1
<1>9. /\ SubSeq(b, f, e) \in Seq(Nat)
      /\ Len(SubSeq(b, f, e)) = IF f <= e THEN e - f + 1 ELSE 0
      /\ \A j \in 1 .. e - f + 1 : SubSeq(b, f, e)[j] = b[f + j - 1]
  BY <1>5, <1>8, SubSeqProperties
<1>10. e - f + 1 = v /\ (IF f <= e THEN e - f + 1 ELSE 0) = v
  BY <1>3, <1>5
<1>11. PICK r \in Seq(Nat) : r = SubSeq(b, f, e)
  BY <1>9
<1>12. Len(r) = v /\ \A j \in 1 .. v : r[j] = b[f + j - 1]
  BY <1>9, <1>10, <1>11
<1>13. ASSUME n < U16Space PROVE v = n /\ r = s
  <2>1. v = n
    BY <1>3, <1>13
  <2>2. ASSUME NEW j \in 1 .. n PROVE r[j] = s[j]
    <3>1. f + j - 1 = x + 2 + j
      BY <1>1, <1>5
    <3>2. QED
      BY <1>2, <1>12, <2>1, <3>1
  <2>3. Len(r) = Len(s)
    BY <1>1, <1>12, <2>1
  <2>4. \A j \in 1 .. Len(s) : r[j] = s[j]
    BY <1>1, <2>2
  <2>5. r = s
    BY <2>3, <2>4, SeqEqual
  <2>6. QED
    BY <2>1, <2>5
<1>14. ASSUME ~(n < U16Space) PROVE r # s
  <2>1. v < n
    BY <1>1, <1>3, <1>14, ByteType
  <2>2. Len(r) < Len(s)
    BY <1>1, <1>12, <2>1
  <2>3. QED
    BY <2>2
<1>15. QED
  BY <1>1, <1>3, <1>4, <1>6, <1>11, <1>13, <1>14

(* A length takes as many digits as it needs.                              *)
LEMMA OneMoreDigit ==
  ASSUME NEW r \in Nat, NEW d \in Nat, d < Half, NEW l \in Nat \ {0}, r < Pow[l], r >= Pow[l - 1]
  PROVE  Half * r + d < Pow[l + 1] /\ Half * r + d >= Pow[l]
<1>1. /\ Pow[l] \in Nat /\ Pow[l - 1] \in Nat
      /\ Pow[l + 1] = Half * Pow[l] /\ Pow[l] = Half * Pow[l - 1]
  <2>1. PICK j \in Nat : l = j + 1 /\ j = l - 1
    OBVIOUS
  <2>2. QED
    BY <2>1, PowStep
<1>2. PICK p \in Nat, q \in Nat : p = Pow[l] /\ q = Pow[l - 1]
  BY <1>1
<1>3. ASSUME NEW h \in Nat, d < h, r < p, q <= r PROVE h * r + d < h * p /\ h * r + d >= h * q
  <2>1. r + 1 \in Nat /\ r + 1 <= p
    BY <1>3, <1>2
  <2>2. (r + 1) * h <= p * h /\ q * h <= r * h /\ p * h \in Nat /\ r * h \in Nat /\ q * h \in Nat
    BY <1>2, <1>3, <2>1, TimesGrows
  <2>3. (r + 1) * h = h * r + h /\ p * h = h * p /\ q * h = h * q /\ r * h = h * r
    BY <1>2
  <2>4. QED
    BY <1>3, <2>2, <2>3
<1>4. r < p /\ q <= r
  BY <1>1, <1>2
<1>5. Half * r + d < Half * p /\ Half * r + d >= Half * q
  BY <1>3, <1>4, HalfAssumption
<1>6. QED
  BY <1>1, <1>2, <1>5

LEMMA DigitsNeeded ==
  ASSUME NEW n \in Nat
  PROVE  LET k == Len(VarLen[n])
         IN  k \in Nat \ {0} /\ n < Pow[k] /\ (k = 1 \/ n >= Pow[k - 1])
<1> DEFINE Needs(m, k) == k \in Nat \ {0} /\ m < Pow[k] /\ (k = 1 \/ m >= Pow[k - 1])
           T == {i \in Nat : \A m \in Nat : m < i => Needs(m, Len(VarLen[m]))}
<1>1. T \subseteq Nat /\ \A i \in Nat : i \in T <=> \A m \in Nat : m < i => Needs(m, Len(VarLen[m]))
  OBVIOUS
<1> HIDE DEF T
<1>2. 0 \in T
  BY <1>1
<1>3. ASSUME NEW i \in Nat, \A m \in Nat : m < i => Needs(m, Len(VarLen[m]))
      PROVE  Needs(i, Len(VarLen[i]))
  <2>1. CASE i < Half
    <3>1. VarLen[i] = <<i>>
      BY <2>1, VarLenDigits
    <3>2. Len(VarLen[i]) = 1
      BY <3>1
    <3>3. Pow[1] = Half
      <4>1. Pow[0 + 1] = Half * Pow[0] /\ Pow[0] = 1
        BY PowStep
      <4>2. QED
        BY <4>1, HalfAssumption
    <3>4. QED
      BY <2>1, <3>2, <3>3
  <2>2. CASE ~(i < Half)
    <3>1. PICK r \in Nat, d \in Nat : r = Rest(i) /\ d = Digit(i)
      BY TakeDigit
    <3>2. d < Half /\ r < i /\ r >= 1 /\ i = Half * r + d
      BY <2>2, <3>1, TakeDigit, DigitAndRest, HalfAssumption
    <3>3. PICK l \in Nat \ {0} : l = Len(VarLen[r])
      BY VarLenDigits
    <3>4. r < Pow[l] /\ (l = 1 \/ r >= Pow[l - 1])
      BY <1>3, <3>2, <3>3
    <3>5. r >= Pow[l - 1]
      <4>1. CASE l = 1
        <5>1. l - 1 = 0
          BY <4>1
        <5>2. QED
          BY <3>2, <5>1, PowStep
      <4>2. QED
        BY <3>4, <4>1
    <3>6. i < Pow[l + 1] /\ i >= Pow[l]
      BY <3>2, <3>4, <3>5, OneMoreDigit
    <3>7. Len(VarLen[i]) = l + 1
      <4>1. Len(VarLen[i]) = 1 + Len(VarLen[Rest(i)])
        BY <2>2, OtherDigits, HalfAssumption
      <4>2. QED
        BY <3>1, <3>3, <4>1
    <3>8. l + 1 \in Nat \ {0} /\ (l + 1) - 1 = l
      OBVIOUS
    <3>9. QED
      BY <3>6, <3>7, <3>8
  <2>3. QED
    BY <2>1, <2>2
<1>4. ASSUME NEW i \in T PROVE i + 1 \in T
  <2>1. i \in Nat /\ \A m \in Nat : m < i => Needs(m, Len(VarLen[m]))
    BY <1>1
  <2>2. Needs(i, Len(VarLen[i]))
    BY <1>3, <2>1
  <2>3. ASSUME NEW m \in Nat, m < i + 1 PROVE Needs(m, Len(VarLen[m]))
    <3>1. m < i \/ m = i
      BY <2>1, <2>3
    <3>2. QED
      BY <2>1, <2>2, <3>1
  <2>4. i + 1 \in Nat
    BY <2>1
  <2>5. QED
    BY <1>1, <2>3, <2>4
<1>5. T = Nat
  BY <1>1, <1>2, <1>4, SetInduction
<1>6. n + 1 \in T /\ n + 1 \in Nat /\ n < n + 1
  BY <1>5
<1>7. Needs(n, Len(VarLen[n]))
  BY <1>1, <1>6
<1>8. QED
  BY <1>7

LEMMA PowGrows ==
  ASSUME NEW i \in Nat, NEW j \in Nat, i <= j
  PROVE  Pow[i] <= Pow[j]
<1> DEFINE T == {d \in Nat : Pow[i] <= Pow[i + d]}
<1>1. T \subseteq Nat /\ \A d \in Nat : d \in T <=> Pow[i] <= Pow[i + d]
  OBVIOUS
<1> HIDE DEF T
<1>2. 0 \in T
  <2>1. i + 0 = i /\ Pow[i] \in Nat
    BY PowStep
  <2>2. QED
    BY <1>1, <2>1
<1>3. ASSUME NEW d \in T PROVE d + 1 \in T
  <2>1. d \in Nat /\ Pow[i] <= Pow[i + d]
    BY <1>1
  <2>2. PICK k \in Nat : k = i + d
    BY <2>1
  <2>3. Pow[k + 1] = Half * Pow[k] /\ Pow[k] \in Nat /\ Pow[i] \in Nat
    BY PowStep
  <2>4. ASSUME NEW x \in Nat PROVE Half * x \in Nat /\ x <= Half * x
    <3>1. 1 * x <= Half * x /\ Half * x \in Nat
      BY HalfAssumption, TimesGrows
    <3>2. QED
      BY <3>1
  <2>5. Pow[i] <= Pow[k + 1]
    <3>1. Half * Pow[k] \in Nat /\ Pow[k] <= Half * Pow[k]
      BY <2>3, <2>4
    <3>2. QED
      BY <2>1, <2>2, <2>3, <3>1
  <2>6. i + (d + 1) = k + 1 /\ d + 1 \in Nat
    BY <2>1, <2>2
  <2>7. QED
    BY <1>1, <2>5, <2>6
<1>4. T = Nat
  BY <1>1, <1>2, <1>3, SetInduction
<1>5. j - i \in T /\ j - i \in Nat /\ i + (j - i) = j
  BY <1>4
<1>6. QED
  BY <1>1, <1>5

(* Two lengths whose digits are as many as they need, and which with their *)
(* digits come to the same, are the same.                                  *)
LEMMA LengthsAgree ==
  ASSUME NEW n \in Nat, NEW k \in Nat \ {0}, NEW m \in Nat, NEW l \in Nat \ {0}, k + n = l + m,
         n < Pow[k], k = 1 \/ n >= Pow[k - 1], m < Pow[l], l = 1 \/ m >= Pow[l - 1]
  PROVE  n = m /\ k = l
<1>1. ASSUME NEW a \in Nat, NEW i \in Nat \ {0}, NEW b \in Nat, NEW j \in Nat \ {0}, i + a = j + b,
             i = 1 \/ a >= Pow[i - 1], b < Pow[j], a < b
      PROVE  FALSE
  <2>1. i > j /\ i # 1 /\ i - 1 \in Nat /\ j <= i - 1
    BY <1>1
  <2>2. Pow[j] <= Pow[i - 1] /\ Pow[j] \in Nat /\ Pow[i - 1] \in Nat
    BY <2>1, PowGrows, PowStep
  <2>3. QED
    BY <1>1, <2>1, <2>2
<1>2. ~(n < m)
  BY <1>1
<1>3. ~(m < n)
  BY <1>1
<1>4. QED
  BY <1>2, <1>3

(* A packet that was read from what Framed made has the body that was      *)
(* framed, and its first byte.                                             *)
LEMMA FramesBody ==
  ASSUME NEW m \in Message, NEW first \in Nat, NEW body \in Seq(Nat), Build(m) = Framed(first, body),
         NEW p, p.body \in Seq(Nat), Frames(m, p)
  PROVE  p.body = body /\ 16 * p.type + p.flags = first
<1>1. PICK b \in Seq(Nat) : b = Build(m)
  BY BuildType
<1>2. Len(Framed(first, body)) < U32Space
  BY DEF Message
<1>3. PICK N \in Nat, n \in Nat : N = Len(body) /\ n = Len(p.body)
  OBVIOUS
<1>4. PICK l \in Nat \ {0} : l = Len(VarLen[N])
  BY VarLenDigits
<1>5. Len(b) = 1 + l + N /\ b[1] = first /\ \A j \in 1 .. N : b[1 + l + j] = body[j]
  <2>1. LET c == Framed(first, body)
            i == Len(VarLen[Len(body)])
        IN  /\ Len(c) = 1 + i + Len(body)
            /\ c[1] = first
            /\ \A j \in 1 .. Len(body) : c[1 + i + j] = body[j]
    BY <1>2, FramedParts
  <2>2. QED
    BY <1>1, <1>3, <1>4, <2>1
<1>6. N < Pow[l] /\ (l = 1 \/ N >= Pow[l - 1])
  BY <1>4, DigitsNeeded
<1>7. PICK k : k = Len(b) - n - 1
  OBVIOUS
<1>8. /\ b[1] = 16 * p.type + p.flags
      /\ k \in 1 .. MaxDigits /\ n < Pow[k] /\ (k = 1 \/ n >= Pow[k - 1])
      /\ p.body = SubSeq(b, k + 2, Len(b))
  BY <1>1, <1>3, <1>7 DEF Frames
<1>9. k \in Nat \ {0} /\ k + n = l + N
  BY <1>5, <1>7, <1>8, DigitsAssumption
<1>10. n = N /\ k = l
  BY <1>6, <1>8, <1>9, LengthsAgree
<1>11. PICK f \in Nat, e \in Nat : f = l + 2 /\ e = 1 + l + N
  OBVIOUS
<1>12. p.body = SubSeq(b, f, e)
  BY <1>5, <1>8, <1>10, <1>11
<1>13. \A j \in f .. e : b[j] \in Nat
  <2>1. \A j \in f .. e : j \in 1 .. e
    BY <1>11
  <2>2. \A j \in 1 .. e : b[j] \in Nat
    BY <1>5, <1>11
  <2>3. QED
    BY <2>1, <2>2
<1>14. \A j \in 1 .. e - f + 1 : SubSeq(b, f, e)[j] = b[f + j - 1]
  BY <1>11, <1>13, SubSeqProperties
<1>15. ASSUME NEW j \in 1 .. N PROVE p.body[j] = body[j]
  <2>1. j \in 1 .. e - f + 1 /\ f + j - 1 = 1 + l + j
    BY <1>11
  <2>2. QED
    BY <1>5, <1>12, <1>14, <2>1
<1>16. p.body = body
  <2>1. Len(p.body) = Len(body) /\ \A j \in 1 .. Len(p.body) : p.body[j] = body[j]
    BY <1>3, <1>10, <1>15
  <2>2. QED
    BY <2>1, SeqEqual
<1>17. QED
  BY <1>5, <1>8, <1>16

(* Reading entry by entry: h reads an entry off b, unless b is cut short,  *)
(* and goes on with the rest.                                              *)
Reads(h, cut, entry, rest) ==
  h = [b \in Seq(Nat) |-> IF b \in cut THEN <<>> ELSE <<entry[b]>> \o h[rest[b]]]

LEMMA EntriesExist ==
  ASSUME NEW E, NEW cut, NEW entry \in [Seq(Nat) -> E],
         NEW rest \in [Seq(Nat) -> Seq(Nat)],
         \A b \in Seq(Nat) : b \notin cut => Len(rest[b]) < Len(b)
  PROVE  \E h \in [Seq(Nat) -> Seq(E)] : Reads(h, cut, entry, rest)
<1> DEFINE F == [Seq(Nat) -> Seq(E)]
           Step(b, f) == IF b \in cut THEN <<>> ELSE <<entry[b]>> \o f[rest[b]]
           step == [p \in Seq(Nat) \X F |-> Step(p[1], p[2])]
<1>1. ASSUME NEW b \in Seq(Nat), NEW f \in F PROVE Step(b, f) \in Seq(E)
  <2>1. f[rest[b]] \in Seq(E) /\ entry[b] \in E
    OBVIOUS
  <2>2. <<entry[b]>> \o f[rest[b]] \in Seq(E)
    BY <2>1
  <2>3. QED
    BY <2>2
<1>2. ASSUME NEW b \in Seq(Nat), NEW f \in F, NEW g \in F, AgreeShorter(f, g, b, Nat)
      PROVE  Step(b, f) = Step(b, g)
  <2>1. CASE b \in cut
    BY <2>1
  <2>2. CASE b \notin cut
    <3>1. rest[b] \in Seq(Nat) /\ Len(rest[b]) < Len(b)
      BY <2>2
    <3>2. f[rest[b]] = g[rest[b]]
      BY <1>2, <3>1 DEF AgreeShorter
    <3>3. QED
      BY <3>2
  <2>3. QED
    BY <2>1, <2>2
<1> HIDE DEF Step
<1>3. /\ step \in [Seq(Nat) \X F -> Seq(E)]
      /\ \A b \in Seq(Nat), f \in F : step[<<b, f>>] = Step(b, f)
  BY <1>1
<1> HIDE DEF step
<1>4. ASSUME NEW b \in Seq(Nat), NEW f \in F, NEW g \in F, AgreeShorter(f, g, b, Nat)
      PROVE  step[<<b, f>>] = step[<<b, g>>]
  <2>1. step[<<b, f>>] = Step(b, f) /\ step[<<b, g>>] = Step(b, g)
    BY <1>3
  <2>2. Step(b, f) = Step(b, g)
    BY <1>2, <1>4
  <2>3. QED
    BY <2>1, <2>2
<1>5. <<>> \in Seq(E)
  OBVIOUS
<1>6. PICK h \in F : SolvesOver(h, step, Nat)
  BY <1>3, <1>4, <1>5, SequenceRecursion
<1>7. \A b \in Seq(Nat) : h[b] = Step(b, h)
  BY <1>3, <1>6 DEF SolvesOver
<1>8. h = [b \in Seq(Nat) |-> Step(b, h)]
  BY <1>7
<1>9. QED
  BY <1>8 DEF Step, Reads

LEMMA EntriesType ==
  ASSUME NEW E, NEW cut, NEW entry \in [Seq(Nat) -> E],
         NEW rest \in [Seq(Nat) -> Seq(Nat)],
         \A b \in Seq(Nat) : b \notin cut => Len(rest[b]) < Len(b),
         NEW h, Reads(h, cut, entry, rest), NEW b \in Seq(Nat)
  PROVE  h[b] \in Seq(E)
<1>1. \A c \in Seq(Nat) : h[c] = IF c \in cut THEN <<>> ELSE <<entry[c]>> \o h[rest[c]]
  BY DEF Reads
<1>2. <<>> \in Seq(E)
  OBVIOUS
<1> DEFINE P == {c \in Seq(Nat) : h[c] \in Seq(E)}
<1>3. P \subseteq Seq(Nat) /\ \A c \in Seq(Nat) : c \in P <=> h[c] \in Seq(E)
  OBVIOUS
<1> HIDE DEF P
<1>4. ASSUME NEW c \in Seq(Nat), \A u \in Seq(Nat) : Len(u) < Len(c) => u \in P PROVE c \in P
  <2>1. h[c] = IF c \in cut THEN <<>> ELSE <<entry[c]>> \o h[rest[c]]
    BY <1>1
  <2>2. CASE c \in cut
    <3>1. h[c] = <<>>
      BY <2>1, <2>2
    <3>2. QED
      BY <1>3, <1>2, <3>1
  <2>3. CASE c \notin cut
    <3>1. rest[c] \in Seq(Nat) /\ Len(rest[c]) < Len(c) /\ entry[c] \in E
      BY <2>3
    <3>2. h[rest[c]] \in Seq(E)
      BY <1>3, <1>4, <3>1
    <3>3. <<entry[c]>> \o h[rest[c]] \in Seq(E)
      BY <3>1, <3>2
    <3>4. QED
      BY <1>3, <2>1, <2>3, <3>3
  <2>4. QED
    BY <2>2, <2>3
<1>5. P = Seq(Nat)
  BY <1>3, <1>4, SequenceInduction
<1>6. QED
  BY <1>3, <1>5

(* A string at the beginning, and what is behind it.                       *)
LEMMA LeadingString ==
  ASSUME NEW b \in Seq(Nat), ~(Len(b) < 2), ~(Len(b) + 1 < After(b, 1))
  PROVE  After(b, 1) \in Nat /\ After(b, 1) >= 3 /\ StringAt(b, 1) \in Seq(Nat)
<1>1. PICK l \in Nat : l = Len(b)
  OBVIOUS
<1>2. 1 \in 1 .. l /\ 2 \in 1 .. l
  BY <1>1
<1>3. \A j \in 1 .. l : b[j] \in Nat
  BY <1>1
<1>4. b[1] \in Nat /\ b[2] \in Nat
  BY <1>2, <1>3
<1>5. U16At(b, 1) \in Nat
  <2>1. ASSUME NEW x \in Nat, NEW y \in Nat, NEW w \in Nat PROVE x * w + y \in Nat
    OBVIOUS
  <2>2. 1 + 1 = 2
    OBVIOUS
  <2>3. QED
    BY <1>4, <2>1, <2>2, ByteType DEF U16At
<1>6. PICK v \in Nat : v = U16At(b, 1)
  BY <1>5
<1>7. After(b, 1) = 3 + v
  BY <1>6 DEF After
<1>8. PICK e \in Nat : e = 2 + v
  OBVIOUS
<1>9. StringAt(b, 1) = SubSeq(b, 3, e)
  <2>1. 1 + 2 = 3 /\ 1 + 1 + v = e
    BY <1>8
  <2>2. QED
    BY <1>6, <2>1 DEF StringAt
<1>10. \A j \in 3 .. e : j \in 1 .. l
  BY <1>1, <1>7, <1>8
<1>11. \A j \in 3 .. e : b[j] \in Nat
  BY <1>3, <1>10
<1>12. SubSeq(b, 3, e) \in Seq(Nat)
  BY <1>8, <1>11, SubSeqProperties
<1>13. 3 + v \in Nat /\ 3 + v >= 3
  OBVIOUS
<1>14. QED
  BY <1>7, <1>9, <1>12, <1>13

LEMMA Behind ==
  ASSUME NEW b \in Seq(Nat), NEW i \in Nat, i > 1
  PROVE  /\ SubSeq(b, i, Len(b)) \in Seq(Nat)
         /\ Len(b) # 0 => Len(SubSeq(b, i, Len(b))) < Len(b)
<1>1. PICK l \in Nat : l = Len(b)
  OBVIOUS
<1>2. \A j \in i .. l : j \in 1 .. l
  BY <1>1
<1>3. \A j \in i .. l : b[j] \in Nat
  <2>1. \A j \in 1 .. l : b[j] \in Nat
    BY <1>1
  <2>2. QED
    BY <1>2, <2>1
<1>4. SubSeq(b, i, l) \in Seq(Nat) /\ Len(SubSeq(b, i, l)) = IF i <= l THEN l - i + 1 ELSE 0
  BY <1>1, <1>3, SubSeqProperties
<1>5. l # 0 => (IF i <= l THEN l - i + 1 ELSE 0) < l
  BY <1>1
<1>6. QED
  BY <1>1, <1>4, <1>5

NoTopic(b) == Len(b) < 2 \/ Len(b) < After(b, 1)

FirstTopic(b) == [topic |-> StringAt(b, 1), qos |-> b[After(b, 1)]]

RestTopics(b) == SubSeq(b, After(b, 1) + 1, Len(b))

TopicEntry == [topic : Seq(Nat), qos : Nat]

LEMMA FirstTopicType ==
  ASSUME NEW b \in Seq(Nat), ~NoTopic(b)
  PROVE  FirstTopic(b) \in TopicEntry /\ RestTopics(b) \in Seq(Nat) /\ Len(RestTopics(b)) < Len(b)
<1>1. PICK l \in Nat : l = Len(b)
  OBVIOUS
<1>2. ~(Len(b) < 2) /\ ~(Len(b) < After(b, 1))
  BY DEF NoTopic
<1>3. After(b, 1) \in Nat /\ After(b, 1) >= 3 /\ StringAt(b, 1) \in Seq(Nat)
  <2>1. ASSUME Len(b) + 1 < After(b, 1) PROVE FALSE
    <3>1. After(b, 1) = 3 + U16At(b, 1)
      BY DEF After
    <3>2. b[1] \in Nat /\ b[2] \in Nat
      <4>1. \A j \in 1 .. l : b[j] \in Nat
        BY <1>1
      <4>2. 1 \in 1 .. l /\ 2 \in 1 .. l
        BY <1>1, <1>2
      <4>3. QED
        BY <4>1, <4>2
    <3>3. U16At(b, 1) \in Nat
      <4>1. ASSUME NEW x \in Nat, NEW y \in Nat, NEW w \in Nat PROVE x * w + y \in Nat
        OBVIOUS
      <4>2. 1 + 1 = 2
        OBVIOUS
      <4>3. QED
        BY <3>2, <4>1, <4>2, ByteType DEF U16At
    <3>4. QED
      BY <1>1, <1>2, <2>1, <3>1, <3>3
  <2>2. QED
    BY <1>2, <2>1, LeadingString
<1>4. PICK i \in Nat : i = After(b, 1)
  BY <1>3
<1>5. b[i] \in Nat
  <2>1. i \in 1 .. l
    BY <1>1, <1>2, <1>3, <1>4
  <2>2. \A j \in 1 .. l : b[j] \in Nat
    BY <1>1
  <2>3. QED
    BY <2>1, <2>2
<1>6. FirstTopic(b) \in TopicEntry
  BY <1>3, <1>4, <1>5 DEF FirstTopic, TopicEntry
<1>7. i + 1 \in Nat /\ i + 1 > 1 /\ Len(b) # 0
  BY <1>1, <1>2, <1>3, <1>4
<1>8. SubSeq(b, i + 1, Len(b)) \in Seq(Nat) /\ Len(SubSeq(b, i + 1, Len(b))) < Len(b)
  BY <1>7, Behind
<1>9. QED
  BY <1>4, <1>6, <1>8 DEF RestTopics

LEMMA ReadTopicsStep ==
  ASSUME NEW b \in Seq(Nat)
  PROVE  /\ ReadTopics[b] \in Seq(TopicEntry)
         /\ NoTopic(b) => ReadTopics[b] = <<>>
         /\ ~NoTopic(b) => ReadTopics[b] = <<FirstTopic(b)>> \o ReadTopics[RestTopics(b)]
<1> DEFINE cut == {c \in Seq(Nat) : NoTopic(c)}
           entry == [c \in Seq(Nat) |-> IF NoTopic(c) THEN [topic |-> <<>>, qos |-> 0] ELSE FirstTopic(c)]
           rest == [c \in Seq(Nat) |-> IF NoTopic(c) THEN <<>> ELSE RestTopics(c)]
<1>1. [topic |-> <<>>, qos |-> 0] \in TopicEntry /\ <<>> \in Seq(Nat)
  BY DEF TopicEntry
<1>2. entry \in [Seq(Nat) -> TopicEntry]
  BY <1>1, FirstTopicType
<1>3. rest \in [Seq(Nat) -> Seq(Nat)]
  BY <1>1, FirstTopicType
<1>4. \A c \in Seq(Nat) : c \in cut <=> NoTopic(c)
  OBVIOUS
<1>5. \A c \in Seq(Nat) : ~NoTopic(c) => entry[c] = FirstTopic(c) /\ rest[c] = RestTopics(c)
  OBVIOUS
<1> HIDE DEF cut, entry, rest
<1>6. \A c \in Seq(Nat) : c \notin cut => Len(rest[c]) < Len(c)
  BY <1>4, <1>5, FirstTopicType
<1>7. PICK h \in [Seq(Nat) -> Seq(TopicEntry)] : Reads(h, cut, entry, rest)
  BY <1>2, <1>3, <1>6, EntriesExist
<1>8. ASSUME NEW g PROVE Reads(g, cut, entry, rest) <=>
         g = [c \in Seq(Nat) |-> IF NoTopic(c) THEN <<>> ELSE <<FirstTopic(c)>> \o g[RestTopics(c)]]
  <2>1. \A c \in Seq(Nat) : (IF c \in cut THEN <<>> ELSE <<entry[c]>> \o g[rest[c]])
                              = IF NoTopic(c) THEN <<>> ELSE <<FirstTopic(c)>> \o g[RestTopics(c)]
    BY <1>4, <1>5
  <2>2. QED
    BY <2>1 DEF Reads
<1>9. h = [c \in Seq(Nat) |-> IF NoTopic(c) THEN <<>> ELSE <<FirstTopic(c)>> \o h[RestTopics(c)]]
  BY <1>7, <1>8
<1>10. ReadTopics = [c \in Seq(Nat) |->
                       IF NoTopic(c) THEN <<>> ELSE <<FirstTopic(c)>> \o ReadTopics[RestTopics(c)]]
  BY <1>9 DEF ReadTopics, NoTopic, FirstTopic, RestTopics
<1>11. Reads(ReadTopics, cut, entry, rest)
  BY <1>8, <1>10
<1>12. ReadTopics[b] \in Seq(TopicEntry)
  BY <1>2, <1>3, <1>6, <1>11, EntriesType
<1>13. ReadTopics[b] = IF NoTopic(b) THEN <<>> ELSE <<FirstTopic(b)>> \o ReadTopics[RestTopics(b)]
  BY <1>10
<1>14. QED
  BY <1>12, <1>13

(* The same, as it is put to use.                                          *)
Short(s) == Len(s) < U16Space

LEMMA StringRead ==
  ASSUME NEW b \in Seq(Nat), NEW s \in Seq(Nat), NEW x \in Nat, String(b, x, s)
  PROVE  /\ StringAt(b, x + 1) = s <=> Short(s)
         /\ Short(s) => After(b, x + 1) = x + 3 + Len(s)
         /\ \E v \in Nat : v <= Len(s) /\ After(b, x + 1) = x + 3 + v
<1>1. PICK v \in Nat :
           /\ v <= Len(s) /\ After(b, x + 1) = x + 3 + v
           /\ Len(s) < U16Space => v = Len(s) /\ StringAt(b, x + 1) = s
           /\ ~(Len(s) < U16Space) => StringAt(b, x + 1) # s
  BY StringIsRead
<1>2. QED
  BY <1>1 DEF Short

(* What is behind a sequence that was put first.                           *)
LEMMA Remainder ==
  ASSUME NEW a \in Seq(Nat), NEW c \in Seq(Nat)
  PROVE  SubSeq(a \o c, Len(a) + 1, Len(a \o c)) = c
<1>1. PICK x \in Nat, y \in Nat : x = Len(a) /\ y = Len(c)
  OBVIOUS
<1>2. PICK d \in Seq(Nat) : d = a \o c
  BY Appended
<1>3. Len(d) = x + y /\ \A j \in 1 .. y : d[x + j] = c[j]
  BY <1>1, <1>2, Appended
<1>4. PICK f \in Nat, e \in Nat : f = x + 1 /\ e = x + y
  OBVIOUS
<1>5. \A j \in f .. e : d[j] \in Nat
  <2>1. \A j \in f .. e : j \in 1 .. Len(d)
    BY <1>3, <1>4
  <2>2. \A j \in 1 .. Len(d) : d[j] \in Nat
    OBVIOUS
  <2>3. QED
    BY <2>1, <2>2
<1>6. /\ SubSeq(d, f, e) \in Seq(Nat)
      /\ Len(SubSeq(d, f, e)) = IF f <= e THEN e - f + 1 ELSE 0
      /\ \A j \in 1 .. e - f + 1 : SubSeq(d, f, e)[j] = d[f + j - 1]
  BY <1>4, <1>5, SubSeqProperties
<1>7. e - f + 1 = y /\ (IF f <= e THEN e - f + 1 ELSE 0) = y
  BY <1>4
<1>8. PICK r \in Seq(Nat) : r = SubSeq(d, f, e)
  BY <1>6
<1>9. Len(r) = y /\ \A j \in 1 .. y : r[j] = d[f + j - 1]
  BY <1>6, <1>7, <1>8
<1>10. ASSUME NEW j \in 1 .. y PROVE r[j] = c[j]
  <2>1. f + j - 1 = x + j
    BY <1>4
  <2>2. QED
    BY <1>3, <1>9, <2>1
<1>11. r = c
  <2>1. Len(r) = Len(c) /\ \A j \in 1 .. Len(r) : r[j] = c[j]
    BY <1>1, <1>9, <1>10
  <2>2. QED
    BY <2>1, SeqEqual
<1>12. QED
  BY <1>1, <1>2, <1>3, <1>4, <1>8, <1>11

LEMMA StringFirst ==
  ASSUME NEW s \in Seq(Nat)
  PROVE  /\ MqttString(s) \in Seq(Nat) /\ Len(MqttString(s)) = 2 + Len(s)
         /\ String(MqttString(s), 0, s)
<1>1. PICK w \in Seq(Nat) : w = MqttString(s)
  BY MqttStringType
<1>2. <<>> \in Seq(Nat) /\ Len(<<>>) = 0 /\ \A u \in Seq(Nat) : <<>> \o u = u
  OBVIOUS
<1>3. PICK e \in Seq(Nat) : e = <<>> /\ Len(e) = 0 /\ e \o w = w
  BY <1>2
<1>4. /\ Len(e \o MqttString(s)) = Len(e) + 2 + Len(s)
      /\ String(e \o MqttString(s), Len(e), s)
  BY StringAppended
<1>5. QED
  BY <1>1, <1>3, <1>4

LEMMA StringFirstRead ==
  ASSUME NEW b \in Seq(Nat), NEW s \in Seq(Nat), String(b, 0, s)
  PROVE  /\ StringAt(b, 1) = s <=> Short(s)
         /\ Short(s) => After(b, 1) = 3 + Len(s)
         /\ \E v \in Nat : v <= Len(s) /\ After(b, 1) = 3 + v
<1>1. PICK x \in Nat : x = 0
  OBVIOUS
<1>2. /\ StringAt(b, x + 1) = s <=> Short(s)
      /\ Short(s) => After(b, x + 1) = x + 3 + Len(s)
      /\ \E v \in Nat : v <= Len(s) /\ After(b, x + 1) = x + 3 + v
  BY <1>1, StringRead
<1>3. x + 1 = 1 /\ x + 3 = 3
  BY <1>1
<1>4. QED
  BY <1>2, <1>3

LEMMA OneByte == \A q \in Nat : <<q>> \in Seq(Nat) /\ Len(<<q>>) = 1 /\ <<q>>[1] = q
  OBVIOUS

Sub == [topic : Seq(Nat), qos : 0 .. 2]

(* The first of the topics of a SUBSCRIBE.                                 *)
LEMMA TopicFirst ==
  ASSUME NEW s \in Sub, NEW more \in Seq(Nat), NEW b,
         b = (MqttString(s.topic) \o <<s.qos % 4>>) \o more
  PROVE  /\ b \in Seq(Nat) /\ ~NoTopic(b)
         /\ Short(s.topic) => FirstTopic(b) = s /\ RestTopics(b) = more
         /\ ~Short(s.topic) => FirstTopic(b) # s
<1>1. PICK t \in Seq(Nat), q \in Nat : t = s.topic /\ q = s.qos /\ q % 4 = q
  BY DEF Sub
<1>2. s = [topic |-> t, qos |-> q]
  BY <1>1 DEF Sub
<1>3. PICK n \in Nat : n = Len(t)
  OBVIOUS
<1>4. PICK w \in Seq(Nat) : w = MqttString(t) /\ Len(w) = 2 + n /\ String(w, 0, t)
  BY <1>3, StringFirst
<1>5. PICK e \in Seq(Nat) : e = <<q>> /\ Len(e) = 1 /\ e[1] = q
  BY OneByte
<1>6. PICK a \in Seq(Nat) : a = w \o e
  BY Appended
<1>7. /\ Len(w \o e) = Len(w) + Len(e)
      /\ \A j \in 1 .. Len(e) : (w \o e)[Len(w) + j] = e[j]
  BY Appended
<1>8. Len(a) = 3 + n /\ a[3 + n] = q
  <2>1. Len(a) = 2 + n + 1 /\ a[2 + n + 1] = e[1]
    BY <1>4, <1>5, <1>6, <1>7
  <2>2. 2 + n + 1 = 3 + n
    OBVIOUS
  <2>3. QED
    BY <1>5, <2>1, <2>2
<1>9. b = a \o more
  BY <1>1, <1>4, <1>5, <1>6
<1>10. /\ a \o more \in Seq(Nat) /\ Len(a \o more) = Len(a) + Len(more)
       /\ \A j \in 1 .. Len(a) : (a \o more)[j] = a[j]
  BY Appended
<1>11. PICK y \in Nat : y = Len(more)
  OBVIOUS
<1>12. b \in Seq(Nat) /\ Len(b) = 3 + n + y /\ b[3 + n] = q
  <2>1. 3 + n \in 1 .. 3 + n
    OBVIOUS
  <2>2. QED
    BY <1>8, <1>9, <1>10, <1>11, <2>1
<1>13. String(b, 0, t)
  <2>1. String(a, 0, t)
    BY <1>4, <1>6, StringStays
  <2>2. QED
    BY <1>9, <2>1, StringStays
<1>14. /\ StringAt(b, 1) = t <=> Short(t)
       /\ Short(t) => After(b, 1) = 3 + Len(t)
       /\ \E v \in Nat : v <= Len(t) /\ After(b, 1) = 3 + v
  BY <1>12, <1>13, StringFirstRead
<1>15. /\ StringAt(b, 1) = t <=> Short(t)
       /\ Short(t) => After(b, 1) = 3 + n
       /\ \E v \in Nat : v <= n /\ After(b, 1) = 3 + v
  BY <1>3, <1>14
<1>16. ~NoTopic(b)
  <2>1. PICK v \in Nat : v <= n /\ After(b, 1) = 3 + v
    BY <1>15
  <2>2. ~(3 + n + y < 2) /\ ~(3 + n + y < 3 + v)
    BY <2>1
  <2>3. QED
    BY <1>12, <2>1, <2>2 DEF NoTopic
<1>17. ASSUME Short(t) PROVE FirstTopic(b) = s /\ RestTopics(b) = more
  <2>1. After(b, 1) = 3 + n /\ StringAt(b, 1) = t
    BY <1>15, <1>17
  <2>2. FirstTopic(b) = s
    BY <1>2, <1>12, <2>1 DEF FirstTopic
  <2>3. SubSeq(a \o more, Len(a) + 1, Len(a \o more)) = more
    BY Remainder
  <2>4. RestTopics(b) = more
    BY <1>8, <1>9, <2>1, <2>3 DEF RestTopics
  <2>5. QED
    BY <2>2, <2>4
<1>18. ASSUME ~Short(t) PROVE FirstTopic(b) # s
  <2>1. StringAt(b, 1) # t
    BY <1>15, <1>18
  <2>2. FirstTopic(b).topic = StringAt(b, 1)
    BY DEF FirstTopic
  <2>3. QED
    BY <1>1, <2>1, <2>2
<1>19. QED
  BY <1>1, <1>12, <1>16, <1>17, <1>18

LEMMA OneThenRest ==
  ASSUME NEW S, NEW s \in Seq(S), s # <<>>, NEW x \in S, NEW r \in Seq(S)
  PROVE  <<x>> \o r = s <=> x = s[1] /\ r = Tail(s)
<1>1. PICK n \in Nat : n = Len(r)
  OBVIOUS
<1>2. <<x>> \in Seq(S) /\ Len(<<x>>) = 1 /\ <<x>>[1] = x
  OBVIOUS
<1>3. <<x>> \o r \in Seq(S)
  BY <1>2
<1>4. PICK c \in Seq(S) : c = <<x>> \o r
  BY <1>3
<1>5. Len(c) = n + 1 /\ c[1] = x /\ \A j \in 1 .. n : c[j + 1] = r[j]
  <2>1. PICK e \in Seq(S) : e = <<x>> /\ Len(e) = 1 /\ e[1] = x
    BY <1>2
  <2>2. /\ Len(e \o r) = Len(e) + Len(r)
        /\ \A i \in 1 .. Len(e) + Len(r) : (e \o r)[i] = IF i <= Len(e) THEN e[i] ELSE r[i - Len(e)]
    BY ConcatProperties
  <2>3. Len(c) = n + 1 /\ \A i \in 1 .. n + 1 : c[i] = IF i <= 1 THEN e[i] ELSE r[i - 1]
    <3>1. 1 + n = n + 1
      OBVIOUS
    <3>2. QED
      BY <1>1, <1>4, <2>1, <2>2, <3>1
  <2>4. c[1] = x
    <3>1. 1 \in 1 .. n + 1 /\ 1 <= 1
      OBVIOUS
    <3>2. QED
      BY <2>1, <2>3, <3>1
  <2>5. ASSUME NEW j \in 1 .. n PROVE c[j + 1] = r[j]
    <3>1. j + 1 \in 1 .. n + 1 /\ ~(j + 1 <= 1) /\ (j + 1) - 1 = j
      OBVIOUS
    <3>2. QED
      BY <2>3, <3>1
  <2>6. QED
    BY <2>3, <2>4, <2>5
<1>6. PICK u \in Seq(S), m \in Nat :
        u = Tail(s) /\ m = Len(u) /\ Len(s) = m + 1 /\ \A i \in 1 .. m : u[i] = s[i + 1]
  BY TailFacts
<1>7. ASSUME c = s PROVE x = s[1] /\ r = u
  <2>1. m = n
    BY <1>5, <1>6, <1>7
  <2>2. \A j \in 1 .. n : r[j] = u[j]
    BY <1>5, <1>6, <1>7, <2>1
  <2>3. r = u
    BY <1>1, <1>6, <2>1, <2>2, SeqEqual
  <2>4. QED
    BY <1>5, <1>7, <2>3
<1>8. ASSUME x = s[1], r = u PROVE c = s
  <2>1. m = n
    BY <1>1, <1>6, <1>8
  <2>2. ASSUME NEW i \in 1 .. n + 1 PROVE c[i] = s[i]
    <3>1. CASE i = 1
      BY <1>5, <1>8, <3>1
    <3>2. CASE i # 1
      <4>1. PICK j \in 1 .. n : i = j + 1
        <5>1. i - 1 \in 1 .. n /\ i = (i - 1) + 1
          BY <3>2
        <5>2. QED
          BY <5>1
      <4>2. QED
        BY <1>5, <1>6, <1>8, <2>1, <4>1
    <3>3. QED
      BY <3>1, <3>2
  <2>3. Len(c) = n + 1 /\ Len(s) = n + 1
    BY <1>5, <1>6, <2>1
  <2>4. QED
    BY <2>2, <2>3, SeqEqual
<1>9. QED
  BY <1>4, <1>6, <1>7, <1>8

(* The topics of a SUBSCRIBE are read as they were written if every one is *)
(* short enough, and as others if one is not.                              *)
TopicsShort(subs) == \A i \in 1 .. Len(subs) : Short(subs[i].topic)

LEMMA TopicsRead ==
  ASSUME NEW subs \in Seq(Sub)
  PROVE  ReadTopics[Topics(subs)] = subs <=> TopicsShort(subs)
<1> DEFINE P == {s \in Seq(Sub) : ReadTopics[Topics(s)] = s <=> TopicsShort(s)}
<1>1. P \subseteq Seq(Sub) /\ \A s \in Seq(Sub) : s \in P <=> (ReadTopics[Topics(s)] = s <=> TopicsShort(s))
  OBVIOUS
<1> HIDE DEF P
<1>2. ASSUME NEW s \in Seq(Sub), \A u \in Seq(Sub) : Len(u) < Len(s) => u \in P PROVE s \in P
  <2>1. CASE s = <<>>
    <3>0. <<>> \in Seq(Nat) /\ Len(<<>>) = 0
      OBVIOUS
    <3>1. PICK e \in Seq(Nat) : e = <<>> /\ Len(e) = 0
      BY <3>0
    <3>2. NoTopic(e)
      BY <3>1 DEF NoTopic
    <3>3. ReadTopics[e] = <<>>
      BY <3>2, ReadTopicsStep
    <3>4. Topics(s) = e
      BY <2>1, <3>1, NoneToJoin
    <3>5. TopicsShort(s)
      BY <2>1 DEF TopicsShort
    <3>6. QED
      BY <1>1, <2>1, <3>3, <3>4, <3>5
  <2>2. CASE s # <<>>
    <3>0. /\ Tail(s) \in Seq(Sub) /\ s[1] \in Sub /\ Len(Tail(s)) \in Nat
          /\ Len(s) = Len(Tail(s)) + 1
          /\ \A i \in 1 .. Len(Tail(s)) : Tail(s)[i] = s[i + 1]
      BY <2>2, TailFacts
    <3>1. PICK h \in Sub, u \in Seq(Sub), m \in Nat :
            /\ h = s[1] /\ u = Tail(s) /\ m = Len(u) /\ Len(s) = m + 1
            /\ \A i \in 1 .. m : u[i] = s[i + 1]
      BY <3>0
    <3>2. PICK more \in Seq(Nat) : more = Topics(u)
      BY TopicsType DEF Sub
    <3>3. Topics(s) = (MqttString(h.topic) \o <<h.qos % 4>>) \o more
      BY <2>2, <3>1, <3>2, TopicsHead DEF Sub
    <3>4. PICK b \in Seq(Nat) :
            /\ b = Topics(s) /\ ~NoTopic(b)
            /\ Short(h.topic) => FirstTopic(b) = h /\ RestTopics(b) = more
            /\ ~Short(h.topic) => FirstTopic(b) # h
      BY <3>3, TopicFirst
    <3>5. PICK r : r = ReadTopics[RestTopics(b)]
      OBVIOUS
    <3>6. ReadTopics[b] = <<FirstTopic(b)>> \o r
      BY <3>4, <3>5, ReadTopicsStep
    <3>7. FirstTopic(b) \in TopicEntry /\ r \in Seq(TopicEntry)
      BY <3>4, <3>5, FirstTopicType, ReadTopicsStep
    <3>8. s \in Seq(TopicEntry)
      <4>1. Sub \subseteq TopicEntry
        BY DEF Sub, TopicEntry
      <4>2. QED
        BY <4>1
    <3>9. ReadTopics[b] = s <=> FirstTopic(b) = h /\ r = u
      <4>1. <<FirstTopic(b)>> \o r = s <=> FirstTopic(b) = s[1] /\ r = Tail(s)
        BY <2>2, <3>7, <3>8, OneThenRest, Zenon
      <4>2. QED
        BY <3>1, <3>6, <4>1
    <3>10. ReadTopics[more] = u <=> TopicsShort(u)
      <4>1. u \in P
        <5>1. Len(u) < Len(s)
          BY <3>1
        <5>2. QED
          BY <1>2, <5>1
      <4>2. QED
        BY <1>1, <3>2, <4>1
    <3>11. TopicsShort(s) <=> Short(h.topic) /\ TopicsShort(u)
      <4>1. ASSUME TopicsShort(s) PROVE Short(h.topic) /\ TopicsShort(u)
        <5>1. 1 \in 1 .. m + 1 /\ \A i \in 1 .. m : i + 1 \in 1 .. m + 1
          OBVIOUS
        <5>2. QED
          BY <3>1, <4>1, <5>1 DEF TopicsShort
      <4>2. ASSUME Short(h.topic), TopicsShort(u), NEW i \in 1 .. m + 1 PROVE Short(s[i].topic)
        <5>1. CASE i = 1
          BY <3>1, <4>2, <5>1
        <5>2. CASE i # 1
          <6>1. i - 1 \in 1 .. m /\ (i - 1) + 1 = i
            BY <5>2
          <6>2. PICK j \in 1 .. m : j + 1 = i
            BY <6>1
          <6>3. QED
            BY <3>1, <4>2, <6>2 DEF TopicsShort
        <5>3. QED
          BY <5>1, <5>2
      <4>3. QED
        BY <3>1, <4>1, <4>2 DEF TopicsShort
    <3>12. CASE Short(h.topic)
      <4>1. FirstTopic(b) = h /\ r = ReadTopics[more]
        BY <3>4, <3>5, <3>12
      <4>2. ReadTopics[b] = s <=> TopicsShort(s)
        BY <3>9, <3>10, <3>11, <3>12, <4>1
      <4>3. QED
        BY <1>1, <3>4, <4>2
    <3>13. CASE ~Short(h.topic)
      <4>1. FirstTopic(b) # h
        BY <3>4, <3>13
      <4>2. ReadTopics[b] = s <=> TopicsShort(s)
        BY <3>9, <3>11, <3>13, <4>1
      <4>3. QED
        BY <1>1, <3>4, <4>2
    <3>14. QED
      BY <3>12, <3>13
  <2>3. QED
    BY <2>1, <2>2
<1>3. P = Seq(Sub)
  BY <1>1, <1>2, SequenceInduction
<1>4. QED
  BY <1>1, <1>3

(* The same for the filters of an UNSUBSCRIBE.                             *)
NoFilter(b) == Len(b) < 2 \/ Len(b) + 1 < After(b, 1)

FirstFilter(b) == StringAt(b, 1)

RestFilters(b) == SubSeq(b, After(b, 1), Len(b))

LEMMA FirstFilterType ==
  ASSUME NEW b \in Seq(Nat), ~NoFilter(b)
  PROVE  FirstFilter(b) \in Seq(Nat) /\ RestFilters(b) \in Seq(Nat) /\ Len(RestFilters(b)) < Len(b)
<1>1. ~(Len(b) < 2) /\ ~(Len(b) + 1 < After(b, 1))
  BY DEF NoFilter
<1>2. After(b, 1) \in Nat /\ After(b, 1) >= 3 /\ StringAt(b, 1) \in Seq(Nat)
  BY <1>1, LeadingString
<1>3. PICK i \in Nat : i = After(b, 1)
  BY <1>2
<1>4. i > 1 /\ Len(b) # 0
  BY <1>1, <1>2, <1>3
<1>5. SubSeq(b, i, Len(b)) \in Seq(Nat) /\ Len(SubSeq(b, i, Len(b))) < Len(b)
  BY <1>4, Behind
<1>6. QED
  BY <1>2, <1>3, <1>5 DEF FirstFilter, RestFilters

LEMMA ReadFiltersStep ==
  ASSUME NEW b \in Seq(Nat)
  PROVE  /\ ReadFilters[b] \in Seq(Seq(Nat))
         /\ NoFilter(b) => ReadFilters[b] = <<>>
         /\ ~NoFilter(b) => ReadFilters[b] = <<FirstFilter(b)>> \o ReadFilters[RestFilters(b)]
<1> DEFINE cut == {c \in Seq(Nat) : NoFilter(c)}
           entry == [c \in Seq(Nat) |-> IF NoFilter(c) THEN <<>> ELSE FirstFilter(c)]
           rest == [c \in Seq(Nat) |-> IF NoFilter(c) THEN <<>> ELSE RestFilters(c)]
<1>1. <<>> \in Seq(Nat)
  OBVIOUS
<1>2. entry \in [Seq(Nat) -> Seq(Nat)]
  BY <1>1, FirstFilterType
<1>3. rest \in [Seq(Nat) -> Seq(Nat)]
  BY <1>1, FirstFilterType
<1>4. \A c \in Seq(Nat) : c \in cut <=> NoFilter(c)
  OBVIOUS
<1>5. \A c \in Seq(Nat) : ~NoFilter(c) => entry[c] = FirstFilter(c) /\ rest[c] = RestFilters(c)
  OBVIOUS
<1> HIDE DEF cut, entry, rest
<1>6. \A c \in Seq(Nat) : c \notin cut => Len(rest[c]) < Len(c)
  BY <1>4, <1>5, FirstFilterType
<1>7. PICK h \in [Seq(Nat) -> Seq(Seq(Nat))] : Reads(h, cut, entry, rest)
  BY <1>2, <1>3, <1>6, EntriesExist
<1>8. ASSUME NEW g PROVE Reads(g, cut, entry, rest) <=>
         g = [c \in Seq(Nat) |-> IF NoFilter(c) THEN <<>> ELSE <<FirstFilter(c)>> \o g[RestFilters(c)]]
  <2>1. \A c \in Seq(Nat) : (IF c \in cut THEN <<>> ELSE <<entry[c]>> \o g[rest[c]])
                              = IF NoFilter(c) THEN <<>> ELSE <<FirstFilter(c)>> \o g[RestFilters(c)]
    BY <1>4, <1>5
  <2>2. QED
    BY <2>1 DEF Reads
<1>9. h = [c \in Seq(Nat) |-> IF NoFilter(c) THEN <<>> ELSE <<FirstFilter(c)>> \o h[RestFilters(c)]]
  BY <1>7, <1>8
<1>10. ReadFilters = [c \in Seq(Nat) |->
                       IF NoFilter(c) THEN <<>> ELSE <<FirstFilter(c)>> \o ReadFilters[RestFilters(c)]]
  BY <1>9 DEF ReadFilters, NoFilter, FirstFilter, RestFilters
<1>11. Reads(ReadFilters, cut, entry, rest)
  BY <1>8, <1>10
<1>12. ReadFilters[b] \in Seq(Seq(Nat))
  BY <1>2, <1>3, <1>6, <1>11, EntriesType
<1>13. ReadFilters[b] = IF NoFilter(b) THEN <<>> ELSE <<FirstFilter(b)>> \o ReadFilters[RestFilters(b)]
  BY <1>10
<1>14. QED
  BY <1>12, <1>13

(* The first of the filters of an UNSUBSCRIBE.                             *)
LEMMA FilterFirst ==
  ASSUME NEW t \in Seq(Nat), NEW more \in Seq(Nat), NEW b, b = MqttString(t) \o more
  PROVE  /\ b \in Seq(Nat) /\ ~NoFilter(b)
         /\ Short(t) => FirstFilter(b) = t /\ RestFilters(b) = more
         /\ ~Short(t) => FirstFilter(b) # t
<1>1. PICK n \in Nat, y \in Nat : n = Len(t) /\ y = Len(more)
  OBVIOUS
<1>2. PICK a \in Seq(Nat) : a = MqttString(t) /\ Len(a) = 2 + n /\ String(a, 0, t)
  BY <1>1, StringFirst
<1>3. b = a \o more
  BY <1>2
<1>4. a \o more \in Seq(Nat) /\ Len(a \o more) = Len(a) + Len(more)
  BY Appended
<1>5. b \in Seq(Nat) /\ Len(b) = 2 + n + y
  BY <1>1, <1>2, <1>3, <1>4
<1>6. String(b, 0, t)
  BY <1>2, <1>3, StringStays
<1>7. /\ StringAt(b, 1) = t <=> Short(t)
      /\ Short(t) => After(b, 1) = 3 + Len(t)
      /\ \E v \in Nat : v <= Len(t) /\ After(b, 1) = 3 + v
  BY <1>5, <1>6, StringFirstRead
<1>8. ~NoFilter(b)
  <2>1. PICK v \in Nat : v <= n /\ After(b, 1) = 3 + v
    BY <1>1, <1>7
  <2>2. ~(2 + n + y < 2) /\ ~(2 + n + y + 1 < 3 + v)
    BY <2>1
  <2>3. QED
    BY <1>5, <2>1, <2>2 DEF NoFilter
<1>9. ASSUME Short(t) PROVE RestFilters(b) = more
  <2>1. SubSeq(a \o more, Len(a) + 1, Len(a \o more)) = more
    BY Remainder
  <2>2. After(b, 1) = 3 + n /\ 2 + n + 1 = 3 + n
    BY <1>1, <1>7, <1>9
  <2>3. QED
    BY <1>2, <1>3, <2>1, <2>2 DEF RestFilters
<1>10. QED
  BY <1>5, <1>7, <1>8, <1>9 DEF FirstFilter

(* So are the topics of an UNSUBSCRIBE.                                    *)
FiltersShort(topics) == \A i \in 1 .. Len(topics) : Short(topics[i])

LEMMA FiltersRead ==
  ASSUME NEW topics \in Seq(Seq(Nat))
  PROVE  ReadFilters[Filters(topics)] = topics <=> FiltersShort(topics)
<1> DEFINE P == {s \in Seq(Seq(Nat)) : ReadFilters[Filters(s)] = s <=> FiltersShort(s)}
<1>1. P \subseteq Seq(Seq(Nat)) /\ \A s \in Seq(Seq(Nat)) : s \in P <=> (ReadFilters[Filters(s)] = s <=> FiltersShort(s))
  OBVIOUS
<1> HIDE DEF P
<1>2. ASSUME NEW s \in Seq(Seq(Nat)), \A u \in Seq(Seq(Nat)) : Len(u) < Len(s) => u \in P PROVE s \in P
  <2>1. CASE s = <<>>
    <3>0. <<>> \in Seq(Nat) /\ Len(<<>>) = 0
      OBVIOUS
    <3>1. PICK e \in Seq(Nat) : e = <<>> /\ Len(e) = 0
      BY <3>0
    <3>2. NoFilter(e)
      BY <3>1 DEF NoFilter
    <3>3. ReadFilters[e] = <<>>
      BY <3>2, ReadFiltersStep
    <3>4. Filters(s) = e
      BY <2>1, <3>1, NoneToJoin
    <3>5. FiltersShort(s)
      BY <2>1 DEF FiltersShort
    <3>6. QED
      BY <1>1, <2>1, <3>3, <3>4, <3>5
  <2>2. CASE s # <<>>
    <3>0. /\ Tail(s) \in Seq(Seq(Nat)) /\ s[1] \in Seq(Nat) /\ Len(Tail(s)) \in Nat
          /\ Len(s) = Len(Tail(s)) + 1
          /\ \A i \in 1 .. Len(Tail(s)) : Tail(s)[i] = s[i + 1]
      BY <2>2, TailFacts
    <3>1. PICK h \in Seq(Nat), u \in Seq(Seq(Nat)), m \in Nat :
            /\ h = s[1] /\ u = Tail(s) /\ m = Len(u) /\ Len(s) = m + 1
            /\ \A i \in 1 .. m : u[i] = s[i + 1]
      BY <3>0
    <3>2. PICK more \in Seq(Nat) : more = Filters(u)
      BY FiltersType
    <3>3. Filters(s) = MqttString(h) \o more
      BY <2>2, <3>1, <3>2, FiltersHead
    <3>4. PICK b \in Seq(Nat) :
            /\ b = Filters(s) /\ ~NoFilter(b)
            /\ Short(h) => FirstFilter(b) = h /\ RestFilters(b) = more
            /\ ~Short(h) => FirstFilter(b) # h
      BY <3>3, FilterFirst
    <3>5. PICK r : r = ReadFilters[RestFilters(b)]
      OBVIOUS
    <3>6. ReadFilters[b] = <<FirstFilter(b)>> \o r
      BY <3>4, <3>5, ReadFiltersStep
    <3>7. FirstFilter(b) \in Seq(Nat) /\ r \in Seq(Seq(Nat))
      BY <3>4, <3>5, FirstFilterType, ReadFiltersStep
    <3>9. ReadFilters[b] = s <=> FirstFilter(b) = h /\ r = u
      <4>1. <<FirstFilter(b)>> \o r = s <=> FirstFilter(b) = s[1] /\ r = Tail(s)
        BY <2>2, <3>7, OneThenRest, Zenon
      <4>2. QED
        BY <3>1, <3>6, <4>1
    <3>10. ReadFilters[more] = u <=> FiltersShort(u)
      <4>1. u \in P
        <5>1. Len(u) < Len(s)
          BY <3>1
        <5>2. QED
          BY <1>2, <5>1
      <4>2. QED
        BY <1>1, <3>2, <4>1
    <3>11. FiltersShort(s) <=> Short(h) /\ FiltersShort(u)
      <4>1. ASSUME FiltersShort(s) PROVE Short(h) /\ FiltersShort(u)
        <5>1. 1 \in 1 .. m + 1 /\ \A i \in 1 .. m : i + 1 \in 1 .. m + 1
          OBVIOUS
        <5>2. QED
          BY <3>1, <4>1, <5>1 DEF FiltersShort
      <4>2. ASSUME Short(h), FiltersShort(u), NEW i \in 1 .. m + 1 PROVE Short(s[i])
        <5>1. CASE i = 1
          BY <3>1, <4>2, <5>1
        <5>2. CASE i # 1
          <6>1. i - 1 \in 1 .. m /\ (i - 1) + 1 = i
            BY <5>2
          <6>2. PICK j \in 1 .. m : j + 1 = i
            BY <6>1
          <6>3. QED
            BY <3>1, <4>2, <6>2 DEF FiltersShort
        <5>3. QED
          BY <5>1, <5>2
      <4>3. QED
        BY <3>1, <4>1, <4>2 DEF FiltersShort
    <3>12. CASE Short(h)
      <4>1. FirstFilter(b) = h /\ r = ReadFilters[more]
        BY <3>4, <3>5, <3>12
      <4>2. ReadFilters[b] = s <=> FiltersShort(s)
        BY <3>9, <3>10, <3>11, <3>12, <4>1
      <4>3. QED
        BY <1>1, <3>4, <4>2
    <3>13. CASE ~Short(h)
      <4>1. FirstFilter(b) # h
        BY <3>4, <3>13
      <4>2. ReadFilters[b] = s <=> FiltersShort(s)
        BY <3>9, <3>11, <3>13, <4>1
      <4>3. QED
        BY <1>1, <3>4, <4>2
    <3>14. QED
      BY <3>12, <3>13
  <2>3. QED
    BY <2>1, <2>2
<1>3. P = Seq(Seq(Nat))
  BY <1>1, <1>2, SequenceInduction
<1>4. QED
  BY <1>1, <1>3

----------------------------------------------------------------------------
(* What a packet says, kind by kind.                                       *)
Packet == [type : Nat, flags : 0 .. 15, body : Seq(Nat)]

LEMMA IdFirst ==
  ASSUME NEW id \in PacketId, NEW more \in Seq(Nat), NEW b, b = U16(id) \o more
  PROVE  /\ b \in Seq(Nat) /\ Len(b) = 2 + Len(more)
         /\ U16At(b, 1) = id /\ ParsePacketId(b) = id
         /\ SubSeq(b, 3, Len(b)) = more
<1>1. id \in Nat /\ id < U16Space
  BY U16SpaceNat DEF PacketId
<1>2. PICK a \in Seq(Nat) : a = U16(id) /\ Len(a) = 2
  BY <1>1, U16Type
<1>3. b = a \o more
  BY <1>2
<1>4. a \o more \in Seq(Nat) /\ Len(a \o more) = Len(a) + Len(more)
  BY Appended
<1>5. Number(a, 0, id)
  <2>1. 0 + 2 <= 2 /\ 0 + 1 = 1 /\ 0 + 2 = 2
    OBVIOUS
  <2>2. QED
    BY <1>2, <2>1 DEF Number
<1>6. Number(a \o more, 0, id)
  <2>1. 0 \in Nat
    OBVIOUS
  <2>2. QED
    BY <1>1, <1>5, <2>1, NumberStays
<1>7. U16At(b, 1) = id
  <2>1. PICK x \in Nat : x = 0
    OBVIOUS
  <2>2. U16At(b, x + 1) = id
    BY <1>1, <1>3, <1>6, <2>1, NumberAt
  <2>3. x + 1 = 1
    BY <2>1
  <2>4. QED
    BY <2>2, <2>3
<1>8. SubSeq(a \o more, Len(a) + 1, Len(a \o more)) = more
  BY Remainder
<1>9. SubSeq(b, 3, Len(b)) = more
  <2>1. Len(a) + 1 = 3
    BY <1>2
  <2>2. QED
    BY <1>3, <1>8, <2>1
<1>10. ParsePacketId(b) = id
  <2>1. ~(Len(b) < 2)
    <3>1. PICK y \in Nat : y = Len(more)
      OBVIOUS
    <3>2. ~(2 + y < 2)
      OBVIOUS
    <3>3. QED
      BY <1>2, <1>3, <1>4, <3>1, <3>2
  <2>2. QED
    BY <1>7, <2>1 DEF ParsePacketId
<1>11. QED
  BY <1>2, <1>3, <1>4, <1>7, <1>9, <1>10

LEMMA PubackFields ==
  ASSUME NEW m \in Message, m.kind = "puback", NEW p \in Packet, Frames(m, p)
  PROVE  SameFields(m, p) <=> Fits(m)
<1>1. m.packetId \in PacketId
  BY DEF Message, AnyMessage
<1>2. PICK id \in PacketId, body \in Seq(Nat) : id = m.packetId /\ body = U16(id)
  <2>1. m.packetId \in Nat
    BY <1>1, U16SpaceNat DEF PacketId
  <2>2. QED
    BY <1>1, <2>1, U16Type
<1>3. Build(m) = Framed(64, body)
  BY <1>2 DEF Build, BuildPuback
<1>4. p.body = body
  <2>1. 64 \in Nat /\ p.body \in Seq(Nat)
    BY DEF Packet
  <2>2. QED
    BY <1>3, <2>1, FramesBody
<1>5. PICK more \in Seq(Nat) : body = U16(id) \o more
  <2>1. <<>> \in Seq(Nat) /\ body = body \o <<>>
    OBVIOUS
  <2>2. QED
    BY <1>2, <2>1
<1>6. ParsePacketId(p.body) = m.packetId
  <2>1. ParsePacketId(body) = id
    BY <1>5, IdFirst
  <2>2. QED
    BY <1>2, <1>4, <2>1
<1>7. Fits(m)
  BY DEF Fits, Strings
<1>8. QED
  BY <1>6, <1>7 DEF SameFields

LEMMA SubscribeFields ==
  ASSUME NEW m \in Message, m.kind = "subscribe", NEW p \in Packet, Frames(m, p)
  PROVE  SameFields(m, p) <=> Fits(m)
<1>1. m.packetId \in PacketId /\ m.subs \in Seq(Sub)
  BY DEF Message, AnyMessage, Sub, Text
<1>2. PICK id \in PacketId, subs \in Seq(Sub) : id = m.packetId /\ subs = m.subs
  BY <1>1
<1>3. PICK more \in Seq(Nat) : more = Topics(subs)
  BY TopicsType DEF Sub
<1>4. PICK body \in Seq(Nat) :
        /\ body = U16(id) \o more
        /\ ParsePacketId(body) = id /\ SubSeq(body, 3, Len(body)) = more
  BY IdFirst
<1>5. Build(m) = Framed(130, body)
  BY <1>2, <1>3, <1>4 DEF Build, BuildSubscribe
<1>6. p.body = body
  <2>1. 130 \in Nat /\ p.body \in Seq(Nat)
    BY DEF Packet
  <2>2. QED
    BY <1>5, <2>1, FramesBody
<1>7. SameFields(m, p) <=> ReadTopics[more] = subs
  <2>1. SameFields(m, p) <=> ParsePacketId(p.body) = m.packetId /\ ReadTopics[AfterId(p)] = m.subs
    BY DEF SameFields
  <2>2. AfterId(p) = more
    BY <1>4, <1>6 DEF AfterId
  <2>3. ParsePacketId(p.body) = m.packetId
    BY <1>2, <1>4, <1>6
  <2>4. QED
    BY <1>2, <2>1, <2>2, <2>3
<1>8. Fits(m) <=> TopicsShort(subs)
  <2>1. DOMAIN subs = 1 .. Len(subs)
    OBVIOUS
  <2>2. Strings(m) = {subs[i].topic : i \in 1 .. Len(subs)}
    BY <1>2, <2>1 DEF Strings
  <2>3. QED
    BY <2>2 DEF Fits, TopicsShort, Short
<1>9. QED
  BY <1>3, <1>7, <1>8, TopicsRead

LEMMA UnsubscribeFields ==
  ASSUME NEW m \in Message, m.kind = "unsubscribe", NEW p \in Packet, Frames(m, p)
  PROVE  SameFields(m, p) <=> Fits(m)
<1>1. m.packetId \in PacketId /\ m.topics \in Seq(Seq(Nat))
  BY DEF Message, AnyMessage, Text
<1>2. PICK id \in PacketId, topics \in Seq(Seq(Nat)) : id = m.packetId /\ topics = m.topics
  BY <1>1
<1>3. PICK more \in Seq(Nat) : more = Filters(topics)
  BY FiltersType
<1>4. PICK body \in Seq(Nat) :
        /\ body = U16(id) \o more
        /\ ParsePacketId(body) = id /\ SubSeq(body, 3, Len(body)) = more
  BY IdFirst
<1>5. Build(m) = Framed(162, body)
  BY <1>2, <1>3, <1>4 DEF Build, BuildUnsubscribe
<1>6. p.body = body
  <2>1. 162 \in Nat /\ p.body \in Seq(Nat)
    BY DEF Packet
  <2>2. QED
    BY <1>5, <2>1, FramesBody
<1>7. SameFields(m, p) <=> ReadFilters[more] = topics
  <2>1. SameFields(m, p) <=> ParsePacketId(p.body) = m.packetId /\ ReadFilters[AfterId(p)] = m.topics
    BY DEF SameFields
  <2>2. AfterId(p) = more
    BY <1>4, <1>6 DEF AfterId
  <2>3. ParsePacketId(p.body) = m.packetId
    BY <1>2, <1>4, <1>6
  <2>4. QED
    BY <1>2, <2>1, <2>2, <2>3
<1>8. Fits(m) <=> FiltersShort(topics)
  <2>1. DOMAIN topics = 1 .. Len(topics)
    OBVIOUS
  <2>2. Strings(m) = {topics[i] : i \in 1 .. Len(topics)}
    BY <1>2, <2>1 DEF Strings
  <2>3. QED
    BY <2>2 DEF Fits, FiltersShort, Short
<1>9. QED
  BY <1>3, <1>7, <1>8, FiltersRead

LEMMA ConnackFields ==
  ASSUME NEW m \in Message, m.kind = "connack", NEW p \in Packet, Frames(m, p)
  PROVE  SameFields(m, p) <=> Fits(m)
<1>1. m.sessionPresent \in BOOLEAN /\ m.returnCode \in Nat
  BY DEF Message, AnyMessage
<1>2. PICK f \in Nat, c \in Nat :
        f = Flag(m.sessionPresent, 1) /\ c = m.returnCode /\ (f % 2 = 1 <=> m.sessionPresent)
  <2>1. Flag(m.sessionPresent, 1) \in Nat /\ (Flag(m.sessionPresent, 1) % 2 = 1 <=> m.sessionPresent)
    BY <1>1 DEF Flag
  <2>2. QED
    BY <1>1, <2>1
<1>3. <<f, c>> \in Seq(Nat) /\ Len(<<f, c>>) = 2 /\ <<f, c>>[1] = f /\ <<f, c>>[2] = c
  OBVIOUS
<1>4. PICK body \in Seq(Nat) : body = <<f, c>> /\ Len(body) = 2 /\ body[1] = f /\ body[2] = c
  BY <1>3
<1>5. Build(m) = Framed(32, body)
  BY <1>2, <1>4 DEF Build
<1>6. p.body = body
  <2>1. 32 \in Nat /\ p.body \in Seq(Nat)
    BY DEF Packet
  <2>2. QED
    BY <1>5, <2>1, FramesBody
<1>7. ParseConnack(body) = [sessionPresent |-> m.sessionPresent, returnCode |-> m.returnCode]
  <2>1. ~(Len(body) < 2)
    BY <1>4
  <2>2. (body[1] % 2 = 1) = m.sessionPresent
    BY <1>1, <1>2, <1>4
  <2>3. QED
    BY <1>2, <1>4, <2>1, <2>2 DEF ParseConnack
<1>8. [f_1 \in DOMAIN m \ {"kind"} |-> m[f_1]]
        = [sessionPresent |-> m.sessionPresent, returnCode |-> m.returnCode]
  <2>1. m \in [kind : {"connack"}, sessionPresent : BOOLEAN, returnCode : Nat]
    BY DEF Message, AnyMessage
  <2>2. DOMAIN m \ {"kind"} = {"sessionPresent", "returnCode"}
    BY <2>1
  <2>3. QED
    BY <2>2
<1>9. Fits(m)
  BY DEF Fits, Strings
<1>10. QED
  BY <1>6, <1>7, <1>8, <1>9 DEF SameFields

LEMMA SubackFields ==
  ASSUME NEW m \in Message, m.kind = "suback", NEW p \in Packet, Frames(m, p)
  PROVE  SameFields(m, p) <=> Fits(m)
<1>1. m.packetId \in PacketId /\ m.returnCodes \in Seq(Nat) /\ m.returnCodes # <<>>
  BY DEF Message, AnyMessage, Text
<1>2. PICK id \in PacketId, codes \in Seq(Nat) :
        id = m.packetId /\ codes = m.returnCodes /\ Len(codes) > 0
  <2>1. Len(m.returnCodes) > 0
    BY <1>1
  <2>2. QED
    BY <1>1, <2>1
<1>3. PICK body \in Seq(Nat) :
        /\ body = U16(id) \o codes /\ Len(body) = 2 + Len(codes)
        /\ U16At(body, 1) = id /\ SubSeq(body, 3, Len(body)) = codes
  BY IdFirst
<1>4. Build(m) = Framed(144, body)
  BY <1>2, <1>3 DEF Build
<1>5. p.body = body
  <2>1. 144 \in Nat /\ p.body \in Seq(Nat)
    BY DEF Packet
  <2>2. QED
    BY <1>4, <2>1, FramesBody
<1>6. ParseSuback(body) = [packetId |-> m.packetId, returnCodes |-> m.returnCodes]
  <2>1. ~(Len(body) < 3)
    BY <1>2, <1>3
  <2>2. QED
    BY <1>2, <1>3, <2>1 DEF ParseSuback
<1>7. [f \in DOMAIN m \ {"kind"} |-> m[f]]
        = [packetId |-> m.packetId, returnCodes |-> m.returnCodes]
  <2>1. m \in [kind : {"suback"}, packetId : PacketId, returnCodes : Text \ {<<>>}]
    BY DEF Message, AnyMessage
  <2>2. DOMAIN m \ {"kind"} = {"packetId", "returnCodes"}
    BY <2>1
  <2>3. QED
    BY <2>2
<1>8. Fits(m)
  BY DEF Fits, Strings
<1>9. QED
  BY <1>5, <1>6, <1>7, <1>8 DEF SameFields

LEMMA EmptyFields ==
  ASSUME NEW m \in Message, m.kind \in {"pingreq", "disconnect"}, NEW p \in Packet, Frames(m, p)
  PROVE  SameFields(m, p) <=> Fits(m)
<1>1. PICK first \in Nat : Build(m) = Framed(first, <<>>)
  BY NoBody DEF Build
<1>2. p.body = <<>>
  <2>1. <<>> \in Seq(Nat) /\ p.body \in Seq(Nat)
    BY DEF Packet
  <2>2. QED
    BY <1>1, <2>1, FramesBody
<1>3. Fits(m)
  BY DEF Fits, Strings
<1>4. QED
  BY <1>2, <1>3 DEF SameFields

(* The flags of a PUBLISH say what they were made of.                      *)
LEMMA PublishFlags ==
  ASSUME NEW x \in 0 .. 1, NEW q \in 0 .. 2, NEW y \in 0 .. 1, NEW type \in Nat,
         NEW flags \in 0 .. 15, 16 * type + flags = 48 + 8 * x + 2 * q + y
  PROVE  (flags \div 2) % 4 = q /\ flags % 2 = y /\ flags \div 8 = x
<1>1. flags = 8 * x + 2 * q + y
  OBVIOUS
<1>2. flags \div 2 = 4 * x + q /\ flags % 2 = y /\ flags \div 8 = x
  BY <1>1
<1>3. (4 * x + q) % 4 = q
  OBVIOUS
<1>4. QED
  BY <1>2, <1>3

(* What ParsePublish finds in a body: the topic, the id at the place it    *)
(* expects, and the rest.                                                  *)
IdOf(q, id) == IF q > 0 THEN U16(id) ELSE <<>>

IdSize(q) == IF q > 0 THEN 2 ELSE 0

TopicEnd(b) == 2 + U16At(b, 1)

IdEnd(q, b) == TopicEnd(b) + IdSize(q)

PublishReads(body, t, q, id, load) ==
  /\ body \in Seq(Nat) /\ ~(Len(body) < 2) /\ ~(Len(body) < IdEnd(q, body))
  /\ SubSeq(body, 3, TopicEnd(body)) = t <=> Short(t)
  /\ Short(t) /\ q > 0 => U16At(body, TopicEnd(body) + 1) = id
  /\ Short(t) => SubSeq(body, IdEnd(q, body) + 1, Len(body)) = load

LEMMA PublishBody ==
  ASSUME NEW t \in Seq(Nat), NEW id \in PacketId, NEW q \in 0 .. 2, NEW load \in Seq(Nat),
         NEW body, body = MqttString(t) \o IdOf(q, id) \o load
  PROVE  PublishReads(body, t, q, id, load)
<1>0. id \in Nat /\ id < U16Space
  BY U16SpaceNat DEF PacketId
<1>1. PICK n \in Nat, y \in Nat : n = Len(t) /\ y = Len(load)
  OBVIOUS
<1>2. PICK w \in Seq(Nat) : w = MqttString(t) /\ Len(w) = 2 + n /\ String(w, 0, t)
  BY <1>1, StringFirst
<1>3. PICK i \in Seq(Nat), z \in Nat :
        /\ i = IdOf(q, id)
        /\ z = IdSize(q) /\ Len(i) = z
  <2>1. U16(id) \in Seq(Nat) /\ Len(U16(id)) = 2
    BY <1>0, U16Type
  <2>2. <<>> \in Seq(Nat) /\ Len(<<>>) = 0
    OBVIOUS
  <2>3. /\ IdOf(q, id) \in Seq(Nat)
        /\ IdSize(q) \in Nat
        /\ Len(IdOf(q, id)) = IdSize(q)
    <3>1. CASE q > 0
      BY <2>1, <3>1 DEF IdOf, IdSize
    <3>2. CASE ~(q > 0)
      BY <2>2, <3>2 DEF IdOf, IdSize
    <3>3. QED
      BY <3>1, <3>2
  <2>4. QED
    BY <2>3
<1>4. PICK a \in Seq(Nat) : a = w \o i /\ Len(a) = 2 + n + z
  <2>1. w \o i \in Seq(Nat) /\ Len(w \o i) = Len(w) + Len(i)
    BY Appended
  <2>2. QED
    BY <1>2, <1>3, <2>1
<1>5. body = a \o load
  BY <1>2, <1>3, <1>4
<1>6. a \o load \in Seq(Nat) /\ Len(a \o load) = Len(a) + Len(load)
  BY Appended
<1>7. PICK b \in Seq(Nat) : b = body /\ b = a \o load /\ Len(b) = 2 + n + z + y
  BY <1>1, <1>4, <1>5, <1>6
<1>8. String(b, 0, t)
  <2>1. String(a, 0, t)
    BY <1>2, <1>4, StringStays
  <2>2. QED
    BY <1>7, <2>1, StringStays
<1>9. /\ StringAt(b, 1) = t <=> Short(t)
      /\ Short(t) => After(b, 1) = 3 + Len(t)
      /\ \E v \in Nat : v <= Len(t) /\ After(b, 1) = 3 + v
  BY <1>8, StringFirstRead
<1>10. PICK v : v = U16At(b, 1)
  OBVIOUS
<1>11. v \in Nat /\ v < U16Space /\ (n < U16Space => v = n)
  <2>1. Number(b, 0, n)
    BY <1>1, <1>8 DEF String
  <2>2. PICK x \in Nat : x = 0 /\ x + 1 = 1
    OBVIOUS
  <2>3. U16At(b, x + 1) \in Nat /\ U16At(b, x + 1) < U16Space /\ (n < U16Space => U16At(b, x + 1) = n)
    BY <2>1, <2>2, NumberAt
  <2>4. QED
    BY <1>10, <2>2, <2>3
<1>12. v <= n
  BY <1>11, ByteType
<1>13. SubSeq(b, 3, 2 + v) = StringAt(b, 1)
  <2>1. 1 + 2 = 3 /\ 1 + 1 + v = 2 + v
    BY <1>11
  <2>2. QED
    BY <1>10, <2>1 DEF StringAt
<1>14. ~(Len(b) < 2) /\ ~(Len(b) < 2 + v + z)
  BY <1>3, <1>7, <1>11, <1>12
<1>15. ASSUME Short(t), q > 0 PROVE U16At(b, 2 + v + 1) = id
  <2>1. v = n
    BY <1>1, <1>11, <1>15 DEF Short
  <2>2. Number(a, 2 + n, id)
    <3>1. w \o U16(id) \in Seq(Nat) /\ Number(w \o U16(id), Len(w), id)
      BY <1>0, NumberAppended
    <3>2. i = U16(id)
      BY <1>3, <1>15 DEF IdOf
    <3>3. QED
      BY <1>2, <1>4, <3>1, <3>2
  <2>3. PICK x \in Nat : x = 2 + n
    OBVIOUS
  <2>4. Number(b, x, id)
    BY <1>0, <1>7, <2>2, <2>3, NumberStays
  <2>5. U16At(b, x + 1) = id
    BY <1>0, <2>4, NumberAt
  <2>6. QED
    BY <2>1, <2>3, <2>5
<1>16. ASSUME Short(t) PROVE SubSeq(b, 2 + v + z + 1, Len(b)) = load
  <2>1. v = n
    BY <1>1, <1>11, <1>16 DEF Short
  <2>2. SubSeq(a \o load, Len(a) + 1, Len(a \o load)) = load
    BY Remainder
  <2>3. QED
    BY <1>4, <1>7, <2>1, <2>2
<1>17. QED
  BY <1>3, <1>7, <1>9, <1>10, <1>13, <1>14, <1>15, <1>16 DEF TopicEnd, IdEnd, PublishReads

LEMMA PublishFields ==
  ASSUME NEW m \in Message, m.kind = "publish", NEW p \in Packet, Frames(m, p)
  PROVE  SameFields(m, p) <=> Fits(m)
<1>1. /\ m.topic \in Seq(Nat) /\ m.payload \in Seq(Nat) /\ m.qos \in 0 .. 2
      /\ m.packetId \in PacketId /\ m.retained \in BOOLEAN /\ m.dup \in BOOLEAN
  BY DEF Message, AnyMessage, Text
<1>2. PICK t \in Seq(Nat), load \in Seq(Nat), q \in 0 .. 2, id \in PacketId, r \in BOOLEAN,
           d \in BOOLEAN :
        /\ t = m.topic /\ load = m.payload /\ q = m.qos
        /\ id = m.packetId /\ r = m.retained /\ d = m.dup
  BY <1>1
<1>3. PICK body : body = MqttString(t) \o IdOf(q, id) \o load
  OBVIOUS
<1>4. /\ body \in Seq(Nat) /\ ~(Len(body) < 2) /\ ~(Len(body) < IdEnd(q, body))
      /\ SubSeq(body, 3, TopicEnd(body)) = t <=> Short(t)
      /\ Short(t) /\ q > 0 => U16At(body, TopicEnd(body) + 1) = id
      /\ Short(t) => SubSeq(body, IdEnd(q, body) + 1, Len(body)) = load
  <2>1. PublishReads(body, t, q, id, load)
    BY <1>3, PublishBody
  <2>2. QED
    BY <2>1 DEF PublishReads
<1>5. PICK first \in Nat : first = 48 + Flag(d, 8) + 2 * (q % 4) + Flag(r, 1)
  <2>1. Flag(d, 8) \in Nat /\ Flag(r, 1) \in Nat
    BY DEF Flag
  <2>2. 48 + Flag(d, 8) + 2 * (q % 4) + Flag(r, 1) \in Nat
    BY <2>1
  <2>3. QED
    BY <2>2
<1>6. Build(m) = Framed(first, body)
  BY <1>2, <1>3, <1>5 DEF Build, BuildPublish, IdOf
<1>7. p.body = body /\ 16 * p.type + p.flags = first
  <2>1. p.body \in Seq(Nat)
    BY DEF Packet
  <2>2. QED
    BY <1>4, <1>6, <2>1, FramesBody
<1>8. PICK flags \in 0 .. 15 :
        /\ flags = p.flags
        /\ (flags \div 2) % 4 = q /\ (flags % 2 = 1) = r /\ (flags \div 8 = 1) = d
  <2>1. p.type \in Nat /\ p.flags \in 0 .. 15
    BY DEF Packet
  <2>2. PICK type \in Nat, flags \in 0 .. 15 : type = p.type /\ flags = p.flags
    BY <2>1
  <2>3. PICK x \in 0 .. 1, y \in 0 .. 1 :
          Flag(d, 8) = 8 * x /\ Flag(r, 1) = y /\ (x = 1 <=> d) /\ (y = 1 <=> r)
    <3>1. ASSUME NEW is \in BOOLEAN, NEW n \in Nat
          PROVE  \E z \in 0 .. 1 : Flag(is, n) = n * z /\ (z = 1 <=> is)
      <4>1. CASE is
        BY <4>1 DEF Flag
      <4>2. CASE ~is
        BY <4>2 DEF Flag
      <4>3. QED
        BY <4>1, <4>2
    <3>2. PICK x \in 0 .. 1 : Flag(d, 8) = 8 * x /\ (x = 1 <=> d)
      BY <3>1
    <3>3. PICK y \in 0 .. 1 : Flag(r, 1) = 1 * y /\ (y = 1 <=> r)
      BY <3>1
    <3>4. QED
      BY <3>2, <3>3
  <2>4. 16 * type + flags = 48 + 8 * x + 2 * q + y
    <3>1. q % 4 = q
      OBVIOUS
    <3>2. QED
      BY <1>5, <1>7, <2>2, <2>3, <3>1
  <2>5. (flags \div 2) % 4 = q /\ flags % 2 = y /\ flags \div 8 = x
    BY <2>4, PublishFlags
  <2>6. (flags \div 2) % 4 = q /\ (flags % 2 = 1) = r /\ (flags \div 8 = 1) = d
    BY <2>3, <2>5
  <2>7. QED
    BY <2>2, <2>6
<1>9. ParsePublish(flags, body) =
        [topic    |-> SubSeq(body, 3, TopicEnd(body)),
         packetId |-> IF q > 0 THEN U16At(body, TopicEnd(body) + 1) ELSE 0,
         payload  |-> SubSeq(body, IdEnd(q, body) + 1, Len(body)),
         qos      |-> q,
         retained |-> r,
         dup      |-> d]
  BY <1>4, <1>8 DEF ParsePublish, TopicEnd, IdEnd, IdSize
<1>10. [[f \in DOMAIN m \ {"kind"} |-> m[f]] EXCEPT !.packetId = IF m.qos > 0 THEN @ ELSE 0]
         = [topic |-> t, packetId |-> IF q > 0 THEN id ELSE 0, payload |-> load, qos |-> q,
            retained |-> r, dup |-> d]
  <2>1. m \in [kind : {"publish"}, topic : Text, payload : Text, qos : 0 .. 2, packetId : PacketId,
               retained : BOOLEAN, dup : BOOLEAN]
    BY DEF Message, AnyMessage
  <2>2. DOMAIN m \ {"kind"} = {"topic", "payload", "qos", "packetId", "retained", "dup"}
    BY <2>1
  <2>3. [f \in DOMAIN m \ {"kind"} |-> m[f]]
          = [topic |-> t, packetId |-> id, payload |-> load, qos |-> q, retained |-> r, dup |-> d]
    BY <1>2, <2>2
  <2>4. ASSUME NEW g, g = [topic |-> t, packetId |-> id, payload |-> load, qos |-> q,
                           retained |-> r, dup |-> d]
        PROVE  [g EXCEPT !.packetId = IF q > 0 THEN @ ELSE 0]
                 = [topic |-> t, packetId |-> IF q > 0 THEN id ELSE 0, payload |-> load, qos |-> q,
                    retained |-> r, dup |-> d]
    BY <2>4
  <2>5. QED
    BY <1>2, <2>3, <2>4
<1>11. SameFields(m, p) <=> ParsePublish(flags, body) =
         [topic |-> t, packetId |-> IF q > 0 THEN id ELSE 0, payload |-> load, qos |-> q,
          retained |-> r, dup |-> d]
  BY <1>7, <1>8, <1>10 DEF SameFields
<1>12. Fits(m) <=> Short(t)
  <2>1. Strings(m) = {t}
    BY <1>2 DEF Strings
  <2>2. QED
    BY <2>1 DEF Fits, Short
<1>13. ASSUME Short(t) PROVE SameFields(m, p)
  <2>1. SubSeq(body, 3, TopicEnd(body)) = t /\ SubSeq(body, IdEnd(q, body) + 1, Len(body)) = load
    BY <1>4, <1>13
  <2>2. (IF q > 0 THEN U16At(body, TopicEnd(body) + 1) ELSE 0) = (IF q > 0 THEN id ELSE 0)
    BY <1>4, <1>13
  <2>3. QED
    BY <1>9, <1>11, <2>1, <2>2
<1>14. ASSUME ~Short(t), SameFields(m, p) PROVE FALSE
  <2>1. ASSUME NEW s, NEW k, NEW l, NEW n,
               [topic |-> s, packetId |-> k, payload |-> l, qos |-> q, retained |-> r, dup |-> d]
                 = [topic |-> t, packetId |-> n, payload |-> load, qos |-> q, retained |-> r,
                    dup |-> d]
        PROVE  s = t
    BY <2>1
  <2>2. SubSeq(body, 3, TopicEnd(body)) = t
    BY <1>9, <1>11, <1>14, <2>1
  <2>3. QED
    BY <1>4, <1>14, <2>2
<1>15. QED
  BY <1>12, <1>13, <1>14

(* A CONNECT is put together piece by piece: what it begins with, and what *)
(* that holds, it keeps.                                                   *)
Begins(b, a) == \E r \in Seq(Nat) : b = a \o r

LEMMA BeginsFurther ==
  ASSUME NEW a \in Seq(Nat), NEW r \in Seq(Nat), NEW b, Begins(b, a \o r)
  PROVE  Begins(b, a)
<1>1. PICK q \in Seq(Nat) : b = (a \o r) \o q
  BY DEF Begins
<1>2. (a \o r) \o q = a \o (r \o q)
  BY RegroupBytes, Zenon
<1>3. r \o q \in Seq(Nat)
  OBVIOUS
<1>4. PICK s \in Seq(Nat) : s = r \o q
  BY <1>3
<1>5. b = a \o s
  BY <1>1, <1>2, <1>4
<1>6. QED
  BY <1>5 DEF Begins

LEMMA BeginsKeeps ==
  ASSUME NEW a \in Seq(Nat), NEW b, Begins(b, a), NEW x \in Nat
  PROVE  /\ \A n \in Nat : Number(a, x, n) => Number(b, x, n)
         /\ \A s \in Seq(Nat) : String(a, x, s) => String(b, x, s)
         /\ x \in 1 .. Len(a) => b[x] = a[x]
<1>1. PICK r \in Seq(Nat) : b = a \o r
  BY DEF Begins
<1>2. \A j \in 1 .. Len(a) : (a \o r)[j] = a[j]
  BY Appended
<1>3. ASSUME NEW n \in Nat, Number(a, x, n) PROVE Number(b, x, n)
  BY <1>1, <1>3, NumberStays
<1>4. ASSUME NEW s \in Seq(Nat), String(a, x, s) PROVE String(b, x, s)
  BY <1>1, <1>4, StringStays
<1>5. QED
  BY <1>1, <1>2, <1>3, <1>4

(* An optional string.                                                     *)
OptionSize(s) == IF s = None THEN 0 ELSE 2 + Len(s)

OptionShort(s) == s = None \/ Short(s)

LEMMA OptionAppended ==
  ASSUME NEW a \in Seq(Nat), NEW s \in {None} \cup Seq(Nat)
  PROVE  /\ a \o Optional(s) \in Seq(Nat) /\ Optional(s) \in Seq(Nat)
         /\ OptionSize(s) \in Nat /\ Len(a \o Optional(s)) = Len(a) + OptionSize(s)
         /\ s # None => String(a \o Optional(s), Len(a), s)
<1>1. CASE s = None
  <2>1. Optional(s) = <<>> /\ OptionSize(s) = 0
    BY <1>1 DEF Optional, OptionSize
  <2>2. <<>> \in Seq(Nat) /\ a \o <<>> = a /\ Len(a) + 0 = Len(a) /\ 0 \in Nat
    OBVIOUS
  <2>3. QED
    BY <1>1, <2>1, <2>2
<1>2. CASE s # None
  <2>1. s \in Seq(Nat)
    BY <1>2
  <2>2. Optional(s) = MqttString(s) /\ OptionSize(s) = 2 + Len(s)
    BY <1>2 DEF Optional, OptionSize
  <2>3. /\ a \o MqttString(s) \in Seq(Nat)
        /\ Len(a \o MqttString(s)) = Len(a) + 2 + Len(s)
        /\ String(a \o MqttString(s), Len(a), s)
    BY <2>1, StringAppended
  <2>4. PICK x \in Nat, n \in Nat : x = Len(a) /\ n = Len(s)
    BY <2>1
  <2>5. 2 + n \in Nat /\ x + 2 + n = x + (2 + n)
    OBVIOUS
  <2>6. MqttString(s) \in Seq(Nat)
    BY <2>1, MqttStringType
  <2>7. QED
    BY <2>2, <2>3, <2>4, <2>5, <2>6
<1>3. QED
  BY <1>1, <1>2

OptionReads(b, s, x, i) ==
  /\ OptionAt(b, i, s # None) = s <=> OptionShort(s)
  /\ OptionShort(s) => AfterOption(b, i, s # None) = x + OptionSize(s) + 1

LEMMA OptionRead ==
  ASSUME NEW b \in Seq(Nat), NEW s \in {None} \cup Seq(Nat), NEW x \in Nat,
         s # None => String(b, x, s), NEW i, i = x + 1
  PROVE  OptionReads(b, s, x, i)
<1>1. CASE s = None
  BY <1>1 DEF OptionReads, OptionAt, OptionShort, AfterOption, OptionSize
<1>2. CASE s # None
  <2>1. s \in Seq(Nat) /\ String(b, x, s)
    BY <1>2
  <2>2. /\ StringAt(b, x + 1) = s <=> Short(s)
        /\ Short(s) => After(b, x + 1) = x + 3 + Len(s)
    BY <2>1, StringRead
  <2>3. PICK n \in Nat : n = Len(s)
    BY <2>1
  <2>4. x + 3 + n = x + (2 + n) + 1
    OBVIOUS
  <2>5. OptionAt(b, i, s # None) = StringAt(b, x + 1) /\ AfterOption(b, i, s # None) = After(b, x + 1)
    BY <1>2 DEF OptionAt, AfterOption
  <2>6. OptionShort(s) <=> Short(s)
    BY <1>2 DEF OptionShort
  <2>7. OptionSize(s) = 2 + n
    BY <1>2, <2>3 DEF OptionSize
  <2>8. QED
    BY <2>2, <2>3, <2>4, <2>5, <2>6, <2>7 DEF OptionReads
<1>3. QED
  BY <1>1, <1>2

(* The flags of a CONNECT say what they were made of.                      *)
LEMMA FlagBits ==
  ASSUME NEW x \in 0 .. 1, NEW y \in 0 .. 1, NEW z \in 0 .. 1, NEW w \in 0 .. 1,
         NEW q \in 0 .. 2, NEW r \in 0 .. 1, NEW f,
         f = 2 * x + 128 * y + 64 * z + (4 * w + 8 * q + 32 * r)
  PROVE  /\ (f \div 2) % 2 = x /\ (f \div 4) % 2 = w /\ (f \div 64) % 2 = z
         /\ (f \div 128) % 2 = y /\ (f \div 8) % 4 = q /\ (f \div 32) % 2 = r
<1>1. f \div 2 = x + 2 * (w + 2 * q + 8 * r + 16 * z + 32 * y)
  OBVIOUS
<1>2. f \div 4 = w + 2 * (q + 4 * r + 8 * z + 16 * y)
  OBVIOUS
<1>3. f \div 8 = q + 4 * (r + 2 * z + 4 * y)
  OBVIOUS
<1>4. f \div 32 = r + 2 * (z + 2 * y)
  OBVIOUS
<1>5. f \div 64 = z + 2 * y
  OBVIOUS
<1>6. f \div 128 = y
  OBVIOUS
<1>7. ASSUME NEW d \in 0 .. 1, NEW n \in Nat PROVE (d + 2 * n) % 2 = d
  OBVIOUS
<1>8. ASSUME NEW n \in Nat PROVE (q + 4 * n) % 4 = q
  OBVIOUS
<1>9. y % 2 = y
  OBVIOUS
<1>10. /\ w + 2 * q + 8 * r + 16 * z + 32 * y \in Nat /\ q + 4 * r + 8 * z + 16 * y \in Nat
       /\ r + 2 * z + 4 * y \in Nat /\ z + 2 * y \in Nat
  OBVIOUS
<1>11. QED
  BY <1>1, <1>2, <1>3, <1>4, <1>5, <1>6, <1>7, <1>8, <1>9, <1>10

LEMMA FlagBit ==
  ASSUME NEW is \in BOOLEAN, NEW n \in Nat
  PROVE  \E z \in 0 .. 1 : Flag(is, n) = n * z /\ (z = 1 <=> is)
<1>1. CASE is
  BY <1>1 DEF Flag
<1>2. CASE ~is
  BY <1>2 DEF Flag
<1>3. QED
  BY <1>1, <1>2

Connects == {m \in Message : m.kind = "connect"}

LEMMA ConnectType ==
  ASSUME NEW m \in Connects
  PROVE  /\ m.clientId \in Seq(Nat) /\ m.cleanSession \in BOOLEAN
         /\ m.keepaliveSeconds \in Nat /\ m.keepaliveSeconds < U16Space
         /\ m.username \in {None} \cup Seq(Nat) /\ m.password \in {None} \cup Seq(Nat)
         /\ m.will # None => /\ m.will \in Will
                             /\ m.will.topic \in Seq(Nat) /\ m.will.payload \in Seq(Nat)
                             /\ m.will.qos \in 0 .. 2 /\ m.will.retained \in BOOLEAN
<1>1. /\ m.clientId \in Text /\ m.cleanSession \in BOOLEAN
      /\ m.keepaliveSeconds \in 0 .. U16Space - 1
      /\ m.username \in {None} \cup Text /\ m.password \in {None} \cup Text
      /\ m.will \in {None} \cup Will
  BY DEF Connects, Message, AnyMessage
<1>2. m.keepaliveSeconds \in Nat /\ m.keepaliveSeconds < U16Space
  BY <1>1, U16SpaceNat
<1>3. m.will # None => m.will \in Will
  BY <1>1
<1>4. m.will \in Will => /\ m.will.topic \in Seq(Nat) /\ m.will.payload \in Seq(Nat)
                         /\ m.will.qos \in 0 .. 2 /\ m.will.retained \in BOOLEAN
  BY DEF Will, Text
<1>5. QED
  BY <1>1, <1>2, <1>3, <1>4 DEF Text

IsSet(f, bit) == (f \div bit) % 2 = 1

LEMMA ConnectFlagsRead ==
  ASSUME NEW m \in Connects
  PROVE  LET f == ConnectFlags(m)
         IN  /\ f \in Nat
             /\ IsSet(f, 2) <=> m.cleanSession
             /\ IsSet(f, 4) <=> m.will # None
             /\ IsSet(f, 64) <=> m.password # None
             /\ IsSet(f, 128) <=> m.username # None
             /\ m.will # None => (f \div 8) % 4 = m.will.qos /\ (IsSet(f, 32) <=> m.will.retained)
<1>1. PICK x \in 0 .. 1 : Flag(m.cleanSession, 2) = 2 * x /\ (x = 1 <=> m.cleanSession)
  <2>1. m.cleanSession \in BOOLEAN
    BY ConnectType
  <2>2. QED
    BY <2>1, FlagBit
<1>2. PICK y \in 0 .. 1 : Flag(m.username # None, 128) = 128 * y /\ (y = 1 <=> m.username # None)
  <2>1. (m.username # None) \in BOOLEAN
    OBVIOUS
  <2>2. QED
    BY <2>1, FlagBit
<1>3. PICK z \in 0 .. 1 : Flag(m.password # None, 64) = 64 * z /\ (z = 1 <=> m.password # None)
  <2>1. (m.password # None) \in BOOLEAN
    OBVIOUS
  <2>2. QED
    BY <2>1, FlagBit
<1>4. PICK w \in 0 .. 1, q \in 0 .. 2, r \in 0 .. 1 :
        /\ (IF m.will = None THEN 0 ELSE 4 + 8 * (m.will.qos % 4) + Flag(m.will.retained, 32))
             = 4 * w + 8 * q + 32 * r
        /\ w = 1 <=> m.will # None
        /\ m.will # None => q = m.will.qos /\ (r = 1 <=> m.will.retained)
  <2>1. CASE m.will = None
    <3>1. 4 * 0 + 8 * 0 + 32 * 0 = 0 /\ 0 \in 0 .. 1 /\ 0 \in 0 .. 2 /\ 0 # 1
      OBVIOUS
    <3>2. QED
      BY <2>1, <3>1
  <2>2. CASE m.will # None
    <3>1. m.will.qos \in 0 .. 2 /\ m.will.retained \in BOOLEAN
      BY <2>2, ConnectType
    <3>2. PICK r \in 0 .. 1 : Flag(m.will.retained, 32) = 32 * r /\ (r = 1 <=> m.will.retained)
      BY <3>1, FlagBit
    <3>3. PICK q \in 0 .. 2 : q = m.will.qos /\ q % 4 = q
      BY <3>1
    <3>4. 4 + 8 * (m.will.qos % 4) + Flag(m.will.retained, 32) = 4 * 1 + 8 * q + 32 * r
      BY <3>2, <3>3
    <3>5. QED
      BY <2>2, <3>2, <3>3, <3>4
  <2>3. QED
    BY <2>1, <2>2
<1>5. PICK f : f = ConnectFlags(m)
  OBVIOUS
<1>6. f = 2 * x + 128 * y + 64 * z + (4 * w + 8 * q + 32 * r)
  BY <1>1, <1>2, <1>3, <1>4, <1>5 DEF ConnectFlags
<1>7. /\ (f \div 2) % 2 = x /\ (f \div 4) % 2 = w /\ (f \div 64) % 2 = z
      /\ (f \div 128) % 2 = y /\ (f \div 8) % 4 = q /\ (f \div 32) % 2 = r
  BY <1>6, FlagBits
<1>8. f \in Nat
  BY <1>6
<1>9. QED
  BY <1>1, <1>2, <1>3, <1>4, <1>5, <1>7, <1>8 DEF IsSet

(* Where the fields of a CONNECT are.                                      *)
WillAt(m) == 12 + Len(m.clientId)

WillSize(m) == IF m.will = None THEN 0 ELSE (2 + Len(m.will.topic)) + (2 + Len(m.will.payload))

UserAt(m) == WillAt(m) + WillSize(m)

PassAt(m) == UserAt(m) + OptionSize(m.username)

Holds(b, m) ==
  /\ b[8] = ConnectFlags(m)
  /\ Number(b, 8, m.keepaliveSeconds)
  /\ String(b, 10, m.clientId)
  /\ m.will # None => /\ String(b, WillAt(m), m.will.topic)
                      /\ String(b, WillAt(m) + (2 + Len(m.will.topic)), m.will.payload)
  /\ m.username # None => String(b, UserAt(m), m.username)
  /\ m.password # None => String(b, PassAt(m), m.password)

WillOf(m) ==
  IF m.will = None THEN <<>> ELSE MqttString(m.will.topic) \o MqttString(m.will.payload)

EndsWith(b, a, t, l) ==
  /\ b \in Seq(Nat)
  /\ Len(b) = Len(a) + ((2 + Len(t)) + (2 + Len(l)))
  /\ String(b, Len(a), t)
  /\ String(b, Len(a) + (2 + Len(t)), l)

LEMMA TwoAppended ==
  ASSUME NEW a \in Seq(Nat), NEW t \in Seq(Nat), NEW l \in Seq(Nat), NEW both,
         both = MqttString(t) \o MqttString(l)
  PROVE  EndsWith(a \o both, a, t, l) /\ both \in Seq(Nat)
<1>1. \A v, w \in Seq(Nat) : (a \o v) \o w = a \o (v \o w)
  BY RegroupBytes, Zenon
<1>2. PICK n \in Nat, k \in Nat, x \in Nat : n = Len(t) /\ k = Len(l) /\ x = Len(a)
  OBVIOUS
<1>3. PICK v \in Seq(Nat), w \in Seq(Nat) : v = MqttString(t) /\ w = MqttString(l)
  BY MqttStringType
<1>4. PICK c \in Seq(Nat) : c = a \o v /\ Len(c) = x + 2 + n /\ String(c, x, t)
  <2>1. /\ a \o MqttString(t) \in Seq(Nat)
        /\ Len(a \o MqttString(t)) = Len(a) + 2 + Len(t)
        /\ String(a \o MqttString(t), Len(a), t)
    BY StringAppended
  <2>2. QED
    BY <1>2, <1>3, <2>1
<1>5. PICK d \in Seq(Nat) : d = c \o w /\ Len(d) = x + 2 + n + 2 + k /\ String(d, x + 2 + n, l)
  <2>1. /\ c \o MqttString(l) \in Seq(Nat)
        /\ Len(c \o MqttString(l)) = Len(c) + 2 + Len(l)
        /\ String(c \o MqttString(l), Len(c), l)
    BY StringAppended
  <2>2. QED
    BY <1>2, <1>3, <1>4, <2>1
<1>6. String(d, x, t)
  BY <1>4, <1>5, StringStays
<1>7. d = a \o both /\ both \in Seq(Nat)
  <2>1. (a \o v) \o w = a \o (v \o w)
    BY <1>1, Zenon
  <2>2. both = v \o w /\ v \o w \in Seq(Nat)
    BY <1>3
  <2>3. QED
    BY <1>4, <1>5, <2>1, <2>2
<1>8. x + 2 + n + 2 + k = x + ((2 + n) + (2 + k)) /\ x + 2 + n = x + (2 + n)
  OBVIOUS
<1>9. EndsWith(d, a, t, l)
  BY <1>2, <1>5, <1>6, <1>8 DEF EndsWith
<1>10. QED
  BY <1>7, <1>9

LEMMA WillAppended ==
  ASSUME NEW m \in Connects, NEW a \in Seq(Nat)
  PROVE  /\ WillOf(m) \in Seq(Nat) /\ a \o WillOf(m) \in Seq(Nat)
         /\ WillSize(m) \in Nat /\ Len(a \o WillOf(m)) = Len(a) + WillSize(m)
         /\ m.will # None =>
              /\ String(a \o WillOf(m), Len(a), m.will.topic)
              /\ String(a \o WillOf(m), Len(a) + (2 + Len(m.will.topic)), m.will.payload)
<1>1. CASE m.will = None
  <2>1. WillOf(m) = <<>> /\ WillSize(m) = 0
    BY <1>1 DEF WillOf, WillSize
  <2>2. <<>> \in Seq(Nat) /\ a \o <<>> = a /\ Len(a) + 0 = Len(a) /\ 0 \in Nat
    OBVIOUS
  <2>3. QED
    BY <1>1, <2>1, <2>2
<1>2. CASE m.will # None
  <2>1. PICK t \in Seq(Nat), l \in Seq(Nat) : t = m.will.topic /\ l = m.will.payload
    BY <1>2, ConnectType
  <2>2. PICK both : both = MqttString(t) \o MqttString(l)
    OBVIOUS
  <2>3. WillOf(m) = both /\ WillSize(m) = (2 + Len(t)) + (2 + Len(l))
    BY <1>2, <2>1, <2>2 DEF WillOf, WillSize
  <2>4. EndsWith(a \o both, a, t, l) /\ both \in Seq(Nat)
    BY <2>2, TwoAppended
  <2>5. /\ both \in Seq(Nat) /\ a \o both \in Seq(Nat)
        /\ Len(a \o both) = Len(a) + ((2 + Len(t)) + (2 + Len(l)))
        /\ String(a \o both, Len(a), t)
        /\ String(a \o both, Len(a) + (2 + Len(t)), l)
    BY <2>4 DEF EndsWith
  <2>6. (2 + Len(t)) + (2 + Len(l)) \in Nat
    <3>1. Len(t) \in Nat /\ Len(l) \in Nat
      OBVIOUS
    <3>2. QED
      BY <3>1
  <2>7. QED
    BY <2>1, <2>3, <2>5, <2>6
<1>3. QED
  BY <1>1, <1>2

LEMMA ConnectBody ==
  ASSUME NEW m \in Connects
  PROVE  \E body \in Seq(Nat) : Build(m) = Framed(16, body) /\ Holds(body, m)
<1>1. PICK h \in Seq(Nat) : h = MqttString(<<77, 81, 84, 84>>) /\ Len(h) = 6
  <2>1. <<77, 81, 84, 84>> \in Seq(Nat) /\ Len(<<77, 81, 84, 84>>) = 4
    OBVIOUS
  <2>2. /\ MqttString(<<77, 81, 84, 84>>) \in Seq(Nat)
        /\ Len(MqttString(<<77, 81, 84, 84>>)) = 2 + Len(<<77, 81, 84, 84>>)
    BY <2>1, StringFirst
  <2>3. QED
    BY <2>1, <2>2
<1>2. PICK f \in Nat : f = ConnectFlags(m)
  BY ConnectFlagsRead
<1>3. PICK a \in Seq(Nat) : a = h \o <<4, f>> /\ Len(a) = 8 /\ a[8] = f
  <2>1. <<4, f>> \in Seq(Nat) /\ Len(<<4, f>>) = 2 /\ <<4, f>>[2] = f
    OBVIOUS
  <2>2. PICK e \in Seq(Nat) : e = <<4, f>> /\ Len(e) = 2 /\ e[2] = f
    BY <2>1
  <2>3. /\ h \o e \in Seq(Nat) /\ Len(h \o e) = Len(h) + Len(e)
        /\ \A j \in 1 .. Len(e) : (h \o e)[Len(h) + j] = e[j]
    BY Appended
  <2>4. (h \o e)[Len(h) + 2] = e[2]
    <3>1. 2 \in 1 .. Len(e)
      BY <2>2
    <3>2. QED
      BY <2>3, <3>1
  <2>5. Len(h) = 6 /\ Len(e) = 2
    BY <1>1, <2>2
  <2>6. Len(h) + 2 = 8 /\ Len(h) + Len(e) = 8
    BY <2>5
  <2>7. h \o e \in Seq(Nat) /\ h \o e = h \o <<4, f>> /\ Len(h \o e) = 8 /\ (h \o e)[8] = f
    BY <2>2, <2>3, <2>4, <2>6
  <2>8. QED
    BY <2>7
<1>4. PICK k \in Nat : k = m.keepaliveSeconds
  BY ConnectType
<1>5. PICK u \in Seq(Nat) : u = U16(k)
  BY U16Type
<1>6. PICK c \in Seq(Nat) : c = a \o u /\ Len(c) = 10 /\ Number(c, 8, k)
  <2>1. a \o U16(k) \in Seq(Nat) /\ Len(a \o U16(k)) = Len(a) + 2 /\ Number(a \o U16(k), Len(a), k)
    BY NumberAppended
  <2>2. Len(a) + 2 = 10 /\ Len(a) = 8
    BY <1>3
  <2>3. a \o u \in Seq(Nat) /\ Len(a \o u) = 10 /\ Number(a \o u, 8, k)
    BY <1>5, <2>1, <2>2
  <2>4. QED
    BY <2>3
<1>7. PICK s \in Seq(Nat), n \in Nat : s = m.clientId /\ n = Len(s)
  <2>1. m.clientId \in Seq(Nat)
    BY ConnectType
  <2>2. Len(m.clientId) \in Nat
    BY <2>1
  <2>3. QED
    BY <2>1, <2>2
<1>8. PICK i \in Seq(Nat) : i = MqttString(s)
  BY MqttStringType
<1>9. PICK d \in Seq(Nat) : d = c \o i /\ Len(d) = 12 + n /\ String(d, 10, s)
  <2>1. /\ c \o MqttString(s) \in Seq(Nat)
        /\ Len(c \o MqttString(s)) = Len(c) + 2 + Len(s)
        /\ String(c \o MqttString(s), Len(c), s)
    BY StringAppended
  <2>2. Len(c) = 10 /\ Len(c) + 2 + Len(s) = 12 + n
    BY <1>6, <1>7
  <2>3. c \o i \in Seq(Nat) /\ Len(c \o i) = 12 + n /\ String(c \o i, 10, s)
    BY <1>8, <2>1, <2>2
  <2>4. QED
    BY <2>3
<1>10. Len(d) = WillAt(m) /\ WillAt(m) \in Nat
  BY <1>7, <1>9 DEF WillAt
<1>11. PICK v \in Seq(Nat), g \in Seq(Nat) :
         /\ v = WillOf(m) /\ g = d \o v /\ Len(g) = UserAt(m) /\ UserAt(m) \in Nat
         /\ m.will # None => /\ String(g, WillAt(m), m.will.topic)
                             /\ String(g, WillAt(m) + (2 + Len(m.will.topic)), m.will.payload)
  <2>1. /\ WillOf(m) \in Seq(Nat) /\ d \o WillOf(m) \in Seq(Nat)
        /\ WillSize(m) \in Nat /\ Len(d \o WillOf(m)) = Len(d) + WillSize(m)
        /\ m.will # None =>
             /\ String(d \o WillOf(m), Len(d), m.will.topic)
             /\ String(d \o WillOf(m), Len(d) + (2 + Len(m.will.topic)), m.will.payload)
    BY WillAppended
  <2>2. UserAt(m) = Len(d) + WillSize(m) /\ UserAt(m) \in Nat
    BY <1>10, <2>1 DEF UserAt
  <2>3. QED
    BY <1>10, <2>1, <2>2
<1>12. m.username \in {None} \cup Seq(Nat) /\ m.password \in {None} \cup Seq(Nat)
  BY ConnectType
<1>13. PICK o \in Seq(Nat), j \in Seq(Nat) :
         /\ o = Optional(m.username) /\ j = g \o o /\ Len(j) = PassAt(m) /\ PassAt(m) \in Nat
         /\ m.username # None => String(j, UserAt(m), m.username)
  <2>1. /\ g \o Optional(m.username) \in Seq(Nat) /\ Optional(m.username) \in Seq(Nat)
        /\ OptionSize(m.username) \in Nat
        /\ Len(g \o Optional(m.username)) = Len(g) + OptionSize(m.username)
        /\ m.username # None => String(g \o Optional(m.username), Len(g), m.username)
    BY <1>12, OptionAppended
  <2>2. PassAt(m) = Len(g) + OptionSize(m.username) /\ PassAt(m) \in Nat
    BY <1>11, <2>1 DEF PassAt
  <2>3. QED
    BY <1>11, <2>1, <2>2
<1>14. PICK r \in Seq(Nat), b \in Seq(Nat) :
         /\ r = Optional(m.password) /\ b = j \o r
         /\ m.password # None => String(b, PassAt(m), m.password)
  <2>1. /\ j \o Optional(m.password) \in Seq(Nat) /\ Optional(m.password) \in Seq(Nat)
        /\ m.password # None => String(j \o Optional(m.password), Len(j), m.password)
    BY <1>12, OptionAppended
  <2>2. QED
    BY <1>13, <2>1
<1>15. Build(m) = Framed(16, b)
  <2>1. Build(m) = BuildConnect(m)
    BY DEF Build, Connects
  <2>2. BuildConnect(m) =
          Framed(16, MqttString(<<77, 81, 84, 84>>) \o <<4, ConnectFlags(m)>>
                       \o U16(m.keepaliveSeconds) \o MqttString(m.clientId) \o WillOf(m)
                       \o Optional(m.username) \o Optional(m.password))
    BY DEF BuildConnect, WillOf
  <2>3. b = MqttString(<<77, 81, 84, 84>>) \o <<4, ConnectFlags(m)>>
              \o U16(m.keepaliveSeconds) \o MqttString(m.clientId) \o WillOf(m)
              \o Optional(m.username) \o Optional(m.password)
    BY <1>1, <1>2, <1>3, <1>4, <1>5, <1>6, <1>7, <1>8, <1>9, <1>11, <1>13, <1>14, Zenon
  <2>4. QED
    BY <2>1, <2>2, <2>3
<1>16. Begins(b, j) /\ Begins(b, g) /\ Begins(b, d) /\ Begins(b, c) /\ Begins(b, a)
  <2>1. Begins(b, j)
    BY <1>14 DEF Begins
  <2>2. Begins(b, g)
    BY <1>13, <2>1, BeginsFurther
  <2>3. Begins(b, d)
    BY <1>11, <2>2, BeginsFurther
  <2>4. Begins(b, c)
    BY <1>9, <2>3, BeginsFurther
  <2>5. Begins(b, a)
    BY <1>6, <2>4, BeginsFurther
  <2>6. QED
    BY <2>1, <2>2, <2>3, <2>4, <2>5
<1>17. b[8] = ConnectFlags(m)
  <2>1. 8 \in Nat /\ 8 \in 1 .. 8
    OBVIOUS
  <2>2. 8 \in 1 .. Len(a) => b[8] = a[8]
    BY <1>16, <2>1, BeginsKeeps
  <2>3. QED
    BY <1>2, <1>3, <2>1, <2>2
<1>18. Number(b, 8, m.keepaliveSeconds)
  <2>1. PICK x \in Nat : x = 8
    OBVIOUS
  <2>2. Number(c, x, k) => Number(b, x, k)
    BY <1>16, BeginsKeeps
  <2>3. QED
    BY <1>4, <1>6, <2>1, <2>2
<1>19. String(b, 10, m.clientId)
  <2>1. PICK x \in Nat : x = 10
    OBVIOUS
  <2>2. String(d, x, s) => String(b, x, s)
    BY <1>16, BeginsKeeps
  <2>3. QED
    BY <1>7, <1>9, <2>1, <2>2
<1>20. ASSUME m.will # None
       PROVE  /\ String(b, WillAt(m), m.will.topic)
              /\ String(b, WillAt(m) + (2 + Len(m.will.topic)), m.will.payload)
  <2>1. PICK t \in Seq(Nat), l \in Seq(Nat) : t = m.will.topic /\ l = m.will.payload
    BY <1>20, ConnectType
  <2>2. PICK x \in Nat, y \in Nat : x = WillAt(m) /\ y = WillAt(m) + (2 + Len(t))
    <3>1. WillAt(m) + (2 + Len(t)) \in Nat
      BY <1>10
    <3>2. QED
      BY <1>10, <3>1
  <2>3. String(g, x, t) /\ String(g, y, l)
    BY <1>11, <1>20, <2>1, <2>2
  <2>4. String(b, x, t) /\ String(b, y, l)
    BY <1>16, <2>3, BeginsKeeps
  <2>5. QED
    BY <2>1, <2>2, <2>4
<1>21. ASSUME m.username # None PROVE String(b, UserAt(m), m.username)
  <2>1. m.username \in Seq(Nat) /\ String(j, UserAt(m), m.username)
    BY <1>12, <1>13, <1>21
  <2>2. QED
    BY <1>11, <1>16, <2>1, BeginsKeeps
<1>22. Holds(b, m)
  BY <1>14, <1>17, <1>18, <1>19, <1>20, <1>21 DEF Holds
<1>23. QED
  BY <1>15, <1>22

(* What ReadConnect finds where Holds says the fields are.                 *)
WillShort(m) == m.will = None \/ (Short(m.will.topic) /\ Short(m.will.payload))

AllShort(m) ==
  /\ Short(m.clientId) /\ WillShort(m)
  /\ OptionShort(m.username) /\ OptionShort(m.password)

ReadWill(b, is, topic, payload, f) ==
  IF is THEN [topic |-> StringAt(b, topic), payload |-> StringAt(b, payload),
              qos |-> (f \div 8) % 4, retained |-> IsSet(f, 32)]
        ELSE None

LEMMA WillRead ==
  ASSUME NEW m \in Connects, NEW b \in Seq(Nat), Holds(b, m),
         NEW topic, topic = WillAt(m) + 1,
         NEW payload, payload = AfterOption(b, topic, m.will # None)
  PROVE  /\ ReadWill(b, m.will # None, topic, payload, ConnectFlags(m)) = m.will <=> WillShort(m)
         /\ WillShort(m) => AfterOption(b, payload, m.will # None) = UserAt(m) + 1
<1>1. CASE m.will = None
  <2>1. WillSize(m) = 0
    BY <1>1 DEF WillSize
  <2>2. UserAt(m) = WillAt(m)
    <3>1. WillAt(m) \in Nat
      <4>1. m.clientId \in Seq(Nat)
        BY ConnectType
      <4>2. Len(m.clientId) \in Nat
        BY <4>1
      <4>3. QED
        BY <4>2 DEF WillAt
    <3>2. QED
      BY <2>1, <3>1 DEF UserAt
  <2>3. payload = topic /\ AfterOption(b, payload, m.will # None) = payload
    BY <1>1 DEF AfterOption
  <2>4. ReadWill(b, m.will # None, topic, payload, ConnectFlags(m)) = None /\ WillShort(m)
    BY <1>1 DEF ReadWill, WillShort
  <2>5. QED
    BY <1>1, <2>2, <2>3, <2>4
<1>2. CASE m.will # None
  <2>1. /\ m.will \in Will /\ m.will.topic \in Seq(Nat) /\ m.will.payload \in Seq(Nat)
        /\ m.will.retained \in BOOLEAN
    BY <1>2, ConnectType
  <2>2. PICK t \in Seq(Nat), l \in Seq(Nat) : t = m.will.topic /\ l = m.will.payload
    BY <2>1
  <2>3. PICK q, r : q = m.will.qos /\ r = m.will.retained /\ r \in BOOLEAN
    BY <2>1
  <2>4. m.will = [topic |-> t, payload |-> l, qos |-> q, retained |-> r]
    BY <2>1, <2>2, <2>3 DEF Will
  <2>5. /\ t = m.will.topic /\ l = m.will.payload /\ q = m.will.qos /\ r = m.will.retained
        /\ m.will = [topic |-> t, payload |-> l, qos |-> q, retained |-> r] /\ r \in BOOLEAN
    BY <2>2, <2>3, <2>4
  <2>6. PICK n \in Nat, k \in Nat : n = Len(t) /\ k = Len(l)
    OBVIOUS
  <2>7. PICK x \in Nat : x = WillAt(m)
    <3>1. m.clientId \in Seq(Nat)
      BY ConnectType
    <3>2. Len(m.clientId) \in Nat
      BY <3>1
    <3>3. QED
      BY <3>2 DEF WillAt
  <2>8. PICK y \in Nat : y = x + (2 + n)
    OBVIOUS
  <2>9. String(b, x, t) /\ String(b, y, l)
    BY <1>2, <2>5, <2>6, <2>7, <2>8 DEF Holds
  <2>10. /\ StringAt(b, x + 1) = t <=> Short(t)
         /\ Short(t) => After(b, x + 1) = x + 3 + Len(t)
    BY <2>9, StringRead
  <2>11. /\ StringAt(b, y + 1) = l <=> Short(l)
         /\ Short(l) => After(b, y + 1) = y + 3 + Len(l)
    BY <2>9, StringRead
  <2>12. topic = x + 1 /\ payload = After(b, x + 1)
    BY <1>2, <2>7 DEF AfterOption
  <2>13. Short(t) => payload = y + 1
    <3>1. x + 3 + n = y + 1
      BY <2>8
    <3>2. QED
      BY <2>6, <2>10, <2>12, <3>1
  <2>14. AfterOption(b, payload, m.will # None) = After(b, payload)
    BY <1>2 DEF AfterOption
  <2>15. y + 3 + k = UserAt(m) + 1
    <3>1. UserAt(m) = x + ((2 + n) + (2 + k))
      BY <1>2, <2>5, <2>6, <2>7 DEF UserAt, WillSize
    <3>2. QED
      BY <2>8, <3>1
  <2>16. WillShort(m) <=> Short(t) /\ Short(l)
    BY <1>2, <2>5 DEF WillShort
  <2>17. WillShort(m) => AfterOption(b, payload, m.will # None) = UserAt(m) + 1
    BY <2>6, <2>11, <2>13, <2>14, <2>15, <2>16
  <2>18. (ConnectFlags(m) \div 8) % 4 = q /\ (IsSet(ConnectFlags(m), 32) <=> r)
    BY <1>2, <2>5, ConnectFlagsRead
  <2>19. IsSet(ConnectFlags(m), 32) = r
    <3>1. IsSet(ConnectFlags(m), 32) \in BOOLEAN
      BY DEF IsSet
    <3>2. QED
      BY <2>5, <2>18, <3>1
  <2>20. ReadWill(b, m.will # None, topic, payload, ConnectFlags(m)) =
           [topic |-> StringAt(b, topic), payload |-> StringAt(b, payload), qos |-> q, retained |-> r]
    BY <1>2, <2>18, <2>19 DEF ReadWill
  <2>21. ASSUME NEW s, NEW u
         PROVE  [topic |-> s, payload |-> u, qos |-> q, retained |-> r]
                  = [topic |-> t, payload |-> l, qos |-> q, retained |-> r] <=> s = t /\ u = l
    OBVIOUS
  <2>22. ReadWill(b, m.will # None, topic, payload, ConnectFlags(m)) = m.will
           <=> StringAt(b, topic) = t /\ StringAt(b, payload) = l
    BY <2>5, <2>20, <2>21
  <2>23. QED
    BY <2>10, <2>11, <2>12, <2>13, <2>16, <2>17, <2>22
<1>3. QED
  BY <1>1, <1>2

LEMMA ConnectRead ==
  ASSUME NEW m \in Connects, NEW b \in Seq(Nat), Holds(b, m)
  PROVE  ReadConnect(b) = [f \in DOMAIN m \ {"kind"} |-> m[f]] <=> AllShort(m)
<1>1. PICK f : f = ConnectFlags(m) /\ f = b[8]
  BY DEF Holds
<1>2. /\ f \in Nat
      /\ IsSet(f, 2) <=> m.cleanSession
      /\ IsSet(f, 4) <=> m.will # None
      /\ IsSet(f, 64) <=> m.password # None
      /\ IsSet(f, 128) <=> m.username # None
  BY <1>1, ConnectFlagsRead
<1>3. PICK c \in Seq(Nat), k \in Nat, u \in {None} \cup Seq(Nat), s \in {None} \cup Seq(Nat),
           clean \in BOOLEAN, w \in {None} \cup Will :
        /\ c = m.clientId /\ k = m.keepaliveSeconds /\ k < U16Space
        /\ u = m.username /\ s = m.password /\ clean = m.cleanSession /\ w = m.will
  BY ConnectType
<1>4. /\ IsSet(f, 2) = clean /\ IsSet(f, 4) = (w # None)
      /\ IsSet(f, 64) = (s # None) /\ IsSet(f, 128) = (u # None)
  <2>1. \A bit : IsSet(f, bit) \in BOOLEAN
    BY DEF IsSet
  <2>2. QED
    BY <1>2, <1>3, <2>1
<1>5. PICK topic, payload, username, password :
        /\ topic = After(b, 11)
        /\ payload = AfterOption(b, topic, w # None)
        /\ username = AfterOption(b, payload, w # None)
        /\ password = AfterOption(b, username, u # None)
  OBVIOUS
<1>6. PICK x \in Nat, y \in Nat, z \in Nat :
        /\ x = WillAt(m) /\ y = UserAt(m) /\ z = PassAt(m) /\ z = y + OptionSize(u)
        /\ x = 12 + Len(c)
  <2>1. 12 + Len(c) \in Nat
    OBVIOUS
  <2>2. <<>> \in Seq(Nat)
    OBVIOUS
  <2>3. WillSize(m) \in Nat /\ OptionSize(m.username) \in Nat
    BY <1>3, <2>2, WillAppended, OptionAppended
  <2>4. WillAt(m) \in Nat /\ WillAt(m) = 12 + Len(c)
    BY <1>3, <2>1 DEF WillAt
  <2>5. UserAt(m) \in Nat
    BY <2>3, <2>4 DEF UserAt
  <2>6. PassAt(m) \in Nat /\ PassAt(m) = UserAt(m) + OptionSize(m.username)
    BY <2>3, <2>5 DEF PassAt
  <2>7. QED
    BY <1>3, <2>4, <2>5, <2>6
<1>7. U16At(b, 9) = k
  <2>1. PICK i \in Nat : i = 8 /\ i + 1 = 9
    OBVIOUS
  <2>2. Number(b, i, k)
    BY <1>3, <2>1 DEF Holds
  <2>3. U16At(b, i + 1) = k
    BY <1>3, <2>2, NumberAt
  <2>4. QED
    BY <2>1, <2>3
<1>8. (StringAt(b, 11) = c <=> Short(c)) /\ (Short(c) => topic = x + 1)
  <2>1. PICK i \in Nat : i = 10 /\ i + 1 = 11
    OBVIOUS
  <2>2. String(b, i, c)
    BY <1>3, <2>1 DEF Holds
  <2>3. /\ StringAt(b, i + 1) = c <=> Short(c)
        /\ Short(c) => After(b, i + 1) = i + 3 + Len(c)
    BY <2>2, StringRead
  <2>4. PICK n \in Nat : n = Len(c)
    OBVIOUS
  <2>5. i + 3 + n = x + 1
    BY <1>6, <2>1, <2>4
  <2>6. QED
    BY <1>5, <2>1, <2>3, <2>4, <2>5
<1>9. PICK v : v = ReadWill(b, w # None, topic, payload, f)
  OBVIOUS
<1>10. ASSUME topic = x + 1
       PROVE  (v = w <=> WillShort(m)) /\ (WillShort(m) => username = y + 1)
  <2>1. topic = WillAt(m) + 1 /\ payload = AfterOption(b, topic, m.will # None)
    BY <1>3, <1>5, <1>6, <1>10
  <2>2. /\ ReadWill(b, m.will # None, topic, payload, ConnectFlags(m)) = m.will <=> WillShort(m)
        /\ WillShort(m) => AfterOption(b, payload, m.will # None) = UserAt(m) + 1
    BY <2>1, WillRead
  <2>3. QED
    BY <1>1, <1>3, <1>5, <1>6, <1>9, <2>2
<1>11. ASSUME username = y + 1
       PROVE  /\ OptionAt(b, username, u # None) = u <=> OptionShort(u)
              /\ OptionShort(u) => password = z + 1
  <2>1. u # None => String(b, y, u)
    BY <1>3, <1>6 DEF Holds
  <2>2. OptionReads(b, u, y, username)
    BY <1>11, <2>1, OptionRead
  <2>3. QED
    BY <1>5, <1>6, <2>2 DEF OptionReads
<1>12. ASSUME password = z + 1
       PROVE  OptionAt(b, password, s # None) = s <=> OptionShort(s)
  <2>1. s # None => String(b, z, s)
    BY <1>3, <1>6 DEF Holds
  <2>2. OptionReads(b, s, z, password)
    BY <1>12, <2>1, OptionRead
  <2>3. QED
    BY <2>2 DEF OptionReads
<1>13. ReadConnect(b) =
         [clientId |-> StringAt(b, 11), cleanSession |-> clean, keepaliveSeconds |-> k,
          username |-> OptionAt(b, username, u # None), password |-> OptionAt(b, password, s # None),
          will |-> v]
  <2>1. /\ IsSet(b[8], 2) = clean /\ IsSet(b[8], 4) = (w # None)
        /\ IsSet(b[8], 64) = (s # None) /\ IsSet(b[8], 128) = (u # None)
    BY <1>1, <1>4
  <2>2. ReadConnect(b) =
          [clientId |-> StringAt(b, 11), cleanSession |-> IsSet(b[8], 2),
           keepaliveSeconds |-> U16At(b, 9),
           username |-> OptionAt(b, AfterOption(b, AfterOption(b, After(b, 11), IsSet(b[8], 4)),
                                                IsSet(b[8], 4)), IsSet(b[8], 128)),
           password |-> OptionAt(b, AfterOption(b, AfterOption(b, AfterOption(b, After(b, 11),
                                   IsSet(b[8], 4)), IsSet(b[8], 4)), IsSet(b[8], 128)), IsSet(b[8], 64)),
           will |-> ReadWill(b, IsSet(b[8], 4), After(b, 11),
                             AfterOption(b, After(b, 11), IsSet(b[8], 4)), b[8])]
    BY DEF ReadConnect, IsSet, ReadWill
  <2>3. QED
    BY <1>1, <1>5, <1>7, <1>9, <2>1, <2>2
<1>14. [i \in DOMAIN m \ {"kind"} |-> m[i]] =
         [clientId |-> c, cleanSession |-> clean, keepaliveSeconds |-> k,
          username |-> u, password |-> s, will |-> w]
  <2>1. m \in [kind : {"connect"}, clientId : Text, cleanSession : BOOLEAN,
               keepaliveSeconds : 0 .. U16Space - 1, username : {None} \cup Text,
               password : {None} \cup Text, will : {None} \cup Will]
    BY DEF Connects, Message, AnyMessage
  <2>2. DOMAIN m \ {"kind"} = {"clientId", "cleanSession", "keepaliveSeconds", "username",
                               "password", "will"}
    BY <2>1
  <2>3. QED
    BY <1>3, <2>2
<1>15. ASSUME NEW c_, NEW u_, NEW s_, NEW w_
       PROVE  [clientId |-> c_, cleanSession |-> clean, keepaliveSeconds |-> k,
               username |-> u_, password |-> s_, will |-> w_]
                = [clientId |-> c, cleanSession |-> clean, keepaliveSeconds |-> k,
                   username |-> u, password |-> s, will |-> w]
              <=> c_ = c /\ u_ = u /\ s_ = s /\ w_ = w
  OBVIOUS
<1>16. ReadConnect(b) = [i \in DOMAIN m \ {"kind"} |-> m[i]]
         <=> /\ StringAt(b, 11) = c /\ OptionAt(b, username, u # None) = u
             /\ OptionAt(b, password, s # None) = s /\ v = w
  BY <1>13, <1>14, <1>15
<1>17. AllShort(m) <=> Short(c) /\ WillShort(m) /\ OptionShort(u) /\ OptionShort(s)
  BY <1>3 DEF AllShort
<1>18. QED
  BY <1>8, <1>10, <1>11, <1>12, <1>16, <1>17

LEMMA ConnectFields ==
  ASSUME NEW m \in Message, m.kind = "connect", NEW p \in Packet, Frames(m, p)
  PROVE  SameFields(m, p) <=> Fits(m)
<1>1. m \in Connects
  BY DEF Connects
<1>2. PICK body \in Seq(Nat) : Build(m) = Framed(16, body) /\ Holds(body, m)
  BY <1>1, ConnectBody
<1>3. p.body = body
  <2>1. 16 \in Nat /\ p.body \in Seq(Nat)
    BY DEF Packet
  <2>2. QED
    BY <1>2, <2>1, FramesBody
<1>4. SameFields(m, p) <=> ReadConnect(body) = [f \in DOMAIN m \ {"kind"} |-> m[f]]
  BY <1>3 DEF SameFields
<1>5. Fits(m) <=> AllShort(m)
  <2>1. Strings(m) = {m.clientId} \cup ({m.username, m.password} \ {None})
                       \cup (IF m.will = None THEN {} ELSE {m.will.topic, m.will.payload})
    BY DEF Strings
  <2>2. Fits(m) <=> \A s \in Strings(m) : Short(s)
    BY DEF Fits, Short
  <2>3. CASE m.will = None
    BY <2>1, <2>2, <2>3 DEF AllShort, WillShort, OptionShort
  <2>4. CASE m.will # None
    BY <2>1, <2>2, <2>4 DEF AllShort, WillShort, OptionShort
  <2>5. QED
    BY <2>3, <2>4
<1>6. QED
  BY <1>1, <1>2, <1>4, <1>5, ConnectRead

LEMMA FieldsAgree ==
  ASSUME NEW m \in Message, NEW p \in Packet, Frames(m, p)
  PROVE  SameFields(m, p) <=> Fits(m)
<1>1. m.kind \in {"connect", "publish", "puback", "subscribe", "unsubscribe", "pingreq",
                  "disconnect", "connack", "suback"}
  BY DEF Message, AnyMessage
<1>2. QED
  BY <1>1, ConnectFields, PublishFields, PubackFields, SubscribeFields, UnsubscribeFields,
     EmptyFields, ConnackFields, SubackFields

(* What the build functions wrote is what a reader makes of it, field by   *)
(* field, for every packet the two can exchange: except when a string is   *)
(* longer than the 16 bits of its length can say, and then it never is.    *)
THEOREM FieldsRead == Spec => []FieldsSurvive
<1>1. TypeInv /\ StreamInv => FieldsSurvive
  <2> SUFFICES ASSUME TypeInv, StreamInv, ~torn, NEW i \in DOMAIN delivered
               PROVE  SameFields(begun[i], delivered[i]) <=> Fits(begun[i])
    BY DEF FieldsSurvive
  <2>1. delivered \in Seq(Packet)
    BY DEF TypeInv, TypeOK, Packet
  <2>2. begun \in Seq(UNION {Messages[t] : t \in Threads})
    BY DEF TypeInv, TypeOK
  <2>3. DOMAIN delivered = 1 .. Len(delivered)
    BY <2>1
  <2>4. Len(delivered) <= Len(begun) /\ Frames(begun[i], delivered[i])
    BY <2>3 DEF StreamInv, ReadsWell
  <2>5. i \in 1 .. Len(delivered) /\ i \in 1 .. Len(begun)
    <3>1. Len(delivered) \in Nat /\ Len(begun) \in Nat
      BY <2>1, <2>2
    <3>2. QED
      BY <2>3, <2>4, <3>1
  <2>6. delivered[i] \in Packet
    BY <2>1, <2>5, ElementOfSeq
  <2>7. begun[i] \in Message
    <3>1. begun[i] \in UNION {Messages[t] : t \in Threads}
      BY <2>2, <2>5, ElementOfSeq
    <3>2. QED
      BY <3>1, MessagesAssumption
  <2>8. QED
    BY <2>4, <2>6, <2>7, FieldsAgree
<1>2. QED
  BY <1>1, StreamHolds, PTL
=============================================================================

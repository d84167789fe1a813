---------------------------- MODULE PacketStream ----------------------------
(***************************************************************************)
(* Packets over one direction of a connection: the threads of a client     *)
(* that send under sendMtx with SocketTransport::sendAll, the bytes in the *)
(* socket, and the thread that puts packets together again with            *)
(* readPacket, recvByte and recvExact.                                     *)
(*                                                                         *)
(* Both ends are this library's: towards the broker the reader stands for  *)
(* the broker's, from the broker the writers do, the framing being the     *)
(* same.  A send() or recv() moves as many bytes as it likes, at least     *)
(* one; the connection may be lost at any point of a packet; the reader    *)
(* may be told to stop; and a connect() may replace the socket, as it does *)
(* without sendMtx, while a thread is in the middle of sendAll.            *)
(***************************************************************************)
EXTENDS MqttPacket, FiniteSets

CONSTANTS
  Threads,        \* the threads that send
  NoThread,       \* nobody: a free mutex
  Messages,       \* thread -> what it may send
  Cap,            \* bound: the bytes a socket holds
  MaxReopen       \* bound: how often the socket is replaced

VARIABLES
  sendMtx,        \* the thread that holds it, or NoThread
  message,        \* thread -> what it is sending, or None
  sent,           \* thread -> sendAll's count of bytes sent
  result,         \* thread -> what sendAll returned
  open,           \* the connection is up
  socket,         \* the bytes sent and not yet received
  stopFlag,       \* the reader's stopFlag
  at,             \* where the reader is
  packet,         \* its locals: first byte, length, multiplier, digits, body
  delivered,      \* history: the packets readPacket returned on this connection
  begun,          \* history: the messages sent on it, in order
  torn,           \* history: the socket was replaced under a packet half sent
  reopens         \* sockets replaced so far

sendVars   == <<sendMtx, message, sent, result>>
readVars   == <<at, packet, delivered>>
connVars   == <<open, stopFlag, torn, reopens>>
vars == <<sendVars, readVars, connVars, socket, begun>>

ASSUME ThreadsAssumption  == NoThread \notin Threads
(* What an application can ask for, and what a broker can answer.          *)
Text     == Seq(Nat)
PacketId == 0 .. U16Space - 1
Will     == [topic : Text, payload : Text, qos : 0 .. 2, retained : BOOLEAN]

AnyMessage ==
  [kind : {"connect"}, clientId : Text, cleanSession : BOOLEAN,
   keepaliveSeconds : 0 .. U16Space - 1, username : {None} \cup Text,
   password : {None} \cup Text, will : {None} \cup Will]
  \cup [kind : {"publish"}, topic : Text, payload : Text, qos : 0 .. 2, packetId : PacketId,
        retained : BOOLEAN, dup : BOOLEAN]
  \cup [kind : {"puback"}, packetId : PacketId]
  \cup [kind : {"subscribe"}, packetId : PacketId, subs : Seq([topic : Text, qos : 0 .. 2])]
  \cup [kind : {"unsubscribe"}, packetId : PacketId, topics : Seq(Text)]
  \cup [kind : {"pingreq", "disconnect"}]
  \cup [kind : {"connack"}, sessionPresent : BOOLEAN, returnCode : Nat]
  \cup [kind : {"suback"}, packetId : PacketId, returnCodes : Text \ {<<>>}]

(* What the code sends for a message.  CONNACK and SUBACK come from the    *)
(* broker, as MQTT prescribes them.                                        *)
Build(m) ==
  CASE m.kind = "connect"     -> BuildConnect(m)
    [] m.kind = "publish"     -> BuildPublish(m)
    [] m.kind = "puback"      -> BuildPuback(m.packetId)
    [] m.kind = "subscribe"   -> BuildSubscribe(m.packetId, m.subs)
    [] m.kind = "unsubscribe" -> BuildUnsubscribe(m.packetId, m.topics)
    [] m.kind = "pingreq"     -> BuildPingreq
    [] m.kind = "disconnect"  -> BuildDisconnect
    [] m.kind = "connack"     -> Framed(32, <<Flag(m.sessionPresent, 1), m.returnCode>>)
    [] m.kind = "suback"      -> Framed(144, U16(m.packetId) \o m.returnCodes)

(* Packets stay under 2^32 bytes, where their length would wrap in the     *)
(* code: 16 times as much as readPacket takes.                             *)
Message == {m \in AnyMessage : Len(Build(m)) < U32Space}

ASSUME MessagesAssumption == \A t \in Threads : Messages[t] \subseteq Message
ASSUME NoneAssumption     == None \notin Message
ASSUME BoundsAssumption   == Cap \in Nat \ {0} /\ MaxReopen \in Nat

NoPacket == [first |-> 0, remaining |-> 0, multiplier |-> 1, digits |-> 0, body |-> <<>>]

(* The reader is about to look at stopFlag, or in recv(), for the first    *)
(* byte, a digit of the length or the body; or has returned an error.      *)
Fields  == {"first", "length", "body"}
Checks  == {<<"check", f>> : f \in Fields}
Recvs   == {<<"recv", f>> : f \in Fields}
Returns == {<<"error", e>> : e \in {"Stopped", "ConnectionLost", "Malformed"}}

TypeOK ==
  /\ sendMtx \in Threads \cup {NoThread}
  /\ message \in [Threads -> Message \cup {None}]
  /\ \A t \in Threads : message[t] \in Messages[t] \cup {None}
  /\ sent \in [Threads -> Nat]
  /\ result \in [Threads -> {"none", "Ok", "ConnectionLost"}]
  /\ open \in BOOLEAN /\ stopFlag \in BOOLEAN /\ torn \in BOOLEAN
  /\ socket \in Seq(Nat) /\ Len(socket) <= Cap
  /\ at \in Checks \cup Recvs \cup Returns
  /\ packet \in [first : Nat, remaining : Nat, multiplier : Nat, digits : 0 .. MaxDigits,
                 body : Seq(Nat)]
  /\ delivered \in Seq([type : Nat, flags : 0 .. 15, body : Seq(Nat)])
  /\ begun \in Seq(UNION {Messages[t] : t \in Threads})
  /\ reopens \in 0 .. MaxReopen

Init ==
  /\ sendMtx = NoThread
  /\ message = [t \in Threads |-> None]
  /\ sent = [t \in Threads |-> 0]
  /\ result = [t \in Threads |-> "none"]
  /\ open = TRUE /\ stopFlag = FALSE /\ torn = FALSE
  /\ socket = <<>>
  /\ at = <<"check", "first">>
  /\ packet = NoPacket
  /\ delivered = <<>>
  /\ begun = <<>>
  /\ reopens = 0

----------------------------------------------------------------------------
(* sendAll, by a thread that holds sendMtx all the while.                  *)

(* A mutant: nobody takes sendMtx.                                         *)
LockNothing(t, m) ==
  /\ message[t] = None /\ result[t] = "none"
  /\ message' = [message EXCEPT ![t] = m]
  /\ begun' = Append(begun, m)
  /\ UNCHANGED <<sendMtx, sent, result, readVars, connVars, socket>>

Lock(t, m) ==
  /\ message[t] = None /\ result[t] = "none" /\ sendMtx = NoThread
  /\ sendMtx' = t
  /\ message' = [message EXCEPT ![t] = m]
  /\ begun' = Append(begun, m)
  /\ UNCHANGED <<sent, result, readVars, connVars, socket>>

Sending(t) == message[t] # None

SendReturns(t, r) ==
  /\ result' = [result EXCEPT ![t] = r]
  /\ message' = [message EXCEPT ![t] = None]
  /\ sent' = [sent EXCEPT ![t] = 0]
  /\ sendMtx' = NoThread

(* A mutant: whatever send() took, the packet counts as sent.              *)
SendOnce(t) ==
  LET data == Build(message[t]) IN
  /\ Sending(t) /\ open
  /\ \E n \in 1 .. Cap - Len(socket) :
       /\ sent[t] + n <= Len(data)
       /\ socket' = socket \o SubSeq(data, sent[t] + 1, sent[t] + n)
       /\ SendReturns(t, "Ok")
  /\ UNCHANGED <<begun, readVars, connVars>>

(* send() takes some of the bytes that are left, and blocks while the      *)
(* socket is full.                                                         *)
Send(t) ==
  LET data == Build(message[t]) IN
  /\ Sending(t) /\ open
  /\ \E n \in 1 .. Cap - Len(socket) :
       /\ sent[t] + n <= Len(data)
       /\ socket' = socket \o SubSeq(data, sent[t] + 1, sent[t] + n)
       /\ IF sent[t] + n = Len(data)
            THEN SendReturns(t, "Ok")
            ELSE sent' = [sent EXCEPT ![t] = @ + n] /\ UNCHANGED <<message, result, sendMtx>>
  /\ UNCHANGED <<begun, readVars, connVars>>

(* A mutant: an error is taken for an interrupted call.                    *)
SendErrorRetried(t) == Sending(t) /\ ~open /\ UNCHANGED vars

SendError(t) ==
  /\ Sending(t) /\ ~open
  /\ SendReturns(t, "ConnectionLost")
  /\ UNCHANGED <<begun, readVars, connVars, socket>>

----------------------------------------------------------------------------
(* readPacket, called again and again.                                     *)

In(how, field) == at = <<how, field>>
To(how, field) == at' = <<how, field>>

(* A mutant: recvExact() does not look.                                    *)
CheckInBytes(f) ==
  /\ In("check", f)
  /\ IF stopFlag /\ f # "body" THEN To("error", "Stopped") ELSE To("recv", f)
  /\ UNCHANGED <<sendVars, connVars, packet, delivered, begun, socket>>

(* stopFlag is looked at before every recv().                              *)
Check(f) ==
  /\ In("check", f)
  /\ IF stopFlag THEN To("error", "Stopped") ELSE To("recv", f)
  /\ UNCHANGED <<sendVars, connVars, packet, delivered, begun, socket>>

(* SO_RCVTIMEO: recv() ends without data after 500 ms.                     *)
Timeout(f) ==
  /\ In("recv", f) /\ socket = <<>> /\ open
  /\ To("check", f)
  /\ UNCHANGED <<sendVars, connVars, packet, delivered, begun, socket>>

(* The end of the connection, which recv() tells by returning 0, or an     *)
(* error on it, which counts as the stop once one was asked for.           *)
Closed(f) ==
  /\ In("recv", f) /\ socket = <<>> /\ ~open
  /\ To("error", "ConnectionLost") \/ (stopFlag /\ To("error", "Stopped"))
  /\ UNCHANGED <<sendVars, connVars, packet, delivered, begun, socket>>

Take(n) == socket' = SubSeq(socket, n + 1, Len(socket))

ReadFirst ==
  /\ In("recv", "first") /\ socket # <<>>
  /\ packet' = [NoPacket EXCEPT !.first = Head(socket)]
  /\ Take(1) /\ To("check", "length")
  /\ UNCHANGED <<sendVars, connVars, delivered, begun>>

(* readPacket returns, and is called again.                                *)
Deliver(p) ==
  /\ delivered' = Append(delivered, [type |-> p.first \div 16, flags |-> p.first % 16,
                                     body |-> p.body])
  /\ packet' = NoPacket
  /\ To("check", "first")

(* A mutant: one digit less is read.                                       *)
TooFewDigits(p) == p.digits = MaxDigits - 1

AnyDigits(p) == FALSE   \* a mutant: any number of them is

NoMoreDigits(p) == p.digits = MaxDigits

(* A digit of the remaining length; the top bit says that more follow.     *)
ReadLength ==
  LET b == Head(socket)
      p == [packet EXCEPT !.remaining = @ + (b % Half) * packet.multiplier,
                          !.multiplier = @ * Half, !.digits = @ + 1]
  IN
  /\ In("recv", "length") /\ socket # <<>>
  /\ Take(1)
  /\ IF (b \div Half) % 2 = 1
       THEN /\ IF NoMoreDigits(p) THEN To("error", "Malformed") ELSE To("check", "length")
            /\ packet' = p /\ UNCHANGED delivered
       ELSE IF p.remaining > 0
              THEN To("check", "body") /\ packet' = p /\ UNCHANGED delivered
              ELSE Deliver(p)
  /\ UNCHANGED <<sendVars, connVars, begun>>

(* recvExact() takes some of the bytes there are, up to those it is still  *)
(* to get.                                                                 *)
ReadBody ==
  /\ In("recv", "body")
  /\ \E n \in 1 .. Len(socket) :
       LET p == [packet EXCEPT !.body = @ \o SubSeq(socket, 1, n)] IN
       /\ Len(p.body) <= packet.remaining
       /\ Take(n)
       /\ IF Len(p.body) = packet.remaining
            THEN Deliver(p)
            ELSE To("check", "body") /\ packet' = p /\ UNCHANGED delivered
  /\ UNCHANGED <<sendVars, connVars, begun>>

----------------------------------------------------------------------------
(* What happens to the connection.                                         *)

(* requestStop(), by disconnect() or the destructor.                       *)
Stop ==
  /\ ~stopFlag
  /\ stopFlag' = TRUE
  /\ UNCHANGED <<sendVars, readVars, open, torn, reopens, begun, socket>>

(* The connection ends, after the bytes in flight or before them.          *)
Lose ==
  /\ open
  /\ open' = FALSE
  /\ socket' \in {socket, <<>>}
  /\ UNCHANGED <<sendVars, readVars, stopFlag, torn, reopens, begun>>

HalfSent == {t \in Threads : Sending(t) /\ sent[t] > 0}

(* connect() puts a new socket in fd.  A sendAll that is under way goes on *)
(* with it, in the middle of its packet or, before its first byte, with    *)
(* all of it.                                                              *)
Reopen ==
  /\ ~open /\ at[1] = "error" /\ reopens < MaxReopen
  /\ open' = TRUE /\ stopFlag' = FALSE
  /\ reopens' = reopens + 1
  /\ torn' = (HalfSent # {})
  /\ socket' = <<>>
  /\ at' = <<"check", "first">> /\ packet' = NoPacket /\ delivered' = <<>>
  /\ begun' = IF sendMtx = NoThread THEN <<>> ELSE <<message[sendMtx]>>
  /\ UNCHANGED sendVars

----------------------------------------------------------------------------
Write(t) == \/ \E m \in Messages[t] : Lock(t, m)
            \/ Send(t) \/ SendError(t)

Read == \/ \E f \in Fields : Check(f) \/ Timeout(f) \/ Closed(f)
        \/ ReadFirst \/ ReadLength \/ ReadBody

Next == (\E t \in Threads : Write(t)) \/ Read \/ Stop \/ Lose \/ Reopen

(* The reader's thread is scheduled, recv() has a timeout, and a send with *)
(* room in the socket goes on.  Nobody has to send, stop or reconnect.     *)
Fairness == WF_vars(Read) /\ \A t \in Threads : WF_vars(Send(t) \/ SendError(t))

Spec == Init /\ [][Next]_vars /\ Fairness

----------------------------------------------------------------------------
(* What MQTT prescribes a server to make of a body.                        *)

StringAt(b, i)    == SubSeq(b, i + 2, i + 1 + U16At(b, i))
After(b, i)       == i + 2 + U16At(b, i)
OptionAt(b, i, is) == IF is THEN StringAt(b, i) ELSE None
AfterOption(b, i, is) == IF is THEN After(b, i) ELSE i

ReadConnect(b) ==
  LET flags    == b[8]
      Is(bit)  == (flags \div bit) % 2 = 1
      topic    == After(b, 11)
      payload  == AfterOption(b, topic, Is(4))
      username == AfterOption(b, payload, Is(4))
      password == AfterOption(b, username, Is(128))
  IN  [clientId |-> StringAt(b, 11), cleanSession |-> Is(2), keepaliveSeconds |-> U16At(b, 9),
       username |-> OptionAt(b, username, Is(128)), password |-> OptionAt(b, password, Is(64)),
       will |-> IF Is(4) THEN [topic |-> StringAt(b, topic), payload |-> StringAt(b, payload),
                               qos |-> (flags \div 8) % 4, retained |-> Is(32)]
                         ELSE None]

(* One entry after the other, for as long as there is a whole one.         *)
ReadTopics[b \in Seq(Nat)] ==
  IF Len(b) < 2 \/ Len(b) < After(b, 1) THEN <<>>
  ELSE <<[topic |-> StringAt(b, 1), qos |-> b[After(b, 1)]]>>
         \o ReadTopics[SubSeq(b, After(b, 1) + 1, Len(b))]

ReadFilters[b \in Seq(Nat)] ==
  IF Len(b) < 2 \/ Len(b) + 1 < After(b, 1) THEN <<>>
  ELSE <<StringAt(b, 1)>> \o ReadFilters[SubSeq(b, After(b, 1), Len(b))]

AfterId(p) == SubSeq(p.body, 3, Len(p.body))

(* The fields of the packet p are those of the message m.                  *)
SameFields(m, p) ==
  CASE m.kind = "connect" ->
         ReadConnect(p.body) = [f \in DOMAIN m \ {"kind"} |-> m[f]]
    [] m.kind = "publish" ->
         ParsePublish(p.flags, p.body) =
           [[f \in DOMAIN m \ {"kind"} |-> m[f]] EXCEPT !.packetId = IF m.qos > 0 THEN @ ELSE 0]
    [] m.kind = "subscribe" ->
         ParsePacketId(p.body) = m.packetId /\ ReadTopics[AfterId(p)] = m.subs
    [] m.kind = "unsubscribe" ->
         ParsePacketId(p.body) = m.packetId /\ ReadFilters[AfterId(p)] = m.topics
    [] m.kind = "puback" -> ParsePacketId(p.body) = m.packetId
    [] m.kind = "connack" ->
         ParseConnack(p.body) = [f \in DOMAIN m \ {"kind"} |-> m[f]]
    [] m.kind = "suback" ->
         ParseSuback(p.body) = [f \in DOMAIN m \ {"kind"} |-> m[f]]
    [] OTHER -> p.body = <<>>

(* The strings of a message, each of which has a 16-bit length.            *)
Strings(m) ==
  CASE m.kind = "publish"     -> {m.topic}
    [] m.kind = "subscribe"   -> {m.subs[i].topic : i \in DOMAIN m.subs}
    [] m.kind = "unsubscribe" -> {m.topics[i] : i \in DOMAIN m.topics}
    [] m.kind = "connect"     ->
         {m.clientId} \cup ({m.username, m.password} \ {None})
           \cup (IF m.will = None THEN {} ELSE {m.will.topic, m.will.payload})
    [] OTHER -> {}

Fits(m) == \A s \in Strings(m) : Len(s) < U16Space

----------------------------------------------------------------------------
(* Properties.                                                             *)

(* Half ^ n, by recursion.                                                 *)
Pow[n \in Nat] == IF n = 0 THEN 1 ELSE Half * Pow[n - 1]

(* p is what Framed put on the wire for m: its first byte, then a length   *)
(* of as few digits as it needs, and all that follows.                     *)
Frames(m, p) ==
  LET b == Build(m)
      n == Len(p.body)
      k == Len(b) - n - 1
  IN  /\ b[1] = 16 * p.type + p.flags
      /\ k \in 1 .. MaxDigits /\ n < Pow[k] /\ (k = 1 \/ n >= Pow[k - 1])
      /\ p.body = SubSeq(b, k + 2, Len(b))

(* Whatever the pieces in which send() and recv() move the bytes, and      *)
(* however threads, time-outs and stops interleave, the packets read on a  *)
(* connection are those sent on it, whole and in order, unless its socket  *)
(* was put under a sendAll that had begun on the one before.               *)
ReadsWhatWasSent ==
  ~torn => /\ Len(delivered) <= Len(begun)
           /\ \A i \in DOMAIN delivered : Frames(begun[i], delivered[i])

(* What a packet says is what was asked for, unless a string is longer     *)
(* than its 16-bit length can say: then it is read as something else, and  *)
(* the packets after it are still read well (ReadsWhatWasSent).            *)
FieldsSurvive ==
  ~torn => \A i \in DOMAIN delivered :
    SameFields(begun[i], delivered[i]) <=> Fits(begun[i])

(* readPacket gives up on a length only if the body has Half^MaxDigits     *)
(* bytes or more, which no length can say and no build function refuses.   *)
MalformedMeansTooLong ==
  ~torn /\ at = <<"error", "Malformed">> =>
    /\ Len(delivered) < Len(begun)
    /\ Len(Build(begun[Len(delivered) + 1])) >= 1 + (MaxDigits + 1) + Pow[MaxDigits]

(* A reader that is told to stop does so, in the middle of a packet and on *)
(* a connection on which nothing arrives.                                  *)
StopEndsReading == stopFlag ~> at[1] = "error" \/ ~stopFlag

(* What was sent is read, unless the connection ends or the reader does.   *)
SentIsRead ==
  Len(delivered) < Len(begun) /\ sendMtx = NoThread /\ open ~>
    Len(delivered) = Len(begun) \/ ~open \/ at[1] = "error" \/ torn

(* sendAll returns, and gives sendMtx back, unless the other end has       *)
(* stopped reading on a connection that is up: send() has no time-out.     *)
SendEnds == sendMtx # NoThread ~> sendMtx = NoThread \/ (at[1] = "error" /\ open)
=============================================================================

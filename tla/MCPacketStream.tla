--------------------------- MODULE MCPacketStream ---------------------------
(* An instance of PacketStream for TLC: Half is 2 and MaxDigits 5, so that  *)
(* a string is too long at 16 bytes and a packet at 32.                    *)
EXTENDS PacketStream, TLC

CONSTANTS t1, t2

(* Letter l, n times: the fields of a packet are told apart by letter.     *)
Letters(l, n) == [i \in 1 .. n |-> 64 + l]

Pub(topic, payload, qos, id, retained, dup) ==
  [kind |-> "publish", topic |-> Letters(1, topic), payload |-> Letters(2, payload), qos |-> qos,
   packetId |-> id, retained |-> retained, dup |-> dup]

Connect(will, username, password, clean) ==
  [kind |-> "connect", clientId |-> Letters(1, 1), cleanSession |-> clean, keepaliveSeconds |-> 13,
   username |-> username, password |-> password, will |-> will]

AWill == [topic |-> Letters(4, 2), payload |-> Letters(5, 1), qos |-> 1, retained |-> TRUE]

(* What the first thread sends: every kind of packet, and for the lengths  *)
(* the last one that is well and the first one that is not.                *)
AnyKind ==
  {Pub(0, 1, 2, 14, FALSE, TRUE), Pub(2, 1, 1, 7, TRUE, FALSE),
   Pub(15, 1, 0, 9, TRUE, FALSE), Pub(16, 1, 1, 8, FALSE, FALSE),
   Pub(1, 28, 0, 0, FALSE, FALSE), Pub(1, 29, 0, 0, FALSE, FALSE),
   Connect(AWill, Letters(2, 1), Letters(3, 2), FALSE), Connect(None, Letters(2, 16), None, TRUE),
   [kind |-> "puback", packetId |-> 8],
   [kind |-> "subscribe", packetId |-> 13,
    subs |-> <<[topic |-> Letters(1, 2), qos |-> 1], [topic |-> Letters(2, 1), qos |-> 2]>>],
   [kind |-> "unsubscribe", packetId |-> 6, topics |-> <<Letters(1, 2), Letters(2, 1)>>],
   [kind |-> "connack", sessionPresent |-> TRUE, returnCode |-> 5],
   [kind |-> "suback", packetId |-> 7, returnCodes |-> <<1, 128>>]}

(* What the other one does: the keepalive.                                 *)
Keepalive == {[kind |-> "pingreq"]}

MCMessages == t1 :> AnyKind @@ t2 :> Keepalive
=============================================================================

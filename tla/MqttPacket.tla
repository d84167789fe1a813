----------------------------- MODULE MqttPacket -----------------------------
(***************************************************************************)
(* The wire format of MqttPacket.cpp: what the build functions put on the  *)
(* wire and what the parse functions make of a packet's body.              *)
(*                                                                         *)
(* Half is 128 and MaxDigits 4: a byte has 2 * Half values, and a digit of *)
(* a remaining length Half.  Smaller ones bring the widths at which        *)
(* lengths wrap within reach: a 16-bit number counts to (2 * Half)^2, a    *)
(* remaining length to Half^MaxDigits.  Bytes of flags, and characters,    *)
(* keep values of their own, whatever Half is.                             *)
(***************************************************************************)
EXTENDS Naturals, SequencesExt

CONSTANTS
  Half,       \* half the values of a byte: 2^7
  MaxDigits,  \* the bytes readPacket takes a remaining length from: 4
  None        \* an absent optional, and the result of a parser that throws

ASSUME HalfAssumption   == Half \in Nat /\ Half > 1
ASSUME DigitsAssumption == MaxDigits \in Nat /\ MaxDigits > 0

Byte     == 2 * Half
U16Space == Byte * Byte
U32Space == U16Space * U16Space

Flag(set, value) == IF set THEN value ELSE 0

----------------------------------------------------------------------------
(* Serialisers.                                                            *)

(* appendVarLen(): the low digits first, all but the last one marked.      *)
VarLen[n \in Nat] ==
  IF n < Half THEN <<n>> ELSE <<(n % Half) + Half>> \o VarLen[n \div Half]

(* appendU16() of a value cast to 16 bits.                                 *)
U16(n) == <<(n \div Byte) % Byte, n % Byte>>

MqttString(s) == U16(Len(s)) \o s

(* prependFixedHeader(), with the length cast to 32 bits.                  *)
Framed(first, body) == <<first>> \o VarLen[Len(body) % U32Space] \o body

Optional(s) == IF s = None THEN <<>> ELSE MqttString(s)

ConnectFlags(p) ==
  Flag(p.cleanSession, 2) + Flag(p.username # None, 128) + Flag(p.password # None, 64)
    + (IF p.will = None THEN 0 ELSE 4 + 8 * (p.will.qos % 4) + Flag(p.will.retained, 32))

(* A mutant: the will goes after the credentials.                          *)
WillLast(p) ==
  LET will == IF p.will = None THEN <<>> ELSE MqttString(p.will.topic) \o MqttString(p.will.payload)
  IN  Framed(16, MqttString(<<77, 81, 84, 84>>) \o <<4, ConnectFlags(p)>>
                   \o U16(p.keepaliveSeconds) \o MqttString(p.clientId)
                   \o Optional(p.username) \o Optional(p.password) \o will)

BuildConnect(p) ==
  LET will == IF p.will = None THEN <<>> ELSE MqttString(p.will.topic) \o MqttString(p.will.payload)
  IN  Framed(16, MqttString(<<77, 81, 84, 84>>) \o <<4, ConnectFlags(p)>>
                   \o U16(p.keepaliveSeconds) \o MqttString(p.clientId) \o will
                   \o Optional(p.username) \o Optional(p.password))

BuildPublish(m) ==
  Framed(48 + Flag(m.dup, 8) + 2 * (m.qos % 4) + Flag(m.retained, 1),
         MqttString(m.topic) \o (IF m.qos > 0 THEN U16(m.packetId) ELSE <<>>) \o m.payload)

(* The code writes the length of a PUBACK, 2, out; it is VarLen's.         *)
BuildPuback(id) == Framed(64, U16(id))

(* The topics of a SUBSCRIBE one after the other, each with its QoS.       *)
Topics(subs) ==
  FlattenSeq([i \in DOMAIN subs |-> MqttString(subs[i].topic) \o <<subs[i].qos % 4>>])

BuildSubscribe(id, subs) == Framed(130, U16(id) \o Topics(subs))

Filters(topics) == FlattenSeq([i \in DOMAIN topics |-> MqttString(topics[i])])

BuildUnsubscribe(id, topics) == Framed(162, U16(id) \o Filters(topics))

BuildPingreq    == <<192, 0>>
BuildDisconnect == <<224, 0>>

----------------------------------------------------------------------------
(* Deserialisers.  They are given the flags of a packet and its body.      *)

U16At(b, i) == b[i] * Byte + b[i + 1]

ParsePublish(flags, b) ==
  LET qos      == (flags \div 2) % 4
      topicEnd == 2 + U16At(b, 1)
      idEnd    == topicEnd + (IF qos > 0 THEN 2 ELSE 0)
  IN  IF Len(b) < 2 \/ Len(b) < idEnd THEN None
      ELSE [topic    |-> SubSeq(b, 3, topicEnd),
            packetId |-> IF qos > 0 THEN U16At(b, topicEnd + 1) ELSE 0,
            payload  |-> SubSeq(b, idEnd + 1, Len(b)),
            qos      |-> qos,
            retained |-> flags % 2 = 1,
            dup      |-> flags \div 8 = 1]

ParseConnack(b) ==
  IF Len(b) < 2 THEN None ELSE [sessionPresent |-> b[1] % 2 = 1, returnCode |-> b[2]]

ParseSuback(b) ==
  IF Len(b) < 3 THEN None
  ELSE [packetId |-> U16At(b, 1), returnCodes |-> SubSeq(b, 3, Len(b))]

(* A body without an id gives 0, which no table of promises holds.         *)
ParsePacketId(b) == IF Len(b) < 2 THEN 0 ELSE U16At(b, 1)
=============================================================================

-------------------------- MODULE PublishContract --------------------------
(***************************************************************************)
(* What MqttPublisher promises those who publish, without packet ids,      *)
(* tables, locks or packets: a call asks, its message may be delivered,    *)
(* the call is answered once and its callback is told at most once.        *)
(*                                                                         *)
(* The one weakness of the implementation that the promise has to admit is *)
(* "reused": once packet ids have come round, an answer may be that of     *)
(* another message.                                                        *)
(***************************************************************************)
EXTENDS Naturals

CONSTANTS
  Calls,            \* the calls of publish() and publishAsync()
  Requests          \* what they may ask for: records with fields api, qos and cb

VARIABLES
  asked,            \* the calls that were made
  request,          \* call -> what it asks for
  delivered,        \* the calls whose message the broker has
  outcome,          \* call -> what it returned, or "none"
  told,             \* call -> what its callback was told, or "none"
  published,        \* the calls counted as published, by number
  failures,         \* the calls counted as failed
  reused            \* packet ids have come round

vars == <<asked, request, delivered, outcome, told, published, failures, reused>>

Sync(c) == request[c].api = "publish"

(* An acknowledgement was asked for, and who asked for it waits.           *)
Acknowledged(c) == request[c].qos > 0 /\ (Sync(c) \/ request[c].cb)

(* Ok is said of a delivered message.                                      *)
MayConfirm(c) == c \in delivered \/ reused

Init ==
  /\ asked = {} /\ delivered = {}
  /\ request \in [Calls -> [api : {"publish"}, qos : {0}, cb : {FALSE}]]
  /\ outcome = [c \in Calls |-> "none"]
  /\ told = [c \in Calls |-> "none"]
  /\ published = 0 /\ failures = 0
  /\ reused = FALSE

Ask(c, r) ==
  /\ c \notin asked
  /\ asked' = asked \cup {c}
  /\ request' = [request EXCEPT ![c] = r]
  /\ UNCHANGED <<delivered, outcome, told, published, failures, reused>>

(* Not connected: the answer is immediate and is not counted.              *)
Refuse(c, r) ==
  /\ c \notin asked
  /\ asked' = asked \cup {c}
  /\ request' = [request EXCEPT ![c] = r]
  /\ outcome' = [outcome EXCEPT ![c] = "NotConnected"]
  /\ UNCHANGED <<delivered, told, published, failures, reused>>

(* A message is delivered at most once, before or after its call returns,  *)
(* but never when the caller was told that it was not sent.                *)
Deliver(c) ==
  /\ c \in asked \ delivered
  /\ outcome[c] \notin {"NotConnected", "PublishFailed"}
  /\ delivered' = delivered \cup {c}
  /\ UNCHANGED <<asked, request, outcome, told, published, failures, reused>>

Answer(c, o) ==
  /\ c \in asked /\ outcome[c] = "none"
  /\ outcome' = [outcome EXCEPT ![c] = o]
  /\ UNCHANGED <<asked, request, delivered, reused>>

(* publish() with QoS > 0 confirms delivery; any other Ok says "sent".     *)
Succeed(c) ==
  /\ Answer(c, "Ok")
  /\ Sync(c) /\ request[c].qos > 0 => MayConfirm(c)
  /\ published' = published + 1
  /\ UNCHANGED <<told, failures>>

(* The packet was not sent.  The callback may be told so at once.          *)
Fail(c) ==
  /\ Answer(c, "PublishFailed")
  /\ c \notin delivered
  /\ \/ UNCHANGED told
     \/ /\ ~Sync(c) /\ request[c].cb /\ told[c] = "none"
        /\ told' = [told EXCEPT ![c] = "PublishFailed"]
  /\ failures' = failures + 1
  /\ UNCHANGED published

(* Only a publish() that waits can give up or learn of a lost connection:  *)
(* its message may or may not be delivered.                                *)
GiveUp(c) ==
  /\ Sync(c) /\ request[c].qos > 0
  /\ Answer(c, "PublishTimeout") \/ Answer(c, "ConnectionLost")
  /\ failures' = failures + 1
  /\ UNCHANGED <<told, published>>

(* A publish() throws, or a callback is never called, only when the packet *)
(* id was taken over by another call.                                      *)
Throw(c) ==
  /\ Sync(c) /\ request[c].qos > 0 /\ reused
  /\ Answer(c, "exception")
  /\ UNCHANGED <<told, published, failures>>

Tell(c, o) ==
  /\ c \in asked /\ ~Sync(c) /\ Acknowledged(c) /\ told[c] = "none"
  /\ \/ o = "Ok" /\ MayConfirm(c)
     \/ o = "ConnectionLost"
     \/ o = "dropped" /\ reused
  /\ told' = [told EXCEPT ![c] = o]
  /\ UNCHANGED <<asked, request, delivered, outcome, published, failures, reused>>

Reuse ==
  /\ reused' = TRUE
  /\ UNCHANGED <<asked, request, delivered, outcome, told, published, failures>>

Next ==
  \/ \E c \in Calls :
       \/ \E r \in Requests : Ask(c, r) \/ Refuse(c, r)
       \/ Deliver(c) \/ Succeed(c) \/ Fail(c) \/ GiveUp(c) \/ Throw(c)
       \/ \E o \in {"Ok", "ConnectionLost", "dropped"} : Tell(c, o)
  \/ Reuse

Spec == Init /\ [][Next]_vars
=============================================================================

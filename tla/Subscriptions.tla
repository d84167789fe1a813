---------------------------- MODULE Subscriptions ----------------------------
(***************************************************************************)
(* The subscriptions of MqttSubscriber: subscribe() and unsubscribe() on   *)
(* application threads, the SUBACK and UNSUBACK promises they wait on, the *)
(* receive loop that resolves the promises and runs the callbacks, and     *)
(* connect(), which subscribes again to everything in the table.           *)
(*                                                                         *)
(* The three locks are taken in different orders by different threads, so  *)
(* that sendMtx and ackMtx are variables: who holds one across steps.  The *)
(* only section of subsMtx that waits for something inside is the shared   *)
(* one of resubscribeAll(); every other one is one step.                   *)
(*                                                                         *)
(* One connection follows the other here; concurrent connect()s, and       *)
(* receive threads that outlive their connection, are in                   *)
(* PublisherLifecycle, whose code the subscriber repeats.                  *)
(***************************************************************************)
EXTENDS Naturals

CONSTANTS
  Calls,      \* calls of subscribe() and unsubscribe()
  NoCall,     \* no call: a free slot, or a free mutex
  Topics,     \* topics; as a key of the table, a filter
  NoTopic,    \* no packet is being dispatched
  Matches,    \* pairs <<topic, filter>>: what topicMatchesFilter says
  Requests,   \* the requests the callers make, a subset of Request
  IdSpace     \* how many values uint16_t nextPacketId takes: 2^16

VARIABLES
  state,          \* std::atomic<ConnectionState> state
  transport,      \* "open"; "broken", the descriptor still there; "closed"
  link,           \* where the thread is that connects, then receives
  closing,        \* a disconnect() has begun
  resubs,         \* what resubscribeAll() has yet to send
  inbound,        \* the topic of the PUBLISH in hand, or NoTopic
  running,        \* the call whose callback the receive loop runs, or NoCall
  subscriptions,  \* topic -> the call whose callback is stored, or NoCall
  pendingAcks,    \* pendingSubacks and pendingUnsubacks: operation -> id -> call
  nextPacketId,   \* std::atomic<uint16_t> nextPacketId
  sendMtx,        \* the call that holds sendMtx, or NoCall
  ackMtx,         \* the call that holds ackMtx, or NoCall
  req,            \* call -> what it asks for
  pc,             \* call -> where its thread is
  id,             \* call -> the packet id it was given, 0 before and after
  future,         \* call -> what its future holds
  result,         \* call -> what it returned
  acks,           \* SUBACK and UNSUBACK packets on their way
  sent,           \* history: topics SUBSCRIBEd on the open connection, and not UNSUBSCRIBEd
  last,           \* history: topic -> the last call on it
  contested       \* history: topics that two calls were on at once

connVars  == <<state, transport, link, closing, resubs>>
dispVars  == <<inbound, running>>
tableVars == <<pendingAcks, nextPacketId, future>>
lockVars  == <<sendMtx, ackMtx>>
histVars  == <<last, contested>>
vars == <<connVars, dispVars, subscriptions, tableVars, lockVars, req, id, pc, result, acks, sent,
          histVars>>

ConnectionState ==
  {"Disconnected", "Connecting", "Connected", "Reconnecting", "Disconnecting", "Failed"}

Ops       == {"subscribe", "unsubscribe"}
Request   == [op : Ops, topic : Topics]
PacketIds == 0 .. IdSpace - 1

Ack == [op : Ops, id : PacketIds]   \* SUBACK, UNSUBACK

ASSUME CallsAssumption    == NoCall \notin Calls
ASSUME TopicsAssumption   == NoTopic \notin Topics
ASSUME MatchesAssumption  == Matches \subseteq Topics \X Topics
ASSUME RequestsAssumption == Requests \subseteq Request
ASSUME IdSpaceAssumption  == IdSpace \in Nat /\ IdSpace > 1

Topic(c) == req[c].topic
Op(c)    == req[c].op

Receiving == link \in {"receive", "puback", "callback"}

TypeOK ==
  /\ state \in ConnectionState
  /\ transport \in {"open", "broken", "closed"}
  /\ link \in {"idle", "opened", "connected", "resubscribe", "receive", "puback", "callback",
               "lost"}
  /\ closing \in BOOLEAN
  /\ resubs \subseteq Topics
  /\ inbound \in Topics \cup {NoTopic}
  /\ running \in Calls \cup {NoCall}
  /\ subscriptions \in [Topics -> Calls \cup {NoCall}]
  /\ pendingAcks \in [Ops -> [PacketIds -> Calls \cup {NoCall}]]
  /\ nextPacketId \in PacketIds \ {0}
  /\ sendMtx \in Calls \cup {NoCall}
  /\ ackMtx \in Calls \cup {NoCall}
  /\ req \in [Calls -> Request]
  /\ pc \in [Calls -> {"idle", "check", "register", "send", "sendFailed", "forget", "await",
                       "timedOut", "rejected", "done"}]
  /\ id \in [Calls -> PacketIds]
  /\ future \in [Calls -> {"none", "unset", "ok", "rejected", "lost", "broken"}]
  /\ result \in [Calls -> {"none", "Ok", "SubscribeFailed", "UnsubscribeFailed", "exception"}]
  /\ acks \subseteq Ack
  /\ sent \subseteq Topics
  /\ last \in [Topics -> Calls \cup {NoCall}]
  /\ contested \subseteq Topics

Init ==
  /\ state = "Disconnected"
  /\ transport = "closed"
  /\ link = "idle"
  /\ closing = FALSE
  /\ resubs = {}
  /\ inbound = NoTopic
  /\ running = NoCall
  /\ subscriptions = [t \in Topics |-> NoCall]
  /\ pendingAcks = [o \in Ops |-> [i \in PacketIds |-> NoCall]]
  /\ nextPacketId = 1
  /\ sendMtx = NoCall
  /\ ackMtx = NoCall
  /\ req \in [Calls -> Requests]
  /\ pc = [c \in Calls |-> "idle"]
  /\ id = [c \in Calls |-> 0]
  /\ future = [c \in Calls |-> "none"]
  /\ result = [c \in Calls |-> "none"]
  /\ acks = {}
  /\ sent = {}
  /\ last = [t \in Topics |-> NoCall]
  /\ contested = {}

----------------------------------------------------------------------------
Goto(c, l)      == pc' = [pc EXCEPT ![c] = l]
Go(c, l, m)     == pc[c] = l /\ Goto(c, m)
Return(c, l, r) ==
  Go(c, l, "done") /\ result' = [result EXCEPT ![c] = r] /\ id' = [id EXCEPT ![c] = 0]
Failure(c)      == IF Op(c) = "subscribe" THEN "SubscribeFailed" ELSE "UnsubscribeFailed"

(* Nobody is inside resubscribeAll(), so that subsMtx can be had alone.    *)
SubsMtxFree == link # "resubscribe"

InProgress(c) == pc[c] \notin {"idle", "done"}

NextIdNoSkip == (nextPacketId + 1) % IdSpace   \* a mutant: 0 is given out

(* What allocPacketId(), one step here, leaves in the counter: the id it   *)
(* gives next.                                                             *)
NextId == IF nextPacketId = IdSpace - 1 THEN 1 ELSE nextPacketId + 1

(* An entry is erased or overwritten: its promise is destroyed unresolved. *)
Break(o, i, f) == [c \in Calls |-> IF pendingAcks[o][i] = c THEN "broken" ELSE f[c]]

Erase(o, i) ==
  /\ pendingAcks' = [pendingAcks EXCEPT ![o][i] = NoCall]
  /\ future' = Break(o, i, future)

----------------------------------------------------------------------------
(* subscribe() and unsubscribe().                                          *)

Store(t, c) == SubsMtxFree /\ subscriptions' = [subscriptions EXCEPT ![t] = c]

(* The table comes first: the callback is stored, or erased, before the    *)
(* state is looked at.                                                     *)
Begin(c) ==
  /\ Go(c, "idle", "check")
  /\ Store(Topic(c), IF Op(c) = "subscribe" THEN c ELSE NoCall)
  /\ last' = [last EXCEPT ![Topic(c)] = c]
  /\ contested' = contested \cup {t \in {Topic(c)} : \E d \in Calls : InProgress(d) /\ Topic(d) = t}
  /\ UNCHANGED <<connVars, dispVars, tableVars, lockVars, req, id, result, acks, sent>>

(* Not connected: connect() will do it.                                    *)
CheckConnected(c) ==
  /\ IF state = "Connected" THEN Go(c, "check", "register") /\ UNCHANGED <<id, result>>
                            ELSE Return(c, "check", "Ok")
  /\ UNCHANGED <<connVars, dispVars, subscriptions, tableVars, lockVars, req, acks, sent, histVars>>

Register(c) ==
  /\ Go(c, "register", "send")
  /\ ackMtx = NoCall
  /\ id' = [id EXCEPT ![c] = nextPacketId]
  /\ nextPacketId' = NextId
  /\ pendingAcks' = [pendingAcks EXCEPT ![Op(c)][nextPacketId] = c]
  /\ future' = [Break(Op(c), nextPacketId, future) EXCEPT ![c] = "unset"]
  /\ UNCHANGED <<connVars, dispVars, subscriptions, lockVars, req, result, acks, sent, histVars>>

(* What the broker makes of a SUBSCRIBE or UNSUBSCRIBE that reaches it.    *)
Deliver(o, t, i) ==
  IF transport = "open"
    THEN /\ sent' = IF o = "subscribe" THEN sent \cup {t} ELSE sent \ {t}
         /\ acks' = acks \cup {[op |-> o, id |-> i]}
    ELSE UNCHANGED <<sent, acks>>

(* sendAll() succeeds, which on a broken connection means nothing.         *)
SendOk(c) ==
  /\ Go(c, "send", "await")
  /\ sendMtx = NoCall /\ transport # "closed"
  /\ Deliver(Op(c), Topic(c), id[c])
  /\ UNCHANGED <<connVars, dispVars, subscriptions, tableVars, lockVars, req, id, result, histVars>>

(* It fails, and sendMtx is kept.                                          *)
SendError(c) ==
  /\ Go(c, "send", "sendFailed")
  /\ sendMtx = NoCall /\ transport # "open"
  /\ sendMtx' = c
  /\ UNCHANGED <<connVars, dispVars, subscriptions, tableVars, ackMtx, req, id, result, acks,
                 sent, histVars>>

(* ackMtx is taken under sendMtx; subscribe() keeps it, too.               *)
SendErrorErase(c) ==
  /\ ackMtx = NoCall
  /\ Erase(Op(c), id[c])
  /\ IF Op(c) = "subscribe"
       THEN Go(c, "sendFailed", "forget") /\ ackMtx' = c /\ UNCHANGED <<id, result, sendMtx>>
       ELSE Return(c, "sendFailed", Failure(c)) /\ sendMtx' = NoCall /\ UNCHANGED ackMtx
  /\ UNCHANGED <<connVars, dispVars, subscriptions, nextPacketId, req, acks, sent, histVars>>

(* subsMtx is taken under sendMtx and ackMtx.                              *)
SendErrorForget(c) ==
  /\ Return(c, "forget", Failure(c))
  /\ Store(Topic(c), NoCall)
  /\ sendMtx' = NoCall /\ ackMtx' = NoCall
  /\ UNCHANGED <<connVars, dispVars, tableVars, req, acks, sent, histVars>>

AwaitTimeout(c) ==
  /\ Go(c, "await", "timedOut")
  /\ future[c] = "unset"
  /\ UNCHANGED <<connVars, dispVars, subscriptions, tableVars, lockVars, req, id, result, acks,
                 sent, histVars>>

(* A mutant: the promise stays in the table.                               *)
TimeoutKeep(c) ==
  /\ Return(c, "timedOut", Failure(c))
  /\ UNCHANGED <<connVars, dispVars, subscriptions, tableVars, lockVars, req, acks, sent, histVars>>

(* The table of subscriptions is left as it is.                            *)
TimeoutErase(c) ==
  /\ Return(c, "timedOut", Failure(c))
  /\ ackMtx = NoCall
  /\ Erase(Op(c), id[c])
  /\ UNCHANGED <<connVars, dispVars, subscriptions, nextPacketId, lockVars, req, acks, sent,
                 histVars>>

(* get(): a refused subscription is yet to be erased, and what the promise *)
(* of an unsubscribe() or a destroyed promise holds is thrown.             *)
AwaitResolved(c) ==
  /\ future[c] \notin {"none", "unset"}
  /\ IF future[c] = "rejected"
       THEN Go(c, "await", "rejected") /\ UNCHANGED <<id, result>>
       ELSE Return(c, "await", IF future[c] = "ok" THEN "Ok" ELSE "exception")
  /\ UNCHANGED <<connVars, dispVars, subscriptions, tableVars, lockVars, req, acks, sent, histVars>>

Rejected(c) ==
  /\ Return(c, "rejected", Failure(c))
  /\ Store(Topic(c), NoCall)
  /\ UNCHANGED <<connVars, dispVars, tableVars, lockVars, req, acks, sent, histVars>>

----------------------------------------------------------------------------
(* connect(), disconnect(), and the end of a connection.                   *)

LinkStep(l, m) == link = l /\ link' = m

(* A new connection, with its CONNECT sent, under sendMtx, and accepted.   *)
Open ==
  /\ LinkStep("idle", "opened")
  /\ state # "Connected" /\ sendMtx = NoCall
  /\ state' = "Connecting" /\ transport' = "open"
  /\ sent' = {} /\ acks' = {}
  /\ UNCHANGED <<closing, resubs, dispVars, subscriptions, tableVars, lockVars, req, id, pc,
                 result, histVars>>

OpenError ==
  /\ link = "idle" /\ state # "Connected"
  /\ state' = "Failed"
  /\ transport' \in {transport, "broken", "closed"}
  /\ UNCHANGED <<link, closing, resubs, dispVars, subscriptions, tableVars, lockVars, req, id, pc,
                 result, acks, sent, histVars>>

ToConnected ==
  /\ LinkStep("opened", "connected")
  /\ state' = "Connected"
  /\ UNCHANGED <<transport, closing, resubs, dispVars, subscriptions, tableVars, lockVars, req,
                 id, pc, result, acks, sent, histVars>>

(* A mutant: what was never sent is not sent now.                          *)
ResubscribeKnown ==
  /\ LinkStep("connected", "resubscribe")
  /\ resubs' = {t \in Topics : subscriptions[t] # NoCall /\ future[subscriptions[t]] # "none"}
  /\ UNCHANGED <<state, transport, closing, dispVars, subscriptions, tableVars, lockVars, req, id,
                 pc, result, acks, sent, histVars>>

(* resubscribeAll() takes subsMtx, shared, and then sendMtx for every      *)
(* topic; what sendAll() returns is not looked at, and no promise waits    *)
(* for the SUBACK.                                                         *)
ResubscribeAll ==
  /\ LinkStep("connected", "resubscribe")
  /\ resubs' = {t \in Topics : subscriptions[t] # NoCall}
  /\ UNCHANGED <<state, transport, closing, dispVars, subscriptions, tableVars, lockVars, req, id,
                 pc, result, acks, sent, histVars>>

Resubscribe(t) ==
  /\ link = "resubscribe" /\ t \in resubs
  /\ sendMtx = NoCall
  /\ resubs' = resubs \ {t}
  /\ nextPacketId' = NextId
  /\ Deliver("subscribe", t, nextPacketId)
  /\ UNCHANGED <<state, transport, link, closing, dispVars, subscriptions, pendingAcks, id,
                 future, lockVars, req, pc, result, histVars>>

StartReceiving ==
  /\ LinkStep("resubscribe", "receive")
  /\ resubs = {}
  /\ UNCHANGED <<state, transport, closing, resubs, dispVars, subscriptions, tableVars, lockVars,
                 req, id, pc, result, acks, sent, histVars>>

Lose ==
  /\ transport = "open"
  /\ transport' = "broken" /\ sent' = {}
  /\ UNCHANGED <<state, link, closing, resubs, dispVars, subscriptions, tableVars, lockVars, req,
                 id, pc, result, acks, histVars>>

ToReconnecting ==
  /\ LinkStep("receive", "lost")
  /\ transport # "open"
  /\ state' = "Reconnecting" /\ acks' = {}
  /\ UNCHANGED <<transport, closing, resubs, dispVars, subscriptions, tableVars, lockVars, req,
                 id, pc, result, sent, histVars>>

IsPending(o, c) == \E i \in PacketIds : pendingAcks[o][i] = c

(* failAllAcks(): a SUBACK promise gets the broker's refusal code, an      *)
(* UNSUBACK promise an exception.                                          *)
FailAllAcks ==
  /\ LinkStep("lost", "idle")
  /\ ackMtx = NoCall
  /\ future' = [c \in Calls |-> CASE IsPending("subscribe", c)   -> "rejected"
                                  [] IsPending("unsubscribe", c) -> "lost"
                                  [] OTHER                       -> future[c]]
  /\ pendingAcks' = [o \in Ops |-> [i \in PacketIds |-> NoCall]]
  /\ UNCHANGED <<state, transport, closing, resubs, dispVars, subscriptions, nextPacketId, id,
                 lockVars, req, pc, result, acks, sent, histVars>>

Disconnect ==
  /\ state = "Connected" /\ ~closing
  /\ state' = "Disconnecting" /\ closing' = TRUE
  /\ UNCHANGED <<transport, link, resubs, dispVars, subscriptions, tableVars, lockVars, req, id,
                 pc, result, acks, sent, histVars>>

(* DISCONNECT, under sendMtx, and the end of the transport.  A receive     *)
(* loop that runs ends without failAllAcks(); one yet to be started will   *)
(* find the transport closed.                                              *)
Disconnected ==
  /\ closing /\ sendMtx = NoCall
  /\ state' = "Disconnected" /\ closing' = FALSE /\ transport' = "closed"
  /\ link' = IF Receiving THEN "idle" ELSE link
  /\ sent' = {} /\ acks' = {}
  /\ inbound' = NoTopic /\ running' = NoCall
  /\ UNCHANGED <<resubs, subscriptions, tableVars, lockVars, req, id, pc, result, histVars>>

----------------------------------------------------------------------------
(* The receive loop.                                                       *)

(* A mutant: callbacks run on a worker, beside the receive loop.           *)
RecvAckBeside(a, code) ==
  /\ link \in {"receive", "callback"} /\ ackMtx = NoCall
  /\ a.op = "unsubscribe" => code = "ok"
  /\ acks' = acks \ {a}
  /\ future' = [c \in Calls |-> IF pendingAcks[a.op][a.id] = c THEN code ELSE future[c]]
  /\ pendingAcks' = [pendingAcks EXCEPT ![a.op][a.id] = NoCall]
  /\ UNCHANGED <<connVars, dispVars, subscriptions, nextPacketId, id, lockVars, req, pc, result,
                 sent, histVars>>

(* A SUBACK, which accepts or rejects, or an UNSUBACK: find, resolve,      *)
(* erase.                                                                  *)
RecvAck(a, code) ==
  /\ link = "receive" /\ ackMtx = NoCall
  /\ a.op = "unsubscribe" => code = "ok"
  /\ acks' = acks \ {a}
  /\ future' = [c \in Calls |-> IF pendingAcks[a.op][a.id] = c THEN code ELSE future[c]]
  /\ pendingAcks' = [pendingAcks EXCEPT ![a.op][a.id] = NoCall]
  /\ UNCHANGED <<connVars, dispVars, subscriptions, nextPacketId, id, lockVars, req, pc, result,
                 sent, histVars>>

(* The entry of the topic itself, else that of any filter that matches.    *)
Handlers(t) ==
  IF subscriptions[t] # NoCall
    THEN {subscriptions[t]}
    ELSE {subscriptions[f] : f \in {g \in Topics : <<t, g>> \in Matches}} \ {NoCall}

(* The callback is copied under subsMtx and run without it; without one,   *)
(* the message goes to the fallback or is dropped.                         *)
Dispatch(t) ==
  IF Handlers(t) = {}
    THEN link' = "receive" /\ UNCHANGED running
    ELSE link' = "callback" /\ running' \in Handlers(t)

(* dispatchPublish(): a message is handed over as it is received,          *)
RecvPublish(t) ==
  /\ link = "receive" /\ transport # "closed"
  /\ Dispatch(t)
  /\ UNCHANGED <<state, transport, closing, resubs, inbound, subscriptions, tableVars, lockVars,
                 req, id, pc, result, acks, sent, histVars>>

(* one of QoS 1 when its PUBACK has been sent, for which sendMtx is taken. *)
RecvPublishQos1(t) ==
  /\ LinkStep("receive", "puback")
  /\ transport # "closed"
  /\ inbound' = t
  /\ UNCHANGED <<state, transport, closing, resubs, running, subscriptions, tableVars, lockVars,
                 req, id, pc, result, acks, sent, histVars>>

SendPuback ==
  /\ link = "puback" /\ sendMtx = NoCall
  /\ Dispatch(inbound)
  /\ inbound' = NoTopic
  /\ UNCHANGED <<state, transport, closing, resubs, subscriptions, tableVars, lockVars, req, id,
                 pc, result, acks, sent, histVars>>

CallbackReturns ==
  /\ LinkStep("callback", "receive")
  /\ running' = NoCall
  /\ UNCHANGED <<state, transport, closing, resubs, inbound, subscriptions, tableVars, lockVars,
                 req, id, pc, result, acks, sent, histVars>>

----------------------------------------------------------------------------
(* What the thread of a call in progress does.                             *)
Continue(c) ==
  \/ CheckConnected(c) \/ Register(c)
  \/ SendOk(c) \/ SendError(c) \/ SendErrorErase(c) \/ SendErrorForget(c)
  \/ AwaitTimeout(c) \/ TimeoutErase(c) \/ AwaitResolved(c) \/ Rejected(c)

Connecting ==
  \/ ToConnected \/ ResubscribeAll \/ StartReceiving
  \/ \E t \in Topics : Resubscribe(t)

Receive ==
  \/ ToReconnecting \/ FailAllAcks
  \/ \E a \in acks, code \in {"ok", "rejected"} : RecvAck(a, code)
  \/ SendPuback \/ CallbackReturns

Environment ==
  \/ Open \/ OpenError \/ Lose \/ Disconnect
  \/ \E t \in Topics : RecvPublish(t) \/ RecvPublishQos1(t)

Next ==
  \/ \E c \in Calls : Begin(c) \/ Continue(c)
  \/ Connecting \/ Receive \/ Disconnected
  \/ Environment

(* Threads are scheduled, and get a mutex that is free time and again.     *)
Fairness ==
  /\ \A c \in Calls : SF_vars(Continue(c))
  /\ SF_vars(Connecting) /\ SF_vars(Receive) /\ SF_vars(Disconnected)

Spec     == Init /\ [][Next]_vars
FairSpec == Spec /\ Fairness

----------------------------------------------------------------------------
(* Properties.                                                             *)

Awaits(c) == pc[c] \in {"send", "sendFailed", "await", "timedOut"} /\ future[c] = "unset"

(* The two tables hold exactly the promises that are waited on, each under *)
(* the id and in the table of its call: an acknowledgement or a lost       *)
(* connection can wake every waiter, and no entry outlives its call.       *)
AcksMatchWaiters ==
  \A c \in Calls :
    /\ \A o \in Ops, i \in PacketIds :
         pendingAcks[o][i] = c => o = Op(c) /\ i = id[c] /\ Awaits(c)
    /\ Awaits(c) => pendingAcks[Op(c)][id[c]] = c

Undisturbed(t) ==
  t \notin contested /\ last[t] # NoCall /\ Op(last[t]) = "subscribe" /\ result[last[t]] = "Ok"

(* A subscription that subscribe() said is made stays in the table through *)
(* lost connections, until another call on its topic; and once the client  *)
(* is connected and receives, it has been sent on this very connection, by *)
(* subscribe() or by resubscribeAll(), however the two interleave.         *)
SubscriptionsHold ==
  \A t \in Topics : Undisturbed(t) =>
    /\ subscriptions[t] = last[t]
    /\ Receiving /\ state = "Connected" /\ transport = "open" => t \in sent

(* When unsubscribe() returns Ok on an UNSUBACK, the receive loop of the   *)
(* connection is not inside the callback that was stored for the topic,    *)
(* and will not call it again: what the callback refers to can go.         *)
UnsubscribedIsQuiet ==
  \A t \in Topics : t \notin contested /\ last[t] # NoCall =>
    LET c == last[t] IN
    Op(c) = "unsubscribe" /\ result[c] = "Ok" /\ future[c] = "ok" =>
      /\ subscriptions[t] = NoCall
      /\ running # NoCall => Topic(running) # t

(* A call that was begun returns: the wait for the acknowledgement has a   *)
(* timeout.                                                                *)
CallsReturn == \A c \in Calls : pc[c] # "idle" ~> pc[c] = "done"

=============================================================================

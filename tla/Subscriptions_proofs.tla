------------------------ MODULE Subscriptions_proofs ------------------------
(***************************************************************************)
(* What holds of Subscriptions for any number of calls, topics and packet  *)
(* ids, connections and messages.                                          *)
(***************************************************************************)
EXTENDS Subscriptions, TLAPS

(* A call has no future before it registers its promise, and no unresolved *)
(* one after it has erased it.                                             *)
FuturesFollow ==
  \A c \in Calls :
    /\ pc[c] \in {"idle", "check", "register"} => future[c] = "none"
    /\ pc[c] \in {"forget", "rejected", "done"} => future[c] # "unset"

(* A call has a result when it is done.                                    *)
ResultsFollow == \A c \in Calls : result[c] = "none" <=> pc[c] # "done"

(* The last call on a topic was begun, and one that is in progress is the  *)
(* last, unless two met.                                                   *)
LastFollows ==
  /\ \A t \in Topics : last[t] # NoCall => Topic(last[t]) = t /\ pc[last[t]] # "idle"
  /\ \A c \in Calls : InProgress(c) => last[Topic(c)] = c \/ Topic(c) \in contested

(* The table has for a topic what the last call on it says.                *)
TableFollows ==
  \A t \in Topics :
    /\ subscriptions[t] # NoCall => Topic(subscriptions[t]) = t
    /\ last[t] # NoCall /\ Op(last[t]) = "unsubscribe" => subscriptions[t] = NoCall
    /\ last[t] # NoCall /\ Op(last[t]) = "subscribe" /\ t \notin contested
         /\ (InProgress(last[t]) \/ result[last[t]] = "Ok") => subscriptions[t] = last[t]

(* What is left to be subscribed again, and the callback that runs, belong *)
(* to the place of the connecting and receiving thread.                    *)
LinkFollows ==
  /\ resubs # {} => link = "resubscribe"
  /\ running # NoCall => link = "callback"

(* On a connection whose resubscription has begun the topic was sent or is *)
(* about to be.                                                            *)
Covered(t) ==
  (link = "resubscribe" \/ Receiving) /\ transport = "open" /\ state = "Connected"
    => t \in sent \cup resubs

(* So is every topic whose last call is a subscribe() that has been sent   *)
(* or was not connected.                                                   *)
SentFollows ==
  \A t \in Topics :
    t \notin contested /\ last[t] # NoCall /\ Op(last[t]) = "subscribe"
      /\ (pc[last[t]] = "await" \/ result[last[t]] = "Ok") => Covered(t)

(* Once the UNSUBACK has been read the callback does not run, returned or  *)
(* not.                                                                    *)
QuietFollows ==
  \A t \in Topics :
    last[t] # NoCall /\ Op(last[t]) = "unsubscribe" /\ future[last[t]] = "ok"
      /\ running # NoCall => Topic(running) # t

----------------------------------------------------------------------------
(* The variables keep their types.                                         *)

(* The message that waits for its PUBACK is one.                           *)
InboundFollows == link = "puback" => inbound \in Topics

LEMMA InitTypeOK == Init => TypeOK /\ InboundFollows
<1> SUFFICES ASSUME Init PROVE TypeOK /\ InboundFollows
  OBVIOUS
<1> USE DEF Init
<1>1. 0 \in PacketIds /\ 1 \in PacketIds \ {0}
  BY IdSpaceAssumption DEF PacketIds
<1>2. req \in [Calls -> Request]
  BY RequestsAssumption
<1>3. pendingAcks \in [Ops -> [PacketIds -> Calls \cup {NoCall}]]
  OBVIOUS
<1>4. QED
  BY <1>1, <1>2, <1>3 DEF TypeOK, ConnectionState, Ack, InboundFollows

LEMMA NextInbound == TypeOK /\ InboundFollows /\ [Next]_vars => InboundFollows'
<1> SUFFICES ASSUME TypeOK, InboundFollows, [Next]_vars PROVE InboundFollows'
  OBVIOUS
<1> USE DEF InboundFollows, connVars, dispVars, LinkStep
<1>1. ASSUME NEW c \in Calls, Begin(c) PROVE InboundFollows'
  BY <1>1 DEF Begin
<1>2. ASSUME NEW c \in Calls, CheckConnected(c) PROVE InboundFollows'
  BY <1>2 DEF CheckConnected
<1>3. ASSUME NEW c \in Calls, Register(c) PROVE InboundFollows'
  BY <1>3 DEF Register
<1>4. ASSUME NEW c \in Calls, SendOk(c) PROVE InboundFollows'
  BY <1>4 DEF SendOk
<1>5. ASSUME NEW c \in Calls, SendError(c) PROVE InboundFollows'
  BY <1>5 DEF SendError
<1>6. ASSUME NEW c \in Calls, SendErrorErase(c) PROVE InboundFollows'
  BY <1>6 DEF SendErrorErase
<1>7. ASSUME NEW c \in Calls, SendErrorForget(c) PROVE InboundFollows'
  BY <1>7 DEF SendErrorForget
<1>8. ASSUME NEW c \in Calls, AwaitTimeout(c) PROVE InboundFollows'
  BY <1>8 DEF AwaitTimeout
<1>9. ASSUME NEW c \in Calls, TimeoutErase(c) PROVE InboundFollows'
  BY <1>9 DEF TimeoutErase
<1>10. ASSUME NEW c \in Calls, AwaitResolved(c) PROVE InboundFollows'
  BY <1>10 DEF AwaitResolved
<1>11. ASSUME NEW c \in Calls, Rejected(c) PROVE InboundFollows'
  BY <1>11 DEF Rejected
<1>12. ASSUME Open PROVE InboundFollows'
  BY <1>12 DEF Open
<1>13. ASSUME OpenError PROVE InboundFollows'
  BY <1>13 DEF OpenError
<1>14. ASSUME ToConnected PROVE InboundFollows'
  BY <1>14 DEF ToConnected
<1>15. ASSUME ResubscribeAll PROVE InboundFollows'
  BY <1>15 DEF ResubscribeAll
<1>16. ASSUME NEW t \in Topics, Resubscribe(t) PROVE InboundFollows'
  BY <1>16 DEF Resubscribe
<1>17. ASSUME StartReceiving PROVE InboundFollows'
  BY <1>17 DEF StartReceiving
<1>18. ASSUME Lose PROVE InboundFollows'
  BY <1>18 DEF Lose
<1>19. ASSUME ToReconnecting PROVE InboundFollows'
  BY <1>19 DEF ToReconnecting
<1>20. ASSUME FailAllAcks PROVE InboundFollows'
  BY <1>20 DEF FailAllAcks
<1>21. ASSUME Disconnect PROVE InboundFollows'
  BY <1>21 DEF Disconnect
<1>22. ASSUME Disconnected PROVE InboundFollows'
  BY <1>22 DEF Disconnected, Receiving
<1>23. ASSUME NEW a \in acks, NEW code \in {"ok", "rejected"}, RecvAck(a, code)
       PROVE  InboundFollows'
  BY <1>23 DEF RecvAck
<1>24. ASSUME NEW t \in Topics, RecvPublish(t) PROVE InboundFollows'
  BY <1>24 DEF RecvPublish, Dispatch
<1>25. ASSUME NEW t \in Topics, RecvPublishQos1(t) PROVE InboundFollows'
  BY <1>25 DEF RecvPublishQos1
<1>26. ASSUME SendPuback PROVE InboundFollows'
  BY <1>26 DEF SendPuback, Dispatch
<1>27. ASSUME CallbackReturns PROVE InboundFollows'
  BY <1>27 DEF CallbackReturns
<1>28. CASE UNCHANGED vars
  BY <1>28 DEF vars
<1> QED
  BY <1>1, <1>2, <1>3, <1>4, <1>5, <1>6, <1>7, <1>8, <1>9, <1>10, <1>11, <1>12, <1>13, <1>14,
     <1>15, <1>16, <1>17, <1>18, <1>19, <1>20, <1>21, <1>22, <1>23, <1>24, <1>25, <1>26, <1>27,
     <1>28
  DEF Next, Continue, Connecting, Receive, Environment

LEMMA ReturnType ==
  ASSUME TypeOK, NEW c \in Calls, NEW l,
         NEW r \in {"Ok", "SubscribeFailed", "UnsubscribeFailed", "exception"}, Return(c, l, r)
  PROVE  /\ pc' \in [Calls -> {"idle", "check", "register", "send", "sendFailed", "forget", "await",
                               "timedOut", "rejected", "done"}]
         /\ id' \in [Calls -> PacketIds]
         /\ result' \in [Calls -> {"none", "Ok", "SubscribeFailed", "UnsubscribeFailed",
                                   "exception"}]
<1>1. 0 \in PacketIds
  BY IdSpaceAssumption DEF PacketIds
<1>2. QED
  BY <1>1 DEF TypeOK, Return, Go, Goto

LEMMA NextIdType ==
  ASSUME nextPacketId \in PacketIds \ {0}
  PROVE  NextId \in PacketIds \ {0}
  BY IdSpaceAssumption DEF NextId, PacketIds

LEMMA EraseType ==
  ASSUME TypeOK, NEW o \in Ops, NEW i \in PacketIds, Erase(o, i)
  PROVE  /\ pendingAcks' \in [Ops -> [PacketIds -> Calls \cup {NoCall}]]
         /\ future' \in [Calls -> {"none", "unset", "ok", "rejected", "lost", "broken"}]
  BY DEF TypeOK, Erase, Break

LEMMA RequestType ==
  ASSUME TypeOK, NEW c \in Calls
  PROVE  Topic(c) \in Topics /\ Op(c) \in Ops
  BY DEF TypeOK, Request, Topic, Op

LEMMA HandlersType == ASSUME TypeOK, NEW t \in Topics PROVE Handlers(t) \subseteq Calls
<1>1. \A g \in Topics : subscriptions[g] # NoCall => subscriptions[g] \in Calls
  BY DEF TypeOK
<1>2. QED
  BY <1>1 DEF Handlers

LEMMA NextTypeOK == TypeOK /\ InboundFollows /\ [Next]_vars => TypeOK'
<1> SUFFICES ASSUME TypeOK, InboundFollows, [Next]_vars PROVE TypeOK'
  OBVIOUS
<1> USE RequestType DEF TypeOK, ConnectionState, connVars, dispVars, tableVars, lockVars,
   histVars, Goto,
        Go, Failure, LinkStep, Store
<1>1. ASSUME NEW c \in Calls, Begin(c) PROVE TypeOK'
  BY <1>1 DEF Begin, Topic
<1>2. ASSUME NEW c \in Calls, CheckConnected(c) PROVE TypeOK'
  <2>1. CASE state = "Connected"
    BY <1>2, <2>1 DEF CheckConnected
  <2>2. CASE ~(state = "Connected")
    <3>1. Return(c, "check", "Ok")
      BY <1>2, <2>2 DEF CheckConnected
    <3>2. QED
      BY <1>2, <2>2, <3>1, ReturnType DEF CheckConnected
  <2>3. QED
    BY <2>1, <2>2
<1>3. ASSUME NEW c \in Calls, Register(c) PROVE TypeOK'
  <2>1. /\ pendingAcks' = [pendingAcks EXCEPT ![Op(c)][nextPacketId] = c]
        /\ future' = [Break(Op(c), nextPacketId, future) EXCEPT ![c] = "unset"]
        /\ nextPacketId' = NextId /\ id' = [id EXCEPT ![c] = nextPacketId]
        /\ Op(c) \in Ops /\ nextPacketId \in PacketIds
    BY <1>3 DEF Register
  <2>2. /\ pendingAcks' \in [Ops -> [PacketIds -> Calls \cup {NoCall}]]
        /\ future' \in [Calls -> {"none", "unset", "ok", "rejected", "lost", "broken"}]
        /\ nextPacketId' \in PacketIds \ {0} /\ id' \in [Calls -> PacketIds]
    BY <2>1, NextIdType DEF Break
  <2>3. QED
    BY <1>3, <2>2 DEF Register
<1>4. ASSUME NEW c \in Calls, SendOk(c) PROVE TypeOK'
  BY <1>4 DEF SendOk, Deliver, Ack
<1>5. ASSUME NEW c \in Calls, SendError(c) PROVE TypeOK'
  BY <1>5 DEF SendError
<1>6. ASSUME NEW c \in Calls, SendErrorErase(c) PROVE TypeOK'
  <2>1. Erase(Op(c), id[c]) /\ Op(c) \in Ops /\ id[c] \in PacketIds
    BY <1>6 DEF SendErrorErase
  <2>2. CASE Op(c) = "subscribe"
    <3>1. /\ Go(c, "sendFailed", "forget") /\ ackMtx' = c
          /\ UNCHANGED <<id, result, sendMtx>>
      BY <1>6, <2>2 DEF SendErrorErase
    <3>2. QED
      BY <1>6, <2>1, <3>1, EraseType DEF SendErrorErase
  <2>3. CASE Op(c) # "subscribe"
    <3>1. Return(c, "sendFailed", "UnsubscribeFailed")
      BY <1>6, <2>3 DEF SendErrorErase
    <3>2. QED
      BY <1>6, <2>1, <2>3, <3>1, EraseType, ReturnType DEF SendErrorErase
  <2>4. QED
    BY <2>2, <2>3
<1>7. ASSUME NEW c \in Calls, SendErrorForget(c) PROVE TypeOK'
  BY <1>7, ReturnType DEF SendErrorForget
<1>8. ASSUME NEW c \in Calls, AwaitTimeout(c) PROVE TypeOK'
  BY <1>8 DEF AwaitTimeout
<1>9. ASSUME NEW c \in Calls, TimeoutErase(c) PROVE TypeOK'
  <2>1. Erase(Op(c), id[c]) /\ Op(c) \in Ops /\ id[c] \in PacketIds
    BY <1>9 DEF TimeoutErase
  <2>2. QED
    BY <1>9, <2>1, EraseType, ReturnType DEF TimeoutErase
<1>10. ASSUME NEW c \in Calls, AwaitResolved(c) PROVE TypeOK'
  <2>1. CASE future[c] = "rejected"
    BY <1>10, <2>1 DEF AwaitResolved
  <2>2. CASE ~(future[c] = "rejected")
    <3>1. Return(c, "await", IF future[c] = "ok" THEN "Ok" ELSE "exception")
      BY <1>10, <2>2 DEF AwaitResolved
    <3>2. QED
      BY <1>10, <2>2, <3>1, ReturnType DEF AwaitResolved
  <2>3. QED
    BY <2>1, <2>2
<1>11. ASSUME NEW c \in Calls, Rejected(c) PROVE TypeOK'
  BY <1>11, ReturnType DEF Rejected
<1>12. ASSUME Open PROVE TypeOK'
  BY <1>12 DEF Open
<1>13. ASSUME OpenError PROVE TypeOK'
  BY <1>13 DEF OpenError
<1>14. ASSUME ToConnected PROVE TypeOK'
  BY <1>14 DEF ToConnected
<1>15. ASSUME ResubscribeAll PROVE TypeOK'
  BY <1>15 DEF ResubscribeAll
<1>16. ASSUME NEW t \in Topics, Resubscribe(t) PROVE TypeOK'
  BY <1>16, NextIdType DEF Resubscribe, Deliver, Ack, Ops
<1>17. ASSUME StartReceiving PROVE TypeOK'
  BY <1>17 DEF StartReceiving
<1>18. ASSUME Lose PROVE TypeOK'
  BY <1>18 DEF Lose
<1>19. ASSUME ToReconnecting PROVE TypeOK'
  BY <1>19 DEF ToReconnecting
<1>20. ASSUME FailAllAcks PROVE TypeOK'
  BY <1>20 DEF FailAllAcks, Ops
<1>21. ASSUME Disconnect PROVE TypeOK'
  BY <1>21 DEF Disconnect
<1>22. ASSUME Disconnected PROVE TypeOK'
  BY <1>22 DEF Disconnected
<1>23. ASSUME NEW a \in acks, NEW code \in {"ok", "rejected"}, RecvAck(a, code) PROVE TypeOK'
  BY <1>23 DEF RecvAck, Ack
<1>24. ASSUME NEW t \in Topics, RecvPublish(t) PROVE TypeOK'
  BY <1>24, HandlersType DEF RecvPublish, Dispatch
<1>25. ASSUME NEW t \in Topics, RecvPublishQos1(t) PROVE TypeOK'
  BY <1>25 DEF RecvPublishQos1
<1>26. ASSUME SendPuback PROVE TypeOK'
  <2>1. inbound \in Topics
    BY <1>26 DEF SendPuback, InboundFollows
  <2>2. QED
    BY <1>26, <2>1, HandlersType DEF SendPuback, Dispatch
<1>27. ASSUME CallbackReturns PROVE TypeOK'
  BY <1>27 DEF CallbackReturns
<1>28. CASE UNCHANGED vars
  BY <1>28 DEF vars
<1> QED
  BY <1>1, <1>2, <1>3, <1>4, <1>5, <1>6, <1>7, <1>8, <1>9, <1>10, <1>11, <1>12, <1>13, <1>14,
     <1>15, <1>16, <1>17, <1>18, <1>19, <1>20, <1>21, <1>22, <1>23, <1>24, <1>25, <1>26, <1>27,
     <1>28
  DEF Next, Continue, Connecting, Receive, Environment
LEMMA TypeInvariant == Spec => [](TypeOK /\ InboundFollows)
<1>1. Init => TypeOK /\ InboundFollows
  BY InitTypeOK
<1>2. TypeOK /\ InboundFollows /\ [Next]_vars => TypeOK' /\ InboundFollows'
  BY NextTypeOK, NextInbound
<1>3. QED
  BY <1>1, <1>2, PTL DEF Spec

(* Every variable of the subscriptions keeps its type.                     *)
THEOREM TypeCorrect == Spec => []TypeOK
  BY TypeInvariant, PTL

----------------------------------------------------------------------------
(* The tables of promises.                                                 *)

LEMMA InitAcks == Init => FuturesFollow /\ AcksMatchWaiters
  BY CallsAssumption, RequestsAssumption DEF Init, FuturesFollow, AcksMatchWaiters, Awaits, Request

LEMMA NextFutures == TypeOK /\ FuturesFollow /\ AcksMatchWaiters /\ [Next]_vars => FuturesFollow'
<1> SUFFICES ASSUME TypeOK, FuturesFollow, AcksMatchWaiters, [Next]_vars PROVE FuturesFollow'
  OBVIOUS
<1> USE CallsAssumption, RequestType DEF TypeOK, FuturesFollow, connVars, dispVars, tableVars,
   lockVars, histVars,
        Goto, Go, Return, LinkStep
<1>1. ASSUME NEW c \in Calls, Begin(c) PROVE FuturesFollow'
  BY <1>1 DEF Begin
<1>2. ASSUME NEW c \in Calls, CheckConnected(c) PROVE FuturesFollow'
  BY <1>2 DEF CheckConnected
<1>3. ASSUME NEW c \in Calls, Register(c) PROVE FuturesFollow'
  <2>1. /\ pc' = [pc EXCEPT ![c] = "send"]
        /\ future' = [Break(Op(c), nextPacketId, future) EXCEPT ![c] = "unset"]
    BY <1>3 DEF Register
  <2>2. ASSUME NEW d \in Calls, pendingAcks[Op(c)][nextPacketId] = d PROVE Awaits(d)
    BY <2>2, RequestType DEF AcksMatchWaiters
  <2>3. QED
    BY <2>1, <2>2 DEF Break, Awaits
<1>4. ASSUME NEW c \in Calls, SendOk(c) PROVE FuturesFollow'
  BY <1>4 DEF SendOk
<1>5. ASSUME NEW c \in Calls, SendError(c) PROVE FuturesFollow'
  BY <1>5 DEF SendError
<1>6. ASSUME NEW c \in Calls, SendErrorErase(c) PROVE FuturesFollow'
  <2>1. /\ pc' = [pc EXCEPT ![c] = pc'[c]] /\ pc'[c] \in {"forget", "done"}
        /\ future' = Break(Op(c), id[c], future) /\ pc[c] = "sendFailed"
    BY <1>6 DEF SendErrorErase, Erase
  <2>2. ASSUME NEW d \in Calls, pendingAcks[Op(c)][id[c]] = d PROVE Awaits(d)
    BY <2>2, RequestType DEF AcksMatchWaiters
  <2>3. future[c] = "unset" => pendingAcks[Op(c)][id[c]] = c
    BY <2>1 DEF AcksMatchWaiters, Awaits
  <2>4. QED
    BY <2>1, <2>2, <2>3 DEF Break, Awaits
<1>7. ASSUME NEW c \in Calls, SendErrorForget(c) PROVE FuturesFollow'
  BY <1>7 DEF SendErrorForget
<1>8. ASSUME NEW c \in Calls, AwaitTimeout(c) PROVE FuturesFollow'
  BY <1>8 DEF AwaitTimeout
<1>9. ASSUME NEW c \in Calls, TimeoutErase(c) PROVE FuturesFollow'
  <2>1. /\ pc' = [pc EXCEPT ![c] = "done"]
        /\ future' = Break(Op(c), id[c], future) /\ pc[c] = "timedOut"
    BY <1>9 DEF TimeoutErase, Erase
  <2>2. ASSUME NEW d \in Calls, pendingAcks[Op(c)][id[c]] = d PROVE Awaits(d)
    BY <2>2, RequestType DEF AcksMatchWaiters
  <2>3. future[c] = "unset" => pendingAcks[Op(c)][id[c]] = c
    BY <2>1 DEF AcksMatchWaiters, Awaits
  <2>4. QED
    BY <2>1, <2>2, <2>3 DEF Break, Awaits
<1>10. ASSUME NEW c \in Calls, AwaitResolved(c) PROVE FuturesFollow'
  BY <1>10 DEF AwaitResolved
<1>11. ASSUME NEW c \in Calls, Rejected(c) PROVE FuturesFollow'
  BY <1>11 DEF Rejected
<1>12. ASSUME Open PROVE FuturesFollow'
  BY <1>12 DEF Open
<1>13. ASSUME OpenError PROVE FuturesFollow'
  BY <1>13 DEF OpenError
<1>14. ASSUME ToConnected PROVE FuturesFollow'
  BY <1>14 DEF ToConnected
<1>15. ASSUME ResubscribeAll PROVE FuturesFollow'
  BY <1>15 DEF ResubscribeAll
<1>16. ASSUME NEW t \in Topics, Resubscribe(t) PROVE FuturesFollow'
  BY <1>16 DEF Resubscribe
<1>17. ASSUME StartReceiving PROVE FuturesFollow'
  BY <1>17 DEF StartReceiving
<1>18. ASSUME Lose PROVE FuturesFollow'
  BY <1>18 DEF Lose
<1>19. ASSUME ToReconnecting PROVE FuturesFollow'
  BY <1>19 DEF ToReconnecting
<1>20. ASSUME FailAllAcks PROVE FuturesFollow'
  <2>1. ASSUME NEW d \in Calls, NEW o \in Ops, IsPending(o, d) PROVE Awaits(d)
    BY <2>1 DEF IsPending, AcksMatchWaiters
  <2>2. QED
    BY <1>20, <2>1 DEF FailAllAcks, Awaits, Ops
<1>21. ASSUME Disconnect PROVE FuturesFollow'
  BY <1>21 DEF Disconnect
<1>22. ASSUME Disconnected PROVE FuturesFollow'
  BY <1>22 DEF Disconnected
<1>23. ASSUME NEW a \in acks, NEW code \in {"ok", "rejected"}, RecvAck(a, code) PROVE FuturesFollow'
  <2>1. ASSUME NEW d \in Calls, pendingAcks[a.op][a.id] = d PROVE Awaits(d)
    BY <2>1 DEF AcksMatchWaiters, Ack
  <2>2. QED
    BY <1>23, <2>1 DEF RecvAck, Awaits
<1>24. ASSUME NEW t \in Topics, RecvPublish(t) PROVE FuturesFollow'
  BY <1>24 DEF RecvPublish
<1>25. ASSUME NEW t \in Topics, RecvPublishQos1(t) PROVE FuturesFollow'
  BY <1>25 DEF RecvPublishQos1
<1>26. ASSUME SendPuback PROVE FuturesFollow'
  BY <1>26 DEF SendPuback
<1>27. ASSUME CallbackReturns PROVE FuturesFollow'
  BY <1>27 DEF CallbackReturns
<1>28. CASE UNCHANGED vars
  BY <1>28 DEF vars
<1> QED
  BY <1>1, <1>2, <1>3, <1>4, <1>5, <1>6, <1>7, <1>8, <1>9, <1>10, <1>11, <1>12, <1>13, <1>14,
     <1>15, <1>16, <1>17, <1>18, <1>19, <1>20, <1>21, <1>22, <1>23, <1>24, <1>25, <1>26, <1>27,
     <1>28
  DEF Next, Continue, Connecting, Receive, Environment
LEMMA UnsetAwaits ==
  ASSUME TypeOK, FuturesFollow, NEW c \in Calls, future[c] = "unset"
  PROVE  Awaits(c)
  BY DEF TypeOK, FuturesFollow, Awaits

LEMMA NextAcks == TypeOK /\ FuturesFollow /\ AcksMatchWaiters /\ [Next]_vars => AcksMatchWaiters'
<1> SUFFICES ASSUME TypeOK, FuturesFollow, AcksMatchWaiters, [Next]_vars PROVE AcksMatchWaiters'
  OBVIOUS
<1> USE CallsAssumption, RequestType
    DEF TypeOK, AcksMatchWaiters, Awaits, Op, connVars, dispVars, tableVars, lockVars, histVars,
       Goto,
        Go, Return, LinkStep
<1>1. ASSUME NEW c \in Calls, Begin(c) PROVE AcksMatchWaiters'
  BY <1>1 DEF Begin
<1>2. ASSUME NEW c \in Calls, CheckConnected(c) PROVE AcksMatchWaiters'
  BY <1>2 DEF CheckConnected, FuturesFollow
<1>3. ASSUME NEW c \in Calls, Register(c) PROVE AcksMatchWaiters'
  <2>1. /\ pc' = [pc EXCEPT ![c] = "send"] /\ pc[c] = "register" /\ req' = req
        /\ pendingAcks' = [pendingAcks EXCEPT ![Op(c)][nextPacketId] = c]
        /\ future' = [Break(Op(c), nextPacketId, future) EXCEPT ![c] = "unset"]
        /\ id' = [id EXCEPT ![c] = nextPacketId]
    BY <1>3 DEF Register
  <2>2. Op(c) \in Ops /\ nextPacketId \in PacketIds /\ future[c] = "none"
    BY <2>1 DEF FuturesFollow
  <2>3. \A o \in Ops, i \in PacketIds : pendingAcks[o][i] # c
    BY <2>2
  <2>4. ASSUME NEW d \in Calls, NEW o \in Ops, NEW i \in PacketIds, pendingAcks'[o][i] = d
        PROVE  o = Op(d)' /\ i = id'[d] /\ Awaits(d)'
    <3>1. CASE d = c
      <4>1. o = Op(c) /\ i = nextPacketId
        BY <2>1, <2>2, <2>3, <2>4, <3>1
      <4>2. QED
        BY <2>1, <2>2, <3>1, <4>1 DEF Break
    <3>2. CASE d # c
      <4>1. pendingAcks[o][i] = d /\ ~(o = Op(c) /\ i = nextPacketId)
        BY <2>1, <2>2, <2>4, <3>2
      <4>2. o = Op(d) /\ i = id[d] /\ Awaits(d)
        BY <4>1
      <4>3. pendingAcks[Op(c)][nextPacketId] # d
        BY <2>2, <4>1, <4>2
      <4>4. QED
        BY <2>1, <3>2, <4>2, <4>3 DEF Break
    <3>3. QED
      BY <3>1, <3>2
  <2>5. ASSUME NEW d \in Calls, Awaits(d)' PROVE pendingAcks'[Op(d)'][id'[d]] = d
    <3>1. CASE d = c
      BY <2>1, <2>2, <3>1
    <3>2. CASE d # c
      <4>1. Awaits(d) /\ pendingAcks[Op(c)][nextPacketId] # d /\ id'[d] = id[d]
        BY <2>1, <2>5, <3>2 DEF Break
      <4>2. pendingAcks[Op(d)][id[d]] = d /\ Op(d) \in Ops /\ id[d] \in PacketIds
        BY <4>1
      <4>3. QED
        BY <2>1, <2>2, <4>1, <4>2
    <3>3. QED
      BY <3>1, <3>2
  <2>6. QED
    BY <2>4, <2>5
<1>4. ASSUME NEW c \in Calls, SendOk(c) PROVE AcksMatchWaiters'
  BY <1>4 DEF SendOk
<1>5. ASSUME NEW c \in Calls, SendError(c) PROVE AcksMatchWaiters'
  BY <1>5 DEF SendError
<1>6. ASSUME NEW c \in Calls, SendErrorErase(c) PROVE AcksMatchWaiters'
  <2>1. /\ pc' = [pc EXCEPT ![c] = pc'[c]] /\ pc'[c] \in {"forget", "done"} /\ pc[c] = "sendFailed"
        /\ pendingAcks' = [pendingAcks EXCEPT ![Op(c)][id[c]] = NoCall]
        /\ future' = Break(Op(c), id[c], future) /\ req' = req
        /\ \A d \in Calls \ {c} : id'[d] = id[d]
    BY <1>6 DEF SendErrorErase, Erase
  <2>2. Op(c) \in Ops /\ id[c] \in PacketIds
    OBVIOUS
  <2>3. ASSUME NEW d \in Calls, NEW o \in Ops, NEW i \in PacketIds, pendingAcks'[o][i] = d
        PROVE  o = Op(d)' /\ i = id'[d] /\ Awaits(d)'
    <3>1. pendingAcks[o][i] = d /\ ~(o = Op(c) /\ i = id[c])
      BY <2>1, <2>2, <2>3
    <3>2. o = Op(d) /\ i = id[d] /\ Awaits(d) /\ d # c
      BY <3>1
    <3>3. pendingAcks[Op(c)][id[c]] # d
      BY <2>2, <3>1, <3>2
    <3>4. QED
      BY <2>1, <3>2, <3>3 DEF Break
  <2>4. ASSUME NEW d \in Calls, Awaits(d)' PROVE pendingAcks'[Op(d)'][id'[d]] = d
    <3>1. d # c /\ pc'[d] = pc[d] /\ id'[d] = id[d]
      BY <2>1, <2>4
    <3>2. Awaits(d) /\ pendingAcks[Op(c)][id[c]] # d
      BY <2>1, <2>4, <3>1 DEF Break
    <3>3. pendingAcks[Op(d)][id[d]] = d /\ Op(d) \in Ops /\ id[d] \in PacketIds
      BY <3>2
    <3>4. QED
      BY <2>1, <2>2, <3>1, <3>2, <3>3
  <2>5. QED
    BY <2>3, <2>4
<1>7. ASSUME NEW c \in Calls, SendErrorForget(c) PROVE AcksMatchWaiters'
  BY <1>7 DEF SendErrorForget, FuturesFollow
<1>8. ASSUME NEW c \in Calls, AwaitTimeout(c) PROVE AcksMatchWaiters'
  BY <1>8 DEF AwaitTimeout
<1>9. ASSUME NEW c \in Calls, TimeoutErase(c) PROVE AcksMatchWaiters'
  <2>1. /\ pc' = [pc EXCEPT ![c] = pc'[c]] /\ pc'[c] \in {"done"} /\ pc[c] = "timedOut"
        /\ pendingAcks' = [pendingAcks EXCEPT ![Op(c)][id[c]] = NoCall]
        /\ future' = Break(Op(c), id[c], future) /\ req' = req
        /\ \A d \in Calls \ {c} : id'[d] = id[d]
    BY <1>9 DEF TimeoutErase, Erase
  <2>2. Op(c) \in Ops /\ id[c] \in PacketIds
    OBVIOUS
  <2>3. ASSUME NEW d \in Calls, NEW o \in Ops, NEW i \in PacketIds, pendingAcks'[o][i] = d
        PROVE  o = Op(d)' /\ i = id'[d] /\ Awaits(d)'
    <3>1. pendingAcks[o][i] = d /\ ~(o = Op(c) /\ i = id[c])
      BY <2>1, <2>2, <2>3
    <3>2. o = Op(d) /\ i = id[d] /\ Awaits(d) /\ d # c
      BY <3>1
    <3>3. pendingAcks[Op(c)][id[c]] # d
      BY <2>2, <3>1, <3>2
    <3>4. QED
      BY <2>1, <3>2, <3>3 DEF Break
  <2>4. ASSUME NEW d \in Calls, Awaits(d)' PROVE pendingAcks'[Op(d)'][id'[d]] = d
    <3>1. d # c /\ pc'[d] = pc[d] /\ id'[d] = id[d]
      BY <2>1, <2>4
    <3>2. Awaits(d) /\ pendingAcks[Op(c)][id[c]] # d
      BY <2>1, <2>4, <3>1 DEF Break
    <3>3. pendingAcks[Op(d)][id[d]] = d /\ Op(d) \in Ops /\ id[d] \in PacketIds
      BY <3>2
    <3>4. QED
      BY <2>1, <2>2, <3>1, <3>2, <3>3
  <2>5. QED
    BY <2>3, <2>4
<1>10. ASSUME NEW c \in Calls, AwaitResolved(c) PROVE AcksMatchWaiters'
  BY <1>10 DEF AwaitResolved
<1>11. ASSUME NEW c \in Calls, Rejected(c) PROVE AcksMatchWaiters'
  BY <1>11 DEF Rejected, FuturesFollow
<1>12. ASSUME Open PROVE AcksMatchWaiters'
  BY <1>12 DEF Open
<1>13. ASSUME OpenError PROVE AcksMatchWaiters'
  BY <1>13 DEF OpenError
<1>14. ASSUME ToConnected PROVE AcksMatchWaiters'
  BY <1>14 DEF ToConnected
<1>15. ASSUME ResubscribeAll PROVE AcksMatchWaiters'
  BY <1>15 DEF ResubscribeAll
<1>16. ASSUME NEW t \in Topics, Resubscribe(t) PROVE AcksMatchWaiters'
  BY <1>16 DEF Resubscribe
<1>17. ASSUME StartReceiving PROVE AcksMatchWaiters'
  BY <1>17 DEF StartReceiving
<1>18. ASSUME Lose PROVE AcksMatchWaiters'
  BY <1>18 DEF Lose
<1>19. ASSUME ToReconnecting PROVE AcksMatchWaiters'
  BY <1>19 DEF ToReconnecting
<1>20. ASSUME FailAllAcks PROVE AcksMatchWaiters'
  <2>1. \A d \in Calls : future'[d] # "unset"
    <3>1. ASSUME NEW d \in Calls, future[d] = "unset", Awaits(d)
          PROVE  \E o \in Ops : IsPending(o, d)
      BY <3>1 DEF IsPending
    <3>2. ASSUME NEW d \in Calls, future'[d] = "unset" PROVE FALSE
      <4>1. future[d] = "unset" /\ \A o \in Ops : ~IsPending(o, d)
        BY <1>20, <3>2 DEF FailAllAcks, Ops
      <4>2. Awaits(d)
        BY <4>1, UnsetAwaits
      <4>3. QED
        BY <3>1, <4>1, <4>2
    <3>3. QED
      BY <3>2
  <2>2. QED
    BY <1>20, <2>1 DEF FailAllAcks
<1>21. ASSUME Disconnect PROVE AcksMatchWaiters'
  BY <1>21 DEF Disconnect
<1>22. ASSUME Disconnected PROVE AcksMatchWaiters'
  BY <1>22 DEF Disconnected
<1>23. ASSUME NEW a \in acks, NEW code \in {"ok", "rejected"}, RecvAck(a, code)
       PROVE  AcksMatchWaiters'
  <2>1. a.op \in Ops /\ a.id \in PacketIds /\ code # "unset"
    BY DEF Ack
  <2>2. /\ future' = [d \in Calls |-> IF pendingAcks[a.op][a.id] = d THEN code ELSE future[d]]
        /\ pendingAcks' = [pendingAcks EXCEPT ![a.op][a.id] = NoCall]
        /\ UNCHANGED <<pc, id, req>>
    BY <1>23 DEF RecvAck
  <2>3. ASSUME NEW d \in Calls, NEW o \in Ops, NEW i \in PacketIds, pendingAcks'[o][i] = d
        PROVE  o = Op(d)' /\ i = id'[d] /\ Awaits(d)'
    <3>1. pendingAcks[o][i] = d /\ ~(o = a.op /\ i = a.id)
      BY <2>1, <2>2, <2>3
    <3>2. o = Op(d) /\ i = id[d] /\ Awaits(d)
      BY <3>1
    <3>3. pendingAcks[a.op][a.id] # d
      BY <2>1, <3>1, <3>2
    <3>4. QED
      BY <2>2, <3>2, <3>3
  <2>4. ASSUME NEW d \in Calls, Awaits(d)' PROVE pendingAcks'[Op(d)'][id'[d]] = d
    <3>1. Awaits(d) /\ pendingAcks[a.op][a.id] # d
      BY <2>1, <2>2, <2>4
    <3>2. pendingAcks[Op(d)][id[d]] = d /\ Op(d) \in Ops /\ id[d] \in PacketIds
      BY <3>1
    <3>3. QED
      BY <2>1, <2>2, <3>1, <3>2
  <2>5. QED
    BY <2>3, <2>4
<1>24. ASSUME NEW t \in Topics, RecvPublish(t) PROVE AcksMatchWaiters'
  BY <1>24 DEF RecvPublish
<1>25. ASSUME NEW t \in Topics, RecvPublishQos1(t) PROVE AcksMatchWaiters'
  BY <1>25 DEF RecvPublishQos1
<1>26. ASSUME SendPuback PROVE AcksMatchWaiters'
  BY <1>26 DEF SendPuback
<1>27. ASSUME CallbackReturns PROVE AcksMatchWaiters'
  BY <1>27 DEF CallbackReturns
<1>28. CASE UNCHANGED vars
  BY <1>28 DEF vars
<1> QED
  BY <1>1, <1>2, <1>3, <1>4, <1>5, <1>6, <1>7, <1>8, <1>9, <1>10, <1>11, <1>12, <1>13, <1>14,
     <1>15, <1>16, <1>17, <1>18, <1>19, <1>20, <1>21, <1>22, <1>23, <1>24, <1>25, <1>26, <1>27,
     <1>28
  DEF Next, Continue, Connecting, Receive, Environment
LEMMA AcksInvariant == Spec => [](FuturesFollow /\ AcksMatchWaiters)
<1>1. Init => FuturesFollow /\ AcksMatchWaiters
  BY InitAcks
<1>2. TypeOK /\ FuturesFollow /\ AcksMatchWaiters /\ [Next]_vars
        => FuturesFollow' /\ AcksMatchWaiters'
  BY NextFutures, NextAcks
<1>3. QED
  BY <1>1, <1>2, TypeCorrect, PTL DEF Spec

(* The tables of promises hold exactly what is waited for.                 *)
THEOREM AcksCorrect == Spec => []AcksMatchWaiters
  BY AcksInvariant, PTL

----------------------------------------------------------------------------
(* The table of subscriptions.                                             *)

LEMMA InitTable == Init => ResultsFollow /\ LastFollows /\ TableFollows
  BY CallsAssumption DEF Init, ResultsFollow, LastFollows, TableFollows, InProgress

LEMMA NextResults == TypeOK /\ ResultsFollow /\ [Next]_vars => ResultsFollow'
<1> SUFFICES ASSUME TypeOK, ResultsFollow, [Next]_vars PROVE ResultsFollow'
  OBVIOUS
<1> USE DEF TypeOK, ResultsFollow, connVars, dispVars, tableVars, lockVars, histVars, Goto, Go,
   Return,
        Failure, LinkStep
<1>1. ASSUME NEW c \in Calls, Begin(c) PROVE ResultsFollow'
  BY <1>1 DEF Begin
<1>2. ASSUME NEW c \in Calls, CheckConnected(c) PROVE ResultsFollow'
  BY <1>2 DEF CheckConnected
<1>3. ASSUME NEW c \in Calls, Register(c) PROVE ResultsFollow'
  BY <1>3 DEF Register
<1>4. ASSUME NEW c \in Calls, SendOk(c) PROVE ResultsFollow'
  BY <1>4 DEF SendOk
<1>5. ASSUME NEW c \in Calls, SendError(c) PROVE ResultsFollow'
  BY <1>5 DEF SendError
<1>6. ASSUME NEW c \in Calls, SendErrorErase(c) PROVE ResultsFollow'
  BY <1>6 DEF SendErrorErase
<1>7. ASSUME NEW c \in Calls, SendErrorForget(c) PROVE ResultsFollow'
  BY <1>7 DEF SendErrorForget
<1>8. ASSUME NEW c \in Calls, AwaitTimeout(c) PROVE ResultsFollow'
  BY <1>8 DEF AwaitTimeout
<1>9. ASSUME NEW c \in Calls, TimeoutErase(c) PROVE ResultsFollow'
  BY <1>9 DEF TimeoutErase
<1>10. ASSUME NEW c \in Calls, AwaitResolved(c) PROVE ResultsFollow'
  BY <1>10 DEF AwaitResolved
<1>11. ASSUME NEW c \in Calls, Rejected(c) PROVE ResultsFollow'
  BY <1>11 DEF Rejected
<1>12. ASSUME Open PROVE ResultsFollow'
  BY <1>12 DEF Open
<1>13. ASSUME OpenError PROVE ResultsFollow'
  BY <1>13 DEF OpenError
<1>14. ASSUME ToConnected PROVE ResultsFollow'
  BY <1>14 DEF ToConnected
<1>15. ASSUME ResubscribeAll PROVE ResultsFollow'
  BY <1>15 DEF ResubscribeAll
<1>16. ASSUME NEW t \in Topics, Resubscribe(t) PROVE ResultsFollow'
  BY <1>16 DEF Resubscribe
<1>17. ASSUME StartReceiving PROVE ResultsFollow'
  BY <1>17 DEF StartReceiving
<1>18. ASSUME Lose PROVE ResultsFollow'
  BY <1>18 DEF Lose
<1>19. ASSUME ToReconnecting PROVE ResultsFollow'
  BY <1>19 DEF ToReconnecting
<1>20. ASSUME FailAllAcks PROVE ResultsFollow'
  BY <1>20 DEF FailAllAcks
<1>21. ASSUME Disconnect PROVE ResultsFollow'
  BY <1>21 DEF Disconnect
<1>22. ASSUME Disconnected PROVE ResultsFollow'
  BY <1>22 DEF Disconnected
<1>23. ASSUME NEW a \in acks, NEW code \in {"ok", "rejected"}, RecvAck(a, code) PROVE ResultsFollow'
  BY <1>23 DEF RecvAck
<1>24. ASSUME NEW t \in Topics, RecvPublish(t) PROVE ResultsFollow'
  BY <1>24 DEF RecvPublish
<1>25. ASSUME NEW t \in Topics, RecvPublishQos1(t) PROVE ResultsFollow'
  BY <1>25 DEF RecvPublishQos1
<1>26. ASSUME SendPuback PROVE ResultsFollow'
  BY <1>26 DEF SendPuback
<1>27. ASSUME CallbackReturns PROVE ResultsFollow'
  BY <1>27 DEF CallbackReturns
<1>28. CASE UNCHANGED vars
  BY <1>28 DEF vars
<1> QED
  BY <1>1, <1>2, <1>3, <1>4, <1>5, <1>6, <1>7, <1>8, <1>9, <1>10, <1>11, <1>12, <1>13, <1>14,
     <1>15, <1>16, <1>17, <1>18, <1>19, <1>20, <1>21, <1>22, <1>23, <1>24, <1>25, <1>26, <1>27,
     <1>28
  DEF Next, Continue, Connecting, Receive, Environment

LEMMA NextLast == TypeOK /\ LastFollows /\ [Next]_vars => LastFollows'
<1> SUFFICES ASSUME TypeOK, LastFollows, [Next]_vars PROVE LastFollows'
  OBVIOUS
<1> USE CallsAssumption, RequestType
    DEF TypeOK, LastFollows, InProgress, Topic, connVars, dispVars, tableVars, lockVars, histVars,
       Goto, Go,
        Return, LinkStep
<1>1. ASSUME NEW c \in Calls, Begin(c) PROVE LastFollows'
  BY <1>1 DEF Begin
<1>2. ASSUME NEW c \in Calls, CheckConnected(c) PROVE LastFollows'
  BY <1>2 DEF CheckConnected
<1>3. ASSUME NEW c \in Calls, Register(c) PROVE LastFollows'
  BY <1>3 DEF Register
<1>4. ASSUME NEW c \in Calls, SendOk(c) PROVE LastFollows'
  BY <1>4 DEF SendOk
<1>5. ASSUME NEW c \in Calls, SendError(c) PROVE LastFollows'
  BY <1>5 DEF SendError
<1>6. ASSUME NEW c \in Calls, SendErrorErase(c) PROVE LastFollows'
  BY <1>6 DEF SendErrorErase
<1>7. ASSUME NEW c \in Calls, SendErrorForget(c) PROVE LastFollows'
  BY <1>7 DEF SendErrorForget
<1>8. ASSUME NEW c \in Calls, AwaitTimeout(c) PROVE LastFollows'
  BY <1>8 DEF AwaitTimeout
<1>9. ASSUME NEW c \in Calls, TimeoutErase(c) PROVE LastFollows'
  BY <1>9 DEF TimeoutErase
<1>10. ASSUME NEW c \in Calls, AwaitResolved(c) PROVE LastFollows'
  BY <1>10 DEF AwaitResolved
<1>11. ASSUME NEW c \in Calls, Rejected(c) PROVE LastFollows'
  BY <1>11 DEF Rejected
<1>12. ASSUME Open PROVE LastFollows'
  BY <1>12 DEF Open
<1>13. ASSUME OpenError PROVE LastFollows'
  BY <1>13 DEF OpenError
<1>14. ASSUME ToConnected PROVE LastFollows'
  BY <1>14 DEF ToConnected
<1>15. ASSUME ResubscribeAll PROVE LastFollows'
  BY <1>15 DEF ResubscribeAll
<1>16. ASSUME NEW t \in Topics, Resubscribe(t) PROVE LastFollows'
  BY <1>16 DEF Resubscribe
<1>17. ASSUME StartReceiving PROVE LastFollows'
  BY <1>17 DEF StartReceiving
<1>18. ASSUME Lose PROVE LastFollows'
  BY <1>18 DEF Lose
<1>19. ASSUME ToReconnecting PROVE LastFollows'
  BY <1>19 DEF ToReconnecting
<1>20. ASSUME FailAllAcks PROVE LastFollows'
  BY <1>20 DEF FailAllAcks
<1>21. ASSUME Disconnect PROVE LastFollows'
  BY <1>21 DEF Disconnect
<1>22. ASSUME Disconnected PROVE LastFollows'
  BY <1>22 DEF Disconnected
<1>23. ASSUME NEW a \in acks, NEW code \in {"ok", "rejected"}, RecvAck(a, code) PROVE LastFollows'
  BY <1>23 DEF RecvAck
<1>24. ASSUME NEW t \in Topics, RecvPublish(t) PROVE LastFollows'
  BY <1>24 DEF RecvPublish
<1>25. ASSUME NEW t \in Topics, RecvPublishQos1(t) PROVE LastFollows'
  BY <1>25 DEF RecvPublishQos1
<1>26. ASSUME SendPuback PROVE LastFollows'
  BY <1>26 DEF SendPuback
<1>27. ASSUME CallbackReturns PROVE LastFollows'
  BY <1>27 DEF CallbackReturns
<1>28. CASE UNCHANGED vars
  BY <1>28 DEF vars
<1> QED
  BY <1>1, <1>2, <1>3, <1>4, <1>5, <1>6, <1>7, <1>8, <1>9, <1>10, <1>11, <1>12, <1>13, <1>14,
     <1>15, <1>16, <1>17, <1>18, <1>19, <1>20, <1>21, <1>22, <1>23, <1>24, <1>25, <1>26, <1>27,
     <1>28
  DEF Next, Continue, Connecting, Receive, Environment

LEMMA NextTable ==
  TypeOK /\ ResultsFollow /\ LastFollows /\ TableFollows /\ [Next]_vars => TableFollows'
<1> SUFFICES ASSUME TypeOK, ResultsFollow, LastFollows, TableFollows, [Next]_vars
             PROVE  TableFollows'
  OBVIOUS
<1> USE CallsAssumption, RequestType
    DEF TypeOK, TableFollows, InProgress, Topic, Op, connVars, dispVars, tableVars, lockVars,
       histVars,
        Goto, Go, Return, LinkStep, Failure
<1>1. ASSUME NEW c \in Calls, Begin(c) PROVE TableFollows'
  <2>1. /\ subscriptions' = [subscriptions EXCEPT ![Topic(c)] =
                                IF Op(c) = "subscribe" THEN c ELSE NoCall]
        /\ last' = [last EXCEPT ![Topic(c)] = c]
        /\ pc' = [pc EXCEPT ![c] = "check"] /\ contested \subseteq contested'
        /\ UNCHANGED <<result, req>>
    BY <1>1 DEF Begin, Store
  <2>2. pc[c] = "idle" /\ \A t \in Topics : last[t] # c
    BY <1>1 DEF Begin, LastFollows
  <2>3. Op(c) = "unsubscribe" \/ Op(c) = "subscribe"
    BY RequestType DEF Ops
  <2>4. QED
    BY <2>1, <2>2, <2>3
<1>2. ASSUME NEW c \in Calls, CheckConnected(c) PROVE TableFollows'
  <2>1. /\ pc' = [pc EXCEPT ![c] = pc'[c]] /\ pc[c] = "check"
        /\ \A d \in Calls : d # c => result'[d] = result[d]
        /\ UNCHANGED <<subscriptions, last, contested, req>>
    BY <1>2 DEF CheckConnected
  <2>2. QED
    BY <2>1
<1>3. ASSUME NEW c \in Calls, Register(c) PROVE TableFollows'
  BY <1>3 DEF Register
<1>4. ASSUME NEW c \in Calls, SendOk(c) PROVE TableFollows'
  BY <1>4 DEF SendOk
<1>5. ASSUME NEW c \in Calls, SendError(c) PROVE TableFollows'
  BY <1>5 DEF SendError
<1>6. ASSUME NEW c \in Calls, SendErrorErase(c) PROVE TableFollows'
  BY <1>6 DEF SendErrorErase
<1>7. ASSUME NEW c \in Calls, SendErrorForget(c) PROVE TableFollows'
  <2>1. /\ subscriptions' = [subscriptions EXCEPT ![Topic(c)] = NoCall]
        /\ pc' = [pc EXCEPT ![c] = "done"] /\ pc[c] \in {"forget", "rejected"}
        /\ result' = [result EXCEPT ![c] = Failure(c)]
        /\ UNCHANGED <<last, contested, req>>
    BY <1>7 DEF SendErrorForget, Store
  <2>2. last[Topic(c)] = c \/ Topic(c) \in contested
    BY <2>1 DEF LastFollows
  <2>3. Topic(c) \in Topics
    BY RequestType
  <2>4. QED
    BY <2>1, <2>2, <2>3 DEF LastFollows
<1>8. ASSUME NEW c \in Calls, AwaitTimeout(c) PROVE TableFollows'
  BY <1>8 DEF AwaitTimeout
<1>9. ASSUME NEW c \in Calls, TimeoutErase(c) PROVE TableFollows'
  BY <1>9 DEF TimeoutErase
<1>10. ASSUME NEW c \in Calls, AwaitResolved(c) PROVE TableFollows'
  <2>1. /\ pc' = [pc EXCEPT ![c] = pc'[c]] /\ pc[c] = "await"
        /\ \A d \in Calls : d # c => result'[d] = result[d]
        /\ UNCHANGED <<subscriptions, last, contested, req>>
    BY <1>10 DEF AwaitResolved
  <2>2. QED
    BY <2>1
<1>11. ASSUME NEW c \in Calls, Rejected(c) PROVE TableFollows'
  <2>1. /\ subscriptions' = [subscriptions EXCEPT ![Topic(c)] = NoCall]
        /\ pc' = [pc EXCEPT ![c] = "done"] /\ pc[c] \in {"forget", "rejected"}
        /\ result' = [result EXCEPT ![c] = Failure(c)]
        /\ UNCHANGED <<last, contested, req>>
    BY <1>11 DEF Rejected, Store
  <2>2. last[Topic(c)] = c \/ Topic(c) \in contested
    BY <2>1 DEF LastFollows
  <2>3. Topic(c) \in Topics
    BY RequestType
  <2>4. QED
    BY <2>1, <2>2, <2>3 DEF LastFollows
<1>12. ASSUME Open PROVE TableFollows'
  BY <1>12 DEF Open
<1>13. ASSUME OpenError PROVE TableFollows'
  BY <1>13 DEF OpenError
<1>14. ASSUME ToConnected PROVE TableFollows'
  BY <1>14 DEF ToConnected
<1>15. ASSUME ResubscribeAll PROVE TableFollows'
  BY <1>15 DEF ResubscribeAll
<1>16. ASSUME NEW t \in Topics, Resubscribe(t) PROVE TableFollows'
  BY <1>16 DEF Resubscribe
<1>17. ASSUME StartReceiving PROVE TableFollows'
  BY <1>17 DEF StartReceiving
<1>18. ASSUME Lose PROVE TableFollows'
  BY <1>18 DEF Lose
<1>19. ASSUME ToReconnecting PROVE TableFollows'
  BY <1>19 DEF ToReconnecting
<1>20. ASSUME FailAllAcks PROVE TableFollows'
  BY <1>20 DEF FailAllAcks
<1>21. ASSUME Disconnect PROVE TableFollows'
  BY <1>21 DEF Disconnect
<1>22. ASSUME Disconnected PROVE TableFollows'
  BY <1>22 DEF Disconnected
<1>23. ASSUME NEW a \in acks, NEW code \in {"ok", "rejected"}, RecvAck(a, code) PROVE TableFollows'
  BY <1>23 DEF RecvAck
<1>24. ASSUME NEW t \in Topics, RecvPublish(t) PROVE TableFollows'
  BY <1>24 DEF RecvPublish
<1>25. ASSUME NEW t \in Topics, RecvPublishQos1(t) PROVE TableFollows'
  BY <1>25 DEF RecvPublishQos1
<1>26. ASSUME SendPuback PROVE TableFollows'
  BY <1>26 DEF SendPuback
<1>27. ASSUME CallbackReturns PROVE TableFollows'
  BY <1>27 DEF CallbackReturns
<1>28. CASE UNCHANGED vars
  BY <1>28 DEF vars
<1> QED
  BY <1>1, <1>2, <1>3, <1>4, <1>5, <1>6, <1>7, <1>8, <1>9, <1>10, <1>11, <1>12, <1>13, <1>14,
     <1>15, <1>16, <1>17, <1>18, <1>19, <1>20, <1>21, <1>22, <1>23, <1>24, <1>25, <1>26, <1>27,
     <1>28
  DEF Next, Continue, Connecting, Receive, Environment
----------------------------------------------------------------------------
(* The connecting and receiving thread.                                    *)

LEMMA InitLink == Init => LinkFollows /\ SentFollows /\ QuietFollows
  BY DEF Init, LinkFollows, SentFollows, QuietFollows

LEMMA NextLink == TypeOK /\ LinkFollows /\ [Next]_vars => LinkFollows'
<1> SUFFICES ASSUME TypeOK, LinkFollows, [Next]_vars PROVE LinkFollows'
  OBVIOUS
<1> USE DEF TypeOK, LinkFollows, connVars, dispVars, LinkStep
<1>1. ASSUME NEW c \in Calls, Begin(c) PROVE LinkFollows'
  BY <1>1 DEF Begin
<1>2. ASSUME NEW c \in Calls, CheckConnected(c) PROVE LinkFollows'
  BY <1>2 DEF CheckConnected
<1>3. ASSUME NEW c \in Calls, Register(c) PROVE LinkFollows'
  BY <1>3 DEF Register
<1>4. ASSUME NEW c \in Calls, SendOk(c) PROVE LinkFollows'
  BY <1>4 DEF SendOk
<1>5. ASSUME NEW c \in Calls, SendError(c) PROVE LinkFollows'
  BY <1>5 DEF SendError
<1>6. ASSUME NEW c \in Calls, SendErrorErase(c) PROVE LinkFollows'
  BY <1>6 DEF SendErrorErase
<1>7. ASSUME NEW c \in Calls, SendErrorForget(c) PROVE LinkFollows'
  BY <1>7 DEF SendErrorForget
<1>8. ASSUME NEW c \in Calls, AwaitTimeout(c) PROVE LinkFollows'
  BY <1>8 DEF AwaitTimeout
<1>9. ASSUME NEW c \in Calls, TimeoutErase(c) PROVE LinkFollows'
  BY <1>9 DEF TimeoutErase
<1>10. ASSUME NEW c \in Calls, AwaitResolved(c) PROVE LinkFollows'
  BY <1>10 DEF AwaitResolved
<1>11. ASSUME NEW c \in Calls, Rejected(c) PROVE LinkFollows'
  BY <1>11 DEF Rejected
<1>12. ASSUME Open PROVE LinkFollows'
  BY <1>12 DEF Open
<1>13. ASSUME OpenError PROVE LinkFollows'
  BY <1>13 DEF OpenError
<1>14. ASSUME ToConnected PROVE LinkFollows'
  BY <1>14 DEF ToConnected
<1>15. ASSUME ResubscribeAll PROVE LinkFollows'
  BY <1>15 DEF ResubscribeAll
<1>16. ASSUME NEW t \in Topics, Resubscribe(t) PROVE LinkFollows'
  BY <1>16 DEF Resubscribe
<1>17. ASSUME StartReceiving PROVE LinkFollows'
  BY <1>17 DEF StartReceiving
<1>18. ASSUME Lose PROVE LinkFollows'
  BY <1>18 DEF Lose
<1>19. ASSUME ToReconnecting PROVE LinkFollows'
  BY <1>19 DEF ToReconnecting
<1>20. ASSUME FailAllAcks PROVE LinkFollows'
  BY <1>20 DEF FailAllAcks
<1>21. ASSUME Disconnect PROVE LinkFollows'
  BY <1>21 DEF Disconnect
<1>22. ASSUME Disconnected PROVE LinkFollows'
  BY <1>22 DEF Disconnected, Receiving
<1>23. ASSUME NEW a \in acks, NEW code \in {"ok", "rejected"}, RecvAck(a, code) PROVE LinkFollows'
  BY <1>23 DEF RecvAck
<1>24. ASSUME NEW t \in Topics, RecvPublish(t) PROVE LinkFollows'
  BY <1>24 DEF RecvPublish, Dispatch
<1>25. ASSUME NEW t \in Topics, RecvPublishQos1(t) PROVE LinkFollows'
  BY <1>25 DEF RecvPublishQos1
<1>26. ASSUME SendPuback PROVE LinkFollows'
  BY <1>26 DEF SendPuback, Dispatch
<1>27. ASSUME CallbackReturns PROVE LinkFollows'
  BY <1>27 DEF CallbackReturns
<1>28. CASE UNCHANGED vars
  BY <1>28 DEF vars
<1> QED
  BY <1>1, <1>2, <1>3, <1>4, <1>5, <1>6, <1>7, <1>8, <1>9, <1>10, <1>11, <1>12, <1>13, <1>14,
     <1>15, <1>16, <1>17, <1>18, <1>19, <1>20, <1>21, <1>22, <1>23, <1>24, <1>25, <1>26, <1>27,
     <1>28
  DEF Next, Continue, Connecting, Receive, Environment

LEMMA NextSent ==
  TypeOK /\ ResultsFollow /\ LastFollows /\ TableFollows /\ LinkFollows /\ SentFollows /\ [Next]_vars
    => SentFollows'
<1> SUFFICES ASSUME TypeOK, ResultsFollow, LastFollows, TableFollows, LinkFollows, SentFollows,
                    [Next]_vars
             PROVE  SentFollows'
  OBVIOUS
<1> USE CallsAssumption, RequestType
    DEF TypeOK, SentFollows, Covered, Receiving, Topic, Op, connVars, dispVars, tableVars,
       lockVars, histVars,
        Goto, Go, Return, LinkStep, Failure
<1>1. ASSUME NEW c \in Calls, Begin(c) PROVE SentFollows'
  <2>1. /\ last' = [last EXCEPT ![Topic(c)] = c]
        /\ pc' = [pc EXCEPT ![c] = "check"] /\ contested \subseteq contested'
        /\ UNCHANGED <<result, req, link, transport, state, sent, resubs>>
        /\ pc[c] = "idle"
    BY <1>1 DEF Begin
  <2>2. result[c] = "none" /\ \A t \in Topics : last[t] # c
    BY <2>1 DEF ResultsFollow, LastFollows
  <2>3. QED
    BY <2>1, <2>2
<1>2. ASSUME NEW c \in Calls, CheckConnected(c) PROVE SentFollows'
  <2>1. CASE state = "Connected"
    BY <1>2, <2>1 DEF CheckConnected
  <2>2. CASE state # "Connected"
    BY <1>2, <2>2 DEF CheckConnected
  <2>3. QED
    BY <2>1, <2>2
<1>3. ASSUME NEW c \in Calls, Register(c) PROVE SentFollows'
  BY <1>3 DEF Register
<1>4. ASSUME NEW c \in Calls, SendOk(c) PROVE SentFollows'
  <2>1. /\ pc' = [pc EXCEPT ![c] = "await"] /\ pc[c] = "send" /\ transport # "closed"
        /\ UNCHANGED <<result, req, last, contested, link, transport, state, resubs>>
        /\ transport = "open" =>
             sent' = IF Op(c) = "subscribe" THEN sent \cup {Topic(c)} ELSE sent \ {Topic(c)}
    BY <1>4 DEF SendOk, Deliver
  <2>2. last[Topic(c)] = c \/ Topic(c) \in contested
    BY <2>1 DEF LastFollows, InProgress
  <2>3. ASSUME NEW t \in Topics, t \notin contested, last[t] # NoCall, Op(last[t]) = "subscribe",
               pc'[last[t]] = "await" \/ result[last[t]] = "Ok"
        PROVE  Covered(t)'
    <3>1. CASE last[t] = c
      <4>1. Topic(c) = t
        BY <3>1, <2>3 DEF LastFollows
      <4>2. QED
        BY <2>1, <2>3, <3>1, <4>1
    <3>2. CASE last[t] # c
      <4>1. last[t] \in Calls /\ Covered(t)
        BY <2>1, <2>3, <3>2
      <4>2. t # Topic(c)
        BY <2>2, <2>3, <3>2
      <4>3. QED
        BY <2>1, <4>1, <4>2
    <3>3. QED
      BY <3>1, <3>2
  <2>4. QED
    BY <2>1, <2>3
<1>5. ASSUME NEW c \in Calls, SendError(c) PROVE SentFollows'
  BY <1>5 DEF SendError
<1>6. ASSUME NEW c \in Calls, SendErrorErase(c) PROVE SentFollows'
  BY <1>6 DEF SendErrorErase
<1>7. ASSUME NEW c \in Calls, SendErrorForget(c) PROVE SentFollows'
  BY <1>7 DEF SendErrorForget
<1>8. ASSUME NEW c \in Calls, AwaitTimeout(c) PROVE SentFollows'
  BY <1>8 DEF AwaitTimeout
<1>9. ASSUME NEW c \in Calls, TimeoutErase(c) PROVE SentFollows'
  BY <1>9 DEF TimeoutErase
<1>10. ASSUME NEW c \in Calls, AwaitResolved(c) PROVE SentFollows'
  <2>1. /\ \A d \in Calls : d # c => pc'[d] = pc[d] /\ result'[d] = result[d]
        /\ pc[c] = "await"
        /\ UNCHANGED <<req, last, contested, link, transport, state, sent, resubs>>
    BY <1>10 DEF AwaitResolved
  <2>2. QED
    BY <2>1
<1>11. ASSUME NEW c \in Calls, Rejected(c) PROVE SentFollows'
  BY <1>11 DEF Rejected
<1>12. ASSUME Open PROVE SentFollows'
  BY <1>12 DEF Open
<1>13. ASSUME OpenError PROVE SentFollows'
  BY <1>13 DEF OpenError
<1>14. ASSUME ToConnected PROVE SentFollows'
  BY <1>14 DEF ToConnected
<1>15. ASSUME ResubscribeAll PROVE SentFollows'
  <2>1. /\ resubs' = {t \in Topics : subscriptions[t] # NoCall}
        /\ UNCHANGED <<pc, result, req, last, contested, subscriptions>>
    BY <1>15 DEF ResubscribeAll
  <2>2. ASSUME NEW t \in Topics, t \notin contested, last[t] # NoCall, Op(last[t]) = "subscribe",
               pc[last[t]] = "await" \/ result[last[t]] = "Ok"
        PROVE  t \in resubs'
    BY <2>1, <2>2 DEF TableFollows, InProgress
  <2>3. QED
    BY <2>1, <2>2
<1>16. ASSUME NEW t \in Topics, Resubscribe(t) PROVE SentFollows'
  BY <1>16 DEF Resubscribe, Deliver
<1>17. ASSUME StartReceiving PROVE SentFollows'
  BY <1>17 DEF StartReceiving, LinkFollows
<1>18. ASSUME Lose PROVE SentFollows'
  BY <1>18 DEF Lose
<1>19. ASSUME ToReconnecting PROVE SentFollows'
  BY <1>19 DEF ToReconnecting
<1>20. ASSUME FailAllAcks PROVE SentFollows'
  BY <1>20 DEF FailAllAcks
<1>21. ASSUME Disconnect PROVE SentFollows'
  BY <1>21 DEF Disconnect
<1>22. ASSUME Disconnected PROVE SentFollows'
  BY <1>22 DEF Disconnected
<1>23. ASSUME NEW a \in acks, NEW code \in {"ok", "rejected"}, RecvAck(a, code) PROVE SentFollows'
  BY <1>23 DEF RecvAck
<1>24. ASSUME NEW t \in Topics, RecvPublish(t) PROVE SentFollows'
  BY <1>24 DEF RecvPublish, Dispatch
<1>25. ASSUME NEW t \in Topics, RecvPublishQos1(t) PROVE SentFollows'
  BY <1>25 DEF RecvPublishQos1
<1>26. ASSUME SendPuback PROVE SentFollows'
  BY <1>26 DEF SendPuback, Dispatch
<1>27. ASSUME CallbackReturns PROVE SentFollows'
  BY <1>27 DEF CallbackReturns
<1>28. CASE UNCHANGED vars
  BY <1>28 DEF vars
<1> QED
  BY <1>1, <1>2, <1>3, <1>4, <1>5, <1>6, <1>7, <1>8, <1>9, <1>10, <1>11, <1>12, <1>13, <1>14,
     <1>15, <1>16, <1>17, <1>18, <1>19, <1>20, <1>21, <1>22, <1>23, <1>24, <1>25, <1>26, <1>27,
     <1>28
  DEF Next, Continue, Connecting, Receive, Environment

LEMMA NextQuiet ==
  TypeOK /\ InboundFollows /\ FuturesFollow /\ LastFollows /\ TableFollows /\ LinkFollows
    /\ QuietFollows /\ [Next]_vars => QuietFollows'
<1> SUFFICES ASSUME TypeOK, InboundFollows, FuturesFollow, LastFollows, TableFollows, LinkFollows,
                    QuietFollows, [Next]_vars
             PROVE  QuietFollows'
  OBVIOUS
<1> USE CallsAssumption, RequestType
    DEF TypeOK, QuietFollows, Topic, Op, connVars, dispVars, tableVars, lockVars, histVars, Goto,
       Go,
        Return, LinkStep
<1>1. ASSUME NEW c \in Calls, Begin(c) PROVE QuietFollows'
  <2>1. /\ last' = [last EXCEPT ![Topic(c)] = c]
        /\ future[c] = "none"
        /\ UNCHANGED <<req, running, future>>
    BY <1>1 DEF Begin, FuturesFollow
  <2>2. QED
    BY <2>1
<1>2. ASSUME NEW c \in Calls, CheckConnected(c) PROVE QuietFollows'
  BY <1>2 DEF CheckConnected
<1>3. ASSUME NEW c \in Calls, Register(c) PROVE QuietFollows'
  <2>1. /\ UNCHANGED <<req, last, running>>
        /\ \A d \in Calls : future'[d] = "ok" => future[d] = "ok"
    BY <1>3 DEF Register, Erase, Break
  <2>2. QED
    BY <2>1
<1>4. ASSUME NEW c \in Calls, SendOk(c) PROVE QuietFollows'
  BY <1>4 DEF SendOk
<1>5. ASSUME NEW c \in Calls, SendError(c) PROVE QuietFollows'
  BY <1>5 DEF SendError
<1>6. ASSUME NEW c \in Calls, SendErrorErase(c) PROVE QuietFollows'
  <2>1. /\ UNCHANGED <<req, last, running>>
        /\ \A d \in Calls : future'[d] = "ok" => future[d] = "ok"
    BY <1>6 DEF SendErrorErase, Erase, Break
  <2>2. QED
    BY <2>1
<1>7. ASSUME NEW c \in Calls, SendErrorForget(c) PROVE QuietFollows'
  BY <1>7 DEF SendErrorForget
<1>8. ASSUME NEW c \in Calls, AwaitTimeout(c) PROVE QuietFollows'
  BY <1>8 DEF AwaitTimeout
<1>9. ASSUME NEW c \in Calls, TimeoutErase(c) PROVE QuietFollows'
  <2>1. /\ UNCHANGED <<req, last, running>>
        /\ \A d \in Calls : future'[d] = "ok" => future[d] = "ok"
    BY <1>9 DEF TimeoutErase, Erase, Break
  <2>2. QED
    BY <2>1
<1>10. ASSUME NEW c \in Calls, AwaitResolved(c) PROVE QuietFollows'
  BY <1>10 DEF AwaitResolved
<1>11. ASSUME NEW c \in Calls, Rejected(c) PROVE QuietFollows'
  BY <1>11 DEF Rejected
<1>12. ASSUME Open PROVE QuietFollows'
  BY <1>12 DEF Open
<1>13. ASSUME OpenError PROVE QuietFollows'
  BY <1>13 DEF OpenError
<1>14. ASSUME ToConnected PROVE QuietFollows'
  BY <1>14 DEF ToConnected
<1>15. ASSUME ResubscribeAll PROVE QuietFollows'
  BY <1>15 DEF ResubscribeAll
<1>16. ASSUME NEW t \in Topics, Resubscribe(t) PROVE QuietFollows'
  BY <1>16 DEF Resubscribe
<1>17. ASSUME StartReceiving PROVE QuietFollows'
  BY <1>17 DEF StartReceiving
<1>18. ASSUME Lose PROVE QuietFollows'
  BY <1>18 DEF Lose
<1>19. ASSUME ToReconnecting PROVE QuietFollows'
  BY <1>19 DEF ToReconnecting
<1>20. ASSUME FailAllAcks PROVE QuietFollows'
  <2>1. /\ UNCHANGED <<req, last, running>>
        /\ \A d \in Calls : future'[d] = "ok" => future[d] = "ok"
    BY <1>20 DEF FailAllAcks, Erase, Break
  <2>2. QED
    BY <2>1
<1>21. ASSUME Disconnect PROVE QuietFollows'
  BY <1>21 DEF Disconnect
<1>22. ASSUME Disconnected PROVE QuietFollows'
  BY <1>22 DEF Disconnected
<1>23. ASSUME NEW a \in acks, NEW code \in {"ok", "rejected"}, RecvAck(a, code) PROVE QuietFollows'
  BY <1>23 DEF RecvAck, LinkFollows
<1>24. ASSUME NEW t \in Topics, RecvPublish(t) PROVE QuietFollows'
  <2>1. /\ UNCHANGED <<req, last, future>>
        /\ \E u \in Topics : running' \in Handlers(u) \cup {running}
    BY <1>24 DEF RecvPublish, Dispatch
  <2>2. ASSUME NEW u \in Topics, NEW h \in Handlers(u), NEW f \in Topics, last[f] # NoCall,
               Op(last[f]) = "unsubscribe", h # NoCall
        PROVE  Topic(h) # f
    <3>1. \E g \in Topics : h = subscriptions[g]
      BY DEF Handlers
    <3>2. QED
      BY <2>2, <3>1 DEF TableFollows
  <2>3. QED
    BY <2>1, <2>2
<1>25. ASSUME NEW t \in Topics, RecvPublishQos1(t) PROVE QuietFollows'
  BY <1>25 DEF RecvPublishQos1
<1>26. ASSUME SendPuback PROVE QuietFollows'
  <2>1. /\ UNCHANGED <<req, last, future>>
        /\ \E u \in Topics : running' \in Handlers(u) \cup {running}
    BY <1>26 DEF SendPuback, Dispatch, InboundFollows
  <2>2. ASSUME NEW u \in Topics, NEW h \in Handlers(u), NEW f \in Topics, last[f] # NoCall,
               Op(last[f]) = "unsubscribe", h # NoCall
        PROVE  Topic(h) # f
    <3>1. \E g \in Topics : h = subscriptions[g]
      BY DEF Handlers
    <3>2. QED
      BY <2>2, <3>1 DEF TableFollows
  <2>3. QED
    BY <2>1, <2>2
<1>27. ASSUME CallbackReturns PROVE QuietFollows'
  BY <1>27 DEF CallbackReturns
<1>28. CASE UNCHANGED vars
  BY <1>28 DEF vars
<1> QED
  BY <1>1, <1>2, <1>3, <1>4, <1>5, <1>6, <1>7, <1>8, <1>9, <1>10, <1>11, <1>12, <1>13, <1>14,
     <1>15, <1>16, <1>17, <1>18, <1>19, <1>20, <1>21, <1>22, <1>23, <1>24, <1>25, <1>26, <1>27,
     <1>28
  DEF Next, Continue, Connecting, Receive, Environment
----------------------------------------------------------------------------
(* The theorems.                                                           *)

LEMMA TableCorrect == Spec => [](ResultsFollow /\ LastFollows /\ TableFollows)
<1>1. TypeOK /\ ResultsFollow /\ LastFollows /\ TableFollows /\ [Next]_vars
        => ResultsFollow' /\ LastFollows' /\ TableFollows'
  BY NextResults, NextLast, NextTable
<1>2. QED
  BY <1>1, InitTable, TypeCorrect, PTL DEF Spec

LEMMA LinkCorrect == Spec => []LinkFollows
<1>1. TypeOK /\ LinkFollows /\ [Next]_vars => LinkFollows'
  BY NextLink
<1>2. QED
  BY <1>1, InitLink, TypeCorrect, PTL DEF Spec

(* What subscribe() said is subscribed stays subscribed, on every          *)
(* connection.                                                             *)
THEOREM SubscriptionsCorrect == Spec => []SubscriptionsHold
<1>1. TypeOK /\ ResultsFollow /\ LastFollows /\ TableFollows /\ LinkFollows /\ SentFollows
        /\ [Next]_vars => SentFollows'
  BY NextSent
<1>2. TypeOK /\ TableFollows /\ LinkFollows /\ SentFollows => SubscriptionsHold
  BY DEF TableFollows, LinkFollows, SentFollows, SubscriptionsHold, Undisturbed, Covered, Receiving
<1>3. QED
  BY <1>1, <1>2, InitLink, TypeCorrect, TableCorrect, LinkCorrect, PTL DEF Spec

(* After an unsubscribe() that was acknowledged its callback is left alone.*)
THEOREM UnsubscribedCorrect == Spec => []UnsubscribedIsQuiet
<1>1. TypeOK /\ FuturesFollow /\ LastFollows /\ TableFollows /\ LinkFollows /\ QuietFollows
        /\ InboundFollows /\ [Next]_vars => QuietFollows'
  BY NextQuiet
<1>2. TypeOK /\ TableFollows /\ QuietFollows => UnsubscribedIsQuiet
  BY DEF TableFollows, QuietFollows, UnsubscribedIsQuiet
<1>3. QED
  BY <1>1, <1>2, InitLink, TypeInvariant, AcksInvariant, TableCorrect, LinkCorrect, PTL DEF Spec
=============================================================================

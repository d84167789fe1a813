----------------------- MODULE PublishTracking_proofs -----------------------
(***************************************************************************)
(* What holds of PublishTracking for any number of calls, any width of the *)
(* packet-id counter, any mix of requests and any behaviour of the         *)
(* connection and of the network.                                          *)
(***************************************************************************)
EXTENDS PublishTracking, FiniteSetTheorems, TLAPS

(* Where a call can be, given what it asks for and what it has so far.     *)
CallStructure ==
  \A c \in Calls :
    /\ pc[c] \in {"idle", "alloc", "allocAgain", "register"} => callback[c] = "none"
    /\ pc[c] = "register" => IsTracked(c)
    /\ pc[c] \in {"sendFailed", "await", "timedOut"} => IsSync(c) /\ req[c].qos > 0
    /\ /\ pc[c] \in {"send", "sendFailed", "await", "timedOut"}
       /\ IsSync(c) /\ req[c].qos > 0
       => future[c] # "none"
    /\ callback[c] = "waiting" => IsTracked(c) /\ ~IsSync(c)
    /\ pc[c] # "done" => result[c] = "none"

(* Before the counter comes round: an id is used by one call, and packets  *)
(* and acknowledgements carry the id of the call they belong to.           *)
IdsFresh ==
  ~wrapped =>
    /\ \A c \in Calls :
         /\ id[c] # 0 => nextPacketId = 0 \/ id[c] < nextPacketId
         /\ pc[c] \in {"idle", "alloc"} => id[c] = 0
         /\ pc[c] # "allocAgain"
         /\ pc[c] \in {"register", "send"} /\ req[c].qos > 0 => id[c] # 0
    /\ \A c, d \in Calls : id[c] = id[d] /\ id[c] # 0 => c = d
    /\ \A p \in wire : p.qos = 1 => p.id = id[p.call] /\ p.id # 0
    /\ \A a \in acks : a.id = id[a.of] /\ a.id # 0

(* Everything that says Ok speaks of a message that was received.          *)
OkWasReceived ==
  ~wrapped =>
    /\ \A a \in acks : a.of \in received
    /\ \A c \in Calls : future[c] = "Ok" => c \in received

----------------------------------------------------------------------------
(* The variables keep their types.                                         *)

LEMMA InitTypeOK == Init => TypeOK
<1> SUFFICES ASSUME Init PROVE TypeOK
  OBVIOUS
<1> USE DEF Init
<1>1. 0 \in PacketIds /\ 1 \in PacketIds
  BY IdSpaceAssumption DEF PacketIds
<1>2. NoRequest \in Request
  BY DEF NoRequest, Request
<1>3. /\ state \in ConnectionState
      /\ pendingPubacks \in [PacketIds -> Calls \cup {NoCall}]
      /\ req \in [Calls -> Request]
      /\ id \in [Calls -> PacketIds]
  BY <1>1, <1>2 DEF ConnectionState
<1>4. QED
  BY <1>1, <1>3 DEF TypeOK

(* Breaking the promise at i gives every future one of its values.         *)
LEMMA BreakAtType ==
  ASSUME TypeOK, NEW i \in PacketIds
  PROVE  BreakAt(i, future) \in
           [Calls -> {"none", "unset", "Ok", "ConnectionLost", "broken"}]
  BY DEF TypeOK, BreakAt

LEMMA NextTypeOK == TypeOK /\ [Next]_vars => TypeOK'
<1> SUFFICES ASSUME TypeOK, [Next]_vars PROVE TypeOK'
  OBVIOUS
<1> USE DEF TypeOK, tableVars, callVars, metricVars, netVars, Goto, Return
<1>1. ASSUME NEW c \in Calls, NEW r \in Requests, Publish(c, r) PROVE TypeOK'
  BY <1>1, RequestsAssumption DEF Publish
<1>2. ASSUME NEW c \in Calls, NEW r \in Requests, PublishAsync(c, r) PROVE TypeOK'
  BY <1>2, RequestsAssumption DEF PublishAsync
<1>3. ASSUME NEW c \in Calls, NEW l \in {"allocAgain", "register", "send"}, FetchAdd(c, l)
      PROVE  TypeOK'
  BY <1>3, IdSpaceAssumption DEF FetchAdd, PacketIds
<1>4. ASSUME NEW c \in Calls, AllocPacketId(c) PROVE TypeOK'
  BY <1>3, <1>4 DEF AllocPacketId, AfterAlloc
<1>5. ASSUME NEW c \in Calls, AllocAgain(c) PROVE TypeOK'
  BY <1>3, <1>5 DEF AllocAgain, AfterAlloc
<1>6. ASSUME NEW c \in Calls, Register(c) PROVE TypeOK'
  BY <1>6, BreakAtType DEF Register
<1>7. ASSUME NEW c \in Calls, SendOk(c) PROVE TypeOK'
  <2>1. [call |-> c, id |-> id[c], qos |-> req[c].qos] \in Packet
    BY DEF Packet, Request
  <2>2. published' \in Nat /\ wire' \subseteq Packet
    BY <1>7, <2>1 DEF SendOk
  <2>3. QED
    BY <1>7, <2>2 DEF SendOk
<1>8. ASSUME NEW c \in Calls, SendError(c) PROVE TypeOK'
  BY <1>8 DEF SendError
<1>9. ASSUME NEW c \in Calls, SendErrorCleanup(c) PROVE TypeOK'
  BY <1>9, BreakAtType DEF SendErrorCleanup, Erase
<1>10. ASSUME NEW c \in Calls, AwaitResolved(c) PROVE TypeOK'
  BY <1>10 DEF AwaitResolved
<1>11. ASSUME NEW c \in Calls, AwaitTimeout(c) PROVE TypeOK'
  BY <1>11 DEF AwaitTimeout
<1>12. ASSUME NEW c \in Calls, TimeoutErase(c) PROVE TypeOK'
  BY <1>12, BreakAtType DEF TimeoutErase, Erase
<1>13. ASSUME NEW c \in Calls, RunCallback(c) PROVE TypeOK'
  BY <1>13 DEF RunCallback
<1>14. ASSUME NEW s \in States, TransitionState(s) PROVE TypeOK'
  BY <1>14, StatesAssumption DEF TransitionState
<1>15. ASSUME FailAllPending PROVE TypeOK'
  BY <1>15 DEF FailAllPending
<1>16. ASSUME NEW a \in acks, RecvPuback(a) PROVE TypeOK'
  BY <1>16 DEF RecvPuback, Ack
<1>17. ASSUME NEW p \in wire, BrokerReceive(p) PROVE TypeOK'
  BY <1>17 DEF BrokerReceive, Packet, Ack
<1>18. ASSUME NEW p \in wire, LosePublish(p) PROVE TypeOK'
  BY <1>18 DEF LosePublish
<1>19. ASSUME NEW a \in acks, LosePuback(a) PROVE TypeOK'
  BY <1>19 DEF LosePuback
<1>20. CASE UNCHANGED vars
  BY <1>20 DEF vars
<1> QED
  BY <1>1, <1>2, <1>4, <1>5, <1>6, <1>7, <1>8, <1>9, <1>10, <1>11, <1>12, <1>13, <1>14,
     <1>15, <1>16, <1>17, <1>18, <1>19, <1>20
  DEF Next, Begin, Continue, Connection, Network

(* Every variable of the publish path keeps its type.                      *)
THEOREM TypeCorrect == Spec => []TypeOK
  BY InitTypeOK, NextTypeOK, PTL DEF Spec

----------------------------------------------------------------------------
(* Where calls can be.                                                     *)

LEMMA InitStructure == Init => CallStructure
  BY DEF Init, CallStructure

LEMMA NextStructure == TypeOK /\ CallStructure /\ [Next]_vars => CallStructure'
<1> SUFFICES ASSUME TypeOK, CallStructure, [Next]_vars PROVE CallStructure'
  OBVIOUS
<1> USE DEF TypeOK, CallStructure, IsSync, IsTracked, tableVars, callVars, metricVars, netVars,
            Goto, Return
<1>1. ASSUME NEW c \in Calls, NEW r \in Requests, Publish(c, r) PROVE CallStructure'
  BY <1>1 DEF Publish
<1>2. ASSUME NEW c \in Calls, NEW r \in Requests, PublishAsync(c, r) PROVE CallStructure'
  BY <1>2 DEF PublishAsync
<1>3. ASSUME NEW c \in Calls, AllocPacketId(c) PROVE CallStructure'
  BY <1>3 DEF AllocPacketId, FetchAdd, AfterAlloc
<1>4. ASSUME NEW c \in Calls, AllocAgain(c) PROVE CallStructure'
  BY <1>4 DEF AllocAgain, FetchAdd, AfterAlloc
<1>5. ASSUME NEW c \in Calls, Register(c) PROVE CallStructure'
  BY <1>5 DEF Register, BreakAt
<1>6. ASSUME NEW c \in Calls, SendOk(c) PROVE CallStructure'
  BY <1>6 DEF SendOk
<1>7. ASSUME NEW c \in Calls, SendError(c) PROVE CallStructure'
  BY <1>7 DEF SendError
<1>8. ASSUME NEW c \in Calls, SendErrorCleanup(c) PROVE CallStructure'
  BY <1>8 DEF SendErrorCleanup, Erase, BreakAt
<1>9. ASSUME NEW c \in Calls, AwaitResolved(c) PROVE CallStructure'
  BY <1>9 DEF AwaitResolved
<1>10. ASSUME NEW c \in Calls, AwaitTimeout(c) PROVE CallStructure'
  BY <1>10 DEF AwaitTimeout
<1>11. ASSUME NEW c \in Calls, TimeoutErase(c) PROVE CallStructure'
  BY <1>11 DEF TimeoutErase, Erase, BreakAt
<1>12. ASSUME NEW c \in Calls, RunCallback(c) PROVE CallStructure'
  BY <1>12 DEF RunCallback
<1>13. ASSUME NEW s \in States, TransitionState(s) PROVE CallStructure'
  BY <1>13 DEF TransitionState
<1>14. ASSUME FailAllPending PROVE CallStructure'
  BY <1>14 DEF FailAllPending
<1>15. ASSUME NEW a \in acks, RecvPuback(a) PROVE CallStructure'
  BY <1>15 DEF RecvPuback
<1>16. ASSUME NEW p \in wire, BrokerReceive(p) PROVE CallStructure'
  BY <1>16 DEF BrokerReceive
<1>17. ASSUME NEW p \in wire, LosePublish(p) PROVE CallStructure'
  BY <1>17 DEF LosePublish
<1>18. ASSUME NEW a \in acks, LosePuback(a) PROVE CallStructure'
  BY <1>18 DEF LosePuback
<1>19. CASE UNCHANGED vars
  BY <1>19 DEF vars
<1> QED
  BY <1>1, <1>2, <1>3, <1>4, <1>5, <1>6, <1>7, <1>8, <1>9, <1>10,
     <1>11, <1>12, <1>13, <1>14, <1>15, <1>16, <1>17, <1>18, <1>19
  DEF Next, Begin, Continue, Connection, Network

----------------------------------------------------------------------------
(* The table against its waiters.                                          *)

LEMMA InitTable == Init => TableMatchesWaiters
  BY CallsAssumption DEF Init, TableMatchesWaiters, Waits, IsSync, IsTracked, NoRequest

LEMMA NextTable ==
  TypeOK /\ CallStructure /\ TableMatchesWaiters /\ [Next]_vars => TableMatchesWaiters'
<1> SUFFICES ASSUME TypeOK, CallStructure, TableMatchesWaiters, [Next]_vars
             PROVE  TableMatchesWaiters'
  OBVIOUS
<1> USE CallsAssumption DEF TypeOK, CallStructure, TableMatchesWaiters, Waits, IsSync, IsTracked,
            tableVars, callVars, metricVars, netVars, Goto, Return
<1>1. ASSUME NEW c \in Calls, NEW r \in Requests, Publish(c, r) PROVE TableMatchesWaiters'
  BY <1>1 DEF Publish
<1>2. ASSUME NEW c \in Calls, NEW r \in Requests, PublishAsync(c, r) PROVE TableMatchesWaiters'
  BY <1>2 DEF PublishAsync
<1>3. ASSUME NEW c \in Calls, AllocPacketId(c) PROVE TableMatchesWaiters'
  BY <1>3 DEF AllocPacketId, FetchAdd, AfterAlloc
<1>4. ASSUME NEW c \in Calls, AllocAgain(c) PROVE TableMatchesWaiters'
  BY <1>4 DEF AllocAgain, FetchAdd, AfterAlloc
<1>5. ASSUME NEW c \in Calls, Register(c) PROVE TableMatchesWaiters'
  BY <1>5 DEF Register, BreakAt
<1>6. ASSUME NEW c \in Calls, SendOk(c) PROVE TableMatchesWaiters'
  BY <1>6 DEF SendOk
<1>7. ASSUME NEW c \in Calls, SendError(c) PROVE TableMatchesWaiters'
  BY <1>7 DEF SendError
<1>8. ASSUME NEW c \in Calls, SendErrorCleanup(c) PROVE TableMatchesWaiters'
  BY <1>8 DEF SendErrorCleanup, Erase, BreakAt
<1>9. ASSUME NEW c \in Calls, AwaitResolved(c) PROVE TableMatchesWaiters'
  BY <1>9 DEF AwaitResolved
<1>10. ASSUME NEW c \in Calls, AwaitTimeout(c) PROVE TableMatchesWaiters'
  BY <1>10 DEF AwaitTimeout
<1>11. ASSUME NEW c \in Calls, TimeoutErase(c) PROVE TableMatchesWaiters'
  BY <1>11 DEF TimeoutErase, Erase, BreakAt
<1>12. ASSUME NEW c \in Calls, RunCallback(c) PROVE TableMatchesWaiters'
  BY <1>12 DEF RunCallback
<1>13. ASSUME NEW s \in States, TransitionState(s) PROVE TableMatchesWaiters'
  BY <1>13 DEF TransitionState
<1>14. ASSUME FailAllPending PROVE TableMatchesWaiters'
  BY <1>14 DEF FailAllPending, IsPending
<1>15. ASSUME NEW a \in acks, RecvPuback(a) PROVE TableMatchesWaiters'
  BY <1>15 DEF RecvPuback, Ack
<1>16. ASSUME NEW p \in wire, BrokerReceive(p) PROVE TableMatchesWaiters'
  BY <1>16 DEF BrokerReceive
<1>17. ASSUME NEW p \in wire, LosePublish(p) PROVE TableMatchesWaiters'
  BY <1>17 DEF LosePublish
<1>18. ASSUME NEW a \in acks, LosePuback(a) PROVE TableMatchesWaiters'
  BY <1>18 DEF LosePuback
<1>19. CASE UNCHANGED vars
  BY <1>19 DEF vars
<1> QED
  BY <1>1, <1>2, <1>3, <1>4, <1>5, <1>6, <1>7, <1>8, <1>9, <1>10,
     <1>11, <1>12, <1>13, <1>14, <1>15, <1>16, <1>17, <1>18, <1>19
  DEF Next, Begin, Continue, Connection, Network

----------------------------------------------------------------------------
(* Packet ids, until the counter comes round.                              *)

(* The counter goes to its successor or to 0.                              *)
LEMMA CounterStep ==
  ASSUME nextPacketId \in PacketIds
  PROVE  \/ (nextPacketId + 1) % IdSpace = 0
         \/ (nextPacketId + 1) % IdSpace = nextPacketId + 1
  BY IdSpaceAssumption, Z3 DEF PacketIds

LEMMA InitIds == Init => IdsFresh
  BY DEF Init, IdsFresh

LEMMA NextIds == TypeOK /\ CallStructure /\ IdsFresh /\ [Next]_vars => IdsFresh'
<1> SUFFICES ASSUME TypeOK, CallStructure, IdsFresh, [Next]_vars PROVE IdsFresh'
  OBVIOUS
<1> USE IdSpaceAssumption DEF TypeOK, CallStructure, IdsFresh, IsSync, IsTracked, PacketIds, Packet,
            Ack, tableVars, callVars, metricVars, netVars, Goto, Return
<1>1. ASSUME NEW c \in Calls, NEW r \in Requests, Publish(c, r) PROVE IdsFresh'
  BY <1>1 DEF Publish
<1>2. ASSUME NEW c \in Calls, NEW r \in Requests, PublishAsync(c, r) PROVE IdsFresh'
  BY <1>2 DEF PublishAsync
<1>3. ASSUME NEW c \in Calls, AllocPacketId(c) PROVE IdsFresh'
  <2> SUFFICES ASSUME ~wrapped' PROVE IdsFresh'
    OBVIOUS
  <2>1. ~wrapped /\ nextPacketId # 0 /\ id[c] = 0
    BY <1>3 DEF AllocPacketId, FetchAdd
  <2>2. nextPacketId' = 0 \/ nextPacketId' = nextPacketId + 1
    <3>1. nextPacketId' = (nextPacketId + 1) % IdSpace
      BY <1>3 DEF AllocPacketId, FetchAdd
    <3>2. QED
      BY <3>1, CounterStep
  <2>3. /\ id' = [id EXCEPT ![c] = nextPacketId]
        /\ pc' = [pc EXCEPT ![c] = AfterAlloc(c)]
        /\ UNCHANGED <<req, wire, acks>>
    BY <1>3, <2>1 DEF AllocPacketId, FetchAdd
  <2>4. AfterAlloc(c) \in {"register", "send"}
    BY DEF AfterAlloc
  <2>5. \A d \in Calls : id[d] # 0 => id[d] < nextPacketId
    BY <2>1
  <2>6. \A d \in Calls : id'[d] # 0 => nextPacketId' = 0 \/ id'[d] < nextPacketId'
    BY <2>1, <2>2, <2>3, <2>5
  <2>7. \A d, e \in Calls : id'[d] = id'[e] /\ id'[d] # 0 => d = e
    BY <2>1, <2>3, <2>5
  <2>8. (\A p \in wire : p.call # c \/ p.qos # 1) /\ (\A a \in acks : a.of # c)
    BY <2>1
  <2>9. QED
    BY <2>1, <2>3, <2>4, <2>6, <2>7, <2>8
<1>4. ASSUME NEW c \in Calls, AllocAgain(c) PROVE IdsFresh'
  BY <1>4 DEF AllocAgain, FetchAdd, AfterAlloc
<1>5. ASSUME NEW c \in Calls, Register(c) PROVE IdsFresh'
  BY <1>5 DEF Register, BreakAt
<1>6. ASSUME NEW c \in Calls, SendOk(c) PROVE IdsFresh'
  BY <1>6 DEF SendOk
<1>7. ASSUME NEW c \in Calls, SendError(c) PROVE IdsFresh'
  BY <1>7 DEF SendError
<1>8. ASSUME NEW c \in Calls, SendErrorCleanup(c) PROVE IdsFresh'
  BY <1>8 DEF SendErrorCleanup, Erase, BreakAt
<1>9. ASSUME NEW c \in Calls, AwaitResolved(c) PROVE IdsFresh'
  BY <1>9 DEF AwaitResolved
<1>10. ASSUME NEW c \in Calls, AwaitTimeout(c) PROVE IdsFresh'
  BY <1>10 DEF AwaitTimeout
<1>11. ASSUME NEW c \in Calls, TimeoutErase(c) PROVE IdsFresh'
  BY <1>11 DEF TimeoutErase, Erase, BreakAt
<1>12. ASSUME NEW c \in Calls, RunCallback(c) PROVE IdsFresh'
  BY <1>12 DEF RunCallback
<1>13. ASSUME NEW s \in States, TransitionState(s) PROVE IdsFresh'
  BY <1>13 DEF TransitionState
<1>14. ASSUME FailAllPending PROVE IdsFresh'
  BY <1>14 DEF FailAllPending, IsPending
<1>15. ASSUME NEW a \in acks, RecvPuback(a) PROVE IdsFresh'
  BY <1>15 DEF RecvPuback, Ack
<1>16. ASSUME NEW p \in wire, BrokerReceive(p) PROVE IdsFresh'
  BY <1>16 DEF BrokerReceive, Packet, Ack
<1>17. ASSUME NEW p \in wire, LosePublish(p) PROVE IdsFresh'
  BY <1>17 DEF LosePublish
<1>18. ASSUME NEW a \in acks, LosePuback(a) PROVE IdsFresh'
  BY <1>18 DEF LosePuback
<1>19. CASE UNCHANGED vars
  BY <1>19 DEF vars
<1> QED
  BY <1>1, <1>2, <1>3, <1>4, <1>5, <1>6, <1>7, <1>8, <1>9, <1>10,
     <1>11, <1>12, <1>13, <1>14, <1>15, <1>16, <1>17, <1>18, <1>19
  DEF Next, Begin, Continue, Connection, Network

(* What Ok stands for, until then.                                         *)

LEMMA InitOk == Init => OkWasReceived
  BY DEF Init, OkWasReceived

LEMMA NextOk ==
  TypeOK /\ CallStructure /\ TableMatchesWaiters /\ IdsFresh /\ OkWasReceived /\ [Next]_vars
    => OkWasReceived'
<1> SUFFICES ASSUME TypeOK, CallStructure, TableMatchesWaiters, IdsFresh, OkWasReceived, [Next]_vars
             PROVE  OkWasReceived'
  OBVIOUS
<1> USE DEF OkWasReceived, tableVars, callVars, metricVars, netVars, TypeOK
<1>1. ASSUME NEW c \in Calls, NEW r \in Requests, Publish(c, r) PROVE OkWasReceived'
  BY <1>1 DEF Publish
<1>2. ASSUME NEW c \in Calls, NEW r \in Requests, PublishAsync(c, r) PROVE OkWasReceived'
  BY <1>2 DEF PublishAsync
<1>3. ASSUME NEW c \in Calls, AllocPacketId(c) PROVE OkWasReceived'
  BY <1>3 DEF AllocPacketId, FetchAdd, AfterAlloc
<1>4. ASSUME NEW c \in Calls, AllocAgain(c) PROVE OkWasReceived'
  BY <1>4 DEF AllocAgain, FetchAdd, AfterAlloc
<1>5. ASSUME NEW c \in Calls, Register(c) PROVE OkWasReceived'
  BY <1>5 DEF Register, BreakAt
<1>6. ASSUME NEW c \in Calls, SendOk(c) PROVE OkWasReceived'
  BY <1>6 DEF SendOk
<1>7. ASSUME NEW c \in Calls, SendError(c) PROVE OkWasReceived'
  BY <1>7 DEF SendError
<1>8. ASSUME NEW c \in Calls, SendErrorCleanup(c) PROVE OkWasReceived'
  BY <1>8 DEF SendErrorCleanup, Erase, BreakAt
<1>9. ASSUME NEW c \in Calls, AwaitResolved(c) PROVE OkWasReceived'
  BY <1>9 DEF AwaitResolved
<1>10. ASSUME NEW c \in Calls, AwaitTimeout(c) PROVE OkWasReceived'
  BY <1>10 DEF AwaitTimeout
<1>11. ASSUME NEW c \in Calls, TimeoutErase(c) PROVE OkWasReceived'
  BY <1>11 DEF TimeoutErase, Erase, BreakAt
<1>12. ASSUME NEW c \in Calls, RunCallback(c) PROVE OkWasReceived'
  BY <1>12 DEF RunCallback
<1>13. ASSUME NEW s \in States, TransitionState(s) PROVE OkWasReceived'
  BY <1>13 DEF TransitionState
<1>14. ASSUME FailAllPending PROVE OkWasReceived'
  BY <1>14 DEF FailAllPending, IsPending
<1>15. ASSUME NEW a \in acks, RecvPuback(a) PROVE OkWasReceived'
  BY <1>15 DEF RecvPuback, IdsFresh, TableMatchesWaiters, Ack, PacketIds
<1>16. ASSUME NEW p \in wire, BrokerReceive(p) PROVE OkWasReceived'
  BY <1>16 DEF BrokerReceive, Packet, Ack
<1>17. ASSUME NEW p \in wire, LosePublish(p) PROVE OkWasReceived'
  BY <1>17 DEF LosePublish
<1>18. ASSUME NEW a \in acks, LosePuback(a) PROVE OkWasReceived'
  BY <1>18 DEF LosePuback
<1>19. CASE UNCHANGED vars
  BY <1>19 DEF vars
<1> QED
  BY <1>1, <1>2, <1>3, <1>4, <1>5, <1>6, <1>7, <1>8, <1>9, <1>10,
     <1>11, <1>12, <1>13, <1>14, <1>15, <1>16, <1>17, <1>18, <1>19
  DEF Next, Begin, Continue, Connection, Network

(* What the callers are told.                                              *)

LEMMA InitAcked == Init => AckedWasReceived
  BY DEF Init, AckedWasReceived

LEMMA NextAcked ==
  TypeOK /\ CallStructure /\ OkWasReceived /\ AckedWasReceived /\ [Next]_vars => AckedWasReceived'
<1> SUFFICES ASSUME TypeOK, CallStructure, OkWasReceived, AckedWasReceived, [Next]_vars
             PROVE  AckedWasReceived'
  OBVIOUS
<1> USE DEF TypeOK, CallStructure, AckedWasReceived, IsSync, tableVars, callVars, metricVars,
            netVars, Goto, Return
<1>1. ASSUME NEW c \in Calls, NEW r \in Requests, Publish(c, r) PROVE AckedWasReceived'
  BY <1>1 DEF Publish
<1>2. ASSUME NEW c \in Calls, NEW r \in Requests, PublishAsync(c, r) PROVE AckedWasReceived'
  BY <1>2 DEF PublishAsync
<1>3. ASSUME NEW c \in Calls, AllocPacketId(c) PROVE AckedWasReceived'
  BY <1>3 DEF AllocPacketId, FetchAdd, AfterAlloc
<1>4. ASSUME NEW c \in Calls, AllocAgain(c) PROVE AckedWasReceived'
  BY <1>4 DEF AllocAgain, FetchAdd, AfterAlloc
<1>5. ASSUME NEW c \in Calls, Register(c) PROVE AckedWasReceived'
  BY <1>5 DEF Register, BreakAt
<1>6. ASSUME NEW c \in Calls, SendOk(c) PROVE AckedWasReceived'
  BY <1>6 DEF SendOk
<1>7. ASSUME NEW c \in Calls, SendError(c) PROVE AckedWasReceived'
  BY <1>7 DEF SendError
<1>8. ASSUME NEW c \in Calls, SendErrorCleanup(c) PROVE AckedWasReceived'
  BY <1>8 DEF SendErrorCleanup, Erase, BreakAt
<1>9. ASSUME NEW c \in Calls, AwaitResolved(c) PROVE AckedWasReceived'
  BY <1>9 DEF AwaitResolved, OkWasReceived
<1>10. ASSUME NEW c \in Calls, AwaitTimeout(c) PROVE AckedWasReceived'
  BY <1>10 DEF AwaitTimeout
<1>11. ASSUME NEW c \in Calls, TimeoutErase(c) PROVE AckedWasReceived'
  BY <1>11 DEF TimeoutErase, Erase, BreakAt
<1>12. ASSUME NEW c \in Calls, RunCallback(c) PROVE AckedWasReceived'
  BY <1>12 DEF RunCallback, OkWasReceived
<1>13. ASSUME NEW s \in States, TransitionState(s) PROVE AckedWasReceived'
  BY <1>13 DEF TransitionState
<1>14. ASSUME FailAllPending PROVE AckedWasReceived'
  BY <1>14 DEF FailAllPending, IsPending
<1>15. ASSUME NEW a \in acks, RecvPuback(a) PROVE AckedWasReceived'
  BY <1>15 DEF RecvPuback, Ack
<1>16. ASSUME NEW p \in wire, BrokerReceive(p) PROVE AckedWasReceived'
  BY <1>16 DEF BrokerReceive, Packet, Ack
<1>17. ASSUME NEW p \in wire, LosePublish(p) PROVE AckedWasReceived'
  BY <1>17 DEF LosePublish
<1>18. ASSUME NEW a \in acks, LosePuback(a) PROVE AckedWasReceived'
  BY <1>18 DEF LosePuback
<1>19. CASE UNCHANGED vars
  BY <1>19 DEF vars
<1> QED
  BY <1>1, <1>2, <1>3, <1>4, <1>5, <1>6, <1>7, <1>8, <1>9, <1>10,
     <1>11, <1>12, <1>13, <1>14, <1>15, <1>16, <1>17, <1>18, <1>19
  DEF Next, Begin, Continue, Connection, Network

----------------------------------------------------------------------------
(* The metrics.                                                            *)

(* The calls that are counted.                                             *)
Settled == {c \in Calls : result[c] \notin {"none", "NotConnected", "exception"}}

LEMMA SettledFinite == IsFiniteSet(Settled)
  BY CallsAssumption, FS_Subset DEF Settled

(* A call that returns is counted.                                         *)
LEMMA Settle ==
  ASSUME TypeOK, MetricsBalance, NEW c \in Calls, result[c] = "none",
         NEW r \in {"Ok", "PublishFailed", "PublishTimeout", "ConnectionLost"},
         result' = [result EXCEPT ![c] = r],
         published' + publishFailures' = published + publishFailures + 1
  PROVE  MetricsBalance'
<1>1. Settled' = Settled \cup {c} /\ c \notin Settled
  BY DEF Settled, TypeOK
<1>2. Cardinality(Settled') = Cardinality(Settled) + 1
  BY <1>1, SettledFinite, FS_AddElement
<1>3. QED
  BY <1>2 DEF MetricsBalance, Settled

(* One that returns without having got anywhere, or throws, is not.        *)
LEMMA SettleUncounted ==
  ASSUME TypeOK, MetricsBalance, NEW c \in Calls, result[c] = "none",
         NEW r \in {"NotConnected", "exception"},
         result' = [result EXCEPT ![c] = r],
         published' = published, publishFailures' = publishFailures
  PROVE  MetricsBalance'
<1>1. Settled' = Settled
  BY DEF Settled, TypeOK
<1>2. QED
  BY <1>1 DEF MetricsBalance, Settled

LEMMA InitMetrics == Init => MetricsBalance
<1> SUFFICES ASSUME Init PROVE MetricsBalance
  OBVIOUS
<1>1. Settled = {}
  BY DEF Init, Settled
<1>2. QED
  BY <1>1, FS_EmptySet DEF Init, MetricsBalance, Settled

LEMMA NextMetrics == TypeOK /\ CallStructure /\ MetricsBalance /\ [Next]_vars => MetricsBalance'
<1> SUFFICES ASSUME TypeOK, CallStructure, MetricsBalance, [Next]_vars PROVE MetricsBalance'
  OBVIOUS
<1>0. UNCHANGED <<result, published, publishFailures>> => MetricsBalance'
  BY DEF MetricsBalance
<1> USE DEF tableVars, callVars, metricVars, netVars, Goto, Return
<1>1. ASSUME NEW c \in Calls, NEW r \in Requests, Publish(c, r) PROVE MetricsBalance'
  <2>1. result[c] = "none"
    BY <1>1 DEF Publish, CallStructure
  <2>2. CASE state # "Connected"
    BY <1>1, <2>1, <2>2, SettleUncounted, <1>0 DEF Publish
  <2>3. CASE ~(state # "Connected")
    BY <1>1, <2>3, <1>0 DEF Publish
  <2>4. QED
    BY <2>2, <2>3
<1>2. ASSUME NEW c \in Calls, NEW r \in Requests, PublishAsync(c, r) PROVE MetricsBalance'
  <2>1. result[c] = "none"
    BY <1>2 DEF PublishAsync, CallStructure
  <2>2. CASE state # "Connected" /\ ~OfflineBuffering
    BY <1>2, <2>1, <2>2, SettleUncounted, <1>0 DEF PublishAsync
  <2>3. CASE ~(state # "Connected" /\ ~OfflineBuffering)
    BY <1>2, <2>3, <1>0 DEF PublishAsync
  <2>4. QED
    BY <2>2, <2>3
<1>3. ASSUME NEW c \in Calls, AllocPacketId(c) PROVE MetricsBalance'
  BY <1>3, <1>0 DEF AllocPacketId, FetchAdd, AfterAlloc
<1>4. ASSUME NEW c \in Calls, AllocAgain(c) PROVE MetricsBalance'
  BY <1>4, <1>0 DEF AllocAgain, FetchAdd, AfterAlloc
<1>5. ASSUME NEW c \in Calls, Register(c) PROVE MetricsBalance'
  BY <1>5, <1>0 DEF Register
<1>6. ASSUME NEW c \in Calls, SendOk(c) PROVE MetricsBalance'
  <2>1. CASE IsSync(c) /\ req[c].qos > 0
    BY <1>6, <2>1, <1>0 DEF SendOk
  <2>2. CASE ~(IsSync(c) /\ req[c].qos > 0)
    <3>1. result[c] = "none"
      BY <1>6 DEF SendOk, CallStructure
    <3>2. /\ result' = [result EXCEPT ![c] = "Ok"]
          /\ published' + publishFailures' = published + publishFailures + 1
      BY <1>6, <2>2 DEF SendOk, TypeOK
    <3>3. QED
      BY <3>1, <3>2, Settle
  <2>3. QED
    BY <2>1, <2>2
<1>7. ASSUME NEW c \in Calls, SendError(c) PROVE MetricsBalance'
  <2>1. CASE IsSync(c) /\ req[c].qos > 0
    BY <1>7, <2>1, <1>0 DEF SendError
  <2>2. CASE ~(IsSync(c) /\ req[c].qos > 0)
    <3>1. result[c] = "none"
      BY <1>7 DEF SendError, CallStructure
    <3>2. /\ result' = [result EXCEPT ![c] = "PublishFailed"]
          /\ published' + publishFailures' = published + publishFailures + 1
      BY <1>7, <2>2 DEF SendError, TypeOK
    <3>3. QED
      BY <3>1, <3>2, Settle
  <2>3. QED
    BY <2>1, <2>2
<1>8. ASSUME NEW c \in Calls, SendErrorCleanup(c) PROVE MetricsBalance'
  <2>1. result[c] = "none"
    BY <1>8 DEF SendErrorCleanup, CallStructure
  <2>2. /\ result' = [result EXCEPT ![c] = "PublishFailed"]
        /\ published' + publishFailures' = published + publishFailures + 1
    BY <1>8 DEF SendErrorCleanup, TypeOK
  <2>3. QED
    BY <2>1, <2>2, Settle
<1>9. ASSUME NEW c \in Calls, AwaitResolved(c) PROVE MetricsBalance'
  <2>1. result[c] = "none"
    BY <1>9 DEF AwaitResolved, CallStructure
  <2>2. CASE future[c] = "broken"
    <3>1. /\ result' = [result EXCEPT ![c] = "exception"]
          /\ UNCHANGED <<published, publishFailures>>
      BY <1>9, <2>2 DEF AwaitResolved
    <3>2. QED
      BY <2>1, <3>1, SettleUncounted
  <2>3. CASE future[c] \in {"Ok", "ConnectionLost"}
    <3>1. /\ result' = [result EXCEPT ![c] = future[c]]
          /\ published' + publishFailures' = published + publishFailures + 1
      <4>1. CASE future[c] = "Ok"
        BY <1>9, <4>1 DEF AwaitResolved, TypeOK
      <4>2. CASE future[c] = "ConnectionLost"
        BY <1>9, <4>2 DEF AwaitResolved, TypeOK
      <4>3. QED
        BY <2>3, <4>1, <4>2
    <3>2. QED
      BY <2>1, <2>3, <3>1, Settle
  <2>4. QED
    BY <1>9, <2>2, <2>3 DEF AwaitResolved, CallStructure, IsSync, TypeOK
<1>10. ASSUME NEW c \in Calls, AwaitTimeout(c) PROVE MetricsBalance'
  BY <1>10, <1>0 DEF AwaitTimeout
<1>11. ASSUME NEW c \in Calls, TimeoutErase(c) PROVE MetricsBalance'
  <2>1. result[c] = "none"
    BY <1>11 DEF TimeoutErase, CallStructure
  <2>2. /\ result' = [result EXCEPT ![c] = "PublishTimeout"]
        /\ published' + publishFailures' = published + publishFailures + 1
    BY <1>11 DEF TimeoutErase, TypeOK
  <2>3. QED
    BY <2>1, <2>2, Settle
<1>12. ASSUME NEW c \in Calls, RunCallback(c) PROVE MetricsBalance'
  BY <1>12, <1>0 DEF RunCallback
<1>13. ASSUME NEW s \in States, TransitionState(s) PROVE MetricsBalance'
  BY <1>13, <1>0 DEF TransitionState
<1>14. ASSUME FailAllPending PROVE MetricsBalance'
  BY <1>14, <1>0 DEF FailAllPending
<1>15. ASSUME NEW a \in acks, RecvPuback(a) PROVE MetricsBalance'
  BY <1>15, <1>0 DEF RecvPuback
<1>16. ASSUME NEW p \in wire, BrokerReceive(p) PROVE MetricsBalance'
  BY <1>16, <1>0 DEF BrokerReceive
<1>17. ASSUME NEW p \in wire, LosePublish(p) PROVE MetricsBalance'
  BY <1>17, <1>0 DEF LosePublish
<1>18. ASSUME NEW a \in acks, LosePuback(a) PROVE MetricsBalance'
  BY <1>18, <1>0 DEF LosePuback
<1>19. CASE UNCHANGED vars
  BY <1>0, <1>19 DEF vars
<1> QED
  BY <1>1, <1>2, <1>3, <1>4, <1>5, <1>6, <1>7, <1>8, <1>9, <1>10,
     <1>11, <1>12, <1>13, <1>14, <1>15, <1>16, <1>17, <1>18, <1>19
  DEF Next, Begin, Continue, Connection, Network

----------------------------------------------------------------------------
(* The theorems.  The conjunction below is inductive.                      *)

Inv == /\ TypeOK /\ CallStructure /\ TableMatchesWaiters
       /\ IdsFresh /\ OkWasReceived /\ AckedWasReceived /\ MetricsBalance

LEMMA InvCorrect == Spec => []Inv
<1>1. Init => Inv
  BY InitTypeOK, InitStructure, InitTable, InitIds, InitOk, InitAcked, InitMetrics
  DEF Inv
<1>2. Inv /\ [Next]_vars => Inv'
  BY NextTypeOK, NextStructure, NextTable, NextIds, NextOk, NextAcked, NextMetrics
  DEF Inv
<1>3. QED
  BY <1>1, <1>2, PTL DEF Spec

(* The table pendingPubacks holds the promises that are waited for, and no *)
(* other, whatever the order of publishes, timeouts, PUBACKs and losses.   *)
THEOREM TableCorrect == Spec => []TableMatchesWaiters
<1>1. Inv => TableMatchesWaiters
  BY DEF Inv
<1>2. QED
  BY <1>1, InvCorrect, PTL

(* Until the counter comes round, Ok is said of received messages only.    *)
THEOREM AckedCorrect == Spec => []AckedWasReceived
<1>1. Inv => AckedWasReceived
  BY DEF Inv
<1>2. QED
  BY <1>1, InvCorrect, PTL

(* Every call that got past the connection check is counted exactly once.  *)
THEOREM MetricsCorrect == Spec => []MetricsBalance
<1>1. Inv => MetricsBalance
  BY DEF Inv
<1>2. QED
  BY <1>1, InvCorrect, PTL

----------------------------------------------------------------------------
(* When a PUBLISH can carry packet id 0.  allocPacketId() calls fetch_add  *)
(* once more when it is given 0 and does not look at what it gets then:    *)
(* between its two fetch_adds the other threads would have to take all the *)
(* ids there are.  The proof counts what the calls have drawn from the     *)
(* counter.                                                                *)

(* The calls that began, those that have drawn an id, and those that are   *)
(* between their first fetch_add, which gave 0, and their second.          *)
Begun   == {c \in Calls : pc[c] # "idle"}
Between == {c \in Calls : pc[c] = "allocAgain"}
Drawers == {c \in Calls : /\ pc[c] \notin {"idle", "alloc"}
                          /\ result[c] # "NotConnected"
                          /\ IsSync(c) => req[c].qos > 0}

(* What the counter will give, 0 counting as the value after the last one. *)
Upcoming == IF nextPacketId = 0 THEN IdSpace ELSE nextPacketId

(* On its first way round the counter has given an id to every drawer; on  *)
(* the second, 0 as well, to a call that takes another one: that call is   *)
(* still Between, or it has drawn twice.                                   *)
DrawsCounted ==
  /\ ~wrapped => Between = {} /\ Cardinality(Drawers) >= Upcoming - 1
  /\ wrapped => \/ /\ Between = {}
                   /\ Cardinality(Drawers) >= (IdSpace - 1) + Upcoming - 1
                \/ \E c \in Calls : /\ Between = {c}
                                    /\ Cardinality(Drawers) >= (IdSpace - 1) + Upcoming

(* A QoS > 0 call does not go on from allocPacketId() with 0.              *)
IdsUsable == \A c \in Calls : pc[c] \in {"register", "send"} /\ req[c].qos > 0 => id[c] # 0

FewCalls == Cardinality(Begun) < 2 * IdSpace - 1

DrawInv == FewCalls => DrawsCounted /\ IdsUsable /\ PacketIdNonZero

----------------------------------------------------------------------------
(* Counting.                                                               *)

LEMMA Counts ==
  /\ Cardinality(Begun) \in Nat /\ Cardinality(Drawers) \in Nat
  /\ Cardinality(Drawers) <= Cardinality(Begun)
<1>1. IsFiniteSet(Begun) /\ Drawers \subseteq Begun
  BY CallsAssumption, FS_Subset DEF Begun, Drawers
<1>2. QED
  BY <1>1, FS_Subset, FS_CardinalityType

LEMMA CountsGrow ==
  ASSUME Begun \subseteq Begun', Drawers \subseteq Drawers'
  PROVE  /\ Cardinality(Begun) <= Cardinality(Begun')
         /\ Cardinality(Drawers) <= Cardinality(Drawers')
         /\ Cardinality(Begun') \in Nat /\ Cardinality(Drawers') \in Nat
<1>1. IsFiniteSet(Begun') /\ IsFiniteSet(Drawers')
  BY CallsAssumption, FS_Subset DEF Begun, Drawers
<1>2. QED
  BY <1>1, FS_Subset, FS_CardinalityType

LEMMA OneMoreDrawer ==
  ASSUME NEW c \in Calls, c \notin Drawers, Drawers' = Drawers \cup {c}
  PROVE  Cardinality(Drawers') = Cardinality(Drawers) + 1
<1>1. IsFiniteSet(Drawers)
  BY CallsAssumption, FS_Subset DEF Drawers
<1>2. QED
  BY <1>1, FS_AddElement

(* A step that draws nothing, and sends no packet with id 0.               *)
LEMMA NoDraw ==
  ASSUME TypeOK, DrawInv, Begun \subseteq Begun', Drawers \subseteq Drawers',
         Between' = Between, UNCHANGED <<nextPacketId, wrapped>>,
         IdsUsable => IdsUsable',
         IdsUsable /\ PacketIdNonZero => PacketIdNonZero'
  PROVE  DrawInv'
<1>1. FewCalls' => FewCalls
  BY CountsGrow, Counts, IdSpaceAssumption DEF FewCalls
<1>2. DrawsCounted => DrawsCounted'
  <2>1. Upcoming' = Upcoming /\ Upcoming \in Nat
    BY IdSpaceAssumption DEF Upcoming, TypeOK, PacketIds
  <2>2. Cardinality(Drawers) \in Nat /\ Cardinality(Drawers) <= Cardinality(Drawers')
    BY CountsGrow, Counts
  <2>3. Cardinality(Drawers') \in Nat
    BY CountsGrow
  <2>4. QED
    BY <2>1, <2>2, <2>3, IdSpaceAssumption DEF DrawsCounted
<1>3. QED
  BY <1>1, <1>2 DEF DrawInv

(* A step of a call that draws nothing.                                    *)
LEMMA Elsewhere ==
  ASSUME TypeOK, DrawInv, NEW c \in Calls,
         pc' = [pc EXCEPT ![c] = pc'[c]], pc[c] # "idle", pc'[c] \notin {"idle", "alloc"},
         pc[c] # "allocAgain", pc'[c] # "allocAgain",
         result'[c] # "NotConnected",
         \A d \in Calls \ {c} : result'[d] = result[d],
         UNCHANGED <<nextPacketId, wrapped, req, id>>,
         pc'[c] \in {"register", "send"} => pc[c] = "register",
         IdsUsable /\ PacketIdNonZero => PacketIdNonZero'
  PROVE  DrawInv'
<1>1. Begun \subseteq Begun' /\ Drawers \subseteq Drawers' /\ Between' = Between
  BY DEF Begun, Drawers, Between, IsSync, TypeOK
<1>2. IdsUsable => IdsUsable'
  BY DEF IdsUsable, TypeOK
<1>3. QED
  BY <1>1, <1>2, NoDraw

(* A step of no caller.                                                    *)
LEMMA Others ==
  ASSUME TypeOK, DrawInv, UNCHANGED <<pc, result, req, id, nextPacketId, wrapped>>,
         wire' \subseteq wire
  PROVE  DrawInv'
<1>1. Begun' = Begun /\ Drawers' = Drawers /\ Between' = Between
  BY DEF Begun, Drawers, Between, IsSync
<1>2. (IdsUsable => IdsUsable') /\ (PacketIdNonZero => PacketIdNonZero')
  BY DEF IdsUsable, PacketIdNonZero
<1>3. QED
  BY <1>1, <1>2, NoDraw

(* A first fetch_add.                                                      *)
LEMMA FirstDraw ==
  ASSUME TypeOK, CallStructure, DrawInv, NEW c \in Calls, AllocPacketId(c),
         IsSync(c) => req[c].qos > 0
  PROVE  DrawInv'
<1> USE IdSpaceAssumption
<1>a. /\ pc[c] = "alloc" /\ result[c] = "none"
      /\ pc' = [pc EXCEPT ![c] = IF nextPacketId = 0 THEN "allocAgain" ELSE AfterAlloc(c)]
      /\ id' = [id EXCEPT ![c] = nextPacketId]
      /\ nextPacketId' = (nextPacketId + 1) % IdSpace
      /\ wrapped' = (wrapped \/ nextPacketId = 0)
      /\ UNCHANGED <<result, req, wire>>
  BY DEF AllocPacketId, FetchAdd, Goto, CallStructure, netVars
<1>b. AfterAlloc(c) \in {"register", "send"}
  BY DEF AfterAlloc
<1>c. pc'[c] \in {"allocAgain", "register", "send"} /\ \A d \in Calls \ {c} : pc'[d] = pc[d]
  BY <1>a, <1>b DEF TypeOK
<1>1. Begun' = Begun /\ Drawers' = Drawers \cup {c} /\ c \notin Drawers
  <2>1. Begun' = Begun
    BY <1>a, <1>c DEF Begun
  <2>2. \A d \in Calls : d \in Drawers' <=> d \in Drawers \/ d = c
    BY <1>a, <1>c DEF Drawers, IsSync
  <2>3. c \notin Drawers
    BY <1>a DEF Drawers
  <2>4. QED
    BY <2>1, <2>2, <2>3 DEF Drawers
<1>2. Cardinality(Drawers') = Cardinality(Drawers) + 1
  BY <1>1, OneMoreDrawer
<1>3. CASE ~FewCalls'
  BY <1>3 DEF DrawInv
<1>4. CASE FewCalls'
  <2>1. FewCalls /\ DrawsCounted /\ IdsUsable /\ PacketIdNonZero
    BY <1>1, <1>4 DEF FewCalls, DrawInv
  <2>2. Cardinality(Drawers') <= Cardinality(Begun)
    <3>1. IsFiniteSet(Begun) /\ Drawers' \subseteq Begun
      BY <1>1, CallsAssumption, FS_Subset DEF Begun, Drawers
    <3>2. QED
      BY <3>1, FS_Subset
  <2>3. Cardinality(Drawers) + 1 < 2 * IdSpace - 1
    BY <1>2, <2>1, <2>2, Counts DEF FewCalls
  <2>4. IdsUsable' /\ PacketIdNonZero'
    BY <1>a, <1>b, <2>1 DEF IdsUsable, PacketIdNonZero, TypeOK
  <2>5. CASE nextPacketId = 0
    <3>1. Upcoming = IdSpace /\ Upcoming' = 1 /\ wrapped'
      <4>1. (0 + 1) % IdSpace = 1
        BY Z3
      <4>2. nextPacketId' = 1 /\ wrapped'
        BY <1>a, <2>5, <4>1
      <4>3. QED
        BY <2>5, <4>2 DEF Upcoming
    <3>2. ~wrapped
      BY <2>1, <2>3, <3>1, Counts DEF DrawsCounted
    <3>3. Between' = {c}
      BY <1>a, <2>1, <2>5, <3>2 DEF Between, DrawsCounted, TypeOK
    <3>4. Cardinality(Drawers') >= (IdSpace - 1) + Upcoming'
      BY <1>2, <2>1, <3>1, <3>2, Counts DEF DrawsCounted
    <3>5. QED
      BY <2>4, <3>1, <3>3, <3>4 DEF DrawInv, DrawsCounted
  <2>6. CASE nextPacketId # 0
    <3>1. Between' = Between /\ wrapped' = wrapped
      BY <1>a, <1>b, <2>6 DEF Between, TypeOK
    <3>2. nextPacketId \in 1 .. IdSpace - 1
      BY <2>6 DEF TypeOK, PacketIds
    <3>3. Upcoming' = Upcoming + 1
      BY <1>a, <3>2, CounterStep, SMT DEF Upcoming, TypeOK
    <3>4. Upcoming \in Nat /\ Cardinality(Drawers) \in Nat
      BY <3>2, Counts DEF Upcoming
    <3>5. DrawsCounted'
      BY <1>2, <2>1, <3>1, <3>3, <3>4 DEF DrawsCounted
    <3>6. QED
      BY <2>4, <3>5 DEF DrawInv
  <2>7. QED
    BY <2>5, <2>6
<1>5. QED
  BY <1>3, <1>4

(* A second fetch_add: it cannot give 0 before all the ids were drawn      *)
(* twice but for one.                                                      *)
LEMMA SecondDraw ==
  ASSUME TypeOK, CallStructure, DrawInv, NEW c \in Calls, AllocAgain(c),
         IsSync(c) => req[c].qos > 0
  PROVE  DrawInv'
<1> USE IdSpaceAssumption
<1>a. /\ pc[c] = "allocAgain" /\ result[c] = "none"
      /\ pc' = [pc EXCEPT ![c] = AfterAlloc(c)]
      /\ id' = [id EXCEPT ![c] = nextPacketId]
      /\ nextPacketId' = (nextPacketId + 1) % IdSpace
      /\ wrapped' = (wrapped \/ nextPacketId = 0)
      /\ UNCHANGED <<result, req, wire>>
  BY DEF AllocAgain, FetchAdd, Goto, CallStructure, netVars
<1>b. AfterAlloc(c) \in {"register", "send"}
  BY DEF AfterAlloc
<1>c. pc'[c] \in {"register", "send"} /\ \A d \in Calls \ {c} : pc'[d] = pc[d]
  BY <1>a, <1>b DEF TypeOK
<1>1. Begun' = Begun /\ Drawers' = Drawers /\ c \in Between
  <2>1. Begun' = Begun /\ c \in Between
    BY <1>a, <1>c DEF Begun, Between
  <2>2. \A d \in Calls : d \in Drawers' <=> d \in Drawers
    BY <1>a, <1>c DEF Drawers, IsSync
  <2>3. QED
    BY <2>1, <2>2 DEF Drawers
<1>3. CASE ~FewCalls'
  BY <1>3 DEF DrawInv
<1>4. CASE FewCalls'
  <2>1. FewCalls /\ DrawsCounted /\ IdsUsable /\ PacketIdNonZero
    BY <1>1, <1>4 DEF FewCalls, DrawInv
  <2>2. /\ wrapped /\ Between = {c}
        /\ Cardinality(Drawers) >= (IdSpace - 1) + Upcoming
    BY <1>1, <2>1 DEF DrawsCounted
  <2>3. nextPacketId # 0
    BY <2>1, <2>2, Counts DEF FewCalls, Upcoming
  <2>4. IdsUsable' /\ PacketIdNonZero'
    BY <1>a, <1>b, <2>1, <2>3 DEF IdsUsable, PacketIdNonZero, TypeOK
  <2>5. Between' = {} /\ wrapped'
    BY <1>a, <1>b, <2>2 DEF Between, TypeOK
  <2>6. nextPacketId \in 1 .. IdSpace - 1
    BY <2>3 DEF TypeOK, PacketIds
  <2>7. Upcoming' = Upcoming + 1
    BY <1>a, <2>6, CounterStep, SMT DEF Upcoming, TypeOK
  <2>8. Cardinality(Drawers') >= (IdSpace - 1) + Upcoming' - 1
    <3>1. Upcoming \in Nat /\ Cardinality(Drawers) \in Nat
      BY <2>6, Counts DEF Upcoming
    <3>2. QED
      BY <1>1, <2>2, <2>7, <3>1
  <2>9. QED
    BY <2>4, <2>5, <2>8 DEF DrawInv, DrawsCounted
<1>5. QED
  BY <1>3, <1>4

----------------------------------------------------------------------------
LEMMA InitDraw == Init => DrawInv
<1> SUFFICES ASSUME Init PROVE DrawInv
  OBVIOUS
<1>1. Between = {} /\ Upcoming = 1 /\ ~wrapped
  BY DEF Init, Between, Upcoming
<1>2. DrawsCounted
  BY <1>1, Counts DEF DrawsCounted
<1>3. IdsUsable /\ PacketIdNonZero
  BY DEF Init, IdsUsable, PacketIdNonZero
<1>4. QED
  BY <1>2, <1>3 DEF DrawInv

(* Only a call that is to be given an id goes through allocPacketId().     *)
AllocatesId ==
  \A c \in Calls : pc[c] \in {"alloc", "allocAgain"} /\ IsSync(c) => req[c].qos > 0

LEMMA NextDraw ==
  TypeOK /\ CallStructure /\ AllocatesId /\ DrawInv /\ [Next]_vars => DrawInv'
<1> SUFFICES ASSUME TypeOK, CallStructure, AllocatesId, DrawInv, [Next]_vars PROVE DrawInv'
  OBVIOUS
<1> USE DEF tableVars, callVars, metricVars, netVars, Goto, Return
<1>1. ASSUME NEW c \in Calls, NEW r \in Requests, Publish(c, r) PROVE DrawInv'
  <2>1. Begun \subseteq Begun' /\ Drawers \subseteq Drawers' /\ Between' = Between
    BY <1>1 DEF Publish, Begun, Drawers, Between, IsSync, TypeOK
  <2>2. IdsUsable => IdsUsable'
    BY <1>1 DEF Publish, IdsUsable, TypeOK
  <2>3. UNCHANGED <<nextPacketId, wrapped, wire>>
    BY <1>1 DEF Publish
  <2>4. QED
    BY <2>1, <2>2, <2>3, NoDraw DEF PacketIdNonZero
<1>2. ASSUME NEW c \in Calls, NEW r \in Requests, PublishAsync(c, r) PROVE DrawInv'
  <2>1. Begun \subseteq Begun' /\ Drawers \subseteq Drawers' /\ Between' = Between
    BY <1>2 DEF PublishAsync, Begun, Drawers, Between, IsSync, TypeOK
  <2>2. IdsUsable => IdsUsable'
    BY <1>2 DEF PublishAsync, IdsUsable, TypeOK
  <2>3. UNCHANGED <<nextPacketId, wrapped, wire>>
    BY <1>2 DEF PublishAsync
  <2>4. QED
    BY <2>1, <2>2, <2>3, NoDraw DEF PacketIdNonZero
<1>3. ASSUME NEW c \in Calls, AllocPacketId(c) PROVE DrawInv'
  BY <1>3, FirstDraw DEF AllocatesId, AllocPacketId
<1>4. ASSUME NEW c \in Calls, AllocAgain(c) PROVE DrawInv'
  BY <1>4, SecondDraw DEF AllocatesId, AllocAgain
<1>5. ASSUME NEW c \in Calls, Register(c) PROVE DrawInv'
  BY <1>5, Elsewhere DEF Register, TypeOK, CallStructure, PacketIdNonZero
<1>6. ASSUME NEW c \in Calls, SendOk(c) PROVE DrawInv'
  <2>1. IdsUsable /\ PacketIdNonZero => PacketIdNonZero'
    BY <1>6 DEF SendOk, IdsUsable, PacketIdNonZero
  <2>2. QED
    BY <1>6, <2>1, Elsewhere DEF SendOk, TypeOK, CallStructure
<1>7. ASSUME NEW c \in Calls, SendError(c) PROVE DrawInv'
  BY <1>7, Elsewhere DEF SendError, TypeOK, CallStructure, PacketIdNonZero
<1>8. ASSUME NEW c \in Calls, SendErrorCleanup(c) PROVE DrawInv'
  BY <1>8, Elsewhere DEF SendErrorCleanup, TypeOK, CallStructure, PacketIdNonZero
<1>9. ASSUME NEW c \in Calls, AwaitResolved(c) PROVE DrawInv'
  BY <1>9, Elsewhere DEF AwaitResolved, TypeOK, CallStructure, PacketIdNonZero
<1>10. ASSUME NEW c \in Calls, AwaitTimeout(c) PROVE DrawInv'
  BY <1>10, Elsewhere DEF AwaitTimeout, TypeOK, CallStructure, PacketIdNonZero
<1>11. ASSUME NEW c \in Calls, TimeoutErase(c) PROVE DrawInv'
  BY <1>11, Elsewhere DEF TimeoutErase, TypeOK, CallStructure, PacketIdNonZero
<1>12. ASSUME NEW c \in Calls, RunCallback(c) PROVE DrawInv'
  BY <1>12, Others DEF RunCallback
<1>13. ASSUME NEW s \in States, TransitionState(s) PROVE DrawInv'
  BY <1>13, Others DEF TransitionState
<1>14. ASSUME FailAllPending PROVE DrawInv'
  BY <1>14, Others DEF FailAllPending
<1>15. ASSUME NEW a \in acks, RecvPuback(a) PROVE DrawInv'
  BY <1>15, Others DEF RecvPuback
<1>16. ASSUME NEW p \in wire, BrokerReceive(p) PROVE DrawInv'
  BY <1>16, Others DEF BrokerReceive
<1>17. ASSUME NEW p \in wire, LosePublish(p) PROVE DrawInv'
  BY <1>17, Others DEF LosePublish
<1>18. ASSUME NEW a \in acks, LosePuback(a) PROVE DrawInv'
  BY <1>18, Others DEF LosePuback
<1>19. CASE UNCHANGED vars
  BY <1>19, Others DEF vars
<1> QED
  BY <1>1, <1>2, <1>3, <1>4, <1>5, <1>6, <1>7, <1>8, <1>9, <1>10,
     <1>11, <1>12, <1>13, <1>14, <1>15, <1>16, <1>17, <1>18, <1>19
  DEF Next, Begin, Continue, Connection, Network

LEMMA NextAllocates == TypeOK /\ AllocatesId /\ [Next]_vars => AllocatesId'
<1> SUFFICES ASSUME TypeOK, AllocatesId, [Next]_vars PROVE AllocatesId'
  OBVIOUS
<1> USE DEF TypeOK, AllocatesId, IsSync, tableVars, callVars, metricVars, netVars, Goto, Return
<1>1. ASSUME NEW c \in Calls, NEW r \in Requests, Publish(c, r) PROVE AllocatesId'
  BY <1>1 DEF Publish
<1>2. ASSUME NEW c \in Calls, NEW r \in Requests, PublishAsync(c, r) PROVE AllocatesId'
  BY <1>2 DEF PublishAsync
<1>3. ASSUME NEW c \in Calls, AllocPacketId(c) \/ AllocAgain(c) PROVE AllocatesId'
  BY <1>3 DEF AllocPacketId, AllocAgain, FetchAdd, AfterAlloc
<1>4. ASSUME NEW c \in Calls,
             \/ Register(c) \/ SendOk(c) \/ SendError(c) \/ SendErrorCleanup(c)
             \/ AwaitResolved(c) \/ AwaitTimeout(c) \/ TimeoutErase(c)
      PROVE  AllocatesId'
  BY <1>4 DEF Register, SendOk, SendError, SendErrorCleanup, AwaitResolved, AwaitTimeout,
              TimeoutErase
<1>5. ASSUME NEW c \in Calls, RunCallback(c) PROVE AllocatesId'
  BY <1>5 DEF RunCallback
<1>6. CASE Connection \/ Network \/ UNCHANGED vars
  BY <1>6 DEF Connection, Network, TransitionState, FailAllPending, RecvPuback, BrokerReceive,
              LosePublish, LosePuback, vars
<1> QED
  BY <1>1, <1>2, <1>3, <1>4, <1>5, <1>6 DEF Next, Begin, Continue

(* Of fewer than 2 * IdSpace - 1 calls, none sends a PUBLISH of QoS > 0    *)
(* with packet id 0, whichever way the threads overtake one another in     *)
(* allocPacketId(): for 0 to be drawn by a second fetch_add, IdSpace - 1   *)
(* calls draw before its first one, and as many between the two.           *)
THEOREM PacketIdsCorrect == Spec => [](FewCalls => PacketIdNonZero)
<1>1. Init => AllocatesId
  BY DEF Init, AllocatesId
<1>2. Inv => TypeOK /\ CallStructure
  BY DEF Inv
<1>3. DrawInv => (FewCalls => PacketIdNonZero)
  BY DEF DrawInv
<1>4. QED
  BY <1>1, <1>2, <1>3, InvCorrect, InitDraw, NextDraw, NextAllocates, PTL DEF Spec
=============================================================================

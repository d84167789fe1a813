----------------------- MODULE PublishContract_proofs -----------------------
(***************************************************************************)
(* The publish path of PublishTracking implements PublishContract, for any *)
(* number of calls, any width of the packet-id counter and any behaviour   *)
(* of the connection and the network.                                      *)
(***************************************************************************)
EXTENDS PublishTracking_proofs

(* A call whose packet is, or was, in the socket.                          *)
WasSent(c) == c \in received \/ \E p \in wire : p.call = c

(* A packet is sent by a call that goes on to wait or to return Ok, and is *)
(* on the wire once.                                                       *)
SentOnce ==
  /\ \A c \in Calls : WasSent(c) =>
       /\ pc[c] \in {"await", "timedOut", "done"}
       /\ result[c] \notin {"NotConnected", "PublishFailed"}
  /\ \A p, q \in wire : p.call = q.call => p = q
  /\ \A p \in wire : p.call \notin received

(* The callbacks that a thread will run, and those the caller still has.   *)
CallbackStructure ==
  \A c \in Calls :
    /\ callback[c] = "waiting" => future[c] # "none"
    /\ pc[c] = "send" /\ ~IsTracked(c) => callback[c] = "none"

(* A promise is destroyed under a waiter only by a call with the same id;  *)
(* before ids come round there is none, and nothing is stored at 0.        *)
BrokenWasReused ==
  ~wrapped =>
    /\ pendingPubacks[0] = NoCall
    /\ \A c \in Calls : future[c] = "broken" => pc[c] = "done" /\ IsSync(c)

SendInv == Inv /\ SentOnce /\ CallbackStructure /\ BrokenWasReused

----------------------------------------------------------------------------
LEMMA InitSend == Init => SentOnce /\ CallbackStructure /\ BrokenWasReused
  BY IdSpaceAssumption DEF Init, SentOnce, WasSent, CallbackStructure, BrokenWasReused, PacketIds

LEMMA NextSentOnce == TypeOK /\ CallStructure /\ SentOnce /\ [Next]_vars => SentOnce'
<1> SUFFICES ASSUME TypeOK, CallStructure, SentOnce, [Next]_vars PROVE SentOnce'
  OBVIOUS
<1> USE DEF TypeOK, CallStructure, SentOnce, WasSent, Packet, tableVars, callVars, metricVars,
            netVars, Goto, Return
<1>1. ASSUME NEW c \in Calls, NEW r \in Requests, Publish(c, r) PROVE SentOnce'
  BY <1>1 DEF Publish
<1>2. ASSUME NEW c \in Calls, NEW r \in Requests, PublishAsync(c, r) PROVE SentOnce'
  BY <1>2 DEF PublishAsync
<1>3. ASSUME NEW c \in Calls, AllocPacketId(c) PROVE SentOnce'
  BY <1>3 DEF AllocPacketId, FetchAdd, AfterAlloc
<1>4. ASSUME NEW c \in Calls, AllocAgain(c) PROVE SentOnce'
  BY <1>4 DEF AllocAgain, FetchAdd, AfterAlloc
<1>5. ASSUME NEW c \in Calls, Register(c) PROVE SentOnce'
  BY <1>5 DEF Register
<1>6. ASSUME NEW c \in Calls, SendOk(c) PROVE SentOnce'
  BY <1>6 DEF SendOk
<1>7. ASSUME NEW c \in Calls, SendError(c) PROVE SentOnce'
  BY <1>7 DEF SendError
<1>8. ASSUME NEW c \in Calls, SendErrorCleanup(c) PROVE SentOnce'
  BY <1>8 DEF SendErrorCleanup, Erase
<1>9. ASSUME NEW c \in Calls, AwaitResolved(c) PROVE SentOnce'
  <2>1. result'[c] \notin {"NotConnected", "PublishFailed"}
    BY <1>9 DEF AwaitResolved
  <2>2. QED
    BY <1>9, <2>1 DEF AwaitResolved
<1>10. ASSUME NEW c \in Calls, AwaitTimeout(c) PROVE SentOnce'
  BY <1>10 DEF AwaitTimeout
<1>11. ASSUME NEW c \in Calls, TimeoutErase(c) PROVE SentOnce'
  BY <1>11 DEF TimeoutErase, Erase
<1>12. ASSUME NEW c \in Calls, RunCallback(c) PROVE SentOnce'
  BY <1>12 DEF RunCallback
<1>13. ASSUME NEW s \in States, TransitionState(s) PROVE SentOnce'
  BY <1>13 DEF TransitionState
<1>14. ASSUME FailAllPending PROVE SentOnce'
  BY <1>14 DEF FailAllPending
<1>15. ASSUME NEW a \in acks, RecvPuback(a) PROVE SentOnce'
  BY <1>15 DEF RecvPuback
<1>16. ASSUME NEW p \in wire, BrokerReceive(p) PROVE SentOnce'
  BY <1>16 DEF BrokerReceive
<1>17. ASSUME NEW p \in wire, LosePublish(p) PROVE SentOnce'
  BY <1>17 DEF LosePublish
<1>18. ASSUME NEW a \in acks, LosePuback(a) PROVE SentOnce'
  BY <1>18 DEF LosePuback
<1>19. CASE UNCHANGED vars
  BY <1>19 DEF vars
<1> QED
  BY <1>1, <1>2, <1>3, <1>4, <1>5, <1>6, <1>7, <1>8, <1>9, <1>10,
     <1>11, <1>12, <1>13, <1>14, <1>15, <1>16, <1>17, <1>18, <1>19
  DEF Next, Begin, Continue, Connection, Network

LEMMA NextCallbacks ==
  TypeOK /\ CallStructure /\ CallbackStructure /\ [Next]_vars => CallbackStructure'
<1> SUFFICES ASSUME TypeOK, CallStructure, CallbackStructure, [Next]_vars
             PROVE  CallbackStructure'
  OBVIOUS
<1> USE DEF TypeOK, CallStructure, CallbackStructure, IsSync, IsTracked, tableVars, callVars,
            metricVars, netVars, Goto, Return
<1>1. ASSUME NEW c \in Calls, NEW r \in Requests, Publish(c, r) PROVE CallbackStructure'
  BY <1>1 DEF Publish
<1>2. ASSUME NEW c \in Calls, NEW r \in Requests, PublishAsync(c, r) PROVE CallbackStructure'
  BY <1>2 DEF PublishAsync
<1>3. ASSUME NEW c \in Calls, AllocPacketId(c) PROVE CallbackStructure'
  BY <1>3 DEF AllocPacketId, FetchAdd, AfterAlloc
<1>4. ASSUME NEW c \in Calls, AllocAgain(c) PROVE CallbackStructure'
  BY <1>4 DEF AllocAgain, FetchAdd, AfterAlloc
<1>5. ASSUME NEW c \in Calls, Register(c) PROVE CallbackStructure'
  BY <1>5 DEF Register, BreakAt
<1>6. ASSUME NEW c \in Calls, SendOk(c) PROVE CallbackStructure'
  BY <1>6 DEF SendOk
<1>7. ASSUME NEW c \in Calls, SendError(c) PROVE CallbackStructure'
  BY <1>7 DEF SendError
<1>8. ASSUME NEW c \in Calls, SendErrorCleanup(c) PROVE CallbackStructure'
  BY <1>8 DEF SendErrorCleanup, Erase, BreakAt
<1>9. ASSUME NEW c \in Calls, AwaitResolved(c) PROVE CallbackStructure'
  BY <1>9 DEF AwaitResolved
<1>10. ASSUME NEW c \in Calls, AwaitTimeout(c) PROVE CallbackStructure'
  BY <1>10 DEF AwaitTimeout
<1>11. ASSUME NEW c \in Calls, TimeoutErase(c) PROVE CallbackStructure'
  BY <1>11 DEF TimeoutErase, Erase, BreakAt
<1>12. ASSUME NEW c \in Calls, RunCallback(c) PROVE CallbackStructure'
  BY <1>12 DEF RunCallback
<1>13. ASSUME NEW s \in States, TransitionState(s) PROVE CallbackStructure'
  BY <1>13 DEF TransitionState
<1>14. ASSUME FailAllPending PROVE CallbackStructure'
  BY <1>14 DEF FailAllPending
<1>15. ASSUME NEW a \in acks, RecvPuback(a) PROVE CallbackStructure'
  BY <1>15 DEF RecvPuback
<1>16. ASSUME NEW p \in wire, BrokerReceive(p) PROVE CallbackStructure'
  BY <1>16 DEF BrokerReceive
<1>17. ASSUME NEW p \in wire, LosePublish(p) PROVE CallbackStructure'
  BY <1>17 DEF LosePublish
<1>18. ASSUME NEW a \in acks, LosePuback(a) PROVE CallbackStructure'
  BY <1>18 DEF LosePuback
<1>19. CASE UNCHANGED vars
  BY <1>19 DEF vars
<1> QED
  BY <1>1, <1>2, <1>3, <1>4, <1>5, <1>6, <1>7, <1>8, <1>9, <1>10,
     <1>11, <1>12, <1>13, <1>14, <1>15, <1>16, <1>17, <1>18, <1>19
  DEF Next, Begin, Continue, Connection, Network

LEMMA NextBroken ==
  TypeOK /\ CallStructure /\ TableMatchesWaiters /\ IdsFresh /\ BrokenWasReused /\ [Next]_vars
    => BrokenWasReused'
<1> SUFFICES ASSUME TypeOK, CallStructure, TableMatchesWaiters, IdsFresh, BrokenWasReused,
                    [Next]_vars, ~wrapped'
             PROVE  BrokenWasReused'
  BY DEF BrokenWasReused
<1>0. ASSUME NEW c \in Calls, ~wrapped, NEW d \in Calls,
             BreakAt(id[c], future)[d] = "broken", d # c
      PROVE  future[d] = "broken"
  <2>1. id[c] \in PacketIds /\ BreakAt(id[c], future)[d] =
                                 IF pendingPubacks[id[c]] = d THEN "broken" ELSE future[d]
    BY DEF BreakAt, TypeOK
  <2>2. SUFFICES ASSUME pendingPubacks[id[c]] = d PROVE FALSE
    BY <1>0, <2>1
  <2>3. id[d] = id[c] /\ id[c] # 0
    BY <1>0, <2>1, <2>2, CallsAssumption DEF TableMatchesWaiters, BrokenWasReused
  <2>4. QED
    BY <1>0, <2>3 DEF IdsFresh
<1> USE CallsAssumption DEF BrokenWasReused, CallStructure, IsSync, IsTracked, tableVars,
   callVars, metricVars,
            netVars, Goto, Return
<1>1. ASSUME NEW c \in Calls, NEW r \in Requests, Publish(c, r) PROVE BrokenWasReused'
  BY <1>1 DEF Publish, TypeOK
<1>2. ASSUME NEW c \in Calls, NEW r \in Requests, PublishAsync(c, r) PROVE BrokenWasReused'
  BY <1>2 DEF PublishAsync, TypeOK
<1>3. ASSUME NEW c \in Calls, AllocPacketId(c) PROVE BrokenWasReused'
  BY <1>3 DEF AllocPacketId, FetchAdd, AfterAlloc, TypeOK
<1>4. ASSUME NEW c \in Calls, AllocAgain(c) PROVE BrokenWasReused'
  BY <1>4 DEF AllocAgain, FetchAdd, AfterAlloc, TypeOK
<1>5. ASSUME NEW c \in Calls, Register(c) PROVE BrokenWasReused'
  <2>1. ~wrapped /\ id[c] # 0
    BY <1>5 DEF Register, IdsFresh
  <2>2. \A d \in Calls : future'[d] = "broken" => future[d] = "broken" /\ d # c
    BY <1>0, <1>5, <2>1 DEF Register, TypeOK, BreakAt
  <2>3. pendingPubacks'[0] = NoCall
    BY <1>5, <2>1, IdSpaceAssumption DEF Register, TypeOK, PacketIds
  <2>4. QED
    BY <1>5, <2>1, <2>2, <2>3 DEF Register, TypeOK
<1>6. ASSUME NEW c \in Calls, SendOk(c) PROVE BrokenWasReused'
  BY <1>6 DEF SendOk, TypeOK
<1>7. ASSUME NEW c \in Calls, SendError(c) PROVE BrokenWasReused'
  BY <1>7 DEF SendError, TypeOK
<1>8. ASSUME NEW c \in Calls, SendErrorCleanup(c) PROVE BrokenWasReused'
  <2>1. ~wrapped
    BY <1>8 DEF SendErrorCleanup
  <2>2. \A d \in Calls : future'[d] = "broken" => future[d] = "broken" \/ d = c
    BY <1>0, <1>8, <2>1 DEF SendErrorCleanup, Erase
  <2>3. QED
    BY <1>8, <2>1, <2>2 DEF SendErrorCleanup, Erase, TypeOK, PacketIds
<1>9. ASSUME NEW c \in Calls, AwaitResolved(c) PROVE BrokenWasReused'
  BY <1>9 DEF AwaitResolved, TypeOK
<1>10. ASSUME NEW c \in Calls, AwaitTimeout(c) PROVE BrokenWasReused'
  BY <1>10 DEF AwaitTimeout, TypeOK
<1>11. ASSUME NEW c \in Calls, TimeoutErase(c) PROVE BrokenWasReused'
  <2>1. ~wrapped
    BY <1>11 DEF TimeoutErase
  <2>2. \A d \in Calls : future'[d] = "broken" => future[d] = "broken" \/ d = c
    BY <1>0, <1>11, <2>1 DEF TimeoutErase, Erase
  <2>3. QED
    BY <1>11, <2>1, <2>2 DEF TimeoutErase, Erase, TypeOK, PacketIds
<1>12. ASSUME NEW c \in Calls, RunCallback(c) PROVE BrokenWasReused'
  BY <1>12 DEF RunCallback, TypeOK
<1>13. ASSUME NEW s \in States, TransitionState(s) PROVE BrokenWasReused'
  BY <1>13 DEF TransitionState, TypeOK
<1>14. ASSUME FailAllPending PROVE BrokenWasReused'
  BY <1>14, IdSpaceAssumption DEF FailAllPending, TypeOK, PacketIds
<1>15. ASSUME NEW a \in acks, RecvPuback(a) PROVE BrokenWasReused'
  BY <1>15, IdSpaceAssumption DEF RecvPuback, TypeOK, PacketIds
<1>16. ASSUME NEW p \in wire, BrokerReceive(p) PROVE BrokenWasReused'
  BY <1>16 DEF BrokerReceive
<1>17. ASSUME NEW p \in wire, LosePublish(p) PROVE BrokenWasReused'
  BY <1>17 DEF LosePublish
<1>18. ASSUME NEW a \in acks, LosePuback(a) PROVE BrokenWasReused'
  BY <1>18 DEF LosePuback
<1>19. CASE UNCHANGED vars
  BY <1>19 DEF vars
<1> QED
  BY <1>1, <1>2, <1>3, <1>4, <1>5, <1>6, <1>7, <1>8, <1>9, <1>10,
     <1>11, <1>12, <1>13, <1>14, <1>15, <1>16, <1>17, <1>18, <1>19
  DEF Next, Begin, Continue, Connection, Network

LEMMA SendInvCorrect == Spec => []SendInv
<1>1. Init => SendInv
  BY InitTypeOK, InitStructure, InitTable, InitIds, InitOk, InitAcked, InitMetrics, InitSend
  DEF SendInv, Inv
<1>2. SendInv /\ [Next]_vars => SendInv'
  BY NextTypeOK, NextStructure, NextTable, NextIds, NextOk, NextAcked, NextMetrics,
     NextSentOnce, NextCallbacks, NextBroken
  DEF SendInv, Inv
<1>3. QED
  BY <1>1, <1>2, PTL DEF Spec

----------------------------------------------------------------------------
(* Every step of the publish path is one of the contract, or is invisible. *)

LEMMA InitRefines == Init => Contract!Init
  BY DEF Init, Contract!Init, NoRequest

(* The step of one call, one lemma for each place where it can be seen.    *)

LEMMA Invisible ==
  ASSUME {c \in Calls : pc[c] # "idle"}' = {c \in Calls : pc[c] # "idle"},
         UNCHANGED <<req, received, result, published, publishFailures, wrapped>>,
         [c \in Calls |-> IF callback[c] = "waiting" THEN "none" ELSE callback[c]]' =
           [c \in Calls |-> IF callback[c] = "waiting" THEN "none" ELSE callback[c]]
  PROVE  [Contract!Next]_(Contract!vars)
  BY DEF Contract!vars

LEMMA BeginRefines ==
  ASSUME SendInv, NEW c \in Calls, NEW r \in Requests, Publish(c, r) \/ PublishAsync(c, r)
  PROVE  Contract!Ask(c, r) \/ Contract!Refuse(c, r)
<1> USE DEF SendInv, Inv, TypeOK, tableVars, callVars, metricVars, netVars, Goto, Return
<1>1. {d \in Calls : pc[d] # "idle"}' = {d \in Calls : pc[d] # "idle"} \cup {c}
  BY DEF Publish, PublishAsync
<1>2. c \notin {d \in Calls : pc[d] # "idle"}
  BY DEF Publish, PublishAsync
<1>3. UNCHANGED <<callback, received, published, publishFailures, wrapped>>
  BY DEF Publish, PublishAsync
<1>4. req' = [req EXCEPT ![c] = r]
  BY DEF Publish, PublishAsync
<1>5. result' = result \/ result' = [result EXCEPT ![c] = "NotConnected"]
  BY DEF Publish, PublishAsync
<1>6. QED
  BY <1>1, <1>2, <1>3, <1>4, <1>5 DEF Contract!Ask, Contract!Refuse

(* What an answer changes in the eyes of the user.                         *)
LEMMA AnswerRefines ==
  ASSUME SendInv, NEW c \in Calls, pc[c] \notin {"idle", "done"}, NEW o,
         pc' = [pc EXCEPT ![c] = "done"], result' = [result EXCEPT ![c] = o],
         UNCHANGED <<req, received, wrapped>>
  PROVE  Contract!Answer(c, o)
<1>1. {d \in Calls : pc[d] # "idle"}' = {d \in Calls : pc[d] # "idle"}
  BY DEF SendInv, Inv, TypeOK
<1>2. result[c] = "none"
  BY DEF SendInv, Inv, CallStructure
<1>3. QED
  BY <1>1, <1>2 DEF Contract!Answer

LEMMA SendOkRefines ==
  ASSUME SendInv, NEW c \in Calls, SendOk(c)
  PROVE  [Contract!Next]_(Contract!vars)
<1> USE DEF SendInv, Inv, TypeOK, tableVars, callVars, metricVars, netVars, Goto, Return
<1>1. CASE IsSync(c) /\ req[c].qos > 0
  BY <1>1, Invisible DEF SendOk
<1>2. CASE ~(IsSync(c) /\ req[c].qos > 0)
  <2>1. Contract!Answer(c, "Ok")
    BY <1>2, AnswerRefines DEF SendOk
  <2>2. Contract!Succeed(c)
    BY <1>2, <2>1 DEF SendOk, IsSync, Contract!Succeed, Contract!Sync
  <2>3. QED
    BY <2>2 DEF Contract!Next
<1>3. QED
  BY <1>1, <1>2

LEMMA SendErrorRefines ==
  ASSUME SendInv, NEW c \in Calls, SendError(c)
  PROVE  [Contract!Next]_(Contract!vars)
<1> USE DEF SendInv, Inv, TypeOK, tableVars, callVars, metricVars, netVars, Goto, Return
<1>1. CASE IsSync(c) /\ req[c].qos > 0
  BY <1>1, Invisible DEF SendError
<1>2. CASE ~(IsSync(c) /\ req[c].qos > 0)
  <2>1. Contract!Answer(c, "PublishFailed")
    BY <1>2, AnswerRefines DEF SendError
  <2>2. c \notin received
    BY DEF SendError, SentOnce, WasSent
  <2>3. publishFailures' = publishFailures + 1 /\ published' = published
    BY <1>2 DEF SendError
  <2>4. CASE ~IsSync(c) /\ req[c].cb /\ ~IsTracked(c)
    <3>1. callback[c] = "none" /\ callback' = [callback EXCEPT ![c] = "PublishFailed"]
      BY <1>2, <2>4 DEF SendError, CallbackStructure
    <3>2. Contract!Fail(c)
      BY <2>1, <2>2, <2>3, <2>4, <3>1 DEF IsSync, Contract!Fail, Contract!Sync
    <3>3. QED
      BY <3>2 DEF Contract!Next
  <2>5. CASE ~(~IsSync(c) /\ req[c].cb /\ ~IsTracked(c))
    <3>1. callback' = callback
      BY <1>2, <2>5 DEF SendError
    <3>2. Contract!Fail(c)
      BY <2>1, <2>2, <2>3, <3>1 DEF Contract!Fail
    <3>3. QED
      BY <3>2 DEF Contract!Next
  <2>6. QED
    BY <2>4, <2>5
<1>3. QED
  BY <1>1, <1>2

LEMMA CleanupRefines ==
  ASSUME SendInv, NEW c \in Calls, SendErrorCleanup(c)
  PROVE  Contract!Fail(c)
<1> USE DEF SendInv, Inv, TypeOK, tableVars, callVars, metricVars, netVars, Goto, Return, Erase
<1>1. Contract!Answer(c, "PublishFailed")
  BY AnswerRefines DEF SendErrorCleanup
<1>2. c \notin received
  BY DEF SendErrorCleanup, SentOnce, WasSent
<1>3. QED
  BY <1>1, <1>2 DEF SendErrorCleanup, Contract!Fail

LEMMA TimeoutRefines ==
  ASSUME SendInv, NEW c \in Calls, TimeoutErase(c)
  PROVE  Contract!GiveUp(c)
<1> USE DEF SendInv, Inv, TypeOK, tableVars, callVars, metricVars, netVars, Goto, Return, Erase
<1>1. Contract!Answer(c, "PublishTimeout")
  BY AnswerRefines DEF TimeoutErase
<1>2. IsSync(c) /\ req[c].qos > 0
  BY DEF TimeoutErase, CallStructure
<1>3. QED
  BY <1>1, <1>2 DEF TimeoutErase, IsSync, Contract!GiveUp, Contract!Sync

LEMMA AwaitRefines ==
  ASSUME SendInv, NEW c \in Calls, AwaitResolved(c)
  PROVE  Contract!Succeed(c) \/ Contract!GiveUp(c) \/ Contract!Throw(c)
<1> USE DEF SendInv, Inv, tableVars, callVars, metricVars, netVars, Goto, Return
<1>1. IsSync(c) /\ req[c].qos > 0
  BY DEF AwaitResolved, CallStructure
<1>2. Contract!Sync(c) /\ req[c].qos > 0
  BY <1>1 DEF IsSync, Contract!Sync
<1>3. future[c] \in {"Ok", "ConnectionLost", "broken"}
  BY <1>1 DEF AwaitResolved, CallStructure, TypeOK
<1>4. CASE future[c] = "Ok"
  <2>1. Contract!Answer(c, "Ok")
    BY <1>4, AnswerRefines DEF AwaitResolved
  <2>2. Contract!MayConfirm(c)
    BY <1>4 DEF OkWasReceived, Contract!MayConfirm
  <2>3. Contract!Succeed(c)
    BY <1>4, <2>1, <2>2 DEF AwaitResolved, Contract!Succeed
  <2>4. QED
    BY <2>3
<1>5. CASE future[c] = "ConnectionLost"
  <2>1. Contract!Answer(c, "ConnectionLost")
    BY <1>5, AnswerRefines DEF AwaitResolved
  <2>2. QED
    BY <1>2, <1>5, <2>1 DEF AwaitResolved, Contract!GiveUp
<1>6. CASE future[c] = "broken"
  <2>1. Contract!Answer(c, "exception")
    BY <1>6, AnswerRefines DEF AwaitResolved
  <2>2. wrapped = TRUE
    BY <1>6 DEF AwaitResolved, BrokenWasReused, TypeOK
  <2>3. QED
    BY <1>2, <1>6, <2>1, <2>2 DEF AwaitResolved, Contract!Throw
<1>7. QED
  BY <1>3, <1>4, <1>5, <1>6

LEMMA CallbackRefines ==
  ASSUME SendInv, NEW c \in Calls, RunCallback(c)
  PROVE  \E o \in {"Ok", "ConnectionLost", "dropped"} : Contract!Tell(c, o)
<1> DEFINE o == IF future[c] = "broken" THEN "dropped" ELSE future[c]
           told == [d \in Calls |-> IF callback[d] = "waiting" THEN "none" ELSE callback[d]]
<1>1. future[c] \in {"Ok", "ConnectionLost", "broken"}
  BY DEF SendInv, Inv, TypeOK, RunCallback, CallbackStructure
<1>2. IsTracked(c) /\ ~IsSync(c) /\ pc[c] # "idle"
  BY DEF SendInv, Inv, RunCallback, CallStructure
<1>3. callback' = [callback EXCEPT ![c] = o] /\ o # "waiting" /\ callback[c] = "waiting"
  BY <1>1 DEF RunCallback
<1>4. told[c] = "none" /\ told' = [told EXCEPT ![c] = o]
  BY <1>3 DEF SendInv, Inv, TypeOK
<1>5. /\ o = "Ok" => Contract!MayConfirm(c)
      /\ o = "dropped" => wrapped
      /\ o \in {"Ok", "ConnectionLost", "dropped"}
  <2>1. future[c] = "Ok" => Contract!MayConfirm(c)
    BY DEF SendInv, Inv, OkWasReceived, Contract!MayConfirm
  <2>2. future[c] = "broken" => wrapped
    BY <1>2 DEF SendInv, BrokenWasReused
  <2>3. QED
    BY <1>1, <2>1, <2>2
<1>6. /\ {d \in Calls : pc[d] # "idle"}' = {d \in Calls : pc[d] # "idle"}
      /\ UNCHANGED <<req, received, result, published, publishFailures, wrapped>>
  BY DEF RunCallback, tableVars, callVars, metricVars, netVars
<1>7. ~Contract!Sync(c) /\ Contract!Acknowledged(c)
  BY <1>2 DEF IsTracked, IsSync, Contract!Sync, Contract!Acknowledged
<1>8. wrapped \in BOOLEAN
  BY DEF SendInv, Inv, TypeOK
<1> HIDE DEF o
<1>9. QED
  BY <1>2, <1>4, <1>5, <1>6, <1>7, <1>8 DEF Contract!Tell

LEMMA NetworkRefines ==
  ASSUME SendInv, NEW p \in wire, BrokerReceive(p)
  PROVE  \E c \in Calls : Contract!Deliver(c)
<1>1. p.call \in Calls
  BY DEF SendInv, Inv, TypeOK, Packet
<1>2. /\ p.call \in {c \in Calls : pc[c] # "idle"} \ received
      /\ result[p.call] \notin {"NotConnected", "PublishFailed"}
  BY <1>1 DEF SendInv, SentOnce, WasSent
<1>3. /\ {c \in Calls : pc[c] # "idle"}' = {c \in Calls : pc[c] # "idle"}
      /\ received' = received \cup {p.call}
      /\ UNCHANGED <<req, result, callback, published, publishFailures, wrapped>>
  BY DEF BrokerReceive, tableVars, callVars, metricVars
<1>4. Contract!Deliver(p.call)
  BY <1>2, <1>3 DEF Contract!Deliver
<1>5. QED
  BY <1>1, <1>4

(* The allocation of an id is invisible, unless it shows that ids were     *)
(* used up.                                                                *)
LEMMA AllocRefines ==
  ASSUME SendInv, NEW c \in Calls, NEW l \in {"allocAgain", "register", "send"},
         pc[c] # "idle", FetchAdd(c, l)
  PROVE  [Contract!Next]_(Contract!vars)
<1>1. /\ {d \in Calls : pc[d] # "idle"}' = {d \in Calls : pc[d] # "idle"}
      /\ UNCHANGED <<req, received, result, callback, published, publishFailures>>
      /\ wrapped' = wrapped \/ wrapped' = TRUE
  <2>1. DOMAIN pc = Calls /\ wrapped \in BOOLEAN
    BY DEF SendInv, Inv, TypeOK
  <2>2. pc' = [pc EXCEPT ![c] = l]
    BY DEF FetchAdd, Goto
  <2>3. \A d \in Calls : pc'[d] # "idle" <=> pc[d] # "idle"
    BY <2>1, <2>2
  <2>4. {d \in Calls : pc[d] # "idle"}' = {d \in Calls : pc[d] # "idle"}
    BY <2>3
  <2>5. UNCHANGED <<req, received, result, callback, published, publishFailures>>
    BY DEF FetchAdd, metricVars, netVars
  <2>6. wrapped' = wrapped \/ wrapped' = TRUE
    BY <2>1 DEF FetchAdd
  <2>7. QED
    BY <2>4, <2>5, <2>6
<1>2. CASE wrapped' = wrapped
  BY <1>1, <1>2, Invisible
<1>3. CASE wrapped' = TRUE
  <2>1. Contract!Reuse
    BY <1>1, <1>3 DEF Contract!Reuse
  <2>2. QED
    BY <2>1 DEF Contract!Next
<1>4. QED
  BY <1>1, <1>2, <1>3

LEMMA StepRefines == SendInv /\ [Next]_vars => [Contract!Next]_(Contract!vars)
<1> SUFFICES ASSUME SendInv, [Next]_vars PROVE [Contract!Next]_(Contract!vars)
  OBVIOUS
<1> USE DEF tableVars, callVars, metricVars, netVars
<1>1. ASSUME NEW c \in Calls, NEW r \in Requests, Publish(c, r) \/ PublishAsync(c, r)
      PROVE  Contract!Next
  BY <1>1, BeginRefines DEF Contract!Next
<1>2. ASSUME NEW c \in Calls, AllocPacketId(c) \/ AllocAgain(c)
      PROVE  [Contract!Next]_(Contract!vars)
  BY <1>2, AllocRefines DEF AllocPacketId, AllocAgain, AfterAlloc
<1>3. ASSUME NEW c \in Calls, Register(c) PROVE [Contract!Next]_(Contract!vars)
  <2>1. {d \in Calls : pc[d] # "idle"}' = {d \in Calls : pc[d] # "idle"}
    BY <1>3 DEF Register, Goto, SendInv, Inv, TypeOK
  <2>2. [d \in Calls |-> IF callback[d] = "waiting" THEN "none" ELSE callback[d]]' =
          [d \in Calls |-> IF callback[d] = "waiting" THEN "none" ELSE callback[d]]
    <3>1. callback[c] = "none"
      BY <1>3 DEF Register, SendInv, Inv, CallStructure
    <3>2. QED
      BY <1>3, <3>1 DEF Register, SendInv, Inv, TypeOK
  <2>3. QED
    BY <1>3, <2>1, <2>2, Invisible DEF Register
<1>4. ASSUME NEW c \in Calls, SendErrorCleanup(c) \/ TimeoutErase(c) \/ AwaitResolved(c)
      PROVE  Contract!Next
  BY <1>4, CleanupRefines, TimeoutRefines, AwaitRefines DEF Contract!Next
<1>5. ASSUME NEW c \in Calls, AwaitTimeout(c) PROVE [Contract!Next]_(Contract!vars)
  <2>1. {d \in Calls : pc[d] # "idle"}' = {d \in Calls : pc[d] # "idle"}
    BY <1>5 DEF AwaitTimeout, Goto, SendInv, Inv, TypeOK
  <2>2. QED
    BY <1>5, <2>1, Invisible DEF AwaitTimeout
<1>6. ASSUME NEW c \in Calls, RunCallback(c) PROVE Contract!Next
  BY <1>6, CallbackRefines DEF Contract!Next
<1>7. ASSUME NEW p \in wire, BrokerReceive(p) PROVE Contract!Next
  BY <1>7, NetworkRefines DEF Contract!Next
<1>8. ASSUME \/ \E s \in States : TransitionState(s)
             \/ FailAllPending
             \/ \E a \in acks : RecvPuback(a) \/ LosePuback(a)
             \/ \E p \in wire : LosePublish(p)
             \/ UNCHANGED vars
      PROVE  [Contract!Next]_(Contract!vars)
  <2>1. UNCHANGED <<pc, req, received, result, callback, published, publishFailures, wrapped>>
    BY <1>8 DEF TransitionState, FailAllPending, RecvPuback, LosePuback, LosePublish, vars
  <2>2. QED
    BY <2>1, Invisible
<1> QED
  BY <1>1, <1>2, <1>3, <1>4, <1>5, <1>6, <1>7, <1>8, SendOkRefines, SendErrorRefines
  DEF Next, Begin, Continue, Connection, Network

(* The publish path implements the contract, whatever the connection and   *)
(* the network do: answers, callbacks, deliveries and counters agree.      *)
THEOREM ContractKept == Spec => KeepsContract
<1>1. Spec => []SendInv
  BY SendInvCorrect
<1>2. QED
  BY <1>1, InitRefines, StepRefines, PTL DEF Spec, KeepsContract, Contract!Spec
=============================================================================

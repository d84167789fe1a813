--------------------- MODULE PublisherLifecycle_proofs ---------------------
(***************************************************************************)
(* What holds of PublisherLifecycle for any number of application threads, *)
(* descriptors, retries, calls and losses.                                 *)
(***************************************************************************)
EXTENDS PublisherLifecycle, TLAPS

(* attempt goes past maxRetries only as the reconnect thread gives up.     *)
AttemptsBounded == pc[Rc] \notin {"giveUp", "exited"} => attempt <= MaxRetries

(* Who is in the destructor said so when it was called.                    *)
DestroyAnnounced == \A a \in Apps : pc[a] \in DestroyPcs => next[a] = "destroy"

(* The first request waits for the thread that is about to be started.     *)
FirstRequestKept == \A r \in Recvs : pc[r] = "spawn" /\ pc[Rc] = "none" => requested

(* A client has a thread to join only while it joins it.                   *)
JoinsOne == \A c \in Clients : pc[c] \notin {"joinRecv", "joinKeep"} => old[c] = NoThread

----------------------------------------------------------------------------
(* The variables keep their types.                                         *)

LEMMA InitTypeOK == Init => TypeOK /\ AttemptsBounded
<1> SUFFICES ASSUME Init PROVE TypeOK /\ AttemptsBounded
  OBVIOUS
<1> USE ThreadsAssumption, PolicyAssumption, BackoffAssumption, BoundsAssumption
    DEF Init, Threads, Clients
<1>1. /\ pc \in [Threads -> {"idle", "none"}]
      /\ \A a \in Apps : pc[a] = "idle"
      /\ \A t \in Recvs \cup Keeps \cup {Rc} : pc[t] = "none"
  OBVIOUS
<1>2. /\ stop \in [Threads -> BOOLEAN]
      /\ next \in [Apps -> {"idle", "check", "destroy"}]
      /\ sock \in [Threads -> Sockets \cup {NoSocket}]
      /\ old \in [Clients -> Recvs \cup Keeps \cup {NoThread}]
      /\ conn \in [Sockets -> Connection]
  BY DEF Connection
<1>3. /\ pc \in [Threads -> ConnectPcs \cup DisconnectPcs \cup DestroyPcs \cup RcPcs \cup RecvPcs
                             \cup KeepPcs \cup {"idle"}]
      /\ \A r \in Recvs : pc[r] \in RecvPcs
      /\ \A k \in Keeps : pc[k] \in KeepPcs
      /\ pc[Rc] \in RcPcs
  BY <1>1 DEF RcPcs, RecvPcs, KeepPcs
<1>4. state \in ConnectionState /\ attempt \in 0 .. MaxRetries + 1 /\ AttemptsBounded
  BY DEF ConnectionState, AttemptsBounded
<1>5. /\ delay \in Nat
      /\ stopFlag \in BOOLEAN /\ requested \in BOOLEAN
      /\ fd \in Sockets \cup {NoSocket}
      /\ recvHandle \in Recvs \cup {NoThread} /\ keepHandle \in Keeps \cup {NoThread}
  OBVIOUS
<1>6. calls \in 0 .. MaxCalls /\ losses \in 0 .. MaxLosses
  OBVIOUS
<1>7. /\ \A a \in Apps : pc[a] \in ConnectPcs \cup DisconnectPcs \cup DestroyPcs \cup {"idle"}
      /\ pc[Rc] \in ConnectPcs \cup RcPcs
  BY <1>1, <1>3
<1> HIDE DEF Init
<1>8. QED
  BY <1>2, <1>3, <1>4, <1>5, <1>6, <1>7 DEF TypeOK

LEMMA ConsumeType ==
  ASSUME TypeOK, NEW s, Consume(s)
  PROVE  conn' \in [Sockets -> Connection]
  BY DEF TypeOK, Consume, Connection

LEMMA CloseType ==
  ASSUME TypeOK, CloseFd
  PROVE  fd' = NoSocket /\ conn' \in [Sockets -> Connection]
  BY DEF TypeOK, CloseFd, Connection

(* The next delay: at least the last or the maximum, at most the maximum   *)
(* and a quarter.                                                          *)
LEMMA DelayGrows ==
  ASSUME delay \in Nat, RcAgain
  PROVE  /\ delay' \in Nat
         /\ delay' >= delay \/ delay' >= MaxDelay
         /\ delay' <= MaxDelay + MaxDelay \div 4
<1> USE BackoffAssumption
<1>1. delay * Multiplier \in Nat /\ delay * Multiplier >= delay * 100
  BY delay \in Nat
<1>2. Scaled \in Nat /\ Scaled >= delay
  BY <1>1 DEF Scaled
<1>3. Capped \in Nat /\ Capped <= MaxDelay /\ (Capped >= delay \/ Capped >= MaxDelay)
  BY <1>2 DEF Capped
<1>4. PICK jit \in 0 .. Capped \div 4 : delay' = Capped + (IF Jitter THEN jit ELSE 0)
  BY DEF RcAgain
<1>5. jit \in Nat /\ jit <= MaxDelay \div 4
  BY <1>3, <1>4
<1>6. QED
  BY <1>3, <1>4, <1>5

LEMMA NextTypeOK == TypeOK /\ AttemptsBounded /\ [Next]_vars => TypeOK'
<1> SUFFICES ASSUME TypeOK, AttemptsBounded, [Next]_vars PROVE TypeOK'
  OBVIOUS
<1> USE ThreadsAssumption, PolicyAssumption, BoundsAssumption, OpsAssumption
    DEF TypeOK, Threads, Clients, ConnectionState, Connection, ConnectPcs, DisconnectPcs,
        DestroyPcs, RcPcs, RecvPcs, KeepPcs, transportVars, handleVars, rcVars, boundVars, At, Goto,
        Go,
        Returned, Refused, Stopped, Leave, CanSend, Exhausted
<1>1. ASSUME NEW c \in Clients, Check(c) PROVE TypeOK'
  BY <1>1 DEF Check
<1>2. ASSUME NEW c \in Clients, ToConnecting(c) PROVE TypeOK'
  BY <1>2 DEF ToConnecting
<1>3. ASSUME NEW c \in Clients, OpenSocket(c) PROVE TypeOK'
  BY <1>3 DEF OpenSocket
<1>4. ASSUME NEW c \in Clients, OpenError(c) PROVE TypeOK'
  BY <1>4 DEF OpenError
<1>5. ASSUME NEW c \in Clients, Handshake(c) PROVE TypeOK'
  BY <1>5 DEF Handshake
<1>6. ASSUME NEW c \in Clients, HandshakeError(c) PROVE TypeOK'
  BY <1>6, CloseType DEF HandshakeError
<1>7. ASSUME NEW c \in Clients, SendConnect(c) PROVE TypeOK'
  BY <1>7 DEF SendConnect
<1>8. ASSUME NEW c \in Clients, SendConnectError(c) PROVE TypeOK'
  BY <1>8 DEF SendConnectError
<1>9. ASSUME NEW c \in Clients, AckCheck(c) PROVE TypeOK'
  BY <1>9 DEF AckCheck
<1>10. ASSUME NEW c \in Clients, AckTimeout(c) PROVE TypeOK'
  BY <1>10 DEF AckTimeout
<1>11. ASSUME NEW c \in Clients, AckAccepted(c) PROVE TypeOK'
  BY <1>11, ConsumeType DEF AckAccepted
<1>12. ASSUME NEW c \in Clients, AckError(c) PROVE TypeOK'
  BY <1>12, ConsumeType DEF AckError
<1>13. ASSUME NEW c \in Clients, ConnectFailed(c) PROVE TypeOK'
  BY <1>13 DEF ConnectFailed
<1>14. ASSUME NEW c \in Clients, ToConnected(c) PROVE TypeOK'
  BY <1>14 DEF ToConnected
<1>15. ASSUME NEW c \in Clients, StartRecv(c) PROVE TypeOK'
  <2>1. PICK t \in Recvs : /\ Start(c, t, "top", "joinRecv", recvHandle)
                       /\ recvHandle' = t /\ UNCHANGED keepHandle
    BY <1>15 DEF StartRecv
  <2>2. /\ pc' = [pc EXCEPT ![c] = "joinRecv", ![t] = "top"]
        /\ c # t /\ t \in Threads /\ c \in Threads
    BY <2>1 DEF Start
  <2>3. /\ pc' \in [Threads -> ConnectPcs \cup DisconnectPcs \cup DestroyPcs \cup RcPcs
                              \cup RecvPcs \cup KeepPcs \cup {"idle"}]
        /\ \A a \in Apps  : pc'[a] \in ConnectPcs \cup DisconnectPcs \cup DestroyPcs \cup {"idle"}
        /\ pc'[Rc] \in ConnectPcs \cup RcPcs
        /\ \A r \in Recvs : pc'[r] \in RecvPcs
        /\ \A k \in Keeps : pc'[k] \in KeepPcs
    BY <2>2
  <2>4. stop' \in [Threads -> BOOLEAN] /\ old' \in [Clients -> Recvs \cup Keeps \cup {NoThread}]
    BY <2>1 DEF Start
  <2>5. QED
    BY <2>1, <2>3, <2>4 DEF Start
<1>16. ASSUME NEW c \in Clients, JoinRecv(c) PROVE TypeOK'
  BY <1>16 DEF JoinRecv, Join
<1>17. ASSUME NEW c \in Clients, StartKeep(c) PROVE TypeOK'
  <2>1. PICK t \in Keeps : /\ Start(c, t, "tick", "joinKeep", keepHandle)
                       /\ keepHandle' = t /\ UNCHANGED recvHandle
    BY <1>17 DEF StartKeep
  <2>2. /\ pc' = [pc EXCEPT ![c] = "joinKeep", ![t] = "tick"]
        /\ c # t /\ t \in Threads /\ c \in Threads
    BY <2>1 DEF Start
  <2>3. /\ pc' \in [Threads -> ConnectPcs \cup DisconnectPcs \cup DestroyPcs \cup RcPcs
                              \cup RecvPcs \cup KeepPcs \cup {"idle"}]
        /\ \A a \in Apps  : pc'[a] \in ConnectPcs \cup DisconnectPcs \cup DestroyPcs \cup {"idle"}
        /\ pc'[Rc] \in ConnectPcs \cup RcPcs
        /\ \A r \in Recvs : pc'[r] \in RecvPcs
        /\ \A k \in Keeps : pc'[k] \in KeepPcs
    BY <2>2
  <2>4. stop' \in [Threads -> BOOLEAN] /\ old' \in [Clients -> Recvs \cup Keeps \cup {NoThread}]
    BY <2>1 DEF Start
  <2>5. QED
    BY <2>1, <2>3, <2>4 DEF Start
<1>18. ASSUME NEW c \in Clients, JoinKeep(c) PROVE TypeOK'
  BY <1>18 DEF JoinKeep, Join
<1>19. ASSUME NEW a \in Apps, Disconnect(a) PROVE TypeOK'
  BY <1>19 DEF Disconnect
<1>20. ASSUME NEW a \in Apps, ToDisconnecting(a) PROVE TypeOK'
  BY <1>20 DEF ToDisconnecting
<1>21. ASSUME NEW a \in Apps, SendDisconnect(a) PROVE TypeOK'
  BY <1>21 DEF SendDisconnect
<1>22. ASSUME NEW a \in Apps, RequestStop(a) PROVE TypeOK'
  BY <1>22 DEF RequestStop
<1>23. ASSUME NEW a \in Apps, StopThreads(a) PROVE TypeOK'
  BY <1>23 DEF StopThreads
<1>24. ASSUME NEW a \in Apps, Close(a) PROVE TypeOK'
  BY <1>24, CloseType DEF Close
<1>25. ASSUME NEW a \in Apps, ToDisconnected(a) PROVE TypeOK'
  BY <1>25 DEF ToDisconnected
<1>26. ASSUME NEW a \in Apps, StopAll(a) PROVE TypeOK'
  BY <1>26 DEF StopAll
<1>27. ASSUME NEW a \in Apps, JoinMember(a, "joinRc", "joinKeepalive", Rc, keepHandle) PROVE TypeOK'
  BY <1>27 DEF JoinMember
<1>28. ASSUME NEW a \in Apps, JoinMember(a, "joinKeepalive", "joinReceive", keepHandle, recvHandle)
       PROVE  TypeOK'
  BY <1>28 DEF JoinMember
<1>29. ASSUME NEW a \in Apps, JoinMember(a, "joinReceive", "closeTransport", recvHandle, NoThread)
       PROVE  TypeOK'
  BY <1>29 DEF JoinMember
<1>30. ASSUME NEW a \in Apps, CloseTransport(a) PROVE TypeOK'
  BY <1>30, CloseType DEF CloseTransport
<1>31. ASSUME NEW a \in Apps, NEW op \in Ops, Call(a, op) PROVE TypeOK'
  BY <1>31 DEF Call
<1>32. ASSUME NEW r \in Recvs, RecvTop(r) PROVE TypeOK'
  BY <1>32 DEF RecvTop
<1>33. ASSUME NEW r \in Recvs, RecvCheck(r) PROVE TypeOK'
  BY <1>33 DEF RecvCheck
<1>34. ASSUME NEW r \in Recvs, RecvTimeout(r) PROVE TypeOK'
  BY <1>34 DEF RecvTimeout
<1>35. ASSUME NEW r \in Recvs, RecvPacket(r) PROVE TypeOK'
  BY <1>35, ConsumeType DEF RecvPacket
<1>36. ASSUME NEW r \in Recvs, RecvError(r) PROVE TypeOK'
  BY <1>36 DEF RecvError
<1>37. ASSUME NEW r \in Recvs, RecvStopped(r) PROVE TypeOK'
  BY <1>37 DEF RecvStopped
<1>38. ASSUME NEW r \in Recvs, ToReconnecting(r) PROVE TypeOK'
  BY <1>38 DEF ToReconnecting
<1>39. ASSUME NEW r \in Recvs, Schedule(r) PROVE TypeOK'
  BY <1>39 DEF Schedule
<1>40. ASSUME NEW r \in Recvs, Spawn(r) PROVE TypeOK'
  BY <1>40 DEF Spawn
<1>41. ASSUME NEW k \in Keeps, Tick(k) PROVE TypeOK'
  BY <1>41 DEF Tick
<1>42. ASSUME NEW k \in Keeps, Ping(k) PROVE TypeOK'
  BY <1>42 DEF Ping
<1>43. ASSUME RcWait PROVE TypeOK'
  BY <1>43 DEF RcWait
<1>44. ASSUME RcTest PROVE TypeOK'
  <2>1. attempt <= MaxRetries
    BY <1>44 DEF RcTest, AttemptsBounded
  <2>2. attempt' \in 0 .. MaxRetries + 1
    BY <1>44, <2>1 DEF RcTest
  <2>3. /\ pc' = [pc EXCEPT ![Rc] = pc'[Rc]]
        /\ pc'[Rc] \in {"exited", "giveUp", "sleep"}
    BY <1>44 DEF RcTest
  <2>4. QED
    BY <1>44, <2>2, <2>3 DEF RcTest
<1>45. ASSUME RcGiveUp PROVE TypeOK'
  BY <1>45 DEF RcGiveUp
<1>46. ASSUME RcSleep PROVE TypeOK'
  BY <1>46 DEF RcSleep
<1>47. ASSUME RcAgain PROVE TypeOK'
  BY <1>47, DelayGrows DEF RcAgain
<1>48. ASSUME NEW s \in Sockets, Accept(s) PROVE TypeOK'
  BY <1>48 DEF Accept, Broker
<1>49. ASSUME NEW s \in Sockets, Refuse(s) PROVE TypeOK'
  BY <1>49 DEF Refuse, Broker
<1>50. ASSUME NEW s \in Sockets, Lose(s) PROVE TypeOK'
  BY <1>50 DEF Lose, Broker
<1>51. CASE UNCHANGED vars
  BY <1>51 DEF vars
<1> QED
  BY <1>1, <1>2, <1>3, <1>4, <1>5, <1>6, <1>7, <1>8, <1>9, <1>10, <1>11, <1>12, <1>13, <1>14,
     <1>15, <1>16, <1>17, <1>18, <1>19, <1>20, <1>21, <1>22, <1>23, <1>24, <1>25, <1>26, <1>27,
     <1>28, <1>29, <1>30, <1>31, <1>32, <1>33, <1>34, <1>35, <1>36, <1>37, <1>38, <1>39, <1>40,
     <1>41, <1>42, <1>43, <1>44, <1>45, <1>46, <1>47, <1>48, <1>49, <1>50, <1>51
  DEF Next, AppStep, ConnectStep, DisconnectStep, Destroy, RecvStep, KeepStep, RcStep, Clients

LEMMA NextAttempts == TypeOK /\ AttemptsBounded /\ [Next]_vars => AttemptsBounded'
<1> SUFFICES ASSUME TypeOK, AttemptsBounded, [Next]_vars PROVE AttemptsBounded'
  OBVIOUS
<1> USE ThreadsAssumption, PolicyAssumption
    DEF TypeOK, AttemptsBounded, Threads, Clients, At, Goto, Go, Returned, Refused, Exhausted,
       rcVars
<1>1. ASSUME NEW c \in Clients, Check(c) PROVE AttemptsBounded'
  BY <1>1 DEF Check
<1>2. ASSUME NEW c \in Clients, ToConnecting(c) PROVE AttemptsBounded'
  BY <1>2 DEF ToConnecting
<1>3. ASSUME NEW c \in Clients, OpenSocket(c) PROVE AttemptsBounded'
  BY <1>3 DEF OpenSocket
<1>4. ASSUME NEW c \in Clients, OpenError(c) PROVE AttemptsBounded'
  BY <1>4 DEF OpenError
<1>5. ASSUME NEW c \in Clients, Handshake(c) PROVE AttemptsBounded'
  BY <1>5 DEF Handshake
<1>6. ASSUME NEW c \in Clients, HandshakeError(c) PROVE AttemptsBounded'
  BY <1>6 DEF HandshakeError
<1>7. ASSUME NEW c \in Clients, SendConnect(c) PROVE AttemptsBounded'
  BY <1>7 DEF SendConnect
<1>8. ASSUME NEW c \in Clients, SendConnectError(c) PROVE AttemptsBounded'
  BY <1>8 DEF SendConnectError
<1>9. ASSUME NEW c \in Clients, AckCheck(c) PROVE AttemptsBounded'
  BY <1>9 DEF AckCheck
<1>10. ASSUME NEW c \in Clients, AckTimeout(c) PROVE AttemptsBounded'
  BY <1>10 DEF AckTimeout
<1>11. ASSUME NEW c \in Clients, AckAccepted(c) PROVE AttemptsBounded'
  BY <1>11 DEF AckAccepted
<1>12. ASSUME NEW c \in Clients, AckError(c) PROVE AttemptsBounded'
  BY <1>12 DEF AckError
<1>13. ASSUME NEW c \in Clients, ConnectFailed(c) PROVE AttemptsBounded'
  BY <1>13 DEF ConnectFailed
<1>14. ASSUME NEW c \in Clients, ToConnected(c) PROVE AttemptsBounded'
  BY <1>14 DEF ToConnected
<1>15. ASSUME NEW c \in Clients, StartRecv(c) PROVE AttemptsBounded'
  BY <1>15 DEF StartRecv, Start
<1>16. ASSUME NEW c \in Clients, JoinRecv(c) PROVE AttemptsBounded'
  BY <1>16 DEF JoinRecv, Join
<1>17. ASSUME NEW c \in Clients, StartKeep(c) PROVE AttemptsBounded'
  BY <1>17 DEF StartKeep, Start
<1>18. ASSUME NEW c \in Clients, JoinKeep(c) PROVE AttemptsBounded'
  BY <1>18 DEF JoinKeep, Join
<1>19. ASSUME NEW a \in Apps, Disconnect(a) PROVE AttemptsBounded'
  BY <1>19 DEF Disconnect
<1>20. ASSUME NEW a \in Apps, ToDisconnecting(a) PROVE AttemptsBounded'
  BY <1>20 DEF ToDisconnecting
<1>21. ASSUME NEW a \in Apps, SendDisconnect(a) PROVE AttemptsBounded'
  BY <1>21 DEF SendDisconnect
<1>22. ASSUME NEW a \in Apps, RequestStop(a) PROVE AttemptsBounded'
  BY <1>22 DEF RequestStop
<1>23. ASSUME NEW a \in Apps, StopThreads(a) PROVE AttemptsBounded'
  BY <1>23 DEF StopThreads
<1>24. ASSUME NEW a \in Apps, Close(a) PROVE AttemptsBounded'
  BY <1>24 DEF Close
<1>25. ASSUME NEW a \in Apps, ToDisconnected(a) PROVE AttemptsBounded'
  BY <1>25 DEF ToDisconnected
<1>26. ASSUME NEW a \in Apps, StopAll(a) PROVE AttemptsBounded'
  BY <1>26 DEF StopAll
<1>27. ASSUME NEW a \in Apps, JoinMember(a, "joinRc", "joinKeepalive", Rc, keepHandle)
       PROVE  AttemptsBounded'
  BY <1>27 DEF JoinMember
<1>28. ASSUME NEW a \in Apps, JoinMember(a, "joinKeepalive", "joinReceive", keepHandle, recvHandle)
       PROVE  AttemptsBounded'
  BY <1>28 DEF JoinMember
<1>29. ASSUME NEW a \in Apps, JoinMember(a, "joinReceive", "closeTransport", recvHandle, NoThread)
       PROVE  AttemptsBounded'
  BY <1>29 DEF JoinMember
<1>30. ASSUME NEW a \in Apps, CloseTransport(a) PROVE AttemptsBounded'
  BY <1>30 DEF CloseTransport
<1>31. ASSUME NEW a \in Apps, NEW op \in Ops, Call(a, op) PROVE AttemptsBounded'
  BY <1>31 DEF Call
<1>32. ASSUME NEW r \in Recvs, RecvTop(r) PROVE AttemptsBounded'
  BY <1>32 DEF RecvTop
<1>33. ASSUME NEW r \in Recvs, RecvCheck(r) PROVE AttemptsBounded'
  BY <1>33 DEF RecvCheck
<1>34. ASSUME NEW r \in Recvs, RecvTimeout(r) PROVE AttemptsBounded'
  BY <1>34 DEF RecvTimeout
<1>35. ASSUME NEW r \in Recvs, RecvPacket(r) PROVE AttemptsBounded'
  BY <1>35 DEF RecvPacket
<1>36. ASSUME NEW r \in Recvs, RecvError(r) PROVE AttemptsBounded'
  BY <1>36 DEF RecvError
<1>37. ASSUME NEW r \in Recvs, RecvStopped(r) PROVE AttemptsBounded'
  BY <1>37 DEF RecvStopped
<1>38. ASSUME NEW r \in Recvs, ToReconnecting(r) PROVE AttemptsBounded'
  BY <1>38 DEF ToReconnecting
<1>39. ASSUME NEW r \in Recvs, Schedule(r) PROVE AttemptsBounded'
  BY <1>39 DEF Schedule
<1>40. ASSUME NEW r \in Recvs, Spawn(r) PROVE AttemptsBounded'
  BY <1>40 DEF Spawn
<1>41. ASSUME NEW k \in Keeps, Tick(k) PROVE AttemptsBounded'
  BY <1>41 DEF Tick
<1>42. ASSUME NEW k \in Keeps, Ping(k) PROVE AttemptsBounded'
  BY <1>42 DEF Ping
<1>43. ASSUME RcWait PROVE AttemptsBounded'
  BY <1>43 DEF RcWait
<1>44. ASSUME RcTest PROVE AttemptsBounded'
  <2>1. CASE state # "Connected" /\ Exhausted
    BY <1>44, <2>1 DEF RcTest
  <2>2. CASE ~(state # "Connected" /\ Exhausted)
    BY <1>44, <2>2 DEF RcTest
  <2>3. QED
    BY <2>1, <2>2
<1>45. ASSUME RcGiveUp PROVE AttemptsBounded'
  BY <1>45 DEF RcGiveUp
<1>46. ASSUME RcSleep PROVE AttemptsBounded'
  BY <1>46 DEF RcSleep
<1>47. ASSUME RcAgain PROVE AttemptsBounded'
  BY <1>47 DEF RcAgain
<1>48. ASSUME NEW s \in Sockets, Accept(s) PROVE AttemptsBounded'
  BY <1>48 DEF Accept, Broker
<1>49. ASSUME NEW s \in Sockets, Refuse(s) PROVE AttemptsBounded'
  BY <1>49 DEF Refuse, Broker
<1>50. ASSUME NEW s \in Sockets, Lose(s) PROVE AttemptsBounded'
  BY <1>50 DEF Lose, Broker
<1>51. CASE UNCHANGED vars
  BY <1>51 DEF vars
<1> QED
  BY <1>1, <1>2, <1>3, <1>4, <1>5, <1>6, <1>7, <1>8, <1>9, <1>10, <1>11, <1>12, <1>13, <1>14,
     <1>15, <1>16, <1>17, <1>18, <1>19, <1>20, <1>21, <1>22, <1>23, <1>24, <1>25, <1>26, <1>27,
     <1>28, <1>29, <1>30, <1>31, <1>32, <1>33, <1>34, <1>35, <1>36, <1>37, <1>38, <1>39, <1>40,
     <1>41, <1>42, <1>43, <1>44, <1>45, <1>46, <1>47, <1>48, <1>49, <1>50, <1>51
  DEF Next, AppStep, ConnectStep, DisconnectStep, Destroy, RecvStep, KeepStep, RcStep, Clients

LEMMA TypeInvariant == Spec => [](TypeOK /\ AttemptsBounded)
  BY InitTypeOK, NextTypeOK, NextAttempts, PTL DEF Spec

----------------------------------------------------------------------------
(* A connected client is watched.                                          *)

LEMMA InitWatched == Init => DestroyAnnounced /\ ConnectedIsWatched
  BY ThreadsAssumption DEF Init, DestroyAnnounced, ConnectedIsWatched, DestroyPcs, Threads, Clients

LEMMA NextAnnounced ==
  TypeOK /\ DestroyAnnounced /\ [Next]_vars => DestroyAnnounced'
<1> SUFFICES ASSUME TypeOK, DestroyAnnounced, [Next]_vars PROVE DestroyAnnounced'
  OBVIOUS
<1> USE ThreadsAssumption
    DEF TypeOK, Threads, Clients, rcVars, At, Goto, Go, Returned, Refused, Exhausted,
       DestroyAnnounced,
        DestroyPcs, ConnectPcs, DisconnectPcs
<1>1. ASSUME NEW c \in Clients, Check(c) PROVE DestroyAnnounced'
  BY <1>1 DEF Check
<1>2. ASSUME NEW c \in Clients, ToConnecting(c) PROVE DestroyAnnounced'
  BY <1>2 DEF ToConnecting
<1>3. ASSUME NEW c \in Clients, OpenSocket(c) PROVE DestroyAnnounced'
  BY <1>3 DEF OpenSocket
<1>4. ASSUME NEW c \in Clients, OpenError(c) PROVE DestroyAnnounced'
  BY <1>4 DEF OpenError
<1>5. ASSUME NEW c \in Clients, Handshake(c) PROVE DestroyAnnounced'
  BY <1>5 DEF Handshake
<1>6. ASSUME NEW c \in Clients, HandshakeError(c) PROVE DestroyAnnounced'
  BY <1>6 DEF HandshakeError
<1>7. ASSUME NEW c \in Clients, SendConnect(c) PROVE DestroyAnnounced'
  BY <1>7 DEF SendConnect
<1>8. ASSUME NEW c \in Clients, SendConnectError(c) PROVE DestroyAnnounced'
  BY <1>8 DEF SendConnectError
<1>9. ASSUME NEW c \in Clients, AckCheck(c) PROVE DestroyAnnounced'
  BY <1>9 DEF AckCheck
<1>10. ASSUME NEW c \in Clients, AckTimeout(c) PROVE DestroyAnnounced'
  BY <1>10 DEF AckTimeout
<1>11. ASSUME NEW c \in Clients, AckAccepted(c) PROVE DestroyAnnounced'
  BY <1>11 DEF AckAccepted
<1>12. ASSUME NEW c \in Clients, AckError(c) PROVE DestroyAnnounced'
  BY <1>12 DEF AckError
<1>13. ASSUME NEW c \in Clients, ConnectFailed(c) PROVE DestroyAnnounced'
  BY <1>13 DEF ConnectFailed
<1>14. ASSUME NEW c \in Clients, ToConnected(c) PROVE DestroyAnnounced'
  BY <1>14 DEF ToConnected
<1>15. ASSUME NEW c \in Clients, StartRecv(c) PROVE DestroyAnnounced'
  BY <1>15 DEF StartRecv, Start
<1>16. ASSUME NEW c \in Clients, JoinRecv(c) PROVE DestroyAnnounced'
  BY <1>16 DEF JoinRecv, Join
<1>17. ASSUME NEW c \in Clients, StartKeep(c) PROVE DestroyAnnounced'
  BY <1>17 DEF StartKeep, Start
<1>18. ASSUME NEW c \in Clients, JoinKeep(c) PROVE DestroyAnnounced'
  BY <1>18 DEF JoinKeep, Join
<1>19. ASSUME NEW a \in Apps, Disconnect(a) PROVE DestroyAnnounced'
  BY <1>19 DEF Disconnect
<1>20. ASSUME NEW a \in Apps, ToDisconnecting(a) PROVE DestroyAnnounced'
  BY <1>20 DEF ToDisconnecting
<1>21. ASSUME NEW a \in Apps, SendDisconnect(a) PROVE DestroyAnnounced'
  BY <1>21 DEF SendDisconnect
<1>22. ASSUME NEW a \in Apps, RequestStop(a) PROVE DestroyAnnounced'
  BY <1>22 DEF RequestStop
<1>23. ASSUME NEW a \in Apps, StopThreads(a) PROVE DestroyAnnounced'
  BY <1>23 DEF StopThreads
<1>24. ASSUME NEW a \in Apps, Close(a) PROVE DestroyAnnounced'
  BY <1>24 DEF Close
<1>25. ASSUME NEW a \in Apps, ToDisconnected(a) PROVE DestroyAnnounced'
  BY <1>25 DEF ToDisconnected
<1>26. ASSUME NEW a \in Apps, StopAll(a) PROVE DestroyAnnounced'
  BY <1>26 DEF StopAll
<1>27. ASSUME NEW a \in Apps, JoinMember(a, "joinRc", "joinKeepalive", Rc, keepHandle)
       PROVE  DestroyAnnounced'
  BY <1>27 DEF JoinMember
<1>28. ASSUME NEW a \in Apps, JoinMember(a, "joinKeepalive", "joinReceive", keepHandle, recvHandle)
       PROVE  DestroyAnnounced'
  BY <1>28 DEF JoinMember
<1>29. ASSUME NEW a \in Apps, JoinMember(a, "joinReceive", "closeTransport", recvHandle, NoThread)
       PROVE  DestroyAnnounced'
  BY <1>29 DEF JoinMember
<1>30. ASSUME NEW a \in Apps, CloseTransport(a) PROVE DestroyAnnounced'
  BY <1>30 DEF CloseTransport
<1>31. ASSUME NEW a \in Apps, NEW op \in Ops, Call(a, op) PROVE DestroyAnnounced'
  BY <1>31 DEF Call
<1>32. ASSUME NEW r \in Recvs, RecvTop(r) PROVE DestroyAnnounced'
  BY <1>32 DEF RecvTop
<1>33. ASSUME NEW r \in Recvs, RecvCheck(r) PROVE DestroyAnnounced'
  BY <1>33 DEF RecvCheck
<1>34. ASSUME NEW r \in Recvs, RecvTimeout(r) PROVE DestroyAnnounced'
  BY <1>34 DEF RecvTimeout
<1>35. ASSUME NEW r \in Recvs, RecvPacket(r) PROVE DestroyAnnounced'
  BY <1>35 DEF RecvPacket
<1>36. ASSUME NEW r \in Recvs, RecvError(r) PROVE DestroyAnnounced'
  BY <1>36 DEF RecvError
<1>37. ASSUME NEW r \in Recvs, RecvStopped(r) PROVE DestroyAnnounced'
  BY <1>37 DEF RecvStopped
<1>38. ASSUME NEW r \in Recvs, ToReconnecting(r) PROVE DestroyAnnounced'
  BY <1>38 DEF ToReconnecting
<1>39. ASSUME NEW r \in Recvs, Schedule(r) PROVE DestroyAnnounced'
  BY <1>39 DEF Schedule
<1>40. ASSUME NEW r \in Recvs, Spawn(r) PROVE DestroyAnnounced'
  BY <1>40 DEF Spawn
<1>41. ASSUME NEW k \in Keeps, Tick(k) PROVE DestroyAnnounced'
  BY <1>41 DEF Tick
<1>42. ASSUME NEW k \in Keeps, Ping(k) PROVE DestroyAnnounced'
  BY <1>42 DEF Ping
<1>43. ASSUME RcWait PROVE DestroyAnnounced'
  BY <1>43 DEF RcWait
<1>44. ASSUME RcTest PROVE DestroyAnnounced'
  BY <1>44 DEF RcTest
<1>45. ASSUME RcGiveUp PROVE DestroyAnnounced'
  BY <1>45 DEF RcGiveUp
<1>46. ASSUME RcSleep PROVE DestroyAnnounced'
  BY <1>46 DEF RcSleep
<1>47. ASSUME RcAgain PROVE DestroyAnnounced'
  BY <1>47 DEF RcAgain
<1>48. ASSUME NEW s \in Sockets, Accept(s) PROVE DestroyAnnounced'
  BY <1>48 DEF Accept, Broker
<1>49. ASSUME NEW s \in Sockets, Refuse(s) PROVE DestroyAnnounced'
  BY <1>49 DEF Refuse, Broker
<1>50. ASSUME NEW s \in Sockets, Lose(s) PROVE DestroyAnnounced'
  BY <1>50 DEF Lose, Broker
<1>51. CASE UNCHANGED vars
  BY <1>51 DEF vars
<1> QED
  BY <1>1, <1>2, <1>3, <1>4, <1>5, <1>6, <1>7, <1>8, <1>9, <1>10, <1>11, <1>12, <1>13, <1>14,
     <1>15, <1>16, <1>17, <1>18, <1>19, <1>20, <1>21, <1>22, <1>23, <1>24, <1>25, <1>26, <1>27,
     <1>28, <1>29, <1>30, <1>31, <1>32, <1>33, <1>34, <1>35, <1>36, <1>37, <1>38, <1>39, <1>40,
     <1>41, <1>42, <1>43, <1>44, <1>45, <1>46, <1>47, <1>48, <1>49, <1>50, <1>51
  DEF Next, AppStep, ConnectStep, DisconnectStep, Destroy, RecvStep, KeepStep, RcStep, Clients

LEMMA NextWatched ==
  TypeOK /\ DestroyAnnounced /\ ConnectedIsWatched /\ [Next]_vars => ConnectedIsWatched'
<1> SUFFICES ASSUME TypeOK, DestroyAnnounced, ConnectedIsWatched,
[Next]_vars PROVE ConnectedIsWatched'
  OBVIOUS
<1> USE ThreadsAssumption
    DEF TypeOK, Threads, Clients, rcVars, At, Goto, Go, Returned, Refused, Exhausted,
        DestroyAnnounced, ConnectedIsWatched, Lives, DestroyPcs, Stopped, Free, handleVars
<1>1. ASSUME NEW c \in Clients, Check(c) PROVE ConnectedIsWatched'
  BY <1>1 DEF Check
<1>2. ASSUME NEW c \in Clients, ToConnecting(c) PROVE ConnectedIsWatched'
  BY <1>2 DEF ToConnecting
<1>3. ASSUME NEW c \in Clients, OpenSocket(c) PROVE ConnectedIsWatched'
  BY <1>3 DEF OpenSocket
<1>4. ASSUME NEW c \in Clients, OpenError(c) PROVE ConnectedIsWatched'
  BY <1>4 DEF OpenError
<1>5. ASSUME NEW c \in Clients, Handshake(c) PROVE ConnectedIsWatched'
  BY <1>5 DEF Handshake
<1>6. ASSUME NEW c \in Clients, HandshakeError(c) PROVE ConnectedIsWatched'
  BY <1>6 DEF HandshakeError
<1>7. ASSUME NEW c \in Clients, SendConnect(c) PROVE ConnectedIsWatched'
  BY <1>7 DEF SendConnect
<1>8. ASSUME NEW c \in Clients, SendConnectError(c) PROVE ConnectedIsWatched'
  BY <1>8 DEF SendConnectError
<1>9. ASSUME NEW c \in Clients, AckCheck(c) PROVE ConnectedIsWatched'
  BY <1>9 DEF AckCheck
<1>10. ASSUME NEW c \in Clients, AckTimeout(c) PROVE ConnectedIsWatched'
  BY <1>10 DEF AckTimeout
<1>11. ASSUME NEW c \in Clients, AckAccepted(c) PROVE ConnectedIsWatched'
  BY <1>11 DEF AckAccepted
<1>12. ASSUME NEW c \in Clients, AckError(c) PROVE ConnectedIsWatched'
  BY <1>12 DEF AckError
<1>13. ASSUME NEW c \in Clients, ConnectFailed(c) PROVE ConnectedIsWatched'
  BY <1>13 DEF ConnectFailed
<1>14. ASSUME NEW c \in Clients, ToConnected(c) PROVE ConnectedIsWatched'
  BY <1>14 DEF ToConnected
<1>15. ASSUME NEW c \in Clients, StartRecv(c) PROVE ConnectedIsWatched'
  BY <1>15 DEF StartRecv, Start
<1>16. ASSUME NEW c \in Clients, JoinRecv(c) PROVE ConnectedIsWatched'
  BY <1>16 DEF JoinRecv, Join
<1>17. ASSUME NEW c \in Clients, StartKeep(c) PROVE ConnectedIsWatched'
  BY <1>17 DEF StartKeep, Start
<1>18. ASSUME NEW c \in Clients, JoinKeep(c) PROVE ConnectedIsWatched'
  BY <1>18 DEF JoinKeep, Join
<1>19. ASSUME NEW a \in Apps, Disconnect(a) PROVE ConnectedIsWatched'
  BY <1>19 DEF Disconnect
<1>20. ASSUME NEW a \in Apps, ToDisconnecting(a) PROVE ConnectedIsWatched'
  BY <1>20 DEF ToDisconnecting
<1>21. ASSUME NEW a \in Apps, SendDisconnect(a) PROVE ConnectedIsWatched'
  BY <1>21 DEF SendDisconnect
<1>22. ASSUME NEW a \in Apps, RequestStop(a) PROVE ConnectedIsWatched'
  BY <1>22 DEF RequestStop
<1>23. ASSUME NEW a \in Apps, StopThreads(a) PROVE ConnectedIsWatched'
  BY <1>23 DEF StopThreads
<1>24. ASSUME NEW a \in Apps, Close(a) PROVE ConnectedIsWatched'
  BY <1>24 DEF Close
<1>25. ASSUME NEW a \in Apps, ToDisconnected(a) PROVE ConnectedIsWatched'
  BY <1>25 DEF ToDisconnected
<1>26. ASSUME NEW a \in Apps, StopAll(a) PROVE ConnectedIsWatched'
  BY <1>26 DEF StopAll
<1>27. ASSUME NEW a \in Apps, JoinMember(a, "joinRc", "joinKeepalive", Rc, keepHandle)
       PROVE  ConnectedIsWatched'
  BY <1>27 DEF JoinMember
<1>28. ASSUME NEW a \in Apps, JoinMember(a, "joinKeepalive", "joinReceive", keepHandle, recvHandle)
       PROVE  ConnectedIsWatched'
  BY <1>28 DEF JoinMember
<1>29. ASSUME NEW a \in Apps, JoinMember(a, "joinReceive", "closeTransport", recvHandle, NoThread)
       PROVE  ConnectedIsWatched'
  BY <1>29 DEF JoinMember
<1>30. ASSUME NEW a \in Apps, CloseTransport(a) PROVE ConnectedIsWatched'
  BY <1>30 DEF CloseTransport
<1>31. ASSUME NEW a \in Apps, NEW op \in Ops, Call(a, op) PROVE ConnectedIsWatched'
  BY <1>31 DEF Call
<1>32. ASSUME NEW r \in Recvs, RecvTop(r) PROVE ConnectedIsWatched'
  BY <1>32 DEF RecvTop
<1>33. ASSUME NEW r \in Recvs, RecvCheck(r) PROVE ConnectedIsWatched'
  BY <1>33 DEF RecvCheck
<1>34. ASSUME NEW r \in Recvs, RecvTimeout(r) PROVE ConnectedIsWatched'
  BY <1>34 DEF RecvTimeout
<1>35. ASSUME NEW r \in Recvs, RecvPacket(r) PROVE ConnectedIsWatched'
  BY <1>35 DEF RecvPacket
<1>36. ASSUME NEW r \in Recvs, RecvError(r) PROVE ConnectedIsWatched'
  BY <1>36 DEF RecvError
<1>37. ASSUME NEW r \in Recvs, RecvStopped(r) PROVE ConnectedIsWatched'
  BY <1>37 DEF RecvStopped
<1>38. ASSUME NEW r \in Recvs, ToReconnecting(r) PROVE ConnectedIsWatched'
  BY <1>38 DEF ToReconnecting
<1>39. ASSUME NEW r \in Recvs, Schedule(r) PROVE ConnectedIsWatched'
  BY <1>39 DEF Schedule
<1>40. ASSUME NEW r \in Recvs, Spawn(r) PROVE ConnectedIsWatched'
  BY <1>40 DEF Spawn
<1>41. ASSUME NEW k \in Keeps, Tick(k) PROVE ConnectedIsWatched'
  BY <1>41 DEF Tick
<1>42. ASSUME NEW k \in Keeps, Ping(k) PROVE ConnectedIsWatched'
  BY <1>42 DEF Ping
<1>43. ASSUME RcWait PROVE ConnectedIsWatched'
  BY <1>43 DEF RcWait
<1>44. ASSUME RcTest PROVE ConnectedIsWatched'
  BY <1>44 DEF RcTest
<1>45. ASSUME RcGiveUp PROVE ConnectedIsWatched'
  BY <1>45 DEF RcGiveUp
<1>46. ASSUME RcSleep PROVE ConnectedIsWatched'
  BY <1>46 DEF RcSleep
<1>47. ASSUME RcAgain PROVE ConnectedIsWatched'
  BY <1>47 DEF RcAgain
<1>48. ASSUME NEW s \in Sockets, Accept(s) PROVE ConnectedIsWatched'
  BY <1>48 DEF Accept, Broker
<1>49. ASSUME NEW s \in Sockets, Refuse(s) PROVE ConnectedIsWatched'
  BY <1>49 DEF Refuse, Broker
<1>50. ASSUME NEW s \in Sockets, Lose(s) PROVE ConnectedIsWatched'
  BY <1>50 DEF Lose, Broker
<1>51. CASE UNCHANGED vars
  BY <1>51 DEF vars
<1> QED
  BY <1>1, <1>2, <1>3, <1>4, <1>5, <1>6, <1>7, <1>8, <1>9, <1>10, <1>11, <1>12, <1>13, <1>14,
     <1>15, <1>16, <1>17, <1>18, <1>19, <1>20, <1>21, <1>22, <1>23, <1>24, <1>25, <1>26, <1>27,
     <1>28, <1>29, <1>30, <1>31, <1>32, <1>33, <1>34, <1>35, <1>36, <1>37, <1>38, <1>39, <1>40,
     <1>41, <1>42, <1>43, <1>44, <1>45, <1>46, <1>47, <1>48, <1>49, <1>50, <1>51
  DEF Next, AppStep, ConnectStep, DisconnectStep, Destroy, RecvStep, KeepStep, RcStep, Clients

----------------------------------------------------------------------------
(* A client that is reconnecting has a thread for it.                      *)

LEMMA InitRecovery == Init => FirstRequestKept /\ RecoveryUnderway
  BY ThreadsAssumption DEF Init, FirstRequestKept, RecoveryUnderway, At, Threads, Clients

LEMMA NextFirstRequest ==
  TypeOK /\ FirstRequestKept /\ [Next]_vars => FirstRequestKept'
<1> SUFFICES ASSUME TypeOK, FirstRequestKept, [Next]_vars PROVE FirstRequestKept'
  OBVIOUS
<1> USE ThreadsAssumption
    DEF TypeOK, Threads, Clients, rcVars, At, Goto, Go, Returned, Refused, Exhausted,
        FirstRequestKept, RecvPcs, Free
<1>1. ASSUME NEW c \in Clients, Check(c) PROVE FirstRequestKept'
  BY <1>1 DEF Check
<1>2. ASSUME NEW c \in Clients, ToConnecting(c) PROVE FirstRequestKept'
  BY <1>2 DEF ToConnecting
<1>3. ASSUME NEW c \in Clients, OpenSocket(c) PROVE FirstRequestKept'
  BY <1>3 DEF OpenSocket
<1>4. ASSUME NEW c \in Clients, OpenError(c) PROVE FirstRequestKept'
  BY <1>4 DEF OpenError
<1>5. ASSUME NEW c \in Clients, Handshake(c) PROVE FirstRequestKept'
  BY <1>5 DEF Handshake
<1>6. ASSUME NEW c \in Clients, HandshakeError(c) PROVE FirstRequestKept'
  BY <1>6 DEF HandshakeError
<1>7. ASSUME NEW c \in Clients, SendConnect(c) PROVE FirstRequestKept'
  BY <1>7 DEF SendConnect
<1>8. ASSUME NEW c \in Clients, SendConnectError(c) PROVE FirstRequestKept'
  BY <1>8 DEF SendConnectError
<1>9. ASSUME NEW c \in Clients, AckCheck(c) PROVE FirstRequestKept'
  BY <1>9 DEF AckCheck
<1>10. ASSUME NEW c \in Clients, AckTimeout(c) PROVE FirstRequestKept'
  BY <1>10 DEF AckTimeout
<1>11. ASSUME NEW c \in Clients, AckAccepted(c) PROVE FirstRequestKept'
  BY <1>11 DEF AckAccepted
<1>12. ASSUME NEW c \in Clients, AckError(c) PROVE FirstRequestKept'
  BY <1>12 DEF AckError
<1>13. ASSUME NEW c \in Clients, ConnectFailed(c) PROVE FirstRequestKept'
  BY <1>13 DEF ConnectFailed
<1>14. ASSUME NEW c \in Clients, ToConnected(c) PROVE FirstRequestKept'
  BY <1>14 DEF ToConnected
<1>15. ASSUME NEW c \in Clients, StartRecv(c) PROVE FirstRequestKept'
  BY <1>15 DEF StartRecv, Start
<1>16. ASSUME NEW c \in Clients, JoinRecv(c) PROVE FirstRequestKept'
  BY <1>16 DEF JoinRecv, Join
<1>17. ASSUME NEW c \in Clients, StartKeep(c) PROVE FirstRequestKept'
  BY <1>17 DEF StartKeep, Start
<1>18. ASSUME NEW c \in Clients, JoinKeep(c) PROVE FirstRequestKept'
  BY <1>18 DEF JoinKeep, Join
<1>19. ASSUME NEW a \in Apps, Disconnect(a) PROVE FirstRequestKept'
  BY <1>19 DEF Disconnect
<1>20. ASSUME NEW a \in Apps, ToDisconnecting(a) PROVE FirstRequestKept'
  BY <1>20 DEF ToDisconnecting
<1>21. ASSUME NEW a \in Apps, SendDisconnect(a) PROVE FirstRequestKept'
  BY <1>21 DEF SendDisconnect
<1>22. ASSUME NEW a \in Apps, RequestStop(a) PROVE FirstRequestKept'
  BY <1>22 DEF RequestStop
<1>23. ASSUME NEW a \in Apps, StopThreads(a) PROVE FirstRequestKept'
  BY <1>23 DEF StopThreads
<1>24. ASSUME NEW a \in Apps, Close(a) PROVE FirstRequestKept'
  BY <1>24 DEF Close
<1>25. ASSUME NEW a \in Apps, ToDisconnected(a) PROVE FirstRequestKept'
  BY <1>25 DEF ToDisconnected
<1>26. ASSUME NEW a \in Apps, StopAll(a) PROVE FirstRequestKept'
  BY <1>26 DEF StopAll
<1>27. ASSUME NEW a \in Apps, JoinMember(a, "joinRc", "joinKeepalive", Rc, keepHandle)
       PROVE  FirstRequestKept'
  BY <1>27 DEF JoinMember
<1>28. ASSUME NEW a \in Apps, JoinMember(a, "joinKeepalive", "joinReceive", keepHandle, recvHandle)
       PROVE  FirstRequestKept'
  BY <1>28 DEF JoinMember
<1>29. ASSUME NEW a \in Apps, JoinMember(a, "joinReceive", "closeTransport", recvHandle, NoThread)
       PROVE  FirstRequestKept'
  BY <1>29 DEF JoinMember
<1>30. ASSUME NEW a \in Apps, CloseTransport(a) PROVE FirstRequestKept'
  BY <1>30 DEF CloseTransport
<1>31. ASSUME NEW a \in Apps, NEW op \in Ops, Call(a, op) PROVE FirstRequestKept'
  BY <1>31 DEF Call
<1>32. ASSUME NEW r \in Recvs, RecvTop(r) PROVE FirstRequestKept'
  BY <1>32 DEF RecvTop
<1>33. ASSUME NEW r \in Recvs, RecvCheck(r) PROVE FirstRequestKept'
  BY <1>33 DEF RecvCheck
<1>34. ASSUME NEW r \in Recvs, RecvTimeout(r) PROVE FirstRequestKept'
  BY <1>34 DEF RecvTimeout
<1>35. ASSUME NEW r \in Recvs, RecvPacket(r) PROVE FirstRequestKept'
  BY <1>35 DEF RecvPacket
<1>36. ASSUME NEW r \in Recvs, RecvError(r) PROVE FirstRequestKept'
  BY <1>36 DEF RecvError
<1>37. ASSUME NEW r \in Recvs, RecvStopped(r) PROVE FirstRequestKept'
  BY <1>37 DEF RecvStopped
<1>38. ASSUME NEW r \in Recvs, ToReconnecting(r) PROVE FirstRequestKept'
  BY <1>38 DEF ToReconnecting
<1>39. ASSUME NEW r \in Recvs, Schedule(r) PROVE FirstRequestKept'
  BY <1>39 DEF Schedule
<1>40. ASSUME NEW r \in Recvs, Spawn(r) PROVE FirstRequestKept'
  BY <1>40 DEF Spawn
<1>41. ASSUME NEW k \in Keeps, Tick(k) PROVE FirstRequestKept'
  BY <1>41 DEF Tick
<1>42. ASSUME NEW k \in Keeps, Ping(k) PROVE FirstRequestKept'
  BY <1>42 DEF Ping
<1>43. ASSUME RcWait PROVE FirstRequestKept'
  BY <1>43 DEF RcWait
<1>44. ASSUME RcTest PROVE FirstRequestKept'
  BY <1>44 DEF RcTest
<1>45. ASSUME RcGiveUp PROVE FirstRequestKept'
  BY <1>45 DEF RcGiveUp
<1>46. ASSUME RcSleep PROVE FirstRequestKept'
  BY <1>46 DEF RcSleep
<1>47. ASSUME RcAgain PROVE FirstRequestKept'
  BY <1>47 DEF RcAgain
<1>48. ASSUME NEW s \in Sockets, Accept(s) PROVE FirstRequestKept'
  BY <1>48 DEF Accept, Broker
<1>49. ASSUME NEW s \in Sockets, Refuse(s) PROVE FirstRequestKept'
  BY <1>49 DEF Refuse, Broker
<1>50. ASSUME NEW s \in Sockets, Lose(s) PROVE FirstRequestKept'
  BY <1>50 DEF Lose, Broker
<1>51. CASE UNCHANGED vars
  BY <1>51 DEF vars
<1> QED
  BY <1>1, <1>2, <1>3, <1>4, <1>5, <1>6, <1>7, <1>8, <1>9, <1>10, <1>11, <1>12, <1>13, <1>14,
     <1>15, <1>16, <1>17, <1>18, <1>19, <1>20, <1>21, <1>22, <1>23, <1>24, <1>25, <1>26, <1>27,
     <1>28, <1>29, <1>30, <1>31, <1>32, <1>33, <1>34, <1>35, <1>36, <1>37, <1>38, <1>39, <1>40,
     <1>41, <1>42, <1>43, <1>44, <1>45, <1>46, <1>47, <1>48, <1>49, <1>50, <1>51
  DEF Next, AppStep, ConnectStep, DisconnectStep, Destroy, RecvStep, KeepStep, RcStep, Clients

LEMMA NextRecovery ==
  TypeOK /\ FirstRequestKept /\ RecoveryUnderway /\ [Next]_vars => RecoveryUnderway'
<1> SUFFICES ASSUME TypeOK, FirstRequestKept, RecoveryUnderway, [Next]_vars PROVE RecoveryUnderway'
  OBVIOUS
<1> USE ThreadsAssumption
    DEF TypeOK, Threads, Clients, rcVars, At, Goto, Go, Returned, Refused, Exhausted,
        FirstRequestKept, RecoveryUnderway, Free
<1>1. ASSUME NEW c \in Clients, Check(c) PROVE RecoveryUnderway'
  BY <1>1 DEF Check
<1>2. ASSUME NEW c \in Clients, ToConnecting(c) PROVE RecoveryUnderway'
  BY <1>2 DEF ToConnecting
<1>3. ASSUME NEW c \in Clients, OpenSocket(c) PROVE RecoveryUnderway'
  BY <1>3 DEF OpenSocket
<1>4. ASSUME NEW c \in Clients, OpenError(c) PROVE RecoveryUnderway'
  BY <1>4 DEF OpenError
<1>5. ASSUME NEW c \in Clients, Handshake(c) PROVE RecoveryUnderway'
  BY <1>5 DEF Handshake
<1>6. ASSUME NEW c \in Clients, HandshakeError(c) PROVE RecoveryUnderway'
  BY <1>6 DEF HandshakeError
<1>7. ASSUME NEW c \in Clients, SendConnect(c) PROVE RecoveryUnderway'
  BY <1>7 DEF SendConnect
<1>8. ASSUME NEW c \in Clients, SendConnectError(c) PROVE RecoveryUnderway'
  BY <1>8 DEF SendConnectError
<1>9. ASSUME NEW c \in Clients, AckCheck(c) PROVE RecoveryUnderway'
  BY <1>9 DEF AckCheck
<1>10. ASSUME NEW c \in Clients, AckTimeout(c) PROVE RecoveryUnderway'
  BY <1>10 DEF AckTimeout
<1>11. ASSUME NEW c \in Clients, AckAccepted(c) PROVE RecoveryUnderway'
  BY <1>11 DEF AckAccepted
<1>12. ASSUME NEW c \in Clients, AckError(c) PROVE RecoveryUnderway'
  BY <1>12 DEF AckError
<1>13. ASSUME NEW c \in Clients, ConnectFailed(c) PROVE RecoveryUnderway'
  BY <1>13 DEF ConnectFailed
<1>14. ASSUME NEW c \in Clients, ToConnected(c) PROVE RecoveryUnderway'
  BY <1>14 DEF ToConnected
<1>15. ASSUME NEW c \in Clients, StartRecv(c) PROVE RecoveryUnderway'
  BY <1>15 DEF StartRecv, Start
<1>16. ASSUME NEW c \in Clients, JoinRecv(c) PROVE RecoveryUnderway'
  BY <1>16 DEF JoinRecv, Join
<1>17. ASSUME NEW c \in Clients, StartKeep(c) PROVE RecoveryUnderway'
  BY <1>17 DEF StartKeep, Start
<1>18. ASSUME NEW c \in Clients, JoinKeep(c) PROVE RecoveryUnderway'
  BY <1>18 DEF JoinKeep, Join
<1>19. ASSUME NEW a \in Apps, Disconnect(a) PROVE RecoveryUnderway'
  BY <1>19 DEF Disconnect
<1>20. ASSUME NEW a \in Apps, ToDisconnecting(a) PROVE RecoveryUnderway'
  BY <1>20 DEF ToDisconnecting
<1>21. ASSUME NEW a \in Apps, SendDisconnect(a) PROVE RecoveryUnderway'
  BY <1>21 DEF SendDisconnect
<1>22. ASSUME NEW a \in Apps, RequestStop(a) PROVE RecoveryUnderway'
  BY <1>22 DEF RequestStop
<1>23. ASSUME NEW a \in Apps, StopThreads(a) PROVE RecoveryUnderway'
  BY <1>23 DEF StopThreads
<1>24. ASSUME NEW a \in Apps, Close(a) PROVE RecoveryUnderway'
  BY <1>24 DEF Close
<1>25. ASSUME NEW a \in Apps, ToDisconnected(a) PROVE RecoveryUnderway'
  BY <1>25 DEF ToDisconnected
<1>26. ASSUME NEW a \in Apps, StopAll(a) PROVE RecoveryUnderway'
  BY <1>26 DEF StopAll
<1>27. ASSUME NEW a \in Apps, JoinMember(a, "joinRc", "joinKeepalive", Rc, keepHandle)
       PROVE  RecoveryUnderway'
  BY <1>27 DEF JoinMember
<1>28. ASSUME NEW a \in Apps, JoinMember(a, "joinKeepalive", "joinReceive", keepHandle, recvHandle)
       PROVE  RecoveryUnderway'
  BY <1>28 DEF JoinMember
<1>29. ASSUME NEW a \in Apps, JoinMember(a, "joinReceive", "closeTransport", recvHandle, NoThread)
       PROVE  RecoveryUnderway'
  BY <1>29 DEF JoinMember
<1>30. ASSUME NEW a \in Apps, CloseTransport(a) PROVE RecoveryUnderway'
  BY <1>30 DEF CloseTransport
<1>31. ASSUME NEW a \in Apps, NEW op \in Ops, Call(a, op) PROVE RecoveryUnderway'
  BY <1>31 DEF Call
<1>32. ASSUME NEW r \in Recvs, RecvTop(r) PROVE RecoveryUnderway'
  BY <1>32 DEF RecvTop
<1>33. ASSUME NEW r \in Recvs, RecvCheck(r) PROVE RecoveryUnderway'
  BY <1>33 DEF RecvCheck
<1>34. ASSUME NEW r \in Recvs, RecvTimeout(r) PROVE RecoveryUnderway'
  BY <1>34 DEF RecvTimeout
<1>35. ASSUME NEW r \in Recvs, RecvPacket(r) PROVE RecoveryUnderway'
  BY <1>35 DEF RecvPacket
<1>36. ASSUME NEW r \in Recvs, RecvError(r) PROVE RecoveryUnderway'
  BY <1>36 DEF RecvError
<1>37. ASSUME NEW r \in Recvs, RecvStopped(r) PROVE RecoveryUnderway'
  BY <1>37 DEF RecvStopped
<1>38. ASSUME NEW r \in Recvs, ToReconnecting(r) PROVE RecoveryUnderway'
  BY <1>38 DEF ToReconnecting
<1>39. ASSUME NEW r \in Recvs, Schedule(r) PROVE RecoveryUnderway'
  BY <1>39 DEF Schedule
<1>40. ASSUME NEW r \in Recvs, Spawn(r) PROVE RecoveryUnderway'
  BY <1>40 DEF Spawn
<1>41. ASSUME NEW k \in Keeps, Tick(k) PROVE RecoveryUnderway'
  BY <1>41 DEF Tick
<1>42. ASSUME NEW k \in Keeps, Ping(k) PROVE RecoveryUnderway'
  BY <1>42 DEF Ping
<1>43. ASSUME RcWait PROVE RecoveryUnderway'
  BY <1>43 DEF RcWait
<1>44. ASSUME RcTest PROVE RecoveryUnderway'
  BY <1>44 DEF RcTest
<1>45. ASSUME RcGiveUp PROVE RecoveryUnderway'
  BY <1>45 DEF RcGiveUp
<1>46. ASSUME RcSleep PROVE RecoveryUnderway'
  BY <1>46 DEF RcSleep
<1>47. ASSUME RcAgain PROVE RecoveryUnderway'
  BY <1>47 DEF RcAgain
<1>48. ASSUME NEW s \in Sockets, Accept(s) PROVE RecoveryUnderway'
  BY <1>48 DEF Accept, Broker
<1>49. ASSUME NEW s \in Sockets, Refuse(s) PROVE RecoveryUnderway'
  BY <1>49 DEF Refuse, Broker
<1>50. ASSUME NEW s \in Sockets, Lose(s) PROVE RecoveryUnderway'
  BY <1>50 DEF Lose, Broker
<1>51. CASE UNCHANGED vars
  BY <1>51 DEF vars
<1> QED
  BY <1>1, <1>2, <1>3, <1>4, <1>5, <1>6, <1>7, <1>8, <1>9, <1>10, <1>11, <1>12, <1>13, <1>14,
     <1>15, <1>16, <1>17, <1>18, <1>19, <1>20, <1>21, <1>22, <1>23, <1>24, <1>25, <1>26, <1>27,
     <1>28, <1>29, <1>30, <1>31, <1>32, <1>33, <1>34, <1>35, <1>36, <1>37, <1>38, <1>39, <1>40,
     <1>41, <1>42, <1>43, <1>44, <1>45, <1>46, <1>47, <1>48, <1>49, <1>50, <1>51
  DEF Next, AppStep, ConnectStep, DisconnectStep, Destroy, RecvStep, KeepStep, RcStep, Clients

----------------------------------------------------------------------------
(* Running threads are accounted for.                                      *)

LEMMA InitForgotten == Init => JoinsOne /\ NoThreadForgotten
  BY ThreadsAssumption DEF Init, JoinsOne, NoThreadForgotten, Threads, Clients

LEMMA NextJoinsOne ==
  TypeOK /\ JoinsOne /\ [Next]_vars => JoinsOne'
<1> SUFFICES ASSUME TypeOK, JoinsOne, [Next]_vars PROVE JoinsOne'
  OBVIOUS
<1> USE ThreadsAssumption
    DEF TypeOK, Threads, Clients, rcVars, At, Goto, Go, Returned, Refused, Exhausted, JoinsOne,
       Free, handleVars
<1>1. ASSUME NEW c \in Clients, Check(c) PROVE JoinsOne'
  BY <1>1 DEF Check
<1>2. ASSUME NEW c \in Clients, ToConnecting(c) PROVE JoinsOne'
  BY <1>2 DEF ToConnecting
<1>3. ASSUME NEW c \in Clients, OpenSocket(c) PROVE JoinsOne'
  BY <1>3 DEF OpenSocket
<1>4. ASSUME NEW c \in Clients, OpenError(c) PROVE JoinsOne'
  BY <1>4 DEF OpenError
<1>5. ASSUME NEW c \in Clients, Handshake(c) PROVE JoinsOne'
  BY <1>5 DEF Handshake
<1>6. ASSUME NEW c \in Clients, HandshakeError(c) PROVE JoinsOne'
  BY <1>6 DEF HandshakeError
<1>7. ASSUME NEW c \in Clients, SendConnect(c) PROVE JoinsOne'
  BY <1>7 DEF SendConnect
<1>8. ASSUME NEW c \in Clients, SendConnectError(c) PROVE JoinsOne'
  BY <1>8 DEF SendConnectError
<1>9. ASSUME NEW c \in Clients, AckCheck(c) PROVE JoinsOne'
  BY <1>9 DEF AckCheck
<1>10. ASSUME NEW c \in Clients, AckTimeout(c) PROVE JoinsOne'
  BY <1>10 DEF AckTimeout
<1>11. ASSUME NEW c \in Clients, AckAccepted(c) PROVE JoinsOne'
  BY <1>11 DEF AckAccepted
<1>12. ASSUME NEW c \in Clients, AckError(c) PROVE JoinsOne'
  BY <1>12 DEF AckError
<1>13. ASSUME NEW c \in Clients, ConnectFailed(c) PROVE JoinsOne'
  BY <1>13 DEF ConnectFailed
<1>14. ASSUME NEW c \in Clients, ToConnected(c) PROVE JoinsOne'
  BY <1>14 DEF ToConnected
<1>15. ASSUME NEW c \in Clients, StartRecv(c) PROVE JoinsOne'
  BY <1>15 DEF StartRecv, Start
<1>16. ASSUME NEW c \in Clients, JoinRecv(c) PROVE JoinsOne'
  BY <1>16 DEF JoinRecv, Join
<1>17. ASSUME NEW c \in Clients, StartKeep(c) PROVE JoinsOne'
  BY <1>17 DEF StartKeep, Start
<1>18. ASSUME NEW c \in Clients, JoinKeep(c) PROVE JoinsOne'
  BY <1>18 DEF JoinKeep, Join
<1>19. ASSUME NEW a \in Apps, Disconnect(a) PROVE JoinsOne'
  BY <1>19 DEF Disconnect
<1>20. ASSUME NEW a \in Apps, ToDisconnecting(a) PROVE JoinsOne'
  BY <1>20 DEF ToDisconnecting
<1>21. ASSUME NEW a \in Apps, SendDisconnect(a) PROVE JoinsOne'
  BY <1>21 DEF SendDisconnect
<1>22. ASSUME NEW a \in Apps, RequestStop(a) PROVE JoinsOne'
  BY <1>22 DEF RequestStop
<1>23. ASSUME NEW a \in Apps, StopThreads(a) PROVE JoinsOne'
  BY <1>23 DEF StopThreads
<1>24. ASSUME NEW a \in Apps, Close(a) PROVE JoinsOne'
  BY <1>24 DEF Close
<1>25. ASSUME NEW a \in Apps, ToDisconnected(a) PROVE JoinsOne'
  BY <1>25 DEF ToDisconnected
<1>26. ASSUME NEW a \in Apps, StopAll(a) PROVE JoinsOne'
  BY <1>26 DEF StopAll
<1>27. ASSUME NEW a \in Apps, JoinMember(a, "joinRc", "joinKeepalive", Rc, keepHandle)
       PROVE  JoinsOne'
  BY <1>27 DEF JoinMember
<1>28. ASSUME NEW a \in Apps, JoinMember(a, "joinKeepalive", "joinReceive", keepHandle, recvHandle)
       PROVE  JoinsOne'
  BY <1>28 DEF JoinMember
<1>29. ASSUME NEW a \in Apps, JoinMember(a, "joinReceive", "closeTransport", recvHandle, NoThread)
       PROVE  JoinsOne'
  BY <1>29 DEF JoinMember
<1>30. ASSUME NEW a \in Apps, CloseTransport(a) PROVE JoinsOne'
  BY <1>30 DEF CloseTransport
<1>31. ASSUME NEW a \in Apps, NEW op \in Ops, Call(a, op) PROVE JoinsOne'
  BY <1>31 DEF Call
<1>32. ASSUME NEW r \in Recvs, RecvTop(r) PROVE JoinsOne'
  BY <1>32 DEF RecvTop
<1>33. ASSUME NEW r \in Recvs, RecvCheck(r) PROVE JoinsOne'
  BY <1>33 DEF RecvCheck
<1>34. ASSUME NEW r \in Recvs, RecvTimeout(r) PROVE JoinsOne'
  BY <1>34 DEF RecvTimeout
<1>35. ASSUME NEW r \in Recvs, RecvPacket(r) PROVE JoinsOne'
  BY <1>35 DEF RecvPacket
<1>36. ASSUME NEW r \in Recvs, RecvError(r) PROVE JoinsOne'
  BY <1>36 DEF RecvError
<1>37. ASSUME NEW r \in Recvs, RecvStopped(r) PROVE JoinsOne'
  BY <1>37 DEF RecvStopped
<1>38. ASSUME NEW r \in Recvs, ToReconnecting(r) PROVE JoinsOne'
  BY <1>38 DEF ToReconnecting
<1>39. ASSUME NEW r \in Recvs, Schedule(r) PROVE JoinsOne'
  BY <1>39 DEF Schedule
<1>40. ASSUME NEW r \in Recvs, Spawn(r) PROVE JoinsOne'
  BY <1>40 DEF Spawn
<1>41. ASSUME NEW k \in Keeps, Tick(k) PROVE JoinsOne'
  BY <1>41 DEF Tick
<1>42. ASSUME NEW k \in Keeps, Ping(k) PROVE JoinsOne'
  BY <1>42 DEF Ping
<1>43. ASSUME RcWait PROVE JoinsOne'
  BY <1>43 DEF RcWait
<1>44. ASSUME RcTest PROVE JoinsOne'
  BY <1>44 DEF RcTest
<1>45. ASSUME RcGiveUp PROVE JoinsOne'
  BY <1>45 DEF RcGiveUp
<1>46. ASSUME RcSleep PROVE JoinsOne'
  BY <1>46 DEF RcSleep
<1>47. ASSUME RcAgain PROVE JoinsOne'
  BY <1>47 DEF RcAgain
<1>48. ASSUME NEW s \in Sockets, Accept(s) PROVE JoinsOne'
  BY <1>48 DEF Accept, Broker
<1>49. ASSUME NEW s \in Sockets, Refuse(s) PROVE JoinsOne'
  BY <1>49 DEF Refuse, Broker
<1>50. ASSUME NEW s \in Sockets, Lose(s) PROVE JoinsOne'
  BY <1>50 DEF Lose, Broker
<1>51. CASE UNCHANGED vars
  BY <1>51 DEF vars
<1> QED
  BY <1>1, <1>2, <1>3, <1>4, <1>5, <1>6, <1>7, <1>8, <1>9, <1>10, <1>11, <1>12, <1>13, <1>14,
     <1>15, <1>16, <1>17, <1>18, <1>19, <1>20, <1>21, <1>22, <1>23, <1>24, <1>25, <1>26, <1>27,
     <1>28, <1>29, <1>30, <1>31, <1>32, <1>33, <1>34, <1>35, <1>36, <1>37, <1>38, <1>39, <1>40,
     <1>41, <1>42, <1>43, <1>44, <1>45, <1>46, <1>47, <1>48, <1>49, <1>50, <1>51
  DEF Next, AppStep, ConnectStep, DisconnectStep, Destroy, RecvStep, KeepStep, RcStep, Clients

LEMMA NextForgotten ==
  TypeOK /\ JoinsOne /\ NoThreadForgotten /\ [Next]_vars => NoThreadForgotten'
<1> SUFFICES ASSUME TypeOK, JoinsOne, NoThreadForgotten, [Next]_vars PROVE NoThreadForgotten'
  OBVIOUS
<1> USE ThreadsAssumption
    DEF TypeOK, Threads, Clients, rcVars, At, Goto, Go, Returned, Refused, Exhausted,
        JoinsOne, NoThreadForgotten, Free, handleVars
<1>1. ASSUME NEW c \in Clients, Check(c) PROVE NoThreadForgotten'
  BY <1>1 DEF Check
<1>2. ASSUME NEW c \in Clients, ToConnecting(c) PROVE NoThreadForgotten'
  BY <1>2 DEF ToConnecting
<1>3. ASSUME NEW c \in Clients, OpenSocket(c) PROVE NoThreadForgotten'
  BY <1>3 DEF OpenSocket
<1>4. ASSUME NEW c \in Clients, OpenError(c) PROVE NoThreadForgotten'
  BY <1>4 DEF OpenError
<1>5. ASSUME NEW c \in Clients, Handshake(c) PROVE NoThreadForgotten'
  BY <1>5 DEF Handshake
<1>6. ASSUME NEW c \in Clients, HandshakeError(c) PROVE NoThreadForgotten'
  BY <1>6 DEF HandshakeError
<1>7. ASSUME NEW c \in Clients, SendConnect(c) PROVE NoThreadForgotten'
  BY <1>7 DEF SendConnect
<1>8. ASSUME NEW c \in Clients, SendConnectError(c) PROVE NoThreadForgotten'
  BY <1>8 DEF SendConnectError
<1>9. ASSUME NEW c \in Clients, AckCheck(c) PROVE NoThreadForgotten'
  BY <1>9 DEF AckCheck
<1>10. ASSUME NEW c \in Clients, AckTimeout(c) PROVE NoThreadForgotten'
  BY <1>10 DEF AckTimeout
<1>11. ASSUME NEW c \in Clients, AckAccepted(c) PROVE NoThreadForgotten'
  BY <1>11 DEF AckAccepted
<1>12. ASSUME NEW c \in Clients, AckError(c) PROVE NoThreadForgotten'
  BY <1>12 DEF AckError
<1>13. ASSUME NEW c \in Clients, ConnectFailed(c) PROVE NoThreadForgotten'
  BY <1>13 DEF ConnectFailed
<1>14. ASSUME NEW c \in Clients, ToConnected(c) PROVE NoThreadForgotten'
  BY <1>14 DEF ToConnected
<1>15. ASSUME NEW c \in Clients, StartRecv(c) PROVE NoThreadForgotten'
  BY <1>15 DEF StartRecv, Start
<1>16. ASSUME NEW c \in Clients, JoinRecv(c) PROVE NoThreadForgotten'
  BY <1>16 DEF JoinRecv, Join
<1>17. ASSUME NEW c \in Clients, StartKeep(c) PROVE NoThreadForgotten'
  BY <1>17 DEF StartKeep, Start
<1>18. ASSUME NEW c \in Clients, JoinKeep(c) PROVE NoThreadForgotten'
  BY <1>18 DEF JoinKeep, Join
<1>19. ASSUME NEW a \in Apps, Disconnect(a) PROVE NoThreadForgotten'
  BY <1>19 DEF Disconnect
<1>20. ASSUME NEW a \in Apps, ToDisconnecting(a) PROVE NoThreadForgotten'
  BY <1>20 DEF ToDisconnecting
<1>21. ASSUME NEW a \in Apps, SendDisconnect(a) PROVE NoThreadForgotten'
  BY <1>21 DEF SendDisconnect
<1>22. ASSUME NEW a \in Apps, RequestStop(a) PROVE NoThreadForgotten'
  BY <1>22 DEF RequestStop
<1>23. ASSUME NEW a \in Apps, StopThreads(a) PROVE NoThreadForgotten'
  BY <1>23 DEF StopThreads
<1>24. ASSUME NEW a \in Apps, Close(a) PROVE NoThreadForgotten'
  BY <1>24 DEF Close
<1>25. ASSUME NEW a \in Apps, ToDisconnected(a) PROVE NoThreadForgotten'
  BY <1>25 DEF ToDisconnected
<1>26. ASSUME NEW a \in Apps, StopAll(a) PROVE NoThreadForgotten'
  BY <1>26 DEF StopAll
<1>27. ASSUME NEW a \in Apps, JoinMember(a, "joinRc", "joinKeepalive", Rc, keepHandle)
       PROVE  NoThreadForgotten'
  BY <1>27 DEF JoinMember
<1>28. ASSUME NEW a \in Apps, JoinMember(a, "joinKeepalive", "joinReceive", keepHandle, recvHandle)
       PROVE  NoThreadForgotten'
  BY <1>28 DEF JoinMember
<1>29. ASSUME NEW a \in Apps, JoinMember(a, "joinReceive", "closeTransport", recvHandle, NoThread)
       PROVE  NoThreadForgotten'
  BY <1>29 DEF JoinMember
<1>30. ASSUME NEW a \in Apps, CloseTransport(a) PROVE NoThreadForgotten'
  BY <1>30 DEF CloseTransport
<1>31. ASSUME NEW a \in Apps, NEW op \in Ops, Call(a, op) PROVE NoThreadForgotten'
  BY <1>31 DEF Call
<1>32. ASSUME NEW r \in Recvs, RecvTop(r) PROVE NoThreadForgotten'
  BY <1>32 DEF RecvTop
<1>33. ASSUME NEW r \in Recvs, RecvCheck(r) PROVE NoThreadForgotten'
  BY <1>33 DEF RecvCheck
<1>34. ASSUME NEW r \in Recvs, RecvTimeout(r) PROVE NoThreadForgotten'
  BY <1>34 DEF RecvTimeout
<1>35. ASSUME NEW r \in Recvs, RecvPacket(r) PROVE NoThreadForgotten'
  BY <1>35 DEF RecvPacket
<1>36. ASSUME NEW r \in Recvs, RecvError(r) PROVE NoThreadForgotten'
  BY <1>36 DEF RecvError
<1>37. ASSUME NEW r \in Recvs, RecvStopped(r) PROVE NoThreadForgotten'
  BY <1>37 DEF RecvStopped
<1>38. ASSUME NEW r \in Recvs, ToReconnecting(r) PROVE NoThreadForgotten'
  BY <1>38 DEF ToReconnecting
<1>39. ASSUME NEW r \in Recvs, Schedule(r) PROVE NoThreadForgotten'
  BY <1>39 DEF Schedule
<1>40. ASSUME NEW r \in Recvs, Spawn(r) PROVE NoThreadForgotten'
  BY <1>40 DEF Spawn
<1>41. ASSUME NEW k \in Keeps, Tick(k) PROVE NoThreadForgotten'
  BY <1>41 DEF Tick
<1>42. ASSUME NEW k \in Keeps, Ping(k) PROVE NoThreadForgotten'
  BY <1>42 DEF Ping
<1>43. ASSUME RcWait PROVE NoThreadForgotten'
  BY <1>43 DEF RcWait
<1>44. ASSUME RcTest PROVE NoThreadForgotten'
  BY <1>44 DEF RcTest
<1>45. ASSUME RcGiveUp PROVE NoThreadForgotten'
  BY <1>45 DEF RcGiveUp
<1>46. ASSUME RcSleep PROVE NoThreadForgotten'
  BY <1>46 DEF RcSleep
<1>47. ASSUME RcAgain PROVE NoThreadForgotten'
  BY <1>47 DEF RcAgain
<1>48. ASSUME NEW s \in Sockets, Accept(s) PROVE NoThreadForgotten'
  BY <1>48 DEF Accept, Broker
<1>49. ASSUME NEW s \in Sockets, Refuse(s) PROVE NoThreadForgotten'
  BY <1>49 DEF Refuse, Broker
<1>50. ASSUME NEW s \in Sockets, Lose(s) PROVE NoThreadForgotten'
  BY <1>50 DEF Lose, Broker
<1>51. CASE UNCHANGED vars
  BY <1>51 DEF vars
<1> QED
  BY <1>1, <1>2, <1>3, <1>4, <1>5, <1>6, <1>7, <1>8, <1>9, <1>10, <1>11, <1>12, <1>13, <1>14,
     <1>15, <1>16, <1>17, <1>18, <1>19, <1>20, <1>21, <1>22, <1>23, <1>24, <1>25, <1>26, <1>27,
     <1>28, <1>29, <1>30, <1>31, <1>32, <1>33, <1>34, <1>35, <1>36, <1>37, <1>38, <1>39, <1>40,
     <1>41, <1>42, <1>43, <1>44, <1>45, <1>46, <1>47, <1>48, <1>49, <1>50, <1>51
  DEF Next, AppStep, ConnectStep, DisconnectStep, Destroy, RecvStep, KeepStep, RcStep, Clients

----------------------------------------------------------------------------
(* The theorems.                                                           *)

(* Every variable of the lifecycle keeps its type.                         *)
THEOREM TypeCorrect == Spec => []TypeOK
  BY TypeInvariant, PTL

(* Connected means that somebody would notice the end of the connection,   *)
(* whoever calls connect(), disconnect() and reconnect() at the same time. *)
THEOREM WatchedCorrect == Spec => []ConnectedIsWatched
<1>1. Init => DestroyAnnounced /\ ConnectedIsWatched
  BY InitWatched
<1>2. TypeOK /\ DestroyAnnounced /\ ConnectedIsWatched /\ [Next]_vars
        => DestroyAnnounced' /\ ConnectedIsWatched'
  BY NextAnnounced, NextWatched
<1>3. QED
  BY <1>1, <1>2, TypeCorrect, PTL DEF Spec

(* The first loss of a connection always reaches the reconnect thread.     *)
THEOREM RecoveryCorrect == Spec => []RecoveryUnderway
<1>1. Init => FirstRequestKept /\ RecoveryUnderway
  BY InitRecovery
<1>2. TypeOK /\ FirstRequestKept /\ RecoveryUnderway /\ [Next]_vars
        => FirstRequestKept' /\ RecoveryUnderway'
  BY NextFirstRequest, NextRecovery
<1>3. QED
  BY <1>1, <1>2, TypeCorrect, PTL DEF Spec

(* No receive or keepalive thread runs unaccounted for.                    *)
THEOREM NoneForgotten == Spec => []NoThreadForgotten
<1>1. Init => JoinsOne /\ NoThreadForgotten
  BY InitForgotten
<1>2. TypeOK /\ JoinsOne /\ NoThreadForgotten /\ [Next]_vars => JoinsOne' /\ NoThreadForgotten'
  BY NextJoinsOne, NextForgotten
<1>3. QED
  BY <1>1, <1>2, TypeCorrect, PTL DEF Spec

(* Nobody else changes the delay.                                          *)
LEMMA DelayUnchanged == [Next]_vars => RcAgain \/ UNCHANGED delay
<1> SUFFICES ASSUME [Next]_vars, ~RcAgain PROVE UNCHANGED delay
  OBVIOUS
<1> USE DEF rcVars
<1>1. ASSUME NEW c \in Clients, ConnectStep(c) PROVE UNCHANGED delay
  BY <1>1 DEF ConnectStep, Check, ToConnecting, OpenSocket, OpenError, Handshake, HandshakeError,
     SendConnect, SendConnectError, AckCheck, AckTimeout, AckAccepted, AckError, ConnectFailed,
     ToConnected, StartRecv, Start, JoinRecv, StartKeep, JoinKeep, Join
<1>2. ASSUME NEW a \in Apps, DisconnectStep(a) \/ Destroy(a) PROVE UNCHANGED delay
  BY <1>2 DEF DisconnectStep, Disconnect, ToDisconnecting, SendDisconnect, RequestStop, StopThreads,
     Close, ToDisconnected, Destroy, StopAll, JoinMember, CloseTransport
<1>3. ASSUME NEW a \in Apps, NEW op \in Ops, Call(a, op) PROVE UNCHANGED delay
  BY <1>3 DEF Call
<1>4. ASSUME NEW r \in Recvs, RecvStep(r) PROVE UNCHANGED delay
  BY <1>4 DEF RecvStep, RecvTop, RecvCheck, RecvTimeout, RecvPacket, RecvError, RecvStopped,
     ToReconnecting, Schedule, Spawn
<1>5. ASSUME NEW k \in Keeps, KeepStep(k) PROVE UNCHANGED delay
  BY <1>5 DEF KeepStep, Tick, Ping
<1>6. ASSUME RcWait \/ RcTest \/ RcGiveUp \/ RcSleep PROVE UNCHANGED delay
  BY <1>6 DEF RcWait, RcTest, RcGiveUp, RcSleep
<1>7. ASSUME NEW s \in Sockets, Accept(s) \/ Refuse(s) \/ Lose(s) PROVE UNCHANGED delay
  BY <1>7 DEF Accept, Refuse, Lose, Broker
<1>8. CASE UNCHANGED vars
  BY <1>8 DEF vars
<1>9. QED
  BY <1>1, <1>2, <1>3, <1>4, <1>5, <1>6, <1>7, <1>8 DEF Next, AppStep, RcStep, Clients

(* The back-off stays within its limits, over any number of attempts.      *)
THEOREM BackoffCorrect == Spec => []BackoffBounded
<1>1. Init => BackoffBounded
  BY BackoffAssumption DEF Init, BackoffBounded
<1>2. TypeOK /\ BackoffBounded /\ [Next]_vars => BackoffBounded'
  <2> SUFFICES ASSUME TypeOK, BackoffBounded, [Next]_vars PROVE BackoffBounded'
    OBVIOUS
  <2>1. CASE RcAgain
    <3>1. MaxDelay \div 4 \in Nat /\ delay \in Nat /\ delay' \in Nat
      BY <2>1, DelayGrows, BackoffAssumption DEF TypeOK
    <3>2. QED
      BY <2>1, <3>1, DelayGrows, BackoffAssumption DEF BackoffBounded
  <2>2. CASE UNCHANGED delay
    BY <2>2 DEF BackoffBounded
  <2>3. QED
    BY <2>1, <2>2, DelayUnchanged
<1>3. QED
  BY <1>1, <1>2, TypeCorrect, PTL DEF Spec

=============================================================================

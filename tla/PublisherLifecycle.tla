------------------------- MODULE PublisherLifecycle -------------------------
(***************************************************************************)
(* The connection lifecycle of MqttPublisher on a SocketTransport:         *)
(* connect(), disconnect(), reconnect() and the destructor, called by      *)
(* application threads, against the threads the publisher starts itself:   *)
(* the receive loop, the keepalive loop and the reconnect thread.          *)
(*                                                                         *)
(* One action is one access to something the threads share: the atomic     *)
(* state, the transport's stop flag and descriptor, a stop token, the      *)
(* reconnect request.  Everything that is published is in PublishTracking. *)
(***************************************************************************)
EXTENDS Naturals

CONSTANTS
  Apps,              \* application threads
  Rc,                \* the reconnect thread
  Recvs,             \* receive threads, a new one for every connection
  Keeps,             \* keepalive threads, likewise
  NoThread,          \* an empty std::jthread
  Sockets,           \* the descriptors there are
  NoSocket,          \* fd == -1
  Ops,               \* what the application calls
  ReconnectEnabled,  \* config.reconnect.enabled
  MaxRetries,        \* config.reconnect.maxRetries, 0 for no limit
  InitialDelay,      \* config.reconnect.initialDelay
  MaxDelay,          \* config.reconnect.maxDelay
  Multiplier,        \* config.reconnect.backoffMultiplier, in hundredths
  Jitter,            \* config.reconnect.jitter
  MaxCalls,          \* bound: calls made by the application
  MaxLosses          \* bound: connections the broker refuses or closes

VARIABLES
  state,        \* std::atomic<ConnectionState> state
  stopFlag,     \* transport: stopFlag
  fd,           \* transport: fd
  requested,    \* reconnectRequested
  recvHandle,   \* the thread recvThread holds
  keepHandle,   \* the thread keepaliveThread holds
  stop,         \* thread -> its stop token
  attempt,      \* the reconnect thread's attempt
  delay,        \* its next back-off
  pc,           \* thread -> where it is
  next,         \* application thread -> what follows disconnect()
  sock,         \* thread -> the descriptor its recv() was called on
  old,          \* thread -> the thread it joins
  conn,         \* descriptor -> the connection behind it
  calls,        \* calls made so far
  losses        \* connections refused or closed so far

Clients == Apps \cup {Rc}              \* the threads that run connect()
Threads == Clients \cup Recvs \cup Keeps

transportVars == <<stopFlag, fd>>
handleVars    == <<recvHandle, keepHandle, old>>
boundVars     == <<calls, losses>>
rcVars        == <<attempt, delay>>
vars == <<state, requested, stop, rcVars, pc, next, sock, conn, transportVars, handleVars,
          boundVars>>

ConnectionState ==
  {"Disconnected", "Connecting", "Connected", "Reconnecting", "Disconnecting", "Failed"}

Calls == {"connect", "disconnect", "reconnect", "destroy"}

(* The connection behind a descriptor, as the client can tell: not open;   *)
(* being opened; open, with no CONNECT sent; CONNECT sent; the CONNACK in  *)
(* the socket; in use; at an end, though the descriptor is still open.     *)
Connection == {"closed", "opening", "open", "asked", "accepted", "refused", "live", "lost"}

ConnectPcs    == {"check", "connecting", "open", "handshake", "sendConnect", "ackCheck",
                  "ackRecv", "connected", "startRecv", "joinRecv", "startKeep", "joinKeep",
                  "failed"}
DisconnectPcs == {"disconnect", "disconnecting", "sendDisconnect", "requestStop", "stopThreads",
                  "close", "disconnected"}
DestroyPcs    == {"destroy", "joinRc", "joinKeepalive", "joinReceive", "closeTransport",
                  "destroyed"}
RcPcs         == {"none", "wait", "test", "giveUp", "sleep", "again", "exited"}
RecvPcs       == {"none", "top", "recvCheck", "recv", "error", "lost", "schedule", "spawn", "done"}
KeepPcs       == {"none", "tick", "ping", "done"}

ASSUME ThreadsAssumption ==
  /\ Rc \notin Apps \cup Recvs \cup Keeps
  /\ Apps \cap Recvs = {} /\ Apps \cap Keeps = {} /\ Recvs \cap Keeps = {}
  /\ NoThread \notin Threads
ASSUME SocketsAssumption == NoSocket \notin Sockets
ASSUME OpsAssumption     == Ops \subseteq Calls
ASSUME PolicyAssumption  == ReconnectEnabled \in BOOLEAN /\ MaxRetries \in Nat
ASSUME BackoffAssumption ==
  /\ InitialDelay \in Nat /\ MaxDelay \in Nat /\ Jitter \in BOOLEAN
  /\ Multiplier \in Nat /\ Multiplier >= 100
ASSUME BoundsAssumption  == MaxCalls \in Nat /\ MaxLosses \in Nat

TypeOK ==
  /\ state \in ConnectionState
  /\ stopFlag \in BOOLEAN
  /\ fd \in Sockets \cup {NoSocket}
  /\ requested \in BOOLEAN
  /\ recvHandle \in Recvs \cup {NoThread}
  /\ keepHandle \in Keeps \cup {NoThread}
  /\ stop \in [Threads -> BOOLEAN]
  /\ attempt \in 0 .. MaxRetries + 1
  /\ delay \in Nat
  /\ pc \in [Threads -> ConnectPcs \cup DisconnectPcs \cup DestroyPcs \cup RcPcs \cup RecvPcs
                          \cup KeepPcs \cup {"idle"}]
  /\ \A a \in Apps  : pc[a] \in ConnectPcs \cup DisconnectPcs \cup DestroyPcs \cup {"idle"}
  /\ pc[Rc] \in ConnectPcs \cup RcPcs
  /\ \A r \in Recvs : pc[r] \in RecvPcs
  /\ \A k \in Keeps : pc[k] \in KeepPcs
  /\ next \in [Apps -> {"idle", "check", "destroy"}]
  /\ sock \in [Threads -> Sockets \cup {NoSocket}]
  /\ old \in [Clients -> Recvs \cup Keeps \cup {NoThread}]
  /\ conn \in [Sockets -> Connection]
  /\ calls \in 0 .. MaxCalls
  /\ losses \in 0 .. MaxLosses

Init ==
  /\ state = "Disconnected"
  /\ stopFlag = FALSE
  /\ fd = NoSocket
  /\ requested = FALSE
  /\ recvHandle = NoThread
  /\ keepHandle = NoThread
  /\ stop = [t \in Threads |-> FALSE]
  /\ attempt = 0
  /\ delay = InitialDelay
  /\ pc = [t \in Threads |-> IF t \in Apps THEN "idle" ELSE "none"]
  /\ next = [a \in Apps |-> "idle"]
  /\ sock = [t \in Threads |-> NoSocket]
  /\ old = [c \in Clients |-> NoThread]
  /\ conn = [s \in Sockets |-> "closed"]
  /\ calls = 0
  /\ losses = 0

----------------------------------------------------------------------------
At(t, l)   == pc[t] = l
Goto(t, l) == pc' = [pc EXCEPT ![t] = l]
Go(t, l, m) == At(t, l) /\ Goto(t, m)

Stopped(ts) == [t \in Threads |-> t \in ts \/ stop[t]]

(* closeFd(fd), with or without shutdown().                                *)
CloseFd ==
  /\ fd' = NoSocket
  /\ conn' = [s \in Sockets |-> IF s = fd THEN "closed" ELSE conn[s]]

(* The result of a send on the descriptor: it can succeed on one that was  *)
(* opened, even if the peer is gone, and fail on one that is gone.         *)
CanSend  == fd # NoSocket /\ conn[fd] \notin {"closed", "opening"}
CanFail  == fd # NoSocket => conn[fd] \in {"closed", "opening", "lost"}

----------------------------------------------------------------------------
(* connect(), called by the application or by the reconnect thread.        *)

Returned(c) == IF c = Rc THEN "exited" ELSE "idle"   \* connect() was successful
Refused(c)  == IF c = Rc THEN "again"  ELSE "idle"   \* it was not

Check(c) ==
  /\ Go(c, "check", IF state = "Connected" THEN Refused(c) ELSE "connecting")
  /\ UNCHANGED <<state, requested, stop, rcVars, next, sock, conn, transportVars, handleVars,
                 boundVars>>

ToConnecting(c) ==
  /\ Go(c, "connecting", "open")
  /\ state' = "Connecting"
  /\ UNCHANGED <<requested, stop, rcVars, next, sock, conn, transportVars, handleVars, boundVars>>

(* transport.connect() clears the stop flag and puts a new socket in fd,   *)
(* whatever was there.                                                     *)
OpenSocket(c) ==
  /\ Go(c, "open", "handshake")
  /\ stopFlag' = FALSE
  /\ \E s \in Sockets :
       /\ conn[s] = "closed"
       /\ fd' = s
       /\ conn' = [conn EXCEPT ![s] = "opening"]
  /\ UNCHANGED <<state, requested, stop, rcVars, next, sock, handleVars, boundVars>>

(* getaddrinfo() fails, or socket() does and leaves -1 in fd.              *)
OpenError(c) ==
  /\ Go(c, "open", "failed")
  /\ stopFlag' = FALSE
  /\ fd' \in {fd, NoSocket}
  /\ UNCHANGED <<state, requested, stop, rcVars, next, sock, conn, handleVars, boundVars>>

(* The TCP connection, and TLS on it, or not within connectTimeout.        *)
Handshake(c) ==
  /\ Go(c, "handshake", "sendConnect")
  /\ fd # NoSocket
  /\ conn' = [conn EXCEPT ![fd] = IF @ = "opening" THEN "open" ELSE @]
  /\ UNCHANGED <<state, requested, stop, rcVars, next, sock, transportVars, handleVars, boundVars>>

HandshakeError(c) ==
  /\ Go(c, "handshake", "failed")
  /\ CloseFd
  /\ UNCHANGED <<state, stopFlag, requested, stop, rcVars, next, sock, handleVars, boundVars>>

(* CONNECT goes out on fd.  The broker ends a connection that sends it a   *)
(* second time.                                                            *)
SendConnect(c) ==
  /\ Go(c, "sendConnect", "ackCheck")
  /\ CanSend
  /\ conn' = [conn EXCEPT ![fd] = IF @ = "open" THEN "asked" ELSE "lost"]
  /\ UNCHANGED <<state, requested, stop, rcVars, next, sock, transportVars, handleVars, boundVars>>

SendConnectError(c) ==
  /\ Go(c, "sendConnect", "failed")
  /\ CanFail
  /\ UNCHANGED <<state, requested, stop, rcVars, next, sock, conn, transportVars, handleVars,
                 boundVars>>

(* recv() has returned.                                                    *)
Leave(t) == sock' = [sock EXCEPT ![t] = NoSocket]

(* Reading the CONNACK: recvByte looks at the stop flag, then calls recv() *)
(* on the descriptor there is; the 500 ms timeout takes it round again.    *)
AckCheck(c) ==
  /\ Go(c, "ackCheck", IF stopFlag \/ fd = NoSocket THEN "failed" ELSE "ackRecv")
  /\ sock' = [sock EXCEPT ![c] = fd]
  /\ UNCHANGED <<state, requested, stop, rcVars, next, conn, transportVars, handleVars, boundVars>>

AckTimeout(c) ==
  /\ Go(c, "ackRecv", "ackCheck")
  /\ conn[sock[c]] \notin {"closed", "accepted", "refused", "lost"}
  /\ Leave(c)
  /\ UNCHANGED <<state, requested, stop, rcVars, next, conn, transportVars, handleVars,
                 boundVars>>

(* A packet is taken off the connection, which has what it had before.     *)
Consume(s) ==
  conn' = [conn EXCEPT ![s] = CASE @ = "accepted" -> "live"
                                [] @ = "refused"  -> "lost"
                                [] OTHER          -> @]

AckAccepted(c) ==
  /\ Go(c, "ackRecv", "connected")
  /\ conn[sock[c]] = "accepted"
  /\ Consume(sock[c])
  /\ Leave(c)
  /\ UNCHANGED <<state, requested, stop, rcVars, next, transportVars, handleVars, boundVars>>

(* The CONNACK refuses, another packet came instead, or the socket is at   *)
(* an end.  The descriptor stays open.                                     *)
AckError(c) ==
  /\ Go(c, "ackRecv", "failed")
  /\ conn[sock[c]] \in {"refused", "live", "lost", "closed"}
  /\ Consume(sock[c])
  /\ Leave(c)
  /\ UNCHANGED <<state, requested, stop, rcVars, next, transportVars, handleVars, boundVars>>

ConnectFailed(c) ==
  /\ Go(c, "failed", Refused(c))
  /\ state' = "Failed"
  /\ UNCHANGED <<requested, stop, rcVars, next, sock, conn, transportVars, handleVars, boundVars>>

ToConnected(c) ==
  /\ Go(c, "connected", "startRecv")
  /\ state' = "Connected"
  /\ UNCHANGED <<requested, stop, rcVars, next, sock, conn, transportVars, handleVars, boundVars>>

(* A thread that is not in use, to be started.                             *)
Free(t) == pc[t] \in {"none", "done"} /\ t \notin {recvHandle, keepHandle}
                                     /\ \A c \in Clients : old[c] # t

(* recvThread = std::jthread(...): the new thread runs, the handle is      *)
(* swapped, the old thread is asked to stop and joined.                    *)
Start(c, t, first, join, handle) ==
  /\ At(c, IF t \in Recvs THEN "startRecv" ELSE "startKeep")
  /\ Free(t)
  /\ pc' = [pc EXCEPT ![c] = join, ![t] = first]
  /\ stop' = [Stopped({handle}) EXCEPT ![t] = FALSE]
  /\ old' = [old EXCEPT ![c] = handle]
  /\ UNCHANGED <<state, requested, rcVars, next, sock, conn, transportVars, boundVars>>

StartRecv(c) ==
  \E r \in Recvs : Start(c, r, "top", "joinRecv", recvHandle)
                  /\ recvHandle' = r /\ UNCHANGED keepHandle

StartKeep(c) ==
  \E k \in Keeps : Start(c, k, "tick", "joinKeep", keepHandle)
                  /\ keepHandle' = k /\ UNCHANGED recvHandle

(* A mutant: the old thread is left to itself.                             *)
Detach(c, l, m) ==
  /\ Go(c, l, m)
  /\ old' = [old EXCEPT ![c] = NoThread]
  /\ UNCHANGED <<state, requested, stop, rcVars, next, sock, conn, transportVars, recvHandle,
                 keepHandle, boundVars>>

Join(c, l, m) ==
  /\ Go(c, l, m)
  /\ old[c] # NoThread => pc[old[c]] = "done"
  /\ old' = [old EXCEPT ![c] = NoThread]
  /\ UNCHANGED <<state, requested, stop, rcVars, next, sock, conn, transportVars, recvHandle,
                 keepHandle, boundVars>>

JoinRecv(c) == Join(c, "joinRecv", "startKeep")
JoinKeep(c) == Join(c, "joinKeep", Returned(c))

----------------------------------------------------------------------------
(* disconnect(), and what it is a part of.                                 *)

Disconnect(a) ==
  /\ Go(a, "disconnect", IF state # "Connected" THEN next[a] ELSE "disconnecting")
  /\ UNCHANGED <<state, requested, stop, rcVars, next, sock, conn, transportVars, handleVars,
                 boundVars>>

ToDisconnecting(a) ==
  /\ Go(a, "disconnecting", "sendDisconnect")
  /\ state' = "Disconnecting"
  /\ UNCHANGED <<requested, stop, rcVars, next, sock, conn, transportVars, handleVars, boundVars>>

(* The broker closes the connection on DISCONNECT, as on anything that is  *)
(* not a CONNECT when it waits for one.  The result is not looked at.      *)
SendDisconnect(a) ==
  /\ Go(a, "sendDisconnect", "requestStop")
  /\ conn' = [s \in Sockets |-> IF s = fd /\ CanSend THEN "lost" ELSE conn[s]]
  /\ UNCHANGED <<state, requested, stop, rcVars, next, sock, transportVars, handleVars, boundVars>>

RequestStop(a) ==
  /\ Go(a, "requestStop", "stopThreads")
  /\ stopFlag' = TRUE
  /\ UNCHANGED <<state, fd, requested, stop, rcVars, next, sock, conn, handleVars, boundVars>>

StopThreads(a) ==
  /\ Go(a, "stopThreads", "close")
  /\ stop' = Stopped({recvHandle, keepHandle})
  /\ UNCHANGED <<state, requested, rcVars, next, sock, conn, transportVars, handleVars, boundVars>>

Close(a) ==
  /\ Go(a, "close", "disconnected")
  /\ stopFlag' = TRUE
  /\ CloseFd
  /\ UNCHANGED <<state, requested, stop, rcVars, next, sock, handleVars, boundVars>>

ToDisconnected(a) ==
  /\ Go(a, "disconnected", next[a])
  /\ state' = "Disconnected"
  /\ UNCHANGED <<requested, stop, rcVars, next, sock, conn, transportVars, handleVars, boundVars>>

(* ~MqttPublisher(): after the disconnect every thread is asked to stop,   *)
(* then the members go in reverse order, the transport last.               *)
StopAll(a) ==
  /\ Go(a, "destroy", "joinRc")
  /\ stopFlag' = TRUE
  /\ stop' = Stopped({recvHandle, keepHandle} \cup {t \in {Rc} : pc[t] # "none"})
  /\ UNCHANGED <<state, fd, requested, rcVars, next, sock, conn, handleVars, boundVars>>

(* A ~jthread: the member's thread t, if there is one, is joined, and then *)
(* the next member's, u, is asked to stop: it may be one that the reconnect*)
(* thread started after StopAll.                                           *)
JoinMember(a, l, m, t, u) ==
  /\ Go(a, l, m)
  /\ t # NoThread => pc[t] \in {"none", "done", "exited"}
  /\ stop' = Stopped({u})
  /\ UNCHANGED <<state, requested, rcVars, next, sock, conn, transportVars, handleVars, boundVars>>

CloseTransport(a) ==
  /\ Go(a, "closeTransport", "destroyed")
  /\ stopFlag' = TRUE
  /\ CloseFd
  /\ UNCHANGED <<state, requested, stop, rcVars, next, sock, handleVars, boundVars>>

Destroy(a) ==
  \/ StopAll(a)
  \/ JoinMember(a, "joinRc", "joinKeepalive", Rc, keepHandle)
  \/ JoinMember(a, "joinKeepalive", "joinReceive", keepHandle, recvHandle)
  \/ JoinMember(a, "joinReceive", "closeTransport", recvHandle, NoThread)
  \/ CloseTransport(a)

----------------------------------------------------------------------------
(* The receive loop.                                                       *)

RecvTop(r) ==
  /\ Go(r, "top", IF stop[r] THEN "done" ELSE "recvCheck")
  /\ UNCHANGED <<state, requested, stop, rcVars, next, sock, conn, transportVars, handleVars,
                 boundVars>>

RecvCheck(r) ==
  /\ Go(r, "recvCheck", IF stopFlag \/ fd = NoSocket THEN "error" ELSE "recv")
  /\ sock' = [sock EXCEPT ![r] = fd]
  /\ UNCHANGED <<state, requested, stop, rcVars, next, conn, transportVars, handleVars, boundVars>>

RecvTimeout(r) ==
  /\ Go(r, "recv", "recvCheck")
  /\ conn[sock[r]] \notin {"closed", "accepted", "refused", "lost"}
  /\ Leave(r)
  /\ UNCHANGED <<state, requested, stop, rcVars, next, conn, transportVars, handleVars,
                 boundVars>>

(* A packet is handled or, a CONNACK among them, ignored.                  *)
RecvPacket(r) ==
  /\ Go(r, "recv", "top")
  /\ conn[sock[r]] \in {"accepted", "refused", "live"}
  /\ Consume(sock[r])
  /\ Leave(r)
  /\ UNCHANGED <<state, requested, stop, rcVars, next, transportVars, handleVars, boundVars>>

(* A mutant: the end of the connection is taken for a timeout.             *)
RecvErrorRetried(r) ==
  /\ Go(r, "recv", "recvCheck")
  /\ conn[sock[r]] \in {"lost", "closed"}
  /\ Leave(r)
  /\ UNCHANGED <<state, requested, stop, rcVars, next, conn, transportVars, handleVars,
                 boundVars>>

RecvError(r) ==
  /\ Go(r, "recv", "error")
  /\ conn[sock[r]] \in {"lost", "closed"}
  /\ Leave(r)
  /\ UNCHANGED <<state, requested, stop, rcVars, next, conn, transportVars, handleVars,
                 boundVars>>

(* A mutant: the transport's flag is taken for the stop token.             *)
RecvStoppedByFlag(r) ==
  /\ Go(r, "error", IF stopFlag THEN "done" ELSE "lost")
  /\ UNCHANGED <<state, requested, stop, rcVars, next, sock, conn, transportVars, handleVars,
                 boundVars>>

(* The stop token tells a connection that was closed from one that was     *)
(* lost.                                                                   *)
RecvStopped(r) ==
  /\ Go(r, "error", IF stop[r] THEN "done" ELSE "lost")
  /\ UNCHANGED <<state, requested, stop, rcVars, next, sock, conn, transportVars, handleVars,
                 boundVars>>

ToReconnecting(r) ==
  /\ Go(r, "lost", IF ReconnectEnabled THEN "schedule" ELSE "done")
  /\ state' = "Reconnecting"
  /\ UNCHANGED <<requested, stop, rcVars, next, sock, conn, transportVars, handleVars, boundVars>>

(* scheduleReconnect(): a request, and a thread to serve it unless         *)
(* reconnectThread holds one already, which it does for good.              *)
Schedule(r) ==
  /\ Go(r, "schedule", "spawn")
  /\ requested' = TRUE
  /\ UNCHANGED <<state, stop, rcVars, next, sock, conn, transportVars, handleVars, boundVars>>

Spawn(r) ==
  /\ At(r, "spawn")
  /\ pc' = [pc EXCEPT ![r] = "done", ![Rc] = IF @ = "none" THEN "wait" ELSE @]
  /\ UNCHANGED <<state, requested, stop, rcVars, next, sock, conn, transportVars, handleVars,
                 boundVars>>

----------------------------------------------------------------------------
(* The keepalive loop: state is looked at, a PINGREQ sent later.  Whether  *)
(* one is due is left open.                                                *)

Tick(k) ==
  /\ At(k, "tick")
  /\ stop[k] \/ state = "Connected"
  /\ Goto(k, IF stop[k] THEN "done" ELSE "ping")
  /\ UNCHANGED <<state, requested, stop, rcVars, next, sock, conn, transportVars, handleVars,
                 boundVars>>

Ping(k) ==
  /\ Go(k, "ping", "tick")
  /\ conn' = [s \in Sockets |-> IF s = fd /\ conn[s] = "open" THEN "lost" ELSE conn[s]]
  /\ UNCHANGED <<state, requested, stop, rcVars, next, sock, transportVars, handleVars, boundVars>>

----------------------------------------------------------------------------
(* The reconnect thread.                                                   *)

(* The wait on reconnectCv ends with a request or a stop.                  *)
RcWait ==
  /\ At(Rc, "wait")
  /\ requested \/ stop[Rc]
  /\ Goto(Rc, IF stop[Rc] THEN "exited" ELSE "test")
  /\ requested' = (requested /\ stop[Rc])
  /\ UNCHANGED <<state, stop, rcVars, next, sock, conn, transportVars, handleVars, boundVars>>

Exhausted == MaxRetries > 0 /\ attempt >= MaxRetries

(* A mutant: maxRetries is not looked at.                                  *)
RcTestUnlimited ==
  /\ At(Rc, "test")
  /\ Goto(Rc, IF state = "Connected" THEN "exited" ELSE "sleep")
  /\ attempt' = IF state # "Connected" /\ MaxRetries > 0 THEN attempt + 1 ELSE attempt
  /\ UNCHANGED <<state, requested, stop, delay, next, sock, conn, transportVars, handleVars,
                 boundVars>>

RcTest ==
  /\ At(Rc, "test")
  /\ Goto(Rc, CASE state = "Connected" -> "exited"
                [] state # "Connected" /\ Exhausted -> "giveUp"
                [] OTHER -> "sleep")
  /\ attempt' = IF state # "Connected" /\ MaxRetries > 0 THEN attempt + 1 ELSE attempt
  /\ UNCHANGED <<state, requested, stop, delay, next, sock, conn, transportVars, handleVars,
                 boundVars>>

RcGiveUp ==
  /\ Go(Rc, "giveUp", "exited")
  /\ state' = "Failed"
  /\ UNCHANGED <<requested, stop, rcVars, next, sock, conn, transportVars, handleVars, boundVars>>

(* The back-off; then owner.connect().                                     *)
RcSleep ==
  /\ Go(Rc, "sleep", "check")
  /\ UNCHANGED <<state, requested, stop, rcVars, next, sock, conn, transportVars, handleVars,
                 boundVars>>

(* A mutant: the thread does not ask itself for another attempt.           *)
RcAgainUnasked ==
  /\ Go(Rc, "again", "wait")
  /\ UNCHANGED <<state, requested, stop, rcVars, next, sock, conn, transportVars, handleVars,
                 boundVars>>

Scaled == (delay * Multiplier) \div 100
Capped == IF Scaled > MaxDelay THEN MaxDelay ELSE Scaled

(* A mutant: the delay grows without a limit.                              *)
RcAgainUncapped ==
  /\ Go(Rc, "again", "wait")
  /\ \E jit \in 0 .. Scaled \div 4 : delay' = Scaled + (IF Jitter THEN jit ELSE 0)
  /\ requested' = TRUE
  /\ UNCHANGED <<state, stop, attempt, next, sock, conn, transportVars, handleVars, boundVars>>

(* The attempt failed: the delay grows, up to the maximum and some jitter  *)
(* on top of it, the next attempt is requested, and the loop goes round.   *)
RcAgain ==
  /\ Go(Rc, "again", "wait")
  /\ \E jit \in 0 .. Capped \div 4 : delay' = Capped + (IF Jitter THEN jit ELSE 0)
  /\ requested' = TRUE
  /\ UNCHANGED <<state, stop, attempt, next, sock, conn, transportVars, handleVars, boundVars>>

----------------------------------------------------------------------------
(* The application, and the broker.                                        *)

(* The publisher is destroyed when nobody else uses it, and not used then. *)
Call(a, op) ==
  /\ At(a, "idle") /\ calls < MaxCalls
  /\ \A b \in Apps : next[b] # "destroy" /\ (op = "destroy" => At(b, "idle"))
  /\ Goto(a, IF op = "connect" THEN "check" ELSE "disconnect")
  /\ next' = [next EXCEPT ![a] = CASE op = "reconnect" -> "check"
                                    [] op = "destroy"   -> "destroy"
                                    [] OTHER            -> "idle"]
  /\ calls' = calls + 1
  /\ UNCHANGED <<state, requested, stop, rcVars, sock, conn, transportVars, handleVars, losses>>

Broker(s, from, to) ==
  /\ conn[s] \in from
  /\ conn' = [conn EXCEPT ![s] = to]
  /\ UNCHANGED <<state, requested, stop, rcVars, pc, next, sock, transportVars, handleVars, calls>>

Accept(s) == Broker(s, {"asked"}, "accepted") /\ UNCHANGED losses

Refuse(s) == Broker(s, {"asked"}, "refused") /\ losses < MaxLosses /\ losses' = losses + 1

Lose(s) ==
  Broker(s, {"open", "asked", "live"}, "lost") /\ losses < MaxLosses /\ losses' = losses + 1

----------------------------------------------------------------------------
ConnectStep(c) ==
  \/ Check(c) \/ ToConnecting(c) \/ OpenSocket(c) \/ OpenError(c)
  \/ Handshake(c) \/ HandshakeError(c) \/ SendConnect(c) \/ SendConnectError(c)
  \/ AckCheck(c) \/ AckTimeout(c) \/ AckAccepted(c) \/ AckError(c) \/ ConnectFailed(c)
  \/ ToConnected(c) \/ StartRecv(c) \/ JoinRecv(c) \/ StartKeep(c) \/ JoinKeep(c)

DisconnectStep(a) ==
  \/ Disconnect(a) \/ ToDisconnecting(a) \/ SendDisconnect(a) \/ RequestStop(a)
  \/ StopThreads(a) \/ Close(a) \/ ToDisconnected(a)

AppStep(a) == ConnectStep(a) \/ DisconnectStep(a) \/ Destroy(a)

RecvStep(r) ==
  \/ RecvTop(r) \/ RecvCheck(r) \/ RecvTimeout(r) \/ RecvPacket(r) \/ RecvError(r)
  \/ RecvStopped(r) \/ ToReconnecting(r) \/ Schedule(r) \/ Spawn(r)

KeepStep(k) == Tick(k) \/ Ping(k)

RcStep == RcWait \/ RcTest \/ RcGiveUp \/ RcSleep \/ RcAgain \/ ConnectStep(Rc)

Next ==
  \/ \E a \in Apps : AppStep(a) \/ \E op \in Ops : Call(a, op)
  \/ \E r \in Recvs : RecvStep(r)
  \/ \E k \in Keeps : KeepStep(k)
  \/ RcStep
  \/ \E s \in Sockets : Accept(s) \/ Refuse(s) \/ Lose(s)

Spec == Init /\ [][Next]_vars

(* Every thread is scheduled.  Of the network: whoever goes on trying gets *)
(* a connection in the end, and the broker answers a CONNECT.  Nobody has  *)
(* to call anything, and no connection has to be lost.                     *)
Fairness ==
  /\ \A a \in Apps  : WF_vars(AppStep(a))
  /\ \A r \in Recvs : WF_vars(RecvStep(r))
  /\ \A k \in Keeps : WF_vars(KeepStep(k))
  /\ WF_vars(RcStep)
  /\ \A c \in Clients : SF_vars(OpenSocket(c)) /\ SF_vars(Handshake(c))
  /\ \A s \in Sockets : WF_vars(Accept(s))

FairSpec == Spec /\ Fairness

----------------------------------------------------------------------------
(* Properties.                                                             *)

Lives == \A a \in Apps : next[a] # "destroy"   \* the destructor has not been entered

(* While the publisher says it is connected, a receive thread that has not *)
(* been told to stop reads, or has read the end of the connection and will *)
(* say so, or the thread that connects or disconnects is about to change   *)
(* that: no connection is left that nobody would see break.                *)
ConnectedIsWatched ==
  state = "Connected" /\ Lives =>
    \/ \E c \in Clients : At(c, "startRecv")
    \/ \E a \in Apps : pc[a] \in {"sendDisconnect", "requestStop", "stopThreads", "close",
                                   "disconnected"}
    \/ /\ recvHandle # NoThread
       /\ \/ pc[recvHandle] = "lost"
          \/ pc[recvHandle] \in {"top", "recvCheck", "recv", "error"} /\ ~stop[recvHandle]

(* Until the reconnect thread has finished once, a client that is          *)
(* reconnecting has a thread that will do it: one on its way to request    *)
(* it, or the reconnect thread.  That one never sleeps on reconnectCv      *)
(* without a request, so that the destructor's notify_all, made without    *)
(* the lock, has no wakeup to lose.                                        *)
RecoveryUnderway ==
  /\ state = "Reconnecting" /\ ReconnectEnabled /\ pc[Rc] # "exited" =>
       \/ \E r \in Recvs : pc[r] \in {"schedule", "spawn"}
       \/ pc[Rc] # "none"
  /\ At(Rc, "wait") => requested

(* Every receive or keepalive thread that runs is held by its handle or is *)
(* being joined by the call that replaced it, whoever calls connect().     *)
NoThreadForgotten ==
  \A t \in Recvs \cup Keeps :
    pc[t] \notin {"none", "done"} =>
      t \in {recvHandle, keepHandle} \/ \E c \in Clients : old[c] = t

(* A client that is reconnecting has a thread that will do it, always.     *)
AlwaysRecovering ==
  state = "Reconnecting" /\ ReconnectEnabled =>
    \/ \E r \in Recvs : pc[r] \in {"schedule", "spawn"}
    \/ pc[Rc] \notin {"none", "exited"}

(* The reconnect thread neither hurries nor waits for longer than the      *)
(* maximum and the jitter that is added after the cap.                     *)
BackoffBounded ==
  /\ delay >= InitialDelay \/ delay >= MaxDelay
  /\ delay <= InitialDelay \/ delay <= MaxDelay + MaxDelay \div 4

(* A connection that ends under a connected client is noticed.             *)
LossNoticed ==
  state = "Connected" /\ fd # NoSocket /\ conn[fd] = "lost" ~> state # "Connected"

(* A client that has lost its connection is connected again, if the        *)
(* network lets it.                                                        *)
LossRecovered == state = "Reconnecting" ~> state = "Connected"

(* The destructor returns: whatever thread it joins leaves its loop, the   *)
(* ones that the reconnect thread has just started too.                    *)
DestructorReturns == ~Lives ~> \E a \in Apps : At(a, "destroyed")

=============================================================================

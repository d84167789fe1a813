-------------------------- MODULE PublishTracking --------------------------
(***************************************************************************)
(* The publish path of MqttPublisher: publish(), publishAsync(), the       *)
(* packet-id counter, and the table pendingPubacks that pairs an           *)
(* outstanding packet id with the promise its caller waits on.             *)
(*                                                                         *)
(* Every call runs on a thread of its own, so that all interleavings of    *)
(* concurrent callers are covered; one action is one step between two      *)
(* accesses to shared state.  A section under pubackMtx, a leaf lock that  *)
(* nobody waits inside, is one step; sendMtx is held across several.       *)
(*                                                                         *)
(* The connection is left as open as the code's races leave it: any        *)
(* thread may call transitionState or failAllPending at any time, a packet *)
(* in flight may be lost, and sendAll may fail or succeed.  What holds     *)
(* here therefore holds under every connection lifecycle.                  *)
(***************************************************************************)
EXTENDS Naturals, FiniteSets

CONSTANTS
  Calls,             \* the calls of publish() and publishAsync(), one message each
  NoCall,            \* no call: a free table slot, or a free mutex
  Requests,          \* the requests the callers make, a subset of Request
  States,            \* the connection states other threads may set
  IdSpace,           \* how many values uint16_t nextPacketId takes: 2^16
  OfflineBuffering   \* config.offlineBufferingEnabled

VARIABLES
  state,             \* std::atomic<ConnectionState> state
  nextPacketId,      \* std::atomic<uint16_t> nextPacketId
  pendingPubacks,    \* packet id -> the call whose promise is stored, or NoCall
  sendMtx,           \* the call that holds sendMtx, or NoCall
  req,               \* call -> what it asks for
  pc,                \* call -> where its thread is
  id,                \* call -> the packet id it was given (0 before that)
  future,            \* call -> what its std::future<ErrorCode> holds
  result,            \* call -> what it returned
  callback,          \* call -> what became of its PublishAckCallback
  published,         \* Metrics::messagesPublished_
  publishFailures,   \* Metrics::publishFailures_
  wire,              \* PUBLISH packets on their way to the broker
  acks,              \* PUBACK packets on their way back
  received,          \* history: the messages that reached the broker
  wrapped            \* history: the counter has been through 0

tableVars  == <<nextPacketId, pendingPubacks, wrapped>>
callVars   == <<req, pc, id, result>>
metricVars == <<published, publishFailures>>
netVars    == <<wire, acks, received>>
vars == <<state, sendMtx, future, callback, tableVars, callVars, metricVars, netVars>>

ConnectionState ==
  {"Disconnected", "Connecting", "Connected", "Reconnecting", "Disconnecting", "Failed"}

PacketIds == 0 .. IdSpace - 1

(* A call's arguments.  qos is the effective one: that of the message, or  *)
(* the publisher's default when the message's is 0.                        *)
Request == [api : {"publish", "publishAsync"}, qos : 0 .. 2, cb : BOOLEAN]

NoRequest == [api |-> "publish", qos |-> 0, cb |-> FALSE]

ASSUME IdSpaceAssumption  == IdSpace \in Nat /\ IdSpace > 1
ASSUME CallsAssumption    == IsFiniteSet(Calls) /\ NoCall \notin Calls
ASSUME RequestsAssumption == Requests \subseteq Request
ASSUME StatesAssumption   == States \subseteq ConnectionState
ASSUME OfflineAssumption  == OfflineBuffering \in BOOLEAN

Packet == [call : Calls, id : PacketIds, qos : 0 .. 2]
Ack    == [of : Calls, id : PacketIds]

IsSync(c) == req[c].api = "publish"

(* The calls that put a promise in the table: a synchronous one waits on   *)
(* it itself, an asynchronous one has a detached thread wait for it.       *)
IsTracked(c) == req[c].qos > 0 /\ (IsSync(c) \/ req[c].cb)

TypeOK ==
  /\ state \in ConnectionState
  /\ nextPacketId \in PacketIds
  /\ pendingPubacks \in [PacketIds -> Calls \cup {NoCall}]
  /\ sendMtx \in Calls \cup {NoCall}
  /\ req \in [Calls -> Request]
  /\ pc \in [Calls -> {"idle", "alloc", "allocAgain", "register", "send",
                       "sendFailed", "await", "timedOut", "done"}]
  /\ id \in [Calls -> PacketIds]
  /\ future \in [Calls -> {"none", "unset", "Ok", "ConnectionLost", "broken"}]
  /\ result \in [Calls -> {"none", "Ok", "NotConnected", "PublishFailed",
                           "PublishTimeout", "ConnectionLost", "exception"}]
  /\ callback \in [Calls -> {"none", "waiting", "Ok", "ConnectionLost",
                             "PublishFailed", "dropped"}]
  /\ published \in Nat
  /\ publishFailures \in Nat
  /\ wire \subseteq Packet
  /\ acks \subseteq Ack
  /\ received \subseteq Calls
  /\ wrapped \in BOOLEAN

Init ==
  /\ state = "Disconnected"
  /\ nextPacketId = 1
  /\ pendingPubacks = [i \in PacketIds |-> NoCall]
  /\ sendMtx = NoCall
  /\ req = [c \in Calls |-> NoRequest]
  /\ pc = [c \in Calls |-> "idle"]
  /\ id = [c \in Calls |-> 0]
  /\ future = [c \in Calls |-> "none"]
  /\ result = [c \in Calls |-> "none"]
  /\ callback = [c \in Calls |-> "none"]
  /\ published = 0
  /\ publishFailures = 0
  /\ wire = {}
  /\ acks = {}
  /\ received = {}
  /\ wrapped = FALSE

----------------------------------------------------------------------------
(* Helpers on the table, each used inside one pubackMtx section.           *)

Goto(c, l) == pc' = [pc EXCEPT ![c] = l]

Return(c, r) == Goto(c, "done") /\ result' = [result EXCEPT ![c] = r]

(* Destroying the promise stored at i makes its future ready with a        *)
(* broken_promise error; an empty slot has none.                           *)
BreakAt(i, f) == [c \in Calls |-> IF pendingPubacks[i] = c THEN "broken" ELSE f[c]]

Erase(i) ==
  /\ pendingPubacks' = [pendingPubacks EXCEPT ![i] = NoCall]
  /\ future' = BreakAt(i, future)

----------------------------------------------------------------------------
(* The callers.                                                            *)

AfterAlloc(c) == IF IsTracked(c) THEN "register" ELSE "send"

(* publish(): a synchronous call allocates an id only for QoS > 0.         *)
Publish(c, r) ==
  /\ pc[c] = "idle" /\ r.api = "publish"
  /\ req' = [req EXCEPT ![c] = r]
  /\ IF state # "Connected"
       THEN Return(c, "NotConnected")
       ELSE /\ Goto(c, IF r.qos > 0 THEN "alloc" ELSE "send")
            /\ UNCHANGED result
  /\ UNCHANGED <<state, sendMtx, future, callback, id, tableVars, metricVars, netVars>>

(* publishAsync(): always allocates an id, which it returns as the token.  *)
PublishAsync(c, r) ==
  /\ pc[c] = "idle" /\ r.api = "publishAsync"
  /\ req' = [req EXCEPT ![c] = r]
  /\ IF state # "Connected" /\ ~OfflineBuffering
       THEN Return(c, "NotConnected")
       ELSE Goto(c, "alloc") /\ UNCHANGED result
  /\ UNCHANGED <<state, sendMtx, future, callback, id, tableVars, metricVars, netVars>>

(* A mutant: a counter that does not wrap.                                 *)
FetchAddWide(c, next) ==
  /\ id' = [id EXCEPT ![c] = nextPacketId]
  /\ nextPacketId' = nextPacketId + 1
  /\ wrapped' = (wrapped \/ nextPacketId = 0)
  /\ Goto(c, next)
  /\ UNCHANGED <<state, sendMtx, future, callback, req, result, pendingPubacks,
                 metricVars, netVars>>

(* A mutant: the value is taken, the counter does not move.                *)
FetchOnly(c, next) ==
  /\ id' = [id EXCEPT ![c] = nextPacketId]
  /\ Goto(c, next)
  /\ UNCHANGED <<state, sendMtx, future, callback, req, result, tableVars, metricVars, netVars>>

(* nextPacketId.fetch_add(1), and what the caller does with the value.     *)
FetchAdd(c, next) ==
  /\ id' = [id EXCEPT ![c] = nextPacketId]
  /\ nextPacketId' = (nextPacketId + 1) % IdSpace
  /\ wrapped' = (wrapped \/ nextPacketId = 0)
  /\ Goto(c, next)
  /\ UNCHANGED <<state, sendMtx, future, callback, req, result, pendingPubacks,
                 metricVars, netVars>>

AllocNoSkip(c) == pc[c] = "alloc" /\ FetchAdd(c, AfterAlloc(c))   \* a mutant: 0 is used

(* allocPacketId(): two fetch_adds when the first one returns 0, with any  *)
(* other thread's between them.                                            *)
AllocPacketId(c) ==
  /\ pc[c] = "alloc"
  /\ FetchAdd(c, IF nextPacketId = 0 THEN "allocAgain" ELSE AfterAlloc(c))

AllocAgain(c) == pc[c] = "allocAgain" /\ FetchAdd(c, AfterAlloc(c))

(* The promise goes into the table before the packet goes out.  An entry   *)
(* of the same id is overwritten, its promise destroyed.  An asynchronous  *)
(* call starts the detached thread that will run the callback, and moves   *)
(* the callback into it.                                                   *)
Register(c) ==
  /\ pc[c] = "register"
  /\ pendingPubacks' = [pendingPubacks EXCEPT ![id[c]] = c]
  /\ future' = [BreakAt(id[c], future) EXCEPT ![c] = "unset"]
  /\ callback' = [callback EXCEPT ![c] = IF IsSync(c) THEN @ ELSE "waiting"]
  /\ Goto(c, "send")
  /\ UNCHANGED <<state, sendMtx, nextPacketId, wrapped, req, id, result, metricVars, netVars>>

(* sendAll succeeds: the packet is in the socket.  A synchronous QoS > 0   *)
(* call goes on to wait, any other one is finished.                        *)
SendOk(c) ==
  /\ pc[c] = "send" /\ sendMtx = NoCall
  /\ wire' = wire \cup {[call |-> c, id |-> id[c], qos |-> req[c].qos]}
  /\ IF IsSync(c) /\ req[c].qos > 0
       THEN Goto(c, "await") /\ UNCHANGED <<result, published>>
       ELSE Return(c, "Ok") /\ published' = published + 1
  /\ UNCHANGED <<state, sendMtx, future, callback, req, id, tableVars, publishFailures,
                 acks, received>>

(* sendAll fails.  publish() keeps sendMtx while it takes its entry out of *)
(* the table; publishAsync() calls the callback itself, still under        *)
(* sendMtx, if it did not move it into a thread; it erases nothing.        *)
SendError(c) ==
  /\ pc[c] = "send" /\ sendMtx = NoCall
  /\ IF IsSync(c) /\ req[c].qos > 0
       THEN /\ Goto(c, "sendFailed") /\ sendMtx' = c
            /\ UNCHANGED <<result, callback, publishFailures>>
       ELSE /\ Return(c, "PublishFailed")
            /\ publishFailures' = publishFailures + 1
            /\ callback' = [callback EXCEPT ![c] =
                              IF ~IsSync(c) /\ req[c].cb /\ ~IsTracked(c)
                                THEN "PublishFailed" ELSE @]
            /\ UNCHANGED sendMtx
  /\ UNCHANGED <<state, future, req, id, tableVars, published, netVars>>

SendErrorCleanup(c) ==
  /\ pc[c] = "sendFailed"
  /\ Erase(id[c])
  /\ publishFailures' = publishFailures + 1
  /\ Return(c, "PublishFailed")
  /\ sendMtx' = NoCall
  /\ UNCHANGED <<state, callback, req, id, nextPacketId, wrapped, published, netVars>>

(* fut.get() when the future is ready: only Ok counts as published, and a  *)
(* destroyed promise makes it throw out of publish(), uncounted.           *)
AwaitResolved(c) ==
  /\ pc[c] = "await" /\ future[c] # "unset"
  /\ Return(c, IF future[c] = "broken" THEN "exception" ELSE future[c])
  /\ published' = IF future[c] = "Ok" THEN published + 1 ELSE published
  /\ publishFailures' = IF future[c] = "ConnectionLost" THEN publishFailures + 1
                                                        ELSE publishFailures
  /\ UNCHANGED <<state, sendMtx, future, callback, req, id, tableVars, netVars>>

(* A mutant: the wait ends only while connected, as if a lost connection   *)
(* were sure to resolve it.                                                *)
AwaitTimeoutIfConnected(c) ==
  /\ pc[c] = "await" /\ future[c] = "unset" /\ state = "Connected"
  /\ Goto(c, "timedOut")
  /\ UNCHANGED <<state, sendMtx, future, callback, req, id, result, tableVars, metricVars,
                 netVars>>

(* wait_for(ackTimeout) gives up; the lock is not yet held.                *)
AwaitTimeout(c) ==
  /\ pc[c] = "await" /\ future[c] = "unset"
  /\ Goto(c, "timedOut")
  /\ UNCHANGED <<state, sendMtx, future, callback, req, id, result, tableVars, metricVars,
                 netVars>>

(* A mutant: the failure is not counted.                                   *)
TimeoutEraseUncounted(c) ==
  /\ pc[c] = "timedOut"
  /\ Erase(id[c])
  /\ Return(c, "PublishTimeout")
  /\ UNCHANGED <<state, sendMtx, callback, req, id, nextPacketId, wrapped, metricVars, netVars>>

(* The entry is erased under the lock, even if it was resolved meanwhile.  *)
TimeoutErase(c) ==
  /\ pc[c] = "timedOut"
  /\ Erase(id[c])
  /\ publishFailures' = publishFailures + 1
  /\ Return(c, "PublishTimeout")
  /\ UNCHANGED <<state, sendMtx, callback, req, id, nextPacketId, wrapped, published, netVars>>

(* The detached thread of publishAsync: sharedFut.get() throws when the    *)
(* promise was destroyed, and the exception is swallowed with the call.    *)
RunCallback(c) ==
  /\ callback[c] = "waiting" /\ future[c] # "unset"
  /\ callback' = [callback EXCEPT ![c] = IF future[c] = "broken" THEN "dropped" ELSE future[c]]
  /\ UNCHANGED <<state, sendMtx, future, tableVars, callVars, metricVars, netVars>>

----------------------------------------------------------------------------
(* The other threads, and the network.                                     *)

(* transitionState(s), by the connection's threads.  The checks that lead  *)
(* to it are not atomic with it, so that every change is possible.         *)
TransitionState(s) ==
  /\ state' = s
  /\ UNCHANGED <<sendMtx, future, callback, tableVars, callVars, metricVars, netVars>>

IsPending(c) == \E i \in PacketIds : pendingPubacks[i] = c

(* A mutant: the table is emptied and the promises are left as they are.   *)
ClearPending ==
  /\ pendingPubacks' = [i \in PacketIds |-> NoCall]
  /\ UNCHANGED <<state, sendMtx, future, callback, nextPacketId, wrapped, callVars, metricVars,
                 netVars>>

(* A mutant: the promises are given the code of a PUBACK.                  *)
FailAllPendingOk ==
  /\ future' = [c \in Calls |-> IF IsPending(c) THEN "Ok" ELSE future[c]]
  /\ pendingPubacks' = [i \in PacketIds |-> NoCall]
  /\ UNCHANGED <<state, sendMtx, callback, nextPacketId, wrapped, callVars, metricVars, netVars>>

(* failAllPending(): every promise is resolved before the table is emptied.*)
FailAllPending ==
  /\ future' = [c \in Calls |-> IF IsPending(c) THEN "ConnectionLost" ELSE future[c]]
  /\ pendingPubacks' = [i \in PacketIds |-> NoCall]
  /\ UNCHANGED <<state, sendMtx, callback, nextPacketId, wrapped, callVars, metricVars, netVars>>

(* A mutant: a PUBACK resolves every outstanding promise.                  *)
RecvPubackAny(a) ==
  /\ acks' = acks \ {a}
  /\ future' = [c \in Calls |-> IF IsPending(c) THEN "Ok" ELSE future[c]]
  /\ pendingPubacks' = [i \in PacketIds |-> NoCall]
  /\ UNCHANGED <<state, sendMtx, callback, nextPacketId, wrapped, callVars, metricVars, wire,
                 received>>

(* The receive loop's case PUBACK: find, resolve, erase.  Every other      *)
(* packet is ignored, the PUBREC that answers a QoS 2 PUBLISH included.    *)
RecvPuback(a) ==
  /\ acks' = acks \ {a}
  /\ future' = [c \in Calls |-> IF pendingPubacks[a.id] = c THEN "Ok" ELSE future[c]]
  /\ pendingPubacks' = [pendingPubacks EXCEPT ![a.id] = NoCall]
  /\ UNCHANGED <<state, sendMtx, callback, nextPacketId, wrapped, callVars, metricVars, wire,
                 received>>

(* The broker takes a PUBLISH, and answers one of QoS 1 with a PUBACK.     *)
BrokerReceive(p) ==
  /\ wire' = wire \ {p}
  /\ received' = received \cup {p.call}
  /\ acks' = IF p.qos = 1 THEN acks \cup {[of |-> p.call, id |-> p.id]} ELSE acks
  /\ UNCHANGED <<state, sendMtx, future, callback, tableVars, callVars, metricVars>>

(* A connection ends with packets in flight.                               *)
LosePublish(p) ==
  /\ wire' = wire \ {p}
  /\ UNCHANGED <<state, sendMtx, future, callback, tableVars, callVars, metricVars, acks,
                 received>>

LosePuback(a) ==
  /\ acks' = acks \ {a}
  /\ UNCHANGED <<state, sendMtx, future, callback, tableVars, callVars, metricVars, wire,
                 received>>

----------------------------------------------------------------------------
Begin(c) == \E r \in Requests : Publish(c, r) \/ PublishAsync(c, r)

(* What the thread of a call in progress does.                             *)
Continue(c) ==
  \/ AllocPacketId(c) \/ AllocAgain(c) \/ Register(c)
  \/ SendOk(c) \/ SendError(c) \/ SendErrorCleanup(c)
  \/ AwaitResolved(c) \/ AwaitTimeout(c) \/ TimeoutErase(c)

Connection ==
  \/ \E s \in States : TransitionState(s)
  \/ FailAllPending
  \/ \E a \in acks : RecvPuback(a)

Network ==
  \/ \E p \in wire : BrokerReceive(p) \/ LosePublish(p)
  \/ \E a \in acks : LosePuback(a)

Next ==
  \/ \E c \in Calls : Begin(c) \/ Continue(c) \/ RunCallback(c)
  \/ Connection
  \/ Network

(* Threads are scheduled, and wait_for ends; nobody is made to call, and   *)
(* nothing is asked of the connection or the network.                      *)
Fairness == \A c \in Calls : WF_vars(Continue(c)) /\ WF_vars(RunCallback(c))

Spec == Init /\ [][Next]_vars /\ Fairness

----------------------------------------------------------------------------
(* Properties.                                                             *)

Waits(c) ==
  \/ IsSync(c) /\ IsTracked(c) /\ pc[c] \in {"send", "sendFailed", "await", "timedOut"}
  \/ callback[c] = "waiting"

(* The table holds exactly the promises somebody still waits on: an entry  *)
(* has an unresolved waiter of that id, so none is left behind by a call   *)
(* that returned, and an unresolved waiter has its entry, so a PUBACK or a *)
(* lost connection can always wake it.  (publish, publishAsync, the PUBACK *)
(* case, failAllPending, and all their erasures, in any order.)            *)
TableMatchesWaiters ==
  /\ \A i \in PacketIds, c \in Calls :
       pendingPubacks[i] = c => id[c] = i /\ Waits(c) /\ future[c] = "unset"
  /\ \A c \in Calls :
       Waits(c) /\ future[c] = "unset" => pendingPubacks[id[c]] = c

(* Until the 16-bit counter comes round, a QoS > 0 publish() that returns  *)
(* Ok, and a callback that is given Ok, speak of a message the broker has: *)
(* no PUBACK is ever paired with another call's promise.                   *)
AckedWasReceived ==
  ~wrapped => \A c \in Calls :
    \/ result[c] = "Ok" /\ IsSync(c) /\ req[c].qos > 0
    \/ callback[c] = "Ok"
    => c \in received

(* No PUBLISH that carries a packet id carries 0, which is not a packet    *)
(* id, although the counter passes through 0 with other threads at work.   *)
PacketIdNonZero == \A p \in wire : p.qos > 0 => p.id # 0

(* Every call that got past the connection check is counted once, as       *)
(* published or as failed, by whichever of its seven ways out it leaves;   *)
(* only one that throws is not counted.                                    *)
MetricsBalance ==
  published + publishFailures =
    Cardinality({c \in Calls : result[c] \notin {"none", "NotConnected", "exception"}})

(* What publishAsync tells its caller and what it tells the callback agree *)
(* when the packet could not be sent (the call of cb on the error path).   *)
FailureReachesCallback ==
  \A c \in Calls :
    result[c] = "PublishFailed" /\ req[c].cb /\ ~IsSync(c) => callback[c] = "PublishFailed"

(* What the users see of all this.                                         *)
Contract == INSTANCE PublishContract WITH
  asked     <- {c \in Calls : pc[c] # "idle"},
  request   <- req,
  delivered <- received,
  outcome   <- result,
  told      <- [c \in Calls |-> IF callback[c] = "waiting" THEN "none" ELSE callback[c]],
  failures  <- publishFailures,
  reused    <- wrapped

(* The publish path keeps the contract: each call is answered once and     *)
(* counted as it was answered, no message is delivered twice or after a    *)
(* PublishFailed, Ok confirms delivery, a callback is told once, and, as   *)
(* long as packet ids have not come round, no publish() throws and no      *)
(* callback is dropped.                                                    *)
KeepsContract == Contract!Spec

(* A publish() that was begun returns, whatever becomes of the connection, *)
(* the broker and the PUBACK: the wait has a timeout.                      *)
PublishReturns == \A c \in Calls : pc[c] # "idle" ~> pc[c] = "done"

=============================================================================

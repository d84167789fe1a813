# Verification of the native-socket MQTT library

TLA+ models of the library's concurrent core, the TLC configurations that check
them on small instances, and TLAPS proofs of their main properties for every
value of the constants. Paths below are relative to the repository
(`src/src/...` is its `src/` directory, `src/include/...` its headers).

## 1. The system

A client library for MQTT 3.1.1. An application makes an `MqttPublisher` or an
`MqttSubscriber`; each owns one `SocketTransport` (a TCP or TLS socket) and up to
three threads, and talks to a broker in packets made by the `MqttPacket` codec.

| component | state | operations | correct when |
|---|---|---|---|
| `MqttPublisher`, publishing (`src/src/publisher/MqttPublisher.cpp`) | `nextPacketId`, the table `pendingPubacks` (packet id -> promise) under `pubackMtx`, `sendMtx`, the publish counters | `publish`, `publishAsync`, the receive loop's PUBACK case, `failAllPending` | every call returns and is counted once; an acknowledgement reaches the call it is for; no promise is left behind or lost |
| `MqttPublisher`, lifecycle (same file) | atomic `state`, `recvThread`, `keepaliveThread`, `reconnectThread`, `reconnectRequested` under `reconnectMtx` | `connect`, `disconnect`, `reconnect`, destructor; receive loop, keepalive loop, reconnect thread | a connected client is watched; a lost connection is noticed and recovered; every thread ends with the object, and the object with its destructor |
| `SocketTransport` (`src/src/transport/SocketTransport.cpp`) | `fd`, `ssl`, `ctx`, atomic `stopFlag` | `connect`, `disconnect`, `requestStop`, `sendAll`, `recvByte`, `recvExact`; `parseBrokerUrl` | a stop is seen, also in the middle of a packet; packets are sent whole, one after the other; no descriptor is left or used after it was closed |
| `MqttSubscriber` (`src/src/subscriber/MqttSubscriber.cpp`) | `subscriptions` and the fallback under `subsMtx`, `pendingSubacks`/`pendingUnsubacks` under `ackMtx`, `sendMtx`, and a lifecycle like the publisher's | `subscribe`, `unsubscribe`, `registerFallbackCallback`, `dispatchPublish`, `resubscribeAll`, `failAllAcks` | what the application subscribed to is what it gets, across reconnects; locks are taken in one order |
| `MqttPacket` (`src/src/protocol/MqttPacket.cpp`) | none | `build*`, `readPacket`, `parse*` | reading back what was built gives the same packet |
| `Metrics` (`src/include/mqtt/monitoring/Metrics.hpp`) | atomic counters, a gauge, an average | `record*`, `set*`, `snapshot`, `reset` | counters agree with what happened |
| core types (`src/include/mqtt/core`) | none | `Result`, `ErrorCode`, `Message`, `ConnectionConfig`, `ConnectionState` | plain data |
| `ConfigLoader`, `Logger`, examples, build files | none that the above depends on | parse YAML and JSON; log | not concurrent, not modelled |

How they meet: application threads call the client; the client's receive thread
resolves promises those threads wait on, changes `state`, and starts the
reconnect thread, which calls `connect()` like an application would; the
keepalive thread only sends. All of them share the one transport, whose
header asks that "callers must serialise send and recv independently". The
hard behaviours are therefore: a loss, a deliberate disconnect, a reconnect and
the destructor in any order; checks of `state` that are stale when acted upon;
the acknowledgement, the timeout, the failed send and the lost connection racing
for one promise; a 16-bit counter that wraps while ids are outstanding. They are
listed, each at its line, under `hazards` in `PROJECT.json`.

## 2. The modules

| module | models | status |
|---|---|---|
| `PublishTracking` | the publish path | done |
| `PublishTracking_proofs` | its type invariant and four safety invariants, for every value of the constants | done |
| `PublishContract` | what a caller of `publish()` and `publishAsync()` may rely on, without ids, tables and locks; `PublishTracking` implements it | done |
| `PublishContract_proofs` | that it does, for every value of the constants | done |
| `PublisherLifecycle` | the connection lifecycle, on the transport | done |
| `PublisherLifecycle_proofs` | its type invariant and four safety invariants | done |
| `Subscriptions` | the subscriber's calls, its receive loop and resubscription, and its three locks | done |
| `Subscriptions_proofs` | its type invariant and three safety invariants | done |
| `TopicFilter` | `topicMatchesFilter` against MQTT 4.7 | done |
| `TopicFilter_proofs` | its two safety invariants, for topics and filters of every length | done |
| `MqttPacket` | the build and parse functions of the codec | done |
| `MqttPacket_proofs` | what the codec's operators are, and that the digits of a length are those of that length only | done |
| `PacketStream` | packets on the wire: `sendAll` under `sendMtx`, the socket, `readPacket` with `recvByte` and `recvExact` | done |
| `PacketStream_proofs` | its type invariant and three safety invariants, for messages of every length | done |
| `NatRecursion` | induction over the numbers and over the sequences of a set, and that a function defined by recursion over either satisfies its equation | done |
| `MCPublishTracking`, `MCPublisherLifecycle`, `MCSubscriptions`, `MCTopicFilter`, `MCPacketStream` | instances for TLC | done |

`PacketStream` extends `MqttPacket`, and `PublishTracking` is refined from
`PublishContract`. Otherwise no module extends another component's: the publish
path and the subscriptions are checked against every connection history, a
superset of what the lifecycle gives them (`PublishTracking` lets any thread
change the state at any time; `Subscriptions` has the connecting and receiving
thread of its own, since it shares locks with the calls).

### PublishTracking

State: the fields `state`, `nextPacketId`, `pendingPubacks`, `sendMtx` of
`MqttPublisher::Impl`, the two publish counters of `Metrics`, and for every call
its arguments, its place in the code (`pc`), its packet id, the content of its
future, its result and what became of its callback. `wire` and `acks` are the
packets in flight; `received` and `wrapped` are history that only properties read.

One action is one step between two accesses to shared state: the connection
check; each `fetch_add` of `allocPacketId()` (two, when the first gives 0); the
registration of the promise under `pubackMtx`; the send under `sendMtx`; the
end of the wait, by a result or by the timeout, and the erasure that follows it
under the lock. `sendMtx` is a variable only while `publish()` holds it across
two steps (a failed send and the erasure). Destroying a promise, which `erase`
and overwriting do, makes its future ready with `broken_promise`: `BreakAt`.

The connection is deliberately as open as possible: any thread may set any
state and run `failAllPending()` at any time, a send may succeed or fail, packets
may be lost. The properties hold whatever the lifecycle does, and need nothing
from it. In particular this covers the window between the check of `state`
and the registration.

Abstracted: topic, payload and the retained and duplicate flags; latency and
`lastSend`; the default QoS is part of the request. Two fetch-and-adds of one
thread are adjacent unless other threads come between them: an id is 0 only if
2^16 - 1 allocations by other threads fall between the two `fetch_add`s of one
`allocPacketId()`. `PacketIdNonZero` is therefore claimed of an instance with few
calls (three on ids 0..2 cannot make that many), and proved in the form
`FewCalls => PacketIdNonZero`: in a client's first 2 * 2^16 - 2 calls no id is 0.
That bound is sharp: with ids 0..1 TLC gives three calls one that is 0.

### PublishContract

The publish path as its caller sees it: the calls asked, what the broker has been
delivered, the outcome of every call, what its callback was told and the two
counters. The instance `Contract` in `PublishTracking` is the refinement mapping:
`asked` are the calls that have left `idle`, `delivered` is `received`, `outcome` is
`result`, a callback that waits has been told nothing. The contract says, step by
step, what no invariant of `PublishTracking` says: an answer is given once and
never changed; each answer moves its own counter in the same step; Ok of a QoS > 0
`publish()` or callback follows delivery; after `PublishFailed` a message is never
delivered; and only when packet ids have come round (`Reuse`) may an answer
belong to another message, a `publish()` throw or a callback be dropped.

### PublisherLifecycle

State: the atomic `state`, the transport's `stopFlag` and `fd`,
`reconnectRequested`, the threads the two handles hold, every thread's stop token
and place, the descriptor each `recv()` was called on (`sock`: the descriptor is
read from the field before the system call, so it may be an old one), and the
connection behind every descriptor. `recvThread = std::jthread(...)` is what
libstdc++ does: the new thread runs, the handle is exchanged, the old thread is
asked to stop and joined (`Start`, `Join`).

The actions are named after the steps of `connect()` (`Check` to `JoinKeep`),
`disconnect()` (`Disconnect` to `ToDisconnected`), the destructor (`StopAll`,
`JoinMember` for each member in reverse order, `CloseTransport`), the receive
loop (`RecvTop` to `Spawn`), the keepalive loop (`Tick`, `Ping`) and the reconnect
thread (`RcWait` to `RcAgain`); `Accept`, `Refuse` and `Lose` are the broker and
the network.

The reconnect thread's `delay` is computed as in the code (`RcAgain`): multiplied,
cut to the maximum, then lengthened by the jitter, any value up to a quarter; the
multiplier is in hundredths. It is assumed to be at least 1, as "exponential
back-off" has it; nothing in the code asks for that, and with a smaller one
delays shrink. Destroying the members joins the reconnect, the keepalive and
the receive thread in this order, each asked to stop by its own destructor just
before (`JoinMember`).

Abstracted: TLS (part of `Handshake`, which succeeds or fails), times (a wait or
a sleep may end whenever it can; `delay` says how long it would take), `sendMtx`
(a send is one step), the gauge and counters, `failAllPending` (in
`PublishTracking`). `scheduleReconnect()` tests `joinable()` and starts the
thread in one step. The broker sends well-formed packets, so that `parseConnack`
does not throw. The lifetime of `reconnectMtx` and `reconnectCv`, destroyed
before the threads are joined, is not modelled, nor is the assignment of
`reconnectThread` by a receive thread after the destructor found it empty.

### Subscriptions

State: `state`, `subscriptions`, the two promise tables as one (`pendingAcks`, by
operation and id), `nextPacketId`, and the owners of `sendMtx` and `ackMtx`; for
every call its request, place, id, future and result. `link` is the place of the
one thread that connects and then receives, `resubs` what `resubscribeAll()` has
yet to send, `inbound` and `running` the message and the callback it has in hand,
`transport` the socket: open, broken (the descriptor is still there and the loss
not yet seen) or closed. `acks` are the SUBACKs and UNSUBACKs in flight, one for
every SUBSCRIBE and UNSUBSCRIBE that reached the broker. `sent`, `last` and
`contested` are history that only properties read.

The three locks are why the module exists. `subscribe()` holds `sendMtx` while it
sends, and if that fails takes `ackMtx` and then `subsMtx` inside it
(`SendError`, `SendErrorErase`, `SendErrorForget`); `resubscribeAll()` holds
`subsMtx` and takes `sendMtx` for every topic (`ResubscribeAll`, `Resubscribe`); the
receive loop takes `sendMtx` for a PUBACK and `ackMtx` for an acknowledgement.
`subsMtx` is free unless `link = "resubscribe"`: every other section that takes it
waits for nothing inside and is one step.

Abstracted: one connection follows the other, whoever calls `connect()`; two
`connect()`s at once and a receive thread that survives its connection are in
`PublisherLifecycle`, and a receive thread that `disconnect()` leaves behind inside
a callback is out of this model, so that `UnsubscribedIsQuiet` speaks of the
receive loop of the connection in use. The opening and the handshake are `Open`
or `OpenError`. `allocPacketId()` is one step (its two are in `PublishTracking`).
Callbacks do not call the client. What `topicMatchesFilter` says is the constant
`Matches`; a PUBLISH of any topic may arrive at any time. QoS, the fallback
callback, keepalive and metrics are left out.

### MqttPacket and PacketStream

`MqttPacket` has one operator for each build and parse function; a parser that
throws gives `None`. Its two constants stand for the 2^7 values of a digit of the
remaining length and the four digits that are read; characters, flags and
fixed first bytes keep their values.

`PacketStream` moves the bytes. Threads take `sendMtx` (`Lock`) and send what they
build, in pieces of any size, while the socket has room (`Send`, `SendError`); the
reader goes through `readPacket` with one look at `stopFlag` before every `recv()`
(`Check`), which times out (`Timeout`), ends (`Closed`), or gives a first byte, a
digit of the length or some bytes of the body (`ReadFirst`, `ReadLength`,
`ReadBody`). The connection may be lost with or without the bytes in flight
(`Lose`), the reader be told to stop (`Stop`), and a `connect()` put a new socket in
`fd` while a `sendAll` is under way (`Reopen`; `torn` says that this happened to a
packet half sent). The two ends are this library's: the codec both builds and
parses PUBLISH and PUBACK, and what a server makes of CONNECT, SUBSCRIBE and
UNSUBSCRIBE is written down from MQTT (`ReadConnect`, `ReadTopics`, `ReadFilters`),
to compare with. Reading a list of topics ends where no whole entry is left.

Packets stay below 2^32 bytes (`Message`): from there on `prependFixedHeader`'s cast
to 32 bits would wrap (`Framed`), at 16 times what `readPacket` takes. The codes a
CONNACK and a SUBACK carry are any numbers; a SUBACK carries at least one.

Abstracted: TLS, whose bytes go the same way; what a client does with a packet,
which is in the other modules.

### TopicFilter

The loop of `topicMatchesFilter`, one action per branch (`Hash`, `Plus`, `Same`,
`Different`) and one for the two returns after it (`Finish`). The reference,
`MqttMatches`, splits topic and filter into levels and compares those. The rule
that wildcards do not match topics that start with `$` is the server's and is
not in the reference. `MissesTwoCases` is exact: of a topic and a filter that
match, the loop says no if and only if the filter is the topic, its `#` left
out, and one level more that is empty (`/` and `/+`), or ends in a `/#` of which
the topic is the parent (`a` and `a/#`).

## 3. The runs

Bounds are constants of the `.cfg` files.

| run | instance | states | shows |
|---|---|---|---|
| `tracking` | 2 calls of any kind, 3 packet ids, no offline publishing | 174,722 | `TypeOK`, `MetricsBalance`, `KeepsContract`; with fairness `PublishReturns` |
| `tracking_wrap` | 3 calls that use the table, 3 packet ids, offline publishing, symmetric | 463,276 | `TableMatchesWaiters`, `AckedWasReceived`, `PacketIdNonZero`, `KeepsContract` |
| `tracking_callback` | as `tracking` | violated | `FailureReachesCallback` |
| `lifecycle` | 1 application thread, 2 calls, 2 receive and 2 keepalive threads, 2 descriptors, 2 losses, 1 retry, symmetric | 576,511 | `TypeOK`, `ConnectedIsWatched`, `RecoveryUnderway`, `NoThreadForgotten` |
| `lifecycle_live` | 1 call of `connect()`, 1 loss, 3 descriptors, unlimited retries, delays from 2, doubled, up to 5 and jitter | 27,297 | `BackoffBounded`; with fairness `LossNoticed`, `LossRecovered` |
| `lifecycle_second_loss` | as `lifecycle_live`, 2 losses | violated | `AlwaysRecovering` |
| `lifecycle_destroy` | `connect()` and the destructor, 1 loss, 2 descriptors, unlimited retries | violated | `DestructorReturns` |
| `subscriptions` | 2 calls, each a `subscribe` or `unsubscribe` of one topic or a `subscribe` to a second, which as a filter matches both; 3 packet ids, symmetric | 2,768,146 | `TypeOK`, `AcksMatchWaiters`, `SubscriptionsHold`, `UnsubscribedIsQuiet` |
| `subscriptions_return` | 2 calls of `subscribe` on one topic | violated | `CallsReturn` |
| `topic_filter` | topics and valid filters of up to 5 characters of `a`, `b`, `/` (and `+`, `#`) | 535,538 | `NeverTooMuch`, `MissesTwoCases` |
| `topic_filter_mqtt` | the same | violated | `MatchesMqtt` |
| `packet_stream` | 1 message of every kind and at every limit, 1 PINGREQ beside it, lengths of base 2 (16-byte strings, 32-byte packets are too long), 2 bytes in the socket, 1 replaced socket | 447,184 | `TypeOK`, `ReadsWhatWasSent`, `FieldsSurvive`, `MalformedMeansTooLong`; with fairness `StopEndsReading`, `SentIsRead`, `SendEnds` |

Why the bounds are enough to be interesting. Three ids stand for 2^16: ids 1 and
2 are used, 0 is passed, and the third allocation collides with the first while
its call may still wait. Two calls of any kind meet every pair of paths, three
calls of the kinds that use the table meet in an overwrite, a late
acknowledgement and a timeout at once. In the lifecycle one application thread
and the reconnect thread already give two concurrent `connect()`s; two calls give
every pair of operations (`disconnect` then `connect`, `reconnect` then destroy,
...); two receive threads are the old one and the new one. What more threads,
descriptors, losses and calls could add is covered by the proofs. The lifecycle
runs do not check for deadlock: the program stops when the publisher is
destroyed or the calls are used up. In `subscriptions` connections, losses and
messages are not bounded at all (packet ids repeat); two calls give every pair of
operations on one topic and on two, which is what overwriting, erasing and
crossed acknowledgements need; that run does not check for deadlock either,
because the deadlock is what `subscriptions_return` shows. Five characters give a
filter of three levels with an empty one, and every way for one string to
end before the other.

`packet_stream` shrinks the digit of a length from 128 to 2 and gives it five,
so that a topic of 15 and 16 bytes and a packet of 31 and 32 are on the two
sides of their limits, and multi-digit lengths are common; a socket of two bytes
makes most packets arrive in many pieces; two senders and one replaced socket
are what a torn packet needs.

Fairness. `PublishTracking`: weak fairness of every call's thread and every
callback thread; `wait_for` has a timeout, and nothing is asked of the broker or
the connection. The send is one step there: that it comes to an end is
`SendEnds` of `PacketStream`, unless the peer stops reading on a connection that
stays up, which `PublishReturns` therefore excludes. `PublisherLifecycle`: weak
fairness of every thread; strong fairness of opening a socket and of the TCP/TLS
handshake, which says that whoever goes on trying gets through in the end; weak
fairness of the broker's answer to a CONNECT, since `connect()` waits for it
without a timeout. `LossRecovered` is claimed of one loss only: the second is
what `lifecycle_second_loss` shows to be left alone. `Subscriptions`: strong
fairness of every call's thread, of the connecting and the receiving thread and
of a `disconnect()` under way, which says that a mutex released again and again
is got in the end; `std::mutex` promises less, so that `CallsReturn` fails for
no want of fairness. `PacketStream`: weak fairness of the reader, whose `recv()`
has a timeout, and of a `sendAll` that can go on; nobody has to send, stop or
reconnect, and the connection need not end.

### What the violated properties say

* `FailureReachesCallback`: `publishAsync` moves the callback into a detached
  thread (line 413) and then tests it on the error path (line 425): the caller
  is told `PublishFailed`, the callback is not. It gets `ConnectionLost` when the
  connection is next lost, `Ok` if a later message with the same id is
  acknowledged first, or is dropped with its promise.
* `AlwaysRecovering`: `reconnectThread.joinable()` (line 150) is true of a thread
  that has finished. After the first recovery nothing starts another.
* `DestructorReturns`: a connection is lost; the reconnect thread has slept and is
  about to call `connect()` when the destructor sets the stop flag and the stop
  tokens. `connect()` clears the flag (`SocketTransport.cpp:68`), gets a connection
  and starts a receive thread. The destructor waits for the reconnect thread,
  which ends, then for the receive thread, which it asks to stop; but that
  thread is in `readPacket`, which looks at the flag and not at the token. Nobody
  sends any more, so a broker ends the connection after one and a half keepalives;
  with keepalive 0 it never has to.
* `CallsReturn`: `subscribe()` holds `sendMtx` (line 451) and waits for `subsMtx`
  (456), `resubscribeAll()` holds `subsMtx` (141) and waits for `sendMtx` (145). The
  first wait has no timeout, although the wait for the SUBACK has. The way there:
  a send fails on a connection that has just been lost, while the
  reconnect is at its resubscription.
* `MatchesMqtt`: the loop ends when the topic does, and what is left of the
  filter must then be a `#`: `/` does not match `/+`, `a` does not match `a/#`.
  `MissesTwoCases` shows that these two are missed and nothing else is,
  `NeverTooMuch` that nothing is matched in excess; both are proved for strings of
  every length.

## 4. The proofs

All but one are of the form `Spec => []P`, checked by TLAPS for every set of calls,
threads, descriptors, messages and strings and every bound. Assumptions: the named
`ASSUME`s of the modules (distinct kinds of threads, `IdSpace > 1`, finitely many
calls, and so on), which TLC evaluates in every run. Every safety invariant that a
passing run checks has its theorem, and so has the refinement.

`PublishTracking_proofs`: `TypeCorrect`, `TableCorrect`, `AckedCorrect`,
`MetricsCorrect`. `TableMatchesWaiters` is not inductive by itself: whether a call
waits depends on its request, its place and its callback, so `CallStructure` ties
them together (a future exists from registration on; a finished call has no entry
it could still be woken by). `AckedWasReceived` needs `IdsFresh` (before the
wrap all ids given out are below the counter and distinct) and `OkWasReceived`
(an acknowledgement in flight, or a future that is `Ok`, belongs to a call whose
message arrived). `MetricsBalance` is preserved because every way out of a call
adds one element to the set it counts and one to exactly one counter.
`PacketIdsCorrect` says that no id is 0 while `FewCalls` have begun, fewer than
twice `IdSpace - 1`. Its invariant, `DrawInv`, counts draws (`DrawsCounted`): on the
counter's first way round there is a call for every id it has given; on the second,
one for every id of both ways, and the 0 in between went to one call, which is
about to draw again or has. To be given 0 there too, it would have to find the
counter at its end a second time, which takes more calls than have begun.

`PublishContract_proofs`: `ContractKept`, which is `Spec => Contract!Spec`. One
lemma per group of actions maps it to a step of the contract or to none
(`SendErrorRefines`, `AwaitRefines`, ...), under the invariants above and three
more: a packet on the wire was sent by a call past its send, once, and is not
yet received (`SentOnce`); a callback that waits has a future, and a caller
without a promise has none waiting (`CallbackStructure`); a promise breaks under
its waiter only once ids have come round (`BrokenWasReused`).

`PublisherLifecycle_proofs`: `TypeCorrect`, `WatchedCorrect`, `RecoveryCorrect`,
`NoneForgotten`, `BackoffCorrect`. The strengthenings are `AttemptsBounded` (the
reconnect thread sleeps only with an attempt left), `DestroyAnnounced` (whoever
is in the destructor has announced it, so that `Lives` is stable),
`FirstRequestKept` (the request that starts the reconnect thread is still there
when it first waits), and `JoinsOne` (who joins a thread is at the join, and
holds nothing otherwise). `BackoffCorrect` needs the type invariant only, and
arithmetic (`DelayGrows`): the cap keeps the delay under the maximum before the
jitter adds a quarter.

`Subscriptions_proofs`: `TypeCorrect`, `AcksCorrect`, `SubscriptionsCorrect`,
`UnsubscribedCorrect`. `AcksMatchWaiters` is inductive with `FuturesFollow`
(what a future holds follows from the place of its call). `SubscriptionsHold`
rests on `ResultsFollow`, `LastFollows` and `TableFollows` (the entry of an
undisturbed topic is that of its last call, until that call fails), and on
`LinkFollows` and `SentFollows`: once resubscription has begun on a connection,
a topic whose `subscribe()` was sent or returned Ok is in `sent`, or still in
`resubs` (`Covered`). `UnsubscribedIsQuiet` rests on `QuietFollows`: once the
UNSUBACK has resolved the promise the receive loop is not in that topic's
callback, because the same thread does both, and the entry is gone before.

`TopicFilter_proofs`: `NothingInExcess`, `MissesExactly`. `LoopInv` says that before
the place the loop has come to topic and filter have as many levels each, and that
they match as a whole if and only if what is left of them does (`Along`); and that
an answer the loop has given is right but for the two cases (`AnswerRight`).

`PacketStream_proofs`: `PacketsTyped`, `PacketsRead`, `MalformedIsTooLong`,
`FieldsRead`. The first three rest on `TypeInv` (who sends has the mutex and bytes
left; who waits for a digit has room for it) and `StreamInv`. The latter puts the
messages of a connection one after the other in a stream of bytes, with an `off` that
says where each ends: the reader is at a place in it, the socket holds the bytes
that follow, as far as the senders have come (`Streams`), and what the reader has
of a packet is the beginning of the message after those delivered (`Reading`);
`ReadsWell` and `GaveUp` are what follows when a packet is whole, or too long.
Half-read lengths are the core of it: what has been read, and the digits still to
come, make the length (`LengthLeft`).

`FieldsRead` needs no more invariant, but the codec: a packet that was read has
the very body that was framed (`FramesBody`), because a length and its digits can
be told from their sum (`LengthsAgree`); a string put somewhere stays there when
more is put behind it (`StringStays`) and is read as itself if its length has room
in 16 bits, and as something shorter if not (`StringIsRead`); then kind by kind,
from field to field, up to the first string that is too long (`ConnectFields`,
`PublishFields`, ...), and for the lists of SUBSCRIBE and UNSUBSCRIBE by induction
(`TopicsRead`, `FiltersRead`).

`MqttPacket_proofs` has the lemmas about the codec's operators: what the digits of
a length are and what a digit leaves (`VarLenDigits`, `FirstDigit`, `OtherDigits`),
what a packet is made of (`FramedParts`), what joining begins with (`FlattenHead`).
`NatRecursion` has what they and `TopicFilter_proofs` need of induction, with sets
and functions where the library's theorems take operators, which these provers
cannot instantiate: induction over numbers and sequences, and that a recursive
function satisfies its equation.

Model-checked only: liveness, since the prover does not reason about fairness and
`ENABLED`.

`SubscriptionsHold` and `UnsubscribedIsQuiet` leave out a topic that two calls were
on at once (`contested`): there an earlier `subscribe()` that fails erases the entry
of a later one that succeeded. They also leave out what the broker makes of a
resubscription: `resubscribeAll()` waits for no SUBACK, so `sent` means sent.

## 5. Not modelled

* A malformed CONNACK: `parseConnack` throws out of `connect()`, which leaves
  `Connecting` behind, or out of the reconnect thread, which ends the program.
* The lifetime of members that threads still use: `reconnectMtx` and
  `reconnectCv`, destroyed before the threads are joined; the SSL object freed
  by `disconnect()` under the receive thread. Their outcome is undefined and a
  model would invent it. TLS is a socket whose handshake may fail.
* `setDefaultQoS` and `setDefaultRetained` beside a `publish()`, the latency average,
  the connected gauge and the reconnect counter: nothing depends on them.
* `registerFallbackCallback` as a call of its own, and a PUBLISH of QoS 2.
* `parseBrokerUrl`, `ConfigLoader`: sequential functions of one string or file,
  which depend on no state and no order.
* `Logger`, the examples, build and deployment files.

What would come next: the malformed CONNACK as one more way out of `connect()`, and
the subscriber's two connecting threads at once, from `PublisherLifecycle`; of
proofs, a contract for `Subscriptions` as `PublishContract` is one for the publish
path.

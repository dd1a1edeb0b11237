# A TLA+ model of node-opcua

node-opcua is an OPC UA stack in TypeScript: servers and clients that exchange
services over secure channels. These modules model the part of it whose
correctness is hardest to see in the code and hardest to reach with a test, and
say what was checked with TLC and what was proved with TLAPS.

Done so far: the publishing side of the server and the monitored items that
feed it; the server's sessions, the channels they live on and its shutdown; its
registration with a discovery server; the
secure channel, both ends; the client's connection, its session and their repair;
the client's publishing across losses of the connection. The plan for the rest is at
the end of the inventory.

## The system: inventory

Paths are relative to `packages/`. Everything runs in one JavaScript thread: a
callback (a service handler, a timer, a `setImmediate` callback, the
continuation of an `await`) runs to completion, and what makes the code hard is
the order in which callbacks come and what each finds.

| Component | State | Operations | Hard behaviour | What makes it correct |
|---|---|---|---|---|
| **publish engine** (`node-opcua-server/source/server_publish_engine.ts`) | queue of PublishRequests, subscriptions, closed subscriptions that still owe a message | Publish, feed closed / late subscription, refuse, time out, add, detach, transfer, close, shut down | eight ways for a request to leave the queue; decisions deferred with `setImmediate` | each request answered once and in the end; no farewell waits while requests do |
| **orphan engine** (`..._for_orphan_subscriptions.ts`) | the subscriptions of closed sessions | adopt, hand over, dispose | it never gets a request | orphans end and are disposed of |
| **subscription** (`server_subscription.ts`) | state, two counters, pending notifications, retransmission queue, number generator, publishing mode, timer | timer cycle, publish, keep alive, acknowledge, discard, modify, enable/disable, transfer, terminate | the cycle reads state that services, transfers and other subscriptions change | nothing lost, repeated or overtaken; numbers never reused; dies only when starved |
| **monitored item**, node sampler (`monitored_item.ts`, `node_sampler.ts`) | mode, queue, overflow, timer, sampling in progress, linked items | sample, record, enqueue, modify, set mode, trigger, terminate | asynchronous sampling and start against mode changes | mode respected, one timer, newest (or oldest) values kept |
| **server session** (`server_session.ts`) | status, channel, publish engine, watchdog | create, activate, close, delete subscription | timeout against use, change of channel | everything released once |
| **server engine** (`server_engine.ts`) | sessions, orphan engine, counters | create / close session, transfer, shut down | closure with and without subscriptions | ownership |
| **watchdog** (`node-opcua-utils/source/watchdog.ts`) | subscribers with the time they were last seen | add, remove, keep alive, visit | several expire in one visit, while requests for them wait | silent sessions end, each once |
| **service layer** (`opcua_server.ts`, `server_end_point.ts`, `base_server.ts`) | channels, listening state | one handler per service | awaits in handlers | one response per request |
| **registration, reverse connection** (`register_server_manager.ts`, `reverse_connect_manager.ts`) | state machine, timers | register, renew, unregister, stop; dial, retry | stop during an attempt | no timer survives a stop |
| **client publish engine, subscriptions** (`node-opcua-client`) | requests in flight, acknowledgements, limit learnt from the server | send, receive, suspend, terminate | late answers, lost acknowledgements | enough requests in flight, messages acknowledged |
| **client session, reconnection** (`node-opcua-client`) | session, channel, repair state | repair, recreate, transfer, republish | the connection breaks again during a repair | one repair at a time; no message lost |
| **secure channel** (`node-opcua-secure-channel`) | tokens, transactions, sequence numbers, nonces | open, renew, send, receive, time out | token overlap, response against timeout | one callback per transaction; right token |
| **chunks, transport** (`...-chunkmanager`, `...-packet-assembler`, `...-transport`) | partial messages, socket state | cut, assemble, abort, connect, close | partial reads, abort in the middle | what arrives is what was sent |
| **continuation points, file transfer, push certificates** (`...-address-space`, `...-file-transfer`, `...-server-configuration`) | tables with limits, open counts, file transactions | register, next, release; open, close; apply, roll back | limits, failure of one step of several | limits kept; all or nothing |
| **address space, alarms, state machines, discovery, roles, alias names** | object models | | mostly sequential | |
| **encoding, schemas, generated types and nodesets** | none | | | |

How they interact on the publishing side: a client's *PublishRequest* reaches
`session.publishEngine._on_PublishRequest`, which queues it. A *subscription*
owns an interval timer; its `_tick` asks its engine for a request and spends it
with `_send_response`. The engine calls back into subscriptions
(`process_subscription` from `#_feed_late_subscription`), and subscriptions into
engines (`on_close_subscription` from `terminate`, `_on_tick` from `_tick`).
*Monitored items* queue notifications which the subscription harvests.
`ServerEngine.transferSubscription` moves a subscription between engines;
`ServerEngine.closeSession` moves all of them to the orphan engine.

On the client's side an *OPCUAClient* holds one *secure channel* at a time. When
the channel's transport closes, every transaction on it is called back with an
error and the client starts a *repair*: timers, a new channel, then the repair of
each *session*, which is reactivated on the new channel or, when the server has
forgotten it, created anew with its *subscriptions* transferred or recreated. The
session's *publish engine* keeps publish requests in flight all the while, except
when it is suspended, and asks for what was lost (republish) before it resumes.

On the server an *end point* admits a limited number of channels and the *engine* a
limited number of sessions; each makes room, when it is full, by closing the oldest
that nobody uses. A *session* outlives its channel: it can be activated on another,
until the *watchdog* finds that its client has been silent for too long.
`channel.sessionTokens` and `session.channel` point at each other.
`OPCUAServer.shutdown` closes the sessions and the engine before the end points.

### Plan

1. **ServerPublishing** (done): engines, orphans and subscriptions together,
   because all the hazards are in their interaction; its proofs.
2. **NotificationStream**: what one subscription promises its clients (messages
   numbered one by one, kept until acknowledged or pushed out, an end that is
   announced once); ServerPublishing refines it for every subscription
   (model-checked, and proved).
3. **MonitoredItem** (done): sampling with its timer, the deferred start and the
   asynchronous read, modes, triggering; the notification queue with its overflow
   bit apart, as **ItemQueue**; its proofs. To add: the links between items.
4. **SecureChannel** (done): both ends, tokens, transactions; it refines
   **RemoteCalls**, what a channel promises its user; its proofs. To add: SequenceNumbers and
   ChunkAssembly as pure algorithms checked against reference definitions.
5. **ClientConnection** (done): connect, disconnect, the repair of a connection
   and of its session; its proofs. To add: a second session, the temporary client that
   fetches a certificate.
6. **ClientPublishing** (done): requests in flight, acknowledgements, suspension
   and republishing, against an abstract server over connections that are lost; its proofs.
   To add: its composition with ServerPublishing.
7. **ServerSessions** (done): creation, activation on another channel, watchdog,
   closure and shutdown on the server, with the windows around `await`; its proofs. To add: its
   composition with ServerPublishing, reverse connections.
8. **Registration** (done): the background loop, the renewals and stop(), which share
   one place for their clients; its proofs.
9. **ContinuationPoints**, **FileTransaction**, reverse connections.

## Modules

| Module | What it holds |
|---|---|
| `SequencePick` | `Pick`: an array filtered by a set of indices, as `Array.filter`, `Queue.filterOut` and `TokenStack.removeOldTokens` do, without recursion |
| `SequencePickProofs` | what `Pick` returns: its length, its entries, their order |
| `ServerPublishing` | the model |
| `NotificationStream` | abstract: what one subscription promises its clients, whatever engine it is with |
| `ServerPublishingProperties` | what it should satisfy, the refinement mapping to `NotificationStream`, and what comments and tests say it does |
| `MCServerPublishing` | values for TLC |
| `ServerPublishingProofs` | lemmas on the methods of one subscription, the inductive invariant of the engines, the theorems about states, and those about steps: what the engines answer, and that each subscription is its `NotificationStream` |
| `ItemQueue` | the queue of a monitored item: overflow, discard policies, resizing |
| `MonitoredItem` | the model of one item, the timer that samples it and the reading of its variable |
| `MonitoredItemProperties` | what an item should satisfy, and what comments and assertions say of it |
| `MCMonitoredItem` | values for TLC |
| `MonitoredItemProofs` | the principle of induction; what the operations on a queue keep, for every queue and size; the inductive invariant of an item, and the theorems |
| `SecureChannel` | the model of a secure channel: client, server, what the transport carries |
| `RemoteCalls` | abstract: a request is taken once, called back once, and nobody is left waiting |
| `SecureChannelProperties` | what a channel should satisfy, its refinement mapping to `RemoteCalls` |
| `SecureChannelProofs` | the inductive invariant of the channel, the theorems, and the refinement of `RemoteCalls` step by step |
| `ClientConnection` | the model of a client's connection, its repair and the repair of its session |
| `ClientConnectionProperties`, `MCClientConnection` | what the connection promises; the root module for TLC |
| `ClientConnectionProofs` | the inductive invariant of the connection, and the theorems |
| `ClientPublishing` | the model of a client's publish engine and subscription, and of the repair of both |
| `ClientPublishingProperties` | what they promise to the application and to the server |
| `ClientPublishingProofs` | the inductive invariant of the client's publishing, and the theorems |
| `ServerSessions` | the model of the end point, the session services, the engine's sessions, the watchdog and shutdown |
| `ServerSessionsProperties` | what they promise together |
| `ServerSessionsProofs` | the inductive invariant of the sessions and channels, and the theorems |
| `Registration` | the model of `RegisterServerManager` and the discovery server it talks to |
| `RegistrationProperties` | what it promises to the server that starts and stops it |
| `RegistrationProofs` | the inductive invariant of the registration, and the theorems |

### State and actions of ServerPublishing

| Variable | In the code |
|---|---|
| `sub[s]` | a `Subscription`: `state`, `publishEngine` (`engine`), `publishingEnabled`, `messageSent`, `_keep_alive_counter`, `_life_time_counter`, `_hasUncollectedMonitoredItemNotifications` (`flag`), the queues of its items (`items`), `_pending_notifications`, `_sent_notification_messages` (`sent`, the numbers), `_sequence_number_generator` (`next`), `unacknowledgedMessageCount`; `produced` and `delivered` are history |
| `queue[e]` | `_publish_request_queue`, a request being an identity |
| `closed[e]` | `_closed_subscriptions`, as the StatusChangeNotifications they still owe |
| `sessionClosed[e]` | `isSessionClosed` |
| `immediates`, `due`, `fired` | the `setImmediate` queue; how many of it run in this turn of the loop; which timers have fired in it |
| `out` | the responses the latest step sent |

Notifications of the monitored items are numbered in the order they are made,
so that loss, repetition and overtaking can be told apart. A PublishRequest may
acknowledge one message; it may carry a `timeoutHint` (`Hinted`), and whether it
has passed is a choice made when `_tick` looks.

| Action | Handler |
|---|---|
| `CreateSubscription` | `_createSubscriptionOnSession`, the constructor, `_start_timer`, `add_subscription` |
| `PublishRequest` | `_on_PublishRequest` with acknowledgements, `#_feed_closed_subscription`, the `setImmediate` of `#_feed_late_subscription`, `#_handle_too_many_requests` |
| `CallOnSubscription` | any service that goes through `_apply_on_Subscription`: Republish, Create/ModifyMonitoredItems, SetMonitoringMode, ... |
| `DeleteMonitoredItems`, `ModifySubscription`, `SetPublishingMode` | the services of these names |
| `DeleteSubscription` | DeleteSubscriptions on an own or an orphan subscription: `terminate`, `on_close_subscription`, `cancelPendingPublishRequest` |
| `TransferSubscription` | `ServerSidePublishEngine.transferSubscription`: `notifyTransfer`, `detach`, `add`, `_purge_dangling_subscription`, `resendInitialValues` |
| `CloseSessionAndSubscriptions`, `CloseSessionOnly` | `ServerEngine.closeSession` with and without `deleteSubscriptions` (or the session's timeout) |
| `ChangeChannel` | `moveSessionToChannel` |
| `Notify` | an item queues a notification |
| `TimerTick`, `RunTick` | `_tick` from the timer, and from the `setImmediate` of `process_subscription` |
| `RunFeedLate` | the callback of `#_feed_late_subscription` |

A handler is one action: what it calls is an operator (`ProcessKeepAlive`,
`ProcessSubscription`, `Terminate`, `Tick`) that is given the subscription and
the queue as the handler has left them so far.

### State and actions of MonitoredItem

| Variable | In the code |
|---|---|
| `item` | a `MonitoredItem`: `monitoringMode`, `samplingInterval`, `queueSize`, `discardOldest`, `filter`, `_samplingId` (`timer`, the key of the common timer), what `node_sampler` has registered (`registered`), whether an event, attribute or value callback is installed (`listening`), `_is_sampling`, `oldDataValue` (`old`), `queue`, `_triggeredNotifications`, `_semantic_version`; `alive` until `dispose`. `thrown` says, within a step, that an assertion ended the callback; `failed`, `made`, `latest`, `seen` and `resent` are history |
| `node` | the node: `$dataValue`, `semantic_version`, whether it was disposed of |
| `waiting`, `refreshing` | `__waiting_callbacks` of the variable; is its `refreshFunc` at work |
| `immediates` | the `setImmediate` callbacks of the item: deferred starts, samples, triggers |

| Action | Handler |
|---|---|
| `SetMonitoringMode`, `Modify`, `RemoveMonitoredItem` | the services, down to `_start_sampling`, `_adjust_queue_to_match_new_queue_size`, `dispose` |
| `ResendInitialValue` | `resendInitialValue`, called by a transfer |
| `Harvest` | `extractMonitoredItemNotifications`, called by the subscription |
| `Trigger`, `RunTrigger` | `trigger`, called for a linked item, and its callback |
| `TimerFires`, `RunSample` | the common timer of an interval; `_on_sampling_timer` |
| `RunStart` | `__start_sampling`, for the three kinds of attribute, with `__acquireInitialValue` |
| `DeviceAnswers` | the callback of `refreshFunc`: the variable takes the value, those who listen hear it, those who wait are answered |
| `ValueChanges`, `EventRaised`, `SemanticsChanges`, `NodeDisposed` | what the node emits, and `_on_...` of the item |

An assertion that fails throws out of the callback. What the callback had done by
then stays done, what it had not is left undone, and the rest of the system goes
on: `readValueAsync` swallows the exception of a synchronous reading, and an
application may catch the others.

### State and actions of SecureChannel

| Variable | In the code |
|---|---|
| `client` | a `ClientSecureChannelLayer`: its transport, `securityToken` (`active`), the `TokenStack`, `_securityTokenTimeoutId` (`renewal`, the time it is for), `_requests` with their identities, whether the message builder has stopped reading (`deaf`), the callbacks of `create` and `close` |
| `server` | a `ServerSecureChannelLayer`: its status, `TokenStack`, security mode, the requests handed to the application (`held`), those whose certificate is being checked (`checking`), `aborted` |
| `toServer`, `toClient` | what the transport carries, in order, its end included |
| `now`, `secured` | the time; is the mode Sign or SignAndEncrypt |
| `calls`, `server.taken`, `server.asked` | history: what became of each transaction, what the server took, when each token was asked for |

| Action | Handler |
|---|---|
| `Create`, `Call`, `Close`, `Dispose` | `create` from the moment the transport is there, `performMessageTransaction`, `close`, `dispose` |
| `ClientReceives` | `_on_message_received`, `_on_message_builder_error`, the answers to an OpenSecureChannel and to a transaction |
| `TimedOut`, `Renew`, `SocketClosed` | the timer of a transaction, the timer of the token, the close event of the transport |
| `ServerReceives`, `OpenChecked` | the server's message builder, `_on_common_message`, the first and later OpenSecureChannel |
| `Respond`, `RefusalSent`, `ServerCloses` | `send_response`; the ServiceFault or ERR that precedes an abort; `close` |
| `Lost`, `Tick` | the network; the time |

### State and actions of ClientConnection

| Variable | In the code |
|---|---|
| `client.state`, `.channel`, `.canceled` | `_internalState`, `_secureChannel`, `_reconnectionIsCanceled` |
| `client.channels` | each channel's phase, who makes it, and the stage of its creation (`create`, `getEndpoints`, `abortConnection`) |
| `client.connects`, `.disconnects`, `.closes` | the calls under way and what they wait for |
| `client.repair`, `.again`, `.timers` | the repair under way, the `setImmediate` that tries it again, the timers of `_repairConnection`, which are never cleared |
| `client.session`, `.requests` | a `ClientSessionImpl` with `_reconnecting`, and its requests |
| `client.overtaken`, `.crossed` | history: a repair began while a channel was in place, or while connect() was being initialized |
| `server.knows`, `faults` | does the server know the session; what has gone wrong so far |

Its actions are the callbacks of `client_base_impl.ts` and `reconnection.ts`:
`Connect`, `Initialized`, `Disconnect`, `Disconnected`; `Dialed`, `CreateFails`,
`Opened`, `EndpointsAnswered`, `Aborted`, `Lost` for a channel; `CreateSession`,
`CloseSession`, `SessionCloseAnswered`, `ActivateAnswered`, `RecreateAnswered`,
`SessionWaitEnds` for the session; `Send`, `Answered`, `Dropped` for a request;
`TimerEnds` and `RetryRepair` for a repair; `ServerForgets`.

### State and actions of ClientPublishing

| Variable | In the code |
|---|---|
| `client.suspended`, `.pending`, `.limit`, `.acks`, `.active`, `.subs` | of `ClientSidePublishEngine`: `isSuspended`, `nbPendingPublishRequests`, `nbMaxPublishRequestsAcceptedByServer`, `subscriptionAcknowledgements`, `activeSubscriptionCount`, `subscriptionMap` |
| `client.soon`, `.waiting` | the `setImmediate` callbacks and the 100 ms timers of `send_publish_request` |
| `client.id`, `.last` | `subscriptionId` and `lastSequenceNumber` of the subscription |
| `client.step`, `.fresh`, `.todo` | what the repair of the session waits for, whether it goes by a new session, the subscriptions it has yet to recreate |
| `client.received` | history: the notifications that came |
| `server` | what a client sees of a server: the session, whether it is bound to the channel, queued requests, subscriptions with their retransmission queues, farewells |

| Action | Handler |
|---|---|
| `SendsNow`, `LooksAgain` | the two callbacks of `send_publish_request` |
| `ClientReceives` | the callback of `internalSendPublishRequest` with `_receive_publish_response`; the answers that drive `_repair_client_session`, `repair_client_session_by_recreating_a_new_session`, `attempt_subscription_transfer`, `recreateSubscriptionAndMonitoredItem`, `_republish` |
| `AsksRepublish` | `_sendRepublish` |
| `RepairBegins`, `RepairsAgain` | `repair_client_session`, at once and 2 s after a failure |
| `Terminate` | `ClientSubscriptionImpl.terminate` |
| `Lost`, `Reconnects` | the channel breaks, or is ended by the server; ClientConnection puts another in place |
| `ServerReceives`, `Refused`, `Notifies`, `KeepsAlive`, `Expires`, `Forgets` | the server |

### State and actions of ServerSessions

| Variable | In the code |
|---|---|
| `sockets` | each connection and its `ServerSecureChannelLayer`: where it stands, `hashKey` (`key`), the channel whose end it waits for (`victim`), `sessionTokens` |
| `channels` | `_channels` of the `OPCUAServerEndPoint` |
| `sessions`, `engine` | each `ServerSession` with its status, channel and the time since its client was seen; `_sessions` and `currentSessionCount` |
| `handlers` | the requests whose handler waits: CreateSession for room, ActivateSession for the user to be authorized, CloseSession for `onDeleteMonitoredItem` |
| `phase` | how far `shutdown()` has come |

| Action | Handler |
|---|---|
| `Connect`, `Establish` | `_on_client_connection` with `_prevent_DDOS_Attack`, `establish_connection` |
| `Opened`, `Lost`, `SocketClosed` | `_registerChannel`; `_abort`, and the end of a `close`, with `_unregisterChannel` |
| `CreateSession`, `CreateResumes` | `_on_CreateSessionRequest` to its await, and from there |
| `ActivateSession`, `UserDenied`, `UserAuthorized` | `_on_ActivateSessionRequest` and the callback of `isUserAuthorized`, with `moveSessionToChannel` |
| `OtherService` | `prepare` and `_apply_on_SessionObject`, before the service itself |
| `CloseSession`, `CloseResumes` | `_on_CloseSessionRequest`, `_closeSession` |
| `Tick`, `Visit` | the clock; `_visit_subscriber` |
| `Shutdown`, `EngineShutdown`, `TasksDone`, `EndpointShutdown`, `Stop` | `shutdown` of the server, the engine and the end point, `dispose` |

### State and actions of Registration

| Variable | In the code |
|---|---|
| `manager.state`, `.endpoint`, `.timer` | `state`, `selectedEndpoint`, `_registrationTimerId` |
| `manager.activity` | what awaits: the loop of `start()` (`loop`), the callback of the timer (`renewal`), `stop()` (`stop`); where each waits and, when it closes a client, whose |
| `manager.client`, `.holder` | the client each activity made, and which of them is in `_registration_client` |
| `manager.announced`, `.overlap` | history: the last event, and whether `stop()` came during a renewal |
| `lds`, `faults` | the discovery server's list, and how much has failed |

| Action | Handler |
|---|---|
| `Start`, `PauseOver` | `start`; `#_runRegistrationProcess` and `#_establish_initial_connection` to its first await, after `start` and after a failure |
| `TimerFires` | the callback of `#_trigger_next`, to the first await of `_registerOrUnregisterServer` |
| `Stop`, `BackgroundOver` | `stop`, `#_cancel_pending_client_if_any`; `stop` after its await of the loop |
| `Prepared`, `Connected`, `Answered` | the client's `connect` (its certificates, then its channel) and what follows it; the answers, with the `finally` clauses and what goes on after them |
| `Aborted`, `Closed` | what is pending on a client that is disconnected; the end of `disconnect` |
| `ConnectFails`, `CallFails`, `EndpointBare`, `LdsForgets` | failures |

### What is abstracted

Of ServerPublishing:

- Time: publishing intervals. A timer may fire in any turn of the event loop
  but once in a turn; the loop's phases are kept, because whether an extra
  `_tick` runs before the next timer is what several properties are about.
  Between the callbacks of one phase the model also lets services run, which
  Node.js does not: it allows more than the code does.
- The queue of an item is long enough for what it produces (`MaxData`), and a
  subscription's items are one source. Data notifications travel as numbers.
- Deleting monitored items deletes all of them.
- `_beforeDeleteSubscription` and the awaits inside `resendInitialValues` last
  a microtask (unless the application sets `onDeleteMonitoredItem`): no other
  callback runs in between, and the handler is one step.
- A service with several subscription ids is several steps.
- A request of a closed session never reaches its engine (the session is not
  found), so the branch `isSessionClosed` of `_on_PublishRequest` is not taken.
- The keep-alive counter is not counted beyond its limit; the fields of a dead
  subscription nobody reads are reset; sequence numbers do not reach their wrap
  around.
- Limits on the number of subscriptions, diagnostics, events and log messages.

Of MonitoredItem:

- A value is the change it stems from (`stamp`), a class of values that the data
  change filter does not tell apart (a deadband is a choice of classes) and the
  marks of its status: `bad` (reported as such), `gone` (the node or the data is
  not there), `semantic`, `overflow`. No mark is Good.
- Every new value has a new timestamp. Values that are objects or arrays shared
  between two readings (`_enqueue_value` refuses them) do not occur.
- Intervals are ranks; the smallest positive one is the fastest possible. The
  minimum that a variable imposes is below it.
- A triggering item calls `Trigger` whenever it likes; the list of links, index
  ranges, the clauses of event filters and timestamps are left out. So is the
  answer of `validateFilter` in `modify`: a filter it refuses has been applied by
  then.
- A device may answer with the value it had, with a new one, or with an error,
  which makes the value bad.
- Services that the session of the subscription checks first (`SetMonitoringMode`
  on an unknown item) change nothing.

Of SecureChannel:

- It starts with the transport established. A socket that breaks delivers a
  prefix of what was sent; a half-open TCP connection is not modelled.
- The keys that secure a message are the token they belong to. Certificates,
  nonces, sequence numbers, chunks, and the backoff of `create` are left out.
- The first OpenSecureChannel is checked asynchronously on the server (its
  certificate), renewals are answered at once. Timeouts of transactions may pass
  at any moment.
- The application calls `performMessageTransaction` once the channel is open,
  calls `close` once, and calls nothing from inside a callback.

Of ClientConnection:

- One session; republishing is part of the reactivation, the steps of a
  recreation are one answer (ClientPublishing has them); the initialization of
  the certificate manager is one step.
- The application does not call the client from within its event handlers, and
  does not connect it again after `disconnect`, as `client_base.ts:262` asks.
- The temporary client that fetches a server certificate, `connectReverse` and
  the discovery services are left out.

Of ClientPublishing:

- One session and one subscription, which may have several ids in turn. Its
  monitored items, the timeout hint of requests and initial values are left out;
  the server's retransmission queue does not overflow.
- The connection is up or down, and comes back whole. What was under way on it
  is lost, in both directions; the answer to a CreateSession that is lost leaves
  a session nobody can name, which the model forgets.
- The server forgets a session only while it has no channel.
- The `setImmediate` at the end of `terminate`, and the promise that decodes
  opaque structures, belong to the step before them. The application terminates a
  subscription when no repair is under way, and may do so while its creation is pending
  (see below for what happens else).

Of ServerSessions:

- Certificates, signatures and identities: `UserDenied` stands for every refusal that
  comes later, and a request that is refused at once for such a reason changes nothing.
- A connection is open when its first OpenSecureChannel has been answered (the
  handshake has no other effect on sessions); the second before a refused socket is
  closed is left out. Channels are numbered in the order they were established.
- Requests come on open channels. The chunks of one read may hold several, which are
  handled before any of their promises resumes. Other services than those of sessions
  are answered at once.
- The session's subscriptions and publish engine (ServerPublishing has them), suspended
  and reverse end points, and one end point only.

Of Registration:

- The discovery server is a Boolean: does it list this server as online. A request whose
  answer does not come may have been taken or not. RegisterServer2 and the RegisterServer it
  falls back to are one request.
- A client prepares itself (certificates, in files), dials, is open, closes. Requests that
  are pending when it is disconnected are called back before its disconnection ends
  (`ClientConnection` shows how). A connection that is lost in the middle of a request
  is a failure of the request.
- Microtasks belong to the callback they follow: when a promise that is resolved already is
  awaited, the activity goes on within the same action.
- `dispose`, which the server calls after `stop`, an endpoint without a URL, and a second
  `start()` while the loop pauses (the state is INACTIVE then, and a second loop would
  begin; the server calls it once).

## Runs

Definitions named `X_Word` in the models are versions of `X` with a
slip: for every property there is one that makes TLC report it, so each property
is sensitive to the code it is about.

Common values of the publishing runs: `MaxKeepAliveCount = 2` and `LifeTimeCount = 6`, the least the
code accepts (`_adjust_maxKeepAliveCount`, `_adjust_lifeTimeCount`: three times
as many), `MaxSentMessages = 1` so that the retransmission queue overflows.
Bounds that the code does not have: `MaxData` notifications per subscription,
`MaxCalls` services other than Publish, Create, Delete and Close, `MaxImmediates`
callbacks waiting when a PublishRequest comes. Counters that would grow (numbers,
`delivered`) are bounded by them. Deadlock is not checked: once all
sessions are closed and all subscriptions are dead the system stops.

| Run | Question | Bounds |
|---|---|---|
| `transfers` | does everything survive a subscription that travels, starves, is disabled, modified, deleted, expires? | 2 sessions, 1 subscription, 2 requests, queue of 1 (so that the third limit is met), 2 notifications, one per message, 2 calls: there and back again |
| `sharing` | who leaves requests to an engine without subscription? | 2 sessions, which may be exchanged (symmetry), 2 subscriptions, 2 requests, one with a `timeoutHint`, a queue of 2, 1 call, no data |
| `progress` | are requests answered although calls reset the counters, do starved subscriptions end, is data delivered? | 1 session and the orphans, 1 subscription, 2 requests, 2 notifications, 3 calls, no symmetry |
| `items` | is an item whose device takes its time sampled, attended and its queue right, whatever services cross? | a value; intervals 0 and two others, queues of 1 and 2, 3 changes of the node, 3 services or triggers, the timer stops at 2 waiting callbacks |
| `item_progress` | is every change considered in the end? | value, attribute and event; a variable that answers at once; filters Status and StatusValue, 2 classes of values, 2 changes and a change of semantics, 2 services, queues of 1 and 2, the timer stops at 1 waiting callback |
| `channel` | do tokens, transactions, `close` and losses cross without leaving a caller waiting or a message unreadable? | 1 transaction, both kinds of security mode, tokens that live 4 (renewed at 3, expired after 5), time 6, 1 loss, 1 refusal |
| `connection` | is there one channel at a time, and does every repair, connect, disconnect and request end? | 1 client, 2 calls of connect, 1 of disconnect, 1 request, 3 channels, 2 losses, 1 refusal, 1 forgotten session, with and without repair of connections and kept sessions |
| `publishing` | are publish requests counted and renewed, and is only what came acknowledged, whatever the repair does? | 2 ids, 1 request in the pipeline, a server that queues 1, 1 notification per id, 2 losses, 1 forgotten session, 1 subscription that expires, 1 refusal |
| `sessions` | do limits hold and do channels and sessions agree, whatever crosses the handlers that wait, and is what silent clients leave given back? | 1 place for a channel, 1 for a session, 3 connections, 3 sessions in all, 4 requests, time-out after 1 tick |
| `registration` | does `stop()` end and leave nothing behind, wherever it finds the loop and the renewals, and is the server listed in the end? | 2 failures: one registration that fails and one more that fails or is forgotten |

What `transfers` checks, from `ServerPublishingProperties`:
*AnsweredOnce* (a request that leaves a queue gets one response, none that
stays), *ClosedDrainsQueue* (farewells never wait while requests do),
*NoNotificationLost* (what a subscription holds is exactly what its items
produced after what it delivered, in order), *RetransmissionQueue* (a message is kept until its owner acknowledges it or
younger ones push it out), *OwnershipConsistent*, *FarewellsElsewhere* (coming
back to a session, a subscription finds no farewell of its own),
*ExpiresWithoutRequests* (with one subscription; see below for two). *StreamsImplemented* says that every
subscription, seen through its mapping (phase, next number, kept, produced,
delivered, said), starts as `NotificationStream` does and takes a step of it or
none: a message takes the next number and is kept, except a keep-alive, which
announces it; a step says one thing unless the stream ends; only a publishing
cycle makes room for messages, and nobody else touches what is kept, made or
delivered.

`sharing` adds *IdleByTransferOnly*: an engine is left with requests and no subscription
only by a transfer of its last one; a deletion, an expiry or a closure takes the requests
with it. With two sessions the case it excepts does occur.
*RequestsAnswered*, of `progress`, excepts exactly that: a request is answered, or
comes to wait on an engine without subscription. It is about clients whose service calls come to an end
(here after 3): each call on a subscription resets its keep-alive counter, so that one who
calls more often than a keep-alive takes puts it off for as long as it goes on. With the one
session of `progress` no transfer happens and the exception is not met; with two sessions, no data and
3 calls, where it is, the property was found to hold too (125,000 states).
Two requests and two subscriptions are enough to have a request overtaken,
timed out or refused while another is spent, and a subscription fed in another's
place; two sessions and two calls let a subscription leave and come back.

What `items` checks, from `MonitoredItemProperties`: *Attended* (an
enabled item listens, has a timer, or a callback is on its way that will see to
it; it is registered under the key it remembers and no other, although its interval
changes while it is registered; the timer waits for one reading at a time; nothing
that comes late revives an item disposed of),
*QueueHoldsLatest* (order, and the last is the latest, under both policies and
any resizing), *LossAnnounced* (a queue that has dropped data says so).
Three services suffice to stop an item, start it and change it again, or to
resize its queue twice, while a reading is under way; two stale callbacks of the
timer can wait behind a start; three changes overflow a queue of two.
*Attended*, *QueueHoldsLatest* and *LossAnnounced* hold as long as no assertion
of the code has failed; those that do fail are listed below (a timer set twice, a
refused overflow bit). `item_progress` checks *FollowsNode*. It
excepts an item whose value is resent while its start is deferred: the start then
takes the resent value for the first reading, and one driven by exceptions does
not hear of what changed before it listens, until the next change. A
variable with a device is left out there: an item stopped and started during a
reading need not follow it (see below).

The fairness used by `item_progress` (`FairSpec` of
`MonitoredItem`) is weak for the callbacks of `setImmediate` and for a device that
was asked, strong for the interval timer, which is disabled in the model while
its callbacks wait.

What `channel` checks, from `SecureChannelProperties`: *TokensHonoured* (tokens
overlap: while one is alive the other end can read what it secured, although a
renewal crosses it), *Settled* (renewals do not overlap and their timer does not
outlive the channel; a closed transport leaves nobody waiting), *CallsImplemented*
(`RemoteCalls`: a transaction is taken once, called back once, answered only if it
was taken), and *CallsReturn*: every caller is called back although the server
never answers, and an end that closes does not leave the other open. One renewal
and one expiry fit in six units of time, with a message under way on either side
of each; with time 8 the safety properties were found to hold too. Fairness: the
timers, the sockets, the transport's delivery, the server's checks and its
refusals. The server's application owes no answer, and `Tick` is not fair.

What `connection` checks, from `ClientConnectionProperties`: *OneChannel* (no
channel is left alive that the client does not hold; the callbacks of a channel's
creation never find another in its place; the state tells whether there is one; all but the
first unless a repair has crossed a connect(), which two calls of it reach), *StaysDown*
(once disconnect is called nothing dials), *ConnectionRestored* and
*CallsAnswered* (which names the requests that are never called back). Two losses
let the connection break again during its repair, two calls of connect overlap a
repair left by the first. Three calls of connect, two disconnects and
three losses were found to keep the safety properties and the parts of the inductive invariant too
(2.9 million states). Fairness: every callback, timer and
answer; failures owe nothing, and neither does the application.

What `publishing` checks, from `ClientPublishingProperties`: *PendingCounted*
(the engine's count is that of the requests on the wire and in the server, and the
limit learnt from the server's refusals, which never rises again, is not below what
the server has),
*AcknowledgedReceived* (the server forgets no notification that the client did
not get), *RegisteredFed* (a
subscription known on both sides gets publish requests for ever once the
connection stays up). Two losses let the second one cut a repair short at every
step; a pipeline of 2 with a queue of 1 or 2 and two notifications was found to
hold with one loss. Fairness: the timers, the messages, the reconnection and the
server's keep-alives; the application, the faults and the notifications owe
nothing. *RegisteredFed* excepts an engine that is suspended, and a client whose
subscription was terminated: when that one comes back the engine counts no active
subscription and does not renew its requests. How the code gets there is listed below.

What `sessions` checks, from `ServerSessionsProperties`: *WithinLimits* (never more
sessions or channels than allowed, the engine's count right, no place lost),
*ChannelsAgree* (a channel lists exactly the sessions of the engine that are on it),
*NothingHangs* (again and again no session is left, no request waits, no connection is
undecided or half closed, and no shutdown is under way: clients send finitely many
requests here, so all that they leave must be given back). With one place every
newcomer finds a channel to close, one that is closing, or none, and every CreateSession
that is not the first finds the engine full; three requests in one piece overtake one
another's await. Two channels with four connections, and two sessions with two
channels, were found to keep the safety properties too. Fairness: callbacks, the clock
and the watchdog's timer, sockets that were told to close, and the application's answers
when it is asked; clients and `shutdown()` owe nothing.

What `registration` checks, from `RegistrationProperties`: *NoClientLeaks* (the three
activities take the client from each other in `_registration_client`; none is
forgotten open), *StopEnds* (`stop()` and all that it interrupts end, for good: no
timer is left, nothing lists the server again; when nothing fails and no renewal is
under way, a stopped server is not listed), *ListedAgain* (a server that is not
stopped is listed in the end). There is one manager and it is started
once, as the server does; the state space is complete but for the number of failures.
Fairness: the server calls `start()`, timers fire, certificates are read, sockets
close, and a connection or a request comes to an end, successful once the failures are
used up. `stop()` owes nothing.

**Fairness** (`FairSpec` of `ServerPublishing`, used by `progress`): weak fairness of the two kinds of
`setImmediate` callbacks, which the event loop always serves; strong fairness of
each subscription's timer, an interval timer that fires again and again while
the subscription lives. It is strong because in the model the timer is disabled
while callbacks of the same turn are waiting. Nothing is assumed of clients:
they may stop sending requests or calls at any moment.

### Disagreements between the code and what it says of itself

Each is a run in which TLC shows the sentence violated.

| Run | What happens | Where the sentence is |
|---|---|---|
| `leftover` | A CreateSession served while `shutdown()` awaits its tasks leaves a session behind; the disposal of the engine fails its assertion in a timer's callback and `shutdown()` never ends | `server_engine.ts:545` |
| `republish` | After a keep-alive, which carries the number of the next message, or before the first message, the client asks to republish a number the server does not have, and misses the message that was lost | `client_publish_engine_reconnection.ts:170` |

Others were met while modelling and can be followed in the models; no run is kept
for them.

On the publishing side of the server:

- transferring a subscription with data pending sends the old session that data;
  the StatusChangeNotification moves on to the new session
  (`server_publish_engine.ts:134`);
- a subscription disabled with notifications pending can send neither data nor
  keep-alive, turns LATE with requests queued, and expires
  (`server_subscription.ts:74`);
- the starving subscription with the greatest id is fed, not the most urgent: the
  comparison function never answers a negative number
  (`test_server_publish_engine.ts:674`);
- with two subscriptions the feed may choose a new one that says nothing, and the
  LATE one expires with a request queued (`test_subscription.ts:727`);
- a transfer publishes the pending data of a disabled subscription
  (`notifyTransfer`), against `test_subscription.ts:1346`;
- an expired orphan stays in the orphan engine's closed list for ever
  (`server_publish_engine_for_orphan_subscriptions.ts:22`);
- requests are left unanswered when the last subscription is transferred away
  (`server_publish_engine.ts:139`, against `test_server_publish_engine.ts:208`), until the
  session closes, changes its channel or gets a subscription again;
- `unacknowledgedMessageCount` counts messages already discarded
  (`server_subscription.ts:973`);
- a service before the first cycle resets the keep-alive counter and delays the
  first message (`server_subscription.ts:1563`).

Of monitored items:

- an item disabled and enabled again while a reading is under way keeps
  `_is_sampling` set: every tick finds "previous sampling call is not yet completed"
  (`monitored_item.ts:931`) and the item never samples again;
- SetMonitoringMode(Sampling), then Reporting, while the first reading is under
  way, sets the timer twice (`monitored_item.ts:1388`);
- the overflow bit may go to a notification whose status is bad; the exception
  ends the recording half way (`monitored_item.ts:1224`);
- `hasMonitoredItemNotifications` is true of an item in mode Sampling whose queue
  will not be reported;
- notifications set aside by a trigger survive the mode Disabled.

Of secure channels:

- a response to a request whose token has expired is secured with the latest token's
  keys but names the expired token (`server_secure_channel_layer.ts:667`); the client
  cannot read it and reads nothing more, against `token_stack.ts:101`;
- a renewal that fails is not tried again; a client whose last token has expired
  sends its messages unsecured;
- after an ERR or a message it cannot read the client's message builder reads
  nothing more, but the channel is kept;
- a renewal refused by the server sets its security mode to None, so that
  requests it holds are answered unsecured;
- a server channel aborted while a certificate is checked becomes "open" later
  (`server_end_point.ts:1254`).

Of the server's sessions:

- what has become of a session while its activation waited is not looked at: one that
  was closed or has expired is answered Good and becomes "active" outside the engine;
  one that was marked "screwed ! so it cannot be activated anymore"
  (`opcua_server.ts:2728`) becomes active;
- a second activation that waits for such a closed session attaches it to the channel
  under an empty token, so that the channel counts as having a session and is never
  closed to make room;
- requests that are being served when their session closes are not aborted with
  BadSessionClosed, which the comment at `opcua_server.ts:2718` describes;
- a connection that is established after `suspendConnection` or during `shutdown` fails
  the assertion of `_preregisterChannel` in a `setImmediate`.

Of the client's connection:

- the timer of an earlier loss, which is never cleared, starts a repair while
  `connect()` has put a channel in place: it reports "this._secureChannel is supposed
  to be null" (`client_base_impl.ts:634`), and leaves a client that says it is
  disconnected with a live channel and can neither connect nor disconnect;
- the close handler sets the state "panic" before it asks for it, so the guard at
  `client_base_impl.ts:1873` always holds, and `_cancel_reconnection` is never
  called (the condition at 1483 cannot be met);
- the timer of a connection that was lost before its endpoints were known starts a repair
  during a later `connect()` (`crossed`). It gives up, because the endpoint is unknown
  (`client_base_impl.ts:577`), and sets the state "disconnected" (`:1953`) while that
  `connect()` waits for `initializeCM`: it fails as a premature disconnection (`:1018`) although nobody
  disconnected, or a third call of connect() is accepted beside it and they meet at the
  channel that one of them makes;
- a client that does not repair its connections stays in "panic" after a loss and
  refuses to connect;
- requests that wait for "session_restored" (`client_session_impl.ts:1536`) are
  never called back when the session is removed or the repair given up;
  `pendingTransactions` is never filled;
- a session the user closes during a repair makes the repair fail and drops the
  new channel.

Of the client's publishing:

- the engine is suspended by a recreation (`reconnection.ts:392`); when a second
  loss cuts that short the next repair reactivates the new session and nobody
  resumes the engine: no publish request is sent any more. The comment at
  `reconnection.ts:164-169` is about a neighbouring case;
- a recreation unregisters the subscription before it asks for the new one
  (`client_subscription_reconnection.ts:58`): a refusal or a loss in between leaves
  it unregistered and the application is not told;
- a StatusChange BadTimeout that comes during a republish, or `terminate` during a
  recreation, lets the subscription be recreated after "terminated";
- `terminate` while the creation is pending (`client_subscription_impl.ts:263`): the id
  that stands for "pending" is a finite number, so it is unregistered, which lowers the count of
  active subscriptions, and the server is asked to delete it; the subscription that is
  created then is registered with a count too low, after "terminated";
  `unregisterSubscription` of an id already removed lowers the count of active
  subscriptions, and with a count of 0 responses are not renewed;
- acknowledgements that go with a request that fails are lost, and what was
  republished is never acknowledged;
- `republish` swallows errors, so the branch of `reconnection.ts:158-161` is not
  taken;
- publish requests of a connection that the server ended arm their 100 ms timers
  again and may be sent on the new channel before the republishing is over, against
  `client_publish_engine_reconnection.ts:173-176`.

Of registration:

- a registration that fails after the first connection has succeeded is swallowed
  (`register_server_manager.ts:678`, `:688`): the manager announces a success and
  waits, instead of becoming INACTIVE (`i_register_server_manager.ts:29`), and the
  loop's retry is not taken;
- `stop()` awaits the loop but not a renewal: one whose client is not connected yet
  finds, in its `finally` clause, the client that unregisters and closes it (`:696`);
  `serverUnregistered`, "emitted when the server is successfully unregistered" (`:278`),
  is emitted, and the server stays listed;
- `start()` during the pause after a failure finds INACTIVE and starts a second loop.

## Proofs

The constants are arbitrary but for `PublishingAssumption`: any finite set of
numbered subscriptions, any sessions and requests, counts within the limits
that the `_adjust_` functions enforce. The bounds `MaxData`, `MaxCalls` and
`MaxImmediates` are arbitrary too. For the sessions `SessionsAssumption` asks
only that the limits and the timeout are at least 1 and the bounds are numbers. For the
client's publishing the constants are numbers, and the client starts with a limit
(`MaxAccepted`) that is not below the server's (`Capacity`). For the registration the bound of
failures is any number. For the secure channel `ChannelAssumption` lets the lifetime of a token
be any positive multiple of 4 (of which three quarters and five quarters are whole numbers of
units) and the transactions any set. For the client's connection the names only have to be
distinct (`NamesAssumption`): 0 is not a channel, "repair" no call of connect(), "client" and
"user" no call or request; the calls, the requests and the channels there may be are any sets,
and the bounds any numbers. For the monitored item `ItemAssumption` names the kinds and filters
there are, lets the intervals be any numbers of which one is not 0, and the queue sizes any
numbers from 1. The seven models each have their own `IInv`, and all but
the connection and the item call their theorems `TypeCorrect` and `Invariance`.

| Theorem | What it says for every value of the constants |
|---|---|
| `TypeCorrect` | `Spec => []TypeOK`: in particular counters within their limits, queues within theirs, only numbers handed out in the retransmission queue |
| `ClosedSubscriptionsDrain` | `Spec => []ClosedDrainsQueue` |
| `OwnershipKept` | `Spec => []OwnershipConsistent` |
| `FarewellsStayElsewhere` | `Spec => []FarewellsElsewhere` |
| `NotificationsKept` | `Spec => []NoNotificationLost`: what a live subscription holds is all that was produced and not delivered, in order |
| `EachAnsweredOnce` | `Spec => AnsweredOnce`: a request that leaves a queue gets one response, one that stays none |
| `OnlyTransfersIdle` | `Spec => IdleByTransferOnly`: an engine is left with requests and no subscription only when its last one is transferred |
| `RetransmissionKept` | `Spec => RetransmissionQueue`: a message is kept for Republish until its owner acknowledges it or `MaxSentMessages` younger ones are kept |
| `StreamsRefined` | `Spec => StreamsImplemented`: every subscription implements `NotificationStream` |
| `Invariance` | `Spec => []IInv`, on which they rest |
| `TypeCorrect` (sessions) | `Spec => []TypeOK` of ServerSessions: in particular the engine's count of sessions is never negative |
| `LimitsKept` | `Spec => []WithinLimits`: no more sessions than `MaxSessions`, no more channels than `MaxConnections`, for every limit |
| `AgreementKept` | `Spec => []ChannelsAgree`: who has whom is the same on both sides |
| `Invariance` (sessions) | `Spec => []IInv`, on which these three rest |
| `TypeCorrect` (client's publishing) | `Spec => []TypeOK` of ClientPublishing: in particular the count of pending publish requests is never negative |
| `PendingExact` | `Spec => []PendingCounted`: the client counts exactly the publish requests it will be called back for |
| `AcknowledgedWereReceived` | `Spec => []AcknowledgedReceived`: what the server has forgotten the application was given |
| `Invariance` (client's publishing) | `Spec => []IInv`, on which these three rest |
| `TypeCorrect` (registration) | `Spec => []TypeOK` of Registration: `_registration_client` is a client that nobody has disconnected |
| `NoneForgotten` | `Spec => []NoClientLeaks`: every client that is not closed is awaited by somebody |
| `Invariance` (registration) | `Spec => []IInv`, on which these two rest |
| `TypeCorrect` (channel) | `Spec => []TypeOK` of SecureChannel: only tokens that were issued are named, kept or in use, and what nobody waits for is not in the table of requests |
| `TokensOverlap` | `Spec => []TokensHonoured`: what is secured with a token that is alive can be read at the other end, whatever renewals cross it |
| `NobodyLeft` | `Spec => []Settled`: one renewal at a time, and nobody left waiting on a transport that is closed |
| `CallsRefined` | `Spec => CallsImplemented`: a channel implements `RemoteCalls` |
| `Invariance` (channel) | `Spec => []IInv`, on which these four rest |
| `ConnectionTyped` | `Spec => []TypeOK` of ClientConnection: a repair of the session has a next step exactly while somebody waits for it |
| `ChannelIsOne` | `Spec => []OneChannel`: no channel is left alive that the client does not hold, and the callbacks and the state agree with the one in place |
| `NothingRevived` | `Spec => StaysDown`: after disconnect() no channel is dialed |
| `ConnectionInvariance` | `Spec => []IInv`, on which these three rest |
| `ItemTyped` | `Spec => []TypeOK` of MonitoredItem: in particular queues within their size, timers with an interval, and what an assertion throws ends its callback |
| `ItemAttended` | `Spec => []Attended`: an enabled item listens, has a timer or is about to be seen to, under one key and by one reading at a time |
| `LatestKept` | `Spec => []QueueHoldsLatest`: a queue is in order and ends with the latest |
| `LossesAnnounced` | `Spec => []LossAnnounced`: a queue that has dropped data says so |
| `ItemInvariance` | `Spec => []IInv`, on which these four rest |
| `PickProperties` | the length and the entries of a filtered array |
| `QueueBounded` | a queue of any size stays within it, is never left empty by an addition, and ends with the newest notification unless the bit is refused |
| `LossIsAnnounced` | a queue that overflows on data holds a notification with the overflow bit, unless it is refused |
| `ShrinkingKeepsLatest` | resizing, to any size, keeps the latest notification |

The last three are about one operation each, on any queue, and are what the invariant of an
item builds on.

None of those about the states of publishing is inductive by itself. That a life time counter stays below
its limit needs that only a LATE subscription ages and that one which reaches
the limit is terminated in the same step; that a `Tail` of a queue makes sense,
that a response is well formed, needs that the subscription is live and its
engine is one of the engines; that a closed session keeps nothing needs that no
farewell and no request comes back to it. `IInv` is therefore

- `SubsInv`: every record is a subscription, the numbers it keeps were handed
  out, and it is with an engine exactly while it lives (the first lemmas of
  `ServerPublishingProofs` show that each method keeps this: `Sound`,
  `Alive`, `Continues`); `Sound` has `Whole`, which is *NoNotificationLost* entry by
  entry, so that what is moved from the items' queues to the pending messages, split into
  messages and sent is followed value by value,
- `EnginesInv`: queues and closed lists are typed, within their limit, and never
  both non-empty; the orphan engine has no request, a closed session neither
  request nor farewell,
- `MembersInv`: no subscription is with a closed session,
- `FarewellsInv`: a farewell belongs to a subscription that was handed out and
  is not with the engine where it waits,
- `LoopInv`: the event loop's bookkeeping and the responses.

Most steps touch one subscription and its engine: `LocalStep` shows once that a
step of that shape keeps the invariant, and the handlers that several actions
share (`ProcessKeepAlive`, `ProcessSubscription`, `Terminate`, `Tick`) are shown
to have it. Then there is one lemma per action, `NextIInv` puts them together,
and `IInvImplies` draws the five properties.

*AnsweredOnce* is about a step, and is a count over it. `Balanced(q, pre, q0)` says, of a
queue `q` and the responses `pre` made so far in a step that began with the queue `q0`, that
each request occurs as often in `q` and `pre` together as it did in `q0`; the four ways to
spend requests (one on a message, some on farewells, the rest refused, the expired ones
refused) keep it. With `QueuedOnce`, that no request waits in two places, which is an
invariant for the same reason, one that leaves was answered once.

*IdleByTransferOnly* is about a step too. Every action but TransferSubscription is shown to leave
no engine with requests and no subscription that was not so before (`NoneIdles`): a local step moves
nothing and adds no request, and when `terminate` removes the last subscription while farewells still
wait, so that nothing is refused, *ClosedDrainsQueue* says that no request is left.

*StreamsImplemented* is the refinement of `NotificationStream`, whose variables are fields
of `sub[s]` and what the responses of the step say of `s` (`Said`). Its proof is in three layers.
The actions of the stream are written of records, from `u` to `v` under the messages `heard`
(`Evolves`: `Cycles`, `Moves`, `Opens`, `Produces`, `Withdraws`, `Ends`, `IsLate`,
`IsSilent`, and `Acknowledges`), and shown to be the stream's (`StreamSteps`). What the
responses of a step say of one subscription is a sequence filtered out of them, and is
computed once for each shape they have: faults, one message after faults, an interval of
farewells between faults, one message per subscription by rank. Then each handler is shown to
lead every subscription by one of those actions. The hard steps are
`terminate`, where the farewells that are fed are all of the subscription that ends, because no
others waited while requests did (*ClosedDrainsQueue*), so that they go on with its numbers;
CloseSession, which sends a message of as many subscriptions as there are requests; and a
PublishRequest that acknowledges and is answered by a farewell at once, where the two are of
different subscriptions (`FarewellsInv`). `FreshInv` is needed too: a subscription that is not
created yet has an empty stream. *RetransmissionQueue* follows from the same steps.

For the sessions, `IInv` is

- `PlacesInv`: the channels of the end point are the connections that are up or
  being closed, and they are within the limit,
- `EngineInv`: the engine's count is right and within the limit, and it holds only
  sessions that were made, so that a new one is new,
- `HandlersInv`: handlers that wait are well formed and finitely many,
- `BudgetInv`: each CreateSession that waits for room has set a session aside. This
  is about the bound `Creations`, not about the code: without it a request that waited
  could find the bound used up,
- `ChannelsAgree` itself, which is inductive with the others because a session that
  is made is in no channel before, and because the token of a session that was disposed
  of is not its number any more.

What the handlers share is shown once (`ClosedKeeps`, `CreatedKeeps`, `MoveKeeps`,
`WaitsKeeps`, `ResumedKeeps`); then there is one lemma for the actions of the end
point, one for each half of CreateSession, one for the other requests, one for the
handlers that go on, and one for the watchdog and shutdown. The steps where the code
looks again after it has waited (`CreateResumes`, `Establish`) are those
where the limits would be lost otherwise.

For the client's publishing, `IInv` is

- `StateInv`: the variables and the connection; nothing is on a connection that is lost,
- `RepairInv`: the repair has one request under way, the one its step waits for. Without it
  an answer could meet a step it is not for,
- `BoundInv`: only a session that is bound to the channel sends notifications, and the
  repair restores subscriptions only when it is,
- `CountInv`: the count of requests, and that when the server has said "too many" it holds
  as many as it accepts, or has answered them since. *PendingCounted* alone is not
  inductive: the limit is lowered when that answer arrives, later than it was sent, and what
  the client has pending by then depends on what the server sent between (`Rank` counts
  the endings before an answer on the connection),
- `AckInv`: what is acknowledged, or on its way to the server in a request, was received.

A step that sends has the shape "the client goes on, and what it has sent is put on the
connection": how that changes the counts of messages is shown once.

For the registration, `IInv` says of the manager that it is `Good`:

- `Shape`: what each of the loop, the renewal and stop() awaits fits what it does,
- `ClientsInv`: the client in `_registration_client` is the one that nobody has
  disconnected, and each client that is closing is awaited by exactly one activity,
- `AloneInv`: the renewal is not under way with the loop, and the client of stop() is
  made last,
- `StopInv`: once the server stops no timer is left, and only stop() may have a client in
  its place.

Between two awaits an activity has no client (`Loose`), or has what it awaited (`Ready`);
each part of the code that runs without an await (`Register`, `Finally`, `Cancel`,
`Background`...) is shown to lead from one of these to a `Good` manager, and the actions
put them together. It does not need that a renewal is awaited by stop(), which it is not
(see the observations): nothing is forgotten although the renewal closes a client of stop().

For the secure channel, `IInv` is

- `Stacks`: each entry of a stack is a token that was issued, and is dated between the time its
  request was made and now; the server knows every token that lives, and the client the one it
  uses. *TokensHonoured* needs this of the stacks: an end drops a token by its own date
  (`removeOldTokens`), which is never earlier than the request the life of a token is counted
  from,
- `UnderWay`: each message on the transport, held by the server or being checked names a token
  that was issued, is secured with the keys of that token while it lives, and, to whichever
  end it goes, the client knows that token; its id is not used yet by a request other than its
  own. The last is why an answer that comes late calls nobody else back,
- `Waits`: what the table of requests holds is waited for (`Awaited`), nobody waits for what
  is not in it (`Attended`), no two entries have an id or someone who waits in common, nor are two
  of them an OpenSecureChannel (`Apart`); and what the phase of the client excludes (`Phases`):
  that the watchdog of the token runs only on a valid transport which nobody closes is what
  keeps two renewals apart,
- `Once`: a transaction is on its way to the server once at most, and not after the server has
  taken it.

Its parts are predicates of the records and the time, so that a step is a change of records:
what is under way stays so when the client goes on with greater ids (`Evolves`), when the server
goes on with the same tokens, when it issues one, and when time passes. Each operation on the
table (`Create`, `Call`, `Close`...) is shown to lead to a client that waits as it should
(`Turned`), and `ClientKeeps` and `ServerKeeps` put the two together. *CallsImplemented* follows
step by step: a timeout and `close` are a *Fail*, the end of the transport is *Go*
because whoever is pending is in the table, a transaction that is read is *Take* by `Once`, and an
answer that finds its request is *Answer* because what the server sends was taken.

For the client's connection, `IInv` is

- `Typed`: the fields' types, and that the repair of the session has a step while it is waited
  for,
- `Linked`, which holds whatever happens: a channel that is alive is the client's; once
  disconnect() has taken the channel, or the state is "disconnecting", the client is `Down`
  (canceled, without a channel, in no state that leads to one),
- `Ordered`, unless a repair has crossed a connect(): the stage of the channel's creation fits
  its phase (`InPlace`); one channel is made at a time, by a repair when the endpoints are known
  and by connect() when they are not (`OneMade`); what a repair excludes (`Repairing`); a connect()
  that has no channel yet is alone, and was told if the client is canceled (`UnderWay`); and what
  the state says of the channel, the endpoints and the session (`StateTrue`).

*OneChannel* is not inductive: nothing in it keeps a repair that goes on and a connect() that is
initialized from making a channel each. What does is `known`, that the
endpoints are known, which no code reads as a lock: a repair does not dial without it, and a
client that has it and is not disconnected by the application is never "disconnected" without a
channel, so that connect() refuses. Trying to prove it without the history `crossed` failed, and
TLC then showed why on an instance with three calls of connect() (see the observations); the part
of *OneChannel* about channels that are left behind needs no exception. *StaysDown* follows because
a client that is canceled makes a channel only in `Initialized`, where `UnderWay` says that it is
`Down`, and `Attempted` asks. Each operator of the model has a lemma that says what becomes of the
fields the invariant reads (`...Is`), and each action one that it leads to a client of the
invariant that dials nothing if it is canceled (`Kept`).

For the monitored item, `IInv` is `Held`, of the item, its node, those who wait for the device
and the callbacks to come:

- `Good`, of the item alone and the stamp of the node's last change: its type and size (`Fits`);
  the timers hold it under its key and no other, only the value of a variable has a timer, and
  nothing is left of an item disposed of (`Timed`); *QueueHoldsLatest* (`Latest`) and
  *LossAnnounced* (`Announced`); what was recorded is not younger than the node, and the last
  value recorded is the one the last notification is about (`Dated`); whoever throws has a failed
  assertion to blame (`Blamed`),
- `Waits`: only who has the value of a variable sampled waits for the device, and a callback that
  is to set a timer waits only while the item does not listen and has an interval,
- `Single` and `Minded`, the parts of *Attended* that are about what waits,
- `Eventful`: of values, a queue of events holds at most the one that was resent, at its head.

`Dated` is what *QueueHoldsLatest* misses: `__acquireInitialValue` records the old value again, and
the order is kept only because that is the value of the last notification. `Eventful` is why
recording an event never throws: the notification that is to bear the overflow bit is not the
first, and an event has no status to be refused for. `Waits` is why a callback that is to set a
timer finds an item that may have one, however long the device took.

The lemmas go from the queue up. An addition leaves what was there, one place earlier or not, and
the notification (`Extends`); a resizing leaves entries of the old queue in their order, the last
one last (`From`); both keep a queue sorted. Then each operation on an item says what it records
(`Records`), answers (`Answers`) or asks (`Reads`), and each action is one of those on the
variables. `satisfy_callbacks` calls whoever waits, as many as there are: `AllAnswered` is a
recursive function, and that it is defined (`CallsEnd`) and leaves an item as it should be, with a
timer if one of them was to set it (`AllAnsweredIs`), is proved by induction. The library's
induction theorems cannot be instantiated with these provers; `Induction` states the principle of
sets of numbers instead, and follows from `Minimum`, which follows from strict inclusion of finite
sets being well-founded.

Only model-checked: *ExpiresWithoutRequests*, which holds of the instance
its run checks and not of all (several subscriptions or a priority among them
break it), so that there is no theorem to prove; and the liveness properties, which are out of
the prover's reach (fairness and ENABLED).

## What is not modelled

See the inventory and the plan. Of the publishing side: the limits of
monitored items, the composition of `MonitoredItem` with `ServerPublishing` (where
an item is a source of notifications), diagnostics, the window of `onDeleteMonitoredItem`,
the wrap around of sequence numbers, server shutdown. Of the sessions: identities,
certificates and nonces, diagnostics, registered nodes. Of the client and the
channel: see "What is abstracted". A large part of the repository is generated
code, type hierarchies, codecs and the object model of the address space, whose
correctness does not lie in the order of steps; it is left to tests, and the
models cover the protocol core only.

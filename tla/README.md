# wost-go: a TLA+ development

This directory specifies the core of `wost-go`, the Go client library of the
Web-of-Things hub: what runs concurrently, what fails in parts, and the functions
on data that these rest on. It says what has been model-checked (TLC) and what has
been proved (TLAPS). Source paths are relative to `src/pkg/`.

## The system

Devices *expose* Things, consumers *consume* them. Both sides share one MQTT
client wrapper: it carries events and property values from device to consumer and
action and property-write requests from consumer to device. Around it are HTTPS
clients and servers for authentication and the directory, configuration,
discovery, signing and certificates.

| Component | State | What is hard | What makes it correct | Module |
|---|---|---|---|---|
| MQTT client `mqttclient/MqttClient.go` | `pahoClient`, `subscriptions`, `updateMutex` | goroutines of the application and of Paho, lost connections, retries, a mutex that only some operations take | registered topics are served after every reconnect, by their own handler; unsubscribed ones are not; no crash; calls return | `MqttClient` |
| Exposed thing factory `exposedthing/ExposedThingFactory.go` | `etMap`, `bindings`, `etMapMutex` | Destroy waits for handlers under its lock; requests in flight | map, subscription and thing agree; a destroyed thing is not called | `ExposedThing`, in part |
| Exposed thing and binding `exposedthing/ExposedThing.go`, `ExposedThingMqttBinding.go` | handler maps, `handlerMutex`, value store and its mutex | handlers are device code that may call back; compare, store and publish are separate | the registered handler runs; the stored value is the published one | `ExposedThing`, `ExposedValues` |
| Consumed thing and binding `consumedthing/ConsumedThing.go`, `ConsumedThingProtocolBinding.go`, `Topics.go` | value cache, subscriptions, observations, two mutexes | two critical sections per event; Stop in between | the cache and the handlers follow the device and never go back; hardly anything after Stop | `ConsumedThing`, `ThingValues` |
| Consumed thing factory `consumedthing/ConsumedThingFactory.go` | `ctMap`, bindings, token, three clients | shadowed errors; bindings not started again after reconnecting; writes that fail half-way | connects and writes report honestly; consumed things are subscribed | `ConsumedFactory`, in part |
| TLS client `tlsclient/TLSClient.go` | HTTP client, credentials, the process-wide transport | several connection modes whose credentials are not forgotten, refresh while others connect | a call succeeds only when it was served; nobody is served as someone else | `TlsClient`, `TlsSession` |
| TLS server and authenticators `tlsserver/` | HTTP server, authenticators | listening starts in the background | nothing listens after Stop; handlers run only when authenticated | `TlsServer`, `TlsSession`, in part |
| File watcher `watcher/WatchFile.go` | timer, fsnotify watch | overlapping callbacks, renamed files | the handler runs after the last change, the file stays watched | `WatchFile` |
| TD, thing store, values, IDs `thing/` | maps with mutexes | shadowed variables, lengths, separators | reading agrees with what was written | `ThingStore`, `ThingData`, in part |
| Configuration `config/` | none | which path an entry becomes, half-read files | every path is absolute, errors are reported | `HubConfig`, in part |
| Discovery `discovery/` | results of a scan | answers that arrive while the scan ends | a service that answered in time is found | `Discovery` |
| Signing `signing/` | none | what counts as verified | a signature that is accepted is the sender's | `Signing`, in part |

Interaction: the factories call the MQTT client (`Subscribe` in `binding.Start`,
`Unsubscribe` in `binding.Stop`); the MQTT client calls the bindings back on
Paho's dispatch goroutine; the bindings call the things; the things call
application or device handlers, which may call everything again. The factory of
consumed things owns two TLS clients and an MQTT client; of the TLS clients only the one
of the authentication service is used after it is connected.

`PROJECT.json` lists every component with its status, the lines each definition
stands for, and the hazards of the code with the properties about them.

## Modules

| File | What it is |
|---|---|
| `MqttClient` | the MQTT client, with Paho and the broker as external parts; `MCMqttClient` is its instance for TLC (symmetry) |
| `ExposedThing` | exposed things, their factory and the delivery of requests; `MCExposedThing` says which API functions handlers call |
| `ExposedValues` | the emit functions of an exposed thing with its value store |
| `ConsumedThing` | the cache, the subscribers and the delivery of a consumed thing |
| `LastValues` | the abstract specification of the two: what a device and a consumer promise about values |
| `ThingValues` | `ExposedValues` and `ConsumedThing` composed over a broker, shown to implement `LastValues` |
| `TlsClient` | the operations of a TLS client as functions on the client object |
| `TlsServer` | a TLS server: start, stop, authenticators |
| `TlsSession` | a client, the goroutines that use it and the server, composed of the two |
| `ConsumedFactory` | the consumed thing factory, on `TlsClient` |
| `WatchFile` | the file watcher |
| `HubConfig`, `ThingData`, `Signing` | functions on data |
| `ThingStore`, `Discovery` | the thing store; service discovery |
| `HubData` | applies these five to bounded inputs; `MCHubData` gives its instance |
| `*Proofs` | inductive invariants and theorems of the module they are named after |

### MqttClient

One action is one stretch of code between two points where another goroutine can
see a difference: taking or releasing `updateMutex`, a call of Paho, a write of a
shared field.

| Code | Actions |
|---|---|
| `Subscribe` 326-356 | `SubscribeLock`, `SubscribePaho`, `SubscribeStore` |
| `Unsubscribe` 359-375 | `UnsubscribeLookup`, `UnsubscribePaho`, `UnsubscribeStore`; no lock |
| `Publish` 240-259, `PublishObject` | the test in `Call`, then `PublishSend` |
| `Disconnect` 209-223 | `DisconnectLock`, `DisconnectPaho`, `DisconnectNil`, `DisconnectClear` |
| `connect` 67-177 | `ConnectClose`, `ConnectNew`, then `ConnectFails` until `ConnectSucceeds` or the timeout |
| `resubscribe` 282-311 | a goroutine per connection that comes up: `ResubscribeLock`, `ResubscribeNext` and `ResubscribeTopic` per entry, `ResubscribeEnd` |
| callbacks 294-302, 345-352 | `Routed`, `DispatchNil` |
| panics and runtime errors | `NilClient`, `DispatchNil`, `MapRace` set `crash` |

Three details carry most of the weight. The callbacks of `Subscribe` capture
their handler (`Direct`), those of one `resubscribe` share its loop variable
(`Shared(r)`, read through `run[r].sub`), as in every Go before 1.22. An entry of
the map is a handler, absent, or nil (`NilSub`), because `Unsubscribe` assigns nil
and `range` visits nil entries. And `Disconnect` makes a new map, so a resubscribe
that is ranging keeps the one it started with (`run[r].old`).

External: a Paho client has a status, a router and the broker's subscriptions of
its connection, which are lost with the connection (clean session). A subscribe or
unsubscribe without a connection fails with a token that the wrapper ignores. The
network may drop a connection at any time and restore it at any time or never.
Requests to the broker take effect in one step; the time they travel is not
modelled. The content of messages is not modelled either: a dispatch matters only
when it ends the process.

### ExposedThing

`CallExpose`, `CallDestroy` and `CallSet` start API calls, by application
goroutines and by handlers that run on the delivery goroutine `Bus`. `Expose` is
one action, because it does everything under `etMapMutex`; `Destroy` is
`DestroyBinding` (lock, unsubscribe), `WriterLock` (wait for `handlerMutex`) and
`DestroyThing`. `handlerMutex` is an `RWMutex`: a waiting writer excludes new
readers. `Receive`, `FindActionHandler`, `InvokeActionHandler`, `HandleWrite` and
`HandlerReturns` are a request on its way. An action handler is looked up and
called without a lock, a write handler is looked up and run under the read lock.
The connection is assumed to be up; the value store and the emit functions are in
`ExposedValues`.

### ExposedValues, ConsumedThing and ThingValues

`EmitPropertyChange` is `EmitPropertyChange` (is the name in the TD), `Compare`
(only with `changesOnly`; `==` on two Go maps panics), `Store`, and `Publish` or
`PublishFails`: each takes `valueStoreMutex` on its own or not at all, so other
emitters come in between. `EmitEvent` stores nothing.

A message is delivered by one goroutine, as `Receive` (the name in the topic is an
event, a property or both), `PutValue` under `valueStoreMutex`, `FindHandler`
under `subscriptionMutex`, `CallHandler` under none, and the last three once more
for a name that is a property as well. `Stop` clears the subscriptions and then
the values, in two steps. Subscribing to an event accepts a nil handler, observing
a property does not: the call of a nil handler panics.

`ThingValues` puts a broker between the two, which delivers in order and may lose
messages, and lets the consumer be destroyed. Messages carry a serial number per
name, which the program does not have; with it `LastValues` can say what is
promised: the consumer's view of a name moves forward among the values emitted, or
is forgotten as a whole, and subscribers are told in order. The refinement mapping
is `emitted <- sent`, `view <- ` the serial numbers of the cached messages.

### TlsClient, TlsServer and TlsSession

`TlsClient` has one operator per method: what `ConnectNoAuth`,
`ConnectWithClientCert`, `ConnectWithBasicAuth`, `ConnectWithJwtAccessToken`,
`ConnectWithJWTLogin` (`LoginStart`, `LoginAnswered`), `RefreshJWTTokens`
(`RefreshAnswered`) and `Close` do to the object. An answer is a token, a refusal,
JSON without a token (which wipes the token, with a nil error), a body that is not
JSON, or none. No connect forgets the password
or the token of another mode, only the cookie jar is new; `Mode` is how `Invoke`
chooses among what is left. The exchanges with a server that lie in between are
steps of `TlsSession`: `Header` (authenticate or refresh first), `Serve`,
`TakeRefresh`, `TakeAnswer`, and `Timeout` for an error of `http.Client.Do`.
`transportCert` and `pool` are the process-wide TLS configuration and the
connections that are kept alive with the certificate they were made with.

`TlsServer` is `Start` (spawns a goroutine, sleeps, then `StartReturns` what the
goroutine has failed with by then), `Listen`, `Stop`, and the chain of
authenticators `CertAuth`, `JwtAuth`, `BasicAuth` as functions on a request.
A password is represented by the user whose password it is, a token by a number
whose user is in `claims`. The authentication service, which issues tokens and
the refresh cookie, is external.

### ConsumedFactory

`Connect` is `Connect`, then `Login` or `RefreshTokens` (`Authenticate`), then
`ConnectClients`; `ConnectWithCert` is `ConnectWithCert` and `ConnectCertClients`;
each exchange is one step with every outcome. The client of the directory service is
left out: it is connected with the same token or certificate and then not used; that it
refuses a certificate is an outcome of `ConnectCertClients`.

Another goroutine executes `Consume` and `Destroy`, each one action because it holds
`ctMapMutex`. `subs` are the subscriptions that the MQTT client has registered. It drops
them in a `Disconnect`, and only if it has a Paho client (`MqttClient.go:214`); without
one its `Unsubscribe` does nothing (371). `fresh` is the set of things that were made
since the subscriptions were last dropped, `orphans` that of objects destroyed without a
Paho client.

`WriteMultipleProperties` is one step per property (`WriteProperty`) because Go ranges over
a map in any order and the connection may go down in between. `Publish` asks
`IsConnected`, which holds also while Paho reconnects, and does not wait for its token: a
nil result means that Paho has taken the message (`queued`). `Deliver` is Paho's
delivery of it (`sent`), also after a reconnect; a `Disconnect` drops what is not
delivered (`dropped`).

### WatchFile

The file is external: `Write`, `Replace` (a rename over it) and `Delete`. An inode
is named by the version at which it was made. `StopTimer` and `Add` are the start
of `WatchFile`, `TakeEvent` and `LoopEnds` its loop; a callback of the timer is
`TimerExpires`, `Handler`, `Remove`, `AddAgain`, and a second one may overlap.

### HubConfig, ThingData, Signing, ThingStore, Discovery, HubData

`HubConfig` resolves the folders and files of `hub.yaml` and of a client's own
file: a path is a flag for absolute and a sequence of names, a text is a path after
one substituted variable. Of a file that does not decode, the fields that could be
decoded are set all the same (`LoadYamlConfig`), and `Load` then returns them
unresolved. The client key is resolved by the path of the client
certificate (`ClientKeyFile`, `HubConfig.go:228-232`), which decides for an absolute
key as well as for a relative one. `ThingData` has thing IDs and topics as sequences of
parts, and the values of an `InteractionOutput` as tagged values. `Signing` is
symbolic: a message is plain, signed or encrypted with named keys. `HubData` takes
a task from a bounded set and applies the function; the thing store and discovery
are processes of several steps.

## Runs

| Run | Checks | Bounds and why they are enough |
|---|---|---|
| `mqtt_single` | `SubscriptionEffective`, `SoleTopicRouted`, `CrashCause` | one caller with every operation, 2 topics, 2 handlers, 2 client objects, 2 connections: a topic replaced, dropped and kept across a lost connection and a second `connect`; 2 topics are needed for one to hide the other |
| `mqtt_two_callers` | `TypeOK`, `LockDiscipline`, `CrashCause`, `SubscriptionEffective`, `CallsReturn`, `EventuallySubscribed` | two callers, one of them owning the connection, and two resubscribes: three goroutines contend for the mutex; no `Unsubscribe` |
| `mqtt_misroute` | finds `OwnHandler` violated | as `mqtt_single`, without `Unsubscribe` |
| `mqtt_unsubscribed` | finds `UnsubscribedStaysOff` violated | one topic |
| `exposed_thing` | `TypeOK`, `WriteHandlerCurrent`, `FactoryConsistent`, `LocksOwned`, `CallsReturn` | one thing exposed twice, one application goroutine, action handlers that use the whole API, write handlers that use none of it |
| `exposed_destroy` | finds `DestroyStopsServing` violated | the same |
| `thing_values` | `StoredIsPublished`, `HandedIsCached`, `OneLateCall`, `ImplementsLastValues`, `CatchesUp` | one emitter, a name that is a property and one that is event and property, 2 values of which one is a Go map, 2 emits: a value overtaken, repeated, lost and delivered during a Destroy |
| `tls` | `ResultHonest`, `UserIsKnown`, `TokenOfSession`, `StopEffective`, `CallsReturn` | 2 goroutines, 2 users, 3 tokens (one obtained elsewhere), 2 connects, 2 server objects: a login that fails after another mode's connect, a refresh across a connect, a server that is stopped before it listens |
| `consumed_factory` | `MapsAgree`, `ConsumedIsSubscribed`, `WritesReported`, `WritesDelivered`, `ConnectHonest`, `ConnectReturns` | one thing consumed twice, 2 properties to write, 2 tokens: two properties are needed for a write that fails half-way, two tokens for a new one beside an old one |
| `connect_refresh` | finds `ConnectSurvives` violated | as `consumed_factory` |
| `watch_file` | `WatchedWhenQuiet`, `MissedInWindow`, `ChangeSeen`, `CloseEnds` | 4 changes and 2 overlapping callbacks: a callback overlaps another one, and the file is replaced in each window |
| `hub_data` | `ConfigResolved`, `NamesReadBack`, `ValuesAgree`, `SignatureHonest`, `StoreReadsBack`, `ServiceFound` | every pair of configured fields with 5 kinds of text, files that do not decode, client files with each variable, IDs with and without a publisher, a zone, a type or a colon, a value of each JSON type, senders with and without a key, 3 TDs, services with and without the wanted name |

`Clients` bounds the calls of `connect` and `Runs` the connections that come up;
both are model bounds and are exhausted in the runs, so deadlock is not checked:
the application may also simply stop. `Timeout` is 3, reached after one retry.
`MaxInstances` bounds how often a thing is exposed anew. `mqtt_single` uses the
symmetry of topics, handlers, clients and runs; runs with liveness use none.
Deadlock is not checked in the other runs either, for the same reason: bounded
callers run out of things to do. `TypeOK` is checked in two runs; elsewhere it is
proved, or part of what the properties could not be evaluated without.

Restrictions that the properties state themselves:

* `StoredIsPublished` speaks of properties, with one emitter. With two, the store
  can end with one emitter's value and the wire with the other's.
* `TokenOfSession` and `StopEffective` have histories in them (`overtaken`,
  `restarted`): a refresh that was under way during a connect does bring the older
  token back, and a second `Start` without a `Stop` leaves the first server running.
* `ConsumedIsSubscribed` says that the events of a thing go to its current object, with
  two exceptions: things that a `Disconnect` found (they are not subscribed again), and
  objects that were destroyed without an MQTT client (they stay registered).
* `WritesReported` and `WritesDelivered` say what a nil result of a write is worth: not
  that the property was published, but that Paho has it and delivers it once it is
  connected again, unless a `Disconnect` drops it.
* `ConnectHonest` says that a token was accepted, not that it was obtained with the
  password given: `Authenticate` returns nil whatever happens, and an older token may do.
* `NamesReadBack` speaks of IDs without a colon: a device ID that is a MAC address
  splits at other places.
* `ConfigResolved` speaks of files that load without error, and not of a `clientKeyFile`
  that is given.
* `StoreReadsBack` says that `GetIDs` lists each ID once, and nothing of what else is in
  its result.

### What the violations show

* `OwnHandler`. Two topics are registered, a connection comes up, `resubscribe`
  subscribes both with callbacks that read the same loop variable: messages of
  the first go to the handler of the second. The comment at `MqttClient.go:293`
  announces a new variable that the code does not create. `SoleTopicRouted` is
  what remains: with one registered topic, its messages do reach its handler.
* `UnsubscribedStaysOff`. `Unsubscribe` leaves a nil entry, and the next
  `resubscribe` subscribes it again (`MqttClient_test.go:171` asks that nothing
  is received after unsubscribing). `CrashCause` says how that ends.
* `DestroyStopsServing`. An action request finds its handler, `Destroy` runs to
  completion, then the handler is called (`ExposedThingFactory.go:64-65`).
* `ConnectSurvives`. `Connect` without a password makes a new HTTP client, whose
  cookie jar is empty, and asks for a refresh, which is refused.
  `RefreshJWTTokens` then returns nil tokens and a nil error
  (`TLSClient.go:408-410`), and `Authenticate` dereferences the tokens
  (`ConsumedThingFactory.go:76`).

### Other disagreements of code and comments

Each of these is in the models, and no run of its own shows it. The passing properties leave these cases out, or say less than the comment:
`WritesReported` and `WritesDelivered` for `Publish`, `OneLateCall` for `HandleEvent`.

| Code | Comment |
|---|---|
| A given `clientKeyFile` is resolved by the path of the client certificate, which is absolute by then, and stays relative (`HubConfig.go:230`) | "make sure files and folders have an absolute path" (183) |
| After an error `Load` leaves in the configuration what it has read (`HubConfig.go:178-253`, `LoadYamlConfig.go:44`) | "If an error is returned then the default configuration is returned" (147) |
| `GetIDs` returns as many empty strings before the IDs (`ThingStore.go:24`) | "returns the array of thing IDs" (22) |
| `Publish` returns nil for a message that Paho only stores while it reconnects (`MqttClient.go:243-258`) | "nil if it is successfully published" (`ConsumedThing.go:324-325`) |
| `Consume` returns an existing thing without starting its binding, and `Connect` starts none: after a `Disconnect` it receives no event (`ConsumedThingFactory.go:163`) | `Connect` will "initialize the protocol binding connections" (82) |
| `HandleEvent` looks a handler up and calls it without a lock, also after `Stop` (`ConsumedThing.go:113-118`) | "Stop delivering notifications for event subscriptions" (269), "stops listening to external events" (`ConsumedThingFactory.go:180`) |

### Fairness

The scheduler runs every goroutine that can run: weak fairness of each caller's
step, of `connect`, of `resubscribe`, and of the panic that a nil client causes.
`sync.Mutex` hands itself to a waiter that has waited too long (starvation mode),
so taking it is strongly fair; the same holds for `RWMutex`, which also lets the
readers in after a writer. Device handlers are assumed to return. Nothing is
assumed of the network: neither a loss nor a reconnect has to happen, and no
application has to call anything.

`ThingValues` assumes that goroutines are scheduled, that the broker delivers
what it does not lose, and that a Destroy goes on once begun; an emit is never
forced. `TlsSession` and `ConsumedFactory` assume that each call's steps are
scheduled and that the timeout of the HTTP client ends an exchange; nothing of the
server and the network. For `WritesDelivered`, `ConsumedFactory` assumes also that Paho
delivers what it has stored while it stays connected; that the connection stays is a
premise of the property. `WatchFile` assumes its loop and the timer's goroutines;
the file need not change.

## What is proved

Seven modules hold theorems. Each proves an
inductive invariant with one lemma per conjunct or per action, and derives the
properties from it. The assumptions are those of the constants, named in the module
that declares them; TLC evaluates them in the runs.

Two things about the modules' form come from the prover. Its SMT translation goes wrong
on an `EXCEPT` that changes two fields of the same element, and on an `@` inside a
nested `EXCEPT`; such updates are written `[f EXCEPT ![x] = [@ EXCEPT !.a = ..., !.b = ...]]`,
with the old values of the fields spelled out. And it rejects the literal `""`, so the empty string has a name
(`NoSender`, `NoVar`, `Blank`).

### MqttClientProofs

For every set of topics, handlers, callers, client
objects and connections and every positive timeout (`ConstantsAssumption`):

* `TypeCorrect`: `Spec => []TypeOK`
* `MutexSafe`: `Spec => []LockDiscipline`
* `CrashesExplained`: `Spec => []CrashCause`
* `RegisteredTopicsServed`: `OneAtATime => (Spec => []SubscriptionEffective)`
* `SoleTopicServed`: `OneAtATime => (Spec => []SoleTopicRouted)`
* `Invariance`: `Spec => []IInv`, from which the others follow.

`OneAtATime` says that nobody unsubscribes or that there is a single caller. It is
needed: an `Unsubscribe` holds no lock, so it can unsubscribe at the broker the
topic that another caller's `Subscribe` has just subscribed and is about to store.

The inductive invariant `IInv` adds to the four properties what each step needs to
know. `CallsOK`, `OwnerOK` and `RunsOK` tie the local variables of a call to its
program counter (a Subscribe has a topic and a handler; only the owner is in
connect, and has a client there). `NoNilSub` says that there are no nil entries where
nobody unsubscribes, without which a crash could not be explained. `ServiceOK`
is the heart: while the connection is up and no resubscribe is still to start, each
registered topic is *served* (subscribed, by a callback with its handler or by one
of a resubscribe) unless something accountable will still do it: a resubscribe that
has the topic on its list, the one that has just unsubscribed it, or a call that
is changing it. `SubscriptionEffective` is the case in which nobody is left to
excuse a topic. The proof has one lemma per conjunct of `IInv` and in it one step
per action; the operators the actions share (`Goto`, `PahoSubscribe`, ...) have
lemmas of their own.

`SoleTopicServed` needs to know what the callbacks of a resubscribe read, which
`SubscriptionEffective` leaves open. `CellInv` says it on top of `IInv`: the cell of a
run holds the entry it visited last, and that entry is the current one of its topic
while the run subscribes it (`CellCurrent`); the topics that a run has still to visit
have an entry (`TodoPresent`); so a topic routed to a cell finds its own handler there,
unless a call is changing the topic or another topic has an entry (`CellServes`). The
last escape is the defect that `OwnHandler` shows; with one entry it cannot occur. A
`Disconnect` makes a new map, so all of this is about runs that range over the live
one (`OnLiveMap`).

### ExposedThingProofs

`TypeCorrect`, `WriteHandlersCurrent`, `MapServes` and `LocksHaveOwners` from
`Invariance`, for any things, instances, handlers and goroutines. `LocksOK` ties
each lock to the program counter of its owner, `RequestOK` the request being
delivered to a thing that was born, and `MapOK` the map to the subscriptions. Only
with the read lock in the invariant can a write handler be shown to stay the one
that is registered.

### ThingValuesProofs

For any names, values, emitters and number of emits: `HandlersFindTheirValue`,
`OneHandlerAfterStop`, and `ImplementsAbstract`, the refinement of `LastValues`
(initial states map to initial states, every step to a step or a stutter). The
invariant says that the wire is in order, that everything on it is newer than what
is being delivered, and that cache and subscribers are not ahead of that.
`StoreKeepsUp` needs one emitter, as an assumption of the theorem.

### TlsSessionProofs

`StopIsEffective` has an invariant of its own about the server objects.
`Credentials` is the invariant of the rest: everything that the client holds and
that a call carries, its password, token and cookie, is of a user in `known`, and an
answer is what the server said to it. `ResultIsHonest` and `UserIsAccepted` follow.
`TokenIsOfSession` adds that cookies and refreshes under way are those of the
session, and while a login is running those of nobody: its new connection has an
empty cookie jar, so that no refresh can succeed before the login does.

### ConsumedFactoryProofs

`FactoryMapsAgree`, `EventsReachConsumed`, `WritesHonest` and the action property
`ConnectsHonestly`. `EventsReachConsumed` needs to know that the maps agree and hold
objects made for their thing (`MadeFor`); `WritesHonest` that while properties are left to
write, Paho has taken all others (`WriteInOrder`); `ConnectsHonestly` that a token in use
was issued (`TokenIssued`), whatever login or refresh it came from.

### WatchFileProofs

`Watched` and the action property `MissedOnlyInWindow`, for any number of changes
and callbacks. `Attended` says who will look at a file that is not watched: an
event, the timer or a callback; otherwise it is missed.

### HubDataProofs

`SignaturesHonest`, `ValuesReadAlike`, `NamesAreReadBack`, `FoundIsPublished`,
`StoreIsReadBack` and `ConfigIsResolved` are the six properties of `hub_data`. The first
three and the last rest on lemmas about the functions for *every* input, of which the
tasks of `HubData` are instances:

* `AcceptedIsSigned`, `OwnMessageAccepted`: any message, any keys;
* `OutputsAgree`: any value of any JSON type;
* `ThingIDReadsBack`, `PublisherIDReadsBack`, `TopicReadsBack`: any zone, publisher,
  device and type that are one part each;
* `PathsResolved`: any paths of a configuration, a given client key included. `FoldersSet` and `FilesSet` follow
  the ten assignments of `Load`, each of which changes its own field; `PlacedAbsolute`
  is why an absolute home folder is enough.

`FoundIsPublished` and `StoreIsReadBack` are invariants of processes of several steps, for
any services, documents, IDs, names and types. `DiscoInv` says that what has been
registered and found are entries of published services, and that the answer is what
the first record says; `ParamsReadBack` that a client reads back the parameters whose
value has no `=`. It assumes that parameters are texts (`ServicesAssumption`).
`StoreInv` says that the store is what was stored last under each ID, and that each
document has the affordances that were added to it under their kinds, stored or not,
because the store keeps references. `ListedOnce` counts the IDs in the result of `GetIDs`: the listing of a
finite set has each element at one place. It assumes that no ID is
empty (`IdsAssumption`), because `GetIDs` starts with empty ones.

### Only model-checked

Liveness (`CallsReturn`, `EventuallySubscribed`, `CatchesUp`, `ChangeSeen`,
`CloseEnds`, `ConnectReturns`, `WritesDelivered`): temporal reasoning with fairness is beyond the
prover used. The conversions below the models' level (JSON, YAML, paths with `.` and
`..`, the splitting of a string at its colons) are not in the models. Induction over
data, which the prover cannot instantiate, is not needed: no definition is recursive.

## Not modelled

* Query parameters and responses (`tlsserver/queryparam.go`, `tlsserver/response.go`):
  conversions without state.
* Keys and certificates, network helpers, accounts, logging, signals, the test
  environment and the vocabulary: file I/O, cryptography, queries of the operating
  system, or constants.
* `Connect` and `Disconnect` of the exposed thing factory, which pass the call on
  to the MQTT client; `InvokeAction` of a consumed thing, which publishes one message
  and changes no state; `AsMap` and the fields of the schemas; the ECDSA helpers and
  the publishing functions of `signing`; handlers without authentication.
* Requests to the MQTT broker take effect in one step; the authentication service,
  fsnotify, zeroconf and Paho are external and modelled by how the code uses them.

## Plan

1. Compose both factories with an abstraction of the MQTT client: reconnects,
   bindings that are not started again, misrouted events at the consumer.
2. Two emitters per property in `ThingValues`, once the code says which emitters
   may run at once.
3. Action properties worth a theorem: what a resubscribe, a Stop and a refresh may
   never change.

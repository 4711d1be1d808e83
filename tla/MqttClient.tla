----------------------------- MODULE MqttClient -----------------------------
(***************************************************************************)
(* The MQTT client wrapper of src/pkg/mqttclient/MqttClient.go.            *)
(*                                                                         *)
(* The wrapper remembers the application's subscriptions so that it can    *)
(* subscribe again when the connection comes back.  Four kinds of activity *)
(* touch that state: application goroutines (Callers) inside Subscribe,    *)
(* Unsubscribe, Publish, Disconnect and connect; the goroutine that Paho   *)
(* starts for every connection that comes up (Runs), which executes        *)
(* resubscribe; Paho's reconnect logic; and message dispatch.              *)
(*                                                                         *)
(* Paho and the broker are external: a client object has a status, a       *)
(* router from topics to callbacks, and the set of topics that the broker  *)
(* forwards on its connection (clean session: lost with the connection).   *)
(***************************************************************************)
EXTENDS Naturals

CONSTANTS
  Topics,         \* topics the application subscribes to
  Handlers,       \* the application's message handlers
  Callers,        \* application goroutines that use the client
  Owner,          \* the caller that owns the connection: connects, disconnects
  Unsubscribers,  \* callers that use Unsubscribe
  Clients,        \* Paho client objects; bounds the number of calls of connect
  Runs,           \* OnConnect goroutines; bounds the connections that come up
  Timeout,        \* mqttClient.timeout in seconds, never 0 (NewMqttClient)
  Absent,         \* no entry in the subscriptions map
  NilSub,         \* an entry that holds a nil *TopicSubscription
  NoClient,       \* pahoClient == nil
  NoTopic,        \* a local variable that is not in use
  Free,           \* updateMutex is not locked
  Live            \* resubscribe ranges over the map the client still uses

ASSUME ConstantsAssumption ==
  /\ Owner \in Callers
  /\ Unsubscribers \subseteq Callers
  /\ Timeout \in Nat \ {0}
  /\ Callers \cap Runs = {}
  /\ Free \notin Callers \cup Runs
  /\ NoClient \notin Clients
  /\ NoTopic \notin Topics
  /\ Absent \notin Handlers /\ NilSub \notin Handlers /\ Absent # NilSub
  /\ Live \notin [Topics -> Handlers \cup {Absent, NilSub}]

VARIABLES
  pahoClient,     \* the client object in use
  subscriptions,  \* the subscriptions map
  updateMutex,    \* who holds the mutex
  call,           \* what each caller is executing
  retry,          \* retryDelaySec and retryDuration of connect
  run,            \* the resubscribe goroutines
  status,         \* Paho: connection status of each client object
  router,         \* Paho: the callback of each topic, per client object
  broker,         \* broker: the topics forwarded on each client's connection
  crash           \* how the process ended, or "none"

pahoVars == <<status, router, broker>>
shared == <<pahoClient, subscriptions, updateMutex>>
vars == <<pahoClient, subscriptions, updateMutex, call, retry, run, status,
          router, broker, crash>>

-----------------------------------------------------------------------------
Entry   == Handlers \cup {Absent, NilSub}
SubMap  == [Topics -> Entry]
NoRoute == [kind |-> "none"]
Direct(h) == [kind |-> "direct", handler |-> h]  \* the callback of Subscribe
Shared(r) == [kind |-> "shared", run |-> r]      \* a callback of resubscribe
Route == {NoRoute} \cup {Direct(h) : h \in Handlers} \cup {Shared(r) : r \in Runs}

MaxDelay == 120   \* the backoff limit in connect

CallSteps == {"idle", "subLock", "subPaho", "subStore", "unsubLookup",
              "unsubPaho", "unsubStore", "pubSend", "disLock", "disPaho",
              "disNil", "disClear", "conClose", "conNew", "conTry"}
RunSteps  == {"unborn", "spawned", "range", "subscribe", "done"}
Statuses  == {"unborn", "disconnected", "connected", "reconnecting"}
Crashes   == {"none", "nilClient", "nilSubscription", "mapRace"}

Idle == [at |-> "idle", topic |-> NoTopic, handler |-> Absent]
NoRetry == [delay |-> 0, duration |-> 0]

CallRec  == [at : CallSteps, topic : Topics \cup {NoTopic},
             handler : Handlers \cup {Absent}]
RetryRec == [delay : 0..MaxDelay, duration : Nat]
RunRec   == [at : RunSteps, todo : SUBSET Topics, topic : Topics \cup {NoTopic},
             sub : Entry, old : SubMap \cup {Live}]

TypeOK ==
  /\ pahoClient \in Clients \cup {NoClient}
  /\ subscriptions \in SubMap
  /\ updateMutex \in Callers \cup Runs \cup {Free}
  /\ call \in [Callers -> CallRec]
  /\ retry \in RetryRec
  /\ run \in [Runs -> RunRec]
  /\ status \in [Clients -> Statuses]
  /\ router \in [Clients -> [Topics -> Route]]
  /\ broker \in [Clients -> SUBSET Topics]
  /\ crash \in Crashes

NilMap == [t \in {} |-> Absent]   \* defect: the map is left nil
EmptyMap == [t \in Topics |-> Absent]

Init ==
  /\ pahoClient = NoClient
  /\ subscriptions = EmptyMap
  /\ updateMutex = Free
  /\ call = [p \in Callers |-> Idle]
  /\ retry = NoRetry
  /\ run = [r \in Runs |-> [at |-> "unborn", todo |-> {}, topic |-> NoTopic,
                            sub |-> Absent, old |-> Live]]
  /\ status = [c \in Clients |-> "unborn"]
  /\ router = [c \in Clients |-> [t \in Topics |-> NoRoute]]
  /\ broker = [c \in Clients |-> {}]
  /\ crash = "none"

-----------------------------------------------------------------------------
(* Paho, as the wrapper uses it.  A subscribe or unsubscribe on a client   *)
(* that is not connected yields an error token, which the wrapper ignores. *)

PahoSubscribe(t, route) ==
  pahoClient # NoClient /\
  IF status[pahoClient] = "connected"
  THEN /\ router' = [router EXCEPT ![pahoClient][t] = route]
       /\ broker' = [broker EXCEPT ![pahoClient] = @ \cup {t}]
  ELSE UNCHANGED <<router, broker>>

PahoUnsubscribe(t) ==
  pahoClient # NoClient /\
  IF status[pahoClient] = "connected"
  THEN /\ router' = [router EXCEPT ![pahoClient][t] = NoRoute]
       /\ broker' = [broker EXCEPT ![pahoClient] = @ \ {t}]
  ELSE UNCHANGED <<router, broker>>

PahoDisconnect ==
  /\ status' = [status EXCEPT ![pahoClient] = "disconnected"]
  /\ broker' = [broker EXCEPT ![pahoClient] = {}]

\* Defect: connect installs no OnConnect handler.
NoResubscribe == UNCHANGED run
\* Paho calls the OnConnect handler in a goroutine of its own, which runs
\* resubscribe.
SpawnResubscribe ==
  \E r \in Runs :
    /\ run[r].at = "unborn"
    /\ run' = [run EXCEPT ![r].at = "spawned"]

\* With AutoReconnect, IsConnected also holds while Paho is reconnecting.
Connected ==
  pahoClient # NoClient /\ status[pahoClient] \in {"connected", "reconnecting"}

-----------------------------------------------------------------------------
\* updateMutex, by caller or resubscribe x.
NoLock(x) == updateMutex' = x      \* defect: does not wait for the mutex
NoUnlock == UNCHANGED updateMutex   \* defect: returns with the mutex locked
Lock(x) == updateMutex = Free /\ updateMutex' = x
Unlock == updateMutex' = Free

Goto(p, step) == call' = [call EXCEPT ![p].at = step]
Return(p) == call' = [call EXCEPT ![p] = Idle]
Start(p, step, t, h) ==
  call' = [call EXCEPT ![p] = [at |-> step, topic |-> t, handler |-> h]]

\* A caller enters a function, up to its first step.  Publish returns an error
\* when there is no connection; connect first tests for one to close.
Call(p) ==
  /\ call[p].at = "idle"
  /\ \/ \E t \in Topics, h \in Handlers : Start(p, "subLock", t, h)
     \/ p \in Unsubscribers /\ \E t \in Topics : Start(p, "unsubLookup", t, Absent)
     \/ Connected /\ Start(p, "pubSend", NoTopic, Absent)
     \/ p = Owner /\ Start(p, "disLock", NoTopic, Absent)
     \/ /\ p = Owner
        /\ \E c \in Clients : status[c] = "unborn"   \* bounds the calls of connect
        /\ Start(p, IF Connected THEN "conClose" ELSE "conNew", NoTopic, Absent)
  /\ UNCHANGED <<shared, retry, run, pahoVars, crash>>

\* Subscribe holds updateMutex, but pahoClient is tested and then used without
\* protection from Disconnect.
SubscribeLock(p) ==
  /\ call[p].at = "subLock"
  /\ Lock(p)
  /\ Goto(p, IF pahoClient # NoClient THEN "subPaho" ELSE "subStore")
  /\ UNCHANGED <<pahoClient, subscriptions, retry, run, pahoVars, crash>>

\* Defect: a topic that is registered already keeps its callback.
SubscribeOnce(p) ==
  /\ call[p].at = "subPaho"
  /\ IF subscriptions[call[p].topic] \in Handlers
     THEN UNCHANGED <<router, broker>>
     ELSE PahoSubscribe(call[p].topic, Direct(call[p].handler))
  /\ Goto(p, "subStore")
  /\ UNCHANGED <<shared, retry, run, status, crash>>

SubscribePaho(p) ==
  /\ call[p].at = "subPaho"
  /\ PahoSubscribe(call[p].topic, Direct(call[p].handler))
  /\ Goto(p, "subStore")
  /\ UNCHANGED <<shared, retry, run, status, crash>>

SubscribeStore(p) ==
  /\ call[p].at = "subStore"
  /\ subscriptions' = [subscriptions EXCEPT ![call[p].topic] = call[p].handler]
  /\ Unlock
  /\ Return(p)
  /\ UNCHANGED <<pahoClient, retry, run, pahoVars, crash>>

\* Unsubscribe does not take updateMutex; it sets the entry to nil instead of
\* deleting it, and only when there is a client.
UnsubscribeLookup(p) ==
  /\ call[p].at = "unsubLookup"
  /\ IF subscriptions[call[p].topic] \in Handlers /\ pahoClient # NoClient
     THEN Goto(p, "unsubPaho")
     ELSE Return(p)
  /\ UNCHANGED <<shared, retry, run, pahoVars, crash>>

UnsubscribePaho(p) ==
  /\ call[p].at = "unsubPaho"
  /\ PahoUnsubscribe(call[p].topic)
  /\ Goto(p, "unsubStore")
  /\ UNCHANGED <<shared, retry, run, status, crash>>

UnsubscribeStore(p) ==
  /\ call[p].at = "unsubStore"
  /\ subscriptions' = [subscriptions EXCEPT ![call[p].topic] = NilSub]
  /\ Return(p)
  /\ UNCHANGED <<pahoClient, updateMutex, retry, run, pahoVars, crash>>

\* Publish uses pahoClient a second time after its test.
PublishSend(p) ==
  /\ call[p].at = "pubSend"
  /\ pahoClient # NoClient
  /\ Return(p)
  /\ UNCHANGED <<shared, retry, run, pahoVars, crash>>

\* Disconnect holds updateMutex only to reset isRunning, which nothing reads.
DisconnectLock ==
  /\ call[Owner].at = "disLock"
  /\ updateMutex = Free
  /\ IF pahoClient = NoClient THEN Return(Owner) ELSE Goto(Owner, "disPaho")
  /\ UNCHANGED <<shared, retry, run, pahoVars, crash>>

DisconnectPaho ==
  /\ call[Owner].at = "disPaho"
  /\ PahoDisconnect
  /\ Goto(Owner, "disNil")
  /\ UNCHANGED <<shared, retry, run, router, crash>>

DisconnectNil ==
  /\ call[Owner].at = "disNil"
  /\ pahoClient' = NoClient
  /\ Goto(Owner, "disClear")
  /\ UNCHANGED <<subscriptions, updateMutex, retry, run, pahoVars, crash>>

\* A new map: a resubscribe that is ranging keeps the map it started with.
DisconnectClear ==
  /\ call[Owner].at = "disClear"
  /\ subscriptions' = EmptyMap
  /\ run' = [r \in Runs |->
               IF run[r].at \in {"range", "subscribe"} /\ run[r].old = Live
               THEN [run[r] EXCEPT !.old = subscriptions]
               ELSE run[r]]
  /\ Return(Owner)
  /\ UNCHANGED <<pahoClient, updateMutex, retry, pahoVars, crash>>

\* connect closes a connection that is up, makes a new client and tries.
ConnectClose ==
  /\ call[Owner].at = "conClose"
  /\ PahoDisconnect
  /\ Goto(Owner, "conNew")
  /\ UNCHANGED <<shared, retry, run, router, crash>>

ConnectNew ==
  /\ call[Owner].at = "conNew"
  /\ \E c \in Clients :
       /\ status[c] = "unborn"
       /\ status' = [status EXCEPT ![c] = "disconnected"]
       /\ pahoClient' = c
  /\ retry' = [delay |-> 1, duration |-> 0]
  /\ Goto(Owner, "conTry")
  /\ UNCHANGED <<subscriptions, updateMutex, run, router, broker, crash>>

ConnectSucceeds ==
  /\ call[Owner].at = "conTry"
  /\ status' = [status EXCEPT ![pahoClient] = "connected"]
  /\ SpawnResubscribe
  /\ retry' = NoRetry
  /\ Return(Owner)
  /\ UNCHANGED <<shared, router, broker, crash>>

\* An attempt counts for a second and the pause after it for its delay; when
\* the timeout has passed connect returns the error and keeps the new client.
ConnectFails ==
  /\ call[Owner].at = "conTry"
  /\ LET duration == retry.duration + 1 + retry.delay
         delay == IF retry.delay < MaxDelay THEN retry.delay + 1 ELSE retry.delay
     IN IF duration < Timeout
        THEN /\ retry' = [delay |-> delay, duration |-> duration]
             /\ UNCHANGED call
        ELSE /\ retry' = NoRetry
             /\ Return(Owner)
  /\ UNCHANGED <<shared, run, pahoVars, crash>>

-----------------------------------------------------------------------------
(* resubscribe: under updateMutex, one iteration per entry of the map in any  *)
(* order.  The loop variable `subscription` is one cell per run, shared by    *)
(* all the callbacks that the run installs: run[r].sub.                       *)

ResubscribeLock(r) ==
  /\ run[r].at = "spawned"
  /\ Lock(r)
  /\ run' = [run EXCEPT ![r] = [@ EXCEPT !.at = "range",
                !.todo = {t \in Topics : subscriptions[t] # Absent}]]
  /\ UNCHANGED <<pahoClient, subscriptions, call, retry, pahoVars, crash>>

\* Next entry: the loop variables are assigned and the topic unsubscribed.
ResubscribeNext(r) ==
  /\ run[r].at = "range"
  /\ \E t \in run[r].todo :
       /\ run' = [run EXCEPT ![r] = [@ EXCEPT
            !.at = "subscribe", !.todo = run[r].todo \ {t}, !.topic = t,
            !.sub = IF run[r].old = Live
                    THEN subscriptions[t] ELSE run[r].old[t]]]
       /\ PahoUnsubscribe(t)
  /\ UNCHANGED <<shared, call, retry, status, crash>>

ResubscribeTopic(r) ==
  /\ run[r].at = "subscribe"
  /\ PahoSubscribe(run[r].topic, Shared(r))
  /\ run' = [run EXCEPT ![r] = [@ EXCEPT !.at = "range", !.topic = NoTopic]]
  /\ UNCHANGED <<shared, call, retry, status, crash>>

ResubscribeEnd(r) ==
  /\ run[r].at = "range"
  /\ run[r].todo = {}
  /\ Unlock
  /\ run' = [run EXCEPT ![r] = [@ EXCEPT !.at = "done", !.old = Live]]
  /\ UNCHANGED <<pahoClient, subscriptions, call, retry, pahoVars, crash>>

-----------------------------------------------------------------------------
(* The network, and what ends the process.                                 *)

ConnectionLost(c) ==
  /\ status[c] = "connected"
  /\ status' = [status EXCEPT ![c] = "reconnecting"]
  /\ broker' = [broker EXCEPT ![c] = {}]
  /\ UNCHANGED <<shared, call, retry, run, router, crash>>

Reconnect(c) ==
  /\ status[c] = "reconnecting"
  /\ status' = [status EXCEPT ![c] = "connected"]
  /\ SpawnResubscribe
  /\ UNCHANGED <<shared, call, retry, router, broker, crash>>

\* A panic, or a fatal error of the runtime, in any goroutine.
Crash(how) ==
  /\ crash' = how
  /\ UNCHANGED <<shared, call, retry, run, pahoVars>>

\* A goroutine calls a method of pahoClient after Disconnect set it to nil.
NilClient ==
  /\ pahoClient = NoClient
  /\ \/ \E p \in Callers : call[p].at \in {"subPaho", "unsubPaho", "pubSend"}
     \/ \E r \in Runs : \/ run[r].at = "subscribe"
                        \/ run[r].at = "range" /\ run[r].todo # {}
  /\ Crash("nilClient")

\* The registration that the callback of topic t uses: the handler captured by
\* Subscribe, or whatever the cell of the resubscribe holds by now.
Routed(c, t) ==
  CASE router[c][t].kind = "direct" -> router[c][t].handler
    [] router[c][t].kind = "shared" -> run[router[c][t].run].sub
    [] OTHER -> Absent

\* A message arrives and its callback dereferences a nil subscription.  (A
\* message whose callback finds a handler changes no state of the client.)
DispatchNil(c, t) ==
  /\ status[c] = "connected"
  /\ t \in broker[c]
  /\ Routed(c, t) = NilSub
  /\ Crash("nilSubscription")

\* A write to the subscriptions map that overlaps with another access:
\* undefined, and the Go runtime may end the process.
Writing(p) == call[p].at \in {"subStore", "unsubStore"}
MapRace ==
  /\ \E p \in Callers :
       /\ Writing(p)
       /\ \/ \E q \in Callers \ {p} : Writing(q) \/ call[q].at = "unsubLookup"
          \/ \E r \in Runs : run[r].at = "range" /\ run[r].old = Live
  /\ Crash("mapRace")

-----------------------------------------------------------------------------
SubscribeStep(p) == SubscribeLock(p) \/ SubscribePaho(p) \/ SubscribeStore(p)
UnsubscribeStep(p) ==
  UnsubscribeLookup(p) \/ UnsubscribePaho(p) \/ UnsubscribeStore(p)
DisconnectStep ==
  DisconnectLock \/ DisconnectPaho \/ DisconnectNil \/ DisconnectClear
ConnectStep == ConnectClose \/ ConnectNew \/ ConnectSucceeds \/ ConnectFails
ResubscribeStep(r) ==
  \/ ResubscribeLock(r)
  \/ ResubscribeNext(r)
  \/ ResubscribeTopic(r)
  \/ ResubscribeEnd(r)

Next ==
  /\ crash = "none"
  /\ \/ \E p \in Callers :
          Call(p) \/ SubscribeStep(p) \/ UnsubscribeStep(p) \/ PublishSend(p)
     \/ DisconnectStep
     \/ ConnectStep
     \/ \E r \in Runs : ResubscribeStep(r)
     \/ \E c \in Clients : \/ ConnectionLost(c)
                           \/ Reconnect(c)
                           \/ \E t \in Topics : DispatchNil(c, t)
     \/ NilClient
     \/ MapRace

Spec == Init /\ [][Next]_vars

\* Goroutines are scheduled, and sync.Mutex (starvation mode, Go 1.9 and later)
\* serves every waiter; nothing forces a caller to start a call, a message to
\* arrive or the network to fail or recover.
Running(A) == crash = "none" /\ A
Fairness ==
  /\ \A p \in Callers :
       /\ SF_vars(Running(SubscribeLock(p)))
       /\ WF_vars(Running(SubscribeStep(p)))
       /\ WF_vars(Running(UnsubscribeStep(p)))
       /\ WF_vars(Running(PublishSend(p)))
  /\ SF_vars(Running(DisconnectLock))
  /\ WF_vars(Running(DisconnectStep))
  /\ WF_vars(Running(ConnectStep))
  /\ WF_vars(Running(NilClient))
  /\ \A r \in Runs :
       /\ SF_vars(Running(ResubscribeLock(r)))
       /\ WF_vars(Running(ResubscribeStep(r)))

FairSpec == Spec /\ Fairness

-----------------------------------------------------------------------------
(* Safety.                                                                 *)

\* updateMutex is held by exactly the goroutine inside Subscribe's critical
\* section or inside resubscribe: never by two, never left locked.
LockDiscipline ==
  /\ \A p \in Callers :
       updateMutex = p <=> call[p].at \in {"subPaho", "subStore"}
  /\ \A r \in Runs :
       updateMutex = r <=> run[r].at \in {"range", "subscribe"}

\* What can end the process: overlapping accesses of the subscriptions map
\* only around an Unsubscribe, which takes no lock; a nil subscription only
\* where Unsubscribe is used; a nil pahoClient only in a resubscribe or in a
\* caller other than the one that disconnects.
CrashCause ==
  /\ crash = "mapRace" =>
       \E p \in Unsubscribers : call[p].at \in {"unsubLookup", "unsubStore"}
  /\ crash = "nilSubscription" => Unsubscribers # {}
  /\ crash = "nilClient" =>
       \/ \E r \in Runs : run[r].at \in {"range", "subscribe"}
       \/ \E p \in Callers \ {Owner} :
            call[p].at \in {"subPaho", "unsubPaho", "pubSend"}

Online == pahoClient # NoClient /\ status[pahoClient] = "connected"

\* No call and no resubscribe is under way.
Settled ==
  /\ crash = "none"
  /\ \A p \in Callers : call[p].at = "idle"
  /\ \A r \in Runs : run[r].at \in {"unborn", "done"}

\* Registered topics are served: once things have settled on a connection that
\* is up, each topic with a handler is subscribed at the broker, whatever
\* losses, reconnects and reconnections came before, and a callback installed
\* by Subscribe is that of the handler registered last.
SubscriptionEffective ==
  Settled /\ Online =>
    \A t \in Topics : subscriptions[t] \in Handlers =>
      /\ t \in broker[pahoClient]
      /\ router[pahoClient][t] \in
           {Direct(subscriptions[t])} \cup {Shared(r) : r \in Runs}

\* With a single topic the shared loop variable does no harm: its messages
\* reach the handler registered last, also after a reconnect.
SoleTopicRouted ==
  Settled /\ Online =>
    \A t \in Topics :
      (/\ subscriptions[t] \in Handlers
       /\ \A u \in Topics \ {t} : subscriptions[u] = Absent)
        => Routed(pahoClient, t) = subscriptions[t]

(* Liveness, under FairSpec.                                               *)

\* Every call returns (or the process has crashed): no caller waits for
\* updateMutex forever and connect gives up at its timeout.
CallsReturn ==
  \A p \in Callers :
    call[p].at # "idle" ~> (call[p].at = "idle" \/ crash # "none")

\* A topic with a handler is eventually subscribed on a connection that stays
\* up, unless it is unregistered.
Wanted(t) == crash = "none" /\ Online /\ subscriptions[t] \in Handlers
EventuallySubscribed ==
  \A t \in Topics :
    Wanted(t) ~> (~Wanted(t) \/ t \in broker[pahoClient])

(* Claims of the repository that the code does not keep.                   *)

\* MqttClient.go:293 "create a new variable to hold the subscription in the
\* closure": each callback of resubscribe reaches its own topic's handler.
OwnHandler ==
  Settled /\ Online =>
    \A t \in Topics :
      {subscriptions[t], Routed(pahoClient, t)} \subseteq Handlers
        => Routed(pahoClient, t) = subscriptions[t]

\* MqttClient_test.go:181 "Received a message on handler 1 after unsubscribe":
\* a topic that was unsubscribed stays unsubscribed.
UnsubscribedStaysOff ==
  Settled /\ Online =>
    \A t \in Topics : subscriptions[t] = NilSub => t \notin broker[pahoClient]
=============================================================================

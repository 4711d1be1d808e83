-------------------------- MODULE MqttClientProofs --------------------------
(* Proofs about MqttClient, for any sets of topics, handlers, callers,     *)
(* Paho clients and connections, and any timeout.                          *)
EXTENDS MqttClient, TLAPS

-----------------------------------------------------------------------------
(* The inductive invariant.                                                *)

\* Who executes what, with which arguments.
CallsOK ==
  \A p \in Callers :
    /\ call[p].at \in {"subLock", "subPaho", "subStore"} =>
         call[p].topic \in Topics /\ call[p].handler \in Handlers
    /\ call[p].at \in {"unsubLookup", "unsubPaho", "unsubStore"} =>
         call[p].topic \in Topics /\ p \in Unsubscribers
    /\ call[p].at \in {"disLock", "disPaho", "disNil", "disClear",
                       "conClose", "conNew", "conTry"} => p = Owner

\* Only the owner sets pahoClient to nil, and it knows when it has.
OwnerOK ==
  /\ call[Owner].at \in {"subPaho", "unsubPaho", "pubSend", "disPaho", "disNil",
                         "conClose", "conTry"} => pahoClient # NoClient
  /\ call[Owner].at = "disClear" => pahoClient = NoClient

\* A resubscribe ranges over an abandoned map only while it is under way.
RunsOK ==
  \A r \in Runs :
    /\ run[r].at \notin {"range", "subscribe"} => run[r].old = Live
    /\ run[r].at = "subscribe" <=> run[r].topic \in Topics

\* Where Unsubscribe is never called there is no nil subscription.
NoNilSub ==
  Unsubscribers = {} =>
    /\ \A t \in Topics : subscriptions[t] # NilSub
    /\ \A r \in Runs :
         /\ run[r].sub # NilSub
         /\ run[r].old # Live => \A t \in Topics : run[r].old[t] # NilSub

\* Topic t is subscribed on the current client, its messages going to handler h
\* or to the shared cell of a resubscribe.
ServedWith(t, h) ==
  /\ t \in broker[pahoClient]
  /\ router[pahoClient][t] \in {Direct(h)} \cup {Shared(r) : r \in Runs}

\* Why a registered topic may not be served although the connection is up.
Ranging(r, t) == t \in run[r].todo \/ run[r].topic = t
Excused(t) ==
  \/ \E r \in Runs : run[r].at \in {"range", "subscribe"} /\ Ranging(r, t)
  \/ \E p \in Callers : call[p].at \in {"subStore", "unsubStore"} /\ call[p].topic = t

\* Every registered topic is served or excused; no abandoned map is in use; and
\* a Subscribe about to store its entry has its callback in place.
RegisteredServed ==
  \A t \in Topics : subscriptions[t] \in Handlers =>
    ServedWith(t, subscriptions[t]) \/ Excused(t)
NoneAbandoned == \A r \in Runs : run[r].old = Live
StoreReady ==
  \A p \in Callers : call[p].at = "subStore" =>
    /\ call[p].topic \in broker[pahoClient]
    /\ router[pahoClient][call[p].topic] = Direct(call[p].handler)

\* The connection is up and no resubscribe is still to start.
Up == crash = "none" /\ Online /\ \A r \in Runs : run[r].at # "spawned"
ServiceOK == Up => RegisteredServed /\ NoneAbandoned /\ StoreReady

\* The routes that resubscribe installs.  All callbacks of a run read one cell,
\* run[r].sub: the entry that the run visited last, which is the current one of its
\* topic while the run subscribes it; the topics a run has still to visit have an
\* entry; so on a connection that is up, a topic with a handler that is routed to a
\* cell finds its handler there, unless another topic has an entry.
OnLiveMap(r) == run[r].at \in {"range", "subscribe"} /\ run[r].old = Live
CellCurrent ==
  \A r \in Runs : run[r].at = "subscribe" /\ OnLiveMap(r) =>
    subscriptions[run[r].topic] \in {run[r].sub, NilSub}
TodoPresent ==
  \A r \in Runs : OnLiveMap(r) => \A t \in run[r].todo : subscriptions[t] # Absent
AnotherEntry(t) == \E u \in Topics \ {t} : subscriptions[u] # Absent
CellServes ==
  \A t \in Topics, r \in Runs :
    subscriptions[t] \in Handlers /\ router[pahoClient][t] = Shared(r) =>
      Excused(t) \/ run[r].sub = subscriptions[t] \/ AnotherEntry(t)
CellInv == CellCurrent /\ TodoPresent /\ (Up => CellServes)

\* Subscribe and Unsubscribe never overlap.
OneAtATime == Unsubscribers = {} \/ Callers = {Owner}

IInv ==
  /\ TypeOK
  /\ LockDiscipline
  /\ CrashCause
  /\ CallsOK
  /\ OwnerOK
  /\ RunsOK
  /\ NoNilSub
  /\ OneAtATime => ServiceOK

-----------------------------------------------------------------------------
(* The operators that the actions are built from preserve the types.       *)

\* Goto moves a caller to another step of its function and keeps the types.
LEMMA GotoType ==
  ASSUME TypeOK, NEW p \in Callers, NEW s \in CallSteps, Goto(p, s)
  PROVE  call' \in [Callers -> CallRec]
<1>1. [call[p] EXCEPT !.at = s] \in CallRec
  BY DEF TypeOK, CallRec
<1> QED
  BY <1>1 DEF TypeOK, Goto

\* Start, the entry of a caller into a function with its arguments, keeps the types.
LEMMA StartType ==
  ASSUME TypeOK, NEW p \in Callers, NEW s \in CallSteps,
         NEW t \in Topics \cup {NoTopic}, NEW h \in Handlers \cup {Absent},
         Start(p, s, t, h)
  PROVE  call' \in [Callers -> CallRec]
<1>1. [at |-> s, topic |-> t, handler |-> h] \in CallRec
  BY DEF CallRec
<1> QED
  BY <1>1 DEF TypeOK, Start

\* Return, the return of a caller from its function, keeps the types.
LEMMA ReturnType ==
  ASSUME TypeOK, NEW p \in Callers, Return(p)
  PROVE  call' \in [Callers -> CallRec]
<1>1. Idle \in CallRec
  BY DEF CallRec, Idle, CallSteps
<1> QED
  BY <1>1 DEF TypeOK, Return

\* The goroutine of the OnConnect handler (MqttClient.go:102-108) starts in a state
\* of its type.
LEMMA SpawnType ==
  ASSUME TypeOK, SpawnResubscribe
  PROVE  run' \in [Runs -> RunRec]
<1>1. PICK r \in Runs : run' = [run EXCEPT ![r].at = "spawned"]
  BY DEF SpawnResubscribe
<1>2. [run[r] EXCEPT !.at = "spawned"] \in RunRec
  BY ZenonT(60) DEF TypeOK, RunRec, RunSteps
<1> QED
  BY <1>1, <1>2 DEF TypeOK

\* Subscribing at Paho keeps the types of its router and the broker's subscriptions.
LEMMA PahoSubscribeType ==
  ASSUME TypeOK, NEW t \in Topics, NEW rt \in Route, PahoSubscribe(t, rt)
  PROVE  /\ router' \in [Clients -> [Topics -> Route]]
         /\ broker' \in [Clients -> SUBSET Topics]
<1>1. pahoClient \in Clients
  BY DEF TypeOK, PahoSubscribe
<1>2. CASE status[pahoClient] = "connected"
  <2>1. [router[pahoClient] EXCEPT ![t] = rt] \in [Topics -> Route]
    BY <1>1 DEF TypeOK
  <2>2. broker[pahoClient] \cup {t} \in SUBSET Topics
    BY <1>1 DEF TypeOK
  <2> QED
    BY <1>1, <1>2, <2>1, <2>2 DEF TypeOK, PahoSubscribe
<1>3. CASE status[pahoClient] # "connected"
  BY <1>3 DEF TypeOK, PahoSubscribe
<1> QED
  BY <1>2, <1>3

\* Unsubscribing at Paho keeps the types of its router and the broker's subscriptions.
LEMMA PahoUnsubscribeType ==
  ASSUME TypeOK, NEW t \in Topics, PahoUnsubscribe(t)
  PROVE  /\ router' \in [Clients -> [Topics -> Route]]
         /\ broker' \in [Clients -> SUBSET Topics]
<1>1. pahoClient \in Clients
  BY DEF TypeOK, PahoUnsubscribe
<1>2. CASE status[pahoClient] = "connected"
  <2>1. [router[pahoClient] EXCEPT ![t] = NoRoute] \in [Topics -> Route]
    BY <1>1 DEF TypeOK, Route
  <2>2. broker[pahoClient] \ {t} \in SUBSET Topics
    BY <1>1 DEF TypeOK
  <2> QED
    BY <1>1, <1>2, <2>1, <2>2 DEF TypeOK, PahoUnsubscribe
<1>3. CASE status[pahoClient] # "connected"
  BY <1>3 DEF TypeOK, PahoUnsubscribe
<1> QED
  BY <1>2, <1>3

\* Disconnecting at Paho keeps the types of the status and the broker's subscriptions.
LEMMA PahoDisconnectType ==
  ASSUME TypeOK, PahoDisconnect
  PROVE  /\ status' \in [Clients -> Statuses]
         /\ broker' \in [Clients -> SUBSET Topics]
BY DEF TypeOK, PahoDisconnect, Statuses

-----------------------------------------------------------------------------
(* Each conjunct of the invariant is preserved by every step.              *)

\* Every step of the client (MqttClient.go:67-375) keeps the types.
LEMMA TypeStep ==
  ASSUME TypeOK, CallsOK, RunsOK, [Next]_vars
  PROVE  TypeOK'
<1>1. CASE UNCHANGED vars
  BY <1>1 DEF vars, TypeOK
<1>2. ASSUME NEW p \in Callers, crash = "none", Call(p)
      PROVE  TypeOK'
  <2>1. UNCHANGED <<shared, retry, run, pahoVars, crash>>
    BY <1>2 DEF Call
  <2>2. call' \in [Callers -> CallRec]
    <3>1. ASSUME NEW t \in Topics, NEW h \in Handlers, Start(p, "subLock", t, h)
          PROVE  call' \in [Callers -> CallRec]
      BY <3>1, StartType DEF CallSteps
    <3>2. ASSUME NEW t \in Topics, Start(p, "unsubLookup", t, Absent)
          PROVE  call' \in [Callers -> CallRec]
      BY <3>2, StartType DEF CallSteps
    <3>3. ASSUME NEW s \in CallSteps, Start(p, s, NoTopic, Absent)
          PROVE  call' \in [Callers -> CallRec]
      BY <3>3, StartType
    <3> QED
      BY <1>2, <3>1, <3>2, <3>3 DEF Call, CallSteps
  <2> QED
    BY <2>1, <2>2 DEF TypeOK, shared, pahoVars
<1>3. ASSUME NEW p \in Callers, crash = "none", SubscribeLock(p)
      PROVE  TypeOK'
  BY <1>3, GotoType DEF SubscribeLock, TypeOK, pahoVars, CallSteps, Lock
<1>4. ASSUME NEW p \in Callers, crash = "none", SubscribePaho(p)
      PROVE  TypeOK'
  <2>1. Direct(call[p].handler) \in Route /\ call[p].topic \in Topics
    BY <1>4 DEF SubscribePaho, CallsOK, Route
  <2> QED
    BY <1>4, <2>1, GotoType, PahoSubscribeType
    DEF SubscribePaho, TypeOK, CallSteps, shared
<1>5. ASSUME NEW p \in Callers, crash = "none", SubscribeStore(p)
      PROVE  TypeOK'
  <2>1. call[p].topic \in Topics /\ call[p].handler \in Handlers
    BY <1>5 DEF SubscribeStore, CallsOK
  <2> QED
    BY <1>5, <2>1, ReturnType
    DEF SubscribeStore, Unlock, TypeOK, SubMap, Entry, pahoVars
<1>6. ASSUME NEW p \in Callers, crash = "none", UnsubscribeLookup(p)
      PROVE  TypeOK'
  BY <1>6, GotoType, ReturnType
  DEF UnsubscribeLookup, TypeOK, shared, pahoVars, CallSteps
<1>7. ASSUME NEW p \in Callers, crash = "none", UnsubscribePaho(p)
      PROVE  TypeOK'
  <2>1. call[p].topic \in Topics
    BY <1>7 DEF UnsubscribePaho, CallsOK
  <2> QED
    BY <1>7, <2>1, GotoType, PahoUnsubscribeType
    DEF UnsubscribePaho, TypeOK, CallSteps, shared
<1>8. ASSUME NEW p \in Callers, crash = "none", UnsubscribeStore(p)
      PROVE  TypeOK'
  <2>1. call[p].topic \in Topics
    BY <1>8 DEF UnsubscribeStore, CallsOK
  <2> QED
    BY <1>8, <2>1, ReturnType DEF UnsubscribeStore, TypeOK, SubMap, Entry, pahoVars
<1>9. ASSUME NEW p \in Callers, crash = "none", PublishSend(p)
      PROVE  TypeOK'
  BY <1>9, ReturnType DEF PublishSend, TypeOK, shared, pahoVars
<1>10. ASSUME crash = "none", DisconnectLock
      PROVE  TypeOK'
  BY <1>10, ConstantsAssumption, GotoType, ReturnType
  DEF DisconnectLock, TypeOK, shared, pahoVars, CallSteps
<1>11. ASSUME crash = "none", DisconnectPaho
      PROVE  TypeOK'
  BY <1>11, ConstantsAssumption, GotoType, PahoDisconnectType
  DEF DisconnectPaho, TypeOK, shared, CallSteps
<1>12. ASSUME crash = "none", DisconnectNil
      PROVE  TypeOK'
  BY <1>12, ConstantsAssumption, GotoType
  DEF DisconnectNil, TypeOK, pahoVars, CallSteps
<1>13. ASSUME crash = "none", DisconnectClear
      PROVE  TypeOK'
  <2>1. subscriptions' \in SubMap
    BY <1>13 DEF DisconnectClear, EmptyMap, SubMap, Entry
  <2>2. \A r \in Runs : [run[r] EXCEPT !.old = subscriptions] \in RunRec
    BY DEF TypeOK, RunRec
  <2>3. run' \in [Runs -> RunRec]
    BY <1>13, <2>2 DEF DisconnectClear, TypeOK
  <2> QED
    BY <1>13, <2>1, <2>3, ConstantsAssumption, ReturnType
    DEF DisconnectClear, TypeOK, pahoVars
<1>14. ASSUME crash = "none", ConnectClose
      PROVE  TypeOK'
  BY <1>14, ConstantsAssumption, GotoType, PahoDisconnectType
  DEF ConnectClose, TypeOK, shared, CallSteps
<1>15. ASSUME crash = "none", ConnectNew
      PROVE  TypeOK'
  <2>1. retry' \in RetryRec
    BY <1>15 DEF ConnectNew, RetryRec, MaxDelay
  <2> QED
    BY <1>15, <2>1, ConstantsAssumption, GotoType
    DEF ConnectNew, TypeOK, CallSteps, Statuses
<1>16. ASSUME crash = "none", ConnectSucceeds
      PROVE  TypeOK'
  <2>1. retry' \in RetryRec
    BY <1>16 DEF ConnectSucceeds, NoRetry, RetryRec, MaxDelay
  <2> QED
    BY <1>16, <2>1, ConstantsAssumption, ReturnType, SpawnType
    DEF ConnectSucceeds, TypeOK, Statuses, shared
<1>17. ASSUME crash = "none", ConnectFails
      PROVE  TypeOK'
  <2>1. retry' \in RetryRec
    BY <1>17 DEF ConnectFails, NoRetry, RetryRec, MaxDelay, TypeOK
  <2> QED
    BY <1>17, <2>1, ConstantsAssumption, ReturnType
    DEF ConnectFails, TypeOK, shared, pahoVars
<1>18. ASSUME NEW r \in Runs, crash = "none", ResubscribeLock(r)
      PROVE  TypeOK'
  <2>1. [run[r] EXCEPT !.at = "range",
                       !.todo = {t \in Topics : subscriptions[t] # Absent}] \in RunRec
    BY ZenonT(60) DEF TypeOK, RunRec, RunSteps
  <2> QED
    BY <1>18, <2>1 DEF ResubscribeLock, Lock, TypeOK, pahoVars
<1>19. ASSUME NEW r \in Runs, crash = "none", ResubscribeNext(r)
      PROVE  TypeOK'
  <2>1. PICK t \in run[r].todo :
          /\ run' = [run EXCEPT ![r] = [@ EXCEPT
               !.at = "subscribe", !.todo = run[r].todo \ {t}, !.topic = t,
               !.sub = IF run[r].old = Live
                       THEN subscriptions[t] ELSE run[r].old[t]]]
          /\ PahoUnsubscribe(t)
    BY <1>19 DEF ResubscribeNext
  <2>2. t \in Topics
    BY DEF TypeOK, RunRec
  <2> DEFINE e == IF run[r].old = Live THEN subscriptions[t] ELSE run[r].old[t]
  <2>3. e \in Entry
    BY <2>2 DEF TypeOK, RunRec, SubMap
  <2> HIDE DEF e
  <2>4. [run[r] EXCEPT !.at = "subscribe", !.todo = @ \ {t}, !.topic = t,
                       !.sub = e] \in RunRec
    BY ZenonT(60), <2>2, <2>3 DEF TypeOK, RunRec, RunSteps
  <2>5. run' \in [Runs -> RunRec]
    BY <2>1, <2>4 DEF TypeOK, e
  <2> QED
    BY <1>19, <2>1, <2>2, <2>5, PahoUnsubscribeType
    DEF ResubscribeNext, TypeOK, shared
<1>20. ASSUME NEW r \in Runs, crash = "none", ResubscribeTopic(r)
      PROVE  TypeOK'
  <2>1. run[r].topic \in Topics /\ Shared(r) \in Route
    BY <1>20 DEF ResubscribeTopic, RunsOK, Route
  <2>2. [run[r] EXCEPT !.at = "range", !.topic = NoTopic] \in RunRec
    BY ZenonT(60) DEF TypeOK, RunRec, RunSteps
  <2> QED
    BY <1>20, <2>1, <2>2, PahoSubscribeType DEF ResubscribeTopic, TypeOK, shared
<1>21. ASSUME NEW r \in Runs, crash = "none", ResubscribeEnd(r)
      PROVE  TypeOK'
  <2>1. [run[r] EXCEPT !.at = "done", !.old = Live] \in RunRec
    BY ZenonT(60) DEF TypeOK, RunRec, RunSteps
  <2> QED
    BY <1>21, <2>1 DEF ResubscribeEnd, Unlock, TypeOK, pahoVars
<1>22. ASSUME NEW c \in Clients, crash = "none", ConnectionLost(c)
      PROVE  TypeOK'
  BY <1>22 DEF ConnectionLost, TypeOK, shared, Statuses
<1>23. ASSUME NEW c \in Clients, crash = "none", Reconnect(c)
      PROVE  TypeOK'
  BY <1>23, SpawnType DEF Reconnect, TypeOK, shared, Statuses
<1>24. ASSUME NEW c \in Clients, NEW t \in Topics, crash = "none", DispatchNil(c, t)
      PROVE  TypeOK'
  BY <1>24 DEF DispatchNil, TypeOK, shared, pahoVars, Crash, Crashes
<1>25. ASSUME crash = "none", NilClient
      PROVE  TypeOK'
  BY <1>25 DEF NilClient, TypeOK, shared, pahoVars, Crash, Crashes
<1>26. ASSUME crash = "none", MapRace
      PROVE  TypeOK'
  BY <1>26 DEF MapRace, TypeOK, shared, pahoVars, Crash, Crashes
<1> QED
  BY <1>1, <1>2, <1>3, <1>4, <1>5, <1>6, <1>7, <1>8, <1>9, <1>10, <1>11, <1>12,
     <1>13, <1>14, <1>15, <1>16, <1>17, <1>18, <1>19, <1>20, <1>21, <1>22, <1>23,
     <1>24, <1>25, <1>26
  DEF Next, SubscribeStep, UnsubscribeStep, DisconnectStep, ConnectStep,
      ResubscribeStep

\* Every step keeps the arguments of the calls under way as their functions need
\* them: a topic, a handler, the right to connect (MqttClient.go:67-375).
LEMMA CallsStep ==
  ASSUME TypeOK, CallsOK, [Next]_vars
  PROVE  CallsOK'
<1>1. CASE UNCHANGED vars
  BY <1>1 DEF vars, CallsOK
<1>2. ASSUME NEW p \in Callers, crash = "none", Call(p)
      PROVE  CallsOK'
  BY <1>2 DEF Call, Start, CallsOK, TypeOK
<1>3. ASSUME NEW p \in Callers, crash = "none", SubscribeLock(p)
      PROVE  CallsOK'
  BY <1>3 DEF SubscribeLock, Goto, CallsOK
<1>4. ASSUME NEW p \in Callers, crash = "none", SubscribePaho(p)
      PROVE  CallsOK'
  BY <1>4 DEF SubscribePaho, Goto, CallsOK
<1>5. ASSUME NEW p \in Callers, crash = "none", SubscribeStore(p)
      PROVE  CallsOK'
  BY <1>5 DEF SubscribeStore, Return, Idle, CallsOK
<1>6. ASSUME NEW p \in Callers, crash = "none", UnsubscribeLookup(p)
      PROVE  CallsOK'
  BY SMTT(30), <1>6, ConstantsAssumption
  DEF UnsubscribeLookup, Goto, Return, Idle, shared, pahoVars, CallsOK, TypeOK,
      CallRec
<1>7. ASSUME NEW p \in Callers, crash = "none", UnsubscribePaho(p)
      PROVE  CallsOK'
  BY <1>7 DEF UnsubscribePaho, Goto, CallsOK
<1>8. ASSUME NEW p \in Callers, crash = "none", UnsubscribeStore(p)
      PROVE  CallsOK'
  BY <1>8 DEF UnsubscribeStore, Return, Idle, CallsOK
<1>9. ASSUME NEW p \in Callers, crash = "none", PublishSend(p)
      PROVE  CallsOK'
  BY <1>9 DEF PublishSend, Return, Idle, CallsOK
<1>10. ASSUME crash = "none", DisconnectLock
      PROVE  CallsOK'
  BY <1>10 DEF DisconnectLock, Goto, Return, Idle, CallsOK, TypeOK, CallRec
<1>11. ASSUME crash = "none", DisconnectPaho
      PROVE  CallsOK'
  BY <1>11 DEF DisconnectPaho, Goto, CallsOK
<1>12. ASSUME crash = "none", DisconnectNil
      PROVE  CallsOK'
  BY <1>12 DEF DisconnectNil, Goto, CallsOK
<1>13. ASSUME crash = "none", DisconnectClear
      PROVE  CallsOK'
  BY <1>13 DEF DisconnectClear, Return, Idle, CallsOK
<1>14. ASSUME crash = "none", ConnectClose
      PROVE  CallsOK'
  BY <1>14 DEF ConnectClose, Goto, CallsOK
<1>15. ASSUME crash = "none", ConnectNew
      PROVE  CallsOK'
  BY <1>15 DEF ConnectNew, Goto, CallsOK
<1>16. ASSUME crash = "none", ConnectSucceeds
      PROVE  CallsOK'
  BY <1>16 DEF ConnectSucceeds, Return, Idle, CallsOK
<1>17. ASSUME crash = "none", ConnectFails
      PROVE  CallsOK'
  BY <1>17 DEF ConnectFails, Return, Idle, CallsOK, TypeOK
<1>18. ASSUME NEW r \in Runs, crash = "none", ResubscribeLock(r)
      PROVE  CallsOK'
  BY <1>18 DEF ResubscribeLock, CallsOK
<1>19. ASSUME NEW r \in Runs, crash = "none", ResubscribeNext(r)
      PROVE  CallsOK'
  BY <1>19 DEF ResubscribeNext, CallsOK
<1>20. ASSUME NEW r \in Runs, crash = "none", ResubscribeTopic(r)
      PROVE  CallsOK'
  BY <1>20 DEF ResubscribeTopic, CallsOK
<1>21. ASSUME NEW r \in Runs, crash = "none", ResubscribeEnd(r)
      PROVE  CallsOK'
  BY <1>21 DEF ResubscribeEnd, CallsOK
<1>22. ASSUME NEW c \in Clients, crash = "none", ConnectionLost(c)
      PROVE  CallsOK'
  BY <1>22 DEF ConnectionLost, CallsOK
<1>23. ASSUME NEW c \in Clients, crash = "none", Reconnect(c)
      PROVE  CallsOK'
  BY <1>23 DEF Reconnect, CallsOK
<1>24. ASSUME NEW c \in Clients, NEW t \in Topics, crash = "none", DispatchNil(c, t)
      PROVE  CallsOK'
  BY <1>24 DEF DispatchNil, Crash, CallsOK
<1>25. ASSUME crash = "none", NilClient
      PROVE  CallsOK'
  BY <1>25 DEF NilClient, Crash, CallsOK
<1>26. ASSUME crash = "none", MapRace
      PROVE  CallsOK'
  BY <1>26 DEF MapRace, Crash, CallsOK
<1> QED
  BY <1>1, <1>2, <1>3, <1>4, <1>5, <1>6, <1>7, <1>8, <1>9, <1>10, <1>11, <1>12,
     <1>13, <1>14, <1>15, <1>16, <1>17, <1>18, <1>19, <1>20, <1>21, <1>22, <1>23,
     <1>24, <1>25, <1>26
  DEF Next, SubscribeStep, UnsubscribeStep, DisconnectStep, ConnectStep,
      ResubscribeStep

\* Every step keeps a resubscribe on the live map unless it is under way, and its
\* loop variable set while it subscribes (MqttClient.go:288-303, 221).
LEMMA RunsStep ==
  ASSUME TypeOK, RunsOK, [Next]_vars
  PROVE  RunsOK'
<1>1. CASE UNCHANGED vars
  BY <1>1 DEF vars, RunsOK
<1>2. ASSUME NEW p \in Callers, crash = "none", Call(p)
      PROVE  RunsOK'
  BY <1>2 DEF Call, RunsOK
<1>3. ASSUME NEW p \in Callers, crash = "none", SubscribeLock(p)
      PROVE  RunsOK'
  BY <1>3 DEF SubscribeLock, RunsOK
<1>4. ASSUME NEW p \in Callers, crash = "none", SubscribePaho(p)
      PROVE  RunsOK'
  BY <1>4 DEF SubscribePaho, RunsOK
<1>5. ASSUME NEW p \in Callers, crash = "none", SubscribeStore(p)
      PROVE  RunsOK'
  BY <1>5 DEF SubscribeStore, RunsOK
<1>6. ASSUME NEW p \in Callers, crash = "none", UnsubscribeLookup(p)
      PROVE  RunsOK'
  BY <1>6 DEF UnsubscribeLookup, RunsOK
<1>7. ASSUME NEW p \in Callers, crash = "none", UnsubscribePaho(p)
      PROVE  RunsOK'
  BY <1>7 DEF UnsubscribePaho, RunsOK
<1>8. ASSUME NEW p \in Callers, crash = "none", UnsubscribeStore(p)
      PROVE  RunsOK'
  BY <1>8 DEF UnsubscribeStore, RunsOK
<1>9. ASSUME NEW p \in Callers, crash = "none", PublishSend(p)
      PROVE  RunsOK'
  BY <1>9 DEF PublishSend, RunsOK
<1>10. ASSUME crash = "none", DisconnectLock
      PROVE  RunsOK'
  BY <1>10 DEF DisconnectLock, RunsOK
<1>11. ASSUME crash = "none", DisconnectPaho
      PROVE  RunsOK'
  BY <1>11 DEF DisconnectPaho, RunsOK
<1>12. ASSUME crash = "none", DisconnectNil
      PROVE  RunsOK'
  BY <1>12 DEF DisconnectNil, RunsOK
<1>13. ASSUME crash = "none", DisconnectClear
      PROVE  RunsOK'
  BY <1>13 DEF DisconnectClear, RunsOK
<1>14. ASSUME crash = "none", ConnectClose
      PROVE  RunsOK'
  BY <1>14 DEF ConnectClose, RunsOK
<1>15. ASSUME crash = "none", ConnectNew
      PROVE  RunsOK'
  BY <1>15 DEF ConnectNew, RunsOK
<1>16. ASSUME crash = "none", ConnectSucceeds
      PROVE  RunsOK'
  BY <1>16 DEF ConnectSucceeds, SpawnResubscribe, RunsOK
<1>17. ASSUME crash = "none", ConnectFails
      PROVE  RunsOK'
  BY <1>17 DEF ConnectFails, RunsOK
<1>18. ASSUME NEW r \in Runs, crash = "none", ResubscribeLock(r)
      PROVE  RunsOK'
  BY <1>18 DEF ResubscribeLock, RunsOK, TypeOK
<1>19. ASSUME NEW r \in Runs, crash = "none", ResubscribeNext(r)
      PROVE  RunsOK'
  BY <1>19 DEF ResubscribeNext, RunsOK, TypeOK, RunRec
<1>20. ASSUME NEW r \in Runs, crash = "none", ResubscribeTopic(r)
      PROVE  RunsOK'
  BY <1>20, ConstantsAssumption DEF ResubscribeTopic, RunsOK, TypeOK
<1>21. ASSUME NEW r \in Runs, crash = "none", ResubscribeEnd(r)
      PROVE  RunsOK'
  BY <1>21 DEF ResubscribeEnd, RunsOK, TypeOK
<1>22. ASSUME NEW c \in Clients, crash = "none", ConnectionLost(c)
      PROVE  RunsOK'
  BY <1>22 DEF ConnectionLost, RunsOK
<1>23. ASSUME NEW c \in Clients, crash = "none", Reconnect(c)
      PROVE  RunsOK'
  BY <1>23 DEF Reconnect, SpawnResubscribe, RunsOK
<1>24. ASSUME NEW c \in Clients, NEW t \in Topics, crash = "none", DispatchNil(c, t)
      PROVE  RunsOK'
  BY <1>24 DEF DispatchNil, Crash, RunsOK
<1>25. ASSUME crash = "none", NilClient
      PROVE  RunsOK'
  BY <1>25 DEF NilClient, Crash, RunsOK
<1>26. ASSUME crash = "none", MapRace
      PROVE  RunsOK'
  BY <1>26 DEF MapRace, Crash, RunsOK
<1> QED
  BY <1>1, <1>2, <1>3, <1>4, <1>5, <1>6, <1>7, <1>8, <1>9, <1>10, <1>11, <1>12,
     <1>13, <1>14, <1>15, <1>16, <1>17, <1>18, <1>19, <1>20, <1>21, <1>22, <1>23,
     <1>24, <1>25, <1>26
  DEF Next, SubscribeStep, UnsubscribeStep, DisconnectStep, ConnectStep,
      ResubscribeStep

\* In every step the caller that disconnects and connects knows whether there is a
\* client: nobody else sets pahoClient (MqttClient.go:145, 219).
LEMMA OwnerStep ==
  ASSUME TypeOK, CallsOK, OwnerOK, [Next]_vars
  PROVE  OwnerOK'
<1>1. CASE UNCHANGED vars
  BY <1>1 DEF vars, OwnerOK
<1>2. ASSUME NEW p \in Callers, crash = "none", Call(p)
      PROVE  OwnerOK'
  BY <1>2, ConstantsAssumption DEF Call, Start, Connected, shared, OwnerOK, TypeOK
<1>3. ASSUME NEW p \in Callers, crash = "none", SubscribeLock(p)
      PROVE  OwnerOK'
  BY <1>3 DEF SubscribeLock, Goto, OwnerOK
<1>4. ASSUME NEW p \in Callers, crash = "none", SubscribePaho(p)
      PROVE  OwnerOK'
  BY <1>4 DEF SubscribePaho, Goto, shared, OwnerOK
<1>5. ASSUME NEW p \in Callers, crash = "none", SubscribeStore(p)
      PROVE  OwnerOK'
  BY <1>5 DEF SubscribeStore, Return, Idle, OwnerOK
<1>6. ASSUME NEW p \in Callers, crash = "none", UnsubscribeLookup(p)
      PROVE  OwnerOK'
  <2>1. CASE Return(p)
    BY <1>6, <2>1, ConstantsAssumption
    DEF UnsubscribeLookup, Return, Idle, OwnerOK, CallsOK, TypeOK, CallRec, shared
  <2>2. CASE Goto(p, "unsubPaho") /\ pahoClient # NoClient
    BY <1>6, <2>2, ConstantsAssumption
    DEF UnsubscribeLookup, Goto, OwnerOK, CallsOK, TypeOK, CallRec, shared
  <2> QED
    BY <1>6, <2>1, <2>2 DEF UnsubscribeLookup
<1>7. ASSUME NEW p \in Callers, crash = "none", UnsubscribePaho(p)
      PROVE  OwnerOK'
  BY <1>7 DEF UnsubscribePaho, Goto, shared, OwnerOK
<1>8. ASSUME NEW p \in Callers, crash = "none", UnsubscribeStore(p)
      PROVE  OwnerOK'
  BY <1>8 DEF UnsubscribeStore, Return, Idle, OwnerOK
<1>9. ASSUME NEW p \in Callers, crash = "none", PublishSend(p)
      PROVE  OwnerOK'
  BY <1>9 DEF PublishSend, Return, Idle, shared, OwnerOK
<1>10. ASSUME crash = "none", DisconnectLock
      PROVE  OwnerOK'
  BY <1>10 DEF DisconnectLock, Goto, Return, Idle, shared, OwnerOK, TypeOK, CallRec
<1>11. ASSUME crash = "none", DisconnectPaho
      PROVE  OwnerOK'
  BY <1>11 DEF DisconnectPaho, Goto, shared, OwnerOK
<1>12. ASSUME crash = "none", DisconnectNil
      PROVE  OwnerOK'
  BY <1>12, ConstantsAssumption DEF DisconnectNil, Goto, OwnerOK, TypeOK
<1>13. ASSUME crash = "none", DisconnectClear
      PROVE  OwnerOK'
  BY <1>13 DEF DisconnectClear, Return, Idle, OwnerOK
<1>14. ASSUME crash = "none", ConnectClose
      PROVE  OwnerOK'
  BY <1>14 DEF ConnectClose, Goto, shared, OwnerOK
<1>15. ASSUME crash = "none", ConnectNew
      PROVE  OwnerOK'
  BY <1>15, ConstantsAssumption DEF ConnectNew, Goto, OwnerOK
<1>16. ASSUME crash = "none", ConnectSucceeds
      PROVE  OwnerOK'
  BY <1>16 DEF ConnectSucceeds, Return, Idle, shared, OwnerOK
<1>17. ASSUME crash = "none", ConnectFails
      PROVE  OwnerOK'
  BY <1>17 DEF ConnectFails, Return, Idle, shared, OwnerOK, TypeOK
<1>18. ASSUME NEW r \in Runs, crash = "none", ResubscribeLock(r)
      PROVE  OwnerOK'
  BY <1>18 DEF ResubscribeLock, OwnerOK
<1>19. ASSUME NEW r \in Runs, crash = "none", ResubscribeNext(r)
      PROVE  OwnerOK'
  BY <1>19 DEF ResubscribeNext, shared, OwnerOK
<1>20. ASSUME NEW r \in Runs, crash = "none", ResubscribeTopic(r)
      PROVE  OwnerOK'
  BY <1>20 DEF ResubscribeTopic, shared, OwnerOK
<1>21. ASSUME NEW r \in Runs, crash = "none", ResubscribeEnd(r)
      PROVE  OwnerOK'
  BY <1>21 DEF ResubscribeEnd, OwnerOK
<1>22. ASSUME NEW c \in Clients, crash = "none", ConnectionLost(c)
      PROVE  OwnerOK'
  BY <1>22 DEF ConnectionLost, shared, OwnerOK
<1>23. ASSUME NEW c \in Clients, crash = "none", Reconnect(c)
      PROVE  OwnerOK'
  BY <1>23 DEF Reconnect, shared, OwnerOK
<1>24. ASSUME NEW c \in Clients, NEW t \in Topics, crash = "none", DispatchNil(c, t)
      PROVE  OwnerOK'
  BY <1>24 DEF DispatchNil, Crash, shared, OwnerOK
<1>25. ASSUME crash = "none", NilClient
      PROVE  OwnerOK'
  BY <1>25 DEF NilClient, Crash, shared, OwnerOK
<1>26. ASSUME crash = "none", MapRace
      PROVE  OwnerOK'
  BY <1>26 DEF MapRace, Crash, shared, OwnerOK
<1> QED
  BY <1>1, <1>2, <1>3, <1>4, <1>5, <1>6, <1>7, <1>8, <1>9, <1>10, <1>11, <1>12,
     <1>13, <1>14, <1>15, <1>16, <1>17, <1>18, <1>19, <1>20, <1>21, <1>22, <1>23,
     <1>24, <1>25, <1>26
  DEF Next, SubscribeStep, UnsubscribeStep, DisconnectStep, ConnectStep,
      ResubscribeStep

\* Every step keeps updateMutex with the goroutine in the critical section: Subscribe
\* and resubscribe wait for it and release it (MqttClient.go:284-285, 336-337).
LEMMA LockStep ==
  ASSUME TypeOK, LockDiscipline, [Next]_vars
  PROVE  LockDiscipline'
<1>1. CASE UNCHANGED vars
  BY <1>1 DEF vars, LockDiscipline
<1>2. ASSUME NEW p \in Callers, crash = "none", Call(p)
      PROVE  LockDiscipline'
  BY <1>2 DEF Call, Start, Connected, shared, LockDiscipline, TypeOK
<1>3. ASSUME NEW p \in Callers, crash = "none", SubscribeLock(p)
      PROVE  LockDiscipline'
  BY <1>3, ConstantsAssumption DEF SubscribeLock, Goto, Lock, LockDiscipline, TypeOK
<1>4. ASSUME NEW p \in Callers, crash = "none", SubscribePaho(p)
      PROVE  LockDiscipline'
  BY <1>4 DEF SubscribePaho, Goto, shared, LockDiscipline
<1>5. ASSUME NEW p \in Callers, crash = "none", SubscribeStore(p)
      PROVE  LockDiscipline'
  BY <1>5, ConstantsAssumption
  DEF SubscribeStore, Unlock, Return, Idle, LockDiscipline, TypeOK
<1>6. ASSUME NEW p \in Callers, crash = "none", UnsubscribeLookup(p)
      PROVE  LockDiscipline'
  <2>1. CASE Return(p)
    BY <1>6, <2>1, ConstantsAssumption
    DEF UnsubscribeLookup, Return, Idle, LockDiscipline, TypeOK, CallRec, shared
  <2>2. CASE Goto(p, "unsubPaho") /\ pahoClient # NoClient
    BY <1>6, <2>2, ConstantsAssumption
    DEF UnsubscribeLookup, Goto, LockDiscipline, TypeOK, CallRec, shared
  <2> QED
    BY <1>6, <2>1, <2>2 DEF UnsubscribeLookup
<1>7. ASSUME NEW p \in Callers, crash = "none", UnsubscribePaho(p)
      PROVE  LockDiscipline'
  BY <1>7 DEF UnsubscribePaho, Goto, shared, LockDiscipline
<1>8. ASSUME NEW p \in Callers, crash = "none", UnsubscribeStore(p)
      PROVE  LockDiscipline'
  BY <1>8 DEF UnsubscribeStore, Return, Idle, LockDiscipline
<1>9. ASSUME NEW p \in Callers, crash = "none", PublishSend(p)
      PROVE  LockDiscipline'
  BY <1>9 DEF PublishSend, Return, Idle, shared, LockDiscipline
<1>10. ASSUME crash = "none", DisconnectLock
      PROVE  LockDiscipline'
  <2>1. CASE Return(Owner)
    BY <1>10, <2>1, ConstantsAssumption
    DEF DisconnectLock, Return, Idle, LockDiscipline, TypeOK, CallRec, shared
  <2>2. CASE Goto(Owner, "disPaho") /\ pahoClient # NoClient
    BY <1>10, <2>2, ConstantsAssumption
    DEF DisconnectLock, Goto, LockDiscipline, TypeOK, CallRec, shared
  <2> QED
    BY <1>10, <2>1, <2>2 DEF DisconnectLock
<1>11. ASSUME crash = "none", DisconnectPaho
      PROVE  LockDiscipline'
  BY <1>11 DEF DisconnectPaho, Goto, shared, LockDiscipline
<1>12. ASSUME crash = "none", DisconnectNil
      PROVE  LockDiscipline'
  BY <1>12 DEF DisconnectNil, Goto, LockDiscipline
<1>13. ASSUME crash = "none", DisconnectClear
      PROVE  LockDiscipline'
  BY <1>13 DEF DisconnectClear, Return, Idle, LockDiscipline
<1>14. ASSUME crash = "none", ConnectClose
      PROVE  LockDiscipline'
  BY <1>14 DEF ConnectClose, Goto, shared, LockDiscipline
<1>15. ASSUME crash = "none", ConnectNew
      PROVE  LockDiscipline'
  BY <1>15 DEF ConnectNew, Goto, LockDiscipline
<1>16. ASSUME crash = "none", ConnectSucceeds
      PROVE  LockDiscipline'
  BY <1>16
  DEF ConnectSucceeds, Return, Idle, SpawnResubscribe, shared, LockDiscipline
<1>17. ASSUME crash = "none", ConnectFails
      PROVE  LockDiscipline'
  BY <1>17 DEF ConnectFails, Return, Idle, shared, LockDiscipline, TypeOK, RunRec
<1>18. ASSUME NEW r \in Runs, crash = "none", ResubscribeLock(r)
      PROVE  LockDiscipline'
  BY <1>18, ConstantsAssumption DEF ResubscribeLock, Lock, LockDiscipline, TypeOK
<1>19. ASSUME NEW r \in Runs, crash = "none", ResubscribeNext(r)
      PROVE  LockDiscipline'
  BY <1>19 DEF ResubscribeNext, shared, LockDiscipline, TypeOK
<1>20. ASSUME NEW r \in Runs, crash = "none", ResubscribeTopic(r)
      PROVE  LockDiscipline'
  BY <1>20 DEF ResubscribeTopic, shared, LockDiscipline, TypeOK
<1>21. ASSUME NEW r \in Runs, crash = "none", ResubscribeEnd(r)
      PROVE  LockDiscipline'
  BY <1>21, ConstantsAssumption DEF ResubscribeEnd, Unlock, LockDiscipline, TypeOK
<1>22. ASSUME NEW c \in Clients, crash = "none", ConnectionLost(c)
      PROVE  LockDiscipline'
  BY <1>22 DEF ConnectionLost, shared, LockDiscipline
<1>23. ASSUME NEW c \in Clients, crash = "none", Reconnect(c)
      PROVE  LockDiscipline'
  BY <1>23 DEF Reconnect, SpawnResubscribe, shared, LockDiscipline
<1>24. ASSUME NEW c \in Clients, NEW t \in Topics, crash = "none", DispatchNil(c, t)
      PROVE  LockDiscipline'
  BY <1>24 DEF DispatchNil, Crash, shared, LockDiscipline
<1>25. ASSUME crash = "none", NilClient
      PROVE  LockDiscipline'
  BY <1>25 DEF NilClient, Crash, shared, LockDiscipline
<1>26. ASSUME crash = "none", MapRace
      PROVE  LockDiscipline'
  BY <1>26 DEF MapRace, Crash, shared, LockDiscipline
<1> QED
  BY <1>1, <1>2, <1>3, <1>4, <1>5, <1>6, <1>7, <1>8, <1>9, <1>10, <1>11, <1>12,
     <1>13, <1>14, <1>15, <1>16, <1>17, <1>18, <1>19, <1>20, <1>21, <1>22, <1>23,
     <1>24, <1>25, <1>26
  DEF Next, SubscribeStep, UnsubscribeStep, DisconnectStep, ConnectStep,
      ResubscribeStep

-----------------------------------------------------------------------------
\* What resubscribe does to entry t of the map before it subscribes it again
\* (MqttClient.go:289-292): the loop variables are set and the old route goes.
ResubscribeEntry(r, t) ==
  /\ t \in Topics
  /\ run[r].at = "range" /\ run'[r].at = "subscribe"
  /\ run'[r].todo = run[r].todo \ {t} /\ run'[r].topic = t
  /\ run'[r].sub = IF run[r].old = Live THEN subscriptions[t] ELSE run[r].old[t]
  /\ run'[r].old = run[r].old
  /\ \A q \in Runs \ {r} : run'[q] = run[q]
  /\ pahoClient \in Clients
  /\ \A u \in Topics \ {t} :
       /\ router'[pahoClient][u] = router[pahoClient][u]
       /\ u \in broker'[pahoClient] <=> u \in broker[pahoClient]

\* An iteration of resubscribe is such a step for an entry it still has to visit.
LEMMA ResubscribeNextForm ==
  ASSUME TypeOK, NEW r \in Runs, ResubscribeNext(r)
  PROVE  \E t \in run[r].todo : ResubscribeEntry(r, t)
<1>1. PICK t \in run[r].todo :
        /\ run' = [run EXCEPT ![r] = [@ EXCEPT
             !.at = "subscribe", !.todo = run[r].todo \ {t}, !.topic = t,
             !.sub = IF run[r].old = Live
                     THEN subscriptions[t] ELSE run[r].old[t]]]
        /\ PahoUnsubscribe(t)
  BY DEF ResubscribeNext
<1>2. t \in Topics /\ run \in [Runs -> RunRec] /\ pahoClient \in Clients
  BY <1>1 DEF TypeOK, RunRec, PahoUnsubscribe
<1>3. /\ run'[r].at = "subscribe"
      /\ run'[r].todo = run[r].todo \ {t} /\ run'[r].topic = t
      /\ run'[r].sub = IF run[r].old = Live THEN subscriptions[t] ELSE run[r].old[t]
      /\ run'[r].old = run[r].old
      /\ \A q \in Runs \ {r} : run'[q] = run[q]
  BY <1>1, <1>2 DEF RunRec
<1>4. \A u \in Topics \ {t} :
        /\ router'[pahoClient][u] = router[pahoClient][u]
        /\ u \in broker'[pahoClient] <=> u \in broker[pahoClient]
  BY <1>1, <1>2 DEF PahoUnsubscribe, TypeOK
<1> QED
  BY <1>1, <1>2, <1>3, <1>4 DEF ResubscribeEntry, ResubscribeNext

\* Only Unsubscribe makes a nil entry (MqttClient.go:373), so where it is not used no
\* step does, in the map or in a loop variable.
LEMMA NoNilSubStep ==
  ASSUME TypeOK, CallsOK, NoNilSub, [Next]_vars
  PROVE  NoNilSub'
<1>1. CASE UNCHANGED vars
  BY <1>1 DEF vars, NoNilSub
<1>2. ASSUME NEW p \in Callers, crash = "none", Call(p)
      PROVE  NoNilSub'
  BY <1>2 DEF Call, shared, NoNilSub
<1>3. ASSUME NEW p \in Callers, crash = "none", SubscribeLock(p)
      PROVE  NoNilSub'
  BY <1>3 DEF SubscribeLock, NoNilSub
<1>4. ASSUME NEW p \in Callers, crash = "none", SubscribePaho(p)
      PROVE  NoNilSub'
  BY <1>4 DEF SubscribePaho, shared, NoNilSub
<1>5. ASSUME NEW p \in Callers, crash = "none", SubscribeStore(p)
      PROVE  NoNilSub'
  BY <1>5, ConstantsAssumption DEF SubscribeStore, NoNilSub, CallsOK
<1>6. ASSUME NEW p \in Callers, crash = "none", UnsubscribeLookup(p)
      PROVE  NoNilSub'
  BY <1>6 DEF UnsubscribeLookup, shared, NoNilSub
<1>7. ASSUME NEW p \in Callers, crash = "none", UnsubscribePaho(p)
      PROVE  NoNilSub'
  BY <1>7 DEF UnsubscribePaho, shared, NoNilSub
<1>8. ASSUME NEW p \in Callers, crash = "none", UnsubscribeStore(p)
      PROVE  NoNilSub'
  BY <1>8 DEF UnsubscribeStore, NoNilSub, CallsOK
<1>9. ASSUME NEW p \in Callers, crash = "none", PublishSend(p)
      PROVE  NoNilSub'
  BY <1>9 DEF PublishSend, shared, NoNilSub
<1>10. ASSUME crash = "none", DisconnectLock
      PROVE  NoNilSub'
  BY <1>10 DEF DisconnectLock, shared, NoNilSub
<1>11. ASSUME crash = "none", DisconnectPaho
      PROVE  NoNilSub'
  BY <1>11 DEF DisconnectPaho, shared, NoNilSub
<1>12. ASSUME crash = "none", DisconnectNil
      PROVE  NoNilSub'
  BY <1>12 DEF DisconnectNil, NoNilSub
<1>13. ASSUME crash = "none", DisconnectClear
      PROVE  NoNilSub'
  BY <1>13, ConstantsAssumption DEF DisconnectClear, EmptyMap, NoNilSub
<1>14. ASSUME crash = "none", ConnectClose
      PROVE  NoNilSub'
  BY <1>14 DEF ConnectClose, shared, NoNilSub
<1>15. ASSUME crash = "none", ConnectNew
      PROVE  NoNilSub'
  BY <1>15 DEF ConnectNew, NoNilSub
<1>16. ASSUME crash = "none", ConnectSucceeds
      PROVE  NoNilSub'
  BY <1>16 DEF ConnectSucceeds, SpawnResubscribe, shared, NoNilSub
<1>17. ASSUME crash = "none", ConnectFails
      PROVE  NoNilSub'
  BY <1>17 DEF ConnectFails, shared, NoNilSub
<1>18. ASSUME NEW r \in Runs, crash = "none", ResubscribeLock(r)
      PROVE  NoNilSub'
  BY <1>18 DEF ResubscribeLock, NoNilSub, TypeOK
<1>19. ASSUME NEW r \in Runs, crash = "none", ResubscribeNext(r)
      PROVE  NoNilSub'
  <2>1. PICK t \in run[r].todo : ResubscribeEntry(r, t)
    BY <1>19, ResubscribeNextForm
  <2>2. /\ t \in Topics
        /\ run'[r].sub = IF run[r].old = Live THEN subscriptions[t] ELSE run[r].old[t]
        /\ run'[r].old = run[r].old
        /\ \A q \in Runs \ {r} : run'[q] = run[q]
    BY <2>1 DEF ResubscribeEntry
  <2>3. subscriptions' = subscriptions
    BY <1>19 DEF ResubscribeNext, shared
  <2> QED
    BY <2>2, <2>3 DEF NoNilSub
<1>20. ASSUME NEW r \in Runs, crash = "none", ResubscribeTopic(r)
      PROVE  NoNilSub'
  BY <1>20 DEF ResubscribeTopic, shared, NoNilSub, TypeOK
<1>21. ASSUME NEW r \in Runs, crash = "none", ResubscribeEnd(r)
      PROVE  NoNilSub'
  BY <1>21 DEF ResubscribeEnd, NoNilSub, TypeOK
<1>22. ASSUME NEW c \in Clients, crash = "none", ConnectionLost(c)
      PROVE  NoNilSub'
  BY <1>22 DEF ConnectionLost, shared, NoNilSub
<1>23. ASSUME NEW c \in Clients, crash = "none", Reconnect(c)
      PROVE  NoNilSub'
  BY <1>23 DEF Reconnect, SpawnResubscribe, shared, NoNilSub
<1>24. ASSUME NEW c \in Clients, NEW t \in Topics, crash = "none", DispatchNil(c, t)
      PROVE  NoNilSub'
  BY <1>24 DEF DispatchNil, Crash, shared, NoNilSub
<1>25. ASSUME crash = "none", NilClient
      PROVE  NoNilSub'
  BY <1>25 DEF NilClient, Crash, shared, NoNilSub
<1>26. ASSUME crash = "none", MapRace
      PROVE  NoNilSub'
  BY <1>26 DEF MapRace, Crash, shared, NoNilSub
<1> QED
  BY <1>1, <1>2, <1>3, <1>4, <1>5, <1>6, <1>7, <1>8, <1>9, <1>10, <1>11, <1>12,
     <1>13, <1>14, <1>15, <1>16, <1>17, <1>18, <1>19, <1>20, <1>21, <1>22, <1>23,
     <1>24, <1>25, <1>26
  DEF Next, SubscribeStep, UnsubscribeStep, DisconnectStep, ConnectStep,
      ResubscribeStep

\* Every step that ends the process does so for one of the known causes, and no step
\* follows it.
LEMMA CrashStep ==
  ASSUME TypeOK, LockDiscipline, CallsOK, OwnerOK, NoNilSub, CrashCause, [Next]_vars
  PROVE  CrashCause'
<1>1. CASE UNCHANGED vars
  BY <1>1 DEF vars, CrashCause
<1>2. CASE crash' = "none"
  BY <1>2 DEF CrashCause
<1>3. ASSUME NEW c \in Clients, NEW t \in Topics, DispatchNil(c, t)
      PROVE  CrashCause'
  <2>1. ASSUME Unsubscribers = {}
        PROVE  FALSE
    BY <1>3, <2>1, ConstantsAssumption
    DEF DispatchNil, Routed, NoNilSub, TypeOK, Route, NoRoute, Direct, Shared
  <2> QED
    BY <1>3, <2>1 DEF DispatchNil, Crash, CrashCause
<1>4. ASSUME NilClient
      PROVE  CrashCause'
  <2>1. CASE \E p \in Callers : call[p].at \in {"subPaho", "unsubPaho", "pubSend"}
    BY <1>4, <2>1 DEF NilClient, Crash, shared, OwnerOK, CrashCause
  <2>2. CASE \E r \in Runs : run[r].at \in {"range", "subscribe"}
    BY <1>4, <2>2 DEF NilClient, Crash, CrashCause
  <2> QED
    BY <1>4, <2>1, <2>2 DEF NilClient
<1>5. ASSUME MapRace
      PROVE  CrashCause'
  <2>1. PICK p \in Callers :
          /\ Writing(p)
          /\ \/ \E q \in Callers \ {p} : Writing(q) \/ call[q].at = "unsubLookup"
             \/ \E r \in Runs : run[r].at = "range" /\ run[r].old = Live
    BY <1>5 DEF MapRace
  <2>2. \E q \in Callers : call[q].at \in {"unsubLookup", "unsubStore"}
    <3>1. CASE call[p].at = "unsubStore"
      BY <3>1
    <3>2. CASE call[p].at = "subStore"
      <4>1. updateMutex = p
        BY <3>2 DEF LockDiscipline
      <4>2. \A q \in Callers \ {p} : call[q].at # "subStore"
        BY <4>1 DEF LockDiscipline
      <4>3. \A r \in Runs : run[r].at # "range"
        BY <4>1, ConstantsAssumption DEF LockDiscipline
      <4> QED
        BY <2>1, <4>2, <4>3 DEF Writing
    <3> QED
      BY <2>1, <3>1, <3>2 DEF Writing
  <2> QED
    BY <1>5, <2>2 DEF MapRace, Crash, shared, CallsOK, CrashCause
<1>6. ASSUME Next, crash' # "none"
      PROVE  \/ \E c \in Clients, t \in Topics : DispatchNil(c, t)
             \/ NilClient
             \/ MapRace
  BY Zenon, <1>6 DEF Next, SubscribeStep, UnsubscribeStep, DisconnectStep, ConnectStep,
    ResubscribeStep, Call, SubscribeLock, SubscribePaho, SubscribeStore,
    UnsubscribeLookup, UnsubscribePaho, UnsubscribeStore, PublishSend,
    DisconnectLock, DisconnectPaho, DisconnectNil, DisconnectClear, ConnectClose,
    ConnectNew, ConnectSucceeds, ConnectFails, ResubscribeLock, ResubscribeNext,
    ResubscribeTopic, ResubscribeEnd, ConnectionLost, Reconnect
<1> QED
  BY <1>1, <1>2, <1>3, <1>4, <1>5, <1>6

\* A step that changes nothing but the calls, and no call that is about to
\* write the map.
LEMMA CallOnly ==
  ASSUME ServiceOK, UNCHANGED <<shared, run, pahoVars, crash>>,
         \A p \in Callers :
           call[p].at \in {"subStore", "unsubStore"} \/
           call'[p].at \in {"subStore", "unsubStore"} => call'[p] = call[p]
  PROVE  ServiceOK'
<1> SUFFICES ASSUME Up'
             PROVE  (RegisteredServed /\ NoneAbandoned /\ StoreReady)'
  BY DEF ServiceOK
<1>1. RegisteredServed /\ NoneAbandoned /\ StoreReady
  BY DEF ServiceOK, Up, Online, shared, pahoVars
<1>2. RegisteredServed'
  BY <1>1 DEF RegisteredServed, ServedWith, Excused, Ranging, shared, pahoVars
<1>3. NoneAbandoned' /\ StoreReady'
  BY <1>1 DEF NoneAbandoned, StoreReady, shared, pahoVars
<1> QED
  BY <1>2, <1>3

\* The heart of the proof: while the connection is up, every step keeps each registered
\* topic served, or leaves a resubscribe or a call that accounts for it
\* (MqttClient.go:282-311, 326-356).
LEMMA ServiceStep ==
  ASSUME TypeOK, LockDiscipline, CallsOK, OwnerOK, RunsOK, OneAtATime, ServiceOK,
         [Next]_vars
  PROVE  ServiceOK'
<1>1. CASE UNCHANGED vars
  BY <1>1
  DEF vars, ServiceOK, Up, RegisteredServed, NoneAbandoned, StoreReady, Online,
      Excused, Ranging, ServedWith
<1>2. ASSUME NEW p \in Callers, crash = "none", Call(p)
      PROVE  ServiceOK'
  <2>1. \A q \in Callers :
          call[q].at \in {"subStore", "unsubStore"} \/
          call'[q].at \in {"subStore", "unsubStore"} => call'[q] = call[q]
    BY <1>2, ConstantsAssumption DEF Call, Start, TypeOK, CallRec
  <2>2. UNCHANGED <<shared, run, pahoVars, crash>>
    BY <1>2 DEF Call, shared, pahoVars
  <2> QED
    BY <2>1, <2>2, CallOnly
<1>3. ASSUME NEW p \in Callers, crash = "none", SubscribeLock(p)
      PROVE  ServiceOK'
  BY <1>3, ConstantsAssumption
  DEF SubscribeLock, Goto, Lock, pahoVars, ServiceOK, Up, RegisteredServed,
      NoneAbandoned, StoreReady, LockDiscipline, Online, Excused, ServedWith
<1>4. ASSUME NEW p \in Callers, crash = "none", SubscribePaho(p)
      PROVE  ServiceOK'
  <2> SUFFICES ASSUME Up'
               PROVE  (RegisteredServed /\ NoneAbandoned /\ StoreReady)'
    BY DEF ServiceOK
  <2>1. RegisteredServed /\ NoneAbandoned /\ StoreReady
    BY <1>4 DEF ServiceOK, Up, Online, SubscribePaho, shared
  <2>2. status[pahoClient] = "connected" /\ pahoClient \in Clients
    BY <1>4 DEF Up, Online, SubscribePaho, shared, TypeOK
  <2> DEFINE t == call[p].topic
  <2>3. t \in Topics
    BY <1>4 DEF SubscribePaho, CallsOK
  <2>4. /\ broker'[pahoClient] = broker[pahoClient] \cup {t}
        /\ router'[pahoClient][t] = Direct(call[p].handler)
        /\ \A u \in Topics \ {t} : router'[pahoClient][u] = router[pahoClient][u]
    BY <1>4, <2>2, <2>3 DEF SubscribePaho, PahoSubscribe, TypeOK
  <2>5. /\ call'[p].at = "subStore" /\ call'[p].topic = t
        /\ call'[p].handler = call[p].handler
        /\ \A q \in Callers \ {p} : call'[q] = call[q] /\ call[q].at # "subStore"
    BY <1>4 DEF SubscribePaho, Goto, TypeOK, CallRec, LockDiscipline
  <2>6. RegisteredServed'
    BY <1>4, <2>1, <2>3, <2>4, <2>5
    DEF SubscribePaho, RegisteredServed, ServedWith, Excused, Ranging, shared
  <2>7. NoneAbandoned' /\ StoreReady'
    BY <1>4, <2>1, <2>4, <2>5 DEF SubscribePaho, NoneAbandoned, StoreReady, shared
  <2> QED
    BY <2>6, <2>7
<1>5. ASSUME NEW p \in Callers, crash = "none", SubscribeStore(p)
      PROVE  ServiceOK'
  <2> SUFFICES ASSUME Up'
               PROVE  (RegisteredServed /\ NoneAbandoned /\ StoreReady)'
    BY DEF ServiceOK
  <2>1. RegisteredServed /\ NoneAbandoned /\ StoreReady
    BY <1>5 DEF ServiceOK, Up, Online, SubscribeStore, pahoVars
  <2>2. /\ call[p].topic \in Topics
        /\ ServedWith(call[p].topic, call[p].handler)
    BY <1>5, <2>1 DEF SubscribeStore, CallsOK, StoreReady, ServedWith
  <2>3. /\ call'[p].at = "idle"
        /\ \A q \in Callers \ {p} : call'[q] = call[q]
    BY <1>5 DEF SubscribeStore, Return, Idle, TypeOK
  <2>4. /\ subscriptions'[call[p].topic] = call[p].handler
        /\ \A u \in Topics \ {call[p].topic} : subscriptions'[u] = subscriptions[u]
    BY <1>5, <2>2 DEF SubscribeStore, TypeOK, SubMap
  <2>5. ASSUME NEW u \in Topics, subscriptions'[u] \in Handlers, u # call[p].topic
        PROVE  (ServedWith(u, subscriptions[u]) \/ Excused(u))'
    BY <1>5, <2>1, <2>3, <2>4, <2>5
    DEF SubscribeStore, RegisteredServed, ServedWith, Excused, Ranging, pahoVars
  <2>6. RegisteredServed'
    BY <1>5, <2>2, <2>4, <2>5
    DEF SubscribeStore, RegisteredServed, ServedWith, pahoVars
  <2>7. NoneAbandoned' /\ StoreReady'
    BY <1>5, <2>1, <2>3 DEF SubscribeStore, NoneAbandoned, StoreReady, pahoVars
  <2> QED
    BY <2>6, <2>7
<1>6. ASSUME NEW p \in Callers, crash = "none", UnsubscribeLookup(p)
      PROVE  ServiceOK'
  <2>1. \A q \in Callers :
          call[q].at \in {"subStore", "unsubStore"} \/
          call'[q].at \in {"subStore", "unsubStore"} => call'[q] = call[q]
    BY <1>6, ConstantsAssumption
    DEF UnsubscribeLookup, Goto, Return, Idle, TypeOK, CallRec
  <2>2. UNCHANGED <<shared, run, pahoVars, crash>>
    BY <1>6 DEF UnsubscribeLookup, shared, pahoVars
  <2> QED
    BY <2>1, <2>2, CallOnly
<1>7. ASSUME NEW p \in Callers, crash = "none", UnsubscribePaho(p)
      PROVE  ServiceOK'
  BY <1>7
  DEF UnsubscribePaho, Goto, PahoUnsubscribe, shared, ServiceOK, Up,
      RegisteredServed, NoneAbandoned, StoreReady, OneAtATime, CallsOK, Online,
      Excused, Ranging, ServedWith, Shared, TypeOK, RunRec
<1>8. ASSUME NEW p \in Callers, crash = "none", UnsubscribeStore(p)
      PROVE  ServiceOK'
  <2> SUFFICES ASSUME Up'
               PROVE  (RegisteredServed /\ NoneAbandoned /\ StoreReady)'
    BY DEF ServiceOK
  <2>1. RegisteredServed /\ NoneAbandoned /\ StoreReady
    BY <1>8 DEF ServiceOK, Up, Online, UnsubscribeStore, pahoVars
  <2>2. /\ call[p].topic \in Topics
        /\ subscriptions' = [subscriptions EXCEPT ![call[p].topic] = NilSub]
    BY <1>8 DEF UnsubscribeStore, CallsOK
  <2>3. /\ call'[p].at = "idle"
        /\ \A q \in Callers \ {p} : call'[q] = call[q]
    BY <1>8 DEF UnsubscribeStore, Return, Idle, TypeOK
  <2>4. ASSUME NEW u \in Topics, subscriptions'[u] \in Handlers
        PROVE  u # call[p].topic /\ subscriptions'[u] = subscriptions[u]
    BY <2>2, <2>4, ConstantsAssumption DEF TypeOK, SubMap
  <2>5. RegisteredServed'
    BY <1>8, <2>1, <2>3, <2>4
    DEF UnsubscribeStore, RegisteredServed, ServedWith, Excused, Ranging, pahoVars
  <2>6. NoneAbandoned' /\ StoreReady'
    BY <1>8, <2>1, <2>3 DEF UnsubscribeStore, NoneAbandoned, StoreReady, pahoVars
  <2> QED
    BY <2>5, <2>6
<1>9. ASSUME NEW p \in Callers, crash = "none", PublishSend(p)
      PROVE  ServiceOK'
  <2>1. \A q \in Callers :
          call[q].at \in {"subStore", "unsubStore"} \/
          call'[q].at \in {"subStore", "unsubStore"} => call'[q] = call[q]
    BY <1>9, ConstantsAssumption DEF PublishSend, Return, Idle, TypeOK, CallRec
  <2>2. UNCHANGED <<shared, run, pahoVars, crash>>
    BY <1>9 DEF PublishSend, shared, pahoVars
  <2> QED
    BY <2>1, <2>2, CallOnly
<1>10. ASSUME crash = "none", DisconnectLock
      PROVE  ServiceOK'
  <2>1. \A q \in Callers :
          call[q].at \in {"subStore", "unsubStore"} \/
          call'[q].at \in {"subStore", "unsubStore"} => call'[q] = call[q]
    BY <1>10, ConstantsAssumption
    DEF DisconnectLock, Goto, Return, Idle, TypeOK, CallRec
  <2>2. UNCHANGED <<shared, run, pahoVars, crash>>
    BY <1>10 DEF DisconnectLock, shared, pahoVars
  <2> QED
    BY <2>1, <2>2, CallOnly
<1>11. ASSUME crash = "none", DisconnectPaho
      PROVE  ServiceOK'
  BY <1>11 DEF DisconnectPaho, PahoDisconnect, shared, ServiceOK, Up, Online, TypeOK
<1>12. ASSUME crash = "none", DisconnectNil
      PROVE  ServiceOK'
  BY <1>12 DEF DisconnectNil, ServiceOK, Up, Online
<1>13. ASSUME crash = "none", DisconnectClear
      PROVE  ServiceOK'
  BY <1>13 DEF DisconnectClear, ServiceOK, Up, OwnerOK, Online
<1>14. ASSUME crash = "none", ConnectClose
      PROVE  ServiceOK'
  BY <1>14 DEF ConnectClose, PahoDisconnect, shared, ServiceOK, Up, Online, TypeOK
<1>15. ASSUME crash = "none", ConnectNew
      PROVE  ServiceOK'
  BY <1>15 DEF ConnectNew, ServiceOK, Up, Online
<1>16. ASSUME crash = "none", ConnectSucceeds
      PROVE  ServiceOK'
  BY <1>16 DEF ConnectSucceeds, SpawnResubscribe, ServiceOK, Up, TypeOK
<1>17. ASSUME crash = "none", ConnectFails
      PROVE  ServiceOK'
  <2>1. \A q \in Callers :
          call[q].at \in {"subStore", "unsubStore"} \/
          call'[q].at \in {"subStore", "unsubStore"} => call'[q] = call[q]
    BY <1>17, ConstantsAssumption DEF ConnectFails, Return, Idle, TypeOK, CallRec
  <2>2. UNCHANGED <<shared, run, pahoVars, crash>>
    BY <1>17 DEF ConnectFails, shared, pahoVars
  <2> QED
    BY <2>1, <2>2, CallOnly
<1>18. ASSUME NEW r \in Runs, crash = "none", ResubscribeLock(r)
      PROVE  ServiceOK'
  BY <1>18, ConstantsAssumption
  DEF ResubscribeLock, Lock, ServiceOK, RegisteredServed, NoneAbandoned, StoreReady,
      LockDiscipline, RunsOK, Excused, Ranging, ServedWith, Direct, Shared, TypeOK
<1>19. ASSUME NEW r \in Runs, crash = "none", ResubscribeNext(r)
      PROVE  ServiceOK'
  <2> SUFFICES ASSUME Up'
               PROVE  (RegisteredServed /\ NoneAbandoned /\ StoreReady)'
    BY DEF ServiceOK
  <2>1. PICK t \in run[r].todo : ResubscribeEntry(r, t)
    BY <1>19, ResubscribeNextForm
  <2>2. /\ t \in Topics /\ run[r].at = "range" /\ run'[r].at = "subscribe"
        /\ run'[r].todo = run[r].todo \ {t} /\ run'[r].topic = t
        /\ run'[r].old = run[r].old /\ \A q \in Runs \ {r} : run'[q] = run[q]
        /\ \A u \in Topics \ {t} : router'[pahoClient][u] = router[pahoClient][u]
        /\ \A u \in Topics \ {t} :
             u \in broker'[pahoClient] <=> u \in broker[pahoClient]
    BY <2>1 DEF ResubscribeEntry
  <2>3. UNCHANGED <<shared, call, status, crash>>
    BY <1>19 DEF ResubscribeNext
  <2>4. RegisteredServed /\ NoneAbandoned /\ StoreReady
    BY <2>2, <2>3 DEF ServiceOK, Up, Online, shared
  <2>5. ASSUME NEW u \in Topics, subscriptions[u] \in Handlers, u # t
        PROVE  (ServedWith(u, subscriptions[u]) \/ Excused(u))'
    <3>1. ServedWith(u, subscriptions[u]) \/ Excused(u)
      BY <2>4, <2>5 DEF RegisteredServed
    <3>2. Excused(u) => Excused(u)'
      BY <2>2, <2>3, <2>5 DEF Excused, Ranging, RunsOK
    <3>3. ServedWith(u, subscriptions[u]) => ServedWith(u, subscriptions[u])'
      BY <2>2, <2>3, <2>5 DEF ServedWith, shared
    <3> QED
      BY <3>1, <3>2, <3>3
  <2>6. Excused(t)'
    BY <2>2 DEF Excused, Ranging
  <2>7. RegisteredServed'
    BY <2>3, <2>5, <2>6 DEF RegisteredServed, shared
  <2>8. NoneAbandoned' /\ StoreReady'
    <3>1. \A p \in Callers : call[p].at # "subStore"
      BY <2>2, ConstantsAssumption DEF LockDiscipline
    <3> QED
      BY <2>2, <2>3, <2>4, <3>1 DEF NoneAbandoned, StoreReady
  <2> QED
    BY <2>7, <2>8
<1>20. ASSUME NEW r \in Runs, crash = "none", ResubscribeTopic(r)
      PROVE  ServiceOK'
  <2> SUFFICES ASSUME Up'
               PROVE  (RegisteredServed /\ NoneAbandoned /\ StoreReady)'
    BY DEF ServiceOK
  <2>1. run' = [run EXCEPT ![r] = [run[r] EXCEPT !.at = "range", !.topic = NoTopic]]
    BY <1>20 DEF ResubscribeTopic, TypeOK, RunRec
  <2>2. /\ run'[r].at = "range" /\ run'[r].todo = run[r].todo
        /\ run'[r].old = run[r].old
        /\ \A q \in Runs \ {r} : run'[q] = run[q]
    BY <2>1 DEF TypeOK, RunRec
  <2>3. RegisteredServed /\ NoneAbandoned /\ StoreReady
    BY <1>20, <2>2 DEF ServiceOK, Up, Online, ResubscribeTopic, shared
  <2>4. /\ pahoClient \in Clients /\ status[pahoClient] = "connected"
        /\ run[r].topic \in Topics
    BY <1>20 DEF Up, Online, ResubscribeTopic, shared, TypeOK, RunsOK
  <2> PICK t \in Topics : t = run[r].topic
    BY <2>4
  <2>5. /\ broker'[pahoClient] = broker[pahoClient] \cup {t}
        /\ router'[pahoClient][t] = Shared(r)
        /\ \A u \in Topics \ {t} : router'[pahoClient][u] = router[pahoClient][u]
    BY <1>20, <2>4 DEF ResubscribeTopic, PahoSubscribe, TypeOK
  <2>6. ASSUME NEW u \in Topics, subscriptions[u] \in Handlers, u # t
        PROVE  (ServedWith(u, subscriptions[u]) \/ Excused(u))'
    <3>1. ServedWith(u, subscriptions[u]) \/ Excused(u)
      BY <2>3, <2>6 DEF RegisteredServed
    <3>2. Excused(u) => Excused(u)'
      BY <1>20, <2>2, <2>6 DEF ResubscribeTopic, Excused, Ranging
    <3>3. ServedWith(u, subscriptions[u]) => ServedWith(u, subscriptions[u])'
      BY <1>20, <2>5, <2>6 DEF ResubscribeTopic, ServedWith, shared
    <3> QED
      BY <3>1, <3>2, <3>3 DEF ServedWith, Excused
  <2>7. ServedWith(t, subscriptions[t])'
    BY <1>20, <2>5 DEF ResubscribeTopic, ServedWith, shared
  <2>8. RegisteredServed'
    BY <1>20, <2>6, <2>7 DEF ResubscribeTopic, RegisteredServed, shared
  <2>9. NoneAbandoned' /\ StoreReady'
    <3>1. \A p \in Callers : call[p].at # "subStore"
      BY <1>20, ConstantsAssumption DEF ResubscribeTopic, LockDiscipline
    <3> QED
      BY <1>20, <3>1, <2>2, <2>3 DEF ResubscribeTopic, NoneAbandoned, StoreReady
  <2> QED
    BY <2>8, <2>9
<1>21. ASSUME NEW r \in Runs, crash = "none", ResubscribeEnd(r)
      PROVE  ServiceOK'
  <2> SUFFICES ASSUME Up'
               PROVE  (RegisteredServed /\ NoneAbandoned /\ StoreReady)'
    BY DEF ServiceOK
  <2>1. run' = [run EXCEPT ![r] = [run[r] EXCEPT !.at = "done", !.old = Live]]
    BY <1>21 DEF ResubscribeEnd, TypeOK, RunRec
  <2>2. /\ run'[r].at = "done" /\ run'[r].old = Live
        /\ \A q \in Runs \ {r} : run'[q] = run[q]
    BY <2>1 DEF TypeOK, RunRec
  <2>3. RegisteredServed /\ NoneAbandoned /\ StoreReady
    BY <1>21, <2>2 DEF ServiceOK, Up, Online, ResubscribeEnd, pahoVars
  <2>4. \A t \in Topics : ~Ranging(r, t)
    BY <1>21 DEF ResubscribeEnd, Ranging, RunsOK
  <2>5. \A u \in Topics : Excused(u) => Excused(u)'
    BY <1>21, <2>2, <2>4 DEF ResubscribeEnd, Excused, Ranging
  <2>6. RegisteredServed'
    BY <1>21, <2>3, <2>5 DEF ResubscribeEnd, RegisteredServed, ServedWith, pahoVars
  <2>7. NoneAbandoned' /\ StoreReady'
    BY <1>21, <2>2, <2>3 DEF ResubscribeEnd, NoneAbandoned, StoreReady, pahoVars
  <2> QED
    BY <2>6, <2>7
<1>22. ASSUME NEW c \in Clients, crash = "none", ConnectionLost(c)
      PROVE  ServiceOK'
  BY <1>22
  DEF ConnectionLost, shared, ServiceOK, Up, RegisteredServed, NoneAbandoned,
      StoreReady, Online, Excused, Ranging, ServedWith, TypeOK, RunRec
<1>23. ASSUME NEW c \in Clients, crash = "none", Reconnect(c)
      PROVE  ServiceOK'
  BY <1>23 DEF Reconnect, SpawnResubscribe, ServiceOK, Up, TypeOK
<1>24. ASSUME NEW c \in Clients, NEW t \in Topics, crash = "none", DispatchNil(c, t)
      PROVE  ServiceOK'
  BY <1>24 DEF DispatchNil, Crash, ServiceOK, Up
<1>25. ASSUME crash = "none", NilClient
      PROVE  ServiceOK'
  BY <1>25 DEF NilClient, Crash, ServiceOK, Up
<1>26. ASSUME crash = "none", MapRace
      PROVE  ServiceOK'
  BY <1>26 DEF MapRace, Crash, ServiceOK, Up
<1> QED
  BY <1>1, <1>2, <1>3, <1>4, <1>5, <1>6, <1>7, <1>8, <1>9, <1>10, <1>11, <1>12,
     <1>13, <1>14, <1>15, <1>16, <1>17, <1>18, <1>19, <1>20, <1>21, <1>22, <1>23,
     <1>24, <1>25, <1>26
  DEF Next, SubscribeStep, UnsubscribeStep, DisconnectStep, ConnectStep,
      ResubscribeStep

-----------------------------------------------------------------------------
(* The theorems.                                                           *)

\* A new client (MqttClient.go:385-404) satisfies the inductive invariant.
LEMMA InvInit == Init => IInv
<1> SUFFICES ASSUME Init
             PROVE  IInv
  OBVIOUS
<1>1. TypeOK
  <2>1. \A p \in Callers : call[p] \in CallRec
    BY DEF Init, Idle, CallRec, CallSteps
  <2>2. \A r \in Runs : run[r] \in RunRec
    BY DEF Init, RunRec, RunSteps, Entry
  <2>3. retry \in RetryRec
    BY DEF Init, NoRetry, RetryRec, MaxDelay
  <2> QED
    BY <2>1, <2>2, <2>3
    DEF Init, EmptyMap, TypeOK, SubMap, Entry, Route, Statuses, Crashes
<1>2. LockDiscipline /\ CallsOK /\ OwnerOK
  BY ConstantsAssumption DEF Init, Idle, LockDiscipline, CallsOK, OwnerOK
<1>3. RunsOK /\ NoNilSub
  BY ConstantsAssumption DEF Init, EmptyMap, RunsOK, NoNilSub
<1>4. CrashCause /\ ServiceOK
  BY DEF Init, CrashCause, ServiceOK, Up, Online
<1> QED
  BY <1>1, <1>2, <1>3, <1>4 DEF IInv

\* Every step preserves the inductive invariant.
LEMMA InvStep == IInv /\ [Next]_vars => IInv'
<1> SUFFICES ASSUME IInv, [Next]_vars
             PROVE  IInv'
  OBVIOUS
<1> USE DEF IInv
<1>1. TypeOK' /\ LockDiscipline' /\ CallsOK' /\ RunsOK'
  BY TypeStep, LockStep, CallsStep, RunsStep
<1>2. OwnerOK' /\ NoNilSub' /\ CrashCause'
  BY OwnerStep, NoNilSubStep, CrashStep
<1>3. OneAtATime' => ServiceOK'
  BY ServiceStep DEF OneAtATime
<1> QED
  BY <1>1, <1>2, <1>3

\* IInv is an invariant of every behaviour.
THEOREM Invariance == Spec => []IInv
<1>1. Init => IInv
  BY InvInit
<1>2. IInv /\ [Next]_vars => IInv'
  BY InvStep
<1> QED
  BY <1>1, <1>2, PTL DEF Spec

\* The variables keep their types (the whole of MqttClient.go).
THEOREM TypeCorrect == Spec => []TypeOK
<1>1. IInv => TypeOK
  BY DEF IInv
<1> QED
  BY <1>1, Invariance, PTL

\* updateMutex is held by exactly the goroutine inside the critical section of
\* Subscribe or inside resubscribe (MqttClient.go:284, 336).
THEOREM MutexSafe == Spec => []LockDiscipline
<1>1. IInv => LockDiscipline
  BY DEF IInv
<1> QED
  BY <1>1, Invariance, PTL

\* What can end the process: map races only around Unsubscribe, nil subscriptions
\* only where Unsubscribe is used, a nil client never in the goroutine that
\* disconnects (MqttClient.go:209-223, 282-311, 326-375).
THEOREM CrashesExplained == Spec => []CrashCause
<1>1. IInv => CrashCause
  BY DEF IInv
<1> QED
  BY <1>1, Invariance, PTL

\* Where Subscribe and Unsubscribe never overlap, a connection that is up and
\* settled serves every registered topic, however often it was lost, replaced
\* and resubscribed (MqttClient.go:278-311, 326-356).
THEOREM RegisteredTopicsServed ==
  OneAtATime => (Spec => []SubscriptionEffective)
<1> SUFFICES ASSUME OneAtATime
             PROVE  Spec => []SubscriptionEffective
  OBVIOUS
<1>1. ASSUME IInv
      PROVE  SubscriptionEffective
  <2> SUFFICES ASSUME Settled, Online, NEW t \in Topics, subscriptions[t] \in Handlers
               PROVE  ServedWith(t, subscriptions[t])
    BY DEF SubscriptionEffective, ServedWith
  <2>1. ServedWith(t, subscriptions[t]) \/ Excused(t)
    BY <1>1 DEF IInv, ServiceOK, Up, Settled, RegisteredServed
  <2>2. ~Excused(t)
    BY DEF Excused, Settled
  <2> QED
    BY <2>1, <2>2
<1>2. IInv => SubscriptionEffective
  BY <1>1
<1> QED
  BY <1>2, Invariance, PTL

-----------------------------------------------------------------------------
(* The cells of resubscribe.                                               *)

\* Every step keeps the cell of a resubscribe current while it subscribes, and the
\* entries that it has still to visit in the map: Subscribe cannot write while it runs,
\* and Disconnect leaves it the old map (MqttClient.go:221, 284-303, 353, 373).
LEMMA CellMapStep ==
  ASSUME IInv, CellCurrent, TodoPresent, [Next]_vars
  PROVE  CellCurrent' /\ TodoPresent'
<1> USE DEF IInv
<1>1. CASE UNCHANGED <<run, subscriptions>>
  BY <1>1 DEF CellCurrent, TodoPresent, OnLiveMap
<1>2. ASSUME NEW p \in Callers, SubscribeStore(p)
      PROVE  CellCurrent' /\ TodoPresent'
  <2>1. \A r \in Runs : run[r].at \notin {"range", "subscribe"}
    BY <1>2, ConstantsAssumption DEF SubscribeStore, LockDiscipline
  <2> QED
    BY <1>2, <2>1 DEF SubscribeStore, CellCurrent, TodoPresent, OnLiveMap
<1>3. ASSUME NEW p \in Callers, UnsubscribeStore(p)
      PROVE  CellCurrent' /\ TodoPresent'
  <2>1. \A t \in Topics : subscriptions'[t] \in {subscriptions[t], NilSub}
    BY <1>3 DEF UnsubscribeStore, TypeOK, SubMap
  <2>2. \A r \in Runs : run[r].todo \in SUBSET Topics
    BY DEF TypeOK, RunRec
  <2> QED
    BY <1>3, <2>1, <2>2, ConstantsAssumption
    DEF UnsubscribeStore, CellCurrent, TodoPresent, OnLiveMap, RunsOK
<1>4. ASSUME DisconnectClear
      PROVE  CellCurrent' /\ TodoPresent'
  <2>1. \A r \in Runs : ~OnLiveMap(r)'
    <3> SUFFICES ASSUME NEW r \in Runs
                 PROVE  ~OnLiveMap(r)'
      OBVIOUS
    <3>1. CASE OnLiveMap(r)
      <4>1. run'[r] = [run[r] EXCEPT !.old = subscriptions]
        BY <1>4, <3>1 DEF DisconnectClear, OnLiveMap
      <4>2. run'[r].old = subscriptions
        BY <4>1 DEF TypeOK, RunRec
      <4> QED
        BY <4>2, ConstantsAssumption DEF OnLiveMap, TypeOK, SubMap, Entry
    <3>2. CASE ~OnLiveMap(r)
      BY <1>4, <3>2 DEF DisconnectClear, OnLiveMap
    <3> QED
      BY <3>1, <3>2
  <2> QED
    BY <2>1 DEF CellCurrent, TodoPresent
<1>5. ASSUME SpawnResubscribe, UNCHANGED subscriptions
      PROVE  CellCurrent' /\ TodoPresent'
  <2>1. \A r \in Runs : run'[r].at \in {"range", "subscribe"} => run'[r] = run[r]
    BY <1>5 DEF SpawnResubscribe, TypeOK
  <2> QED
    BY <1>5, <2>1 DEF CellCurrent, TodoPresent, OnLiveMap
<1>6. ASSUME NEW r \in Runs, ResubscribeLock(r)
      PROVE  CellCurrent' /\ TodoPresent'
  <2>1. /\ run'[r].at = "range"
        /\ run'[r].todo = {t \in Topics : subscriptions[t] # Absent}
        /\ \A q \in Runs \ {r} : run'[q] = run[q]
    BY <1>6 DEF ResubscribeLock, TypeOK, RunRec
  <2> QED
    BY <1>6, <2>1 DEF ResubscribeLock, CellCurrent, TodoPresent, OnLiveMap
<1>7. ASSUME NEW r \in Runs, ResubscribeNext(r)
      PROVE  CellCurrent' /\ TodoPresent'
  <2>1. PICK t \in run[r].todo : ResubscribeEntry(r, t)
    BY <1>7, ResubscribeNextForm
  <2>2. /\ run[r].at = "range"
        /\ run'[r].todo = run[r].todo \ {t} /\ run'[r].topic = t
        /\ run[r].old = Live => run'[r].sub = subscriptions[t]
        /\ run'[r].old = run[r].old
        /\ \A q \in Runs \ {r} : run'[q] = run[q]
    BY <2>1 DEF ResubscribeEntry
  <2>3. subscriptions' = subscriptions
    BY <1>7 DEF ResubscribeNext, shared
  <2> QED
    BY <2>2, <2>3 DEF CellCurrent, TodoPresent, OnLiveMap
<1>8. ASSUME NEW r \in Runs, ResubscribeTopic(r)
      PROVE  CellCurrent' /\ TodoPresent'
  <2>1. /\ run[r].at = "subscribe" /\ run'[r].at = "range"
        /\ run'[r].todo = run[r].todo /\ run'[r].old = run[r].old
        /\ \A q \in Runs \ {r} : run'[q] = run[q]
    BY <1>8 DEF ResubscribeTopic, TypeOK, RunRec
  <2>2. subscriptions' = subscriptions
    BY <1>8 DEF ResubscribeTopic, shared
  <2> QED
    BY <2>1, <2>2 DEF CellCurrent, TodoPresent, OnLiveMap
<1>9. ASSUME NEW r \in Runs, ResubscribeEnd(r)
      PROVE  CellCurrent' /\ TodoPresent'
  <2>1. run'[r].at = "done" /\ \A q \in Runs \ {r} : run'[q] = run[q]
    BY <1>9 DEF ResubscribeEnd, TypeOK, RunRec
  <2> QED
    BY <1>9, <2>1 DEF ResubscribeEnd, CellCurrent, TodoPresent, OnLiveMap
<1>10. \/ UNCHANGED <<run, subscriptions>>
       \/ \E p \in Callers : SubscribeStore(p) \/ UnsubscribeStore(p)
       \/ DisconnectClear
       \/ SpawnResubscribe /\ UNCHANGED subscriptions
       \/ \E r \in Runs : ResubscribeStep(r)
  BY Zenon
  DEF Next, vars, shared, pahoVars, SubscribeStep, UnsubscribeStep, DisconnectStep,
    ConnectStep, Call, SubscribeLock, SubscribePaho, UnsubscribeLookup,
    UnsubscribePaho, PublishSend, DisconnectLock, DisconnectPaho, DisconnectNil,
    ConnectClose, ConnectNew, ConnectSucceeds, ConnectFails, ConnectionLost,
    Reconnect, DispatchNil, NilClient, MapRace, Crash
<1> QED
  BY <1>1, <1>2, <1>3, <1>4, <1>5, <1>6, <1>7, <1>8, <1>9, <1>10 DEF ResubscribeStep

\* A step that changes neither the map, the cells nor the routes of the client in
\* use, and ends no excuse.
LEMMA CellKeep ==
  ASSUME Up => CellServes, Up' => Up,
         UNCHANGED <<pahoClient, subscriptions>>,
         \A r \in Runs : run'[r].sub = run[r].sub,
         \A t \in Topics : Excused(t) => Excused(t)',
         \A t \in Topics : ~Excused(t)' =>
           router'[pahoClient][t] \in {router[pahoClient][t], NoRoute}
  PROVE  (Up => CellServes)'
<1>1. \A r \in Runs : NoRoute # Shared(r)
  BY DEF NoRoute, Shared
<1> QED
  BY <1>1 DEF CellServes, AnotherEntry

\* While the connection is up, every step keeps the cells serving the topics that
\* are routed to them (MqttClient.go:282-311, 326-375).
LEMMA CellServesStep ==
  ASSUME IInv, OneAtATime, CellCurrent, TodoPresent, Up => CellServes, [Next]_vars
  PROVE  (Up => CellServes)'
<1> USE DEF IInv
<1>1. ASSUME UNCHANGED <<pahoClient, subscriptions, run, router>>,
             \A p \in Callers :
               call[p].at \in {"subStore", "unsubStore"} => call'[p] = call[p],
             Up' => Up
      PROVE  (Up => CellServes)'
  <2>1. \A t \in Topics : Excused(t) => Excused(t)'
    BY <1>1 DEF Excused, Ranging
  <2> QED
    BY <1>1, <2>1, CellKeep
<1>2. CASE ~Up'
  BY <1>2
<1>3. ASSUME NEW p \in Callers, SubscribePaho(p) \/ UnsubscribePaho(p), Up'
      PROVE  (Up => CellServes)'
  <2> DEFINE t == call[p].topic
  <2>1. UNCHANGED <<pahoClient, subscriptions, run, status, crash>>
    BY <1>3 DEF SubscribePaho, UnsubscribePaho, shared
  <2>2. Up /\ pahoClient \in Clients
    BY <1>3, <2>1 DEF Up, Online, TypeOK
  <2>3. \A u \in Topics \ {t} : router'[pahoClient][u] = router[pahoClient][u]
    BY <1>3, <2>2
    DEF SubscribePaho, UnsubscribePaho, PahoSubscribe, PahoUnsubscribe, TypeOK
  <2>4. /\ call[p].at \in {"subPaho", "unsubPaho"}
        /\ call'[p].at \in {"subStore", "unsubStore"} /\ call'[p].topic = t
        /\ \A q \in Callers \ {p} : call'[q] = call[q]
    BY <1>3 DEF SubscribePaho, UnsubscribePaho, Goto, TypeOK, CallRec
  <2>5. \A u \in Topics : Excused(u) => Excused(u)'
    BY <2>1, <2>4 DEF Excused, Ranging
  <2>6. \A u \in Topics : ~Excused(u)' => u # t
    BY <2>4 DEF Excused
  <2> QED
    BY <2>1, <2>2, <2>3, <2>5, <2>6, CellKeep
<1>4. ASSUME NEW p \in Callers, SubscribeStore(p) \/ UnsubscribeStore(p), Up'
      PROVE  (Up => CellServes)'
  <2> DEFINE t == call[p].topic
  <2>1. UNCHANGED <<pahoClient, run, router, status, crash>>
    BY <1>4 DEF SubscribeStore, UnsubscribeStore, pahoVars
  <2>2. CellServes /\ StoreReady /\ t \in Topics
    BY <1>4, <2>1
    DEF Up, Online, ServiceOK, SubscribeStore, UnsubscribeStore, CallsOK
  <2>3. /\ subscriptions'[t] # Absent
        /\ \A u \in Topics \ {t} : subscriptions'[u] = subscriptions[u]
    BY <1>4, <2>2, ConstantsAssumption
    DEF SubscribeStore, UnsubscribeStore, CallsOK, TypeOK, SubMap
  <2>4. \A q \in Callers \ {p} : call'[q] = call[q]
    BY <1>4 DEF SubscribeStore, UnsubscribeStore, Return, TypeOK
  <2>5. ASSUME NEW r \in Runs, subscriptions'[t] \in Handlers
        PROVE  router[pahoClient][t] # Shared(r)
    <3>1. SubscribeStore(p)
      BY <1>4, <2>2, <2>5, ConstantsAssumption DEF UnsubscribeStore, TypeOK, SubMap
    <3>2. router[pahoClient][t] = Direct(call[p].handler)
      BY <2>2, <3>1 DEF SubscribeStore, StoreReady
    <3> QED
      BY <3>2 DEF Direct, Shared
  <2>6. ASSUME NEW u \in Topics \ {t}
        PROVE  AnotherEntry(u)'
    BY <2>2, <2>3 DEF AnotherEntry
  <2> QED
    BY <2>1, <2>5, <2>6 DEF CellServes
<1>5. ASSUME NEW r \in Runs, ResubscribeLock(r)
      PROVE  (Up => CellServes)'
  <2>1. /\ run'[r].at = "range"
        /\ run'[r].todo = {t \in Topics : subscriptions[t] # Absent}
    BY <1>5 DEF ResubscribeLock, TypeOK, RunRec
  <2>2. \A t \in Topics : subscriptions[t] \in Handlers => Excused(t)'
    BY <2>1, ConstantsAssumption DEF Excused, Ranging
  <2> QED
    BY <1>5, <2>2 DEF ResubscribeLock, CellServes
<1>6. ASSUME NEW r \in Runs, ResubscribeNext(r), Up'
      PROVE  (Up => CellServes)'
  <2>1. PICK t \in run[r].todo : ResubscribeEntry(r, t)
    BY <1>6, ResubscribeNextForm
  <2>2. /\ t \in Topics /\ run[r].at = "range" /\ run'[r].at = "subscribe"
        /\ run'[r].todo = run[r].todo \ {t} /\ run'[r].topic = t
        /\ \A q \in Runs \ {r} : run'[q] = run[q]
        /\ \A u \in Topics \ {t} : router'[pahoClient][u] = router[pahoClient][u]
    BY <2>1 DEF ResubscribeEntry
  <2>3. UNCHANGED <<pahoClient, subscriptions, call, status, crash>>
    BY <1>6 DEF ResubscribeNext, shared
  <2>4. CellServes /\ run[r].old = Live
    BY <1>6, <2>2, <2>3 DEF Up, Online, ServiceOK, NoneAbandoned
  <2>5. subscriptions[t] # Absent
    BY <2>2, <2>4 DEF TodoPresent, OnLiveMap
  <2>6. Excused(t)'
    BY <2>2 DEF Excused, Ranging
  <2>7. ASSUME NEW u \in Topics \ {t}
        PROVE  AnotherEntry(u)'
    BY <2>2, <2>3, <2>5 DEF AnotherEntry
  <2> QED
    BY <2>6, <2>7 DEF CellServes
<1>7. ASSUME NEW r \in Runs, ResubscribeTopic(r), Up'
      PROVE  (Up => CellServes)'
  <2> DEFINE t == run[r].topic
  <2>1. UNCHANGED <<pahoClient, subscriptions, call, status, crash>>
    BY <1>7 DEF ResubscribeTopic, shared
  <2>2. /\ run[r].at = "subscribe" /\ run'[r].at = "range"
        /\ run'[r].todo = run[r].todo /\ run'[r].sub = run[r].sub
        /\ \A q \in Runs \ {r} : run'[q] = run[q]
    BY <1>7 DEF ResubscribeTopic, TypeOK, RunRec
  <2>3. CellServes /\ run[r].old = Live
    BY <1>7, <2>1, <2>2 DEF Up, Online, ServiceOK, NoneAbandoned
  <2>4. pahoClient \in Clients /\ t \in Topics
    BY <1>7, <2>1 DEF Up, Online, TypeOK, ResubscribeTopic, RunsOK
  <2>5. /\ router'[pahoClient][t] = Shared(r)
        /\ \A u \in Topics \ {t} : router'[pahoClient][u] = router[pahoClient][u]
    BY <1>7, <2>1, <2>4 DEF Up, Online, ResubscribeTopic, PahoSubscribe, TypeOK
  <2>6. ASSUME NEW q \in Runs, subscriptions[t] \in Handlers, Shared(r) = Shared(q)
        PROVE  run'[q].sub = subscriptions[t]
    <3>1. subscriptions[t] = run[r].sub
      BY <2>2, <2>3, <2>6, ConstantsAssumption DEF CellCurrent, OnLiveMap
    <3> QED
      BY <2>2, <2>6, <3>1 DEF Shared
  <2>7. \A u \in Topics \ {t} : Excused(u) => Excused(u)'
    BY <2>1, <2>2 DEF Excused, Ranging
  <2>8. \A q \in Runs : run'[q].sub = run[q].sub
    BY <2>2
  <2>9. ASSUME NEW u \in Topics \ {t}, NEW q \in Runs, subscriptions[u] \in Handlers,
               router[pahoClient][u] = Shared(q)
        PROVE  (Excused(u) \/ run[q].sub = subscriptions[u] \/ AnotherEntry(u))'
    BY <2>1, <2>3, <2>7, <2>8, <2>9 DEF CellServes, AnotherEntry
  <2> QED
    BY <2>1, <2>5, <2>6, <2>9 DEF CellServes
<1>8. ASSUME NEW r \in Runs, ResubscribeEnd(r), Up'
      PROVE  (Up => CellServes)'
  <2>1. UNCHANGED <<pahoClient, subscriptions, call, router, status, crash>>
    BY <1>8 DEF ResubscribeEnd, pahoVars
  <2>2. /\ run[r].at = "range" /\ run[r].todo = {} /\ run'[r].at = "done"
        /\ run'[r].sub = run[r].sub
        /\ \A q \in Runs \ {r} : run'[q] = run[q]
    BY <1>8 DEF ResubscribeEnd, TypeOK, RunRec
  <2>3. Up
    BY <1>8, <2>1, <2>2 DEF Up, Online
  <2>4. \A t \in Topics : ~Ranging(r, t)
    BY <2>2 DEF Ranging, RunsOK
  <2>5. \A t \in Topics : Excused(t) => Excused(t)'
    BY <2>1, <2>2, <2>4 DEF Excused, Ranging
  <2> QED
    BY <2>1, <2>2, <2>3, <2>5, CellKeep
<1>9. ASSUME NEW p \in Callers,
             \/ Call(p) \/ SubscribeLock(p) \/ UnsubscribeLookup(p)
             \/ PublishSend(p)
             \/ p = Owner /\ (DisconnectLock \/ ConnectFails)
      PROVE  (Up => CellServes)'
  <2>1. \A q \in Callers :
          call[q].at \in {"subStore", "unsubStore"} => call'[q] = call[q]
    BY <1>9
    DEF Call, Start, SubscribeLock, UnsubscribeLookup, PublishSend, DisconnectLock,
      ConnectFails, Goto, Return, TypeOK
  <2>2. UNCHANGED <<pahoClient, subscriptions, run, router, status, crash>>
    BY <1>9
    DEF Call, SubscribeLock, UnsubscribeLookup, PublishSend, DisconnectLock,
      ConnectFails, shared, pahoVars
  <2>3. Up' => Up
    BY <2>2 DEF Up, Online
  <2> QED
    BY <1>1, <2>1, <2>2, <2>3
<1>10. ASSUME NEW c \in Clients, ConnectionLost(c)
       PROVE  (Up => CellServes)'
  <2>1. Up' => Up
    BY <1>10 DEF ConnectionLost, Up, Online, shared, TypeOK
  <2> QED
    BY <1>1, <1>10, <2>1 DEF ConnectionLost, shared
<1>11. ASSUME \/ DisconnectPaho \/ DisconnectNil \/ DisconnectClear
              \/ ConnectClose \/ ConnectNew
       PROVE  ~Up'
  BY <1>11
  DEF DisconnectPaho, DisconnectNil, DisconnectClear, ConnectClose, ConnectNew,
    PahoDisconnect, OwnerOK, Up, Online, shared, TypeOK
<1>12. ASSUME SpawnResubscribe
       PROVE  ~Up'
  BY <1>12 DEF SpawnResubscribe, Up, TypeOK
<1>13. CASE UNCHANGED vars
  <2>1. Up' => Up
    BY <1>13 DEF vars, Up, Online
  <2> QED
    BY <1>1, <1>13, <2>1 DEF vars
<1>14. ASSUME Next, Up'
       PROVE  \/ \E p \in Callers :
                   \/ SubscribePaho(p) \/ UnsubscribePaho(p)
                   \/ SubscribeStore(p) \/ UnsubscribeStore(p)
                   \/ Call(p) \/ SubscribeLock(p) \/ UnsubscribeLookup(p) \/ PublishSend(p)
              \/ DisconnectLock \/ ConnectFails
              \/ \E r \in Runs : \/ ResubscribeLock(r) \/ ResubscribeNext(r)
                               \/ ResubscribeTopic(r) \/ ResubscribeEnd(r)
              \/ \E c \in Clients : ConnectionLost(c)
  <2>1. crash' = "none"
    BY <1>14 DEF Up
  <2>2. ~(NilClient \/ MapRace \/ \E c \in Clients, t \in Topics : DispatchNil(c, t))
    BY <2>1 DEF NilClient, MapRace, DispatchNil, Crash
  <2>3. ~SpawnResubscribe
    BY <1>12, <1>14
  <2>4. ~(DisconnectPaho \/ DisconnectNil \/ DisconnectClear \/ ConnectClose \/ ConnectNew)
    BY <1>11, <1>14
  <2> QED
    BY Zenon, <1>14, <2>2, <2>3, <2>4
    DEF Next, SubscribeStep, UnsubscribeStep, DisconnectStep, ConnectStep,
      ResubscribeStep, ConnectSucceeds, Reconnect
<1>15. CASE Next /\ Up'
  <2>1. ASSUME NEW p \in Callers,
               \/ SubscribePaho(p) \/ UnsubscribePaho(p)
               \/ SubscribeStore(p) \/ UnsubscribeStore(p)
               \/ Call(p) \/ SubscribeLock(p) \/ UnsubscribeLookup(p) \/ PublishSend(p)
        PROVE  (Up => CellServes)'
    BY <1>3, <1>4, <1>9, <1>15, <2>1
  <2>2. CASE DisconnectLock \/ ConnectFails
    BY <1>9, <2>2, ConstantsAssumption
  <2>3. ASSUME NEW r \in Runs, \/ ResubscribeLock(r) \/ ResubscribeNext(r)
                               \/ ResubscribeTopic(r) \/ ResubscribeEnd(r)
        PROVE  (Up => CellServes)'
    BY <1>5, <1>6, <1>7, <1>8, <1>15, <2>3
  <2> QED
    BY <1>10, <1>14, <1>15, <2>1, <2>2, <2>3
<1> QED
  BY <1>2, <1>13, <1>15

\* CellInv is an invariant of every behaviour where Subscribe and Unsubscribe never
\* overlap.
LEMMA CellInvariance == OneAtATime => (Spec => []CellInv)
<1> SUFFICES ASSUME OneAtATime
             PROVE  Spec => []CellInv
  OBVIOUS
<1>1. Init => CellInv
  BY DEF Init, CellInv, CellCurrent, TodoPresent, OnLiveMap, Up, Online
<1>2. IInv /\ CellInv /\ [Next]_vars => CellInv'
  BY CellMapStep, CellServesStep DEF CellInv
<1> QED
  BY <1>1, <1>2, Invariance, PTL DEF Spec

\* Where Subscribe and Unsubscribe never overlap, the loop variable that all callbacks
\* of a resubscribe share does no harm to an application with a single topic: on a
\* connection that is up and settled its messages reach the handler registered last
\* (MqttClient.go:286-303).
THEOREM SoleTopicServed == OneAtATime => (Spec => []SoleTopicRouted)
<1> SUFFICES ASSUME OneAtATime
             PROVE  Spec => []SoleTopicRouted
  OBVIOUS
<1>1. ASSUME IInv, CellInv
      PROVE  SoleTopicRouted
  <2> SUFFICES ASSUME Settled, Online, NEW t \in Topics, subscriptions[t] \in Handlers,
                      \A u \in Topics \ {t} : subscriptions[u] = Absent
               PROVE  Routed(pahoClient, t) = subscriptions[t]
    BY DEF SoleTopicRouted
  <2>1. RegisteredServed /\ CellServes
    BY <1>1 DEF IInv, ServiceOK, CellInv, Up, Settled
  <2>2. ~Excused(t)
    BY DEF Excused, Settled
  <2>3. ServedWith(t, subscriptions[t])
    BY <2>1, <2>2 DEF RegisteredServed
  <2>4. CASE router[pahoClient][t] = Direct(subscriptions[t])
    BY <2>4 DEF Routed, Direct
  <2>5. ASSUME NEW r \in Runs, router[pahoClient][t] = Shared(r)
        PROVE  Routed(pahoClient, t) = subscriptions[t]
    <3>1. run[r].sub = subscriptions[t]
      BY <2>1, <2>2, <2>5 DEF CellServes, AnotherEntry
    <3> QED
      BY <2>5, <3>1 DEF Routed, Shared
  <2> QED
    BY <2>3, <2>4, <2>5 DEF ServedWith
<1>2. IInv /\ CellInv => SoleTopicRouted
  BY <1>1
<1> QED
  BY <1>2, Invariance, CellInvariance, PTL

=============================================================================

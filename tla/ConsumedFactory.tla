--------------------------- MODULE ConsumedFactory ---------------------------
(***************************************************************************)
(* The consumed thing factory: src/pkg/consumedthing, the account's logins *)
(* and connections, the consumed things with their bindings, and the       *)
(* requests that consumed things send.                                     *)
(*                                                                         *)
(* One goroutine connects; a second one consumes and destroys things under *)
(* ctMapMutex, which the first does not take, and writes properties.  The  *)
(* TLS clients are those of TlsClient: of an exchange with the             *)
(* authentication service only the outcome is left.  Of the MQTT client    *)
(* this keeps its connection and its registered subscriptions, which       *)
(* MqttClient shows to be effective; the nil entry that Unsubscribe leaves *)
(* behind counts as none here.  The client of the directory service is     *)
(* left out: it is connected with the same token or certificate, and       *)
(* nothing in the package uses it.                                         *)
(***************************************************************************)
EXTENDS Naturals, TlsClient

CONSTANTS
  Things,        \* thing IDs
  Insts,         \* consumed thing objects; bounds the number of those made
  NoInst,
  NoCred, Certificate,   \* what the MQTT client connects with, besides tokens
  Properties,    \* the names that WriteMultipleProperties is given; not empty
  MaxTokens,     \* tokens issued to the account; a bound
  Account        \* account.LoginName

ASSUME FactoryAssumption ==
  /\ Properties # {}
  /\ NoInst \notin Insts \cup Things
  /\ Account \in Users /\ NoUser \notin Users
  /\ MaxTokens \in Nat
  /\ Certificate \notin Nat \cup {NoCred}

VARIABLES
  accessToken,   \* of the factory
  authClient,    \* the client of the authentication service
  mqtt,          \* pahoClient: none, off, on or lost; and what it is connected with
  subs,          \* registered MQTT subscriptions: whose binding handles the events
  ctMap,         \* consumed things by thing ID
  bindings,      \* bindings by thing ID: the consumed thing each belongs to
  made,          \* the thing of each object that Consume has made
  fresh,         \* objects made since the MQTT client last dropped its subscriptions
  orphans,       \* objects that were destroyed while there was no MQTT client
  issued,        \* number of tokens issued
  call,          \* what the connecting goroutine executes
  write,         \* the last WriteMultipleProperties, and its messages in Paho
  panic          \* how the process has ended

maps == <<ctMap, bindings, made>>
clients == <<accessToken, authClient, issued>>
things == <<maps, fresh, orphans>>
vars == <<clients, mqtt, subs, things, call, write, panic>>

Passwords == {"none", "right", "wrong"}
Creds == {NoCred, Certificate} \cup (0..MaxTokens)
Idle == [at |-> "idle", password |-> "none", result |-> "none"]
NoWrite == [left |-> {}, queued |-> {}, sent |-> {}, dropped |-> {}, result |-> "none"]

TypeOK ==
  /\ accessToken \in 0..MaxTokens
  /\ authClient \in Client
  /\ mqtt \in [paho : {"none", "off", "on", "lost"}, cred : Creds]
  /\ subs \in [Things -> Insts \cup {NoInst}]
  /\ ctMap \in [Things -> Insts \cup {NoInst}]
  /\ bindings \in [Things -> Insts \cup {NoInst}]
  /\ made \in [Insts -> Things \cup {NoInst}]
  /\ fresh \subseteq Insts
  /\ orphans \subseteq Insts
  /\ issued \in 0..MaxTokens
  /\ call \in [at : {"idle", "authenticate", "auth", "clients", "cert"},
               password : Passwords, result : {"none", "ok", "error"}]
  /\ write \in [left : SUBSET Properties, queued : SUBSET Properties,
                sent : SUBSET Properties, dropped : SUBSET Properties,
                result : {"none", "ok", "error"}]
  /\ panic \in {"none", "notConnected", "nilTokens"}

\* CreateConsumedThingFactory
Init ==
  /\ accessToken = NoToken
  /\ authClient = NewTLSClient
  /\ mqtt = [paho |-> "none", cred |-> NoCred]
  /\ subs = [t \in Things |-> NoInst]
  /\ ctMap = [t \in Things |-> NoInst]
  /\ bindings = [t \in Things |-> NoInst]
  /\ made = [i \in Insts |-> NoInst]
  /\ fresh = {}
  /\ orphans = {}
  /\ issued = 0
  /\ call = Idle
  /\ write = NoWrite
  /\ panic = "none"

-----------------------------------------------------------------------------
(* Connecting.                                                             *)

\* The MQTT client drops its subscriptions, and Paho the messages that it has not
\* delivered, if there is a Paho client.
MqttDisconnect ==
  /\ mqtt' = [paho |-> "none", cred |-> NoCred]
  /\ UNCHANGED <<maps, orphans>>
  /\ IF mqtt.paho = "none" THEN UNCHANGED <<subs, fresh, write>>
     ELSE /\ subs' = [t \in Things |-> NoInst]
          /\ fresh' = {}
          /\ write' = [write EXCEPT !.queued = {}, !.dropped = @ \cup write.queued]

Disconnect ==
  /\ call.at = "idle"
  /\ MqttDisconnect
  /\ UNCHANGED <<clients, call, panic>>

Begin(at, password) == call' = [at |-> at, password |-> password, result |-> "none"]
End(result) == call' = [Idle EXCEPT !.result = result]

Connect(password) ==
  /\ call.at = "idle"
  /\ MqttDisconnect
  /\ authClient' = ConnectNoAuth(authClient)
  /\ Begin("auth", password)
  /\ UNCHANGED <<accessToken, issued, panic>>

Authenticate(password) ==
  /\ call.at = "idle"
  /\ Begin("authenticate", password)
  /\ UNCHANGED <<clients, mqtt, subs, things, write, panic>>

\* The authentication service is asked for a token; a refresh needs its cookie.
Granted(ans, allowed) ==
  /\ ans \in {"ok", "empty"} => allowed
  /\ ans = "ok" => issued < MaxTokens
  /\ issued' = IF ans = "ok" THEN issued + 1 ELSE issued

\* Defect: a login is tried again until it succeeds.
AuthRetries == IF authClient'.token = authClient.token THEN UNCHANGED call
               ELSE IF call.at = "auth" THEN Begin("clients", "none") ELSE End("ok")

\* Authenticate always returns nil: its err is that of an inner scope.
AuthReturns == IF call.at = "auth" THEN Begin("clients", "none") ELSE End("ok")

Login ==
  /\ call.at \in {"auth", "authenticate"}
  /\ call.password # "none"
  /\ \E ans \in Answers :
       /\ Granted(ans, call.password = "right")
       /\ authClient' = LoginAnswered(LoginStart(authClient, Account), ans, issued', Account)
       /\ accessToken' = IF LoginFails(ans) THEN accessToken ELSE authClient'.token
  /\ AuthReturns
  /\ UNCHANGED <<mqtt, subs, things, write, panic>>

\* The access token has expired before the login, and refreshing it wipes it.
LoginWipesToken ==
  /\ call.at \in {"auth", "authenticate"}
  /\ call.password # "none"
  /\ authClient.token # NoToken
  /\ authClient' = RefreshAnswered(LoginStart(authClient, Account), "malformed", NoToken)
  /\ AuthReturns
  /\ UNCHANGED <<accessToken, issued, mqtt, subs, things, write, panic>>

\* A refused refresh yields no tokens and no error: their use panics.
RefreshTokens ==
  /\ call.at \in {"auth", "authenticate"}
  /\ call.password = "none"
  /\ IF authClient.http = NoHttp
     THEN panic' = "notConnected" /\ UNCHANGED <<clients, call>>
     ELSE \E ans \in Answers :
            /\ Granted(ans, authClient.http.cookie # NoUser)
            /\ ans = "malformed" => authClient.http.cookie # NoUser
            /\ authClient' = RefreshAnswered(authClient, ans, issued')
            /\ IF RefreshIsNil(ans) /\ ~RefreshFails(ans)
               THEN panic' = "nilTokens" /\ UNCHANGED <<accessToken, call>>
               ELSE /\ accessToken' = IF RefreshFails(ans) THEN accessToken ELSE authClient'.token
                    /\ AuthReturns
                    /\ UNCHANGED panic
  /\ UNCHANGED <<mqtt, subs, things, write>>

\* The broker accepts a token of the account; after a timeout the client that
\* could not connect stays behind.
MqttConnect(cred, accepted) ==
  \/ accepted /\ mqtt' = [paho |-> "on", cred |-> cred] /\ End("ok")
  \/ mqtt' = [paho |-> "off", cred |-> cred] /\ End("error")

\* Defect: the error of the MQTT connection is not returned.
MqttErrorIgnored ==
  /\ call.at = "clients"
  /\ mqtt' \in [paho : {"on", "off"}, cred : {accessToken}]
  /\ End("ok")
  /\ UNCHANGED <<clients, subs, things, write, panic>>

ConnectClients ==
  /\ call.at = "clients"
  /\ MqttConnect(accessToken, accessToken # NoToken)
  /\ UNCHANGED <<clients, subs, things, write, panic>>

ConnectWithCert ==
  /\ call.at = "idle"
  /\ MqttDisconnect
  /\ Begin("cert", "none")
  /\ UNCHANGED <<clients, panic>>

\* A certificate that the CA has not signed is refused by the directory's client,
\* after MQTT is connected.
ConnectCertClients ==
  /\ call.at = "cert"
  /\ \/ MqttConnect(Certificate, TRUE)
     \/ mqtt' = [paho |-> "on", cred |-> Certificate] /\ End("error")
  /\ UNCHANGED <<clients, subs, things, write, panic>>

-----------------------------------------------------------------------------
(* Consuming.                                                              *)

\* Defect: a thing that is consumed while there is no connection is not started.
ConsumeOnline(t) ==
  /\ ctMap[t] = NoInst
  /\ \E i \in Insts :
       /\ made[i] = NoInst
       /\ made' = [made EXCEPT ![i] = t]
       /\ fresh' = fresh \cup {i}
       /\ ctMap' = [ctMap EXCEPT ![t] = i]
       /\ bindings' = [bindings EXCEPT ![t] = i]
       /\ subs' = IF mqtt.paho = "on" THEN [subs EXCEPT ![t] = i] ELSE subs
  /\ UNCHANGED <<clients, mqtt, orphans, call, write, panic>>

\* A thing that is consumed already is returned as it is, started or not.
Consume(t) ==
  /\ ctMap[t] = NoInst
  /\ \E i \in Insts :
       /\ made[i] = NoInst
       /\ made' = [made EXCEPT ![i] = t]
       /\ fresh' = fresh \cup {i}
       /\ ctMap' = [ctMap EXCEPT ![t] = i]
       /\ bindings' = [bindings EXCEPT ![t] = i]
       /\ subs' = [subs EXCEPT ![t] = i]
  /\ UNCHANGED <<clients, mqtt, orphans, call, write, panic>>

\* Defect: the binding stays in its map.
DestroyKeepsBinding(i) ==
  /\ made[i] # NoInst
  /\ subs' = [subs EXCEPT ![made[i]] = NoInst]
  /\ ctMap' = [ctMap EXCEPT ![made[i]] = NoInst]
  /\ UNCHANGED <<clients, mqtt, bindings, made, fresh, orphans, call, write, panic>>

\* Everything goes by the thing ID: given an object that was replaced, the new one
\* is unsubscribed and removed, while the old one is stopped.  Unsubscribe does
\* nothing without a Paho client.
Destroy(i) ==
  /\ made[i] # NoInst
  /\ LET t == made[i]
         offline == mqtt.paho = "none"
     IN /\ subs' = IF bindings[t] = NoInst \/ offline THEN subs
                   ELSE [subs EXCEPT ![t] = NoInst]
        /\ orphans' = IF offline THEN orphans \cup ({ctMap[t]} \ {NoInst}) ELSE orphans
        /\ bindings' = [bindings EXCEPT ![t] = NoInst]
        /\ ctMap' = [ctMap EXCEPT ![t] = NoInst]
  /\ UNCHANGED <<clients, mqtt, made, fresh, call, write, panic>>

-----------------------------------------------------------------------------
(* Requests of a consumed thing.                                           *)

\* WriteMultipleProperties publishes one property after the other, in any order.
WriteMultipleProperties ==
  /\ write.left = {}
  /\ \E i \in Insts : made[i] # NoInst
  /\ write' = [NoWrite EXCEPT !.left = Properties]
  /\ UNCHANGED <<clients, mqtt, subs, things, call, panic>>

\* Publish asks whether Paho IsConnected, which holds also while it reconnects.
Accepting == mqtt.paho \in {"on", "lost"}
Accepted(p) == write' = [write EXCEPT !.left = @ \ {p}, !.queued = @ \cup {p},
                           !.result = IF write.left = {p} THEN "ok" ELSE "none"]

\* Defect: a failure is passed over and the last result returned.
WriteOn(p) ==
  /\ p \in write.left
  /\ \/ Accepting /\ Accepted(p)
     \/ write' = [write EXCEPT !.left = @ \ {p},
                              !.result = IF write.left = {p} THEN "error" ELSE "none"]
  /\ UNCHANGED <<clients, mqtt, subs, things, call, panic>>

\* Defect: published with quality of service 0, which Paho does not store while
\* it reconnects.
WriteQos0(p) ==
  /\ p \in write.left
  /\ \/ mqtt.paho = "on" /\ Accepted(p)
     \/ mqtt.paho = "lost" /\ write' = [write EXCEPT !.left = @ \ {p},
                                !.result = IF write.left = {p} THEN "ok" ELSE "none"]
     \/ write' = [write EXCEPT !.left = {}, !.result = "error"]
  /\ UNCHANGED <<clients, mqtt, subs, things, call, panic>>

\* The binding publishes on things/{id}/action/{name} and does not wait for the
\* token: nil says that Paho has taken the message.  The first failure ends the
\* call; after a timeout of Paho its message is stored all the same.
WriteProperty(p) ==
  /\ p \in write.left
  /\ \/ Accepting /\ Accepted(p)
     \/ \E stored \in SUBSET {p} :
          /\ stored # {} => mqtt.paho = "on"
          /\ write' = [write EXCEPT !.left = {}, !.queued = @ \cup stored, !.result = "error"]
  /\ UNCHANGED <<clients, mqtt, subs, things, call, panic>>

\* Paho delivers what it has stored, also after a reconnect, in any order.
Deliver(p) ==
  /\ mqtt.paho = "on"
  /\ p \in write.queued
  /\ write' = [write EXCEPT !.queued = @ \ {p}, !.sent = @ \cup {p}]
  /\ UNCHANGED <<clients, mqtt, subs, things, call, panic>>

\* Paho loses its connection and regains it.
ConnectionChanges ==
  /\ mqtt.paho \in {"on", "lost"}
  /\ mqtt' = [mqtt EXCEPT !.paho = IF @ = "on" THEN "lost" ELSE "on"]
  /\ UNCHANGED <<clients, subs, things, call, write, panic>>

-----------------------------------------------------------------------------
CallStep == Login \/ LoginWipesToken \/ RefreshTokens \/ ConnectClients \/ ConnectCertClients

Next ==
  /\ panic = "none"
  /\ \/ CallStep \/ Disconnect \/ ConnectWithCert \/ ConnectionChanges
     \/ \E pw \in Passwords : Connect(pw) \/ Authenticate(pw)
     \/ \E t \in Things : Consume(t)
     \/ \E i \in Insts : Destroy(i)
     \/ WriteMultipleProperties
     \/ \E p \in Properties : WriteProperty(p) \/ Deliver(p)

Spec == Init /\ [][Next]_vars

\* The connecting goroutine is scheduled and every exchange has its timeout; Paho
\* delivers what it has stored while it stays connected.
FairSpec == /\ Spec /\ WF_vars(panic = "none" /\ CallStep)
            /\ WF_vars(panic = "none" /\ \E p \in Properties : Deliver(p))

-----------------------------------------------------------------------------
\* The factory has a binding for a thing exactly when it has the consumed thing,
\* and it is the binding of that object: Consume and Destroy change two maps.
MapsAgree == bindings = ctMap

\* The events of a thing are handled by the consumed thing that the factory has for
\* it, whatever the order of Consume, Destroy and connects, and also of an old
\* object.  Two exceptions: a Disconnect takes the events from the things it finds,
\* and Consume does not give them back (ConsumedThingFactory.go:163); and a Destroy
\* without a client leaves the object registered (MqttClient.go:371).
ConsumedIsSubscribed ==
  \A t \in Things :
    /\ ctMap[t] \in fresh => subs[t] = ctMap[t]
    /\ subs[t] \notin {NoInst, ctMap[t]} => subs[t] \in orphans

\* A connect that returns without error has connected to the message bus, with a
\* certificate or with a token that the account was issued.
ConnectHonest ==
  [][call.at \in {"clients", "cert"} /\ call'.result = "ok"
       => mqtt'.paho = "on" /\ (mqtt'.cred = Certificate \/ mqtt'.cred \in 1..issued)]_vars

\* WriteMultipleProperties returns nil only when no property was passed over: each
\* is delivered or still stored by Paho, or a Disconnect has dropped it since.
WritesReported ==
  write.result = "ok" => write.queued \cup write.sent \cup write.dropped = Properties

\* What WriteMultipleProperties has returned nil for is delivered, also when it was
\* published during a reconnect, once connections are no longer lost; unless a
\* Disconnect drops it, or a next write takes its place here.
WritesDelivered ==
  <>[](mqtt.paho # "lost") =>
    (write.result = "ok")
      ~> (write.sent \cup write.dropped = Properties \/ write.result # "ok" \/ panic # "none")

\* Connect, ConnectWithCert and Authenticate return, unless the process panics.
ConnectReturns == (call.at # "idle") ~> (call.at = "idle" \/ panic # "none")

\* Connect without a password refreshes the existing tokens, and when that fails
\* the caller can connect again with a password: the process does not end.
ConnectSurvives == panic # "nilTokens"
=============================================================================

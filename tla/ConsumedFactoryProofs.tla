------------------------ MODULE ConsumedFactoryProofs ------------------------
(***************************************************************************)
(* Proofs about the consumed thing factory, for any number of things,      *)
(* objects, properties and tokens.                                         *)
(***************************************************************************)
EXTENDS ConsumedFactory, TLAPS

-----------------------------------------------------------------------------
(* The operations of the TLS client return clients.                        *)

LEMMA ConnectTypes ==
  ASSUME NEW cl \in Client
  PROVE  /\ connect(cl) \in Client
         /\ connect(cl).token = cl.token
  BY DEF Client, connect

LEMMA LoginTypes ==
  ASSUME NEW cl \in Client, NEW u \in Users, NEW token \in Nat, NEW ans \in Answers
  PROVE  LET next == LoginAnswered(LoginStart(cl, u), ans, token, u)
         IN  /\ next \in Client
             /\ ~LoginFails(ans) => next.token = IF ans = "ok" THEN token ELSE NoToken
<1>1. LoginStart(cl, u) \in Client
  <2>1. connect(cl) \in Client
    BY ConnectTypes
  <2> QED
    BY <2>1 DEF Client, LoginStart
<1>2. ASSUME NEW c \in Client
      PROVE  /\ LoginAnswered(c, ans, token, u) \in Client
             /\ ~LoginFails(ans) =>
                  LoginAnswered(c, ans, token, u).token = IF ans = "ok" THEN token ELSE NoToken
  <2>1. CASE ans = "ok"
    <3>1. LoginAnswered(c, ans, token, u) =
            [c EXCEPT !.token = token,
                      !.http = IF c.http # NoHttp /\ c.http.jar
                               THEN [c.http EXCEPT !.cookie = u] ELSE c.http]
      BY <2>1 DEF LoginAnswered, Client
    <3>2. (IF c.http # NoHttp /\ c.http.jar THEN [c.http EXCEPT !.cookie = u] ELSE c.http)
            \in {NoHttp} \cup [jar : BOOLEAN, cookie : Users \cup {NoUser}]
      BY ZenonT(60) DEF Client
    <3> QED
      BY <2>1, <3>1, <3>2 DEF Client
  <2>2. CASE ans # "ok"
    BY <2>2 DEF LoginAnswered, LoginFails, Client, NoToken
  <2> QED
    BY <2>1, <2>2
<1> QED
  BY <1>1, <1>2

LEMMA RefreshTypes ==
  ASSUME NEW cl \in Client, NEW token \in Nat, NEW ans \in Answers
  PROVE  /\ RefreshAnswered(cl, ans, token) \in Client
         /\ ~RefreshIsNil(ans) =>
              RefreshAnswered(cl, ans, token).token = IF ans = "ok" THEN token ELSE NoToken
  BY DEF Client, RefreshAnswered, RefreshIsNil, Answers, NoToken

-----------------------------------------------------------------------------
(* The inductive invariant.                                                *)

\* A token in use was issued to the account.
TokenIssued == accessToken <= issued

\* The call's result is that of a call that has ended.
ResultAtEnd == call.at # "idle" => call.result = "none"

\* An object that Consume has handed out belongs to the thing it is stored for.
MadeFor == \A t \in Things : ctMap[t] # NoInst => made[ctMap[t]] = t

\* While properties are left to write, Paho has taken the others.
WriteInOrder ==
  write.left # {} =>
    write.queued \cup write.sent \cup write.dropped = Properties \ write.left

IInv ==
  /\ TypeOK /\ TokenIssued /\ ResultAtEnd
  /\ MapsAgree /\ MadeFor /\ ConsumedIsSubscribed
  /\ WriteInOrder /\ WritesReported

LEMMA InitInv == Init => IInv
<1> SUFFICES ASSUME Init PROVE IInv
  OBVIOUS
<1> USE FactoryAssumption
<1>1. NewTLSClient \in Client
  BY DEF NewTLSClient, Client, NoToken
<1>2. TypeOK
  BY <1>1 DEF Init, TypeOK, Idle, NoWrite, NoToken, Passwords, Creds
<1>3. TokenIssued /\ ResultAtEnd
  BY DEF Init, TokenIssued, ResultAtEnd, Idle, NoToken
<1>4. MapsAgree /\ MadeFor /\ ConsumedIsSubscribed
  BY DEF Init, MapsAgree, MadeFor, ConsumedIsSubscribed
<1>5. WriteInOrder /\ WritesReported
  BY DEF Init, WriteInOrder, WritesReported, NoWrite
<1> QED
  BY <1>2, <1>3, <1>4, <1>5 DEF IInv

-----------------------------------------------------------------------------
(* Types, one action at a time.                                            *)

\* The type of write.
Writes == [left : SUBSET Properties, queued : SUBSET Properties, sent : SUBSET Properties,
           dropped : SUBSET Properties, result : {"none", "ok", "error"}]

LEMMA ConnectKeepsTypes ==
  ASSUME TypeOK, NEW pw \in Passwords,
         Connect(pw) \/ Authenticate(pw) \/ Disconnect \/ ConnectWithCert
  PROVE  TypeOK'
<1>1. ConnectNoAuth(authClient) \in Client
  BY ConnectTypes DEF TypeOK, ConnectNoAuth
<1>2. MqttDisconnect =>
        /\ mqtt' \in [paho : {"none", "off", "on", "lost"}, cred : Creds]
        /\ subs' \in [Things -> Insts \cup {NoInst}]
        /\ fresh' \subseteq Insts
        /\ write' \in Writes
        /\ UNCHANGED <<maps, orphans>>
  <2>1. [write EXCEPT !.queued = {}, !.dropped = @ \cup write.queued] \in Writes
    BY DEF TypeOK, Writes
  <2>2. write \in Writes
    BY DEF TypeOK, Writes
  <2> QED
    BY <2>1, <2>2 DEF TypeOK, MqttDisconnect, Creds
<1>3. ASSUME NEW at \in {"authenticate", "auth", "cert"}, NEW p \in Passwords, Begin(at, p)
      PROVE  call' \in [at : {"idle", "authenticate", "auth", "clients", "cert"},
                        password : Passwords, result : {"none", "ok", "error"}]
  BY <1>3 DEF Begin
<1>4. "none" \in Passwords
  BY DEF Passwords
<1> QED
  BY <1>1, <1>2, <1>3, <1>4
     DEF TypeOK, Connect, Authenticate, Disconnect, ConnectWithCert, maps, clients, things, Writes

LEMMA CallRecords ==
  /\ \A result \in {"ok", "error"} :
       End(result) => /\ call' \in [at : {"idle"}, password : {"none"}, result : {result}]
                      /\ call'.at = "idle" /\ call'.result = result
  /\ \A at, pw : Begin(at, pw) => /\ call'.at = at /\ call'.password = pw /\ call'.result = "none"
                                /\ call' \in [at : {at}, password : {pw}, result : {"none"}]
  BY DEF End, Begin, Idle

LEMMA AuthReturnsTypes ==
  ASSUME AuthReturns
  PROVE  /\ call' \in [at : {"idle", "clients"}, password : {"none"}, result : {"none", "ok"}]
         /\ call'.at = "clients" => call'.result = "none"
         /\ call.at = "auth" => call'.at = "clients"
  BY CallRecords DEF AuthReturns

LEMMA GrantedTypes ==
  ASSUME TypeOK, NEW ans, NEW allowed, Granted(ans, allowed)
  PROVE  /\ issued' \in 0..MaxTokens /\ issued <= issued'
         /\ ans = "ok" => issued' = issued + 1
  BY FactoryAssumption DEF Granted, TypeOK

\* A token that is taken into use was issued, also when an answer holds none.
LEMMA LoginFacts ==
  ASSUME TypeOK, TokenIssued, Login
  PROVE  /\ authClient' \in Client /\ issued' \in 0..MaxTokens
         /\ accessToken' \in 0..issued'
<1> USE FactoryAssumption
<1>1. PICK ans \in Answers :
        /\ Granted(ans, call.password = "right")
        /\ authClient' = LoginAnswered(LoginStart(authClient, Account), ans, issued', Account)
        /\ accessToken' = IF LoginFails(ans) THEN accessToken ELSE authClient'.token
  BY DEF Login
<1>2. issued' \in 0..MaxTokens /\ issued <= issued' /\ issued \in Nat
  BY <1>1, GrantedTypes DEF TypeOK
<1>3. /\ authClient' \in Client
      /\ ~LoginFails(ans) => authClient'.token = IF ans = "ok" THEN issued' ELSE NoToken
  BY <1>1, <1>2, LoginTypes DEF TypeOK
<1> QED
  BY <1>1, <1>2, <1>3 DEF TypeOK, TokenIssued, NoToken

LEMMA RefreshFacts ==
  ASSUME TypeOK, TokenIssued, RefreshTokens
  PROVE  /\ authClient' \in Client /\ issued' \in 0..MaxTokens
         /\ accessToken' \in 0..issued'
         /\ panic' \in {"none", "notConnected", "nilTokens"}
         /\ AuthReturns \/ UNCHANGED call
<1> USE FactoryAssumption
<1>1. CASE authClient.http = NoHttp
  BY <1>1 DEF TypeOK, TokenIssued, RefreshTokens, clients
<1>2. CASE authClient.http # NoHttp
  <2>1. PICK ans \in Answers :
          /\ Granted(ans, authClient.http.cookie # NoUser)
          /\ authClient' = RefreshAnswered(authClient, ans, issued')
          /\ \/ panic' = "nilTokens" /\ UNCHANGED <<accessToken, call>>
             \/ /\ ~(RefreshIsNil(ans) /\ ~RefreshFails(ans))
                /\ accessToken' = IF RefreshFails(ans) THEN accessToken ELSE authClient'.token
                /\ AuthReturns /\ UNCHANGED panic
    BY <1>2 DEF RefreshTokens
  <2>2. issued' \in 0..MaxTokens /\ issued <= issued' /\ issued \in Nat
    BY <2>1, GrantedTypes DEF TypeOK
  <2>3. /\ authClient' \in Client
        /\ ~RefreshIsNil(ans) => authClient'.token = IF ans = "ok" THEN issued' ELSE NoToken
    BY <2>1, <2>2, RefreshTypes DEF TypeOK
  <2>4. accessToken' \in 0..issued'
    BY <2>1, <2>2, <2>3 DEF TypeOK, TokenIssued, NoToken
  <2> QED
    BY <2>1, <2>2, <2>3, <2>4 DEF TypeOK
<1> QED
  BY <1>1, <1>2

LEMMA AuthKeepsTypes ==
  ASSUME TypeOK, TokenIssued, Login \/ LoginWipesToken \/ RefreshTokens
  PROVE  TypeOK'
<1> USE FactoryAssumption
<1>1. CASE Login
  <2>1. accessToken' \in 0..MaxTokens
    BY <1>1, LoginFacts
  <2> QED
    BY <1>1, <2>1, LoginFacts, AuthReturnsTypes DEF TypeOK, Login, things, maps, Passwords
<1>2. CASE LoginWipesToken
  <2>1. authClient' \in Client
    <3>1. LoginStart(authClient, Account) \in Client
      BY ConnectTypes DEF TypeOK, Client, LoginStart
    <3> QED
      BY <1>2, <3>1, RefreshTypes DEF LoginWipesToken, NoToken, Answers
  <2> QED
    BY <1>2, <2>1, AuthReturnsTypes DEF TypeOK, LoginWipesToken, things, maps, Passwords
<1>3. CASE RefreshTokens
  <2>1. accessToken' \in 0..MaxTokens
    BY <1>3, RefreshFacts
  <2>2. call' \in [at : {"idle", "authenticate", "auth", "clients", "cert"},
                  password : Passwords, result : {"none", "ok", "error"}]
    BY <1>3, RefreshFacts, AuthReturnsTypes DEF TypeOK, Passwords
  <2>3. UNCHANGED <<mqtt, subs, ctMap, bindings, made, fresh, orphans, write>>
    BY <1>3 DEF RefreshTokens, things, maps
  <2> QED
    BY <1>3, <2>1, <2>2, <2>3, RefreshFacts DEF TypeOK
<1> QED
  BY <1>1, <1>2, <1>3

LEMMA MqttConnectTypes ==
  ASSUME NEW cred \in Creds, NEW accepted \in BOOLEAN, MqttConnect(cred, accepted)
  PROVE  /\ mqtt' \in [paho : {"on", "off"}, cred : {cred}]
         /\ mqtt'.cred = cred
         /\ call'.at = "idle" /\ call'.result \in {"ok", "error"}
         /\ call' \in [at : {"idle"}, password : {"none"}, result : {"ok", "error"}]
         /\ call'.result = "ok" => mqtt'.paho = "on" /\ accepted
  BY CallRecords DEF MqttConnect

LEMMA ClientsKeepTypes ==
  ASSUME TypeOK, ConnectClients \/ ConnectCertClients
  PROVE  TypeOK'
<1>1. CASE ConnectClients
  <2>1. accessToken \in Creds /\ (accessToken # NoToken) \in BOOLEAN
    BY FactoryAssumption DEF TypeOK, Creds
  <2> QED
    BY <1>1, <2>1, MqttConnectTypes DEF TypeOK, ConnectClients, clients, things, maps, Passwords
<1>2. CASE ConnectCertClients
  <2>1. Certificate \in Creds
    BY DEF Creds
  <2>3. \/ MqttConnect(Certificate, TRUE)
        \/ mqtt' = [paho |-> "on", cred |-> Certificate] /\ End("error")
    BY <1>2 DEF ConnectCertClients
  <2>4. mqtt' \in [paho : {"none", "off", "on", "lost"}, cred : Creds]
    <3>1. CASE MqttConnect(Certificate, TRUE)
      <4>1. mqtt' \in [paho : {"on", "off"}, cred : {Certificate}]
        BY <2>1, <3>1, MqttConnectTypes
      <4> QED
        BY <2>1, <4>1
    <3>2. CASE mqtt' = [paho |-> "on", cred |-> Certificate]
      BY <2>1, <3>2
    <3> QED
      BY <2>3, <3>1, <3>2
  <2>5. call' \in [at : {"idle", "authenticate", "auth", "clients", "cert"},
                  password : Passwords, result : {"none", "ok", "error"}]
    BY <2>1, <2>3, MqttConnectTypes, CallRecords DEF Passwords
  <2> QED
    BY <1>2, <2>4, <2>5 DEF TypeOK, ConnectCertClients, clients, things, maps
<1> QED
  BY <1>1, <1>2

\* What a step of a write does to it.
LEMMA WriteForms ==
  ASSUME TypeOK, NEW p \in Properties, WriteProperty(p) \/ Deliver(p)
  PROVE  /\ write' \in Writes
         /\ \/ /\ p \in write.left
               /\ write'.left = write.left \ {p} /\ write'.queued = write.queued \cup {p}
               /\ write'.sent = write.sent /\ write'.dropped = write.dropped
               /\ write'.result = IF write.left = {p} THEN "ok" ELSE "none"
            \/ write'.left = {} /\ write'.result = "error"
            \/ /\ p \in write.queued
               /\ write'.left = write.left /\ write'.queued = write.queued \ {p}
               /\ write'.sent = write.sent \cup {p} /\ write'.dropped = write.dropped
               /\ write'.result = write.result
<1> USE DEF TypeOK, Writes
<1>1. CASE Accepting /\ p \in write.left /\ Accepted(p)
  <2>1. write' = [left |-> write.left \ {p}, queued |-> write.queued \cup {p},
                  sent |-> write.sent, dropped |-> write.dropped,
                  result |-> IF write.left = {p} THEN "ok" ELSE "none"]
    BY <1>1 DEF Accepted
  <2>2. (IF write.left = {p} THEN "ok" ELSE "none") \in {"none", "ok", "error"}
    OBVIOUS
  <2> QED
    BY <1>1, <2>1, <2>2
<1>2. ASSUME NEW stored \in SUBSET {p},
             write' = [write EXCEPT !.left = {}, !.queued = @ \cup stored, !.result = "error"]
      PROVE  write' \in Writes /\ write'.left = {} /\ write'.result = "error"
  BY <1>2
<1>3. CASE Deliver(p)
  <2>1. write' = [left |-> write.left, queued |-> write.queued \ {p},
                  sent |-> write.sent \cup {p}, dropped |-> write.dropped,
                  result |-> write.result]
    BY <1>3 DEF Deliver
  <2> QED
    BY <1>3, <2>1 DEF Deliver
<1> QED
  BY <1>1, <1>2, <1>3 DEF WriteProperty

LEMMA OtherKeepTypes ==
  ASSUME TypeOK,
         \/ \E t \in Things : Consume(t)
         \/ \E i \in Insts : Destroy(i)
         \/ WriteMultipleProperties
         \/ \E p \in Properties : WriteProperty(p) \/ Deliver(p)
         \/ ConnectionChanges
         \/ UNCHANGED vars
  PROVE  TypeOK'
<1>1. ASSUME NEW t \in Things, Consume(t) PROVE TypeOK'
  BY SMTT(30), <1>1 DEF TypeOK, Consume, clients
<1>2. ASSUME NEW i \in Insts, Destroy(i) PROVE TypeOK'
  <2>1. orphans' \subseteq Insts
    BY <1>2 DEF TypeOK, Destroy
  <2> QED
    BY <1>2, <2>1 DEF TypeOK, Destroy, clients
<1>3. CASE WriteMultipleProperties
  BY <1>3 DEF TypeOK, WriteMultipleProperties, NoWrite, clients, things, maps
<1>4. ASSUME NEW p \in Properties, WriteProperty(p) \/ Deliver(p) PROVE TypeOK'
  <2>1. write' \in Writes
    BY <1>4, WriteForms
  <2> QED
    BY <1>4, <2>1 DEF TypeOK, WriteProperty, Deliver, clients, things, maps, Writes
<1>5. CASE ConnectionChanges
  BY <1>5 DEF TypeOK, ConnectionChanges, clients, things, maps
<1>6. CASE UNCHANGED vars
  BY <1>6 DEF TypeOK, vars, clients, things, maps
<1> QED
  BY <1>1, <1>2, <1>3, <1>4, <1>5, <1>6

LEMMA TypeStep == TypeOK /\ TokenIssued /\ [Next]_vars => TypeOK'
<1> SUFFICES ASSUME TypeOK, TokenIssued, [Next]_vars PROVE TypeOK'
  OBVIOUS
<1>1. CASE CallStep
  BY <1>1, AuthKeepsTypes, ClientsKeepTypes DEF CallStep
<1>2. "none" \in Passwords
  BY DEF Passwords
<1>3. CASE Disconnect \/ ConnectWithCert
  BY <1>2, <1>3, ConnectKeepsTypes
<1>4. ASSUME NEW pw \in Passwords, Connect(pw) \/ Authenticate(pw) PROVE TypeOK'
  BY <1>4, ConnectKeepsTypes
<1> QED
  BY <1>1, <1>3, <1>4, OtherKeepTypes DEF Next

-----------------------------------------------------------------------------
(* The conjuncts of the invariant.                                         *)

\* A token is stored when it is issued; a lost one is not replaced.
LEMMA TokenStep == TypeOK /\ TokenIssued /\ [Next]_vars => TokenIssued'
<1> SUFFICES ASSUME TypeOK, TokenIssued, [Next]_vars PROVE TokenIssued'
  OBVIOUS
<1>1. CASE Login \/ RefreshTokens
  <2>1. accessToken' \in 0..issued'
    BY <1>1, LoginFacts, RefreshFacts
  <2> QED
    BY <2>1 DEF TokenIssued
<1>2. CASE UNCHANGED <<accessToken, issued>>
  BY <1>2 DEF TokenIssued
<1> QED
  BY <1>1, <1>2 DEF Next, CallStep, vars, clients, Connect, Authenticate, Disconnect,
     ConnectWithCert, LoginWipesToken, ConnectClients, ConnectCertClients, Consume, Destroy,
     WriteMultipleProperties, WriteProperty, Deliver, ConnectionChanges

LEMMA ResultStep == ResultAtEnd /\ [Next]_vars => ResultAtEnd'
  BY CallRecords, AuthReturnsTypes DEF ResultAtEnd, Next, CallStep, vars, clients, Connect,
     Authenticate, Disconnect, ConnectWithCert, Login, LoginWipesToken, RefreshTokens,
     ConnectClients, ConnectCertClients, MqttConnect, Consume, Destroy,
     WriteMultipleProperties, WriteProperty, Deliver, ConnectionChanges

\* Consume and Destroy change both maps at the same thing.
LEMMA MapsStep ==
  TypeOK /\ MapsAgree /\ MadeFor /\ [Next]_vars => MapsAgree' /\ MadeFor'
<1> SUFFICES ASSUME TypeOK, MapsAgree, MadeFor, [Next]_vars PROVE MapsAgree' /\ MadeFor'
  OBVIOUS
<1> USE FactoryAssumption DEF TypeOK, MapsAgree, MadeFor
<1>1. ASSUME NEW t \in Things, Consume(t) PROVE MapsAgree' /\ MadeFor'
  BY <1>1 DEF Consume
<1>2. ASSUME NEW i \in Insts, Destroy(i) PROVE MapsAgree' /\ MadeFor'
  BY <1>2 DEF Destroy
<1>3. CASE UNCHANGED maps
  BY <1>3 DEF maps
<1> QED
  BY <1>1, <1>2, <1>3 DEF Next, CallStep, vars, things, Connect, Authenticate, Disconnect,
     ConnectWithCert, MqttDisconnect, Login, LoginWipesToken, RefreshTokens, ConnectClients,
     ConnectCertClients, WriteMultipleProperties, WriteProperty, Deliver, ConnectionChanges

\* An object is subscribed when it is made, in place of one that Destroy has left
\* behind; it is unsubscribed when it is destroyed, unless there is no client.
LEMMA SubscribedStep ==
  TypeOK /\ MadeFor /\ MapsAgree /\ ConsumedIsSubscribed /\ [Next]_vars
    => ConsumedIsSubscribed'
<1> SUFFICES ASSUME TypeOK, MadeFor, MapsAgree, ConsumedIsSubscribed, [Next]_vars
             PROVE  ConsumedIsSubscribed'
  OBVIOUS
<1> USE FactoryAssumption DEF TypeOK, MadeFor, ConsumedIsSubscribed
<1>1. ASSUME NEW t \in Things, Consume(t) PROVE ConsumedIsSubscribed'
  BY <1>1 DEF Consume
<1>2. ASSUME NEW i \in Insts, Destroy(i) PROVE ConsumedIsSubscribed'
  <2>1. PICK t \in Things : t = made[i]
    BY <1>2 DEF Destroy
  <2>2. /\ ctMap' = [ctMap EXCEPT ![t] = NoInst] /\ UNCHANGED <<fresh, mqtt>>
    BY <1>2, <2>1 DEF Destroy
  <2>3. CASE mqtt.paho = "none"
    <3>1. subs' = subs /\ orphans' = orphans \cup ({ctMap[t]} \ {NoInst})
      BY <1>2, <2>1, <2>3 DEF Destroy
    <3> QED
      BY <2>2, <3>1
  <2>4. CASE mqtt.paho # "none"
    <3>1. orphans' = orphans
      BY <1>2, <2>4 DEF Destroy
    <3>2. CASE bindings[t] = NoInst
      <4>1. subs' = subs /\ ctMap' = ctMap
        BY <1>2, <2>1, <2>2, <3>2 DEF Destroy, MapsAgree
      <4> QED
        BY <2>2, <3>1, <4>1
    <3>3. CASE bindings[t] # NoInst
      <4>1. subs' = [subs EXCEPT ![t] = NoInst]
        BY <1>2, <2>1, <2>4, <3>3 DEF Destroy
      <4> QED
        BY <2>2, <3>1, <4>1
    <3> QED
      BY <3>2, <3>3
  <2> QED
    BY <2>3, <2>4
<1>3. ASSUME MqttDisconnect PROVE ConsumedIsSubscribed'
  BY <1>3 DEF MqttDisconnect, maps
<1>4. CASE UNCHANGED <<things, subs>>
  BY <1>4 DEF things, maps
<1> QED
  BY <1>1, <1>2, <1>3, <1>4 DEF Next, CallStep, vars, Connect, Authenticate, Disconnect,
     ConnectWithCert, Login, LoginWipesToken, RefreshTokens, ConnectClients, ConnectCertClients,
     WriteMultipleProperties, WriteProperty, Deliver, ConnectionChanges

\* A property moves from those left to those stored, and from there to those sent
\* or dropped; or the call ends with an error.
LEMMA WriteStep ==
  TypeOK /\ WriteInOrder /\ WritesReported /\ [Next]_vars => WriteInOrder' /\ WritesReported'
<1> SUFFICES ASSUME TypeOK, WriteInOrder, WritesReported, [Next]_vars
             PROVE  WriteInOrder' /\ WritesReported'
  OBVIOUS
<1> USE DEF WriteInOrder, WritesReported
<1>1. CASE WriteMultipleProperties
  BY <1>1, FactoryAssumption DEF WriteMultipleProperties, NoWrite
<1>2. ASSUME NEW p \in Properties, WriteProperty(p) \/ Deliver(p)
      PROVE  WriteInOrder' /\ WritesReported'
  <2>1. write.left \subseteq Properties
    BY DEF TypeOK
  <2> QED
    BY <1>2, <2>1, WriteForms
<1>3. CASE MqttDisconnect
  <2>1. CASE UNCHANGED write
    BY <2>1
  <2>2. CASE write' = [write EXCEPT !.queued = {}, !.dropped = @ \cup write.queued]
    <3>1. write' = [left |-> write.left, queued |-> {}, sent |-> write.sent,
                    dropped |-> write.dropped \cup write.queued, result |-> write.result]
      BY <2>2 DEF TypeOK
    <3> QED
      BY <3>1
  <2> QED
    BY <1>3, <2>1, <2>2 DEF MqttDisconnect
<1>4. CASE UNCHANGED write
  BY <1>4
<1> QED
  BY <1>1, <1>2, <1>3, <1>4 DEF Next, CallStep, vars, Connect, Authenticate, Disconnect,
     ConnectWithCert, Login, LoginWipesToken, RefreshTokens, ConnectClients, ConnectCertClients,
     Consume, Destroy, ConnectionChanges

\* The inductive invariant holds in every reachable state.
THEOREM Invariance == Spec => []IInv
<1>1. IInv /\ [Next]_vars => IInv'
  BY TypeStep, TokenStep, ResultStep, MapsStep, SubscribedStep, WriteStep DEF IInv
<1> QED
  BY InitInv, <1>1, PTL DEF Spec

-----------------------------------------------------------------------------
\* Every variable of ConsumedFactory keeps its type.
THEOREM TypeCorrect == Spec => []TypeOK
  BY Invariance, PTL DEF IInv

\* The factory's two maps agree (Consume 158-177, Destroy 181-196).
THEOREM FactoryMapsAgree == Spec => []MapsAgree
  BY Invariance, PTL DEF IInv

\* Events reach the consumed thing in the factory's map, with two exceptions: after
\* a Disconnect, and for what was destroyed without a client.
THEOREM EventsReachConsumed == Spec => []ConsumedIsSubscribed
  BY Invariance, PTL DEF IInv

\* After nil from WriteMultipleProperties, Paho has taken every property
\* (ConsumedThing.go:340-350, MqttClient.go:243-261).
THEOREM WritesHonest == Spec => []WritesReported
  BY Invariance, PTL DEF IInv

\* Connect and ConnectWithCert return nil only when connected with a certificate or
\* with a token that was issued (ConsumedThingFactory.go:90-146).
THEOREM ConnectsHonestly == Spec => ConnectHonest
<1> DEFINE Connected == mqtt'.paho = "on" /\ (mqtt'.cred = Certificate \/ mqtt'.cred \in 1..issued)
           A == call.at \in {"clients", "cert"} /\ call'.result = "ok" => Connected
<1>1. IInv /\ [Next]_vars => [A]_vars
  <2> SUFFICES ASSUME IInv, Next, call.at \in {"clients", "cert"}, call'.result = "ok"
               PROVE  Connected
    OBVIOUS
  <2>1. CASE ConnectClients
    <3>1. accessToken \in Creds /\ accessToken \in 0..issued /\ issued \in Nat
      BY FactoryAssumption DEF IInv, TypeOK, TokenIssued, Creds
    <3>2. mqtt'.cred = accessToken /\ mqtt'.paho = "on" /\ accessToken # NoToken
      BY <2>1, <3>1, MqttConnectTypes DEF ConnectClients
    <3> QED
      BY <3>1, <3>2 DEF NoToken
  <2>2. CASE ConnectCertClients
    <3>1. Certificate \in Creds
      BY DEF Creds
    <3> QED
      BY <2>2, <3>1, MqttConnectTypes, CallRecords DEF ConnectCertClients
  <2>3. CASE call' = call
    BY <2>3 DEF IInv, ResultAtEnd
  <2> QED
    BY <2>1, <2>2, <2>3 DEF Next, CallStep, Connect, Authenticate, Disconnect, ConnectWithCert,
       Login, LoginWipesToken, RefreshTokens, Consume, Destroy,
       WriteMultipleProperties, WriteProperty, Deliver, ConnectionChanges
<1> QED
  BY Invariance, <1>1, PTL DEF Spec, ConnectHonest
=============================================================================

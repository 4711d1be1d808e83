-------------------------- MODULE TlsSessionProofs --------------------------
(***************************************************************************)
(* Proofs about a TLS client and its server, for any number of goroutines, *)
(* users, tokens, connects and starts.                                     *)
(***************************************************************************)
EXTENDS TlsSession, TLAPS

-----------------------------------------------------------------------------
(* The server.                                                             *)

Active(s) == status[s] \in {"spawned", "listening"}

\* Without a second Start only the server in use may listen, and not after Stop.
ServerOK ==
  /\ status \in [S!Servers -> S!Statuses]
  /\ ~restarted => \A s \in S!Servers : Active(s) => s = httpServer /\ ~stopped

LEMMA InitServer == Init => ServerOK
  BY DEF Init, S!Init, ServerOK, Active, S!Statuses

LEMMA StepServer ==
  ASSUME ServerOK, [Next]_vars PROVE ServerOK'
<1>1. CASE UNCHANGED server
  BY <1>1 DEF server, ServerOK, Active
<1>2. CASE S!StartRefused
  BY <1>2 DEF S!StartRefused, ServerOK, Active
<1>3. CASE S!Start
  <2>1. PICK s \in S!Servers :
          /\ httpServer' = s /\ status' = [status EXCEPT ![s] = "spawned"]
    BY <1>3 DEF S!Start
  <2>2. /\ stopped' = FALSE
        /\ ~restarted' => ~restarted /\ \A t \in S!Servers : ~Active(t)
    BY <1>3 DEF S!Start, Active
  <2>3. /\ status' \in [S!Servers -> S!Statuses]
        /\ \A t \in S!Servers : t # s => status'[t] = status[t]
    BY <2>1 DEF ServerOK, S!Statuses
  <2> QED
    BY <2>1, <2>2, <2>3 DEF ServerOK, Active
<1>4. CASE S!StartReturns
  BY <1>4 DEF S!StartReturns, ServerOK, Active
<1>5. ASSUME NEW s \in S!Servers, S!Listen(s) PROVE ServerOK'
  <2>1. /\ UNCHANGED <<httpServer, stopped, restarted>>
        /\ \/ status[s] = "shut" /\ status' = [status EXCEPT ![s] = "done"]
           \/ status[s] = "spawned" /\ status' = [status EXCEPT ![s] = "listening"]
           \/ status[s] = "spawned" /\ status' = [status EXCEPT ![s] = "failed"]
    BY <1>5 DEF S!Listen
  <2>2. status' \in [S!Servers -> S!Statuses]
    BY <2>1 DEF ServerOK, S!Statuses
  <2>3. \A t \in S!Servers : Active(t)' => Active(t)
    BY <2>1 DEF ServerOK, Active
  <2> QED
    BY <2>1, <2>2, <2>3 DEF ServerOK
<1>6. CASE S!Stop
  <2>1. /\ UNCHANGED <<httpServer, restarted>> /\ stopped' = TRUE
        /\ status' = [s \in S!Servers |->
             IF s # httpServer THEN status[s]
             ELSE IF status[s] = "spawned" THEN "shut"
             ELSE IF status[s] = "listening" THEN "done" ELSE status[s]]
    BY <1>6 DEF S!Stop
  <2>2. status' \in [S!Servers -> S!Statuses]
    BY <2>1 DEF ServerOK, S!Statuses
  <2>3. \A t \in S!Servers : Active(t)' => Active(t) /\ t # httpServer
    BY <2>1 DEF ServerOK, Active
  <2> QED
    BY <2>1, <2>2, <2>3 DEF ServerOK
<1>7. CASE ServerStep
  BY <1>2, <1>3, <1>4, <1>5, <1>6, <1>7 DEF ServerStep
<1>8. CASE ConnectOther \/ ConnectWithToken \/ \E u, secret \in Users : ConnectWithJWTLogin(u, secret)
  BY <1>1, <1>8 DEF ConnectOther, ConnectWithToken, ConnectWithJWTLogin, Connect
<1>9. CASE CloseClient \/ Expire
  BY <1>1, <1>9 DEF CloseClient, Expire
<1>10. ASSUME NEW c \in Callers,
              \/ \E method \in {"get", "options"} : Invoke(c, method)
              \/ CallStep(c) \/ Serve(c)
       PROVE  ServerOK'
  BY <1>1, <1>10 DEF Invoke, CallStep, Header, TakeRefresh, TakeAnswer, Timeout, Serve
<1>11. CASE UNCHANGED vars
  BY <1>1, <1>11 DEF vars
<1> QED
  BY <1>7, <1>8, <1>9, <1>10, <1>11 DEF Next

\* After Stop nothing listens, unless Start was used twice (TLSServer.go).
THEOREM StopIsEffective == Spec => []StopEffective
<1>1. ServerOK => StopEffective
  BY DEF ServerOK, Active, StopEffective, S!Listening
<1>2. ServerOK /\ [Next]_vars => ServerOK'
  BY StepServer
<1> QED
  BY <1>1, <1>2, InitServer, PTL DEF Spec

-----------------------------------------------------------------------------
(* Credentials.  K is a set of users that the client was accepted as, or   *)
(* whose credentials it was given; cls the user of each token issued.      *)

\* An access token that is in use names a user of K.
TokenOK(t, K, cls) == t \in {NoToken, BadToken} \/ (t \in DOMAIN cls /\ cls[t] \in K)

ClientOK(k, K, cls) ==
  /\ k \in Client
  /\ k.basicSecret \in K \cup {NoUser}
  /\ TokenOK(k.token, K, cls)
  /\ k.http # NoHttp => k.http.cookie \in K \cup {NoUser}

\* A call carries the credentials of a user of K, and its answer is what the
\* server said to them.
CallOK(r, K, cls) ==
  /\ r \in Calls
  /\ r.at # "idle" => r.result = "none"
  /\ r.result = "ok" => r.ran \/ r.method = "options"
  /\ r.at = "waiting" /\ r.phase = "request" =>
       /\ r.auth = "basic" => r.secret \in K
       /\ TokenOK(r.token, K, cls)
  /\ r.at \in {"waiting", "answered"} /\ r.phase = "refresh" => r.cookie \in K \cup {NoUser}
  /\ r.at = "answered" /\ r.phase = "refresh" /\ r.ans = "ok" =>
       r.issued \in DOMAIN cls /\ cls[r.issued] \in K
  /\ r.at = "answered" /\ r.phase = "request" /\ r.ans \in {"ok", "empty"} =>
       r.ran \/ r.method = "options"
  /\ r.at = "answered" /\ r.phase = "request" /\ r.ans = "ok" /\ r.op = "login" =>
       r.issued \in DOMAIN cls /\ cls[r.issued] = r.login
  /\ r.at = "answered" /\ r.phase = "request" /\ r.op = "invoke" /\ r.ran =>
       r.user \in K \/ (r.user = NoUser /\ Plugin \in K)

\* More users and more tokens do no harm.
LEMMA TokenGrows ==
  ASSUME NEW t, NEW K, NEW K2, K \subseteq K2, NEW cls, NEW cls2,
         \A i \in DOMAIN cls : i \in DOMAIN cls2 /\ cls2[i] = cls[i],
         TokenOK(t, K, cls)
  PROVE  TokenOK(t, K2, cls2)
  BY DEF TokenOK

LEMMA ClientGrows ==
  ASSUME NEW k, NEW K, NEW K2, K \subseteq K2, NEW cls, NEW cls2,
         \A i \in DOMAIN cls : i \in DOMAIN cls2 /\ cls2[i] = cls[i],
         ClientOK(k, K, cls)
  PROVE  ClientOK(k, K2, cls2)
  BY TokenGrows DEF ClientOK

LEMMA CallGrows ==
  ASSUME NEW r, NEW K, NEW K2, K \subseteq K2, NEW cls, NEW cls2,
         \A i \in DOMAIN cls : i \in DOMAIN cls2 /\ cls2[i] = cls[i],
         CallOK(r, K, cls)
  PROVE  CallOK(r, K2, cls2)
<1>1. TokenOK(r.token, K, cls) => TokenOK(r.token, K2, cls2)
  BY TokenGrows
<1> QED
  BY <1>1 DEF CallOK

LEMMA IdleForm ==
  /\ Idle \in Calls
  /\ Idle.at = "idle" /\ Idle.result = "none"
  /\ \A K, cls : CallOK(Idle, K, cls)
<1>1. Idle \in Calls /\ Idle.at = "idle" /\ Idle.result = "none"
  BY DEF Idle, Calls, NoToken, Answers
<1> QED
  BY <1>1 DEF CallOK

\* Every connect, and Close, leaves no cookie.
LEMMA ClientOps ==
  ASSUME NEW k, NEW K, NEW cls, ClientOK(k, K, cls)
  PROVE  /\ \A n \in {ConnectNoAuth(k), ConnectWithClientCert(k), Close(k)} :
              ClientOK(n, K, cls) /\ n.token = k.token
              /\ (n.http # NoHttp => n.http.cookie = NoUser)
         /\ \A u \in Users :
              LET n == ConnectWithBasicAuth(k, u, u)
              IN ClientOK(n, K \cup {u}, cls) /\ n.token = k.token
                 /\ (n.http # NoHttp => n.http.cookie = NoUser)
         /\ \A u \in Users :
              LET n == LoginStart(k, u)
              IN ClientOK(n, K, cls) /\ n.token = k.token
                 /\ (n.http # NoHttp => n.http.cookie = NoUser)
         /\ \A u \in Users, t \in Nat \cup {BadToken} : TokenOK(t, K, cls) =>
              LET n == ConnectWithJwtAccessToken(k, u, t)
              IN ClientOK(n, K, cls) /\ n.token = t
                 /\ (n.http # NoHttp => n.http.cookie = NoUser)
<1>1. /\ k \in Client /\ k.basicSecret \in K \cup {NoUser} /\ TokenOK(k.token, K, cls)
  BY DEF ClientOK
<1>2. LET n == ConnectNoAuth(k)
      IN /\ n \in Client /\ n.basicSecret = k.basicSecret /\ n.token = k.token
         /\ n.http.cookie = NoUser
  BY <1>1 DEF ConnectNoAuth, connect, Client
<1>3. LET n == ConnectWithClientCert(k)
      IN /\ n \in Client /\ n.basicSecret = k.basicSecret /\ n.token = k.token
         /\ n.http.cookie = NoUser
  BY <1>1 DEF ConnectWithClientCert, Client
<1>4. LET n == Close(k)
      IN /\ n \in Client /\ n.basicSecret = k.basicSecret /\ n.token = k.token
         /\ n.http = NoHttp
  BY <1>1 DEF Close, Client
<1>5. \A n \in {ConnectNoAuth(k), ConnectWithClientCert(k), Close(k)} :
        ClientOK(n, K, cls) /\ n.token = k.token
        /\ (n.http # NoHttp => n.http.cookie = NoUser)
  BY <1>1, <1>2, <1>3, <1>4 DEF ClientOK
<1>6. ASSUME NEW u \in Users
      PROVE  LET n == ConnectWithBasicAuth(k, u, u)
             IN ClientOK(n, K \cup {u}, cls) /\ n.token = k.token
                /\ (n.http # NoHttp => n.http.cookie = NoUser)
  <2>1. connect(k) \in Client /\ connect(k).token = k.token /\ connect(k).http.cookie = NoUser
    BY <1>2 DEF ConnectNoAuth
  <2>2. LET n == ConnectWithBasicAuth(k, u, u)
        IN n \in Client /\ n.basicSecret = u /\ n.token = k.token /\ n.http.cookie = NoUser
    BY <2>1 DEF ConnectWithBasicAuth, Client
  <2>3. TokenOK(k.token, K \cup {u}, cls)
    BY <1>1 DEF TokenOK
  <2> QED
    BY <2>2, <2>3 DEF ClientOK
<1>7. ASSUME NEW u \in Users
      PROVE  LET n == LoginStart(k, u)
             IN ClientOK(n, K, cls) /\ n.token = k.token
                /\ (n.http # NoHttp => n.http.cookie = NoUser)
  <2>1. /\ connect(k) \in Client /\ connect(k).token = k.token
        /\ connect(k).basicSecret = k.basicSecret /\ connect(k).http.cookie = NoUser
    BY <1>2 DEF ConnectNoAuth
  <2>2. LET n == LoginStart(k, u)
        IN n \in Client /\ n.basicSecret = k.basicSecret /\ n.token = k.token
           /\ n.http.cookie = NoUser
    BY <2>1 DEF LoginStart, Client
  <2> QED
    BY <1>1, <2>2 DEF ClientOK
<1>8. ASSUME NEW u \in Users, NEW t \in Nat \cup {BadToken}, TokenOK(t, K, cls)
      PROVE  LET n == ConnectWithJwtAccessToken(k, u, t)
             IN ClientOK(n, K, cls) /\ n.token = t
                /\ (n.http # NoHttp => n.http.cookie = NoUser)
  <2>1. /\ connect(k) \in Client
        /\ connect(k).basicSecret = k.basicSecret /\ connect(k).http.cookie = NoUser
    BY <1>2 DEF ConnectNoAuth
  <2>2. LET n == ConnectWithJwtAccessToken(k, u, t)
        IN n \in Client /\ n.basicSecret = k.basicSecret /\ n.token = t /\ n.http.cookie = NoUser
    BY <2>1 DEF ConnectWithJwtAccessToken, Client
  <2> QED
    BY <1>1, <1>8, <2>2 DEF ClientOK
<1> QED
  BY <1>5, <1>6, <1>7, <1>8

LEMMA RefreshAnsweredForm ==
  ASSUME NEW k, NEW K, NEW cls, ClientOK(k, K, cls), NEW ans \in Answers, NEW t \in Nat,
         ans = "ok" => TokenOK(t, K, cls)
  PROVE  LET n == RefreshAnswered(k, ans, t)
         IN /\ ClientOK(n, K, cls) /\ n.http = k.http
            /\ n.token = IF ans = "ok" THEN t ELSE IF ans \in {"empty", "malformed"} THEN NoToken ELSE k.token
<1>1. /\ k \in Client /\ k.basicSecret \in K \cup {NoUser} /\ TokenOK(k.token, K, cls)
      /\ k.http # NoHttp => k.http.cookie \in K \cup {NoUser}
  BY DEF ClientOK
<1>2. \A x \in Nat : LET n == [k EXCEPT !.token = x]
      IN n \in Client /\ n.http = k.http /\ n.basicSecret = k.basicSecret /\ n.token = x
  BY <1>1 DEF Client
<1>3. TokenOK(NoToken, K, cls) /\ NoToken \in Nat
  BY DEF TokenOK, NoToken
<1>4. CASE ans = "ok"
  BY <1>1, <1>2, <1>4 DEF RefreshAnswered, ClientOK
<1>5. CASE ans \in {"empty", "malformed"}
  BY <1>1, <1>2, <1>3, <1>5 DEF RefreshAnswered, ClientOK
<1>6. CASE ans \notin {"ok", "empty", "malformed"}
  BY <1>1, <1>6 DEF RefreshAnswered, ClientOK
<1> QED
  BY <1>4, <1>5, <1>6

LEMMA LoginAnsweredForm ==
  ASSUME NEW k, NEW K, NEW cls, ClientOK(k, K, cls), NEW u \in Users, NEW t \in Nat,
         TokenOK(t, K \cup {u}, cls)
  PROVE  LET n == LoginAnswered(k, "ok", t, u)
         IN /\ ClientOK(n, K \cup {u}, cls) /\ n.token = t
            /\ n.http # NoHttp => k.http # NoHttp /\ n.http.cookie \in {u, k.http.cookie}
<1>1. /\ k \in Client /\ k.basicSecret \in K \cup {NoUser}
      /\ k.http # NoHttp => k.http.cookie \in K \cup {NoUser}
  BY DEF ClientOK
<1>2. CASE k.http # NoHttp /\ k.http.jar
  <2>1. k.http \in [jar : BOOLEAN, cookie : Users \cup {NoUser}]
    BY <1>1, <1>2 DEF Client
  <2>2. /\ [k.http EXCEPT !.cookie = u] \in [jar : BOOLEAN, cookie : Users \cup {NoUser}]
        /\ [k.http EXCEPT !.cookie = u].cookie = u
    BY <2>1
  <2>3. LoginAnswered(k, "ok", t, u) = [k EXCEPT !.token = t, !.http = [k.http EXCEPT !.cookie = u]]
    BY <1>1, <1>2 DEF LoginAnswered, Client
  <2>4. LET n == LoginAnswered(k, "ok", t, u)
        IN n \in Client /\ n.basicSecret = k.basicSecret /\ n.token = t /\ n.http.cookie = u
    BY <1>1, <2>2, <2>3 DEF Client
  <2> QED
    BY <1>1, <1>2, <2>4 DEF ClientOK
<1>3. CASE ~(k.http # NoHttp /\ k.http.jar)
  <2>1. LoginAnswered(k, "ok", t, u) = [k EXCEPT !.token = t, !.http = k.http]
    BY <1>1, <1>3 DEF LoginAnswered, Client
  <2>2. LET n == LoginAnswered(k, "ok", t, u)
        IN n \in Client /\ n.basicSecret = k.basicSecret /\ n.token = t /\ n.http = k.http
    BY <1>1, <2>1 DEF Client
  <2> QED
    BY <1>1, <1>3, <2>2 DEF ClientOK
<1> QED
  BY <1>2, <1>3

LEMMA LoginEmptyForm ==
  ASSUME NEW k, NEW K, NEW cls, ClientOK(k, K, cls), NEW u, NEW t
  PROVE  LET n == LoginAnswered(k, "empty", t, u)
         IN ClientOK(n, K, cls) /\ n.http = k.http /\ n.token = NoToken
<1>1. k \in Client
  BY DEF ClientOK
<1>2. LoginAnswered(k, "empty", t, u) = [k EXCEPT !.token = NoToken]
  BY DEF LoginAnswered
<1>3. LET n == LoginAnswered(k, "empty", t, u)
      IN n \in Client /\ n.http = k.http /\ n.basicSecret = k.basicSecret /\ n.token = NoToken
  BY <1>1, <1>2 DEF Client, NoToken
<1> QED
  BY <1>3 DEF ClientOK, TokenOK

-----------------------------------------------------------------------------
(* What calls become.                                                      *)

LEMMA SentForm ==
  ASSUME NEW c \in Callers, call[c] \in Calls, call[c].result = "none",
         NEW k, NEW K, NEW cls, ClientOK(k, K, cls),
         NEW auth \in {"none", "basic", "bearer"}, auth = "basic" => k.basicSecret # NoUser
  PROVE  LET r == Sent(c, k, auth)
         IN CallOK(r, K, cls) /\ r.at = "waiting" /\ r.phase = "request" /\ r.op = call[c].op
<1>1. k \in Client /\ k.basicSecret \in K \cup {NoUser} /\ TokenOK(k.token, K, cls)
  BY DEF ClientOK
<1>2. PICK u \in Users \cup {NoUser}, s \in Users \cup {NoUser}, t \in Nat \cup {BadToken} :
        /\ u = (IF auth = "basic" THEN k.userID ELSE NoUser)
        /\ s = (IF auth = "basic" THEN k.basicSecret ELSE NoUser)
        /\ t = (IF auth = "bearer" THEN k.token ELSE NoToken)
  BY <1>1 DEF Client, NoToken
<1>3. /\ Sent(c, k, auth) \in Calls
      /\ Sent(c, k, auth).at = "waiting" /\ Sent(c, k, auth).phase = "request"
      /\ Sent(c, k, auth).op = call[c].op /\ Sent(c, k, auth).result = call[c].result
      /\ Sent(c, k, auth).auth = auth
      /\ Sent(c, k, auth).secret = s /\ Sent(c, k, auth).token = t
  <2>1. PICK r1 : r1 = [call[c] EXCEPT !.at = "waiting"]
    OBVIOUS
  <2>2. /\ r1 \in Calls /\ r1.at = "waiting"
        /\ r1.op = call[c].op /\ r1.result = call[c].result
    BY <2>1 DEF Calls
  <2>3. PICK r2 : r2 = [r1 EXCEPT !.phase = "request"]
    OBVIOUS
  <2> DEFINE From(r) ==
               /\ r \in Calls /\ r.at = "waiting" /\ r.phase = "request"
               /\ r.op = call[c].op /\ r.result = call[c].result
  <2>4. From(r2)
    BY <2>2, <2>3 DEF Calls
  <2>5. ASSUME NEW r, From(r)
        PROVE  LET n == [r EXCEPT !.auth = auth]
               IN From(n) /\ n.auth = auth
    BY <2>5 DEF Calls
  <2>6. ASSUME NEW r, From(r)
        PROVE  LET n == [r EXCEPT !.ans = "none"]
               IN From(n) /\ n.auth = r.auth
    BY <2>6 DEF Calls, Answers
  <2>7. ASSUME NEW r, From(r)
        PROVE  LET n == [r EXCEPT !.user = u]
               IN From(n) /\ n.auth = r.auth
    BY <2>7 DEF Calls
  <2>8. ASSUME NEW r, From(r)
        PROVE  LET n == [r EXCEPT !.secret = s]
               IN From(n) /\ n.auth = r.auth /\ n.secret = s
    BY <2>8 DEF Calls
  <2>9. ASSUME NEW r, From(r)
        PROVE  LET n == [r EXCEPT !.token = t]
               IN From(n) /\ n.auth = r.auth /\ n.secret = r.secret /\ n.token = t
    BY <2>9 DEF Calls
  <2>10. ASSUME NEW r, From(r)
        PROVE  LET n == [r EXCEPT !.cookie = NoUser]
               IN From(n) /\ n.auth = r.auth /\ n.secret = r.secret /\ n.token = r.token
    BY <2>10 DEF Calls
  <2>11. ASSUME NEW r, From(r)
        PROVE  LET n == [r EXCEPT !.issued = NoToken]
               IN From(n) /\ n.auth = r.auth /\ n.secret = r.secret /\ n.token = r.token
    BY <2>11 DEF Calls, NoToken
  <2>12. ASSUME NEW r, From(r), NEW ran \in BOOLEAN
        PROVE  LET n == [r EXCEPT !.ran = ran]
               IN From(n) /\ n.auth = r.auth /\ n.secret = r.secret /\ n.token = r.token
    BY <2>12 DEF Calls
  <2> HIDE DEF From
  <2>13. PICK r3 : r3 = [r2 EXCEPT !.auth = auth]
    OBVIOUS
  <2>14. PICK r4 : r4 = [r3 EXCEPT !.ans = "none"]
    OBVIOUS
  <2>15. PICK r5 : r5 = [r4 EXCEPT !.user = u]
    OBVIOUS
  <2>16. PICK r6 : r6 = [r5 EXCEPT !.secret = s]
    OBVIOUS
  <2>17. PICK r7 : r7 = [r6 EXCEPT !.token = t]
    OBVIOUS
  <2>18. PICK r8 : r8 = [r7 EXCEPT !.cookie = NoUser]
    OBVIOUS
  <2>19. PICK r9 : r9 = [r8 EXCEPT !.issued = NoToken]
    OBVIOUS
  <2>20. Sent(c, k, auth) = [r9 EXCEPT !.ran = FALSE]
    BY <2>1, <2>3, <2>13, <2>14, <2>15, <2>16, <2>17, <2>18, <2>19, <1>2 DEF Sent
  <2>21. From(r3) /\ r3.auth = auth
    BY <2>4, <2>5, <2>13
  <2>22. From(r5) /\ r5.auth = auth
    BY <2>21, <2>6, <2>14, <2>7, <2>15
  <2>23. From(r7) /\ r7.auth = auth /\ r7.secret = s /\ r7.token = t
    BY ZenonT(60), <2>22, <2>8, <2>16, <2>9, <2>17
  <2>24. From(r8) /\ r8.auth = auth /\ r8.secret = s /\ r8.token = t
    BY <2>23, <2>10, <2>18
  <2>25. From(r9) /\ r9.auth = auth /\ r9.secret = s /\ r9.token = t
    BY <2>24, <2>11, <2>19
  <2>26. /\ From(Sent(c, k, auth)) /\ Sent(c, k, auth).auth = auth
         /\ Sent(c, k, auth).secret = s /\ Sent(c, k, auth).token = t
    BY <2>25, <2>12, <2>20
  <2> QED
    BY <2>26 DEF From
<1>4. TokenOK(NoToken, K, cls)
  BY DEF TokenOK
<1> QED
  BY <1>1, <1>2, <1>3, <1>4 DEF CallOK

LEMMA RefreshForm ==
  ASSUME NEW c \in Callers, call[c] \in Calls, call[c].result = "none", cl.http # NoHttp,
         NEW K, NEW cls, ClientOK(cl, K, cls)
  PROVE  LET r == Refresh(c)
         IN /\ CallOK(r, K, cls) /\ r.at = "waiting" /\ r.phase = "refresh"
            /\ r.op = call[c].op /\ r.cookie = cl.http.cookie
<1>1. cl \in Client /\ cl.http.cookie \in (K \cup {NoUser})
  BY DEF ClientOK
<1>2. cl.http.cookie \in Users \cup {NoUser}
  BY <1>1 DEF Client
<1>3. LET r == Refresh(c)
      IN /\ r \in Calls /\ r.at = "waiting" /\ r.phase = "refresh" /\ r.op = call[c].op
         /\ r.result = "none" /\ r.cookie = cl.http.cookie
  <2>1. PICK r1 : r1 = [call[c] EXCEPT !.at = "waiting"]
    OBVIOUS
  <2>2. /\ r1 \in Calls /\ r1.at = "waiting"
        /\ r1.op = call[c].op /\ r1.result = "none"
    BY <2>1 DEF Calls
  <2>3. PICK r2 : r2 = [r1 EXCEPT !.phase = "refresh"]
    OBVIOUS
  <2>4. /\ r2 \in Calls /\ r2.at = "waiting" /\ r2.phase = "refresh"
        /\ r2.op = call[c].op /\ r2.result = "none"
    BY <2>2, <2>3 DEF Calls
  <2>5. LET r == [r2 EXCEPT !.cookie = cl.http.cookie]
        IN /\ r \in Calls /\ r.at = "waiting" /\ r.phase = "refresh" /\ r.op = call[c].op
           /\ r.result = "none" /\ r.cookie = cl.http.cookie
    BY <1>2, <2>4 DEF Calls
  <2> QED
    BY <2>1, <2>3, <2>5 DEF Refresh
<1> QED
  BY <1>1, <1>3 DEF CallOK

LEMMA SucceededForm ==
  ASSUME NEW c \in Callers, call[c] \in Calls, call[c].ran \/ call[c].method = "options",
         NEW K, NEW cls
  PROVE  CallOK(Succeeded(c), K, cls) /\ Succeeded(c).at = "idle"
<1>1. ASSUME NEW ran \in BOOLEAN, NEW method \in {"get", "options"}
      PROVE  LET r == [Idle EXCEPT !.result = "ok", !.ran = ran, !.method = method]
             IN /\ r \in Calls /\ r.at = "idle" /\ r.result = "ok"
                /\ r.ran = ran /\ r.method = method
  <2>1. PICK r1 : r1 = [Idle EXCEPT !.result = "ok"]
    OBVIOUS
  <2>2. r1 \in Calls /\ r1.at = "idle" /\ r1.result = "ok"
    BY <2>1, IdleForm DEF Calls
  <2>3. PICK r2 : r2 = [r1 EXCEPT !.ran = ran]
    OBVIOUS
  <2>4. r2 \in Calls /\ r2.at = "idle" /\ r2.result = "ok" /\ r2.ran = ran
    BY <2>2, <2>3 DEF Calls
  <2>5. LET r == [r2 EXCEPT !.method = method]
        IN /\ r \in Calls /\ r.at = "idle" /\ r.result = "ok"
           /\ r.ran = ran /\ r.method = method
    BY <2>4 DEF Calls
  <2> QED
    BY <2>1, <2>3, <2>5
<1>2. call[c].ran \in BOOLEAN /\ call[c].method \in {"get", "options"}
  BY DEF Calls
<1>3. LET r == Succeeded(c)
      IN /\ r \in Calls /\ r.at = "idle" /\ r.result = "ok"
         /\ r.ran = call[c].ran /\ r.method = call[c].method
  BY ZenonT(60), <1>1, <1>2 DEF Succeeded
<1> QED
  BY <1>3 DEF CallOK

-----------------------------------------------------------------------------
(* The client and its calls carry only credentials of known users.         *)

CertOK(cert) == cert = NoUser \/ (cert = Plugin /\ Plugin \in known)

CredentialsOK ==
  /\ claims \in Seq(Users)
  /\ \A cert \in pool \cup {transportCert} : CertOK(cert)
  /\ call \in [Callers -> Calls]
  /\ ClientOK(cl, known, claims)
  /\ \A c \in Callers : CallOK(call[c], known, claims)

LEMMA InitCredentials == Init => CredentialsOK
<1> SUFFICES ASSUME Init PROVE CredentialsOK
  OBVIOUS
<1>1. claims \in Seq(Users)
  BY SessionAssumption DEF Init
<1>2. \A cert \in pool \cup {transportCert} : CertOK(cert)
  BY DEF Init, CertOK
<1>3. call \in [Callers -> Calls] /\ \A c \in Callers : CallOK(call[c], known, claims)
  BY IdleForm DEF Init
<1>4. ClientOK(cl, known, claims)
  BY DEF Init, ClientOK, NewTLSClient, Client, TokenOK, NoToken
<1> QED
  BY <1>1, <1>2, <1>3, <1>4 DEF CredentialsOK

\* A step that changes one call, and perhaps adds users and tokens.
LEMMA OneCall ==
  ASSUME CredentialsOK, NEW K, known \subseteq K, NEW cls,
         \A i \in DOMAIN claims : i \in DOMAIN cls /\ cls[i] = claims[i],
         NEW c \in Callers, NEW r, CallOK(r, K, cls)
  PROVE  /\ [call EXCEPT ![c] = r] \in [Callers -> Calls]
         /\ \A d \in Callers : CallOK([call EXCEPT ![c] = r][d], K, cls)
<1>1. call \in [Callers -> Calls] /\ r \in Calls
  BY DEF CredentialsOK, CallOK
<1>2. ASSUME NEW d \in Callers PROVE CallOK(call[d], K, cls)
  <2>1. CallOK(call[d], known, claims)
    BY DEF CredentialsOK
  <2> QED
    BY <2>1, CallGrows
<1> QED
  BY <1>1, <1>2

\* What a connect leaves to be shown: the new client is made of known credentials.
LEMMA ConnectCredentials ==
  ASSUME CredentialsOK, NEW next, NEW cert, NEW users, NEW user,
         Connect(next, cert, users, user),
         ClientOK(next, known \cup users, claims),
         cert = NoUser \/ (cert = Plugin /\ Plugin \in users)
  PROVE  /\ claims' \in Seq(Users)
         /\ \A x \in pool' \cup {transportCert'} : CertOK(x)'
         /\ ClientOK(cl', known', claims')
         /\ \A c \in Callers : CallOK(call[c], known', claims')
<1>1. /\ cl' = next /\ transportCert' = cert /\ known' = known \cup users
      /\ pool' = pool /\ claims' = claims
  BY DEF Connect
<1>2. ClientOK(cl', known', claims')
  BY <1>1
<1>3. \A x \in pool' \cup {transportCert'} : CertOK(x)'
  BY <1>1 DEF CertOK, CredentialsOK
<1>4. ASSUME NEW c \in Callers PROVE CallOK(call[c], known', claims')
  <2>1. CallOK(call[c], known, claims)
    BY DEF CredentialsOK
  <2> QED
    BY <1>1, <2>1, CallGrows
<1> QED
  BY <1>1, <1>2, <1>3, <1>4 DEF CredentialsOK

LEMMA ConnectOtherCredentials ==
  ASSUME CredentialsOK, ConnectOther PROVE CredentialsOK'
<1>1. ClientOK(cl, known, claims) /\ call' = call
  BY DEF CredentialsOK, ConnectOther
<1>2. CASE Connect(ConnectNoAuth(cl), NoUser, {}, session)
  <2>1. ClientOK(ConnectNoAuth(cl), known \cup {}, claims)
    BY <1>1, ClientOps
  <2> QED
    BY <1>1, <1>2, <2>1, ConnectCredentials DEF CredentialsOK
<1>3. CASE Connect(ConnectWithClientCert(cl), Plugin, {Plugin}, session)
  <2>1. ClientOK(ConnectWithClientCert(cl), known \cup {Plugin}, claims)
    BY <1>1, ClientOps, ClientGrows
  <2> QED
    BY <1>1, <1>3, <2>1, ConnectCredentials DEF CredentialsOK
<1>4. ASSUME NEW u \in Users, Connect(ConnectWithBasicAuth(cl, u, u), NoUser, {u}, session)
      PROVE  CredentialsOK'
  <2>1. ClientOK(ConnectWithBasicAuth(cl, u, u), known \cup {u}, claims)
    BY <1>1, ClientOps
  <2> QED
    BY <1>1, <1>4, <2>1, ConnectCredentials DEF CredentialsOK
<1> QED
  BY <1>2, <1>3, <1>4 DEF ConnectOther

LEMMA ConnectWithTokenCredentials ==
  ASSUME CredentialsOK, ConnectWithToken PROVE CredentialsOK'
<1>1. ClientOK(cl, known, claims) /\ call' = call /\ claims \in Seq(Users)
  BY DEF CredentialsOK, ConnectWithToken
<1>2. ASSUME NEW t \in DOMAIN claims,
             Connect(ConnectWithJwtAccessToken(cl, claims[t], t), NoUser, {claims[t]}, claims[t])
      PROVE  CredentialsOK'
  <2>1. claims[t] \in Users /\ t \in Nat
    BY <1>1
  <2>2. TokenOK(t, known \cup {claims[t]}, claims)
    BY DEF TokenOK
  <2>3. ClientOK(cl, known \cup {claims[t]}, claims)
    BY <1>1, ClientGrows
  <2>4. ClientOK(ConnectWithJwtAccessToken(cl, claims[t], t), known \cup {claims[t]}, claims)
    BY <2>1, <2>2, <2>3, ClientOps
  <2> QED
    BY <1>1, <1>2, <2>4, ConnectCredentials DEF CredentialsOK
<1>3. ASSUME NEW u \in Users,
             Connect(ConnectWithJwtAccessToken(cl, u, BadToken), NoUser, {}, session)
      PROVE  CredentialsOK'
  <2>1. TokenOK(BadToken, known, claims)
    BY DEF TokenOK
  <2>2. ClientOK(ConnectWithJwtAccessToken(cl, u, BadToken), known \cup {}, claims)
    BY <1>1, <2>1, ClientOps
  <2> QED
    BY <1>1, <1>3, <2>2, ConnectCredentials DEF CredentialsOK
<1> QED
  BY <1>2, <1>3 DEF ConnectWithToken

LEMMA LoginCredentials ==
  ASSUME CredentialsOK, NEW u \in Users, NEW secret \in Users, ConnectWithJWTLogin(u, secret)
  PROVE  CredentialsOK'
<1>1. ClientOK(cl, known, claims) /\ call \in [Callers -> Calls] /\ Owner \in Callers
  BY SessionAssumption DEF CredentialsOK
<1>2. Connect(LoginStart(cl, u), NoUser, {}, session)
  BY DEF ConnectWithJWTLogin
<1>3. ClientOK(LoginStart(cl, u), known \cup {}, claims)
  BY <1>1, ClientOps
<1>4. PICK login \in Users \cup {NoUser} :
        call' = [call EXCEPT ![Owner] = [Idle EXCEPT !.at = "header", !.op = "login", !.login = login]]
  BY DEF ConnectWithJWTLogin
<1>5. PICK r : r = [Idle EXCEPT !.at = "header", !.op = "login", !.login = login]
  OBVIOUS
<1>6. r \in Calls /\ r.at = "header" /\ r.result = "none"
  <2>1. \A q \in Calls : LET n == [q EXCEPT !.at = "header"]
        IN n \in Calls /\ n.at = "header" /\ n.result = q.result
    BY DEF Calls
  <2>2. \A q \in Calls : LET n == [q EXCEPT !.op = "login"]
        IN n \in Calls /\ n.at = q.at /\ n.result = q.result
    BY DEF Calls
  <2>3. \A q \in Calls : LET n == [q EXCEPT !.login = login]
        IN n \in Calls /\ n.at = q.at /\ n.result = q.result
    BY DEF Calls
  <2>4. PICK r1 : r1 = [Idle EXCEPT !.at = "header"]
    OBVIOUS
  <2>5. PICK r2 : r2 = [r1 EXCEPT !.op = "login"]
    OBVIOUS
  <2>6. r = [r2 EXCEPT !.login = login]
    BY <1>5, <2>4, <2>5
  <2>7. r2 \in Calls /\ r2.at = "header" /\ r2.result = "none"
    BY ZenonT(60), <2>1, <2>2, <2>4, <2>5, IdleForm
  <2> QED
    BY <2>3, <2>6, <2>7
<1>7. CallOK(r, known', claims')
  BY <1>6 DEF CallOK
<1>8. /\ claims' \in Seq(Users)
      /\ \A x \in pool' \cup {transportCert'} : CertOK(x)'
      /\ ClientOK(cl', known', claims')
      /\ \A c \in Callers : CallOK(call[c], known', claims')
  BY <1>2, <1>3, ConnectCredentials
<1>9. call' \in [Callers -> Calls]
  BY <1>1, <1>4, <1>5, <1>6
<1>10. ASSUME NEW c \in Callers PROVE CallOK(call'[c], known', claims')
  BY <1>1, <1>4, <1>5, <1>7, <1>8
<1> QED
  BY <1>8, <1>9, <1>10 DEF CredentialsOK

LEMMA CloseCredentials == CredentialsOK /\ CloseClient => CredentialsOK'
<1> SUFFICES ASSUME CredentialsOK, CloseClient PROVE CredentialsOK'
  OBVIOUS
<1>1. /\ cl' = Close(cl) /\ pool' = {} /\ transportCert' = transportCert
      /\ UNCHANGED <<known, claims, call>>
  BY DEF CloseClient
<1>2. ClientOK(cl', known, claims)
  BY <1>1, ClientOps DEF CredentialsOK
<1> QED
  BY <1>1, <1>2 DEF CredentialsOK, CertOK

\* A step that replaces one call and changes neither users, tokens nor certificates.
LEMMA CallChanges ==
  ASSUME CredentialsOK, NEW c \in Callers, NEW r, CallOK(r, known, claims),
         call' = [call EXCEPT ![c] = r],
         UNCHANGED <<claims, known, transportCert>>, pool' \subseteq pool \cup {transportCert},
         ClientOK(cl', known, claims)
  PROVE  CredentialsOK'
<1>1. /\ call' \in [Callers -> Calls]
      /\ \A d \in Callers : CallOK(call'[d], known, claims)
  BY OneCall
<1> QED
  BY <1>1 DEF CredentialsOK, CertOK

LEMMA InvokeCredentials ==
  ASSUME CredentialsOK, NEW c \in Callers, NEW method \in {"get", "options"}, Invoke(c, method)
  PROVE  CredentialsOK'
<1>1. PICK r : r = [Idle EXCEPT !.at = "header", !.method = method]
  OBVIOUS
<1>2. r \in Calls /\ r.at = "header" /\ r.result = "none"
  <2>1. \A q \in Calls : LET n == [q EXCEPT !.at = "header"]
        IN n \in Calls /\ n.at = "header" /\ n.result = q.result
    BY DEF Calls
  <2>2. \A q \in Calls : LET n == [q EXCEPT !.method = method]
        IN n \in Calls /\ n.at = q.at /\ n.result = q.result
    BY DEF Calls
  <2>3. PICK r1 : r1 = [Idle EXCEPT !.at = "header"]
    OBVIOUS
  <2>4. r = [r1 EXCEPT !.method = method]
    BY <1>1, <2>3
  <2> QED
    BY ZenonT(60), <2>1, <2>2, <2>3, <2>4, IdleForm
<1>3. CallOK(r, known, claims)
  BY <1>2 DEF CallOK
<1>4. /\ call' = [call EXCEPT ![c] = r] /\ UNCHANGED <<cl, claims, known, transportCert, pool>>
  BY <1>1 DEF Invoke, client
<1> QED
  BY <1>3, <1>4, CallChanges DEF CredentialsOK

LEMMA ModeForm ==
  LET mode == Mode(cl, expired)
  IN /\ mode \in {"closed", "basic", "none", "unparsable", "refresh", "bearer"}
     /\ mode = "basic" => cl.basicSecret # NoUser
     /\ mode = "refresh" => cl.http # NoHttp
  BY DEF Mode

LEMMA HeaderCredentials ==
  ASSUME CredentialsOK, NEW c \in Callers, Header(c) PROVE CredentialsOK'
<1>1. /\ call[c].at = "header" /\ UNCHANGED <<cl, claims, known, transportCert, pool>>
      /\ ClientOK(cl, known, claims) /\ call[c] \in Calls /\ CallOK(call[c], known, claims)
  BY DEF Header, client, CredentialsOK
<1>2. call[c].result = "none"
  BY <1>1 DEF CallOK
<1>3. PICK mode : mode = Mode(cl, expired)
  OBVIOUS
<1>4. /\ mode \in {"closed", "basic", "none", "unparsable", "refresh", "bearer"}
      /\ mode = "basic" => cl.basicSecret # NoUser
      /\ mode = "refresh" => cl.http # NoHttp
  BY <1>3, ModeForm
<1>5. PICK r : r = CASE mode \in {"closed", "unparsable"} -> Failed
                     [] mode = "refresh" -> Refresh(c)
                     [] OTHER -> Sent(c, cl, mode)
  OBVIOUS
<1>6. call' = [call EXCEPT ![c] = r]
  BY <1>3, <1>5 DEF Header
<1>7. CallOK(r, known, claims)
  <2>1. CASE mode \in {"closed", "unparsable"}
    BY <1>5, <2>1, IdleForm DEF Failed
  <2>2. CASE mode = "refresh"
    <3>1. r = Refresh(c)
      BY <1>5, <2>2
    <3> QED
      BY <1>1, <1>2, <1>4, <2>2, <3>1, RefreshForm
  <2>3. CASE mode \in {"basic", "none", "bearer"}
    <3>1. r = Sent(c, cl, mode)
      BY <1>5, <2>3
    <3> QED
      BY <1>1, <1>2, <1>4, <2>3, <3>1, SentForm
  <2> QED
    BY <1>4, <2>1, <2>2, <2>3
<1> QED
  BY <1>1, <1>6, <1>7, CallChanges

LEMMA TakeRefreshCredentials ==
  ASSUME CredentialsOK, NEW c \in Callers, TakeRefresh(c) PROVE CredentialsOK'
<1>1. /\ call[c].at = "answered" /\ call[c].phase = "refresh"
      /\ UNCHANGED <<claims, known, transportCert, pool>>
      /\ ClientOK(cl, known, claims) /\ call[c] \in Calls /\ CallOK(call[c], known, claims)
  BY DEF TakeRefresh, CredentialsOK
<1>2. call[c].result = "none" /\ call[c].ans \in Answers /\ call[c].issued \in Nat
  BY <1>1 DEF CallOK, Calls
<1>3. call[c].ans = "ok" => TokenOK(call[c].issued, known, claims)
  BY <1>1 DEF CallOK, TokenOK
<1>4. PICK next : next = RefreshAnswered(cl, call[c].ans, call[c].issued)
  OBVIOUS
<1>5. ClientOK(next, known, claims)
  BY <1>1, <1>2, <1>3, <1>4, RefreshAnsweredForm
<1>6. PICK r : r = IF RefreshFails(call[c].ans) THEN Failed ELSE Sent(c, next, "bearer")
  OBVIOUS
<1>7. call' = [call EXCEPT ![c] = r] /\ cl' = next
  BY <1>4, <1>6 DEF TakeRefresh
<1>8. CallOK(r, known, claims)
  <2>1. CASE RefreshFails(call[c].ans)
    BY <1>6, <2>1, IdleForm DEF Failed
  <2>2. CASE ~RefreshFails(call[c].ans)
    BY <1>1, <1>2, <1>5, <1>6, <2>2, SentForm
  <2> QED
    BY <2>1, <2>2
<1> QED
  BY <1>1, <1>5, <1>7, <1>8, CallChanges

LEMMA TimeoutCredentials ==
  ASSUME CredentialsOK, NEW c \in Callers, Timeout(c) PROVE CredentialsOK'
<1>1. /\ call' = [call EXCEPT ![c] = Failed] /\ UNCHANGED <<cl, claims, known, transportCert, pool>>
      /\ CallOK(Failed, known, claims)
  BY IdleForm DEF Timeout, client, Failed
<1> QED
  BY <1>1, CallChanges DEF CredentialsOK

\* What a call keeps, and what it becomes, when it is answered.
Refused(r, ans) == [r EXCEPT !.at = "answered", !.ans = ans, !.ran = (ans = "empty")]
Granted(r, issued) == [r EXCEPT !.at = "answered", !.ans = "ok", !.ran = TRUE, !.issued = issued]
Served(r, ran, user, ans) == [r EXCEPT !.at = "answered", !.ran = ran, !.user = user, !.ans = ans]

Kept(n, r) == /\ n.phase = r.phase /\ n.op = r.op /\ n.result = r.result
              /\ n.login = r.login /\ n.method = r.method /\ n.cookie = r.cookie

LEMMA RefusedForm ==
  ASSUME NEW r \in Calls, NEW ans \in Answers
  PROVE  LET n == Refused(r, ans)
         IN n \in Calls /\ Kept(n, r) /\ n.at = "answered" /\ n.ans = ans /\ (ans = "empty" => n.ran)
<1> DEFINE Same(n) == n \in Calls /\ Kept(n, r)
<1>1. PICK r1 : r1 = [r EXCEPT !.at = "answered"]
  OBVIOUS
<1>2. Same(r1) /\ r1.at = "answered"
  BY <1>1 DEF Calls, Kept
<1>3. PICK r2 : r2 = [r1 EXCEPT !.ans = ans]
  OBVIOUS
<1>4. Same(r2) /\ r2.at = "answered" /\ r2.ans = ans
  BY <1>2, <1>3 DEF Calls, Kept
<1>5. PICK ran \in BOOLEAN : ran = (ans = "empty")
  OBVIOUS
<1>6. PICK n : n = [r2 EXCEPT !.ran = ran]
  OBVIOUS
<1>7. Same(n) /\ n.at = "answered" /\ n.ans = ans /\ n.ran = ran
  <2>1. r2 \in Calls
    BY <1>4
  <2>2. n \in Calls /\ n.ran = ran
    BY <1>6, <2>1 DEF Calls
  <2>3. Kept(n, r2) /\ n.at = r2.at /\ n.ans = r2.ans
    BY <1>6, <2>1 DEF Calls, Kept
  <2> QED
    BY <1>4, <2>2, <2>3 DEF Kept
<1>8. Refused(r, ans) = n
  BY <1>1, <1>3, <1>5, <1>6 DEF Refused
<1> QED
  BY <1>5, <1>7, <1>8

LEMMA GrantedForm ==
  ASSUME NEW r \in Calls, NEW issued \in Nat
  PROVE  LET n == Granted(r, issued)
         IN /\ n \in Calls /\ Kept(n, r) /\ n.at = "answered" /\ n.ans = "ok"
            /\ n.ran = TRUE /\ n.issued = issued
<1> DEFINE Same(n) == n \in Calls /\ Kept(n, r)
<1>0. PICK r0 : r0 = [r EXCEPT !.at = "answered"]
  OBVIOUS
<1>1. PICK r1 : r1 = [r0 EXCEPT !.ans = "ok"]
  OBVIOUS
<1>2. Same(r1) /\ r1.at = "answered" /\ r1.ans = "ok"
  <2>1. Same(r0) /\ r0.at = "answered"
    BY <1>0 DEF Calls, Kept
  <2> QED
    BY <1>1, <2>1 DEF Calls, Kept, Answers
<1>3. PICK r2 : r2 = [r1 EXCEPT !.ran = TRUE]
  OBVIOUS
<1>4. Same(r2) /\ r2.at = "answered" /\ r2.ans = "ok" /\ r2.ran = TRUE
  BY <1>2, <1>3 DEF Calls, Kept
<1>5. Granted(r, issued) = [r2 EXCEPT !.issued = issued]
  BY <1>0, <1>1, <1>3 DEF Granted
<1> QED
  BY <1>4, <1>5 DEF Calls, Kept

LEMMA ServedForm ==
  ASSUME NEW r \in Calls, NEW ans \in Answers, NEW ran \in BOOLEAN,
         NEW user \in Users \cup {NoUser, Plugin}
  PROVE  LET n == Served(r, ran, user, ans)
         IN /\ n \in Calls /\ Kept(n, r) /\ n.at = "answered" /\ n.ans = ans
            /\ n.ran = ran /\ n.user = user
<1> DEFINE Same(n) == n \in Calls /\ Kept(n, r)
<1>1. PICK r1 : r1 = [r EXCEPT !.at = "answered"]
  OBVIOUS
<1>2. Same(r1) /\ r1.at = "answered"
  BY <1>1 DEF Calls, Kept
<1>3. PICK r2 : r2 = [r1 EXCEPT !.ran = ran]
  OBVIOUS
<1>4. Same(r2) /\ r2.at = "answered" /\ r2.ran = ran
  BY <1>2, <1>3 DEF Calls, Kept
<1>5. PICK r3 : r3 = [r2 EXCEPT !.user = user]
  OBVIOUS
<1>6. Same(r3) /\ r3.at = "answered" /\ r3.ran = ran /\ r3.user = user
  BY <1>4, <1>5 DEF Calls, Kept
<1>7. Served(r, ran, user, ans) = [r3 EXCEPT !.ans = ans]
  BY <1>1, <1>3, <1>5 DEF Served
<1> QED
  BY <1>6, <1>7 DEF Calls, Kept

\* The server issues a token to the user of a cookie or a login, or refuses.
LEMMA ServeAuthCredentials ==
  ASSUME CredentialsOK, NEW c \in Callers, call[c].at = "waiting",
         NEW u, u \in Users \cup {NoUser}, ServeAuth(c, u, u # NoUser),
         \/ call[c].phase = "refresh" /\ u \in known \cup {NoUser}
         \/ call[c].phase = "request" /\ call[c].op = "login" /\ u = call[c].login,
         UNCHANGED <<cl, known, transportCert>>, pool' \subseteq pool \cup {transportCert}
  PROVE  CredentialsOK'
<1>1. /\ call \in [Callers -> Calls] /\ call[c] \in Calls /\ CallOK(call[c], known, claims)
      /\ claims \in Seq(Users) /\ ClientOK(cl, known, claims)
  BY DEF CredentialsOK
<1>2. call[c].result = "none"
  BY <1>1 DEF CallOK
<1>3. CASE /\ u # NoUser
           /\ claims' = Append(claims, u)
           /\ call' = [call EXCEPT ![c] = [@ EXCEPT !.at = "answered", !.ans = "ok",
                                   !.ran = TRUE, !.issued = Len(claims) + 1]]
  <2>1. PICK r : r = Granted(call[c], Len(claims) + 1)
    OBVIOUS
  <2>2. call' = [call EXCEPT ![c] = r]
    BY <1>3, <2>1 DEF Granted
  <2>3. /\ r \in Calls /\ r.at = "answered" /\ r.ans = "ok" /\ r.issued = Len(claims) + 1
        /\ r.ran = TRUE /\ r.phase = call[c].phase /\ r.op = call[c].op /\ r.result = "none"
        /\ r.login = call[c].login /\ r.cookie = call[c].cookie
    <3>1. Len(claims) + 1 \in Nat
      BY <1>1
    <3> QED
      BY <1>1, <1>2, <2>1, <3>1, GrantedForm DEF Kept
  <2>4. /\ claims' \in Seq(Users)
        /\ \A i \in DOMAIN claims : i \in DOMAIN claims' /\ claims'[i] = claims[i]
        /\ Len(claims) + 1 \in DOMAIN claims' /\ claims'[Len(claims) + 1] = u
    BY <1>1, <1>3
  <2>5. CallOK(r, known, claims')
    <3>1. CASE call[c].phase = "refresh" /\ u \in known \cup {NoUser}
      <4>1. call[c].cookie \in known \cup {NoUser}
        BY <1>1, <3>1 DEF CallOK
      <4> QED
        BY <1>3, <2>3, <2>4, <3>1, <4>1 DEF CallOK
    <3>2. CASE call[c].phase = "request" /\ call[c].op = "login" /\ u = call[c].login
      BY <2>3, <2>4, <3>2 DEF CallOK
    <3> QED
      BY <3>1, <3>2
  <2>6. /\ call' \in [Callers -> Calls]
        /\ \A d \in Callers : CallOK(call'[d], known, claims')
    BY <2>2, <2>4, <2>5, OneCall
  <2>7. ClientOK(cl, known, claims')
    BY <1>1, <2>4, ClientGrows
  <2> QED
    BY <2>4, <2>6, <2>7 DEF CredentialsOK, CertOK
<1>4. CASE /\ \E ans \in {"refused", "empty", "malformed"} :
                call' = [call EXCEPT ![c] = [@ EXCEPT !.at = "answered", !.ans = ans,
                                     !.ran = (ans = "empty")]]
           /\ UNCHANGED claims
  <2>1. PICK ans \in {"refused", "empty", "malformed"} :
          call' = [call EXCEPT ![c] = [@ EXCEPT !.at = "answered", !.ans = ans,
                               !.ran = (ans = "empty")]]
    BY <1>4
  <2>2. PICK r : r = Refused(call[c], ans)
    OBVIOUS
  <2>3. call' = [call EXCEPT ![c] = r]
    BY <2>1, <2>2 DEF Refused
  <2>4. /\ r \in Calls /\ r.at = "answered" /\ r.ans = ans /\ r.result = "none"
        /\ ans = "empty" => r.ran
        /\ r.phase = call[c].phase /\ r.op = call[c].op /\ r.cookie = call[c].cookie
    <3>1. ans \in Answers
      BY DEF Answers
    <3> QED
      BY <1>1, <1>2, <2>2, <3>1, RefusedForm DEF Kept
  <2>5. CallOK(r, known, claims)
    <3>1. call[c].phase = "refresh" => call[c].cookie \in known \cup {NoUser}
      BY <1>1 DEF CallOK
    <3> QED
      BY <2>4, <3>1 DEF CallOK
  <2> QED
    BY <1>1, <1>4, <2>3, <2>5, CallChanges
<1> QED
  BY <1>3, <1>4 DEF ServeAuth

\* The authenticators of the server accept only what is genuine.
LEMMA ServeRequestCredentials ==
  ASSUME CredentialsOK, NEW c \in Callers, call[c].at = "waiting",
         call[c].phase = "request", call[c].op = "invoke",
         NEW cert, CertOK(cert), ServeRequest(c, cert),
         UNCHANGED <<cl, known, transportCert>>, pool' \subseteq pool \cup {transportCert}
  PROVE  CredentialsOK'
<1>1. /\ call \in [Callers -> Calls] /\ call[c] \in Calls /\ CallOK(call[c], known, claims)
      /\ claims \in Seq(Users) /\ ClientOK(cl, known, claims)
  BY DEF CredentialsOK
<1>2. /\ call[c].result = "none"
      /\ call[c].auth = "basic" => call[c].secret \in known
      /\ TokenOK(call[c].token, known, claims)
  BY <1>1 DEF CallOK
<1>3. PICK req : req = [method |-> call[c].method, cert |-> cert, auth |-> call[c].auth,
                        user |-> call[c].user, secret |-> call[c].secret, token |-> call[c].token]
  OBVIOUS
<1>4. PICK auth : auth = S!AuthenticateRequest(req, claims, expired, NoUser)
  OBVIOUS
<1>5. /\ auth.match \in BOOLEAN /\ auth.user \in Users \cup {NoUser, Plugin}
      /\ auth.match => auth.user \in known \/ (auth.user = NoUser /\ Plugin \in known)
  <2>1. CASE cert # NoUser
    BY <1>3, <1>4, <2>1 DEF S!AuthenticateRequest, S!CertAuth, CertOK
  <2>2. CASE cert = NoUser /\ S!JwtAuth(req, claims, expired, NoUser).match
    <3>1. auth = S!JwtAuth(req, claims, expired, NoUser)
      BY <1>3, <1>4, <2>2 DEF S!AuthenticateRequest, S!CertAuth
    <3>2. call[c].token \in DOMAIN claims
      BY <1>3, <2>2 DEF S!JwtAuth
    <3>3. call[c].token \notin {NoToken, BadToken}
      BY <1>1, <3>2, SessionAssumption DEF NoToken
    <3>4. claims[call[c].token] \in known /\ claims[call[c].token] \in Users
      BY <1>1, <1>2, <3>2, <3>3 DEF TokenOK
    <3> QED
      BY <1>3, <2>2, <3>1, <3>4 DEF S!JwtAuth
  <2>3. CASE cert = NoUser /\ ~S!JwtAuth(req, claims, expired, NoUser).match
    <3>1. auth = S!BasicAuth(req, NoUser)
      BY <1>3, <1>4, <2>3 DEF S!AuthenticateRequest, S!CertAuth
    <3>2. call[c].user \in Users \cup {NoUser, Plugin}
      BY <1>1 DEF Calls
    <3>3. /\ auth.match = ("basic" \in Enabled /\ req.auth = "basic" /\ req.secret = req.user)
          /\ auth.user = IF req.auth = "basic" THEN req.user ELSE NoUser
      BY <3>1 DEF S!BasicAuth
    <3> QED
      BY <1>2, <1>3, <3>2, <3>3
  <2> QED
    BY <2>1, <2>2, <2>3
<1>6. PICK answer : answer = S!Respond(req, claims, expired, NoUser)
  OBVIOUS
<1>7. /\ answer.ran \in BOOLEAN /\ answer.user \in Users \cup {NoUser, Plugin}
      /\ answer.ok \in BOOLEAN
      /\ answer.ok => answer.ran \/ call[c].method = "options"
      /\ answer.ran => answer.user \in known \/ (answer.user = NoUser /\ Plugin \in known)
  BY <1>3, <1>4, <1>5, <1>6 DEF S!Respond
<1>8. PICK ans \in {"ok", "refused"} : ans = IF answer.ok THEN "ok" ELSE "refused"
  OBVIOUS
<1>9. PICK r : r = Served(call[c], answer.ran, answer.user, ans)
  OBVIOUS
<1>10. call' = [call EXCEPT ![c] = r] /\ UNCHANGED claims
  BY <1>3, <1>6, <1>8, <1>9 DEF ServeRequest, Served
<1>11. /\ r \in Calls /\ r.at = "answered" /\ r.ans = ans /\ r.user = answer.user
       /\ r.ran = answer.ran /\ r.phase = "request" /\ r.op = "invoke" /\ r.result = "none"
       /\ r.method = call[c].method
  <2>1. ans \in Answers
    BY DEF Answers
  <2>2. /\ r \in Calls /\ Kept(r, call[c]) /\ r.at = "answered" /\ r.ans = ans
        /\ r.ran = answer.ran /\ r.user = answer.user
    BY <1>1, <1>7, <1>9, <2>1, ServedForm
  <2> QED
    BY <1>2, <2>2 DEF Kept
<1>12. CallOK(r, known, claims)
  BY <1>7, <1>8, <1>11 DEF CallOK
<1> QED
  BY <1>1, <1>10, <1>12, CallChanges

LEMMA ServeCredentials ==
  ASSUME CredentialsOK, NEW c \in Callers, Serve(c) PROVE CredentialsOK'
<1>1. /\ call[c].at = "waiting" /\ UNCHANGED <<cl, known, transportCert>>
      /\ call[c] \in Calls /\ CallOK(call[c], known, claims)
  BY DEF Serve, CredentialsOK
<1>2. PICK cert \in pool \cup {transportCert} :
        /\ pool' = pool \cup {cert}
        /\ \/ /\ call[c].phase = "refresh"
              /\ ServeAuth(c, call[c].cookie, call[c].cookie # NoUser)
           \/ /\ call[c].phase = "request" /\ call[c].op = "login"
              /\ ServeAuth(c, call[c].login, call[c].login # NoUser)
           \/ /\ call[c].phase = "request" /\ call[c].op = "invoke"
              /\ ServeRequest(c, cert)
  BY DEF Serve
<1>3. CertOK(cert) /\ pool' \subseteq pool \cup {transportCert}
  BY <1>2 DEF CredentialsOK
<1>4. call[c].cookie \in Users \cup {NoUser} /\ call[c].login \in Users \cup {NoUser}
  BY <1>1 DEF Calls
<1>5. CASE call[c].phase = "refresh" /\ ServeAuth(c, call[c].cookie, call[c].cookie # NoUser)
  <2>1. call[c].cookie \in known \cup {NoUser}
    BY <1>1, <1>5 DEF CallOK
  <2> QED
    BY <1>1, <1>3, <1>4, <1>5, <2>1, ServeAuthCredentials
<1>6. CASE call[c].phase = "request" /\ call[c].op = "login"
           /\ ServeAuth(c, call[c].login, call[c].login # NoUser)
  BY <1>1, <1>3, <1>4, <1>6, ServeAuthCredentials
<1>7. CASE call[c].phase = "request" /\ call[c].op = "invoke" /\ ServeRequest(c, cert)
  BY <1>1, <1>3, <1>7, ServeRequestCredentials
<1> QED
  BY <1>2, <1>5, <1>6, <1>7

LEMMA TakeAnswerCredentials ==
  ASSUME CredentialsOK, NEW c \in Callers, TakeAnswer(c) PROVE CredentialsOK'
<1>1. /\ call[c].at = "answered" /\ call[c].phase = "request"
      /\ UNCHANGED <<transportCert, pool, claims>>
      /\ call \in [Callers -> Calls] /\ call[c] \in Calls /\ CallOK(call[c], known, claims)
      /\ claims \in Seq(Users) /\ ClientOK(cl, known, claims)
  BY DEF TakeAnswer, CredentialsOK
<1>2. PICK r : r = IF LoginFails(call[c].ans) THEN Failed ELSE Succeeded(c)
  OBVIOUS
<1>3. call' = [call EXCEPT ![c] = r]
  BY <1>2 DEF TakeAnswer
<1>4. \A K : CallOK(r, K, claims)
  <2>1. CASE ~LoginFails(call[c].ans)
    <3>1. call[c].ran \/ call[c].method = "options"
      BY <1>1, <2>1 DEF CallOK, LoginFails
    <3> QED
      BY <1>1, <1>2, <2>1, <3>1, SucceededForm
  <2>2. CASE LoginFails(call[c].ans)
    BY <1>2, <2>2, IdleForm DEF Failed
  <2> QED
    BY <2>1, <2>2
<1>5. CASE call[c].op = "login" /\ call[c].ans = "ok"
  <2>1. call[c].issued \in DOMAIN claims /\ claims[call[c].issued] = call[c].login
    BY <1>1, <1>5 DEF CallOK
  <2>2. call[c].login \in Users /\ call[c].issued \in Nat
    BY <1>1, <2>1 DEF Calls
  <2>3. cl' = LoginAnswered(cl, "ok", call[c].issued, call[c].login)
        /\ known' = known \cup {call[c].login}
    BY <1>5 DEF TakeAnswer
  <2>4. TokenOK(call[c].issued, known \cup {call[c].login}, claims)
    BY <2>1 DEF TokenOK
  <2>5. ClientOK(cl', known', claims)
    BY <1>1, <2>2, <2>3, <2>4, LoginAnsweredForm
  <2>6. /\ call' \in [Callers -> Calls]
        /\ \A d \in Callers : CallOK(call'[d], known', claims)
    <3>1. CallOK(r, known \cup {call[c].login}, claims)
      BY <1>4
    <3> QED
      BY <1>3, <2>3, <3>1, OneCall
  <2> QED
    BY <1>1, <2>3, <2>5, <2>6 DEF CredentialsOK, CertOK
<1>6. CASE call[c].op = "login" /\ call[c].ans = "empty"
  <2>1. cl' = LoginAnswered(cl, "empty", call[c].issued, call[c].login) /\ known' = known
    BY <1>6 DEF TakeAnswer
  <2>2. ClientOK(cl', known, claims)
    BY <1>1, <2>1, LoginEmptyForm
  <2>3. CallOK(r, known, claims)
    BY <1>4
  <2>4. call' \in [Callers -> Calls] /\ \A d \in Callers : CallOK(call'[d], known, claims)
    BY <1>3, <2>3, OneCall
  <2> QED
    BY <1>1, <2>1, <2>2, <2>4 DEF CredentialsOK, CertOK
<1>7. CASE ~(call[c].op = "login" /\ call[c].ans \in {"ok", "empty"})
  <2>1. cl' = cl /\ known' = known
    BY <1>7 DEF TakeAnswer, LoginAnswered
  <2>2. CallOK(r, known, claims)
    BY <1>4
  <2> QED
    BY <1>1, <1>3, <2>1, <2>2, CallChanges
<1> QED
  BY <1>5, <1>6, <1>7

LEMMA OtherCredentials == CredentialsOK /\ (Expire \/ ServerStep \/ UNCHANGED vars) => CredentialsOK'
<1>1. Expire => UNCHANGED <<cl, known, claims, call, transportCert>> /\ pool' = pool
  BY DEF Expire, client
<1>2. ServerStep => UNCHANGED <<cl, known, claims, call, transportCert>> /\ pool' \subseteq pool
  BY DEF ServerStep
<1>3. UNCHANGED vars => UNCHANGED <<cl, known, claims, call, transportCert>> /\ pool' = pool
  BY DEF vars, client
<1> QED
  BY <1>1, <1>2, <1>3 DEF CredentialsOK, CertOK

LEMMA StepCredentials == CredentialsOK /\ [Next]_vars => CredentialsOK'
<1> SUFFICES ASSUME CredentialsOK, [Next]_vars PROVE CredentialsOK'
  OBVIOUS
<1>1. CASE ConnectOther \/ ConnectWithToken \/ CloseClient
  BY <1>1, ConnectOtherCredentials, ConnectWithTokenCredentials, CloseCredentials
<1>2. ASSUME NEW u \in Users, NEW secret \in Users, ConnectWithJWTLogin(u, secret)
      PROVE  CredentialsOK'
  BY <1>2, LoginCredentials
<1>3. ASSUME NEW c \in Callers, Invoke(c, "get") \/ Invoke(c, "options") PROVE CredentialsOK'
  BY <1>3, InvokeCredentials
<1>4. ASSUME NEW c \in Callers, CallStep(c) \/ Serve(c) PROVE CredentialsOK'
  BY <1>4, HeaderCredentials, TakeRefreshCredentials, TakeAnswerCredentials,
     TimeoutCredentials, ServeCredentials DEF CallStep
<1>5. CASE Expire \/ ServerStep \/ UNCHANGED vars
  BY <1>5, OtherCredentials
<1> QED
  BY <1>1, <1>2, <1>3, <1>4, <1>5 DEF Next

\* What the client holds, sends and receives stays genuine (TLSClient.go, TLSServer.go).
THEOREM Credentials == Spec => []CredentialsOK
  BY InitCredentials, StepCredentials, PTL DEF Spec

\* A call succeeds only when a handler ran for it (TLSClient.go, Invoke).
THEOREM ResultIsHonest == Spec => []ResultHonest
<1>1. CredentialsOK => ResultHonest
  BY DEF CredentialsOK, CallOK, ResultHonest
<1> QED
  BY <1>1, Credentials, PTL

\* Nobody is served as a user that the client was never accepted as.
THEOREM UserIsAccepted == Spec => []UserIsKnown
<1>1. CredentialsOK => UserIsKnown
  BY DEF CredentialsOK, CallOK, UserIsKnown
<1> QED
  BY <1>1, Credentials, PTL

-----------------------------------------------------------------------------
(* Tokens and cookies are those of the session.  While a login is running  *)
(* the new connection has no cookie yet, so that no refresh can succeed.   *)

Holder == IF call[Owner].op = "login" THEN NoUser ELSE session

\* A refresh that is running was asked for with a cookie of s.
RefreshOK(r, s, cls) ==
  r.phase = "refresh" /\ r.at \in {"waiting", "answered"} =>
    /\ r.cookie \in {s, NoUser}
    /\ r.at = "answered" /\ r.ans = "ok" => cls[r.issued] = s

OfSession(k, s, h, cls) ==
  /\ k.token \in {NoToken, BadToken} \/ cls[k.token] = s
  /\ k.http # NoHttp => k.http.cookie \in {h, NoUser}

SessionOK ==
  /\ \A c \in Callers : call[c].op = "login" => c = Owner
  /\ ~overtaken =>
       /\ OfSession(cl, session, Holder, claims)
       /\ \A c \in Callers : RefreshOK(call[c], Holder, claims)

LEMMA InitSession == Init => SessionOK
  BY SessionAssumption DEF Init, SessionOK, OfSession, RefreshOK, Holder, Idle, NewTLSClient

\* A cookie of nobody is as good as one of the session: no refresh succeeds with it.
LEMMA NoCookie ==
  ASSUME NEW r, NEW K, CallOK(r, K, claims), claims \in Seq(Users), NEW s,
         RefreshOK(r, NoUser, claims)
  PROVE  RefreshOK(r, s, claims)
<1>1. ~(r.phase = "refresh" /\ r.at = "answered" /\ r.ans = "ok")
  BY SessionAssumption DEF CallOK, RefreshOK
<1> QED
  BY <1>1 DEF RefreshOK

\* A step of one call that is not the answer of a login.
LEMMA SessionStep ==
  ASSUME CredentialsOK, SessionOK, CredentialsOK', NEW c \in Callers, NEW r,
         call' = [call EXCEPT ![c] = r], r.op = "login" => call[c].op = "login",
         UNCHANGED <<session, overtaken>>,
         \A i \in DOMAIN claims : i \in DOMAIN claims' /\ claims'[i] = claims[i],
         ~overtaken => RefreshOK(r, Holder, claims') /\ OfSession(cl', session, Holder, claims')
  PROVE  SessionOK'
<1>1. /\ call \in [Callers -> Calls] /\ claims' \in Seq(Users) /\ Owner \in Callers
      /\ \A d \in Callers : CallOK(call[d], known, claims) /\ CallOK(call'[d], known', claims')
  BY SessionAssumption DEF CredentialsOK
<1>2. \A d \in Callers : call'[d].op = "login" => call[d].op = "login" /\ d = Owner
  BY <1>1 DEF SessionOK
<1>3. Holder' = Holder \/ (Holder = NoUser /\ Holder' = session)
  BY <1>1, <1>2 DEF Holder
<1>4. SUFFICES ASSUME ~overtaken
               PROVE  /\ OfSession(cl', session, Holder', claims')
                      /\ \A d \in Callers : RefreshOK(call'[d], Holder', claims')
  BY <1>2 DEF SessionOK
<1>5. OfSession(cl', session, Holder', claims')
  BY <1>3, <1>4 DEF OfSession
<1>6. ASSUME NEW d \in Callers PROVE RefreshOK(call'[d], Holder, claims')
  <2>1. CASE d = c
    BY <1>1, <1>4, <2>1
  <2>2. CASE d # c
    <3>1. call'[d] = call[d] /\ RefreshOK(call[d], Holder, claims) /\ CallOK(call[d], known, claims)
      BY <1>1, <1>4, <2>2 DEF SessionOK
    <3> QED
      BY <3>1 DEF RefreshOK, CallOK
  <2> QED
    BY <2>1, <2>2
<1>7. ASSUME NEW d \in Callers PROVE RefreshOK(call'[d], Holder', claims')
  <2>1. CASE Holder' = Holder
    BY <1>6, <2>1
  <2>2. CASE Holder = NoUser /\ Holder' = session
    <3>1. /\ RefreshOK(call'[d], NoUser, claims') /\ CallOK(call'[d], known', claims')
          /\ claims' \in Seq(Users)
      BY <1>1, <1>6, <2>2
    <3>2. ~(call'[d].phase = "refresh" /\ call'[d].at = "answered" /\ call'[d].ans = "ok")
      BY <3>1, SessionAssumption DEF CallOK, RefreshOK
    <3> QED
      BY <2>2, <3>1, <3>2 DEF RefreshOK
  <2> QED
    BY <1>3, <2>1, <2>2
<1> QED
  BY <1>4, <1>5, <1>7

\* A connect leaves the session with a token of its own, and no cookie.
LEMMA SessionConnect ==
  ASSUME CredentialsOK, SessionOK, NEW next, NEW cert, NEW users, NEW user,
         Connect(next, cert, users, user),
         ~overtaken => next.token \in {NoToken, BadToken} \/ claims[next.token] = user,
         next.http # NoHttp => next.http.cookie = NoUser,
         \/ call' = call
         \/ \E r : /\ call' = [call EXCEPT ![Owner] = r]
                   /\ r.at = "header"
  PROVE  SessionOK'
<1>1. /\ call \in [Callers -> Calls] /\ Owner \in Callers /\ cl' = next /\ session' = user
      /\ overtaken' = (overtaken \/ \E c \in Callers : call[c].at # "idle")
      /\ claims' = claims
  BY SessionAssumption DEF CredentialsOK, Connect
<1>2. \A c \in Callers : call'[c].op = "login" => c = Owner
  BY <1>1 DEF SessionOK
<1>3. ~overtaken' => \A c \in Callers : call'[c].at \in {"idle", "header"}
  BY <1>1
<1>4. ~overtaken' => \A c \in Callers : RefreshOK(call'[c], Holder', claims')
  BY <1>3 DEF RefreshOK
<1>5. ~overtaken' => OfSession(cl', session', Holder', claims')
  BY <1>1 DEF OfSession
<1> QED
  BY <1>2, <1>4, <1>5 DEF SessionOK

LEMMA SessionConnects ==
  ASSUME CredentialsOK, SessionOK, ConnectOther \/ ConnectWithToken PROVE SessionOK'
<1>1. /\ ClientOK(cl, known, claims) /\ call' = call /\ claims \in Seq(Users)
      /\ ~overtaken => cl.token \in {NoToken, BadToken} \/ claims[cl.token] = session
  BY DEF CredentialsOK, ConnectOther, ConnectWithToken, SessionOK, OfSession
<1>2. CASE Connect(ConnectNoAuth(cl), NoUser, {}, session)
  <2>1. LET n == ConnectNoAuth(cl) IN n.token = cl.token /\ (n.http # NoHttp => n.http.cookie = NoUser)
    BY <1>1, ClientOps
  <2> QED
    BY <1>1, <1>2, <2>1, SessionConnect
<1>3. CASE Connect(ConnectWithClientCert(cl), Plugin, {Plugin}, session)
  <2>1. LET n == ConnectWithClientCert(cl)
        IN n.token = cl.token /\ (n.http # NoHttp => n.http.cookie = NoUser)
    BY <1>1, ClientOps
  <2> QED
    BY <1>1, <1>3, <2>1, SessionConnect
<1>4. ASSUME NEW u \in Users, Connect(ConnectWithBasicAuth(cl, u, u), NoUser, {u}, session)
      PROVE  SessionOK'
  <2>1. LET n == ConnectWithBasicAuth(cl, u, u)
        IN n.token = cl.token /\ (n.http # NoHttp => n.http.cookie = NoUser)
    BY ZenonT(60), <1>1, ClientOps
  <2> QED
    BY <1>1, <1>4, <2>1, SessionConnect
<1>5. ASSUME NEW t \in DOMAIN claims,
             Connect(ConnectWithJwtAccessToken(cl, claims[t], t), NoUser, {claims[t]}, claims[t])
      PROVE  SessionOK'
  <2>1. claims[t] \in Users /\ t \in Nat
    BY <1>1
  <2>2. cl \in Client /\ connect(cl) \in Client /\ connect(cl).http.cookie = NoUser
    BY <1>1 DEF ClientOK, connect, Client
  <2>3. LET n == ConnectWithJwtAccessToken(cl, claims[t], t)
        IN n.token = t /\ (n.http # NoHttp => n.http.cookie = NoUser)
    BY <2>1, <2>2 DEF ConnectWithJwtAccessToken, Client
  <2> QED
    BY <1>1, <1>5, <2>3, SessionConnect
<1>6. ASSUME NEW u \in Users,
             Connect(ConnectWithJwtAccessToken(cl, u, BadToken), NoUser, {}, session)
      PROVE  SessionOK'
  <2>1. cl \in Client /\ connect(cl) \in Client /\ connect(cl).http.cookie = NoUser
    BY <1>1 DEF ClientOK, connect, Client
  <2>2. LET n == ConnectWithJwtAccessToken(cl, u, BadToken)
        IN n.token = BadToken /\ (n.http # NoHttp => n.http.cookie = NoUser)
    BY <2>1 DEF ConnectWithJwtAccessToken, Client
  <2> QED
    BY <1>1, <1>6, <2>2, SessionConnect
<1> QED
  BY <1>2, <1>3, <1>4, <1>5, <1>6 DEF ConnectOther, ConnectWithToken

LEMMA SessionLogin ==
  ASSUME CredentialsOK, SessionOK, NEW u \in Users, NEW secret \in Users,
         ConnectWithJWTLogin(u, secret)
  PROVE  SessionOK'
<1>1. /\ ClientOK(cl, known, claims)
      /\ ~overtaken => cl.token \in {NoToken, BadToken} \/ claims[cl.token] = session
  BY DEF CredentialsOK, SessionOK, OfSession
<1>2. Connect(LoginStart(cl, u), NoUser, {}, session)
  BY DEF ConnectWithJWTLogin
<1>3. LET n == LoginStart(cl, u) IN n.token = cl.token /\ (n.http # NoHttp => n.http.cookie = NoUser)
  BY ZenonT(60), <1>1, ClientOps
<1>4. PICK login \in Users \cup {NoUser} :
        call' = [call EXCEPT ![Owner] = [Idle EXCEPT !.at = "header", !.op = "login", !.login = login]]
  BY DEF ConnectWithJWTLogin
<1>5. [Idle EXCEPT !.at = "header", !.op = "login", !.login = login].at = "header"
  BY DEF Idle
<1> QED
  BY <1>1, <1>2, <1>3, <1>4, <1>5, SessionConnect

LEMMA SessionUnchanged ==
  ASSUME SessionOK, UNCHANGED <<call, claims, session, overtaken>>,
         cl' = cl \/ CloseClient, CredentialsOK
  PROVE  SessionOK'
<1>1. cl'.token = cl.token /\ (cl'.http # NoHttp => cl' = cl)
  BY ClientOps DEF CloseClient, CredentialsOK, Close, ClientOK, Client
<1> QED
  BY <1>1 DEF SessionOK, OfSession, Holder

LEMMA SessionInvoke ==
  ASSUME CredentialsOK, CredentialsOK', SessionOK, NEW c \in Callers, NEW method,
         Invoke(c, method) \/ Timeout(c)
  PROVE  SessionOK'
<1>1. /\ UNCHANGED <<cl, claims, session, overtaken>>
      /\ \E r : call' = [call EXCEPT ![c] = r] /\ r.op = "invoke" /\ r.phase = "request"
  <2>1. [Idle EXCEPT !.at = "header", !.method = method].op = "invoke"
        /\ [Idle EXCEPT !.at = "header", !.method = method].phase = "request"
    BY DEF Idle
  <2>2. CASE Invoke(c, method)
    BY <2>1, <2>2 DEF Invoke, client
  <2>3. Idle.op = "invoke" /\ Idle.phase = "request"
    BY DEF Idle
  <2>4. CASE Timeout(c)
    BY <2>3, <2>4 DEF Timeout, Failed, client
  <2> QED
    BY <2>2, <2>4
<1>2. \A r : r.op = "invoke" /\ r.phase = "request" => RefreshOK(r, Holder, claims')
  BY DEF RefreshOK
<1> QED
  BY <1>1, <1>2, SessionStep DEF SessionOK

LEMMA SessionHeader ==
  ASSUME CredentialsOK, CredentialsOK', SessionOK, NEW c \in Callers, Header(c)
  PROVE  SessionOK'
<1>1. /\ call[c].at = "header" /\ UNCHANGED <<cl, claims, session, overtaken>>
      /\ ClientOK(cl, known, claims) /\ call[c] \in Calls /\ CallOK(call[c], known, claims)
  BY DEF Header, client, CredentialsOK
<1>2. call[c].result = "none"
  BY <1>1 DEF CallOK
<1>3. PICK mode : mode = Mode(cl, expired)
  OBVIOUS
<1>4. /\ mode = "basic" => cl.basicSecret # NoUser
      /\ mode = "refresh" => cl.http # NoHttp
      /\ mode \in {"closed", "basic", "none", "unparsable", "refresh", "bearer"}
  BY <1>3, ModeForm
<1>5. PICK r : r = CASE mode \in {"closed", "unparsable"} -> Failed
                     [] mode = "refresh" -> Refresh(c)
                     [] OTHER -> Sent(c, cl, mode)
  OBVIOUS
<1>6. call' = [call EXCEPT ![c] = r]
  BY <1>3, <1>5 DEF Header
<1>7. /\ r.op \in {"invoke", call[c].op}
      /\ r.phase = "request" \/ (r.at = "waiting" /\ r.cookie = cl.http.cookie /\ cl.http # NoHttp)
  <2>1. CASE mode \in {"closed", "unparsable"}
    BY <1>5, <2>1 DEF Failed, Idle
  <2>2. CASE mode = "refresh"
    <3>1. r = Refresh(c)
      BY <1>5, <2>2
    <3> QED
      BY <1>1, <1>2, <1>4, <2>2, <3>1, RefreshForm
  <2>3. CASE mode \in {"basic", "none", "bearer"}
    <3>1. r = Sent(c, cl, mode)
      BY <1>5, <2>3
    <3> QED
      BY <1>1, <1>2, <1>4, <2>3, <3>1, SentForm
  <2> QED
    BY <1>4, <2>1, <2>2, <2>3
<1>8. ~overtaken => RefreshOK(r, Holder, claims') /\ OfSession(cl', session, Holder, claims')
  BY <1>1, <1>7 DEF RefreshOK, SessionOK, OfSession
<1> QED
  BY <1>1, <1>6, <1>7, <1>8, SessionStep

LEMMA SessionServeAuth ==
  ASSUME CredentialsOK, CredentialsOK', SessionOK, NEW c \in Callers, call[c].at = "waiting",
         NEW u, ServeAuth(c, u, u # NoUser),
         call[c].phase = "refresh" => u = call[c].cookie,
         UNCHANGED <<cl, session, overtaken>>
  PROVE  SessionOK'
<1>1. /\ call \in [Callers -> Calls] /\ call[c] \in Calls /\ CallOK(call[c], known, claims)
      /\ claims \in Seq(Users) /\ ClientOK(cl, known, claims)
  BY DEF CredentialsOK
<1>2. CASE /\ u # NoUser
           /\ claims' = Append(claims, u)
           /\ call' = [call EXCEPT ![c] = [@ EXCEPT !.at = "answered", !.ans = "ok",
                                   !.ran = TRUE, !.issued = Len(claims) + 1]]
  <2>1. PICK r : r = Granted(call[c], Len(claims) + 1)
    OBVIOUS
  <2>2. call' = [call EXCEPT ![c] = r]
    BY <1>2, <2>1 DEF Granted
  <2>3. Kept(r, call[c]) /\ r.issued = Len(claims) + 1
    <3>1. Len(claims) + 1 \in Nat
      BY <1>1
    <3> QED
      BY <1>1, <2>1, <3>1, GrantedForm
  <2>4. u \in Users
    <3>1. claims' \in Seq(Users) /\ Len(claims') = Len(claims) + 1 /\ claims'[Len(claims) + 1] = u
      BY <1>1, <1>2 DEF CredentialsOK
    <3> QED
      BY <1>1, <3>1
  <2>5. /\ \A i \in DOMAIN claims : i \in DOMAIN claims' /\ claims'[i] = claims[i]
        /\ claims'[Len(claims) + 1] = u
    BY <1>1, <1>2
  <2>6. ~overtaken => RefreshOK(r, Holder, claims')
    BY <1>2, <2>3, <2>5 DEF RefreshOK, SessionOK, Kept
  <2>7. ~overtaken => OfSession(cl', session, Holder, claims')
    BY <1>1, <2>5 DEF SessionOK, OfSession, ClientOK, TokenOK
  <2> QED
    BY <2>2, <2>3, <2>5, <2>6, <2>7, SessionStep DEF Kept
<1>3. CASE /\ \E ans \in {"refused", "empty", "malformed"} :
                call' = [call EXCEPT ![c] = [@ EXCEPT !.at = "answered", !.ans = ans,
                                     !.ran = (ans = "empty")]]
           /\ UNCHANGED claims
  <2>1. PICK ans \in {"refused", "empty", "malformed"} :
          call' = [call EXCEPT ![c] = [@ EXCEPT !.at = "answered", !.ans = ans,
                               !.ran = (ans = "empty")]]
    BY <1>3
  <2>2. PICK r : r = Refused(call[c], ans)
    OBVIOUS
  <2>3. call' = [call EXCEPT ![c] = r]
    BY <2>1, <2>2 DEF Refused
  <2>4. Kept(r, call[c]) /\ r.ans = ans
    <3>1. ans \in Answers
      BY DEF Answers
    <3> QED
      BY <1>1, <2>2, <3>1, RefusedForm
  <2>5. ~overtaken => RefreshOK(r, Holder, claims') /\ OfSession(cl', session, Holder, claims')
    BY <1>3, <2>4 DEF RefreshOK, SessionOK, Kept
  <2> QED
    BY <1>3, <2>3, <2>4, <2>5, SessionStep DEF Kept
<1> QED
  BY <1>2, <1>3 DEF ServeAuth

LEMMA SessionServe ==
  ASSUME CredentialsOK, CredentialsOK', SessionOK, NEW c \in Callers, Serve(c)
  PROVE  SessionOK'
<1>1. /\ call[c].at = "waiting" /\ UNCHANGED <<cl, session, overtaken>>
      /\ call[c] \in Calls
  BY DEF Serve, CredentialsOK
<1>2. CASE \/ call[c].phase = "refresh" /\ ServeAuth(c, call[c].cookie, call[c].cookie # NoUser)
           \/ call[c].phase = "request" /\ ServeAuth(c, call[c].login, call[c].login # NoUser)
  BY <1>1, <1>2, SessionServeAuth
<1>3. ASSUME NEW cert, call[c].phase = "request", ServeRequest(c, cert) PROVE SessionOK'
  <2>1. PICK ran, user, ans : call' = [call EXCEPT ![c] = Served(call[c], ran, user, ans)]
    <3>1. PICK answer :
            call' = [call EXCEPT ![c] = [@ EXCEPT !.at = "answered", !.ran = answer.ran,
                                 !.user = answer.user,
                                 !.ans = IF answer.ok THEN "ok" ELSE "refused"]]
      BY <1>3 DEF ServeRequest
    <3>2. call' = [call EXCEPT ![c] = Served(call[c], answer.ran, answer.user,
                                             IF answer.ok THEN "ok" ELSE "refused")]
      BY <3>1 DEF Served
    <3> QED
      BY <3>2
  <2>2. PICK r : r = Served(call[c], ran, user, ans)
    OBVIOUS
  <2>3. r.phase = "request" /\ r.op = call[c].op
    BY <1>1, <1>3, <2>2 DEF Served, Calls
  <2>4. claims' = claims
    BY <1>3 DEF ServeRequest
  <2>5. ~overtaken => RefreshOK(r, Holder, claims') /\ OfSession(cl', session, Holder, claims')
    BY <1>1, <2>3, <2>4 DEF RefreshOK, SessionOK
  <2> QED
    BY <1>1, <2>1, <2>2, <2>3, <2>4, <2>5, SessionStep
<1> QED
  BY <1>2, <1>3 DEF Serve

LEMMA SessionTakeRefresh ==
  ASSUME CredentialsOK, CredentialsOK', SessionOK, NEW c \in Callers, TakeRefresh(c)
  PROVE  SessionOK'
<1>1. /\ call[c].at = "answered" /\ call[c].phase = "refresh"
      /\ UNCHANGED <<claims, session, overtaken>>
      /\ ClientOK(cl, known, claims) /\ call[c] \in Calls /\ CallOK(call[c], known, claims)
      /\ claims \in Seq(Users)
  BY DEF TakeRefresh, CredentialsOK
<1>2. call[c].result = "none" /\ call[c].ans \in Answers /\ call[c].issued \in Nat
  BY <1>1 DEF CallOK, Calls
<1>3. call[c].ans = "ok" => call[c].issued \in DOMAIN claims /\ TokenOK(call[c].issued, known, claims)
  BY <1>1 DEF CallOK, TokenOK
<1>4. PICK next : next = RefreshAnswered(cl, call[c].ans, call[c].issued)
  OBVIOUS
<1>5. /\ ClientOK(next, known, claims) /\ next.http = cl.http
      /\ next.token = IF call[c].ans = "ok" THEN call[c].issued
                      ELSE IF call[c].ans \in {"empty", "malformed"} THEN NoToken
                      ELSE cl.token
  BY SMTT(60), <1>1, <1>2, <1>3, <1>4, RefreshAnsweredForm
<1>6. PICK r : r = IF RefreshFails(call[c].ans) THEN Failed ELSE Sent(c, next, "bearer")
  OBVIOUS
<1>7. call' = [call EXCEPT ![c] = r] /\ cl' = next
  BY <1>4, <1>6 DEF TakeRefresh
<1>8. r.phase = "request" /\ r.op \in {"invoke", call[c].op}
  <2>1. CASE RefreshFails(call[c].ans)
    BY <1>6, <2>1 DEF Failed, Idle
  <2>2. CASE ~RefreshFails(call[c].ans)
    BY <1>1, <1>2, <1>5, <1>6, <2>2, SentForm
  <2> QED
    BY <2>1, <2>2
<1>9. ~overtaken => OfSession(cl', session, Holder, claims')
  <2>1. CASE call[c].ans = "ok"
    <3>1. ~overtaken => claims[call[c].issued] = Holder
      BY <1>1, <2>1 DEF SessionOK, RefreshOK
    <3>2. ~overtaken => Holder = session
      BY <1>1, <1>3, <2>1, <3>1, SessionAssumption DEF Holder
    <3> QED
      BY <1>1, <1>5, <1>7, <2>1, <3>1, <3>2 DEF SessionOK, OfSession
  <2>2. CASE call[c].ans # "ok"
    BY <1>1, <1>5, <1>7, <2>2 DEF SessionOK, OfSession
  <2> QED
    BY <2>1, <2>2
<1>10. ~overtaken => RefreshOK(r, Holder, claims')
  BY <1>8 DEF RefreshOK
<1> QED
  BY <1>1, <1>7, <1>8, <1>9, <1>10, SessionStep

\* A login that is accepted is the new session.
LEMMA SessionTakeAnswer ==
  ASSUME CredentialsOK, CredentialsOK', SessionOK, NEW c \in Callers, TakeAnswer(c)
  PROVE  SessionOK'
<1>1. /\ call[c].at = "answered" /\ call[c].phase = "request"
      /\ UNCHANGED <<claims, overtaken>>
      /\ call \in [Callers -> Calls] /\ call[c] \in Calls /\ CallOK(call[c], known, claims)
      /\ claims \in Seq(Users) /\ ClientOK(cl, known, claims)
  BY DEF TakeAnswer, CredentialsOK
<1>2. PICK r : r = IF LoginFails(call[c].ans) THEN Failed ELSE Succeeded(c)
  OBVIOUS
<1>3. call' = [call EXCEPT ![c] = r]
  BY <1>2 DEF TakeAnswer
<1>4. r.op = "invoke" /\ r.phase = "request"
  BY <1>2 DEF Succeeded, Failed, Idle
<1>5. CASE call[c].op = "login" /\ call[c].ans = "ok"
  <2>1. call[c].issued \in DOMAIN claims /\ claims[call[c].issued] = call[c].login
    BY <1>1, <1>5 DEF CallOK
  <2>2. call[c].login \in Users /\ call[c].issued \in Nat
    BY <1>1, <2>1 DEF Calls
  <2>3. cl' = LoginAnswered(cl, "ok", call[c].issued, call[c].login) /\ session' = call[c].login
    BY <1>5 DEF TakeAnswer
  <2>4. TokenOK(call[c].issued, known \cup {call[c].login}, claims)
    BY <2>1 DEF TokenOK
  <2>10. PICK n : n = LoginAnswered(cl, "ok", call[c].issued, call[c].login)
    OBVIOUS
  <2>5. /\ n.token = call[c].issued
        /\ n.http # NoHttp => cl.http # NoHttp /\ n.http.cookie \in {call[c].login, cl.http.cookie}
    <3>1. ClientOK(cl, known, claims)
      BY <1>1
    <3>2. LET m == LoginAnswered(cl, "ok", call[c].issued, call[c].login)
          IN /\ ClientOK(m, known \cup {call[c].login}, claims) /\ m.token = call[c].issued
             /\ m.http # NoHttp => cl.http # NoHttp /\ m.http.cookie \in {call[c].login, cl.http.cookie}
      BY <2>2, <2>4, <3>1, LoginAnsweredForm
    <3> QED
      BY <2>10, <3>2
  <2>6. c = Owner /\ Holder = NoUser /\ Holder' = session'
    BY <1>1, <1>3, <1>4, <1>5, SessionAssumption DEF SessionOK, Holder
  <2>7. ~overtaken => OfSession(cl', session', Holder', claims')
    BY <1>1, <2>1, <2>3, <2>5, <2>6, <2>10 DEF SessionOK, OfSession
  <2>8. ASSUME ~overtaken, NEW d \in Callers PROVE RefreshOK(call'[d], session', claims)
    <3>1. CASE d = c
      BY <1>1, <1>3, <1>4, <3>1 DEF RefreshOK
    <3>2. CASE d # c
      <4>1. call'[d] = call[d] /\ RefreshOK(call[d], NoUser, claims) /\ CallOK(call[d], known, claims)
        BY <1>1, <1>3, <2>6, <2>8, <3>2 DEF SessionOK, CredentialsOK
      <4> QED
        BY <1>1, <4>1, NoCookie
    <3> QED
      BY <3>1, <3>2
  <2>9. \A d \in Callers : call'[d].op = "login" => d = Owner
    BY <1>1, <1>3, <1>4 DEF SessionOK
  <2> QED
    BY <1>1, <2>6, <2>7, <2>8, <2>9 DEF SessionOK
<1>6. CASE call[c].op = "login" /\ call[c].ans = "empty"
  <2>1. cl' = LoginAnswered(cl, "empty", call[c].issued, call[c].login) /\ session' = session
    BY <1>6 DEF TakeAnswer
  <2>2. cl'.token = NoToken /\ cl'.http = cl.http
    BY <1>1, <2>1, LoginEmptyForm
  <2>3. ~overtaken => RefreshOK(r, Holder, claims') /\ OfSession(cl', session, Holder, claims')
    BY <1>1, <1>4, <2>2 DEF RefreshOK, SessionOK, OfSession
  <2> QED
    BY <1>1, <1>3, <1>4, <2>1, <2>3, SessionStep
<1>7. CASE ~(call[c].op = "login" /\ call[c].ans \in {"ok", "empty"})
  <2>1. cl' = cl /\ session' = session
    BY <1>7 DEF TakeAnswer, LoginAnswered
  <2>2. ~overtaken => RefreshOK(r, Holder, claims') /\ OfSession(cl', session, Holder, claims')
    BY <1>1, <1>4, <2>1 DEF RefreshOK, SessionOK
  <2> QED
    BY <1>1, <1>3, <1>4, <2>1, <2>2, SessionStep
<1> QED
  BY <1>5, <1>6, <1>7

LEMMA StepSession == CredentialsOK /\ CredentialsOK' /\ SessionOK /\ [Next]_vars => SessionOK'
<1> SUFFICES ASSUME CredentialsOK, CredentialsOK', SessionOK, [Next]_vars PROVE SessionOK'
  OBVIOUS
<1>1. CASE ConnectOther \/ ConnectWithToken
  BY <1>1, SessionConnects
<1>2. ASSUME NEW u \in Users, NEW secret \in Users, ConnectWithJWTLogin(u, secret)
      PROVE  SessionOK'
  BY <1>2, SessionLogin
<1>3. CASE CloseClient \/ Expire \/ ServerStep \/ UNCHANGED vars
  <2>1. UNCHANGED <<call, claims, session, overtaken>> /\ (cl' = cl \/ CloseClient)
    BY <1>3 DEF CloseClient, Expire, ServerStep, vars, client
  <2> QED
    BY <2>1, SessionUnchanged
<1>4. ASSUME NEW c \in Callers, Invoke(c, "get") \/ Invoke(c, "options") PROVE SessionOK'
  BY <1>4, SessionInvoke
<1>5. ASSUME NEW c \in Callers, CallStep(c) \/ Serve(c) PROVE SessionOK'
  BY <1>5, SessionHeader, SessionTakeRefresh, SessionTakeAnswer, SessionInvoke, SessionServe
     DEF CallStep
<1> QED
  BY <1>1, <1>2, <1>3, <1>4, <1>5 DEF Next

\* No refresh brings back a token of an earlier session (TLSClient.go).
THEOREM TokenIsOfSession == Spec => []TokenOfSession
<1>1. SessionOK => TokenOfSession
  BY DEF SessionOK, OfSession, TokenOfSession
<1>2. Init => SessionOK
  BY InitSession
<1>3. CredentialsOK /\ CredentialsOK' /\ SessionOK /\ [Next]_vars => SessionOK'
  BY StepSession
<1> QED
  BY <1>1, <1>2, <1>3, Credentials, PTL DEF Spec

=============================================================================

----------------------------- MODULE TlsSession -----------------------------
(***************************************************************************)
(* A TLS client and the server it talks to, with the goroutines that use   *)
(* the client: one of them, the owner, also connects and logs in.          *)
(*                                                                         *)
(* A call of Invoke decides how to authenticate, may refresh the access    *)
(* token, and sends its request; a login is such a call as well.  Requests *)
(* and answers may be lost, and then the HTTP client's timeout ends the    *)
(* call.  Login and refresh are served by the authentication service,      *)
(* which is external: it issues a token and a refresh cookie.              *)
(***************************************************************************)
EXTENDS Naturals, Sequences, TlsClient

CONSTANTS
  Callers,     \* goroutines
  Owner,       \* the one that connects
  MaxTokens,   \* tokens that are issued; a bound
  MaxConnects, \* how often the owner connects; a bound
  MaxStarts, NoServer, Enabled,
  Elsewhere,   \* the user of a token that was obtained elsewhere
  Plugin       \* the name in the client certificate

ASSUME SessionAssumption ==
  /\ Owner \in Callers
  /\ Elsewhere \in Users
  /\ NoUser \notin Users \cup {Plugin}
  /\ BadToken \notin Nat

VARIABLES
  hasCerts, httpServer, status, start, err, stopped, restarted,   \* the server
  cl,            \* the client
  transportCert, \* the certificate in the process-wide TLS configuration
  pool,          \* certificates of the connections that are kept alive
  claims,        \* the user of each access token issued
  expired,       \* access tokens that have expired
  call,          \* the call of each goroutine
  known,         \* users whose credentials the client was given and accepted with
  session,       \* the user of the last successful connect or login with a token
  connects,      \* how often the owner has connected
  overtaken      \* the owner connected while another goroutine's call was running

server == <<hasCerts, httpServer, status, start, err, stopped, restarted>>
client == <<cl, transportCert, pool, known, session, connects, overtaken>>
vars == <<server, client, claims, expired, call>>

S == INSTANCE TlsServer

Idle == [at |-> "idle", op |-> "invoke", phase |-> "request", method |-> "get",
         user |-> NoUser, secret |-> NoUser, auth |-> "none", token |-> NoToken,
         login |-> NoUser, cookie |-> NoUser, ans |-> "none", issued |-> NoToken,
         ran |-> FALSE, result |-> "none"]

Calls == [at : {"idle", "header", "waiting", "answered"}, op : {"invoke", "login"},
          phase : {"request", "refresh"}, method : {"get", "options"},
          user : Users \cup {NoUser, Plugin}, secret : Users \cup {NoUser},
          auth : {"none", "basic", "bearer"}, token : Nat \cup {BadToken},
          login : Users \cup {NoUser}, cookie : Users \cup {NoUser}, ans : Answers, issued : Nat,
          ran : BOOLEAN, result : {"none", "ok"}]

TypeOK ==
  /\ S!TypeOK
  /\ cl \in Client
  /\ {transportCert} \cup pool \subseteq {NoUser, Plugin}
  /\ claims \in Seq(Users)
  /\ expired \subseteq DOMAIN claims
  /\ call \in [Callers -> Calls]
  /\ known \subseteq Users \cup {Plugin}
  /\ session \in Users \cup {NoUser}
  /\ connects \in Nat
  /\ overtaken \in BOOLEAN

Init ==
  /\ S!Init
  /\ cl = NewTLSClient
  /\ transportCert = NoUser
  /\ pool = {}
  /\ claims = <<Elsewhere>>
  /\ expired = {}
  /\ call = [c \in Callers |-> Idle]
  /\ known = {}
  /\ session = NoUser
  /\ connects = 0
  /\ overtaken = FALSE

-----------------------------------------------------------------------------
(* The owner's connects.                                                   *)

\* connect() replaces the TLS configuration that all clients share.
Connect(next, cert, users, user) ==
  /\ call[Owner].at = "idle"
  /\ connects < MaxConnects
  /\ connects = 0 =>
       /\ start = "ok" /\ httpServer = 1 /\ S!Listening
       /\ \A c \in Callers : call[c].at = "idle"
  /\ connects' = connects + 1
  /\ cl' = next
  /\ transportCert' = cert
  /\ known' = known \cup users
  /\ session' = user
  /\ overtaken' = (overtaken \/ \E c \in Callers : call[c].at # "idle")
  /\ UNCHANGED <<server, pool, claims, expired>>

ConnectOther ==
  /\ UNCHANGED call
  /\ \/ Connect(ConnectNoAuth(cl), NoUser, {}, session)
     \/ Connect(ConnectWithClientCert(cl), Plugin, {Plugin}, session)
     \/ \E u \in Users : Connect(ConnectWithBasicAuth(cl, u, u), NoUser, {u}, session)

\* With a token obtained elsewhere, or one that cannot be parsed.
ConnectWithToken ==
  /\ UNCHANGED call
  /\ \/ \E t \in DOMAIN claims :
          Connect(ConnectWithJwtAccessToken(cl, claims[t], t), NoUser, {claims[t]}, claims[t])
     \/ \E u \in Users : Connect(ConnectWithJwtAccessToken(cl, u, BadToken), NoUser, {}, session)

\* The POST names the user and is accepted when the password is the user's own.
ConnectWithJWTLogin(u, secret) ==
  /\ Connect(LoginStart(cl, u), NoUser, {}, session)
  /\ call' = [call EXCEPT ![Owner] =
       [Idle EXCEPT !.at = "header", !.op = "login",
                    !.login = IF u = secret THEN u ELSE NoUser]]

\* Close waits for no call; here it is used when none is running.
CloseClient ==
  /\ \A c \in Callers : call[c].at = "idle"
  /\ cl' = Close(cl)
  /\ pool' = {}
  /\ UNCHANGED <<server, transportCert, known, session, connects, overtaken, claims, expired, call>>

-----------------------------------------------------------------------------
(* A call: Invoke, and the exchanges it consists of.                       *)

Invoke(c, method) ==
  /\ call[c].at = "idle"
  /\ call' = [call EXCEPT ![c] = [Idle EXCEPT !.at = "header", !.method = method]]
  /\ UNCHANGED <<server, client, claims, expired>>

\* The header is made from the client as it is now.
Sent(c, client_, auth) ==
  [call[c] EXCEPT !.at = "waiting", !.phase = "request", !.auth = auth, !.ans = "none",
     !.user   = IF auth = "basic" THEN client_.userID ELSE NoUser,
     !.secret = IF auth = "basic" THEN client_.basicSecret ELSE NoUser,
     !.token  = IF auth = "bearer" THEN client_.token ELSE NoToken,
     !.cookie = NoUser, !.issued = NoToken, !.ran = FALSE]
Refresh(c) == [call[c] EXCEPT !.at = "waiting", !.phase = "refresh",
                              !.cookie = cl.http.cookie]
Succeeded(c) == [Idle EXCEPT !.result = "ok", !.ran = call[c].ran,
                             !.method = call[c].method]
Failed == Idle

\* RefreshJWTTokenIfExpired asks for a new token only when this one has expired,
\* and fails at once on a token that it cannot parse.
Header(c) ==
  /\ call[c].at = "header"
  /\ call' = [call EXCEPT ![c] =
       LET mode == Mode(cl, expired)
       IN CASE mode \in {"closed", "unparsable"} -> Failed
            [] mode = "refresh" -> Refresh(c)
            [] OTHER -> Sent(c, cl, mode)]
  /\ UNCHANGED <<server, client, claims, expired>>

ServeAuth(c, u, granted) ==
  \/ /\ granted
     /\ Len(claims) < MaxTokens
     /\ claims' = Append(claims, u)
     /\ call' = [call EXCEPT ![c] = [@ EXCEPT !.at = "answered", !.ans = "ok",
                             !.ran = TRUE, !.issued = Len(claims) + 1]]
  \/ /\ \E ans \in IF granted THEN {"refused", "empty", "malformed"} ELSE {"refused"} :
          call' = [call EXCEPT ![c] = [@ EXCEPT !.at = "answered", !.ans = ans,
                             !.ran = (ans = "empty")]]
     /\ UNCHANGED claims

ServeRequest(c, cert) ==
  /\ LET req == [method |-> call[c].method, cert |-> cert, auth |-> call[c].auth,
                 user |-> call[c].user, secret |-> call[c].secret, token |-> call[c].token]
         answer == S!Respond(req, claims, expired, NoUser)
     IN call' = [call EXCEPT ![c] = [@ EXCEPT !.at = "answered", !.ran = answer.ran,
                             !.user = answer.user,
                             !.ans = IF answer.ok THEN "ok" ELSE "refused"]]
  /\ UNCHANGED claims

\* The server answers what it was sent, on a connection that is kept alive or on
\* a new one, which presents the certificate that is configured now.
Serve(c) ==
  /\ call[c].at = "waiting"
  /\ S!Listening
  /\ \E cert \in pool \cup {transportCert} :
       /\ pool' = pool \cup {cert}
       /\ \/ /\ call[c].phase = "refresh"
             /\ ServeAuth(c, call[c].cookie, call[c].cookie # NoUser)
          \/ /\ call[c].phase = "request" /\ call[c].op = "login"
             /\ ServeAuth(c, call[c].login, call[c].login # NoUser)
          \/ /\ call[c].phase = "request" /\ call[c].op = "invoke"
             /\ ServeRequest(c, cert)
  /\ UNCHANGED <<server, cl, transportCert, known, session, connects, overtaken, expired>>

\* The answer of a refresh: an error ends the call, a refusal does not.
TakeRefresh(c) ==
  /\ call[c].at = "answered"
  /\ call[c].phase = "refresh"
  /\ LET next == RefreshAnswered(cl, call[c].ans, call[c].issued)
     IN /\ cl' = next
        /\ call' = [call EXCEPT ![c] =
             IF RefreshFails(call[c].ans) THEN Failed
             ELSE Sent(c, next, "bearer")]
  /\ UNCHANGED <<server, transportCert, pool, known, session, connects, overtaken, claims, expired>>

\* Defect: the HTTP status is not looked at.
TakeAnyAnswer(c) ==
  /\ call[c].at = "answered"
  /\ call[c].phase = "request"
  /\ call' = [call EXCEPT ![c] = Succeeded(c)]
  /\ UNCHANGED <<server, client, claims, expired>>

TakeAnswer(c) ==
  /\ call[c].at = "answered"
  /\ call[c].phase = "request"
  /\ call' = [call EXCEPT ![c] = IF LoginFails(@.ans) THEN Failed ELSE Succeeded(c)]
  /\ IF call[c].op = "login"
     THEN /\ cl' = LoginAnswered(cl, call[c].ans, call[c].issued, call[c].login)
          /\ session' = IF call[c].ans = "ok" THEN call[c].login ELSE session
          /\ known' = IF call[c].ans = "ok" THEN known \cup {call[c].login} ELSE known
     ELSE UNCHANGED <<cl, session, known>>
  /\ UNCHANGED <<server, transportCert, pool, connects, overtaken, claims, expired>>

\* Defect: the HTTP client has no timeout.
NoTimeout(c) == FALSE /\ UNCHANGED vars

\* A connection that fails, a lost answer, or a server that does not answer in
\* time: the error of http.Client.Do.
Timeout(c) ==
  /\ call[c].at \in {"waiting", "answered"}
  /\ call' = [call EXCEPT ![c] = Failed]
  /\ UNCHANGED <<server, client, claims, expired>>

-----------------------------------------------------------------------------
Expire ==
  /\ \E t \in DOMAIN claims \ expired : expired' = expired \cup {t}
  /\ UNCHANGED <<server, client, claims, call>>

\* A bound: the client is first connected when the first Start has succeeded, and
\* then the server is not started again.  Stop closes the idle connections.
ServerStep ==
  /\ \/ /\ connects = 0
        /\ \/ S!StartRefused \/ S!Start \/ S!StartReturns
           \/ \E s \in S!Servers : S!Listen(s)
        /\ UNCHANGED pool
     \/ S!Stop /\ pool' = {}
  /\ UNCHANGED <<cl, transportCert, known, session, connects, overtaken, claims, expired, call>>

CallStep(c) == Header(c) \/ TakeRefresh(c) \/ TakeAnswer(c) \/ Timeout(c)

Next ==
  \/ ConnectOther \/ ConnectWithToken \/ CloseClient \/ Expire \/ ServerStep
  \/ \E u, secret \in Users : ConnectWithJWTLogin(u, secret)
  \/ \E c \in Callers :
       \/ Invoke(c, "get")
       \/ c = Owner /\ Invoke(c, "options")
       \/ CallStep(c)
       \/ Serve(c)

Spec == Init /\ [][Next]_vars

\* Goroutines are scheduled and the client's timeout expires; nothing is
\* assumed of the server and the network.
FairSpec == Spec /\ \A c \in Callers : WF_vars(CallStep(c))

-----------------------------------------------------------------------------
\* A call that returns without error was answered by a handler that ran for it,
\* or was a CORS preflight: no refusal of any authenticator is taken for success.
ResultHonest ==
  \A c \in Callers : call[c].result = "ok" => call[c].ran \/ call[c].method = "options"

\* A handler never runs as a user whose credentials the client has not been
\* accepted with: a failed login does not lend its user ID to older credentials.
UserIsKnown ==
  \A c \in Callers : call[c].at = "answered" /\ call[c].op = "invoke" /\ call[c].ran
                       /\ call[c].phase = "request"
    => call[c].user \in known \/ (call[c].user = NoUser /\ Plugin \in known)

\* The access token in use belongs to the session it was obtained for: after a
\* connect as another user, no refresh brings back a token of the one before,
\* unless a call was under way during the connect.
TokenOfSession ==
  ~overtaken => cl.token \in {NoToken, BadToken} \/ claims[cl.token] = session

\* After Stop nothing listens, also when Stop came before the goroutine of Start
\* had begun to listen; unless Start was used twice without a Stop.
StopEffective == stopped /\ ~restarted => ~S!Listening

\* Every call returns, whatever the server does.
CallsReturn == \A c \in Callers : (call[c].at # "idle") ~> (call[c].at = "idle")
=============================================================================

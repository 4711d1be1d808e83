----------------------------- MODULE TlsServer -----------------------------
(***************************************************************************)
(* The TLS server of src/pkg/tlsserver: its start and stop, and the chain  *)
(* of authenticators that each request passes.                             *)
(*                                                                         *)
(* Start makes an http.Server, lets a goroutine listen with it, sleeps for *)
(* a second and reports what the goroutine has failed with so far.  The    *)
(* http.Server objects are numbered in the order of their making.          *)
(***************************************************************************)
EXTENDS Naturals

CONSTANTS
  MaxStarts,   \* how often Start is called; a bound
  NoServer,    \* httpServer == nil
  Enabled      \* authenticators besides that for certificates: "jwt", "basic"

VARIABLES
  hasCerts,    \* the server has a CA and a server certificate
  httpServer,  \* the http.Server in use
  status,      \* per http.Server
  start,       \* the call of Start: idle, sleeping, or what it has returned
  err,         \* what the listening goroutine reports to that call
  stopped,     \* Stop was called after the last Start
  restarted    \* Start was called with a server that was not stopped

vars == <<hasCerts, httpServer, status, start, err, stopped, restarted>>

Servers == 1..MaxStarts
Statuses == {"unborn", "spawned", "listening", "failed", "shut", "done"}

TypeOK ==
  /\ hasCerts \in BOOLEAN
  /\ httpServer \in Servers \cup {NoServer}
  /\ status \in [Servers -> Statuses]
  /\ start \in {"idle", "sleeping", "ok", "error"}
  /\ err \in BOOLEAN
  /\ stopped \in BOOLEAN
  /\ restarted \in BOOLEAN

Init ==
  /\ hasCerts \in BOOLEAN
  /\ httpServer = NoServer
  /\ status = [s \in Servers |-> "unborn"]
  /\ start = "idle"
  /\ err = FALSE
  /\ stopped = FALSE
  /\ restarted = FALSE

-----------------------------------------------------------------------------
StartRefused ==
  /\ ~hasCerts
  /\ start # "sleeping"
  /\ start' = "error"
  /\ UNCHANGED <<hasCerts, httpServer, status, err, stopped, restarted>>

Start ==
  /\ hasCerts
  /\ start # "sleeping"
  /\ \E s \in Servers :
       /\ status[s] = "unborn"
       /\ \A t \in Servers : status[t] = "unborn" => s <= t
       /\ httpServer' = s
       /\ status' = [status EXCEPT ![s] = "spawned"]
  /\ start' = "sleeping"
  /\ err' = FALSE
  /\ stopped' = FALSE
  /\ restarted' = (restarted \/ \E s \in Servers : status[s] \in {"spawned", "listening"})
  /\ UNCHANGED hasCerts

\* The goroutine: ListenAndServeTLS returns ErrServerClosed, which is not
\* reported, when the server was shut down already; it fails when the port is
\* in use, by a server that still listens or by another process.
Listen(s) ==
  /\ \/ status[s] = "shut" /\ status' = [status EXCEPT ![s] = "done"] /\ UNCHANGED err
     \/ /\ status[s] = "spawned"
        /\ \A t \in Servers : status[t] # "listening"
        /\ status' = [status EXCEPT ![s] = "listening"]
        /\ UNCHANGED err
     \/ /\ status[s] = "spawned"
        /\ status' = [status EXCEPT ![s] = "failed"]
        /\ err' = IF httpServer = s THEN TRUE ELSE err
  /\ UNCHANGED <<hasCerts, httpServer, start, stopped, restarted>>

StartReturns ==
  /\ start = "sleeping"
  /\ start' = IF err THEN "error" ELSE "ok"
  /\ UNCHANGED <<hasCerts, httpServer, status, err, stopped, restarted>>

\* Defect: only a server that listens is shut down.
StopListening ==
  /\ start # "sleeping"
  /\ stopped' = TRUE
  /\ status' = [s \in Servers |-> IF s = httpServer /\ status[s] = "listening"
                                  THEN "done" ELSE status[s]]
  /\ UNCHANGED <<hasCerts, httpServer, start, err, restarted>>

\* Shutdown closes the listener; a server that is not yet listening will not.
Stop ==
  /\ start # "sleeping"
  /\ stopped' = TRUE
  /\ status' = [s \in Servers |->
                  IF s # httpServer THEN status[s]
                  ELSE CASE status[s] = "spawned"   -> "shut"
                         [] status[s] = "listening" -> "done"
                         [] OTHER                   -> status[s]]
  /\ UNCHANGED <<hasCerts, httpServer, start, err, restarted>>

Listening == \E s \in Servers : status[s] = "listening"

-----------------------------------------------------------------------------
(* Requests: [method, cert, auth, user, secret, token] with the identity   *)
(* of the client's certificate, and what its Authorization header holds.   *)

\* CertAuthenticator: a certificate that the TLS handshake has accepted.
CertAuth(req, noUser) == [user |-> IF req.cert = "plugin" THEN noUser ELSE req.cert,
                          match |-> req.cert # noUser]

\* JWTAuthenticator: a signed token that has not expired.
JwtAuth(req, claims, expired, noUser) ==
  LET valid == /\ "jwt" \in Enabled /\ req.auth = "bearer"
               /\ req.token \in DOMAIN claims \ expired
  IN [user |-> IF valid THEN claims[req.token] ELSE noUser, match |-> valid]

\* Defect: a wrong password is reported and the user let in.
BasicUnverified(req, noUser) ==
  [user |-> IF req.auth = "basic" THEN req.user ELSE noUser,
   match |-> req.auth = "basic"]

\* BasicAuthenticator: the application verifies the password.
BasicAuth(req, noUser) ==
  [user |-> IF req.auth = "basic" THEN req.user ELSE noUser,
   match |-> "basic" \in Enabled /\ req.auth = "basic" /\ req.secret = req.user]

\* HttpAuthenticator: certificate, bearer token, password, in this order; the
\* user of a refusal is that of the last authenticator.
AuthenticateRequest(req, claims, expired, noUser) ==
  LET cert == CertAuth(req, noUser)
      jwt == JwtAuth(req, claims, expired, noUser)
  IN IF cert.match THEN cert
     ELSE IF jwt.match THEN jwt
     ELSE BasicAuth(req, noUser)

\* The handler of AddHandler: CORS preflight requests end here.
Respond(req, claims, expired, noUser) ==
  LET auth == AuthenticateRequest(req, claims, expired, noUser)
  IN IF req.method = "options" THEN [ran |-> FALSE, user |-> noUser, ok |-> TRUE]
     ELSE [ran |-> auth.match, user |-> auth.user, ok |-> auth.match]
=============================================================================

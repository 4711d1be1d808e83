----------------------------- MODULE TlsClient -----------------------------
(***************************************************************************)
(* The TLS client of src/pkg/tlsclient/TLSClient.go: what its operations   *)
(* do to the client object, as functions on the object.  The exchanges     *)
(* with a server that come between them are steps of the modules that use  *)
(* the client.                                                             *)
(*                                                                         *)
(* A password is represented by the user whose password it is.  An access  *)
(* token is a number; the refresh token is a cookie in the cookie jar of   *)
(* the HTTP client, represented by the user it was issued to.              *)
(***************************************************************************)
EXTENDS Naturals

CONSTANTS
  Users,
  NoUser,     \* the empty user ID, password, or cookie
  BadToken,   \* an access token that is not a JWT
  NoHttp      \* no HTTP client: not connected, or closed

NoToken == 0   \* the empty access token

Client == [http : {NoHttp} \cup [jar : BOOLEAN, cookie : Users \cup {NoUser}],
           userID : Users \cup {NoUser}, basicSecret : Users \cup {NoUser},
           token : Nat \cup {BadToken}]

NewTLSClient == [http |-> NoHttp, userID |-> NoUser, basicSecret |-> NoUser,
                 token |-> NoToken]

\* Defect: the cookies of the previous connection are kept.
connectKeepsJar(cl) ==
  [cl EXCEPT !.http = IF @ = NoHttp \/ ~@.jar THEN [jar |-> TRUE, cookie |-> NoUser] ELSE @]

\* Every connection has a new HTTP client, with a new cookie jar.
connect(cl) == [cl EXCEPT !.http = [jar |-> TRUE, cookie |-> NoUser]]

\* No operation forgets the credentials of another mode.
ConnectNoAuth(cl) == connect(cl)
ConnectWithBasicAuth(cl, u, passwd) ==
  [connect(cl) EXCEPT !.userID = u, !.basicSecret = passwd]
ConnectWithJwtAccessToken(cl, u, token) ==
  [connect(cl) EXCEPT !.userID = u, !.token = token]

\* A certificate that the CA has signed; there is no cookie jar.
ConnectWithClientCert(cl) ==
  [cl EXCEPT !.http = [jar |-> FALSE, cookie |-> NoUser]]

Close(cl) == [cl EXCEPT !.http = NoHttp]

\* The user changes before the server has accepted the password.
LoginStart(cl, u) == [connect(cl) EXCEPT !.userID = u]

-----------------------------------------------------------------------------
(* Answers: a token, a refusal (HTTP status 400 and up), JSON without a    *)
(* token, a body that is not the expected JSON, or no answer at all.       *)

Answers == {"ok", "refused", "empty", "malformed", "none"}

\* ConnectWithJWTLogin after its POST: a failure leaves the old token, and JSON
\* without a token wipes it without an error.
LoginAnswered(cl, ans, token, u) ==
  CASE ans = "ok"    -> [cl EXCEPT !.token = token,
                          !.http = IF @ # NoHttp /\ @.jar THEN [@ EXCEPT !.cookie = u] ELSE @]
    [] ans = "empty" -> [cl EXCEPT !.token = NoToken]
    [] OTHER         -> cl
LoginFails(ans) == ans \notin {"ok", "empty"}

\* RefreshJWTTokens: a body without a token wipes the token.
RefreshAnswered(cl, ans, token) ==
  CASE ans = "ok"                     -> [cl EXCEPT !.token = token]
    [] ans \in {"empty", "malformed"} -> [cl EXCEPT !.token = NoToken]
    [] OTHER                          -> cl
RefreshFails(ans) == ans \in {"malformed", "none"}       \* it returns an error
RefreshIsNil(ans) == ans \in {"refused", "none"}         \* it returns nil tokens

\* How Invoke authenticates a request.
Mode(cl, expired) ==
  IF cl.http = NoHttp THEN "closed"
  ELSE IF cl.userID # NoUser /\ cl.basicSecret # NoUser THEN "basic"
  ELSE IF cl.token = NoToken THEN "none"
  ELSE IF cl.token = BadToken THEN "unparsable"
  ELSE IF cl.token \in expired THEN "refresh"
  ELSE "bearer"
=============================================================================

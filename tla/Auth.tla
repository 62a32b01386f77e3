-------------------------------- MODULE Auth --------------------------------
(***************************************************************************)
(* Accounts and the way into the server: users, passwords, API keys, login *)
(* sessions (src/internal/session), the authentication middleware, the     *)
(* login, registration and logout handlers, requireOwner                   *)
(* (src/internal/server/auth.go, loginauth.go), the posture `sth start`    *)
(* chooses, and Start and Stop with the mutex they share with the handlers.*)
(*                                                                         *)
(* Every store call is one statement, so requests interleave between them. *)
(* Tokens, keys and ids are random: a slot is handed out once.  Time only  *)
(* matters as the moment a login session expires.                          *)
(***************************************************************************)
EXTENDS FiniteSets

CONSTANTS
    Names,      \* user names; a user stands for its name, which is UNIQUE
    Secrets,    \* passwords that pass the length check
    Logins,     \* bound: the names and passwords people send
    Keys,       \* API keys
    Holder,     \* bound: the user each key is issued to
    Prefix,     \* the first twelve characters of each key, as stored
    Cookies,    \* login session tokens
    Docs,       \* sessions
    Postures,   \* what `sth start` may be given: auth, protect, openReg
    Requests,   \* bound: requests at the same time
    Serves,     \* bound: the kinds of request each slot is used for
    StoreFaults,    \* store calls may fail
    None

ASSUME NoneAssumption == None \notin Names \cup Secrets \cup Keys \cup Cookies \cup Docs
ASSUME KindsOfCredentialAssumption == Keys \cap Cookies = {}
ASSUME SomebodyAssumption == Names # {} /\ Secrets # {} /\ Docs # {} /\ "nobody" \notin Names \cup {None}
ASSUME StoreFaultsAssumption == StoreFaults \in BOOLEAN
ASSUME LoginsAssumption == Logins \subseteq Names \X Secrets
ASSUME HolderAssumption == Holder \in [Keys -> Names]
ASSUME PrefixAssumption == DOMAIN Prefix = Keys
ASSUME PosturesAssumption == Postures \subseteq [auth : BOOLEAN, protect : BOOLEAN, openReg : BOOLEAN]

VARIABLES
    life,       \* "up", "stopping" (Stop holds Server.mu) or "down"
    posture,    \* Server.authEnabled, protectPreviews, allowRegistration
    users,      \* users
    password,   \* user_credentials
    keyUser,    \* api_keys: whose key it is
    revoked,    \* api_keys with revoked_at
    login,      \* login_sessions: "unused", "live", "expired" or "deleted"
    loginUser,  \* whose login session it is
    owner,      \* sessions.user_id; None while the session does not exist
    req         \* the requests

accountVars == <<users, password, keyUser, revoked>>
loginVars == <<login, loginUser>>
vars == <<life, posture, accountVars, loginVars, owner, req>>

Kinds == {"login", "register", "logout", "edit", "create", "read", "preview"}
Nobody == "nobody"      \* no user in the request's context; user_id NULL
AuthPages == {"login", "register", "logout"}
ASSUME ServesAssumption == Serves \in [Requests -> SUBSET Kinds]
Mutating == {"edit", "create"}

Steps == {"off", "cookie", "purge", "bearer", "inside", "owns", "made",
          "stamped", "found", "created", "granted"}

\* stale: the credentials of the request that were dead when it arrived.
RequestType ==
    [pc : Steps, kind : Kinds,
     name : Names, secret : Secrets, doc : Docs,
     bearer : Keys \cup {None}, cookie : Cookies \cup {None},
     uid : Names \cup {Nobody}, via : Keys \cup Cookies \cup {None},
     stale : SUBSET (Keys \cup Cookies)]

TypeOK ==
    /\ life \in {"up", "stopping", "down"}
    /\ posture \in [auth : BOOLEAN, protect : BOOLEAN, openReg : BOOLEAN]
    /\ posture.protect => posture.auth
    /\ users \subseteq Names
    /\ password \in [Names -> Secrets \cup {None}]
    /\ keyUser \in [Keys -> Names \cup {None}]
    /\ revoked \subseteq {k \in Keys : keyUser[k] # None}
    /\ login \in [Cookies -> {"unused", "live", "expired", "deleted"}]
    /\ loginUser \in [Cookies -> Names \cup {None}]
    /\ owner \in [Docs -> Names \cup {Nobody, None}]
    /\ req \in [Requests -> RequestType]

\* A slot nobody uses; the fields mean nothing.
Blank ==
    [pc |-> "off", kind |-> "read", name |-> CHOOSE n \in Names : TRUE,
     secret |-> CHOOSE s \in Secrets : TRUE, doc |-> CHOOSE d \in Docs : TRUE,
     bearer |-> None, cookie |-> None, uid |-> Nobody, via |-> None, stale |-> {}]

Idle(r) == req[r].pc = "off"
At(r, pc) == req[r].pc = pc

\* The state of a request after a step, and the request's end.
Goto(r, pc) == req' = [req EXCEPT ![r].pc = pc]
End(r) == req' = [req EXCEPT ![r] = Blank]

NoPosture == [auth |-> FALSE, protect |-> FALSE, openReg |-> FALSE]

Init ==
    /\ life = "down"
    /\ posture = NoPosture
    /\ users = {} /\ password = [n \in Names |-> None]
    /\ keyUser = [k \in Keys |-> None] /\ revoked = {}
    /\ login = [c \in Cookies |-> "unused"] /\ loginUser = [c \in Cookies |-> None]
    /\ owner = [d \in Docs |-> None]
    /\ req = [r \in Requests |-> Blank]

\* A plausible bug: --protect-previews does not turn authentication on.
StartProtectedOnly(p) ==
    /\ life = "down"
    /\ life' = "up"
    /\ posture' = p
    /\ UNCHANGED <<accountVars, loginVars, owner, req>>

(***************************************************************************)
(* The life of the server.  SetProtectPreviews forces authentication on,   *)
(* and --allow-registration is only applied when authentication is on.     *)
(***************************************************************************)
Start(p) ==
    /\ life = "down"
    /\ life' = "up"
    /\ posture' = [auth |-> p.auth \/ p.protect, protect |-> p.protect,
                   openReg |-> p.openReg /\ (p.auth \/ p.protect)]
    /\ UNCHANGED <<accountVars, loginVars, owner, req>>

Stop ==
    /\ life = "up"
    /\ life' = "stopping"
    /\ UNCHANGED <<posture, accountVars, loginVars, owner, req>>

Goes ==
    /\ life' = "down" /\ posture' = NoPosture
    /\ req' = [r \in Requests |-> Blank]
    /\ UNCHANGED <<accountVars, loginVars, owner>>

\* Shutdown waits for the requests under way, but five seconds at most.
ShutDown == life = "stopping" /\ (\A r \in Requests : Idle(r)) /\ Goes
\* A plausible bug: Shutdown is called without a deadline.
ShutdownWaits == FALSE

ShutdownTimesOut == life = "stopping" /\ (\E r \in Requests : ~Idle(r)) /\ Goes

\* Server.mu can be read: Stop holds it for as long as it waits.
MuIsFree == life = "up"

(***************************************************************************)
(* The command line client works on the database, server or no server.     *)
(***************************************************************************)
UserAdd(n) ==
    /\ n \notin users
    /\ users' = users \cup {n}
    /\ UNCHANGED <<life, posture, password, keyUser, revoked, loginVars, owner, req>>

IssueAPIKey(k) ==
    /\ Holder[k] \in users /\ keyUser[k] = None
    /\ keyUser' = [keyUser EXCEPT ![k] = Holder[k]]
    /\ UNCHANGED <<life, posture, users, password, revoked, loginVars, owner, req>>

Active == {k \in Keys : keyUser[k] # None} \ revoked

\* By id, or by the stored prefix when exactly one active key has it.
Matches(k, byPrefix) == IF byPrefix THEN {j \in Active : Prefix[j] = Prefix[k]} ELSE {k} \cap Active

RevokeAPIKey(k, byPrefix) ==
    /\ Cardinality(Matches(k, byPrefix)) = 1
    /\ revoked' = revoked \cup Matches(k, byPrefix)
    /\ UNCHANGED <<life, posture, users, password, keyUser, loginVars, owner, req>>

Expire(c) ==
    /\ login[c] = "live"
    /\ login' = [login EXCEPT ![c] = "expired"]
    /\ UNCHANGED <<life, posture, accountVars, loginUser, owner, req>>

(***************************************************************************)
(* The middleware.                                                         *)
(***************************************************************************)
Issued == {k \in Keys : keyUser[k] # None} \cup {c \in Cookies : login[c] # "unused"}
Dead == revoked \cup {c \in Cookies : login[c] \in {"expired", "deleted"}}

OpenTo(k) ==
    \/ ~posture.auth
    \/ k \in AuthPages
    \/ k = "preview" /\ ~posture.protect

\* A request passes the gate, which reads the posture under Server.mu.  Fields
\* that its kind does not use are left blank.
Arrive(r, k, n, s, d, b, c) ==
    /\ MuIsFree /\ Idle(r)
    /\ {b, c} \subseteq Issued \cup {None}
    /\ IF k \in {"login", "register"} THEN <<n, s>> \in Logins
       ELSE n = Blank.name /\ s = Blank.secret
    /\ k \in Mutating \/ d = Blank.doc
    /\ k \in AuthPages \/ OpenTo(k) => b = None
    /\ k \in Mutating \cup {"login", "register"} \/ (k # "logout" /\ OpenTo(k)) => c = None
    /\ k = "edit" => owner[d] # None
    /\ k = "create" => owner[d] = None
    /\ req' = [req EXCEPT ![r] =
                 [pc |-> IF OpenTo(k) THEN "inside" ELSE IF k \in Mutating THEN "bearer" ELSE "cookie",
                  kind |-> k, name |-> n, secret |-> s, doc |-> d, bearer |-> b, cookie |-> c,
                  uid |-> Nobody, via |-> None,
                  stale |-> Dead \cap {b, c}]]
    /\ UNCHANGED <<life, posture, accountVars, loginVars, owner>>

Admit(r, user, credential) ==
    req' = [req EXCEPT ![r].pc = "inside", ![r].uid = user, ![r].via = credential,
                       ![r].bearer = None, ![r].cookie = None]

\* No valid cookie: the Bearer key decides.
TryBearer(r) ==
    req' = [req EXCEPT ![r].pc = "bearer", ![r].cookie = None,
                       ![r].stale = @ \cap {req[r].bearer}]

LiveLogin(c) == c # None /\ login[c] = "live"
ExpiredLogin(c) == c # None /\ login[c] = "expired"

VerifyLoginSession(r) ==
    LET c == req[r].cookie
    IN  /\ At(r, "cookie")
        /\ IF LiveLogin(c) THEN Admit(r, loginUser[c], c)
           ELSE IF ExpiredLogin(c) THEN Goto(r, "purge") ELSE TryBearer(r)
        /\ UNCHANGED <<life, posture, accountVars, loginVars, owner>>

\* The expired row is deleted in a statement of its own, whose error is ignored.
Purge(r) ==
    /\ At(r, "purge")
    /\ login' \in {[login EXCEPT ![req[r].cookie] = "deleted"]}
                    \cup (IF StoreFaults THEN {login} ELSE {})
    /\ TryBearer(r)
    /\ UNCHANGED <<life, posture, accountVars, loginUser, owner>>

\* A plausible bug: revoked_at is not looked at.
VerifyAnyAPIKey(r) ==
    LET k == req[r].bearer
    IN  /\ At(r, "bearer")
        /\ IF k # None /\ keyUser[k] # None THEN Admit(r, keyUser[k], k) ELSE End(r)
        /\ UNCHANGED <<life, posture, accountVars, loginVars, owner>>

VerifyAPIKey(r) ==
    LET k == req[r].bearer
    IN  /\ At(r, "bearer")
        /\ IF k \in Active THEN Admit(r, keyUser[k], k) ELSE End(r)
        /\ UNCHANGED <<life, posture, accountVars, loginVars, owner>>

\* A failing store call ends a request, most often with 500.  bcrypt refusing a
\* password of more than 72 bytes is one of them (at "created").
StoreFails(r) ==
    /\ StoreFaults
    /\ \E pc \in Steps \ {"off", "purge", "stamped"} : At(r, pc)
    /\ End(r)
    /\ UNCHANGED <<life, posture, accountVars, loginVars, owner>>

(***************************************************************************)
(* Handlers of sessions.                                                   *)
(***************************************************************************)
Serve(r) ==
    /\ At(r, "inside") /\ req[r].kind \in {"read", "preview"}
    /\ End(r)
    /\ UNCHANGED <<life, posture, accountVars, loginVars, owner>>

\* A plausible bug: a session without owner is anybody's.
MayChangeUnowned(r) == req[r].uid = Nobody \/ owner[req[r].doc] \in {req[r].uid, Nobody}

\* No user in the context: authentication is off, everything is permitted.
MayChange(r) == req[r].uid = Nobody \/ owner[req[r].doc] = req[r].uid

RequireOwner(r) ==
    /\ At(r, "inside") /\ req[r].kind = "edit"
    /\ IF owner[req[r].doc] # None /\ MayChange(r) THEN Goto(r, "owns") ELSE End(r)
    /\ UNCHANGED <<life, posture, accountVars, loginVars, owner>>

\* Tags, category, project, files, deletion: what is changed does not matter here.
Change(r) ==
    /\ At(r, "owns")
    /\ End(r)
    /\ UNCHANGED <<life, posture, accountVars, loginVars, owner>>

CreateDoc(r) ==
    /\ At(r, "inside") /\ req[r].kind = "create"
    /\ IF owner[req[r].doc] = None
           THEN /\ owner' = [owner EXCEPT ![req[r].doc] = Nobody]
                /\ req' = [req EXCEPT ![r].pc = "made", ![r].via = None, ![r].stale = {}]
           ELSE End(r) /\ UNCHANGED owner     \* the slot was taken: bound
    /\ UNCHANGED <<life, posture, accountVars, loginVars>>

AssignOwner(r) ==
    /\ At(r, "made")
    /\ owner' = [owner EXCEPT ![req[r].doc] = req[r].uid]
    /\ Goto(r, "stamped")
    /\ UNCHANGED <<life, posture, accountVars, loginVars>>

\* The preview URL of the answer is built under Server.mu.
AnswerCreate(r) ==
    /\ At(r, "stamped") /\ MuIsFree
    /\ End(r)
    /\ UNCHANGED <<life, posture, accountVars, loginVars, owner>>

(***************************************************************************)
(* Login, registration and logout.                                         *)
(***************************************************************************)
FindUser(r) ==
    /\ At(r, "inside") /\ req[r].kind = "login"
    /\ IF req[r].name \in users THEN Goto(r, "found") ELSE End(r)
    /\ UNCHANGED <<life, posture, accountVars, loginVars, owner>>

VerifyPassword(r) ==
    /\ At(r, "found")
    /\ IF password[req[r].name] = req[r].secret THEN Goto(r, "granted") ELSE End(r)
    /\ UNCHANGED <<life, posture, accountVars, loginVars, owner>>

\* A plausible bug: a name that is taken is registered again.
CreateUserAgain(r) ==
    /\ At(r, "inside") /\ req[r].kind = "register"
    /\ IF posture.openReg
           THEN users' = users \cup {req[r].name} /\ Goto(r, "created")
           ELSE End(r) /\ UNCHANGED users
    /\ UNCHANGED <<life, posture, password, keyUser, revoked, loginVars, owner>>

CreateUser(r) ==
    /\ At(r, "inside") /\ req[r].kind = "register"
    /\ IF posture.openReg /\ req[r].name \notin users
           THEN users' = users \cup {req[r].name} /\ Goto(r, "created")
           ELSE End(r) /\ UNCHANGED users
    /\ UNCHANGED <<life, posture, password, keyUser, revoked, loginVars, owner>>

SetPassword(r) ==
    /\ At(r, "created")
    /\ password' = [password EXCEPT ![req[r].name] = req[r].secret]
    /\ Goto(r, "granted")
    /\ UNCHANGED <<life, posture, users, keyUser, revoked, loginVars, owner>>

CreateLoginSession(r) ==
    LET free == {c \in Cookies : login[c] = "unused"}
        c == CHOOSE x \in free : TRUE
    IN  /\ At(r, "granted") /\ free # {}
        /\ login' = [login EXCEPT ![c] = "live"]
        /\ loginUser' = [loginUser EXCEPT ![c] = req[r].name]
        /\ End(r)
        /\ UNCHANGED <<life, posture, accountVars, owner>>

\* The error of the DELETE is ignored, the browser's cookie is cleared anyway.
Logout(r) ==
    /\ At(r, "inside") /\ req[r].kind = "logout"
    /\ login' = IF LiveLogin(req[r].cookie) \/ ExpiredLogin(req[r].cookie)
                    THEN [login EXCEPT ![req[r].cookie] = "deleted"] ELSE login
    /\ End(r)
    /\ UNCHANGED <<life, posture, accountVars, loginUser, owner>>

HandlerStep(r) ==
    \/ VerifyLoginSession(r) \/ Purge(r) \/ VerifyAPIKey(r)
    \/ Serve(r) \/ RequireOwner(r) \/ Change(r)
    \/ CreateDoc(r) \/ AssignOwner(r) \/ AnswerCreate(r)
    \/ FindUser(r) \/ VerifyPassword(r) \/ CreateUser(r) \/ SetPassword(r)
    \/ CreateLoginSession(r) \/ Logout(r)

Next ==
    \/ \E p \in Postures : Start(p)
    \/ Stop \/ ShutDown \/ ShutdownTimesOut
    \/ \E n \in Names : UserAdd(n)
    \/ \E k \in Keys : IssueAPIKey(k)
    \/ \E k \in Keys, byPrefix \in BOOLEAN : RevokeAPIKey(k, byPrefix)
    \/ \E c \in Cookies : Expire(c)
    \/ \E r \in Requests : \E k \in Serves[r], n \in Names, s \in Secrets, d \in Docs,
          b \in Keys \cup {None}, c \in Cookies \cup {None} :
          Arrive(r, k, n, s, d, b, c)
    \/ \E r \in Requests : HandlerStep(r) \/ StoreFails(r)

\* Handlers run and Shutdown returns; nobody has to start or stop the server.
Fairness ==
    /\ WF_vars(ShutDown) /\ WF_vars(ShutdownTimesOut)
    /\ \A r \in Requests : WF_vars(HandlerStep(r))

Spec == Init /\ [][Next]_vars /\ Fairness

(***************************************************************************)
(* Under --auth an existing session is only changed for its owner, on an   *)
(* API key and never on a cookie, whatever postures the server ran with    *)
(* before (authMiddleware, requireOwner).                                  *)
(***************************************************************************)
OnlyOwnersChange ==
    [][\A r \in Requests :
          Change(r) /\ posture.auth =>
              req[r].via \in Keys /\ keyUser[req[r].via] = owner[req[r].doc]]_vars

(***************************************************************************)
(* A credential that was revoked, expired or logged out before a request   *)
(* arrived admits that request nowhere, however long ago it was checked    *)
(* for another one (VerifyAPIKey, VerifyLoginSession).                     *)
(***************************************************************************)
DeadCredentialsAdmitNobody == \A r \in Requests : req[r].via \notin req[r].stale

(***************************************************************************)
(* Whoever is given a login session of a user has sent that user's         *)
(* password, also when several registrations of a name race                *)
(* (handleRegisterPost, handleLoginPost).                                  *)
(***************************************************************************)
SignInsKnowThePassword ==
    [][\A c \in Cookies : login[c] = "unused" /\ login'[c] # "unused" =>
          \E r \in Requests :
              /\ req[r].pc = "granted" /\ req'[r].pc = "off"
              /\ req[r].name = loginUser'[c]
              /\ req[r].secret = password[loginUser'[c]]]_vars

(***************************************************************************)
(* Stop comes to an end although it holds the mutex that requests under    *)
(* way wait for, which Shutdown waits for (server.go:618-628).             *)
(***************************************************************************)
StopEnds == life = "stopping" ~> life = "down"
=============================================================================

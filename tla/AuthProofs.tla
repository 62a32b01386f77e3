----------------------------- MODULE AuthProofs -----------------------------
(***************************************************************************)
(* Proofs about Auth for any number of users, keys, login sessions,        *)
(* documents and requests: dead credentials admit nobody, sessions are     *)
(* changed for their owners only, and nobody is signed in without the      *)
(* password.                                                               *)
(***************************************************************************)
EXTENDS Auth, TLAPS

\* A login session that was handed out has a user.
LoginsHaveUsers == \A c \in Cookies : login[c] # "unused" => loginUser[c] \in Names

\* A login session is purged after it was found expired.
PurgesAreIssued ==
    \A r \in Requests : req[r].pc = "purge" =>
        req[r].cookie \in Cookies /\ login[req[r].cookie] # "unused"

\* A server that is down serves nobody, so the posture a request met stays.
DownIsIdle == life = "down" => \A r \in Requests : req[r] = Blank

\* What was dead when a request arrived stays dead.
StaleIsDead == \A r \in Requests : req[r].stale \subseteq Dead

\* Under authentication an edit that passed the gate has its user from a key.
EditsHaveKeys ==
    \A r \in Requests :
        /\ req[r].kind = "edit" => req[r].pc \in {"off", "bearer", "inside", "owns"}
        /\ posture.auth /\ req[r].kind = "edit" /\ req[r].pc \in {"inside", "owns"} =>
              /\ req[r].via \in Keys /\ req[r].uid \in Names
              /\ keyUser[req[r].via] = req[r].uid

\* Past requireOwner the session still has the owner that was checked.
OwnsWhatItEdits ==
    \A r \in Requests : req[r].pc = "owns" =>
        /\ req[r].kind = "edit"
        /\ posture.auth => owner[req[r].doc] = req[r].uid

\* A session between its INSERT and its owner is one request's own.
MadeIsUnowned ==
    \A r \in Requests : req[r].pc = "made" =>
        /\ owner[req[r].doc] = Nobody
        /\ \A q \in Requests : req[q].pc = "made" /\ req[q].doc = req[r].doc => q = r

\* Only users have passwords.
PasswordsHaveUsers == \A n \in Names : n \notin users => password[n] = None

\* A name between its INSERT and its password is one request's own.
CreatedIsOwn ==
    \A r \in Requests : req[r].pc = "created" =>
        /\ req[r].name \in users /\ password[req[r].name] = None
        /\ \A q \in Requests : req[q].pc = "created" /\ req[q].name = req[r].name => q = r

\* Whoever is about to get a login session has sent the password that is stored.
GrantedKnows ==
    \A r \in Requests : req[r].pc = "granted" => password[req[r].name] = req[r].secret

IInv ==
    /\ TypeOK
    /\ LoginsHaveUsers /\ PurgesAreIssued
    /\ DownIsIdle
    /\ StaleIsDead /\ DeadCredentialsAdmitNobody
    /\ EditsHaveKeys /\ MadeIsUnowned /\ OwnsWhatItEdits
    /\ PasswordsHaveUsers /\ CreatedIsOwn /\ GrantedKnows

(***************************************************************************)
(* What a step does to the requests, field by field.                       *)
(***************************************************************************)

\* A blank request is well typed and stands at no step.
LEMMA BlankRequest ==
    /\ Blank \in RequestType
    /\ Blank.pc = "off" /\ Blank.kind = "read"
    /\ Blank.via = None /\ Blank.stale = {}
<1>1. /\ (CHOOSE n \in Names : TRUE) \in Names
      /\ (CHOOSE s \in Secrets : TRUE) \in Secrets
      /\ (CHOOSE d \in Docs : TRUE) \in Docs
  BY SomebodyAssumption
<1> QED
  BY <1>1 DEF Blank, RequestType, Steps, Kinds, Nobody

\* The other requests stay as they are.
Alone(r) == \A q \in Requests : q # r => req'[q] = req[q]

\* The request stays the same request.
SameRequest(r) ==
    /\ req'[r].kind = req[r].kind /\ req'[r].doc = req[r].doc
    /\ req'[r].name = req[r].name /\ req'[r].secret = req[r].secret

\* A request that is not yet admitted, or is not admitted by this step.
SameStanding(r) ==
    /\ req'[r].uid = req[r].uid /\ req'[r].via = req[r].via
    /\ req'[r].bearer = req[r].bearer /\ req'[r].cookie = req[r].cookie
    /\ req'[r].stale = req[r].stale

\* A handler goes on to its next step.
LEMMA GotoEffect ==
    ASSUME TypeOK, NEW r \in Requests, NEW pc \in Steps, Goto(r, pc)
    PROVE  /\ req' \in [Requests -> RequestType]
           /\ Alone(r) /\ SameRequest(r) /\ SameStanding(r) /\ req'[r].pc = pc
<1>1. req'[r] = [req[r] EXCEPT !.pc = pc] /\ req[r] \in RequestType /\ Alone(r)
  BY DEF TypeOK, Goto, Alone
<1>2. req'[r] \in RequestType
  BY <1>1 DEF RequestType
<1>3. SameRequest(r) /\ SameStanding(r) /\ req'[r].pc = pc
  BY <1>1 DEF SameRequest, SameStanding, RequestType
<1> QED
  BY <1>1, <1>2, <1>3 DEF TypeOK, Goto, Alone

\* A handler ends.
LEMMA EndEffect ==
    ASSUME TypeOK, NEW r \in Requests, End(r)
    PROVE  /\ req' \in [Requests -> RequestType]
           /\ Alone(r) /\ req'[r] = Blank
  BY BlankRequest DEF TypeOK, End, Alone

\* The middleware admits a request.
LEMMA AdmitEffect ==
    ASSUME TypeOK, NEW r \in Requests, NEW user \in Names,
           NEW credential \in Keys \cup Cookies, Admit(r, user, credential)
    PROVE  /\ req' \in [Requests -> RequestType]
           /\ Alone(r) /\ SameRequest(r) /\ req'[r].pc = "inside"
           /\ req'[r].uid = user /\ req'[r].via = credential /\ req'[r].stale = req[r].stale
<1>1. /\ req'[r] = [req[r] EXCEPT !.pc = "inside", !.uid = user, !.via = credential,
                                   !.bearer = None, !.cookie = None]
      /\ req[r] \in RequestType /\ Alone(r)
  BY DEF TypeOK, Admit, Alone
<1>2. req'[r] \in RequestType
  BY <1>1, ZenonT(40) DEF RequestType, Steps
<1>3. /\ SameRequest(r) /\ req'[r].pc = "inside"
      /\ req'[r].uid = user /\ req'[r].via = credential /\ req'[r].stale = req[r].stale
  BY <1>1 DEF SameRequest, RequestType
<1> QED
  BY <1>1, <1>2, <1>3 DEF TypeOK, Admit, Alone

\* The middleware goes on to the API key.
LEMMA TryBearerEffect ==
    ASSUME TypeOK, NEW r \in Requests, TryBearer(r)
    PROVE  /\ req' \in [Requests -> RequestType]
           /\ Alone(r) /\ SameRequest(r) /\ req'[r].pc = "bearer"
           /\ req'[r].via = req[r].via /\ req'[r].stale \subseteq req[r].stale
<1>1. /\ req'[r] = [req[r] EXCEPT !.pc = "bearer", !.cookie = None,
                                   !.stale = req[r].stale \cap {req[r].bearer}]
      /\ req[r] \in RequestType /\ Alone(r)
  BY DEF TypeOK, TryBearer, Alone
<1>2. req'[r] \in RequestType
  BY <1>1 DEF RequestType, Steps
<1>3. /\ SameRequest(r) /\ req'[r].pc = "bearer"
      /\ req'[r].via = req[r].via /\ req'[r].stale \subseteq req[r].stale
  BY <1>1 DEF SameRequest, RequestType
<1> QED
  BY <1>1, <1>2, <1>3 DEF TypeOK, TryBearer, Alone

\* A row for the session is inserted.
LEMMA CreateDocEffect ==
    ASSUME TypeOK, NEW r \in Requests, CreateDoc(r)
    PROVE  /\ req' \in [Requests -> RequestType] /\ Alone(r)
           /\ UNCHANGED <<life, posture, users, password, keyUser, revoked, login, loginUser>>
           /\ \/ req'[r] = Blank /\ owner' = owner
              \/ /\ SameRequest(r) /\ req'[r].pc = "made" /\ req[r].kind = "create"
                 /\ req'[r].via = None /\ req'[r].stale = {} /\ req'[r].uid = req[r].uid
                 /\ owner[req[r].doc] = None
                 /\ owner' = [owner EXCEPT ![req[r].doc] = Nobody]
<1>1. CASE owner[req[r].doc] # None
  BY <1>1, EndEffect DEF CreateDoc, accountVars, loginVars
<1>2. CASE owner[req[r].doc] = None
  <2>1. /\ req'[r] = [req[r] EXCEPT !.pc = "made", !.via = None, !.stale = {}]
        /\ req[r] \in RequestType /\ Alone(r) /\ req[r].kind = "create"
        /\ owner' = [owner EXCEPT ![req[r].doc] = Nobody]
    BY <1>2 DEF TypeOK, CreateDoc, Alone
  <2>2. req'[r] \in RequestType
    BY <2>1 DEF RequestType, Steps
  <2>3. /\ SameRequest(r) /\ req'[r].pc = "made"
        /\ req'[r].via = None /\ req'[r].stale = {} /\ req'[r].uid = req[r].uid
    BY <2>1 DEF SameRequest, RequestType
  <2> QED
    BY <1>2, <2>1, <2>2, <2>3 DEF TypeOK, CreateDoc, Alone, accountVars, loginVars
<1> QED
  BY <1>1, <1>2

Arrives(r) ==
    \E k \in Serves[r], n \in Names, s \in Secrets, d \in Docs,
       b \in Keys \cup {None}, c \in Cookies \cup {None} :
       Arrive(r, k, n, s, d, b, c)

\* A request arrives; under authentication an edit still has to show a key.
LEMMA ArriveEffect ==
    ASSUME TypeOK, NEW r \in Requests, Arrives(r)
    PROVE  /\ req' \in [Requests -> RequestType] /\ Alone(r)
           /\ req'[r].pc \in {"inside", "cookie", "bearer"}
           /\ req'[r].via = None /\ req'[r].stale \subseteq Dead
           /\ req'[r].kind = "edit" => req'[r].pc \in {"inside", "bearer"}
           /\ req'[r].kind = "edit" /\ posture.auth => req'[r].pc = "bearer"
           /\ life = "up"
           /\ UNCHANGED <<life, posture, users, password, keyUser, revoked, login, loginUser, owner>>
<1>1. PICK k \in Serves[r], n \in Names, s \in Secrets, d \in Docs,
           b \in Keys \cup {None}, c \in Cookies \cup {None} : Arrive(r, k, n, s, d, b, c)
  BY DEF Arrives
<1>2. k \in Kinds
  BY ServesAssumption
<1>3. /\ req' = [req EXCEPT ![r] =
                   [pc |-> IF OpenTo(k) THEN "inside" ELSE IF k \in Mutating THEN "bearer" ELSE "cookie",
                    kind |-> k, name |-> n, secret |-> s, doc |-> d, bearer |-> b, cookie |-> c,
                    uid |-> Nobody, via |-> None, stale |-> Dead \cap {b, c}]]
      /\ Dead \subseteq Keys \cup Cookies
  BY <1>1 DEF Arrive, Dead, TypeOK
<1>4. /\ req'[r] \in RequestType
      /\ req'[r].pc \in {"inside", "cookie", "bearer"}
      /\ req'[r].kind = k /\ req'[r].via = None /\ req'[r].stale \subseteq Dead
  BY <1>2, <1>3 DEF RequestType, Steps, TypeOK
<1>5. /\ k = "edit" => req'[r].pc \in {"inside", "bearer"}
      /\ k = "edit" /\ posture.auth => req'[r].pc = "bearer"
  BY <1>3 DEF OpenTo, Mutating, AuthPages, TypeOK
<1>6. life = "up" /\ UNCHANGED <<life, posture, accountVars, loginVars, owner>>
  BY <1>1 DEF Arrive, MuIsFree
<1> QED
  BY <1>3, <1>4, <1>5, <1>6 DEF TypeOK, Alone, accountVars, loginVars

\* A cookie admits, is purged, or leaves the decision to the API key.
LEMMA VerifyLoginSessionEffect ==
    ASSUME TypeOK, LoginsHaveUsers, NEW r \in Requests, VerifyLoginSession(r)
    PROVE  /\ req' \in [Requests -> RequestType]
           /\ Alone(r) /\ SameRequest(r)
           /\ \/ /\ req'[r].pc = "inside" /\ req'[r].uid \in Names
                 /\ req'[r].via \in Cookies /\ login[req'[r].via] = "live"
                 /\ req'[r].stale = req[r].stale
              \/ /\ \/ req'[r].pc = "bearer"
                    \/ /\ req'[r].pc = "purge" /\ req'[r].cookie \in Cookies
                       /\ login[req'[r].cookie] = "expired"
                 /\ req'[r].via = req[r].via /\ req'[r].stale \subseteq req[r].stale
<1> DEFINE c == req[r].cookie
<1>1. c \in Cookies \cup {None}
  BY DEF TypeOK, RequestType
<1>2. CASE LiveLogin(c)
  <2>1. Admit(r, loginUser[c], c) /\ c \in Cookies /\ login[c] = "live" /\ loginUser[c] \in Names
    BY <1>1, <1>2 DEF VerifyLoginSession, LiveLogin, LoginsHaveUsers
  <2> QED
    BY <2>1, AdmitEffect
<1>3. CASE ~LiveLogin(c) /\ ExpiredLogin(c)
  <2>1. Goto(r, "purge") /\ c \in Cookies /\ login[c] = "expired"
    BY <1>1, <1>3 DEF VerifyLoginSession, ExpiredLogin
  <2> QED
    BY <2>1, GotoEffect DEF Steps, SameStanding
<1>4. CASE ~LiveLogin(c) /\ ~ExpiredLogin(c)
  <2>1. TryBearer(r)
    BY <1>4 DEF VerifyLoginSession
  <2> QED
    BY <2>1, TryBearerEffect
<1> QED
  BY <1>2, <1>3, <1>4

\* An active key admits its user; without one the answer is 401.
LEMMA VerifyAPIKeyEffect ==
    ASSUME TypeOK, NEW r \in Requests, VerifyAPIKey(r)
    PROVE  /\ req' \in [Requests -> RequestType] /\ Alone(r)
           /\ \/ req'[r] = Blank
              \/ /\ SameRequest(r) /\ req'[r].pc = "inside"
                 /\ req'[r].via \in Keys /\ req'[r].via \notin revoked
                 /\ req'[r].uid \in Names /\ keyUser[req'[r].via] = req'[r].uid
                 /\ req'[r].stale = req[r].stale
<1> DEFINE k == req[r].bearer
<1>1. CASE k \in Active
  <2>1. Admit(r, keyUser[k], k) /\ k \in Keys /\ k \notin revoked /\ keyUser[k] \in Names
    BY <1>1 DEF VerifyAPIKey, Active, TypeOK
  <2> QED
    BY <2>1, AdmitEffect
<1>2. CASE k \notin Active
  BY <1>2, EndEffect DEF VerifyAPIKey
<1> QED
  BY <1>1, <1>2

\* A name that is free is taken.
LEMMA CreateUserEffect ==
    ASSUME TypeOK, NEW r \in Requests, CreateUser(r)
    PROVE  /\ req' \in [Requests -> RequestType] /\ Alone(r)
           /\ UNCHANGED <<life, posture, password, keyUser, revoked, login, loginUser, owner>>
           /\ \/ req'[r] = Blank /\ users' = users
              \/ /\ SameRequest(r) /\ SameStanding(r)
                 /\ req'[r].pc = "created" /\ req[r].kind = "register"
                 /\ req[r].name \in Names \ users
                 /\ users' = users \cup {req[r].name}
<1>1. CASE posture.openReg /\ req[r].name \notin users
  <2>1. Goto(r, "created") /\ req[r].name \in Names
    BY <1>1 DEF CreateUser, TypeOK, RequestType
  <2> QED
    BY <1>1, <2>1, GotoEffect DEF CreateUser, Steps, loginVars
<1>2. CASE ~(posture.openReg /\ req[r].name \notin users)
  BY <1>2, EndEffect DEF CreateUser, loginVars
<1> QED
  BY <1>1, <1>2

\* Every variable keeps its type.
LEMMA TypeStep == IInv /\ [Next]_vars => TypeOK'
<1> SUFFICES ASSUME IInv, [Next]_vars PROVE TypeOK'
  OBVIOUS
<1> USE BlankRequest, NoneAssumption, HolderAssumption, PosturesAssumption
    DEF IInv, TypeOK, Steps, accountVars, loginVars, Nobody
<1>1. ASSUME NEW p \in Postures, Start(p) PROVE TypeOK'
  BY <1>1 DEF Start
<1>2. ASSUME Stop PROVE TypeOK'
  BY <1>2 DEF Stop
<1>3. ASSUME ShutDown PROVE TypeOK'
  BY <1>3 DEF ShutDown, Goes, NoPosture
<1>4. ASSUME ShutdownTimesOut PROVE TypeOK'
  BY <1>4 DEF ShutdownTimesOut, Goes, NoPosture
<1>5. ASSUME NEW n \in Names, UserAdd(n) PROVE TypeOK'
  BY <1>5 DEF UserAdd
<1>6. ASSUME NEW k \in Keys, IssueAPIKey(k) PROVE TypeOK'
  BY <1>6 DEF IssueAPIKey
<1>7. ASSUME NEW k \in Keys, NEW byPrefix \in BOOLEAN, RevokeAPIKey(k, byPrefix) PROVE TypeOK'
  BY <1>7 DEF RevokeAPIKey, Matches, Active
<1>8. ASSUME NEW c \in Cookies, Expire(c) PROVE TypeOK'
  BY <1>8 DEF Expire
<1>9. ASSUME NEW r \in Requests, Arrives(r) PROVE TypeOK'
  BY <1>9, ArriveEffect
<1>10. ASSUME NEW r \in Requests, VerifyLoginSession(r) PROVE TypeOK'
  BY <1>10, VerifyLoginSessionEffect DEF VerifyLoginSession, At
<1>11. ASSUME NEW r \in Requests, Purge(r) PROVE TypeOK'
  BY <1>11, TryBearerEffect DEF Purge, At
<1>12. ASSUME NEW r \in Requests, VerifyAPIKey(r) PROVE TypeOK'
  BY <1>12, VerifyAPIKeyEffect DEF VerifyAPIKey, At
<1>13. ASSUME NEW r \in Requests, Serve(r) PROVE TypeOK'
  BY <1>13, EndEffect DEF Serve, At
<1>14. ASSUME NEW r \in Requests, RequireOwner(r) PROVE TypeOK'
  BY <1>14, GotoEffect, EndEffect DEF RequireOwner, MayChange, At
<1>15. ASSUME NEW r \in Requests, Change(r) PROVE TypeOK'
  BY <1>15, EndEffect DEF Change, At
<1>16. ASSUME NEW r \in Requests, CreateDoc(r) PROVE TypeOK'
  BY <1>16, CreateDocEffect
<1>17. ASSUME NEW r \in Requests, AssignOwner(r) PROVE TypeOK'
  BY <1>17, GotoEffect DEF AssignOwner, At, RequestType
<1>18. ASSUME NEW r \in Requests, AnswerCreate(r) PROVE TypeOK'
  BY <1>18, EndEffect DEF AnswerCreate, At
<1>19. ASSUME NEW r \in Requests, FindUser(r) PROVE TypeOK'
  BY <1>19, GotoEffect, EndEffect DEF FindUser, At
<1>20. ASSUME NEW r \in Requests, VerifyPassword(r) PROVE TypeOK'
  BY <1>20, GotoEffect, EndEffect DEF VerifyPassword, At
<1>21. ASSUME NEW r \in Requests, CreateUser(r) PROVE TypeOK'
  BY <1>21, CreateUserEffect
<1>22. ASSUME NEW r \in Requests, SetPassword(r) PROVE TypeOK'
  BY <1>22, GotoEffect DEF SetPassword, At, RequestType
<1>23. ASSUME NEW r \in Requests, CreateLoginSession(r) PROVE TypeOK'
  BY <1>23, EndEffect DEF CreateLoginSession, At, RequestType
<1>24. ASSUME NEW r \in Requests, Logout(r) PROVE TypeOK'
  BY <1>24, EndEffect DEF Logout, LiveLogin, ExpiredLogin, At
<1>25. ASSUME NEW r \in Requests, StoreFails(r) PROVE TypeOK'
  BY <1>25, EndEffect DEF StoreFails, At
<1>26. CASE UNCHANGED vars
  BY <1>26 DEF vars, accountVars, loginVars
<1> HIDE DEF IInv, TypeOK, Steps, accountVars, loginVars, Nobody
<1> QED
  BY <1>1, <1>2, <1>3, <1>4, <1>5, <1>6, <1>7, <1>8, <1>9, <1>10, <1>11,
       <1>12, <1>13, <1>14, <1>15, <1>16, <1>17, <1>18, <1>19, <1>20, <1>21,
       <1>22, <1>23, <1>24, <1>25, <1>26 DEF Next, HandlerStep, Arrives

\* Only CreateLoginSession hands a login session out, to the user it has signed
\* in.
LEMMA LoginsStep == IInv /\ [Next]_vars => LoginsHaveUsers'
<1> SUFFICES ASSUME IInv, [Next]_vars PROVE LoginsHaveUsers'
  OBVIOUS
<1> USE NoneAssumption DEF IInv, TypeOK, LoginsHaveUsers, PurgesAreIssued,
     accountVars, loginVars
<1>1. ASSUME NEW p \in Postures, Start(p) PROVE LoginsHaveUsers'
  BY <1>1 DEF Start
<1>2. ASSUME Stop PROVE LoginsHaveUsers'
  BY <1>2 DEF Stop
<1>3. ASSUME ShutDown PROVE LoginsHaveUsers'
  BY <1>3 DEF ShutDown, Goes, NoPosture
<1>4. ASSUME ShutdownTimesOut PROVE LoginsHaveUsers'
  BY <1>4 DEF ShutdownTimesOut, Goes, NoPosture
<1>5. ASSUME NEW n \in Names, UserAdd(n) PROVE LoginsHaveUsers'
  BY <1>5 DEF UserAdd
<1>6. ASSUME NEW k \in Keys, IssueAPIKey(k) PROVE LoginsHaveUsers'
  BY <1>6 DEF IssueAPIKey
<1>7. ASSUME NEW k \in Keys, NEW byPrefix \in BOOLEAN, RevokeAPIKey(k, byPrefix) PROVE LoginsHaveUsers'
  BY <1>7 DEF RevokeAPIKey, Matches, Active
<1>8. ASSUME NEW c \in Cookies, Expire(c) PROVE LoginsHaveUsers'
  BY <1>8 DEF Expire
<1>9. ASSUME NEW r \in Requests, Arrives(r) PROVE LoginsHaveUsers'
  BY <1>9, ArriveEffect
<1>10. ASSUME NEW r \in Requests, VerifyLoginSession(r) PROVE LoginsHaveUsers'
  BY <1>10, VerifyLoginSessionEffect DEF VerifyLoginSession, At
<1>11. ASSUME NEW r \in Requests, Purge(r) PROVE LoginsHaveUsers'
  BY <1>11, TryBearerEffect DEF Purge, At
<1>12. ASSUME NEW r \in Requests, VerifyAPIKey(r) PROVE LoginsHaveUsers'
  BY <1>12, VerifyAPIKeyEffect DEF VerifyAPIKey, At
<1>13. ASSUME NEW r \in Requests, Serve(r) PROVE LoginsHaveUsers'
  BY <1>13, EndEffect DEF Serve, At
<1>14. ASSUME NEW r \in Requests, RequireOwner(r) PROVE LoginsHaveUsers'
  BY <1>14, GotoEffect, EndEffect DEF RequireOwner, MayChange, At
<1>15. ASSUME NEW r \in Requests, Change(r) PROVE LoginsHaveUsers'
  BY <1>15, EndEffect DEF Change, At
<1>16. ASSUME NEW r \in Requests, CreateDoc(r) PROVE LoginsHaveUsers'
  BY <1>16, CreateDocEffect
<1>17. ASSUME NEW r \in Requests, AssignOwner(r) PROVE LoginsHaveUsers'
  BY <1>17, GotoEffect DEF AssignOwner, At
<1>18. ASSUME NEW r \in Requests, AnswerCreate(r) PROVE LoginsHaveUsers'
  BY <1>18, EndEffect DEF AnswerCreate, At
<1>19. ASSUME NEW r \in Requests, FindUser(r) PROVE LoginsHaveUsers'
  BY <1>19, GotoEffect, EndEffect DEF FindUser, At
<1>20. ASSUME NEW r \in Requests, VerifyPassword(r) PROVE LoginsHaveUsers'
  BY <1>20, GotoEffect, EndEffect DEF VerifyPassword, At
<1>21. ASSUME NEW r \in Requests, CreateUser(r) PROVE LoginsHaveUsers'
  BY <1>21, CreateUserEffect
<1>22. ASSUME NEW r \in Requests, SetPassword(r) PROVE LoginsHaveUsers'
  BY <1>22, GotoEffect DEF SetPassword, At
<1>23. ASSUME NEW r \in Requests, CreateLoginSession(r) PROVE LoginsHaveUsers'
  BY <1>23, EndEffect DEF CreateLoginSession, At, RequestType
<1>24. ASSUME NEW r \in Requests, Logout(r) PROVE LoginsHaveUsers'
  BY <1>24, EndEffect DEF Logout, LiveLogin, ExpiredLogin, At
<1>25. ASSUME NEW r \in Requests, StoreFails(r) PROVE LoginsHaveUsers'
  BY <1>25, EndEffect DEF StoreFails, At
<1>26. CASE UNCHANGED vars
  BY <1>26 DEF vars, accountVars, loginVars
<1> HIDE DEF IInv, TypeOK, LoginsHaveUsers, PurgesAreIssued, accountVars, loginVars
<1> QED
  BY <1>1, <1>2, <1>3, <1>4, <1>5, <1>6, <1>7, <1>8, <1>9, <1>10, <1>11,
       <1>12, <1>13, <1>14, <1>15, <1>16, <1>17, <1>18, <1>19, <1>20, <1>21,
       <1>22, <1>23, <1>24, <1>25, <1>26 DEF Next, HandlerStep, Arrives

\* A login session is found expired before it is purged.
LEMMA PurgesStep == IInv /\ [Next]_vars => PurgesAreIssued'
<1> SUFFICES ASSUME IInv, [Next]_vars PROVE PurgesAreIssued'
  OBVIOUS
<1> USE BlankRequest DEF IInv, TypeOK, PurgesAreIssued, DownIsIdle, Alone,
     SameRequest, SameStanding, Steps, accountVars, loginVars
<1>1. ASSUME NEW p \in Postures, Start(p) PROVE PurgesAreIssued'
  BY <1>1 DEF Start
<1>2. ASSUME Stop PROVE PurgesAreIssued'
  BY <1>2 DEF Stop
<1>3. ASSUME ShutDown PROVE PurgesAreIssued'
  BY <1>3 DEF ShutDown, Goes, NoPosture
<1>4. ASSUME ShutdownTimesOut PROVE PurgesAreIssued'
  BY <1>4 DEF ShutdownTimesOut, Goes, NoPosture
<1>5. ASSUME NEW n \in Names, UserAdd(n) PROVE PurgesAreIssued'
  BY <1>5 DEF UserAdd
<1>6. ASSUME NEW k \in Keys, IssueAPIKey(k) PROVE PurgesAreIssued'
  BY <1>6 DEF IssueAPIKey
<1>7. ASSUME NEW k \in Keys, NEW byPrefix \in BOOLEAN, RevokeAPIKey(k, byPrefix) PROVE PurgesAreIssued'
  BY <1>7 DEF RevokeAPIKey, Matches, Active
<1>8. ASSUME NEW c \in Cookies, Expire(c) PROVE PurgesAreIssued'
  BY <1>8 DEF Expire
<1>9. ASSUME NEW r \in Requests, Arrives(r) PROVE PurgesAreIssued'
  BY <1>9, ArriveEffect
<1>10. ASSUME NEW r \in Requests, VerifyLoginSession(r) PROVE PurgesAreIssued'
  BY <1>10, VerifyLoginSessionEffect DEF VerifyLoginSession, At
<1>11. ASSUME NEW r \in Requests, Purge(r) PROVE PurgesAreIssued'
  BY <1>11, TryBearerEffect DEF Purge, At
<1>12. ASSUME NEW r \in Requests, VerifyAPIKey(r) PROVE PurgesAreIssued'
  BY <1>12, VerifyAPIKeyEffect DEF VerifyAPIKey, At
<1>13. ASSUME NEW r \in Requests, Serve(r) PROVE PurgesAreIssued'
  BY <1>13, EndEffect DEF Serve, At
<1>14. ASSUME NEW r \in Requests, RequireOwner(r) PROVE PurgesAreIssued'
  BY <1>14, GotoEffect, EndEffect DEF RequireOwner, MayChange, At
<1>15. ASSUME NEW r \in Requests, Change(r) PROVE PurgesAreIssued'
  BY <1>15, EndEffect DEF Change, At
<1>16. ASSUME NEW r \in Requests, CreateDoc(r) PROVE PurgesAreIssued'
  BY <1>16, CreateDocEffect
<1>17. ASSUME NEW r \in Requests, AssignOwner(r) PROVE PurgesAreIssued'
  BY <1>17, GotoEffect DEF AssignOwner, At
<1>18. ASSUME NEW r \in Requests, AnswerCreate(r) PROVE PurgesAreIssued'
  BY <1>18, EndEffect DEF AnswerCreate, At
<1>19. ASSUME NEW r \in Requests, FindUser(r) PROVE PurgesAreIssued'
  BY <1>19, GotoEffect, EndEffect, SMTT(30) DEF FindUser, At
<1>20. ASSUME NEW r \in Requests, VerifyPassword(r) PROVE PurgesAreIssued'
  BY <1>20, GotoEffect, EndEffect DEF VerifyPassword, At
<1>21. ASSUME NEW r \in Requests, CreateUser(r) PROVE PurgesAreIssued'
  BY <1>21, CreateUserEffect
<1>22. ASSUME NEW r \in Requests, SetPassword(r) PROVE PurgesAreIssued'
  BY <1>22, GotoEffect DEF SetPassword, At
<1>23. ASSUME NEW r \in Requests, CreateLoginSession(r) PROVE PurgesAreIssued'
  BY <1>23, EndEffect DEF CreateLoginSession, At, RequestType
<1>24. ASSUME NEW r \in Requests, Logout(r) PROVE PurgesAreIssued'
  BY <1>24, EndEffect DEF Logout, LiveLogin, ExpiredLogin, At
<1>25. ASSUME NEW r \in Requests, StoreFails(r) PROVE PurgesAreIssued'
  BY <1>25, EndEffect DEF StoreFails, At
<1>26. CASE UNCHANGED vars
  BY <1>26 DEF vars, accountVars, loginVars
<1> HIDE DEF IInv, TypeOK, PurgesAreIssued, DownIsIdle, Alone, SameRequest,
     SameStanding, Steps, accountVars, loginVars
<1> QED
  BY <1>1, <1>2, <1>3, <1>4, <1>5, <1>6, <1>7, <1>8, <1>9, <1>10, <1>11,
       <1>12, <1>13, <1>14, <1>15, <1>16, <1>17, <1>18, <1>19, <1>20, <1>21,
       <1>22, <1>23, <1>24, <1>25, <1>26 DEF Next, HandlerStep, Arrives

\* Only a server that is up takes requests, and none survives its end.
LEMMA DownStep == IInv /\ [Next]_vars => DownIsIdle'
<1> SUFFICES ASSUME IInv, [Next]_vars PROVE DownIsIdle'
  OBVIOUS
<1> USE BlankRequest DEF IInv, TypeOK, DownIsIdle, Alone, accountVars, loginVars
<1>1. ASSUME NEW p \in Postures, Start(p) PROVE DownIsIdle'
  BY <1>1 DEF Start
<1>2. ASSUME Stop PROVE DownIsIdle'
  BY <1>2 DEF Stop
<1>3. ASSUME ShutDown PROVE DownIsIdle'
  BY <1>3 DEF ShutDown, Goes, NoPosture
<1>4. ASSUME ShutdownTimesOut PROVE DownIsIdle'
  BY <1>4 DEF ShutdownTimesOut, Goes, NoPosture
<1>5. ASSUME NEW n \in Names, UserAdd(n) PROVE DownIsIdle'
  BY <1>5 DEF UserAdd
<1>6. ASSUME NEW k \in Keys, IssueAPIKey(k) PROVE DownIsIdle'
  BY <1>6 DEF IssueAPIKey
<1>7. ASSUME NEW k \in Keys, NEW byPrefix \in BOOLEAN, RevokeAPIKey(k, byPrefix) PROVE DownIsIdle'
  BY <1>7 DEF RevokeAPIKey, Matches, Active
<1>8. ASSUME NEW c \in Cookies, Expire(c) PROVE DownIsIdle'
  BY <1>8 DEF Expire
<1>9. ASSUME NEW r \in Requests, Arrives(r) PROVE DownIsIdle'
  BY <1>9, ArriveEffect
<1>10. ASSUME NEW r \in Requests, VerifyLoginSession(r) PROVE DownIsIdle'
  BY <1>10, VerifyLoginSessionEffect DEF VerifyLoginSession, At
<1>11. ASSUME NEW r \in Requests, Purge(r) PROVE DownIsIdle'
  BY <1>11, TryBearerEffect DEF Purge, At
<1>12. ASSUME NEW r \in Requests, VerifyAPIKey(r) PROVE DownIsIdle'
  BY <1>12, VerifyAPIKeyEffect DEF VerifyAPIKey, At
<1>13. ASSUME NEW r \in Requests, Serve(r) PROVE DownIsIdle'
  BY <1>13, EndEffect DEF Serve, At
<1>14. ASSUME NEW r \in Requests, RequireOwner(r) PROVE DownIsIdle'
  BY <1>14, GotoEffect, EndEffect DEF RequireOwner, MayChange, At
<1>15. ASSUME NEW r \in Requests, Change(r) PROVE DownIsIdle'
  BY <1>15, EndEffect DEF Change, At
<1>16. ASSUME NEW r \in Requests, CreateDoc(r) PROVE DownIsIdle'
  BY <1>16, CreateDocEffect
<1>17. ASSUME NEW r \in Requests, AssignOwner(r) PROVE DownIsIdle'
  BY <1>17, GotoEffect DEF AssignOwner, At
<1>18. ASSUME NEW r \in Requests, AnswerCreate(r) PROVE DownIsIdle'
  BY <1>18, EndEffect DEF AnswerCreate, At
<1>19. ASSUME NEW r \in Requests, FindUser(r) PROVE DownIsIdle'
  BY <1>19, GotoEffect, EndEffect DEF FindUser, At
<1>20. ASSUME NEW r \in Requests, VerifyPassword(r) PROVE DownIsIdle'
  BY <1>20, GotoEffect, EndEffect DEF VerifyPassword, At
<1>21. ASSUME NEW r \in Requests, CreateUser(r) PROVE DownIsIdle'
  BY <1>21, CreateUserEffect
<1>22. ASSUME NEW r \in Requests, SetPassword(r) PROVE DownIsIdle'
  BY <1>22, GotoEffect DEF SetPassword, At
<1>23. ASSUME NEW r \in Requests, CreateLoginSession(r) PROVE DownIsIdle'
  BY <1>23, EndEffect DEF CreateLoginSession, At
<1>24. ASSUME NEW r \in Requests, Logout(r) PROVE DownIsIdle'
  BY <1>24, EndEffect DEF Logout, LiveLogin, ExpiredLogin, At
<1>25. ASSUME NEW r \in Requests, StoreFails(r) PROVE DownIsIdle'
  BY <1>25, EndEffect DEF StoreFails, At
<1>26. CASE UNCHANGED vars
  BY <1>26 DEF vars, accountVars, loginVars
<1> HIDE DEF IInv, TypeOK, DownIsIdle, Alone, accountVars, loginVars
<1> QED
  BY <1>1, <1>2, <1>3, <1>4, <1>5, <1>6, <1>7, <1>8, <1>9, <1>10, <1>11,
       <1>12, <1>13, <1>14, <1>15, <1>16, <1>17, <1>18, <1>19, <1>20, <1>21,
       <1>22, <1>23, <1>24, <1>25, <1>26 DEF Next, HandlerStep, Arrives

\* Revocation and expiry are for good: what a request saw dead is dead.
LEMMA StaleStep == IInv /\ [Next]_vars => StaleIsDead'
<1> SUFFICES ASSUME IInv, [Next]_vars PROVE StaleIsDead'
  OBVIOUS
<1> USE BlankRequest, KindsOfCredentialAssumption DEF IInv, TypeOK, StaleIsDead,
     Dead, DownIsIdle, Alone, SameStanding, Steps, accountVars, loginVars
<1>1. ASSUME NEW p \in Postures, Start(p) PROVE StaleIsDead'
  BY <1>1 DEF Start
<1>2. ASSUME Stop PROVE StaleIsDead'
  BY <1>2 DEF Stop
<1>3. ASSUME ShutDown PROVE StaleIsDead'
  BY <1>3 DEF ShutDown, Goes, NoPosture
<1>4. ASSUME ShutdownTimesOut PROVE StaleIsDead'
  BY <1>4 DEF ShutdownTimesOut, Goes, NoPosture
<1>5. ASSUME NEW n \in Names, UserAdd(n) PROVE StaleIsDead'
  BY <1>5 DEF UserAdd
<1>6. ASSUME NEW k \in Keys, IssueAPIKey(k) PROVE StaleIsDead'
  BY <1>6 DEF IssueAPIKey
<1>7. ASSUME NEW k \in Keys, NEW byPrefix \in BOOLEAN, RevokeAPIKey(k, byPrefix) PROVE StaleIsDead'
  BY <1>7 DEF RevokeAPIKey, Matches, Active
<1>8. ASSUME NEW c \in Cookies, Expire(c) PROVE StaleIsDead'
  BY <1>8 DEF Expire
<1>9. ASSUME NEW r \in Requests, Arrives(r) PROVE StaleIsDead'
  BY <1>9, ArriveEffect
<1>10. ASSUME NEW r \in Requests, VerifyLoginSession(r) PROVE StaleIsDead'
  BY <1>10, VerifyLoginSessionEffect DEF VerifyLoginSession, At
<1>11. ASSUME NEW r \in Requests, Purge(r) PROVE StaleIsDead'
  BY <1>11, TryBearerEffect DEF Purge, At
<1>12. ASSUME NEW r \in Requests, VerifyAPIKey(r) PROVE StaleIsDead'
  BY <1>12, VerifyAPIKeyEffect DEF VerifyAPIKey, At
<1>13. ASSUME NEW r \in Requests, Serve(r) PROVE StaleIsDead'
  BY <1>13, EndEffect DEF Serve, At
<1>14. ASSUME NEW r \in Requests, RequireOwner(r) PROVE StaleIsDead'
  BY <1>14, GotoEffect, EndEffect DEF RequireOwner, MayChange, At
<1>15. ASSUME NEW r \in Requests, Change(r) PROVE StaleIsDead'
  BY <1>15, EndEffect DEF Change, At
<1>16. ASSUME NEW r \in Requests, CreateDoc(r) PROVE StaleIsDead'
  BY <1>16, CreateDocEffect
<1>17. ASSUME NEW r \in Requests, AssignOwner(r) PROVE StaleIsDead'
  BY <1>17, GotoEffect DEF AssignOwner, At
<1>18. ASSUME NEW r \in Requests, AnswerCreate(r) PROVE StaleIsDead'
  BY <1>18, EndEffect DEF AnswerCreate, At
<1>19. ASSUME NEW r \in Requests, FindUser(r) PROVE StaleIsDead'
  BY <1>19, GotoEffect, EndEffect DEF FindUser, At
<1>20. ASSUME NEW r \in Requests, VerifyPassword(r) PROVE StaleIsDead'
  BY <1>20, GotoEffect, EndEffect DEF VerifyPassword, At
<1>21. ASSUME NEW r \in Requests, CreateUser(r) PROVE StaleIsDead'
  BY <1>21, CreateUserEffect
<1>22. ASSUME NEW r \in Requests, SetPassword(r) PROVE StaleIsDead'
  BY <1>22, GotoEffect DEF SetPassword, At
<1>23. ASSUME NEW r \in Requests, CreateLoginSession(r) PROVE StaleIsDead'
  BY <1>23, EndEffect DEF CreateLoginSession, At, RequestType
<1>24. ASSUME NEW r \in Requests, Logout(r) PROVE StaleIsDead'
  BY <1>24, EndEffect DEF Logout, LiveLogin, ExpiredLogin, At
<1>25. ASSUME NEW r \in Requests, StoreFails(r) PROVE StaleIsDead'
  BY <1>25, EndEffect DEF StoreFails, At
<1>26. CASE UNCHANGED vars
  BY <1>26 DEF vars, accountVars, loginVars
<1> HIDE DEF IInv, TypeOK, StaleIsDead, Dead, DownIsIdle, Alone, SameStanding, Steps,
     accountVars, loginVars
<1> QED
  BY <1>1, <1>2, <1>3, <1>4, <1>5, <1>6, <1>7, <1>8, <1>9, <1>10, <1>11,
       <1>12, <1>13, <1>14, <1>15, <1>16, <1>17, <1>18, <1>19, <1>20, <1>21,
       <1>22, <1>23, <1>24, <1>25, <1>26 DEF Next, HandlerStep, Arrives

\* Only what is live when it is checked admits.
LEMMA AdmitStep == IInv /\ [Next]_vars => DeadCredentialsAdmitNobody'
<1> SUFFICES ASSUME IInv, [Next]_vars PROVE DeadCredentialsAdmitNobody'
  OBVIOUS
<1> USE BlankRequest, NoneAssumption, KindsOfCredentialAssumption
    DEF IInv, TypeOK, DeadCredentialsAdmitNobody, StaleIsDead, Dead,
         DownIsIdle, Alone, SameStanding, Steps, accountVars, loginVars
<1>1. ASSUME NEW p \in Postures, Start(p) PROVE DeadCredentialsAdmitNobody'
  BY <1>1 DEF Start
<1>2. ASSUME Stop PROVE DeadCredentialsAdmitNobody'
  BY <1>2 DEF Stop
<1>3. ASSUME ShutDown PROVE DeadCredentialsAdmitNobody'
  BY <1>3 DEF ShutDown, Goes, NoPosture
<1>4. ASSUME ShutdownTimesOut PROVE DeadCredentialsAdmitNobody'
  BY <1>4 DEF ShutdownTimesOut, Goes, NoPosture
<1>5. ASSUME NEW n \in Names, UserAdd(n) PROVE DeadCredentialsAdmitNobody'
  BY <1>5 DEF UserAdd
<1>6. ASSUME NEW k \in Keys, IssueAPIKey(k) PROVE DeadCredentialsAdmitNobody'
  BY <1>6 DEF IssueAPIKey
<1>7. ASSUME NEW k \in Keys, NEW byPrefix \in BOOLEAN, RevokeAPIKey(k, byPrefix) PROVE DeadCredentialsAdmitNobody'
  BY <1>7 DEF RevokeAPIKey, Matches, Active
<1>8. ASSUME NEW c \in Cookies, Expire(c) PROVE DeadCredentialsAdmitNobody'
  BY <1>8 DEF Expire
<1>9. ASSUME NEW r \in Requests, Arrives(r) PROVE DeadCredentialsAdmitNobody'
  BY <1>9, ArriveEffect
<1>10. ASSUME NEW r \in Requests, VerifyLoginSession(r) PROVE DeadCredentialsAdmitNobody'
  BY <1>10, VerifyLoginSessionEffect DEF VerifyLoginSession, At
<1>11. ASSUME NEW r \in Requests, Purge(r) PROVE DeadCredentialsAdmitNobody'
  BY <1>11, TryBearerEffect DEF Purge, At
<1>12. ASSUME NEW r \in Requests, VerifyAPIKey(r) PROVE DeadCredentialsAdmitNobody'
  BY <1>12, VerifyAPIKeyEffect DEF VerifyAPIKey, At
<1>13. ASSUME NEW r \in Requests, Serve(r) PROVE DeadCredentialsAdmitNobody'
  BY <1>13, EndEffect DEF Serve, At
<1>14. ASSUME NEW r \in Requests, RequireOwner(r) PROVE DeadCredentialsAdmitNobody'
  BY <1>14, GotoEffect, EndEffect DEF RequireOwner, MayChange, At
<1>15. ASSUME NEW r \in Requests, Change(r) PROVE DeadCredentialsAdmitNobody'
  BY <1>15, EndEffect DEF Change, At
<1>16. ASSUME NEW r \in Requests, CreateDoc(r) PROVE DeadCredentialsAdmitNobody'
  BY <1>16, CreateDocEffect
<1>17. ASSUME NEW r \in Requests, AssignOwner(r) PROVE DeadCredentialsAdmitNobody'
  BY <1>17, GotoEffect DEF AssignOwner, At
<1>18. ASSUME NEW r \in Requests, AnswerCreate(r) PROVE DeadCredentialsAdmitNobody'
  BY <1>18, EndEffect DEF AnswerCreate, At
<1>19. ASSUME NEW r \in Requests, FindUser(r) PROVE DeadCredentialsAdmitNobody'
  BY <1>19, GotoEffect, EndEffect DEF FindUser, At
<1>20. ASSUME NEW r \in Requests, VerifyPassword(r) PROVE DeadCredentialsAdmitNobody'
  BY <1>20, GotoEffect, EndEffect DEF VerifyPassword, At
<1>21. ASSUME NEW r \in Requests, CreateUser(r) PROVE DeadCredentialsAdmitNobody'
  BY <1>21, CreateUserEffect
<1>22. ASSUME NEW r \in Requests, SetPassword(r) PROVE DeadCredentialsAdmitNobody'
  BY <1>22, GotoEffect DEF SetPassword, At
<1>23. ASSUME NEW r \in Requests, CreateLoginSession(r) PROVE DeadCredentialsAdmitNobody'
  BY <1>23, EndEffect DEF CreateLoginSession, At
<1>24. ASSUME NEW r \in Requests, Logout(r) PROVE DeadCredentialsAdmitNobody'
  BY <1>24, EndEffect DEF Logout, LiveLogin, ExpiredLogin, At
<1>25. ASSUME NEW r \in Requests, StoreFails(r) PROVE DeadCredentialsAdmitNobody'
  BY <1>25, EndEffect DEF StoreFails, At
<1>26. CASE UNCHANGED vars
  BY <1>26 DEF vars, accountVars, loginVars
<1> HIDE DEF IInv, TypeOK, DeadCredentialsAdmitNobody, StaleIsDead, Dead, DownIsIdle,
     Alone, SameStanding, Steps, accountVars, loginVars
<1> QED
  BY <1>1, <1>2, <1>3, <1>4, <1>5, <1>6, <1>7, <1>8, <1>9, <1>10, <1>11,
       <1>12, <1>13, <1>14, <1>15, <1>16, <1>17, <1>18, <1>19, <1>20, <1>21,
       <1>22, <1>23, <1>24, <1>25, <1>26 DEF Next, HandlerStep, Arrives

\* An edit under authentication gets past the gate on a key, and keeps it.
LEMMA EditsStep == IInv /\ [Next]_vars => EditsHaveKeys'
<1> SUFFICES ASSUME IInv, [Next]_vars PROVE EditsHaveKeys'
  OBVIOUS
<1> USE BlankRequest, NoneAssumption
    DEF IInv, TypeOK, EditsHaveKeys, DownIsIdle, Alone, SameRequest,
         SameStanding, Steps, accountVars, loginVars
<1>1. ASSUME NEW p \in Postures, Start(p) PROVE EditsHaveKeys'
  BY <1>1 DEF Start
<1>2. ASSUME Stop PROVE EditsHaveKeys'
  BY <1>2 DEF Stop
<1>3. ASSUME ShutDown PROVE EditsHaveKeys'
  BY <1>3 DEF ShutDown, Goes, NoPosture
<1>4. ASSUME ShutdownTimesOut PROVE EditsHaveKeys'
  BY <1>4 DEF ShutdownTimesOut, Goes, NoPosture
<1>5. ASSUME NEW n \in Names, UserAdd(n) PROVE EditsHaveKeys'
  BY <1>5 DEF UserAdd
<1>6. ASSUME NEW k \in Keys, IssueAPIKey(k) PROVE EditsHaveKeys'
  BY <1>6 DEF IssueAPIKey
<1>7. ASSUME NEW k \in Keys, NEW byPrefix \in BOOLEAN, RevokeAPIKey(k, byPrefix) PROVE EditsHaveKeys'
  BY <1>7 DEF RevokeAPIKey, Matches, Active
<1>8. ASSUME NEW c \in Cookies, Expire(c) PROVE EditsHaveKeys'
  BY <1>8 DEF Expire
<1>9. ASSUME NEW r \in Requests, Arrives(r) PROVE EditsHaveKeys'
  BY <1>9, ArriveEffect
<1>10. ASSUME NEW r \in Requests, VerifyLoginSession(r) PROVE EditsHaveKeys'
  BY <1>10, VerifyLoginSessionEffect DEF VerifyLoginSession, At
<1>11. ASSUME NEW r \in Requests, Purge(r) PROVE EditsHaveKeys'
  BY <1>11, TryBearerEffect DEF Purge, At
<1>12. ASSUME NEW r \in Requests, VerifyAPIKey(r) PROVE EditsHaveKeys'
  BY <1>12, VerifyAPIKeyEffect DEF VerifyAPIKey, At
<1>13. ASSUME NEW r \in Requests, Serve(r) PROVE EditsHaveKeys'
  BY <1>13, EndEffect DEF Serve, At
<1>14. ASSUME NEW r \in Requests, RequireOwner(r) PROVE EditsHaveKeys'
  BY <1>14, GotoEffect, EndEffect DEF RequireOwner, MayChange, At
<1>15. ASSUME NEW r \in Requests, Change(r) PROVE EditsHaveKeys'
  BY <1>15, EndEffect DEF Change, At
<1>16. ASSUME NEW r \in Requests, CreateDoc(r) PROVE EditsHaveKeys'
  BY <1>16, CreateDocEffect
<1>17. ASSUME NEW r \in Requests, AssignOwner(r) PROVE EditsHaveKeys'
  BY <1>17, GotoEffect DEF AssignOwner, At
<1>18. ASSUME NEW r \in Requests, AnswerCreate(r) PROVE EditsHaveKeys'
  BY <1>18, EndEffect DEF AnswerCreate, At
<1>19. ASSUME NEW r \in Requests, FindUser(r) PROVE EditsHaveKeys'
  BY <1>19, GotoEffect, EndEffect DEF FindUser, At
<1>20. ASSUME NEW r \in Requests, VerifyPassword(r) PROVE EditsHaveKeys'
  BY <1>20, GotoEffect, EndEffect DEF VerifyPassword, At
<1>21. ASSUME NEW r \in Requests, CreateUser(r) PROVE EditsHaveKeys'
  BY <1>21, CreateUserEffect
<1>22. ASSUME NEW r \in Requests, SetPassword(r) PROVE EditsHaveKeys'
  BY <1>22, GotoEffect, SMTT(30) DEF SetPassword, At
<1>23. ASSUME NEW r \in Requests, CreateLoginSession(r) PROVE EditsHaveKeys'
  BY <1>23, EndEffect DEF CreateLoginSession, At
<1>24. ASSUME NEW r \in Requests, Logout(r) PROVE EditsHaveKeys'
  BY <1>24, EndEffect DEF Logout, LiveLogin, ExpiredLogin, At
<1>25. ASSUME NEW r \in Requests, StoreFails(r) PROVE EditsHaveKeys'
  BY <1>25, EndEffect DEF StoreFails, At
<1>26. CASE UNCHANGED vars
  BY <1>26 DEF vars, accountVars, loginVars
<1> HIDE DEF IInv, TypeOK, EditsHaveKeys, DownIsIdle, Alone, SameRequest,
     SameStanding, Steps, accountVars, loginVars
<1> QED
  BY <1>1, <1>2, <1>3, <1>4, <1>5, <1>6, <1>7, <1>8, <1>9, <1>10, <1>11,
       <1>12, <1>13, <1>14, <1>15, <1>16, <1>17, <1>18, <1>19, <1>20, <1>21,
       <1>22, <1>23, <1>24, <1>25, <1>26 DEF Next, HandlerStep, Arrives

\* A slot for a session is taken by one request.
LEMMA MadeStep == IInv /\ [Next]_vars => MadeIsUnowned'
<1> SUFFICES ASSUME IInv, [Next]_vars PROVE MadeIsUnowned'
  OBVIOUS
<1> USE BlankRequest, SomebodyAssumption
    DEF IInv, TypeOK, MadeIsUnowned, DownIsIdle, Alone, SameRequest,
         SameStanding, Steps, Nobody, accountVars, loginVars
<1>1. ASSUME NEW p \in Postures, Start(p) PROVE MadeIsUnowned'
  BY <1>1 DEF Start
<1>2. ASSUME Stop PROVE MadeIsUnowned'
  BY <1>2 DEF Stop
<1>3. ASSUME ShutDown PROVE MadeIsUnowned'
  BY <1>3 DEF ShutDown, Goes, NoPosture
<1>4. ASSUME ShutdownTimesOut PROVE MadeIsUnowned'
  BY <1>4 DEF ShutdownTimesOut, Goes, NoPosture
<1>5. ASSUME NEW n \in Names, UserAdd(n) PROVE MadeIsUnowned'
  BY <1>5 DEF UserAdd
<1>6. ASSUME NEW k \in Keys, IssueAPIKey(k) PROVE MadeIsUnowned'
  BY <1>6 DEF IssueAPIKey
<1>7. ASSUME NEW k \in Keys, NEW byPrefix \in BOOLEAN, RevokeAPIKey(k, byPrefix) PROVE MadeIsUnowned'
  BY <1>7 DEF RevokeAPIKey, Matches, Active
<1>8. ASSUME NEW c \in Cookies, Expire(c) PROVE MadeIsUnowned'
  BY <1>8 DEF Expire
<1>9. ASSUME NEW r \in Requests, Arrives(r) PROVE MadeIsUnowned'
  BY <1>9, ArriveEffect
<1>10. ASSUME NEW r \in Requests, VerifyLoginSession(r) PROVE MadeIsUnowned'
  BY <1>10, VerifyLoginSessionEffect DEF VerifyLoginSession, At
<1>11. ASSUME NEW r \in Requests, Purge(r) PROVE MadeIsUnowned'
  BY <1>11, TryBearerEffect DEF Purge, At
<1>12. ASSUME NEW r \in Requests, VerifyAPIKey(r) PROVE MadeIsUnowned'
  BY <1>12, VerifyAPIKeyEffect DEF VerifyAPIKey, At
<1>13. ASSUME NEW r \in Requests, Serve(r) PROVE MadeIsUnowned'
  BY <1>13, EndEffect DEF Serve, At
<1>14. ASSUME NEW r \in Requests, RequireOwner(r) PROVE MadeIsUnowned'
  BY <1>14, GotoEffect, EndEffect DEF RequireOwner, MayChange, At
<1>15. ASSUME NEW r \in Requests, Change(r) PROVE MadeIsUnowned'
  BY <1>15, EndEffect DEF Change, At
<1>16. ASSUME NEW r \in Requests, CreateDoc(r) PROVE MadeIsUnowned'
  <2>1. CASE req'[r] = Blank /\ owner' = owner
    BY <1>16, <2>1, CreateDocEffect
  <2>2. CASE ~(req'[r] = Blank /\ owner' = owner)
    <3>1. /\ SameRequest(r) /\ req'[r].pc = "made" /\ owner[req[r].doc] = None
          /\ owner' = [owner EXCEPT ![req[r].doc] = Nobody]
          /\ req[r].doc \in Docs /\ Alone(r) /\ req' \in [Requests -> RequestType]
          /\ posture' = posture
      BY <1>16, <2>2, CreateDocEffect DEF RequestType
    <3>2. \A q \in Requests : q # r /\ req'[q].pc = "made" =>
             /\ req'[q].doc # req[r].doc /\ req'[q].doc \in Docs
             /\ owner'[req'[q].doc] = Nobody
      BY <3>1 DEF RequestType
    <3>3. req'[r].doc = req[r].doc /\ owner'[req[r].doc] = Nobody
      BY <3>1
    <3> QED
      BY <3>1, <3>2, <3>3
  <2> QED
    BY <2>1, <2>2
<1>17. ASSUME NEW r \in Requests, AssignOwner(r) PROVE MadeIsUnowned'
  BY <1>17, GotoEffect DEF AssignOwner, At
<1>18. ASSUME NEW r \in Requests, AnswerCreate(r) PROVE MadeIsUnowned'
  BY <1>18, EndEffect DEF AnswerCreate, At
<1>19. ASSUME NEW r \in Requests, FindUser(r) PROVE MadeIsUnowned'
  BY <1>19, GotoEffect, EndEffect DEF FindUser, At
<1>20. ASSUME NEW r \in Requests, VerifyPassword(r) PROVE MadeIsUnowned'
  BY <1>20, GotoEffect, EndEffect DEF VerifyPassword, At
<1>21. ASSUME NEW r \in Requests, CreateUser(r) PROVE MadeIsUnowned'
  BY <1>21, CreateUserEffect
<1>22. ASSUME NEW r \in Requests, SetPassword(r) PROVE MadeIsUnowned'
  BY <1>22, GotoEffect DEF SetPassword, At
<1>23. ASSUME NEW r \in Requests, CreateLoginSession(r) PROVE MadeIsUnowned'
  BY <1>23, EndEffect DEF CreateLoginSession, At
<1>24. ASSUME NEW r \in Requests, Logout(r) PROVE MadeIsUnowned'
  BY <1>24, EndEffect DEF Logout, LiveLogin, ExpiredLogin, At
<1>25. ASSUME NEW r \in Requests, StoreFails(r) PROVE MadeIsUnowned'
  BY <1>25, EndEffect DEF StoreFails, At
<1>26. CASE UNCHANGED vars
  BY <1>26 DEF vars, accountVars, loginVars
<1> HIDE DEF IInv, TypeOK, MadeIsUnowned, DownIsIdle, Alone, SameRequest,
     SameStanding, Steps, Nobody, accountVars, loginVars
<1> QED
  BY <1>1, <1>2, <1>3, <1>4, <1>5, <1>6, <1>7, <1>8, <1>9, <1>10, <1>11,
       <1>12, <1>13, <1>14, <1>15, <1>16, <1>17, <1>18, <1>19, <1>20, <1>21,
       <1>22, <1>23, <1>24, <1>25, <1>26 DEF Next, HandlerStep, Arrives

\* Between requireOwner and the change nobody else becomes the owner.
LEMMA OwnsStep == IInv /\ [Next]_vars => OwnsWhatItEdits'
<1> SUFFICES ASSUME IInv, [Next]_vars PROVE OwnsWhatItEdits'
  OBVIOUS
<1> USE BlankRequest, SomebodyAssumption
    DEF IInv, TypeOK, OwnsWhatItEdits, EditsHaveKeys, MadeIsUnowned,
         DownIsIdle, Alone, SameRequest, SameStanding, Steps, Nobody,
         accountVars, loginVars
<1>1. ASSUME NEW p \in Postures, Start(p) PROVE OwnsWhatItEdits'
  BY <1>1 DEF Start
<1>2. ASSUME Stop PROVE OwnsWhatItEdits'
  BY <1>2 DEF Stop
<1>3. ASSUME ShutDown PROVE OwnsWhatItEdits'
  BY <1>3 DEF ShutDown, Goes, NoPosture
<1>4. ASSUME ShutdownTimesOut PROVE OwnsWhatItEdits'
  BY <1>4 DEF ShutdownTimesOut, Goes, NoPosture
<1>5. ASSUME NEW n \in Names, UserAdd(n) PROVE OwnsWhatItEdits'
  BY <1>5 DEF UserAdd
<1>6. ASSUME NEW k \in Keys, IssueAPIKey(k) PROVE OwnsWhatItEdits'
  BY <1>6 DEF IssueAPIKey
<1>7. ASSUME NEW k \in Keys, NEW byPrefix \in BOOLEAN, RevokeAPIKey(k, byPrefix) PROVE OwnsWhatItEdits'
  BY <1>7 DEF RevokeAPIKey, Matches, Active
<1>8. ASSUME NEW c \in Cookies, Expire(c) PROVE OwnsWhatItEdits'
  BY <1>8 DEF Expire
<1>9. ASSUME NEW r \in Requests, Arrives(r) PROVE OwnsWhatItEdits'
  BY <1>9, ArriveEffect
<1>10. ASSUME NEW r \in Requests, VerifyLoginSession(r) PROVE OwnsWhatItEdits'
  BY <1>10, VerifyLoginSessionEffect DEF VerifyLoginSession, At
<1>11. ASSUME NEW r \in Requests, Purge(r) PROVE OwnsWhatItEdits'
  BY <1>11, TryBearerEffect DEF Purge, At
<1>12. ASSUME NEW r \in Requests, VerifyAPIKey(r) PROVE OwnsWhatItEdits'
  BY <1>12, VerifyAPIKeyEffect DEF VerifyAPIKey, At
<1>13. ASSUME NEW r \in Requests, Serve(r) PROVE OwnsWhatItEdits'
  BY <1>13, EndEffect DEF Serve, At
<1>14. ASSUME NEW r \in Requests, RequireOwner(r) PROVE OwnsWhatItEdits'
  BY <1>14, GotoEffect, EndEffect DEF RequireOwner, MayChange, At
<1>15. ASSUME NEW r \in Requests, Change(r) PROVE OwnsWhatItEdits'
  BY <1>15, EndEffect DEF Change, At
<1>16. ASSUME NEW r \in Requests, CreateDoc(r) PROVE OwnsWhatItEdits'
  <2>1. CASE req'[r] = Blank /\ owner' = owner
    BY <1>16, <2>1, CreateDocEffect
  <2>2. CASE ~(req'[r] = Blank /\ owner' = owner)
    <3>1. /\ SameRequest(r) /\ req'[r].pc = "made" /\ owner[req[r].doc] = None
          /\ owner' = [owner EXCEPT ![req[r].doc] = Nobody]
          /\ req[r].doc \in Docs /\ Alone(r) /\ req' \in [Requests -> RequestType]
          /\ posture' = posture
      BY <1>16, <2>2, CreateDocEffect DEF RequestType
    <3> QED
      BY <3>1, NoneAssumption DEF RequestType
  <2> QED
    BY <2>1, <2>2
<1>17. ASSUME NEW r \in Requests, AssignOwner(r) PROVE OwnsWhatItEdits'
  BY <1>17, GotoEffect DEF AssignOwner, At
<1>18. ASSUME NEW r \in Requests, AnswerCreate(r) PROVE OwnsWhatItEdits'
  BY <1>18, EndEffect DEF AnswerCreate, At
<1>19. ASSUME NEW r \in Requests, FindUser(r) PROVE OwnsWhatItEdits'
  BY <1>19, GotoEffect, EndEffect DEF FindUser, At
<1>20. ASSUME NEW r \in Requests, VerifyPassword(r) PROVE OwnsWhatItEdits'
  BY <1>20, GotoEffect, EndEffect DEF VerifyPassword, At
<1>21. ASSUME NEW r \in Requests, CreateUser(r) PROVE OwnsWhatItEdits'
  BY <1>21, CreateUserEffect
<1>22. ASSUME NEW r \in Requests, SetPassword(r) PROVE OwnsWhatItEdits'
  BY <1>22, GotoEffect DEF SetPassword, At
<1>23. ASSUME NEW r \in Requests, CreateLoginSession(r) PROVE OwnsWhatItEdits'
  BY <1>23, EndEffect DEF CreateLoginSession, At
<1>24. ASSUME NEW r \in Requests, Logout(r) PROVE OwnsWhatItEdits'
  BY <1>24, EndEffect DEF Logout, LiveLogin, ExpiredLogin, At
<1>25. ASSUME NEW r \in Requests, StoreFails(r) PROVE OwnsWhatItEdits'
  BY <1>25, EndEffect DEF StoreFails, At
<1>26. CASE UNCHANGED vars
  BY <1>26 DEF vars, accountVars, loginVars
<1> HIDE DEF IInv, TypeOK, OwnsWhatItEdits, EditsHaveKeys, MadeIsUnowned, DownIsIdle,
     Alone, SameRequest, SameStanding, Steps, Nobody, accountVars, loginVars
<1> QED
  BY <1>1, <1>2, <1>3, <1>4, <1>5, <1>6, <1>7, <1>8, <1>9, <1>10, <1>11,
       <1>12, <1>13, <1>14, <1>15, <1>16, <1>17, <1>18, <1>19, <1>20, <1>21,
       <1>22, <1>23, <1>24, <1>25, <1>26 DEF Next, HandlerStep, Arrives

\* A password is set for a user that exists.
LEMMA PasswordsStep == IInv /\ [Next]_vars => PasswordsHaveUsers'
<1> SUFFICES ASSUME IInv, [Next]_vars PROVE PasswordsHaveUsers'
  OBVIOUS
<1> USE DEF IInv, TypeOK, PasswordsHaveUsers, CreatedIsOwn, accountVars, loginVars
<1>1. ASSUME NEW p \in Postures, Start(p) PROVE PasswordsHaveUsers'
  BY <1>1 DEF Start
<1>2. ASSUME Stop PROVE PasswordsHaveUsers'
  BY <1>2 DEF Stop
<1>3. ASSUME ShutDown PROVE PasswordsHaveUsers'
  BY <1>3 DEF ShutDown, Goes, NoPosture
<1>4. ASSUME ShutdownTimesOut PROVE PasswordsHaveUsers'
  BY <1>4 DEF ShutdownTimesOut, Goes, NoPosture
<1>5. ASSUME NEW n \in Names, UserAdd(n) PROVE PasswordsHaveUsers'
  BY <1>5 DEF UserAdd
<1>6. ASSUME NEW k \in Keys, IssueAPIKey(k) PROVE PasswordsHaveUsers'
  BY <1>6 DEF IssueAPIKey
<1>7. ASSUME NEW k \in Keys, NEW byPrefix \in BOOLEAN, RevokeAPIKey(k, byPrefix) PROVE PasswordsHaveUsers'
  BY <1>7 DEF RevokeAPIKey, Matches, Active
<1>8. ASSUME NEW c \in Cookies, Expire(c) PROVE PasswordsHaveUsers'
  BY <1>8 DEF Expire
<1>9. ASSUME NEW r \in Requests, Arrives(r) PROVE PasswordsHaveUsers'
  BY <1>9, ArriveEffect
<1>10. ASSUME NEW r \in Requests, VerifyLoginSession(r) PROVE PasswordsHaveUsers'
  BY <1>10, VerifyLoginSessionEffect DEF VerifyLoginSession, At
<1>11. ASSUME NEW r \in Requests, Purge(r) PROVE PasswordsHaveUsers'
  BY <1>11, TryBearerEffect DEF Purge, At
<1>12. ASSUME NEW r \in Requests, VerifyAPIKey(r) PROVE PasswordsHaveUsers'
  BY <1>12, VerifyAPIKeyEffect DEF VerifyAPIKey, At
<1>13. ASSUME NEW r \in Requests, Serve(r) PROVE PasswordsHaveUsers'
  BY <1>13, EndEffect DEF Serve, At
<1>14. ASSUME NEW r \in Requests, RequireOwner(r) PROVE PasswordsHaveUsers'
  BY <1>14, GotoEffect, EndEffect DEF RequireOwner, MayChange, At
<1>15. ASSUME NEW r \in Requests, Change(r) PROVE PasswordsHaveUsers'
  BY <1>15, EndEffect DEF Change, At
<1>16. ASSUME NEW r \in Requests, CreateDoc(r) PROVE PasswordsHaveUsers'
  BY <1>16, CreateDocEffect
<1>17. ASSUME NEW r \in Requests, AssignOwner(r) PROVE PasswordsHaveUsers'
  BY <1>17, GotoEffect DEF AssignOwner, At
<1>18. ASSUME NEW r \in Requests, AnswerCreate(r) PROVE PasswordsHaveUsers'
  BY <1>18, EndEffect DEF AnswerCreate, At
<1>19. ASSUME NEW r \in Requests, FindUser(r) PROVE PasswordsHaveUsers'
  BY <1>19, GotoEffect, EndEffect DEF FindUser, At
<1>20. ASSUME NEW r \in Requests, VerifyPassword(r) PROVE PasswordsHaveUsers'
  BY <1>20, GotoEffect, EndEffect DEF VerifyPassword, At
<1>21. ASSUME NEW r \in Requests, CreateUser(r) PROVE PasswordsHaveUsers'
  BY <1>21, CreateUserEffect
<1>22. ASSUME NEW r \in Requests, SetPassword(r) PROVE PasswordsHaveUsers'
  BY <1>22, GotoEffect DEF SetPassword, At
<1>23. ASSUME NEW r \in Requests, CreateLoginSession(r) PROVE PasswordsHaveUsers'
  BY <1>23, EndEffect DEF CreateLoginSession, At
<1>24. ASSUME NEW r \in Requests, Logout(r) PROVE PasswordsHaveUsers'
  BY <1>24, EndEffect DEF Logout, LiveLogin, ExpiredLogin, At
<1>25. ASSUME NEW r \in Requests, StoreFails(r) PROVE PasswordsHaveUsers'
  BY <1>25, EndEffect DEF StoreFails, At
<1>26. CASE UNCHANGED vars
  BY <1>26 DEF vars, accountVars, loginVars
<1> HIDE DEF IInv, TypeOK, PasswordsHaveUsers, CreatedIsOwn, accountVars, loginVars
<1> QED
  BY <1>1, <1>2, <1>3, <1>4, <1>5, <1>6, <1>7, <1>8, <1>9, <1>10, <1>11,
       <1>12, <1>13, <1>14, <1>15, <1>16, <1>17, <1>18, <1>19, <1>20, <1>21,
       <1>22, <1>23, <1>24, <1>25, <1>26 DEF Next, HandlerStep, Arrives

\* A name is registered by one request.
LEMMA CreatedStep == IInv /\ [Next]_vars => CreatedIsOwn'
<1> SUFFICES ASSUME IInv, [Next]_vars PROVE CreatedIsOwn'
  OBVIOUS
<1> USE BlankRequest DEF IInv, TypeOK, CreatedIsOwn, PasswordsHaveUsers, DownIsIdle,
     Alone, SameRequest, SameStanding, Steps, accountVars, loginVars
<1>1. ASSUME NEW p \in Postures, Start(p) PROVE CreatedIsOwn'
  BY <1>1 DEF Start
<1>2. ASSUME Stop PROVE CreatedIsOwn'
  BY <1>2 DEF Stop
<1>3. ASSUME ShutDown PROVE CreatedIsOwn'
  BY <1>3 DEF ShutDown, Goes, NoPosture
<1>4. ASSUME ShutdownTimesOut PROVE CreatedIsOwn'
  BY <1>4 DEF ShutdownTimesOut, Goes, NoPosture
<1>5. ASSUME NEW n \in Names, UserAdd(n) PROVE CreatedIsOwn'
  BY <1>5 DEF UserAdd
<1>6. ASSUME NEW k \in Keys, IssueAPIKey(k) PROVE CreatedIsOwn'
  BY <1>6 DEF IssueAPIKey
<1>7. ASSUME NEW k \in Keys, NEW byPrefix \in BOOLEAN, RevokeAPIKey(k, byPrefix) PROVE CreatedIsOwn'
  BY <1>7 DEF RevokeAPIKey, Matches, Active
<1>8. ASSUME NEW c \in Cookies, Expire(c) PROVE CreatedIsOwn'
  BY <1>8 DEF Expire
<1>9. ASSUME NEW r \in Requests, Arrives(r) PROVE CreatedIsOwn'
  BY <1>9, ArriveEffect
<1>10. ASSUME NEW r \in Requests, VerifyLoginSession(r) PROVE CreatedIsOwn'
  BY <1>10, VerifyLoginSessionEffect DEF VerifyLoginSession, At
<1>11. ASSUME NEW r \in Requests, Purge(r) PROVE CreatedIsOwn'
  BY <1>11, TryBearerEffect DEF Purge, At
<1>12. ASSUME NEW r \in Requests, VerifyAPIKey(r) PROVE CreatedIsOwn'
  BY <1>12, VerifyAPIKeyEffect DEF VerifyAPIKey, At
<1>13. ASSUME NEW r \in Requests, Serve(r) PROVE CreatedIsOwn'
  BY <1>13, EndEffect DEF Serve, At
<1>14. ASSUME NEW r \in Requests, RequireOwner(r) PROVE CreatedIsOwn'
  BY <1>14, GotoEffect, EndEffect DEF RequireOwner, MayChange, At
<1>15. ASSUME NEW r \in Requests, Change(r) PROVE CreatedIsOwn'
  BY <1>15, EndEffect DEF Change, At
<1>16. ASSUME NEW r \in Requests, CreateDoc(r) PROVE CreatedIsOwn'
  BY <1>16, CreateDocEffect
<1>17. ASSUME NEW r \in Requests, AssignOwner(r) PROVE CreatedIsOwn'
  BY <1>17, GotoEffect DEF AssignOwner, At
<1>18. ASSUME NEW r \in Requests, AnswerCreate(r) PROVE CreatedIsOwn'
  BY <1>18, EndEffect DEF AnswerCreate, At
<1>19. ASSUME NEW r \in Requests, FindUser(r) PROVE CreatedIsOwn'
  BY <1>19, GotoEffect, EndEffect DEF FindUser, At
<1>20. ASSUME NEW r \in Requests, VerifyPassword(r) PROVE CreatedIsOwn'
  BY <1>20, GotoEffect, EndEffect DEF VerifyPassword, At
<1>21. ASSUME NEW r \in Requests, CreateUser(r) PROVE CreatedIsOwn'
  BY <1>21, CreateUserEffect
<1>22. ASSUME NEW r \in Requests, SetPassword(r) PROVE CreatedIsOwn'
  BY <1>22, GotoEffect DEF SetPassword, At
<1>23. ASSUME NEW r \in Requests, CreateLoginSession(r) PROVE CreatedIsOwn'
  BY <1>23, EndEffect DEF CreateLoginSession, At
<1>24. ASSUME NEW r \in Requests, Logout(r) PROVE CreatedIsOwn'
  BY <1>24, EndEffect DEF Logout, LiveLogin, ExpiredLogin, At
<1>25. ASSUME NEW r \in Requests, StoreFails(r) PROVE CreatedIsOwn'
  BY <1>25, EndEffect DEF StoreFails, At
<1>26. CASE UNCHANGED vars
  BY <1>26 DEF vars, accountVars, loginVars
<1> HIDE DEF IInv, TypeOK, CreatedIsOwn, PasswordsHaveUsers, DownIsIdle, Alone,
     SameRequest, SameStanding, Steps, accountVars, loginVars
<1> QED
  BY <1>1, <1>2, <1>3, <1>4, <1>5, <1>6, <1>7, <1>8, <1>9, <1>10, <1>11,
       <1>12, <1>13, <1>14, <1>15, <1>16, <1>17, <1>18, <1>19, <1>20, <1>21,
       <1>22, <1>23, <1>24, <1>25, <1>26 DEF Next, HandlerStep, Arrives

\* A password that was sent stays the one that is stored.
LEMMA GrantedStep == IInv /\ [Next]_vars => GrantedKnows'
<1> SUFFICES ASSUME IInv, [Next]_vars PROVE GrantedKnows'
  OBVIOUS
<1> USE BlankRequest, NoneAssumption
    DEF IInv, TypeOK, GrantedKnows, CreatedIsOwn, DownIsIdle, Alone,
         SameRequest, SameStanding, Steps, accountVars, loginVars
<1>1. ASSUME NEW p \in Postures, Start(p) PROVE GrantedKnows'
  BY <1>1 DEF Start
<1>2. ASSUME Stop PROVE GrantedKnows'
  BY <1>2 DEF Stop
<1>3. ASSUME ShutDown PROVE GrantedKnows'
  BY <1>3 DEF ShutDown, Goes, NoPosture
<1>4. ASSUME ShutdownTimesOut PROVE GrantedKnows'
  BY <1>4 DEF ShutdownTimesOut, Goes, NoPosture
<1>5. ASSUME NEW n \in Names, UserAdd(n) PROVE GrantedKnows'
  BY <1>5 DEF UserAdd
<1>6. ASSUME NEW k \in Keys, IssueAPIKey(k) PROVE GrantedKnows'
  BY <1>6 DEF IssueAPIKey
<1>7. ASSUME NEW k \in Keys, NEW byPrefix \in BOOLEAN, RevokeAPIKey(k, byPrefix) PROVE GrantedKnows'
  BY <1>7 DEF RevokeAPIKey, Matches, Active
<1>8. ASSUME NEW c \in Cookies, Expire(c) PROVE GrantedKnows'
  BY <1>8 DEF Expire
<1>9. ASSUME NEW r \in Requests, Arrives(r) PROVE GrantedKnows'
  BY <1>9, ArriveEffect
<1>10. ASSUME NEW r \in Requests, VerifyLoginSession(r) PROVE GrantedKnows'
  BY <1>10, VerifyLoginSessionEffect DEF VerifyLoginSession, At
<1>11. ASSUME NEW r \in Requests, Purge(r) PROVE GrantedKnows'
  BY <1>11, TryBearerEffect DEF Purge, At
<1>12. ASSUME NEW r \in Requests, VerifyAPIKey(r) PROVE GrantedKnows'
  BY <1>12, VerifyAPIKeyEffect DEF VerifyAPIKey, At
<1>13. ASSUME NEW r \in Requests, Serve(r) PROVE GrantedKnows'
  BY <1>13, EndEffect DEF Serve, At
<1>14. ASSUME NEW r \in Requests, RequireOwner(r) PROVE GrantedKnows'
  BY <1>14, GotoEffect, EndEffect DEF RequireOwner, MayChange, At
<1>15. ASSUME NEW r \in Requests, Change(r) PROVE GrantedKnows'
  BY <1>15, EndEffect DEF Change, At
<1>16. ASSUME NEW r \in Requests, CreateDoc(r) PROVE GrantedKnows'
  BY <1>16, CreateDocEffect
<1>17. ASSUME NEW r \in Requests, AssignOwner(r) PROVE GrantedKnows'
  BY <1>17, GotoEffect DEF AssignOwner, At
<1>18. ASSUME NEW r \in Requests, AnswerCreate(r) PROVE GrantedKnows'
  BY <1>18, EndEffect DEF AnswerCreate, At
<1>19. ASSUME NEW r \in Requests, FindUser(r) PROVE GrantedKnows'
  BY <1>19, GotoEffect, EndEffect, SMTT(30) DEF FindUser, At
<1>20. ASSUME NEW r \in Requests, VerifyPassword(r) PROVE GrantedKnows'
  BY <1>20, GotoEffect, EndEffect, SMTT(30) DEF VerifyPassword, At, RequestType
<1>21. ASSUME NEW r \in Requests, CreateUser(r) PROVE GrantedKnows'
  BY <1>21, CreateUserEffect
<1>22. ASSUME NEW r \in Requests, SetPassword(r) PROVE GrantedKnows'
  BY <1>22, GotoEffect, SMTT(30) DEF SetPassword, At, RequestType
<1>23. ASSUME NEW r \in Requests, CreateLoginSession(r) PROVE GrantedKnows'
  BY <1>23, EndEffect DEF CreateLoginSession, At
<1>24. ASSUME NEW r \in Requests, Logout(r) PROVE GrantedKnows'
  BY <1>24, EndEffect DEF Logout, LiveLogin, ExpiredLogin, At
<1>25. ASSUME NEW r \in Requests, StoreFails(r) PROVE GrantedKnows'
  BY <1>25, EndEffect DEF StoreFails, At
<1>26. CASE UNCHANGED vars
  BY <1>26 DEF vars, accountVars, loginVars
<1> HIDE DEF IInv, TypeOK, GrantedKnows, CreatedIsOwn, DownIsIdle, Alone,
     SameRequest, SameStanding, Steps, accountVars, loginVars
<1> QED
  BY <1>1, <1>2, <1>3, <1>4, <1>5, <1>6, <1>7, <1>8, <1>9, <1>10, <1>11,
       <1>12, <1>13, <1>14, <1>15, <1>16, <1>17, <1>18, <1>19, <1>20, <1>21,
       <1>22, <1>23, <1>24, <1>25, <1>26 DEF Next, HandlerStep, Arrives

\* What SignInsKnowThePassword says of one step.
SignInIsEarned ==
    \A c \in Cookies : login[c] = "unused" /\ login'[c] # "unused" =>
       \E r \in Requests :
           /\ req[r].pc = "granted" /\ req'[r].pc = "off"
           /\ req[r].name = loginUser'[c]
           /\ req[r].secret = password[loginUser'[c]]

\* Only CreateLoginSession hands a login session out, for the password it was
\* granted on.
LEMMA EarnedStep == IInv /\ [Next]_vars => SignInIsEarned
<1> SUFFICES ASSUME IInv, [Next]_vars PROVE SignInIsEarned
  OBVIOUS
<1> USE BlankRequest DEF IInv, TypeOK, SignInIsEarned, GrantedKnows, PurgesAreIssued,
     accountVars, loginVars
<1>1. ASSUME NEW p \in Postures, Start(p) PROVE SignInIsEarned
  BY <1>1 DEF Start
<1>2. ASSUME Stop PROVE SignInIsEarned
  BY <1>2 DEF Stop
<1>3. ASSUME ShutDown PROVE SignInIsEarned
  BY <1>3 DEF ShutDown, Goes, NoPosture
<1>4. ASSUME ShutdownTimesOut PROVE SignInIsEarned
  BY <1>4 DEF ShutdownTimesOut, Goes, NoPosture
<1>5. ASSUME NEW n \in Names, UserAdd(n) PROVE SignInIsEarned
  BY <1>5 DEF UserAdd
<1>6. ASSUME NEW k \in Keys, IssueAPIKey(k) PROVE SignInIsEarned
  BY <1>6 DEF IssueAPIKey
<1>7. ASSUME NEW k \in Keys, NEW byPrefix \in BOOLEAN, RevokeAPIKey(k, byPrefix) PROVE SignInIsEarned
  BY <1>7 DEF RevokeAPIKey, Matches, Active
<1>8. ASSUME NEW c \in Cookies, Expire(c) PROVE SignInIsEarned
  BY <1>8 DEF Expire
<1>9. ASSUME NEW r \in Requests, Arrives(r) PROVE SignInIsEarned
  BY <1>9, ArriveEffect
<1>10. ASSUME NEW r \in Requests, VerifyLoginSession(r) PROVE SignInIsEarned
  BY <1>10, VerifyLoginSessionEffect DEF VerifyLoginSession, At
<1>11. ASSUME NEW r \in Requests, Purge(r) PROVE SignInIsEarned
  BY <1>11, TryBearerEffect DEF Purge, At
<1>12. ASSUME NEW r \in Requests, VerifyAPIKey(r) PROVE SignInIsEarned
  BY <1>12, VerifyAPIKeyEffect DEF VerifyAPIKey, At
<1>13. ASSUME NEW r \in Requests, Serve(r) PROVE SignInIsEarned
  BY <1>13, EndEffect DEF Serve, At
<1>14. ASSUME NEW r \in Requests, RequireOwner(r) PROVE SignInIsEarned
  BY <1>14, GotoEffect, EndEffect DEF RequireOwner, MayChange, At
<1>15. ASSUME NEW r \in Requests, Change(r) PROVE SignInIsEarned
  BY <1>15, EndEffect DEF Change, At
<1>16. ASSUME NEW r \in Requests, CreateDoc(r) PROVE SignInIsEarned
  BY <1>16, CreateDocEffect
<1>17. ASSUME NEW r \in Requests, AssignOwner(r) PROVE SignInIsEarned
  BY <1>17, GotoEffect DEF AssignOwner, At
<1>18. ASSUME NEW r \in Requests, AnswerCreate(r) PROVE SignInIsEarned
  BY <1>18, EndEffect DEF AnswerCreate, At
<1>19. ASSUME NEW r \in Requests, FindUser(r) PROVE SignInIsEarned
  BY <1>19, GotoEffect, EndEffect DEF FindUser, At
<1>20. ASSUME NEW r \in Requests, VerifyPassword(r) PROVE SignInIsEarned
  BY <1>20, GotoEffect, EndEffect DEF VerifyPassword, At
<1>21. ASSUME NEW r \in Requests, CreateUser(r) PROVE SignInIsEarned
  BY <1>21, CreateUserEffect
<1>22. ASSUME NEW r \in Requests, SetPassword(r) PROVE SignInIsEarned
  BY <1>22, GotoEffect DEF SetPassword, At
<1>23. ASSUME NEW r \in Requests, CreateLoginSession(r) PROVE SignInIsEarned
  BY <1>23, EndEffect DEF CreateLoginSession, At, RequestType
<1>24. ASSUME NEW r \in Requests, Logout(r) PROVE SignInIsEarned
  BY <1>24, EndEffect DEF Logout, LiveLogin, ExpiredLogin, At
<1>25. ASSUME NEW r \in Requests, StoreFails(r) PROVE SignInIsEarned
  BY <1>25, EndEffect DEF StoreFails, At
<1>26. CASE UNCHANGED vars
  BY <1>26 DEF vars, accountVars, loginVars
<1> HIDE DEF IInv, TypeOK, SignInIsEarned, GrantedKnows, PurgesAreIssued,
     accountVars, loginVars
<1> QED
  BY <1>1, <1>2, <1>3, <1>4, <1>5, <1>6, <1>7, <1>8, <1>9, <1>10, <1>11,
       <1>12, <1>13, <1>14, <1>15, <1>16, <1>17, <1>18, <1>19, <1>20, <1>21,
       <1>22, <1>23, <1>24, <1>25, <1>26 DEF Next, HandlerStep, Arrives

\* The invariant holds before the server is started.
LEMMA InitInv == Init => IInv
  BY BlankRequest
  DEF Init, NoPosture, IInv, TypeOK, LoginsHaveUsers, PurgesAreIssued, DownIsIdle,
      StaleIsDead, DeadCredentialsAdmitNobody, EditsHaveKeys, MadeIsUnowned,
      OwnsWhatItEdits, PasswordsHaveUsers, CreatedIsOwn, GrantedKnows

\* Every step keeps the invariant.
LEMMA InvStep == IInv /\ [Next]_vars => IInv'
  BY TypeStep, LoginsStep, PurgesStep, DownStep, StaleStep, AdmitStep, EditsStep,
     MadeStep, OwnsStep, PasswordsStep, CreatedStep, GrantedStep DEF IInv

\* The invariant holds in every reachable state.
LEMMA Invariance == Spec => []IInv
<1>1. Init => IInv
  BY InitInv
<1>2. IInv /\ [Next]_vars => IInv'
  BY InvStep
<1> QED
  BY <1>1, <1>2, PTL DEF Spec

\* Users, keys, login sessions, owners and requests keep their types, and
\* previews are never protected on a server without authentication.
THEOREM TypeCorrect == Spec => []TypeOK
<1>1. IInv => TypeOK
  BY DEF IInv
<1> QED
  BY <1>1, Invariance, PTL

\* A credential that was revoked, expired or logged out before a request arrived
\* admits that request nowhere (VerifyAPIKey, VerifyLoginSession).
THEOREM DeadCredentialsStayOut == Spec => []DeadCredentialsAdmitNobody
<1>1. IInv => DeadCredentialsAdmitNobody
  BY DEF IInv
<1> QED
  BY <1>1, Invariance, PTL

\* Under --auth a session is only changed on a key of its owner (authMiddleware,
\* requireOwner).
THEOREM OwnersChange == Spec => OnlyOwnersChange
<1>1. IInv /\ [Next]_vars =>
        [\A r \in Requests :
           Change(r) /\ posture.auth =>
             req[r].via \in Keys /\ keyUser[req[r].via] = owner[req[r].doc]]_vars
  BY DEF IInv, Change, At, OwnsWhatItEdits, EditsHaveKeys
<1> QED
  BY <1>1, Invariance, PTL DEF Spec, OnlyOwnersChange

\* Whoever is given a login session has sent the password of its user
\* (handleLoginPost, handleRegisterPost).
THEOREM SignInsAreEarned == Spec => SignInsKnowThePassword
<1>1. IInv /\ [Next]_vars => [SignInIsEarned]_vars
  BY EarnedStep
<1> QED
  BY <1>1, Invariance, PTL DEF Spec, SignInsKnowThePassword, SignInIsEarned
=============================================================================

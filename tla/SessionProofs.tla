--------------------------- MODULE SessionProofs ---------------------------
(***************************************************************************)
(* Proofs about Sessions and Allowlist: who may sign in may stay, and a    *)
(* session of the running configuration lasts until its time or a logout.  *)
(***************************************************************************)
EXTENDS Sessions, Integers, TLAPS

(* What the login check admits, the check of every later request accepts: it
   sees the stored email only (allowlist.go 45-82). *)
THEOREM LoginsMayStay ==
  ASSUME NEW list, NEW claims, AllowsLogin(list, claims)
  PROVE  AllowsEmail(list, claims.email)
BY DEF AllowsLogin, AllowsEmail

------------------------------------------------------------------------------
(* TypeOK in groups that actions change or leave alone. *)
UsersTyped ==
  /\ users \in [Accounts -> Addresses \union {None}]
  /\ \A a, b \in Accounts : users[a] = users[b] /\ users[a] # None => a = b
SessionsTyped == sessions \in [Logins -> Session \union {None, Ended}]
ProcessTyped ==
  now \in 0..MaxTime /\ restarts \in 0..MaxRestarts /\ allowlist \in Allowlists
FaultsTyped == faults \in 0..MaxFaults
StatesTyped == oauthState \in [Browsers -> Logins \union {None}]
CookiesTyped == cookie \in [Browsers -> Logins \union {None}]
LoginsTyped ==
  /\ login \in [Logins -> Login]
  /\ \A l \in Logins : LoginAt(l, "new") \/ Account(l) \in Accounts
RequestsTyped == request \in [Requests -> Request]

LEMMA Groups ==
  TypeOK <=> /\ UsersTyped /\ SessionsTyped /\ ProcessTyped /\ FaultsTyped
             /\ StatesTyped /\ CookiesTyped /\ LoginsTyped /\ RequestsTyped
BY DEF TypeOK, UsersTyped, SessionsTyped, ProcessTyped, FaultsTyped, StatesTyped, CookiesTyped,
  LoginsTyped, RequestsTyped

LEMMA TypedInit == Init => TypeOK
<1> SUFFICES ASSUME Init PROVE TypeOK
  OBVIOUS
<1>1. NoClaims \in Claims
  BY AddressAssumption DEF NoClaims, Claims
<1>2. NewLogin \in Login /\ NewLogin.step = "new"
  BY <1>1 DEF NewLogin, Login, LoginSteps, LoginOver
<1>3. [step |-> "new", op |-> "api", browser |-> None, token |-> None] \in Request
  BY DEF Request, RequestSteps
<1>4. LoginsTyped
  BY <1>2 DEF Init, LoginsTyped, LoginAt
<1>5. RequestsTyped
  BY <1>3 DEF Init, RequestsTyped
<1>6. UsersTyped /\ SessionsTyped /\ StatesTyped /\ CookiesTyped
  BY DEF Init, UsersTyped, SessionsTyped, StatesTyped, CookiesTyped
<1>7. ProcessTyped /\ FaultsTyped
  <2>1. MaxTime \in Nat /\ MaxRestarts \in Nat /\ MaxFaults \in Nat
    BY SessionAssumption
  <2>2. now = 0 /\ restarts = 0 /\ faults = 0 /\ allowlist \in Allowlists
    BY DEF Init
  <2>3. 0 \in 0..MaxTime /\ 0 \in 0..MaxRestarts /\ 0 \in 0..MaxFaults
    BY <2>1
  <2> QED
    BY <2>2, <2>3 DEF ProcessTyped, FaultsTyped
<1> QED
  BY <1>4, <1>5, <1>6, <1>7, Groups

(* A sign-in under way that takes a step. *)
LEMMA StepTyped ==
  ASSUME LoginsTyped, NEW l \in Logins, ~LoginAt(l, "new"), NEW s \in LoginSteps, Step(l, s)
  PROVE  LoginsTyped' /\ login'[l] \in Login /\ LoginAt(l, s)'
<1>1. login[l] \in Login /\ [login[l] EXCEPT !.step = s] \in Login
  BY DEF LoginsTyped, Login
<1>2. login' = [login EXCEPT ![l] = [login[l] EXCEPT !.step = s]]
  BY DEF Step, LoginsTyped
<1>3. login' \in [Logins -> Login] /\ LoginAt(l, s)'
  BY <1>1, <1>2 DEF LoginsTyped, LoginAt, Login
<1>4. \A k \in Logins : login'[k].account = login[k].account
  BY <1>1, <1>2 DEF LoginsTyped, Login
<1>5. \A k \in Logins : k # l => login'[k] = login[k]
  BY <1>2 DEF LoginsTyped
<1> QED
  BY <1>3, <1>4, <1>5 DEF LoginsTyped, LoginAt, Account

LEMMA RespondTyped ==
  ASSUME LoginsTyped, StatesTyped, NEW l \in Logins, ~LoginAt(l, "new"),
         NEW s \in LoginSteps, Respond(l, s)
  PROVE  LoginsTyped' /\ StatesTyped'
BY StepTyped DEF Respond, StatesTyped

LEMMA GoTyped ==
  ASSUME RequestsTyped, NEW r \in Requests, NEW s \in RequestSteps, Go(r, s)
  PROVE  RequestsTyped'
BY DEF RequestsTyped, Go, Request

LEMMA GoneTyped ==
  ASSUME SessionsTyped, NEW l, Gone(l)
  PROVE  SessionsTyped'
BY DEF SessionsTyped, Gone

LEMMA NewSessionTyped ==
  ASSUME TypeOK, NEW l \in Logins, ~LoginAt(l, "new"),
         sessions' = [sessions EXCEPT ![l] = NewSession(l)]
  PROVE  SessionsTyped' /\ NewSession(l) \in Session
<1>1. Account(l) \in Accounts /\ restarts \in 0..MaxRestarts
  BY DEF TypeOK
<1>2. now + sessionTTL \in 0..(MaxTime + sessionTTL)
  BY SessionAssumption DEF TypeOK
<1>3. NewSession(l) \in Session
  BY <1>1, <1>2 DEF NewSession, Session
<1> QED
  BY <1>3 DEF TypeOK, SessionsTyped

LEMMA NewUserTyped ==
  ASSUME TypeOK, NEW l \in Logins, ~LoginAt(l, "new"), ~Conflict(l),
         users' = [users EXCEPT ![Account(l)] = login[l].claims.email]
  PROVE  UsersTyped' /\ login[l].claims.email \in Addresses
<1>1. Account(l) \in Accounts /\ login[l].claims.email \in Addresses
  BY DEF TypeOK, Login, Claims
<1>2. \A a \in Accounts \ {Account(l)} : users[a] # login[l].claims.email
  BY DEF Conflict
<1> QED
  BY <1>1, <1>2 DEF TypeOK, UsersTyped

LEMMA TypedStep == TypeOK /\ [Next]_vars => TypeOK'
<1> SUFFICES ASSUME TypeOK, [Next]_vars PROVE TypeOK'
  OBVIOUS
<1> USE Groups, SessionAssumption
<1>p. /\ UsersTyped' /\ SessionsTyped' /\ ProcessTyped' /\ FaultsTyped'
      /\ StatesTyped' /\ CookiesTyped' /\ LoginsTyped' /\ RequestsTyped'
      => TypeOK'
  BY DEF TypeOK, UsersTyped, SessionsTyped, ProcessTyped, FaultsTyped, StatesTyped, CookiesTyped,
    LoginsTyped, RequestsTyped
<1>a. ASSUME UNCHANGED users PROVE UsersTyped'
  BY <1>a DEF UsersTyped
<1>b. ASSUME UNCHANGED sessions PROVE SessionsTyped'
  BY <1>b DEF SessionsTyped
<1>c. ASSUME UNCHANGED process PROVE ProcessTyped'
  BY <1>c DEF ProcessTyped, process
<1>d. ASSUME UNCHANGED faults \/ Fault PROVE FaultsTyped'
  BY <1>d DEF FaultsTyped, Fault
<1>e. ASSUME UNCHANGED oauthState PROVE StatesTyped'
  BY <1>e DEF StatesTyped
<1>f. ASSUME UNCHANGED cookie PROVE CookiesTyped'
  BY <1>f DEF CookiesTyped
<1>g. ASSUME UNCHANGED login PROVE LoginsTyped'
  BY <1>g DEF LoginsTyped, LoginAt, Account
<1>h. ASSUME UNCHANGED request PROVE RequestsTyped'
  BY <1>h DEF RequestsTyped
<1>1. ASSUME NEW l \in Logins, InitiateGoogle(l) PROVE TypeOK'
  <2>1. PICK s \in Starts[l] :
          /\ login' = [login EXCEPT ![l].step = "started", ![l].account = s.account]
          /\ oauthState' = [oauthState EXCEPT ![s.browser] = l]
    BY <1>1 DEF InitiateGoogle
  <2>2. s.browser \in Browsers /\ s.account \in Accounts
    OBVIOUS
  <2> DEFINE e == [login[l] EXCEPT !.step = "started", !.account = s.account]
  <2>3. login[l] \in Login /\ login' = [login EXCEPT ![l] = e]
    BY <2>1 DEF LoginsTyped
  <2>4. e \in Login /\ e.account \in Accounts
    BY <2>2, <2>3 DEF Login, LoginSteps
  <2> HIDE DEF e
  <2>5. LoginsTyped'
    BY <2>3, <2>4 DEF LoginsTyped, LoginAt, Account
  <2>6. StatesTyped'
    BY <2>1 DEF StatesTyped
  <2> QED
    BY <1>p, <1>1, <1>a, <1>b, <1>c, <1>d, <1>f, <1>h, <2>5, <2>6 DEF InitiateGoogle, database
<1>2. ASSUME NEW l \in Logins, NEW b \in Browsers, CheckState(l, b) PROVE TypeOK'
  <2>1. PICK s \in {"exchange", "refused"} :
          login' = [login EXCEPT ![l].browser = b, ![l].step = s]
    BY <1>2 DEF CheckState
  <2> DEFINE e == [login[l] EXCEPT !.browser = b, !.step = s]
  <2>2. login[l] \in Login /\ login' = [login EXCEPT ![l] = e]
    BY <2>1 DEF LoginsTyped
  <2>3. e \in Login /\ e.account = login[l].account
    BY <2>2 DEF Login, LoginSteps, LoginOver
  <2> HIDE DEF e
  <2>4. Account(l) \in Accounts
    BY <1>2 DEF LoginsTyped, CheckState, LoginAt
  <2>5. LoginsTyped'
    BY <2>2, <2>3, <2>4 DEF LoginsTyped, LoginAt, Account
  <2> QED
    BY <1>p, <1>2, <1>a, <1>b, <1>c, <1>d, <1>e, <1>f, <1>h, <2>5 DEF CheckState, database, clients
<1>3. ASSUME NEW l \in Logins, Refuse(l) PROVE TypeOK'
  <2>1. LoginsTyped' /\ StatesTyped'
    BY <1>3, RespondTyped DEF Refuse, LoginAt, LoginSteps, LoginOver
  <2> QED
    BY <1>p, <1>3, <2>1, <1>a, <1>b, <1>c, <1>d, <1>f, <1>h DEF Refuse, database
<1>4. ASSUME NEW l \in Logins, Exchange(l) PROVE TypeOK'
  <2>1. Account(l) \in Accounts
    BY <1>4 DEF LoginsTyped, Exchange, LoginAt
  <2>2. PICK claims \in Profiles[Account(l)] :
          login' = [login EXCEPT ![l].step = "find", ![l].claims = claims]
    BY <1>4 DEF Exchange
  <2>3. claims \in Claims
    BY <2>1
  <2> DEFINE e == [login[l] EXCEPT !.step = "find", !.claims = claims]
  <2>4. login[l] \in Login /\ login' = [login EXCEPT ![l] = e]
    BY <2>2 DEF LoginsTyped
  <2>5. e \in Login /\ e.account = login[l].account
    BY <2>3, <2>4 DEF Login, LoginSteps
  <2> HIDE DEF e
  <2>6. LoginsTyped'
    BY <2>1, <2>4, <2>5 DEF LoginsTyped, LoginAt, Account
  <2> QED
    BY <1>p, <1>4, <1>a, <1>b, <1>c, <1>d, <1>e, <1>f, <1>h, <2>6 DEF Exchange, database, clients
<1>5. ASSUME NEW l \in Logins, FindUserByOAuth(l) PROVE TypeOK'
  <2>1. LoginsTyped'
    BY <1>5, StepTyped DEF FindUserByOAuth, LoginAt, LoginSteps
  <2> QED
    BY <1>p, <1>5, <2>1, <1>a, <1>b, <1>c, <1>d, <1>e, <1>f, <1>h DEF FindUserByOAuth, database, clients
<1>6. ASSUME NEW l \in Logins, WriteUser(l) PROVE TypeOK'
  <2>1. ~LoginAt(l, "new")
    BY <1>6 DEF WriteUser, LoginAt
  <2>2. UsersTyped'
    BY <1>6, <2>1, <1>a, NewUserTyped DEF WriteUser
  <2>3. LoginsTyped' /\ StatesTyped'
    BY <1>6, <2>1, <1>e, StepTyped, RespondTyped DEF WriteUser, LoginSteps, LoginOver
  <2> QED
    BY <1>p, <1>6, <2>2, <2>3, <1>b, <1>c, <1>d, <1>f, <1>h DEF WriteUser
<1>7. ASSUME NEW l \in Logins, CreateSession(l) PROVE TypeOK'
  <2>1. ~LoginAt(l, "new")
    BY <1>7 DEF CreateSession, LoginAt
  <2>2. SessionsTyped'
    BY <1>7, <2>1, NewSessionTyped DEF CreateSession
  <2>3. LoginsTyped'
    BY <1>7, <2>1, StepTyped DEF CreateSession, LoginSteps
  <2> QED
    BY <1>p, <1>7, <2>2, <2>3, <1>a, <1>c, <1>d, <1>e, <1>f, <1>h DEF CreateSession, clients
<1>8. ASSUME NEW l \in Logins, Redirect(l) PROVE TypeOK'
  <2>1. ~LoginAt(l, "new")
    BY <1>8 DEF Redirect, LoginAt
  <2>2. LoginsTyped' /\ StatesTyped'
    BY <1>8, <2>1, <1>e, StepTyped, RespondTyped DEF Redirect, clients, LoginSteps, LoginOver
  <2>3. CookiesTyped'
    BY <1>8, <1>f DEF Redirect, clients, CookiesTyped
  <2> QED
    BY <1>p, <1>8, <2>2, <2>3, <1>a, <1>b, <1>c, <1>d, <1>h DEF Redirect, database
<1>9. ASSUME NEW l \in Logins, LoginFails(l) PROVE TypeOK'
  <2>1. ~LoginAt(l, "new")
    BY <1>9 DEF LoginFails, LoginAt
  <2>2. LoginsTyped' /\ StatesTyped'
    BY <1>9, <2>1, RespondTyped DEF LoginFails, LoginSteps, LoginOver
  <2>3. UsersTyped'
    BY <1>9, <2>1, <1>a, NewUserTyped DEF LoginFails, database
  <2>4. SessionsTyped'
    BY <1>9, <2>1, <1>b, NewSessionTyped DEF LoginFails, database
  <2> QED
    BY <1>p, <1>9, <2>2, <2>3, <2>4, <1>c, <1>d, <1>f, <1>h DEF LoginFails
<1>10. ASSUME NEW r \in Requests, Send(r) PROVE TypeOK'
  <2>1. PICK c \in Calls, s \in RequestSteps : request' = [request EXCEPT ![r] =
          [op |-> c.op, browser |-> c.browser, token |-> cookie[c.browser], step |-> s]]
    BY <1>10 DEF Send, RequestSteps, RequestOver
  <2>2. c.browser \in Browsers /\ c.op \in {"api", "logout"} /\ cookie[c.browser] \in Logins \union {None}
    BY DEF CookiesTyped
  <2>3. [op |-> c.op, browser |-> c.browser, token |-> cookie[c.browser], step |-> s] \in Request
    BY <2>2 DEF Request
  <2>4. RequestsTyped'
    BY <2>1, <2>3 DEF RequestsTyped
  <2> QED
    BY <1>p, <1>10, <2>4, <1>a, <1>b, <1>c, <1>d, <1>e, <1>f, <1>g DEF Send, database, clients
<1>11. ASSUME NEW r \in Requests, ValidateSession(r) PROVE TypeOK'
  <2>1. RequestsTyped'
    BY <1>11, GoTyped DEF ValidateSession, RequestSteps, RequestOver
  <2> QED
    BY <1>p, <1>11, <2>1, <1>a, <1>b, <1>c, <1>d, <1>e, <1>f, <1>g DEF ValidateSession, database, clients
<1>12. ASSUME NEW r \in Requests, DropSession(r) PROVE TypeOK'
  <2>1. RequestsTyped'
    BY <1>12, GoTyped DEF DropSession, RequestSteps, RequestOver
  <2>2. SessionsTyped'
    BY <1>12, <1>b, GoneTyped DEF DropSession
  <2> QED
    BY <1>p, <1>12, <2>1, <2>2, <1>a, <1>c, <1>d, <1>e, <1>f, <1>g DEF DropSession, clients
<1>13. ASSUME NEW r \in Requests, Serve(r) PROVE TypeOK'
  <2>1. RequestsTyped'
    BY <1>13, GoTyped DEF Serve, RequestSteps, RequestOver
  <2> QED
    BY <1>p, <1>13, <2>1, <1>a, <1>b, <1>c, <1>d, <1>e, <1>f, <1>g DEF Serve, database, clients
<1>14. ASSUME NEW r \in Requests, ValidateFails(r) PROVE TypeOK'
  <2>1. RequestsTyped'
    BY <1>14, GoTyped DEF ValidateFails, RequestSteps, RequestOver
  <2> QED
    BY <1>p, <1>14, <2>1, <1>a, <1>b, <1>c, <1>d, <1>e, <1>f, <1>g DEF ValidateFails, database, clients
<1>i. ASSUME NEW r \in Requests, NEW s \in RequestSteps, LoggedOut(r, s)
      PROVE  RequestsTyped' /\ CookiesTyped'
  BY <1>i, GoTyped DEF LoggedOut, CookiesTyped
<1>15. ASSUME NEW r \in Requests, LogoutFinds(r) PROVE TypeOK'
  <2>1. RequestsTyped' /\ CookiesTyped'
    BY <1>15, <1>f, <1>i, GoTyped DEF LogoutFinds, RequestSteps, RequestOver
  <2> QED
    BY <1>p, <1>15, <2>1, <1>a, <1>b, <1>c, <1>d, <1>e, <1>g DEF LogoutFinds, database
<1>16. ASSUME NEW r \in Requests, LogoutDeletes(r) PROVE TypeOK'
  <2>1. RequestsTyped' /\ CookiesTyped'
    BY <1>16, <1>i DEF LogoutDeletes, RequestSteps, RequestOver
  <2>2. SessionsTyped'
    BY <1>16, GoneTyped DEF LogoutDeletes
  <2> QED
    BY <1>p, <1>16, <2>1, <2>2, <1>a, <1>c, <1>d, <1>e, <1>g DEF LogoutDeletes
<1>17. ASSUME NEW r \in Requests, LogoutFails(r) PROVE TypeOK'
  <2>1. RequestsTyped' /\ CookiesTyped'
    BY <1>17, <1>i DEF LogoutFails, RequestSteps, RequestOver
  <2>2. SessionsTyped'
    BY <1>17, <1>b, GoneTyped DEF LogoutFails
  <2> QED
    BY <1>p, <1>17, <2>1, <2>2, <1>a, <1>c, <1>d, <1>e, <1>g DEF LogoutFails
<1>18. CASE CleanupExpiredSessions
  <2>1. SessionsTyped'
    BY <1>18, <1>b DEF CleanupExpiredSessions, SessionsTyped
  <2> QED
    BY <1>p, <1>18, <2>1, <1>a, <1>c, <1>d, <1>e, <1>f, <1>g, <1>h DEF CleanupExpiredSessions, clients
<1>19. CASE Tick
  <2>1. ProcessTyped'
    BY <1>19 DEF Tick, ProcessTyped
  <2> QED
    BY <1>p, <1>19, <2>1, <1>a, <1>b, <1>d, <1>e, <1>f, <1>g, <1>h DEF Tick, database, clients
<1>20. CASE Restart
  <2>1. ProcessTyped'
    BY <1>20 DEF Restart, ProcessTyped
  <2>2. \A l \in Logins : \E s \in LoginSteps :
          /\ login'[l] = [login[l] EXCEPT !.step = s]
          /\ LoginAt(l, "new") \/ s # "new"
    BY <1>20 DEF Restart, LoginsTyped, LoginAt, Login, LoginSteps, LoginOver
  <2>3. \A l \in Logins : login'[l] \in Login /\ login'[l].account = login[l].account
                           /\ (LoginAt(l, "new") \/ login'[l].step # "new")
    <3> SUFFICES ASSUME NEW l \in Logins
                 PROVE  /\ login'[l] \in Login /\ login'[l].account = login[l].account
                        /\ (LoginAt(l, "new") \/ login'[l].step # "new")
      OBVIOUS
    <3>1. login[l] \in Login
      BY DEF LoginsTyped
    <3>2. PICK s \in LoginSteps : /\ login'[l] = [login[l] EXCEPT !.step = s]
                                  /\ LoginAt(l, "new") \/ s # "new"
      BY <2>2
    <3>3. login'[l] \in Login /\ login'[l].account = login[l].account /\ login'[l].step = s
      BY <3>1, <3>2 DEF Login
    <3> QED
      BY <3>2, <3>3
  <2>4. login' \in [Logins -> Login]
    BY <1>20, <2>3 DEF Restart
  <2>5. LoginsTyped'
    <3>1. \A l \in Logins : login'[l].step = "new" \/ login'[l].account \in Accounts
      BY <1>20, <2>3 DEF LoginsTyped, LoginAt, Account, Restart, Login, LoginOver
    <3> QED
      BY <2>4, <3>1 DEF LoginsTyped, LoginAt, Account
  <2>6. \A r \in Requests : \E s \in RequestSteps : request'[r] = [request[r] EXCEPT !.step = s]
    BY <1>20 DEF Restart, RequestsTyped, Request, RequestSteps, RequestOver
  <2>7. \A r \in Requests : request'[r] \in Request
    <3> SUFFICES ASSUME NEW r \in Requests
                 PROVE  request'[r] \in Request
      OBVIOUS
    <3>1. request[r] \in Request
      BY DEF RequestsTyped
    <3>2. PICK s \in RequestSteps : request'[r] = [request[r] EXCEPT !.step = s]
      BY <2>6
    <3> QED
      BY <3>1, <3>2 DEF Request
  <2>8. RequestsTyped'
    BY <1>20, <2>7 DEF Restart, RequestsTyped
  <2> QED
    BY <1>p, <1>20, <2>1, <2>5, <2>8, <1>a, <1>b, <1>d, <1>e, <1>f DEF Restart, database, clients
<1>21. CASE UNCHANGED vars
  BY <1>21, <1>p, <1>a, <1>b, <1>c, <1>d, <1>e, <1>f, <1>g, <1>h DEF vars, process
<1>22. CASE Finished
  BY <1>21, <1>22 DEF Finished
<1> QED
  BY <1>1, <1>2, <1>3, <1>4, <1>5, <1>6, <1>7, <1>8, <1>9, <1>10, <1>11, <1>12, <1>13,
     <1>14, <1>15, <1>16, <1>17, <1>18, <1>19, <1>20, <1>21, <1>22 DEF Next

(* Every state is typed, and no two accounts have one address
   (postgres_repository.go 62-98). *)
THEOREM Typed == Spec => []TypeOK
  BY TypedInit, TypedStep, PTL DEF Spec

------------------------------------------------------------------------------
(* Why sessions of the running configuration stay valid: sign-ins under way
   have passed its allowlist, an account's stored email only changes to one that
   did, and a request drops only what had expired when it looked. *)
Stored(a) == users[a] # None /\ AllowsEmail(allowlist, users[a])
Done == LoginOver \union {"redirect"}

LoginFresh ==
  \A l \in Logins :
    /\ login[l].step \in {"find", "create", "update"} =>
         AllowsEmail(allowlist, login[l].claims.email)
    /\ LoginAt(l, "session") => Stored(Account(l))
SessionFresh ==
  \A l \in Logins : Live(l) =>
    /\ login[l].step \in Done /\ sessions[l].run <= restarts
    /\ sessions[l].run = restarts => Stored(sessions[l].account)
TokensIssued ==
  /\ \A b \in Browsers : cookie[b] # None => LoginAt(cookie[b], "ok")
  /\ \A r \in Requests : Token(r) # None => LoginAt(Token(r), "ok")
Due(r) ==
  Token(r) # None /\ Live(Token(r)) /\ sessions[Token(r)].run = restarts =>
    sessions[Token(r)].expires < now
DropsDue == \A r \in Requests : RequestAt(r, "api", "drop") => Due(r)

FreshInv == TypeOK /\ LoginFresh /\ SessionFresh /\ TokensIssued /\ DropsDue

(* What most steps keep. *)
StoredStays == \A a \in Accounts : Stored(a) => Stored(a)'
DoneStays ==
  \A l \in Logins :
    /\ login[l].step \in Done => login'[l].step \in Done
    /\ LoginAt(l, "ok") => LoginAt(l, "ok")'
SessionsShrink == \A l \in Logins : sessions'[l] = sessions[l] \/ ~Live(l)'

LEMMA SessionFreshKept ==
  ASSUME SessionFresh, TypeOK, StoredStays, DoneStays, SessionsShrink, UNCHANGED restarts
  PROVE  SessionFresh'
<1> SUFFICES ASSUME NEW l \in Logins, Live(l)'
             PROVE  /\ login'[l].step \in Done /\ sessions'[l].run <= restarts'
                    /\ sessions'[l].run = restarts' => Stored(sessions[l].account)'
  BY DEF SessionFresh
<1>1. sessions'[l] = sessions[l] /\ Live(l)
  BY DEF SessionsShrink, Live
<1>2. sessions[l].account \in Accounts
  BY <1>1 DEF TypeOK, Live, Session
<1> QED
  BY <1>1, <1>2 DEF SessionFresh, DoneStays, StoredStays

LEMMA DropsDueKept ==
  ASSUME DropsDue, TypeOK, SessionsShrink, UNCHANGED <<restarts, request>>,
         now' = now \/ now' = now + 1
  PROVE  DropsDue'
<1> SUFFICES ASSUME NEW r \in Requests, RequestAt(r, "api", "drop")', Token(r) # None,
                    Token(r)' = Token(r)
             PROVE  Due(r)'
  BY DEF DropsDue, Due, Token
<1>1. Token(r)' = Token(r) /\ Due(r)
  BY DEF DropsDue, RequestAt, Token
<1>2. PICK t \in Logins : t = Token(r)
  BY DEF TypeOK, Request, Token
<1>3. Live(t) /\ sessions[t].run = restarts => sessions[t].expires < now
  BY <1>1, <1>2 DEF Due
<1>4. ASSUME Live(t)', sessions'[t].run = restarts' PROVE sessions'[t].expires < now'
  <2>1. sessions'[t] = sessions[t] /\ Live(t) /\ sessions[t].expires < now
    BY <1>3, <1>4 DEF SessionsShrink, Live
  <2>2. sessions[t].expires \in Int /\ now \in Int
    BY <2>1, SessionAssumption DEF TypeOK, Live, Session
  <2> QED
    BY <2>1, <2>2
<1> QED
  BY <1>1, <1>2, <1>3, <1>4 DEF Due

LEMMA TokensKept ==
  ASSUME TokensIssued, TypeOK, DoneStays, UNCHANGED request,
         \A b \in Browsers : cookie'[b] \in {None, cookie[b]} \/ login'[cookie'[b]].step = "ok"
  PROVE  TokensIssued'
<1>1. \A b \in Browsers : cookie'[b] # None => login'[cookie'[b]].step = "ok"
  BY DEF TokensIssued, TypeOK, DoneStays, LoginAt
<1>2. ASSUME NEW r \in Requests, Token(r) # None
      PROVE  login'[Token(r)].step = "ok"
  BY <1>2 DEF TokensIssued, TypeOK, Request, DoneStays, Token, LoginAt
<1>3. \A r \in Requests : Token(r)' = Token(r)
  BY DEF Token
<1> QED
  BY <1>1, <1>2, <1>3 DEF TokensIssued, LoginAt

LEMMA LoginFreshKept ==
  ASSUME LoginFresh, TypeOK, StoredStays, UNCHANGED <<login, allowlist>>
  PROVE  LoginFresh'
BY DEF LoginFresh, StoredStays, TypeOK, LoginAt, Account

(* A sign-in takes a step; the others stay as they are. *)
LEMMA OneLogin ==
  ASSUME LoginFresh, TypeOK, StoredStays, UNCHANGED allowlist, NEW l \in Logins,
         \A k \in Logins : k # l => login'[k] = login[k],
         login[l].step \notin Done,
         login'[l].step \in {"find", "create", "update"} =>
           AllowsEmail(allowlist, login'[l].claims.email),
         LoginAt(l, "session")' => Stored(Account(l))'
  PROVE  LoginFresh' /\ DoneStays
<1>1. DoneStays
  BY DEF DoneStays, LoginAt, Done, LoginOver
<1>2. ASSUME NEW k \in Logins, k # l
      PROVE  /\ login'[k].step \in {"find", "create", "update"} =>
                  AllowsEmail(allowlist', login'[k].claims.email)
             /\ LoginAt(k, "session")' => Stored(Account(k))'
  <2>1. login'[k] = login[k]
    BY <1>2
  <2>2. LoginAt(k, "session") => Account(k) \in Accounts
    BY DEF TypeOK, LoginAt
  <2> QED
    BY <2>1, <2>2 DEF LoginFresh, StoredStays, LoginAt, Account
<1>3. /\ login'[l].step \in {"find", "create", "update"} =>
           AllowsEmail(allowlist', login'[l].claims.email)
      /\ LoginAt(l, "session")' => Stored(Account(l))'
  OBVIOUS
<1>4. LoginFresh'
  BY <1>2, <1>3 DEF LoginFresh
<1> QED
  BY <1>1, <1>4

LEMMA OneStep ==
  ASSUME TypeOK, NEW l \in Logins, NEW s, Step(l, s)
  PROVE  /\ \A k \in Logins : k # l => login'[k] = login[k]
         /\ login'[l].step = s /\ login'[l].claims = login[l].claims
         /\ login'[l].account = login[l].account
<1>1. login[l] \in Login /\ login' = [login EXCEPT ![l] = [login[l] EXCEPT !.step = s]]
  BY DEF TypeOK, Step
<1> QED
  BY <1>1 DEF TypeOK, Login

(* A request that takes a step that does not lead to a drop. *)
LEMMA OneGo ==
  ASSUME TypeOK, TokensIssued, DropsDue, NEW r \in Requests, NEW s, Go(r, s),
         s = "drop" => Due(r),
         UNCHANGED <<restarts, now, login>>, SessionsShrink, DropsDue,
         \A b \in Browsers : cookie'[b] \in {None, cookie[b]}
  PROVE  TokensIssued' /\ DropsDue'
<1>1. request[r] \in Request /\ request' = [request EXCEPT ![r] = [request[r] EXCEPT !.step = s]]
  BY DEF TypeOK, Go
<1>2. \A q \in Requests : Token(q)' = Token(q)
  BY <1>1 DEF TypeOK, Request, Token
<1>3. TokensIssued'
  <2>1. \A b \in Browsers : cookie'[b] # None => login'[cookie'[b]].step = "ok"
    BY DEF TokensIssued, TypeOK, LoginAt
  <2>2. \A q \in Requests : Token(q) # None => login'[Token(q)].step = "ok"
    BY DEF TokensIssued, LoginAt
  <2> QED
    BY <1>2, <2>1, <2>2 DEF TokensIssued, LoginAt
<1>4. ASSUME NEW q \in Requests, RequestAt(q, "api", "drop")' PROVE Due(q)'
  <2>1. Due(q)
    <3>1. CASE q = r
      <4>1. s = "drop"
        BY <1>1, <1>4, <3>1 DEF TypeOK, Request, RequestAt
      <4> QED
        BY <3>1, <4>1
    <3>2. CASE q # r
      BY <1>1, <1>4, <3>2 DEF TypeOK, RequestAt, DropsDue
    <3> QED
      BY <3>1, <3>2
  <2>a. CASE Token(q) = None
    BY <1>2, <2>a DEF Due
  <2> SUFFICES ASSUME Token(q) # None PROVE Due(q)'
    BY <2>a
  <2>2. PICK t \in Logins : t = Token(q)
    BY DEF TypeOK, Request, Token
  <2>3. Live(t) /\ sessions[t].run = restarts => sessions[t].expires < now
    BY <2>1, <2>2 DEF Due
  <2>4. ASSUME Live(t)', sessions'[t].run = restarts' PROVE sessions'[t].expires < now'
    BY <2>3, <2>4 DEF SessionsShrink, Live
  <2> QED
    BY <1>2, <2>2, <2>3, <2>4 DEF Due
<1> QED
  BY <1>3, <1>4 DEF DropsDue

LEMMA NewEmail ==
  ASSUME TypeOK, LoginFresh, UNCHANGED allowlist, NEW l \in Logins,
         login[l].step \in {"create", "update"},
         users' = [users EXCEPT ![Account(l)] = login[l].claims.email]
  PROVE  /\ StoredStays
         /\ users'[login[l].account] # None /\ AllowsEmail(allowlist', users'[login[l].account])
<1>1. /\ Account(l) \in Accounts /\ login[l].claims.email \in Addresses
      /\ AllowsEmail(allowlist, login[l].claims.email)
  BY DEF TypeOK, Login, Claims, LoginAt, LoginFresh
<1>2. login[l].claims.email # None
  BY <1>1, SessionAssumption
<1>3. PICK a \in Accounts : a = Account(l)
  BY <1>1
<1>4. users'[a] # None /\ AllowsEmail(allowlist', users'[a])
  BY <1>1, <1>2, <1>3 DEF TypeOK
<1>5. \A b \in Accounts : b # a => users'[b] = users[b]
  BY <1>3 DEF TypeOK
<1>6. StoredStays
  BY <1>4, <1>5 DEF StoredStays, Stored
<1> QED
  BY <1>3, <1>4, <1>6 DEF Account

(* A login's session comes to be, of the account whose row it wrote. *)
LEMMA SessionMade ==
  ASSUME FreshInv, NEW l \in Logins, LoginAt(l, "session"), NEW s \in Done, Step(l, s),
         sessions' = [sessions EXCEPT ![l] = NewSession(l)],
         UNCHANGED <<users, allowlist, restarts>>
  PROVE  SessionFresh' /\ LoginFresh' /\ DoneStays
<1> USE DEF FreshInv
<1>1. StoredStays
  BY DEF StoredStays, Stored
<1>2. LoginFresh' /\ DoneStays
  BY <1>1, OneStep, OneLogin DEF LoginAt, Done, LoginOver
<1>3. ASSUME NEW k \in Logins, Live(k)'
      PROVE  /\ login'[k].step \in Done /\ sessions'[k].run <= restarts'
             /\ sessions'[k].run = restarts' =>
                  users'[sessions'[k].account] # None /\ AllowsEmail(allowlist', users'[sessions'[k].account])
  <2>1. CASE k = l
    <3>1. sessions'[k].account = Account(l) /\ sessions'[k].run = restarts
      BY <2>1 DEF TypeOK, NewSession
    <3>2. Stored(Account(l)) /\ login'[k].step = s
      BY <2>1, OneStep DEF LoginFresh
    <3>3. restarts \in Int
      BY DEF TypeOK
    <3> QED
      BY <3>1, <3>2, <3>3 DEF Stored
  <2>2. CASE k # l
    <3>1. sessions'[k] = sessions[k] /\ login'[k] = login[k]
      BY <2>2, OneStep DEF TypeOK
    <3> QED
      BY <1>3, <3>1 DEF SessionFresh, Live, Stored
  <2> QED
    BY <2>1, <2>2
<1> QED
  BY <1>2, <1>3 DEF SessionFresh, Stored

(* The session of a sign-in that has none yet is no request's token. *)
LEMMA DropsDueNew ==
  ASSUME FreshInv, NEW l \in Logins, LoginAt(l, "session"), NEW e,
         sessions' = [sessions EXCEPT ![l] = e], UNCHANGED <<now, restarts, request>>
  PROVE  DropsDue'
<1> USE DEF FreshInv
<1> SUFFICES ASSUME NEW r \in Requests, RequestAt(r, "api", "drop")', Token(r) # None,
                    Token(r)' = Token(r)
             PROVE  Due(r)'
  BY DEF DropsDue, Due, Token
<1>1. Token(r)' = Token(r) /\ Due(r)
  BY DEF DropsDue, RequestAt, Token
<1>2. Token(r) # l
  BY DEF TokensIssued, LoginAt
<1>3. PICK t \in Logins : t = Token(r)
  BY DEF TypeOK, Request, Token
<1>4. sessions'[t] = sessions[t]
  BY <1>2, <1>3 DEF TypeOK
<1> QED
  BY <1>1, <1>3, <1>4 DEF Due, Live

LEMMA FreshInit == Init => FreshInv
<1> SUFFICES ASSUME Init PROVE FreshInv
  OBVIOUS
<1>1. TypeOK
  BY TypedInit
<1>2. \A l \in Logins : login[l].step = "new" /\ ~Live(l)
  BY DEF Init, NewLogin, Live
<1>3. \A b \in Browsers : cookie[b] = None
  BY DEF Init
<1>4. \A r \in Requests : request[r].step = "new" /\ Token(r) = None
  BY DEF Init, Token
<1> QED
  BY <1>1, <1>2, <1>3, <1>4 DEF FreshInv, LoginFresh, LoginAt, SessionFresh, TokensIssued, DropsDue,
     RequestAt

LEMMA FreshStep == FreshInv /\ [Next]_vars => FreshInv'
<1> SUFFICES ASSUME FreshInv, [Next]_vars PROVE FreshInv'
  OBVIOUS
<1> USE DEF FreshInv
<1>t. TypeOK'
  BY TypedStep
<1>a. UNCHANGED <<users, allowlist>> => StoredStays
  BY DEF StoredStays, Stored
<1>b. UNCHANGED sessions => SessionsShrink
  BY DEF SessionsShrink
<1>c. UNCHANGED login => DoneStays
  BY DEF DoneStays, LoginAt
<1>d. UNCHANGED cookie => \A b \in Browsers : cookie'[b] \in {None, cookie[b]}
  OBVIOUS
(* A step of a login under way that makes no session and changes no email. *)
<1>l. ASSUME NEW l \in Logins, login[l].step \notin Done,
             \A k \in Logins : k # l => login'[k] = login[k],
             login'[l].step \in {"find", "create", "update"} =>
               AllowsEmail(allowlist, login'[l].claims.email),
             LoginAt(l, "session")' => Stored(Account(l))',
             StoredStays, UNCHANGED <<process, sessions, cookie, request>>
      PROVE  FreshInv'
  <2>1. LoginFresh' /\ DoneStays
    BY <1>l, OneLogin DEF process
  <2>2. SessionFresh'
    BY <1>l, <1>b, <2>1, SessionFreshKept DEF process
  <2>3. TokensIssued'
    BY <1>l, <1>d, <2>1, TokensKept
  <2>4. DropsDue'
    BY <1>l, <1>b, DropsDueKept DEF process
  <2> QED
    BY <1>t, <2>1, <2>2, <2>3, <2>4
<1>1. ASSUME NEW l \in Logins, InitiateGoogle(l) PROVE FreshInv'
  <2>1. /\ \A k \in Logins : k # l => login'[k] = login[k]
        /\ login[l].step = "new" /\ login'[l].step = "started"
    BY <1>1 DEF InitiateGoogle, LoginAt, TypeOK, Login
  <2> QED
    BY <1>1, <2>1, <1>a, <1>l DEF InitiateGoogle, database, process, Done, LoginOver, LoginAt
<1>2. ASSUME NEW l \in Logins, NEW b \in Browsers, CheckState(l, b) PROVE FreshInv'
  <2>1. /\ \A k \in Logins : k # l => login'[k] = login[k]
        /\ login[l].step = "started" /\ login'[l].step \in {"exchange", "refused"}
    BY <1>2 DEF CheckState, LoginAt, TypeOK, Login
  <2> QED
    BY <1>2, <2>1, <1>a, <1>l DEF CheckState, database, process, clients, Done, LoginOver, LoginAt
<1>3. ASSUME NEW l \in Logins, Refuse(l) PROVE FreshInv'
  <2>1. /\ \A k \in Logins : k # l => login'[k] = login[k]
        /\ login[l].step = "exchange" /\ login'[l].step = "refused"
    BY <1>3, OneStep DEF Refuse, Respond, LoginAt
  <2> QED
    BY <1>3, <2>1, <1>a, <1>l DEF Refuse, database, process, Done, LoginOver, LoginAt
<1>4. ASSUME NEW l \in Logins, Exchange(l) PROVE FreshInv'
  <2>1. PICK claims : /\ AllowsLogin(allowlist, claims)
                      /\ login' = [login EXCEPT ![l].step = "find", ![l].claims = claims]
    BY <1>4 DEF Exchange
  <2>2. AllowsEmail(allowlist, claims.email)
    BY <2>1, LoginsMayStay
  <2>3. /\ \A k \in Logins : k # l => login'[k] = login[k]
        /\ login[l].step = "exchange" /\ login'[l].step = "find" /\ login'[l].claims = claims
    BY <1>4, <2>1 DEF Exchange, LoginAt, TypeOK, Login
  <2> QED
    BY <1>4, <2>2, <2>3, <1>a, <1>l DEF Exchange, database, process, clients, Done, LoginOver, LoginAt
<1>5. ASSUME NEW l \in Logins, FindUserByOAuth(l) PROVE FreshInv'
  <2>1. /\ \A k \in Logins : k # l => login'[k] = login[k]
        /\ login[l].step = "find" /\ login'[l].step \in {"create", "update"}
        /\ login'[l].claims = login[l].claims
    BY <1>5, OneStep DEF FindUserByOAuth, LoginAt
  <2>2. AllowsEmail(allowlist, login'[l].claims.email)
    BY <2>1 DEF LoginFresh
  <2> QED
    BY <1>5, <2>1, <2>2, <1>a, <1>l
       DEF FindUserByOAuth, database, process, clients, Done, LoginOver, LoginAt
<1>6. ASSUME NEW l \in Logins, WriteUser(l) PROVE FreshInv'
  <2>1. login[l].step \in {"create", "update"}
    BY <1>6 DEF WriteUser, LoginAt
  <2>2. CASE Conflict(l)
    <3>1. Step(l, "error") /\ UNCHANGED users
      BY <1>6, <2>2 DEF WriteUser, Respond
    <3> QED
      BY <1>6, <2>1, <3>1, <1>a, <1>l, OneStep DEF WriteUser, process, Done, LoginOver, LoginAt
  <2>3. CASE ~Conflict(l)
    <3>1. Step(l, "session") /\ users' = [users EXCEPT ![Account(l)] = login[l].claims.email]
      BY <1>6, <2>3 DEF WriteUser
    <3>2. /\ StoredStays
          /\ users'[login[l].account] # None /\ AllowsEmail(allowlist', users'[login[l].account])
      BY <1>6, <2>1, <3>1, NewEmail DEF WriteUser, process
    <3>3. login'[l].account = login[l].account /\ login'[l].step = "session"
          /\ \A k \in Logins : k # l => login'[k] = login[k]
      BY <3>1, OneStep
    <3>4. Stored(Account(l))'
      BY <3>2, <3>3 DEF Stored, Account
    <3> QED
      BY <1>6, <2>1, <3>2, <3>3, <3>4, <1>l DEF WriteUser, process, Done, LoginOver
  <2> QED
    BY <2>2, <2>3
<1>7. ASSUME NEW l \in Logins, CreateSession(l) PROVE FreshInv'
  <2>1. SessionFresh' /\ LoginFresh' /\ DoneStays
    BY <1>7, SessionMade DEF CreateSession, process, Done
  <2>2. TokensIssued'
    BY <1>7, <2>1, <1>d, TokensKept DEF CreateSession, clients
  <2>3. DropsDue'
    BY <1>7, DropsDueNew DEF CreateSession, process
  <2> QED
    BY <1>t, <2>1, <2>2, <2>3
<1>8. ASSUME NEW l \in Logins, Redirect(l) PROVE FreshInv'
  <2>1. PICK s \in {"ok", "lost"} : Step(l, s) /\ (s = "lost" => UNCHANGED cookie)
          /\ (s = "ok" => cookie' = [cookie EXCEPT ![login[l].browser] = l])
    BY <1>8 DEF Redirect, Respond, clients
  <2>2. /\ \A k \in Logins : k # l => login'[k] = login[k]
        /\ login[l].step = "redirect" /\ login'[l].step = s
    BY <1>8, <2>1, OneStep DEF Redirect, LoginAt
  <2>3. LoginFresh' /\ DoneStays
    <3>1. StoredStays /\ UNCHANGED allowlist
      BY <1>8, <1>a DEF Redirect, database, process
    <3>2. DoneStays
      BY <2>2 DEF DoneStays, LoginAt, Done, LoginOver
    <3>3. LoginFresh'
      BY <2>2, <3>1 DEF LoginFresh, LoginAt, Account, StoredStays, TypeOK
    <3> QED
      BY <3>2, <3>3
  <2>4. SessionFresh'
    BY <1>8, <1>a, <1>b, <2>3, SessionFreshKept DEF Redirect, database, process
  <2>5. \A b \in Browsers : cookie'[b] \in {None, cookie[b]} \/ login'[cookie'[b]].step = "ok"
    BY <2>1, <2>2 DEF TypeOK
  <2>6. TokensIssued'
    BY <1>8, <2>3, <2>5, TokensKept DEF Redirect
  <2>7. DropsDue'
    BY <1>8, <1>b, DropsDueKept DEF Redirect, database, process
  <2> QED
    BY <1>t, <2>3, <2>4, <2>6, <2>7
<1>9. ASSUME NEW l \in Logins, LoginFails(l) PROVE FreshInv'
  <2>1. login[l].step \in {"find", "create", "update", "session"} /\ Step(l, "fault")
    BY <1>9 DEF LoginFails, Respond
  <2>2. /\ \A k \in Logins : k # l => login'[k] = login[k]
        /\ login'[l].step = "fault"
    BY <2>1, OneStep
  <2>3. CASE UNCHANGED database
    BY <1>9, <2>1, <2>2, <2>3, <1>a, <1>l
       DEF LoginFails, database, process, Done, LoginOver, LoginAt
  <2>4. CASE /\ login[l].step \in {"create", "update"}
             /\ users' = [users EXCEPT ![Account(l)] = login[l].claims.email]
             /\ UNCHANGED sessions
    <3>1. StoredStays
      BY <1>9, <2>4, NewEmail DEF LoginFails, process
    <3> QED
      BY <1>9, <2>1, <2>2, <2>4, <3>1, <1>l DEF LoginFails, process, Done, LoginOver, LoginAt
  <2>5. CASE /\ LoginAt(l, "session")
             /\ sessions' = [sessions EXCEPT ![l] = NewSession(l)]
             /\ UNCHANGED users
    <3>1. SessionFresh' /\ LoginFresh' /\ DoneStays
      BY <1>9, <2>1, <2>5, SessionMade DEF LoginFails, process, Done, LoginOver
    <3>2. TokensIssued'
      BY <1>9, <3>1, <1>d, TokensKept DEF LoginFails
    <3>3. DropsDue'
      BY <1>9, <2>5, DropsDueNew DEF LoginFails, process
    <3> QED
      BY <1>t, <3>1, <3>2, <3>3
  <2> QED
    BY <1>9, <2>3, <2>4, <2>5 DEF LoginFails
(* A request's step. *)
<1>r. ASSUME NEW r \in Requests, NEW s, Go(r, s), s = "drop" => Due(r),
             SessionsShrink, UNCHANGED <<users, process, login>>,
             \A b \in Browsers : cookie'[b] \in {None, cookie[b]}
      PROVE  FreshInv'
  <2>1. StoredStays /\ DoneStays
    BY <1>r, <1>a, <1>c DEF process
  <2>2. LoginFresh' /\ SessionFresh'
    BY <1>r, <2>1, LoginFreshKept, SessionFreshKept DEF process
  <2>3. TokensIssued' /\ DropsDue'
    BY <1>r, OneGo DEF process
  <2> QED
    BY <1>t, <2>2, <2>3
<1>g. ASSUME NEW l, Gone(l) PROVE SessionsShrink
  BY <1>g DEF Gone, SessionsShrink, Live, TypeOK
<1>o. ASSUME NEW r \in Requests, NEW s, LoggedOut(r, s)
      PROVE  Go(r, s) /\ \A b \in Browsers : cookie'[b] \in {None, cookie[b]}
  BY <1>o DEF LoggedOut, TypeOK
<1>10. ASSUME NEW r \in Requests, Send(r) PROVE FreshInv'
  <2>1. StoredStays /\ DoneStays /\ SessionsShrink
    BY <1>10, <1>a, <1>b, <1>c DEF Send, process, database
  <2>2. LoginFresh' /\ SessionFresh'
    BY <1>10, <2>1, LoginFreshKept, SessionFreshKept DEF Send, process
  <2>3. PICK c \in Calls, s \in {"find", "unauthorized"} :
          request' = [request EXCEPT ![r] =
            [op |-> c.op, browser |-> c.browser, token |-> cookie[c.browser], step |-> s]]
    BY <1>10 DEF Send
  <2>4. /\ \A q \in Requests : q # r => request'[q] = request[q]
        /\ request'[r].token = cookie[c.browser] /\ request'[r].step # "drop"
    BY <2>3 DEF TypeOK
  <2>5. TokensIssued'
    <3>1. c.browser \in Browsers
      BY SessionAssumption
    <3>2. UNCHANGED <<cookie, login>>
      BY <1>10 DEF Send, clients
    <3>3. \A b \in Browsers : cookie[b] # None => login[cookie[b]].step = "ok"
      BY DEF TokensIssued, LoginAt
    <3>4. \A q \in Requests : request'[q].token # None => login[request'[q].token].step = "ok"
      BY <2>4, <3>1, <3>3 DEF TokensIssued, Token, LoginAt
    <3> QED
      BY <3>2, <3>3, <3>4 DEF TokensIssued, Token, LoginAt
  <2>6. DropsDue'
    <3>1. UNCHANGED <<sessions, restarts, now>>
      BY <1>10 DEF Send, database, process
    <3> QED
      BY <2>4, <3>1 DEF DropsDue, RequestAt, Due, Token, Live
  <2> QED
    BY <1>t, <2>2, <2>5, <2>6
<1>11. ASSUME NEW r \in Requests, ValidateSession(r) PROVE FreshInv'
  <2>1. ASSUME Token(r) # None, Live(Token(r)), ~Valid(Token(r)),
               sessions[Token(r)].run = restarts
        PROVE  sessions[Token(r)].expires < now
    <3>1. PICK t \in Logins : t = Token(r)
      BY <2>1 DEF TypeOK, Request, Token
    <3>2. sessions[t].expires \in Int /\ now \in Int
      BY <2>1, <3>1, SessionAssumption DEF TypeOK, Live, Session
    <3>3. AllowsEmail(allowlist, users[sessions[t].account])
      BY <2>1, <3>1 DEF SessionFresh, Stored
    <3>4. ~(now <= sessions[t].expires)
      BY <2>1, <3>1, <3>3 DEF Valid
    <3> QED
      BY <3>1, <3>2, <3>4
  <2>2. PICK s : Go(r, s) /\ (s = "drop" => Live(Token(r)) /\ ~Valid(Token(r)))
    BY <1>11 DEF ValidateSession
  <2>3. s = "drop" => Due(r)
    BY <2>1, <2>2 DEF Due
  <2> QED
    BY <1>11, <2>2, <2>3, <1>b, <1>d, <1>r DEF ValidateSession, database, clients
<1>12. ASSUME NEW r \in Requests, DropSession(r) PROVE FreshInv'
  BY <1>12, <1>b, <1>d, <1>g, <1>r DEF DropSession, clients
<1>13. ASSUME NEW r \in Requests, Serve(r) PROVE FreshInv'
  BY <1>13, <1>b, <1>d, <1>r DEF Serve, database, clients
<1>14. ASSUME NEW r \in Requests, ValidateFails(r) PROVE FreshInv'
  BY <1>14, <1>b, <1>d, <1>r DEF ValidateFails, database, clients
<1>15. ASSUME NEW r \in Requests, LogoutFinds(r) PROVE FreshInv'
  <2>1. CASE Token(r) # None /\ Live(Token(r))
    BY <1>15, <2>1, <1>b, <1>d, <1>r DEF LogoutFinds, database
  <2>2. CASE ~(Token(r) # None /\ Live(Token(r)))
    BY <1>15, <2>2, <1>b, <1>o, <1>r DEF LogoutFinds, database
  <2> QED
    BY <2>1, <2>2
<1>16. ASSUME NEW r \in Requests, LogoutDeletes(r) PROVE FreshInv'
  BY <1>16, <1>g, <1>o, <1>r DEF LogoutDeletes
<1>17. ASSUME NEW r \in Requests, LogoutFails(r) PROVE FreshInv'
  BY <1>17, <1>b, <1>g, <1>o, <1>r DEF LogoutFails
(* Neither a login nor a request takes a step. *)
<1>n. ASSUME SessionsShrink, now' = now \/ now' = now + 1,
             UNCHANGED <<users, restarts, allowlist, cookie, login, request>>
      PROVE  FreshInv'
  <2>1. StoredStays /\ DoneStays
    BY <1>n, <1>a, <1>c
  <2>2. LoginFresh' /\ SessionFresh'
    BY <1>n, <2>1, LoginFreshKept, SessionFreshKept
  <2>3. TokensIssued' /\ DropsDue'
    BY <1>n, <2>1, <1>d, TokensKept, DropsDueKept
  <2> QED
    BY <1>t, <2>2, <2>3
<1>18. CASE CleanupExpiredSessions
  <2>1. SessionsShrink
    BY <1>18, <1>b DEF CleanupExpiredSessions, SessionsShrink, Live
  <2> QED
    BY <1>18, <2>1, <1>n DEF CleanupExpiredSessions, process, clients
<1>19. CASE Tick
  BY <1>19, <1>b, <1>n DEF Tick, database, clients
<1>20. CASE Restart
  <2>1. restarts' = restarts + 1 /\ restarts \in Int /\ UNCHANGED <<sessions, cookie>>
    BY <1>20 DEF Restart, database, clients, TypeOK
  <2>2. \A l \in Logins :
          /\ login'[l].step \notin {"find", "create", "update", "session"}
          /\ login[l].step \in Done => login'[l].step \in Done
          /\ LoginAt(l, "ok") => login'[l].step = "ok"
    BY <1>20 DEF Restart, LoginAt, Done, LoginOver, TypeOK, Login
  <2>3. \A r \in Requests : Token(r)' = Token(r) /\ request'[r].step # "drop"
    BY <1>20 DEF Restart, Token, RequestOver, TypeOK, Request
  <2>4. LoginFresh'
    BY <2>2 DEF LoginFresh, LoginAt
  <2>5. SessionFresh'
    <3>1. ASSUME NEW l \in Logins, Live(l)
          PROVE  sessions[l].run <= restarts' /\ sessions[l].run # restarts'
      <4>1. sessions[l].run \in Int /\ sessions[l].run <= restarts
        BY <3>1 DEF SessionFresh, TypeOK, Live, Session
      <4> QED
        BY <2>1, <4>1
    <3> QED
      BY <2>1, <2>2, <3>1 DEF SessionFresh, Live
  <2>6. TokensIssued'
    <3>1. \A b \in Browsers : cookie[b] # None => login'[cookie[b]].step = "ok"
      BY <2>2 DEF TokensIssued, TypeOK
    <3>2. \A r \in Requests : Token(r) # None => login'[Token(r)].step = "ok"
      BY <2>2 DEF TokensIssued, TypeOK, Request, Token
    <3> QED
      BY <2>1, <2>3, <3>1, <3>2 DEF TokensIssued, LoginAt
  <2>7. DropsDue'
    BY <2>3 DEF DropsDue, RequestAt
  <2> QED
    BY <1>t, <2>4, <2>5, <2>6, <2>7
<1>21. CASE UNCHANGED vars
  BY <1>21, <1>b, <1>n DEF vars
<1>22. CASE Finished
  BY <1>21, <1>22 DEF Finished
<1> QED
  BY <1>1, <1>2, <1>3, <1>4, <1>5, <1>6, <1>7, <1>8, <1>9, <1>10, <1>11, <1>12, <1>13,
     <1>14, <1>15, <1>16, <1>17, <1>18, <1>19, <1>20, <1>21, <1>22 DEF Next

(* A session of the running configuration is one every request accepts until it
   expires (auth/service.go 47-55 and 127-131, allowlist.go 45-82). *)
THEOREM FreshStay == Spec => []FreshSessionsAreValid
<1>1. FreshInv => FreshSessionsAreValid
  BY DEF FreshInv, SessionFresh, FreshSessionsAreValid, Stored
<1> QED
  BY <1>1, FreshInit, FreshStep, PTL DEF Spec

(* Only its time, a logout with its token or another configuration ends a
   session (auth/service.go 112-158). *)
THEOREM EndsHaveACause == Spec => SessionsEndForACause
<1> DEFINE Cause(l) ==
      \/ sessions[l].expires < now
      \/ sessions[l].run # restarts
      \/ \E r \in Requests : RequestAt(r, "logout", "delete") /\ Token(r) = l
<1>1. ASSUME FreshInv, [Next]_vars, NEW l \in Logins, Live(l), ~Live(l)'
      PROVE  Cause(l)
  <2> USE <1>1 DEF FreshInv
  <2>1. sessions'[l] # sessions[l]
    BY DEF Live
  <2>2. login[l].step \in Done
    BY DEF SessionFresh
  <2>3. ASSUME NEW k \in Logins, CreateSession(k) \/ LoginFails(k) PROVE FALSE
    <3>1. CASE LoginAt(k, "session") /\ sessions' = [sessions EXCEPT ![k] = NewSession(k)]
      BY <2>1, <2>2, <3>1 DEF TypeOK, LoginAt, Done, LoginOver
    <3> QED
      BY <2>1, <2>3, <3>1 DEF CreateSession, LoginFails, database
  <2>4. ASSUME NEW r \in Requests, Gone(Token(r)) PROVE Token(r) = l
    BY <2>1, <2>4 DEF Gone, TypeOK
  <2>5. ASSUME NEW r \in Requests, DropSession(r) PROVE Cause(l)
    <3>1. Token(r) = l
      BY <2>1, <2>4, <2>5 DEF DropSession
    <3>2. Token(r) # None /\ Due(r)
      BY <2>5, <3>1, SessionAssumption DEF DropsDue, DropSession
    <3> QED
      BY <3>1, <3>2 DEF Due
  <2>6. ASSUME NEW r \in Requests, LogoutDeletes(r) \/ LogoutFails(r) PROVE Cause(l)
    <3>1. Gone(Token(r)) /\ RequestAt(r, "logout", "delete")
      BY <2>1, <2>6 DEF LogoutDeletes, LogoutFails, RequestAt
    <3> QED
      BY <3>1, <2>4
  <2>7. CASE CleanupExpiredSessions
    BY <2>1, <2>7 DEF CleanupExpiredSessions, Expired
  <2>8. ASSUME NEW k \in Logins, NEW b \in Browsers, CheckState(k, b) PROVE FALSE
    BY <2>1, <2>8 DEF CheckState, database
  <2>9. ASSUME NEW r \in Requests,
               \/ Send(r) \/ ValidateSession(r) \/ Serve(r) \/ ValidateFails(r) \/ LogoutFinds(r)
        PROVE  FALSE
    BY <2>1, <2>9 DEF Send, ValidateSession, Serve, ValidateFails, LogoutFinds, database
  <2>10. ASSUME Tick \/ Restart \/ Finished \/ UNCHANGED vars PROVE FALSE
    BY <2>1, <2>10 DEF Tick, Restart, Finished, vars, database
  <2>11. ASSUME NEW k \in Logins,
                \/ InitiateGoogle(k) \/ Refuse(k) \/ Exchange(k) \/ FindUserByOAuth(k)
                \/ WriteUser(k) \/ Redirect(k)
         PROVE  FALSE
    BY <2>1, <2>11 DEF InitiateGoogle, Refuse, Exchange, FindUserByOAuth, WriteUser, Redirect,
       database
  <2> HIDE DEF Cause
  <2> QED
    BY <2>3, <2>5, <2>6, <2>7, <2>8, <2>9, <2>10, <2>11 DEF Next
<1>2. FreshInv /\ [Next]_vars =>
        [\A l \in Logins : Live(l) /\ ~Live(l)' => Cause(l)]_vars
  BY <1>1
<1> QED
  BY <1>2, FreshInit, FreshStep, PTL DEF Spec, SessionsEndForACause

------------------------------------------------------------------------------
(* A session that a token names is never made again: its sign-in is over. *)
LEMMA NoNewLife ==
  ASSUME FreshInv, [Next]_vars, NEW l \in Logins, LoginAt(l, "ok"), ~Live(l)
  PROVE  ~Live(l)'
<1> SUFFICES ASSUME sessions'[l] # sessions[l] PROVE ~Live(l)'
  BY DEF Live
<1> USE DEF FreshInv
<1>1. ASSUME NEW k \in Logins, CreateSession(k) \/ LoginFails(k) PROVE FALSE
  <2>1. CASE LoginAt(k, "session") /\ sessions' = [sessions EXCEPT ![k] = NewSession(k)]
    BY <2>1 DEF TypeOK, LoginAt
  <2> QED
    BY <1>1, <2>1 DEF CreateSession, LoginFails, database
<1>2. ASSUME NEW r \in Requests, DropSession(r) \/ LogoutDeletes(r) \/ LogoutFails(r)
      PROVE  ~Live(l)'
  <2>1. Gone(Token(r))
    BY <1>2 DEF DropSession, LogoutDeletes, LogoutFails
  <2> QED
    BY <2>1 DEF Gone, TypeOK, Live
<1>3. CASE CleanupExpiredSessions
  BY <1>3 DEF CleanupExpiredSessions, Live
<1>4. ASSUME NEW k \in Logins, NEW b \in Browsers, CheckState(k, b) PROVE FALSE
  BY <1>4 DEF CheckState, database
<1>5. ASSUME NEW r \in Requests,
             \/ Send(r) \/ ValidateSession(r) \/ Serve(r) \/ ValidateFails(r) \/ LogoutFinds(r)
      PROVE  FALSE
  BY <1>5 DEF Send, ValidateSession, Serve, ValidateFails, LogoutFinds, database
<1>6. ASSUME Tick \/ Restart \/ Finished \/ UNCHANGED vars PROVE FALSE
  BY <1>6 DEF Tick, Restart, Finished, vars, database
<1>7. ASSUME NEW k \in Logins,
             \/ InitiateGoogle(k) \/ Refuse(k) \/ Exchange(k) \/ FindUserByOAuth(k)
             \/ WriteUser(k) \/ Redirect(k)
      PROVE  FALSE
  BY <1>7 DEF InitiateGoogle, Refuse, Exchange, FindUserByOAuth, WriteUser, Redirect, database
<1> QED
  BY <1>1, <1>2, <1>3, <1>4, <1>5, <1>6, <1>7 DEF Next

Answered(r) == RequestAt(r, "logout", "logged out") /\ Token(r) # None

(* A logout that is answered without a fault had been so, or finds its session
   gone or ends it. *)
LEMMA LogoutsAnswered ==
  ASSUME FreshInv, [Next]_vars, NEW r \in Requests, Answered(r)'
  PROVE  \/ Answered(r) /\ Token(r)' = Token(r)
         \/ ~Live(Token(r))'
<1> USE DEF FreshInv
<1>1. ASSUME UNCHANGED request PROVE Answered(r) /\ Token(r)' = Token(r)
  BY <1>1 DEF Answered, RequestAt, Token
<1>2. ASSUME NEW q \in Requests, NEW s, Go(q, s)
      PROVE  /\ Token(q)' = Token(q) /\ request'[q].step = s /\ request'[q].op = request[q].op
             /\ r # q => Answered(r) /\ Token(r)' = Token(r)
  <2>1. request[q] \in Request /\ request' = [request EXCEPT ![q] = [request[q] EXCEPT !.step = s]]
    BY <1>2 DEF TypeOK, Go
  <2> QED
    BY <2>1 DEF TypeOK, Request, Answered, RequestAt, Token
<1>3. ASSUME NEW q \in Requests, Send(q) PROVE Answered(r) /\ Token(r)' = Token(r)
  <2>1. PICK c \in Calls :
          request' = [request EXCEPT ![q] =
            [op |-> c.op, browser |-> c.browser, token |-> cookie[c.browser],
             step |-> IF cookie[c.browser] # None \/ c.op = "logout" THEN "find"
                      ELSE "unauthorized"]]
    BY <1>3 DEF Send
  <2>2. CASE r = q
    BY <2>1, <2>2 DEF Answered, RequestAt, Token, TypeOK
  <2>3. CASE r # q
    BY <2>1, <2>3 DEF Answered, RequestAt, Token, TypeOK
  <2> QED
    BY <2>2, <2>3
<1>4. ASSUME NEW q \in Requests, LogoutFinds(q)
      PROVE  (Answered(r) /\ Token(r)' = Token(r)) \/ ~Live(Token(r))'
  <2>1. CASE Go(q, "delete")
    BY <1>2, <2>1 DEF Answered, RequestAt
  <2>2. CASE ~(Token(q) # None /\ Live(Token(q))) /\ Go(q, "logged out")
    BY <1>2, <1>4, <2>2 DEF LogoutFinds, database, Live, Answered
  <2> QED
    BY <1>4, <2>1, <2>2 DEF LogoutFinds, LoggedOut
<1>5. ASSUME NEW q \in Requests, LogoutDeletes(q)
      PROVE  (Answered(r) /\ Token(r)' = Token(r)) \/ ~Live(Token(r))'
  <2>1. Go(q, "logged out") /\ Gone(Token(q))
    BY <1>5 DEF LogoutDeletes, LoggedOut
  <2>2. r = q => Token(q) \in Logins
    BY <1>2, <2>1 DEF Answered, TypeOK, Request, Token
  <2>3. ASSUME NEW t \in Logins, t = Token(q) PROVE ~Live(t)'
    BY <2>1, <2>3 DEF Gone, Live, TypeOK
  <2>4. Token(q)' = Token(q)
    BY <1>2, <2>1
  <2>5. r = q => ~Live(Token(r))'
    BY <2>2, <2>3, <2>4 DEF Live
  <2> QED
    BY <1>2, <2>1, <2>5
<1>6. ASSUME NEW q \in Requests, LogoutFails(q)
      PROVE  Answered(r) /\ Token(r)' = Token(r)
  BY <1>2, <1>6 DEF LogoutFails, LoggedOut, Answered, RequestAt
<1>7. ASSUME NEW q \in Requests,
             ValidateSession(q) \/ DropSession(q) \/ Serve(q) \/ ValidateFails(q)
      PROVE  Answered(r) /\ Token(r)' = Token(r)
  <2>1. request[q].op = "api" /\ \E s : Go(q, s)
    BY <1>7 DEF ValidateSession, DropSession, Serve, ValidateFails, RequestAt
  <2> QED
    BY <1>2, <2>1 DEF Answered, RequestAt
<1>8. CASE Restart
  <2>1. \E s : request'[r] = [request[r] EXCEPT !.step = s]
    BY <1>8 DEF Restart
  <2>2. request'[r].step = (IF request[r].step \in RequestOver \union {"new"}
                            THEN request[r].step ELSE "lost")
    BY <1>8 DEF Restart, TypeOK, Request
  <2>3. Token(r)' = Token(r) /\ request'[r].op = request[r].op
    BY <2>1 DEF TypeOK, Request, Token
  <2> QED
    BY <2>2, <2>3 DEF Answered, RequestAt
<1>9. ASSUME NEW k \in Logins,
             \/ InitiateGoogle(k) \/ Refuse(k) \/ Exchange(k) \/ FindUserByOAuth(k)
             \/ WriteUser(k) \/ CreateSession(k) \/ Redirect(k) \/ LoginFails(k)
             \/ \E b \in Browsers : CheckState(k, b)
      PROVE  UNCHANGED request
  BY <1>9 DEF InitiateGoogle, Refuse, Exchange, FindUserByOAuth, WriteUser, CreateSession,
    Redirect, LoginFails, CheckState
<1>10. CleanupExpiredSessions \/ Tick \/ Finished \/ UNCHANGED vars => UNCHANGED request
  BY DEF CleanupExpiredSessions, Tick, Finished, vars
<1> QED
  BY <1>1, <1>3, <1>4, <1>5, <1>6, <1>7, <1>8, <1>9, <1>10 DEF Next

(* Once a logout that met no fault is answered, its session is gone for good,
   whatever sign-ins of the account come later (session_handler.go 72-100,
   auth/service.go 137-153). *)
THEOREM LogoutsAreFinal == Spec => []LogoutIsFinal
<1>1. Init => LogoutIsFinal
  <2> SUFFICES ASSUME Init, NEW r \in Requests PROVE ~RequestAt(r, "logout", "logged out")
    BY DEF LogoutIsFinal
  <2>1. request[r].op = "api"
    BY DEF Init
  <2> QED
    BY <2>1 DEF RequestAt
<1>2. FreshInv /\ LogoutIsFinal /\ [Next]_vars => LogoutIsFinal'
  <2> SUFFICES ASSUME FreshInv, LogoutIsFinal, [Next]_vars, NEW r \in Requests, Answered(r)'
               PROVE  ~Live(Token(r))'
    BY DEF LogoutIsFinal, Answered, Live, RequestAt, Token
  <2>1. CASE Answered(r) /\ Token(r)' = Token(r)
    <3>1. ~Live(Token(r)) /\ Token(r) \in Logins /\ LoginAt(Token(r), "ok")
      BY <2>1 DEF LogoutIsFinal, Answered, FreshInv, TypeOK, TokensIssued, Request, Token
    <3>2. PICK t \in Logins : t = Token(r)
      BY <3>1
    <3>3. ~Live(t)'
      BY <3>1, <3>2, NoNewLife
    <3> QED
      BY <2>1, <3>2, <3>3 DEF Live
  <2> QED
    BY <2>1, LogoutsAnswered
<1> QED
  BY <1>1, <1>2, FreshInit, FreshStep, PTL DEF Spec

=============================================================================

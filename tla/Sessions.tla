------------------------------ MODULE Sessions ------------------------------
(***************************************************************************)
(* Users and their sessions: sign-in with Google, requests that carry a    *)
(* session, logout, the daily cleanup, and restarts with another allowlist *)
(* (auth/service.go and postgres_repository.go, http/oauth_handler.go,     *)
(* session_handler.go and middleware.go, cmd/api/main.go).                 *)
(*                                                                         *)
(* Each statement of the database is one step; nothing spans two of them.  *)
(* A session token is new, and named by the sign-in that made it.           *)
(***************************************************************************)
EXTENDS Allowlist

CONSTANTS Accounts, Profiles,    \* Google accounts, and the claims each may come with
          Browsers,
          Logins, Starts,        \* sign-ins, and the [browser, account] each may be of
          Requests, Calls,       \* requests, and the [browser, op] each may be of
          Allowlists,            \* the configurations a process may start with
          None, Ended,           \* nothing there; a session deleted
          sessionTTL,
          MaxTime, MaxRestarts, MaxFaults  \* bounds

ASSUME SessionAssumption ==
  /\ \A l \in Logins : Starts[l] \subseteq [browser : Browsers, account : Accounts]
  /\ Calls \subseteq [browser : Browsers, op : {"api", "logout"}]
  /\ \A a \in Accounts : Profiles[a] \subseteq Claims
  /\ None # Ended /\ None \notin Addresses \union Logins \union Browsers \union Accounts
  /\ {sessionTTL, MaxTime, MaxRestarts, MaxFaults} \subseteq Nat

VARIABLES users,      \* the stored email of each account, or None
          sessions,   \* the session each sign-in created: None, Ended or a record
          now, allowlist, restarts, faults,
          oauthState, \* the sign-in of each browser's state cookie
          cookie,     \* the session of each browser's session cookie
          login,      \* the sign-ins' progress
          request     \* the requests' progress

vars == <<users, sessions, now, allowlist, restarts, faults, oauthState, cookie, login, request>>
database == <<users, sessions>>
clients  == <<oauthState, cookie>>
process  == <<now, allowlist, restarts>>

Live(l)    == sessions[l] \notin {None, Ended}
Account(l) == login[l].account

LoginAt(l, s) == login[l].step = s
Step(l, s)    == login' = [login EXCEPT ![l].step = s]

(* A statement that fails: without effect, or its answer is lost. *)
Fault == faults < MaxFaults /\ faults' = faults + 1

------------------------------------------------------------------------------
(* A sign-in starts: the state cookie holds the latest one of the browser. *)
InitiateGoogle(l) ==
  /\ LoginAt(l, "new")
  /\ \E s \in Starts[l] :
       /\ login' = [login EXCEPT ![l].step = "started", ![l].account = s.account]
       /\ oauthState' = [oauthState EXCEPT ![s.browser] = l]
  /\ UNCHANGED <<database, process, faults, cookie, request>>

(* The callback arrives in a browser, which may not be the one that started the
   sign-in: only the state cookie tells. *)
CheckState(l, b) ==
  /\ LoginAt(l, "started")
  /\ login' = [login EXCEPT ![l].browser = b,
                 ![l].step = IF oauthState[b] = l THEN "exchange" ELSE "refused"]
  /\ UNCHANGED <<database, process, faults, clients, request>>

(* The answer of a callback that passed the state check deletes the state
   cookie, whichever sign-in it is of by then. *)
Respond(l, s) ==
  /\ Step(l, s)
  /\ oauthState' = [oauthState EXCEPT ![login[l].browser] = None]

(* The sign-in was denied, its code is no good or its claims are refused. *)
Refuse(l) ==
  /\ LoginAt(l, "exchange") /\ Respond(l, "refused")
  /\ UNCHANGED <<database, process, faults, cookie, request>>

Exchange(l) ==
  /\ LoginAt(l, "exchange")
  /\ \E claims \in Profiles[Account(l)] :
       /\ claims.verified /\ AllowsLogin(allowlist, claims)
       /\ login' = [login EXCEPT ![l].step = "find", ![l].claims = claims]
  /\ UNCHANGED <<database, process, faults, clients, request>>

(* Seeded fault: the user is looked up by the email instead. *)
FindUserByEmail(l) ==
  /\ LoginAt(l, "find")
  /\ Step(l, IF users[Account(l)] = login[l].claims.email THEN "update" ELSE "create")
  /\ UNCHANGED <<database, process, faults, clients, request>>

FindUserByOAuth(l) ==
  /\ LoginAt(l, "find")
  /\ Step(l, IF users[Account(l)] = None THEN "create" ELSE "update")
  /\ UNCHANGED <<database, process, faults, clients, request>>

(* Seeded fault: the address is not unique. *)
ConflictOfRow(l) == LoginAt(l, "create") /\ users[Account(l)] # None

(* The unique indexes on users, of the account and of the email. *)
Conflict(l) ==
  \/ LoginAt(l, "create") /\ users[Account(l)] # None
  \/ \E a \in Accounts \ {Account(l)} : users[a] = login[l].claims.email

(* Seeded fault: a sign-in leaves the stored email as it is. *)
WriteUserKeepEmail(l) ==
  /\ LoginAt(l, "create") \/ LoginAt(l, "update")
  /\ IF Conflict(l) THEN Respond(l, "error") /\ UNCHANGED users
     ELSE /\ users' = [users EXCEPT ![Account(l)] = IF @ = None THEN login[l].claims.email ELSE @]
          /\ Step(l, "session") /\ UNCHANGED oauthState
  /\ UNCHANGED <<sessions, process, faults, cookie, request>>

(* CreateUser or UpdateUserLogin; a conflict is an error of the sign-in. *)
WriteUser(l) ==
  /\ LoginAt(l, "create") \/ LoginAt(l, "update")
  /\ IF Conflict(l) THEN Respond(l, "error") /\ UNCHANGED users
     ELSE /\ users' = [users EXCEPT ![Account(l)] = login[l].claims.email]
          /\ Step(l, "session") /\ UNCHANGED oauthState
  /\ UNCHANGED <<sessions, process, faults, cookie, request>>

NewSession(l) == [account |-> Account(l), expires |-> now + sessionTTL, run |-> restarts]

CreateSession(l) ==
  /\ LoginAt(l, "session") /\ Step(l, "redirect")
  /\ sessions' = [sessions EXCEPT ![l] = NewSession(l)]
  /\ UNCHANGED <<users, process, faults, clients, request>>

(* The answer sets the session cookie, if it arrives. *)
Redirect(l) ==
  /\ LoginAt(l, "redirect")
  /\ \/ Respond(l, "ok") /\ cookie' = [cookie EXCEPT ![login[l].browser] = l]
     \/ Step(l, "lost") /\ UNCHANGED clients
  /\ UNCHANGED <<database, process, faults, request>>

LoginFails(l) ==
  /\ login[l].step \in {"find", "create", "update", "session"}
  /\ Fault /\ Respond(l, "fault")
  /\ \/ UNCHANGED database
     \/ /\ login[l].step \in {"create", "update"} /\ ~Conflict(l)
        /\ users' = [users EXCEPT ![Account(l)] = login[l].claims.email]
        /\ UNCHANGED sessions
     \/ /\ LoginAt(l, "session")
        /\ sessions' = [sessions EXCEPT ![l] = NewSession(l)]
        /\ UNCHANGED users
  /\ UNCHANGED <<process, cookie, request>>

------------------------------------------------------------------------------
RequestAt(r, op, s) == request[r].op = op /\ request[r].step = s
Go(r, s) == request' = [request EXCEPT ![r].step = s]

(* Without a cookie a request is refused; a logout is answered all the same. *)
Send(r) ==
  /\ request[r].step = "new"
  /\ \E c \in Calls :
       LET token == cookie[c.browser]
       IN request' = [request EXCEPT ![r] =
            [op |-> c.op, browser |-> c.browser, token |-> token,
             step |-> IF token # None \/ c.op = "logout" THEN "find" ELSE "unauthorized"]]
  /\ UNCHANGED <<database, process, faults, clients, login>>

Token(r) == request[r].token

Valid(l) ==
  /\ Live(l) /\ now <= sessions[l].expires
  /\ AllowsEmail(allowlist, users[sessions[l].account])

(* ValidateSession: a session that is no longer good is deleted. *)
ValidateSession(r) ==
  /\ RequestAt(r, "api", "find")
  /\ Go(r, IF Valid(Token(r)) THEN "serve"
           ELSE IF Live(Token(r)) THEN "drop" ELSE "unauthorized")
  /\ UNCHANGED <<database, process, faults, clients, login>>

Gone(l) == sessions' = [sessions EXCEPT ![l] = IF Live(l) THEN Ended ELSE @]

(* The error of this statement is ignored. *)
DropSession(r) ==
  /\ RequestAt(r, "api", "drop")
  /\ \/ Gone(Token(r)) /\ UNCHANGED faults
     \/ Fault /\ UNCHANGED sessions
  /\ Go(r, "unauthorized")
  /\ UNCHANGED <<users, process, clients, login>>

Serve(r) ==
  /\ RequestAt(r, "api", "serve")
  /\ Go(r, "served")
  /\ UNCHANGED <<database, process, faults, clients, login>>

ValidateFails(r) ==
  /\ RequestAt(r, "api", "find")
  /\ Fault /\ Go(r, "unauthorized")
  /\ UNCHANGED <<database, process, clients, login>>

(* Every answer to a logout clears the cookie the browser has by then. *)
LoggedOut(r, s) ==
  /\ Go(r, s)
  /\ cookie' = [cookie EXCEPT ![request[r].browser] = None]

(* Without a token it asks the database nothing. *)
LogoutFinds(r) ==
  /\ RequestAt(r, "logout", "find")
  /\ IF Token(r) # None /\ Live(Token(r)) THEN Go(r, "delete") /\ UNCHANGED cookie
     ELSE LoggedOut(r, "logged out")
  /\ UNCHANGED <<database, process, faults, oauthState, login>>

(* Seeded fault: the session is deleted after the answer, if at all. *)
LogoutDeletesLate(r) ==
  /\ RequestAt(r, "logout", "delete")
  /\ LoggedOut(r, "logged out")
  /\ UNCHANGED <<database, process, faults, oauthState, login>>

LogoutDeletes(r) ==
  /\ RequestAt(r, "logout", "delete")
  /\ Gone(Token(r)) /\ LoggedOut(r, "logged out")
  /\ UNCHANGED <<users, process, faults, oauthState, login>>

(* A failed statement is only logged: the answer is the same. *)
LogoutFails(r) ==
  /\ RequestAt(r, "logout", "find") \/ RequestAt(r, "logout", "delete")
  /\ Token(r) # None
  /\ Fault /\ LoggedOut(r, "cookie cleared")
  /\ \/ UNCHANGED sessions
     \/ request[r].step = "delete" /\ Gone(Token(r))
  /\ UNCHANGED <<users, process, oauthState, login>>

------------------------------------------------------------------------------
(* Seeded fault: what expires this moment is deleted too. *)
ExpiredEarly(l) == Live(l) /\ sessions[l].expires <= now

Expired(l) == Live(l) /\ sessions[l].expires < now

(* Seeded fault: a failed run is the last one. *)
CleanupUntilAFault ==
  /\ faults = 0 /\ \E l \in Logins : Expired(l)
  /\ \/ sessions' = [l \in Logins |-> IF Expired(l) THEN Ended ELSE sessions[l]]
        /\ UNCHANGED faults
     \/ Fault /\ UNCHANGED sessions
  /\ UNCHANGED <<users, process, clients, login, request>>

(* At startup and every day; a failed run is tried again a day later. *)
CleanupExpiredSessions ==
  /\ \E l \in Logins : Expired(l)
  /\ \/ sessions' = [l \in Logins |-> IF Expired(l) THEN Ended ELSE sessions[l]]
        /\ UNCHANGED faults
     \/ Fault /\ UNCHANGED sessions
  /\ UNCHANGED <<users, process, clients, login, request>>

Tick ==
  /\ now < MaxTime /\ now' = now + 1
  /\ UNCHANGED <<database, allowlist, restarts, faults, clients, login, request>>

(* The process starts again: what was under way gets no answer. *)
LoginOver   == {"ok", "refused", "error", "fault", "lost"}
RequestOver == {"served", "unauthorized", "logged out", "cookie cleared", "lost"}
Restart ==
  /\ restarts < MaxRestarts /\ restarts' = restarts + 1
  /\ allowlist' \in Allowlists
  /\ login' = [l \in Logins |-> [login[l] EXCEPT !.step =
                 IF @ \in LoginOver \union {"new", "started"} THEN @ ELSE "lost"]]
  /\ request' = [r \in Requests |-> [request[r] EXCEPT !.step =
                   IF @ \in RequestOver \union {"new"} THEN @ ELSE "lost"]]
  /\ UNCHANGED <<database, now, faults, clients>>

(* No more requests, and nothing left to clean. *)
Finished ==
  /\ now = MaxTime /\ restarts = MaxRestarts
  /\ \A l \in Logins : login[l].step \in LoginOver /\ ~Expired(l)
  /\ \A r \in Requests : request[r].step \in RequestOver
  /\ UNCHANGED vars

------------------------------------------------------------------------------
NoClaims == [email |-> "", verified |-> FALSE, hd |-> ""]

NewLogin == [step |-> "new", account |-> None, browser |-> None, claims |-> NoClaims]

Init ==
  /\ users = [a \in Accounts |-> None]
  /\ sessions = [l \in Logins |-> None]
  /\ now = 0 /\ restarts = 0 /\ faults = 0
  /\ allowlist \in Allowlists
  /\ oauthState = [b \in Browsers |-> None]
  /\ cookie = [b \in Browsers |-> None]
  /\ login = [l \in Logins |-> NewLogin]
  /\ request = [r \in Requests |-> [step |-> "new", op |-> "api", browser |-> None, token |-> None]]

Next ==
  \/ \E l \in Logins :
       \/ InitiateGoogle(l) \/ Refuse(l) \/ Exchange(l) \/ FindUserByOAuth(l)
       \/ WriteUser(l) \/ CreateSession(l) \/ Redirect(l) \/ LoginFails(l)
       \/ \E b \in Browsers : CheckState(l, b)
  \/ \E r \in Requests :
       \/ Send(r) \/ ValidateSession(r) \/ DropSession(r) \/ Serve(r) \/ ValidateFails(r)
       \/ LogoutFinds(r) \/ LogoutDeletes(r) \/ LogoutFails(r)
  \/ CleanupExpiredSessions \/ Tick \/ Restart \/ Finished

(* The cleanup's timer fires again and again (service.go 160-190). *)
Spec == Init /\ [][Next]_vars /\ WF_vars(CleanupExpiredSessions)

------------------------------------------------------------------------------
LoginSteps == LoginOver \union {"new", "started", "exchange", "find", "create", "update",
                                "session", "redirect"}
RequestSteps == RequestOver \union {"new", "find", "drop", "serve", "delete"}

Session == [account : Accounts, expires : 0..(MaxTime + sessionTTL), run : 0..MaxRestarts]
Login == [step : LoginSteps, account : Accounts \union {None},
          browser : Browsers \union {None}, claims : Claims]
Request == [step : RequestSteps, op : {"api", "logout"},
            browser : Browsers \union {None}, token : Logins \union {None}]

(* Types, and the unique email index: no two accounts share an address
   (postgres_repository.go 62-98). *)
TypeOK ==
  /\ users \in [Accounts -> Addresses \union {None}]
  /\ \A a, b \in Accounts : users[a] = users[b] /\ users[a] # None => a = b
  /\ sessions \in [Logins -> Session \union {None, Ended}]
  /\ now \in 0..MaxTime /\ restarts \in 0..MaxRestarts /\ faults \in 0..MaxFaults
  /\ allowlist \in Allowlists
  /\ oauthState \in [Browsers -> Logins \union {None}]
  /\ cookie \in [Browsers -> Logins \union {None}]
  /\ login \in [Logins -> Login]
  /\ \A l \in Logins : LoginAt(l, "new") \/ Account(l) \in Accounts
  /\ request \in [Requests -> Request]

(* A session made under the running configuration is one every request accepts
   until it expires: the stored email its account is checked by follows each
   sign-in, and what AllowsLogin admits AllowsEmail accepts (auth/service.go
   47-55 and 127-131, allowlist.go 45-82). *)
FreshSessionsAreValid ==
  \A l \in Logins : Live(l) /\ sessions[l].run = restarts =>
    users[sessions[l].account] # None /\ AllowsEmail(allowlist, users[sessions[l].account])

(* So no request ends such a session, however its check and its delete are
   interleaved with other sign-ins of the account: only a logout with its token
   does, or its time (auth/service.go 112-158). *)
SessionsEndForACause ==
  [][\A l \in Logins : Live(l) /\ ~Live(l)' =>
       \/ sessions[l].expires < now
       \/ sessions[l].run # restarts
       \/ \E r \in Requests : RequestAt(r, "logout", "delete") /\ Token(r) = l]_vars

(* Once a logout that met no fault is answered, its session is gone from the
   database for good, so that no later request finds it, whatever else ends or
   renews sessions of the account meanwhile (session_handler.go 72-100,
   auth/service.go 137-153). *)
LogoutIsFinal ==
  \A r \in Requests : RequestAt(r, "logout", "logged out") /\ Token(r) # None =>
    ~Live(Token(r))

(* A sign-in whose account had a row when it looked never fails on the unique
   indexes, unless some other account comes with the same address: two first
   sign-ins at once may collide, the next one does not, and neither does one
   with a changed email (auth/service.go 41-82). *)
Contested(l) ==
  \E a \in Accounts \ {Account(l)} : \E p \in Profiles[a] : p.email = login[l].claims.email
ReturningUsersGetIn ==
  \A l \in Logins :
    [](LoginAt(l, "find") /\ users[Account(l)] # None => [](LoginAt(l, "error") => Contested(l)))

(* An expired session is deleted in the end, though runs of the cleanup fail
   (auth/service.go 156-190). *)
ExpiredSessionsGo ==
  \A l \in Logins : (Live(l) /\ sessions[l].expires < now) ~> ~Live(l)
=============================================================================

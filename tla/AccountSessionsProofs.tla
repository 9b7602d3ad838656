----------------------- MODULE AccountSessionsProofs -----------------------
(***************************************************************************)
(* Proofs about AccountSessions: nobody stays signed in on an outdated     *)
(* password, and a replaced password ends exactly the sessions it should.  *)
(***************************************************************************)
EXTENDS AccountSessions, TLAPS

USE SessionAssumption

\* The password a login has verified fits the hash it has read, and hashes are
\* never written back: this is what makes the second look at the locked row
\* sufficient.
LoginIsRecent ==
    \A l \in Logins : login[l] # None =>
        /\ login[l].hash <= generation[login[l].user]
        /\ login[l].hash = generation[login[l].user]
           => login[l].password = password[login[l].user]

IInv == TypeOK /\ LoginIsRecent /\ LiveSessionsAreCurrent

-----------------------------------------------------------------------------
(* The rows and calls a step finds.                                        *)

LEMMA KnownSession ==
    ASSUME TypeOK, NEW s \in SessionId, sessions[s] # UnusedSession
    PROVE  /\ s \in 1 .. opened /\ sessions[s] \in Session
           /\ sessions[s].user \in Users /\ sessions[s].state # "unused"
  BY DEF TypeOK, SessionId

LEMMA LiveIsKnown ==
    ASSUME NEW s, sessions[s].state # "unused" PROVE sessions[s] # UnusedSession
  BY DEF UnusedSession

LEMMA RequestSession ==
    ASSUME TypeOK, NEW r \in Requests, request[r] # None
    PROVE  /\ request[r] \in SessionId /\ sessions[request[r]] \in Session
           /\ request[r] <= opened
           /\ sessions[request[r]].user \in Users /\ sessions[request[r]].state # "unused"
  BY DEF TypeOK, SessionId

LEMMA LoginAttempt ==
    ASSUME TypeOK, NEW l \in Logins, login[l] # None
    PROVE  /\ login[l] \in Attempt /\ login[l].user \in Users
           /\ login[l].password \in Passwords /\ login[l].hash \in Nat
  BY DEF TypeOK, Attempt

-----------------------------------------------------------------------------
(* What the writers of auth_sessions do to a row.                          *)

\* Rows change in nothing but their state, and none comes to life.
RowsFade ==
    /\ opened' = opened
    /\ sessions' \in [SessionId -> Session]
    /\ \A s \in SessionId :
         /\ sessions'[s].user = sessions[s].user
         /\ sessions'[s].shown = sessions[s].shown
         /\ sessions'[s].generation = sessions[s].generation
         /\ sessions'[s].state = "live" => sessions[s].state = "live"
         /\ sessions'[s].state = "unused" => sessions[s].state = "unused"
         /\ sessions[s] = UnusedSession => sessions'[s] = sessions[s]

LEMMA DeletedRows ==
    ASSUME TypeOK, NEW u \in Users, NEW kept
    PROVE  /\ DeleteSessions(u, kept) \in [SessionId -> Session]
           /\ \A s \in SessionId :
                /\ sessions[s].user # u \/ s \in kept => DeleteSessions(u, kept)[s] = sessions[s]
                /\ sessions[s].user = u /\ s \notin kept =>
                     /\ DeleteSessions(u, kept)[s].user = u
                     /\ DeleteSessions(u, kept)[s].shown = sessions[s].shown
                     /\ DeleteSessions(u, kept)[s].generation = sessions[s].generation
                     /\ DeleteSessions(u, kept)[s].state = "deleted"
<1>1. sessions \in [SessionId -> Session]
  BY DEF TypeOK
<1>2. ASSUME NEW s \in SessionId
      PROVE  /\ DeleteSessions(u, kept)[s] \in Session
             /\ sessions[s].user # u \/ s \in kept => DeleteSessions(u, kept)[s] = sessions[s]
             /\ sessions[s].user = u /\ s \notin kept =>
                  /\ DeleteSessions(u, kept)[s].user = u
                  /\ DeleteSessions(u, kept)[s].shown = sessions[s].shown
                  /\ DeleteSessions(u, kept)[s].generation = sessions[s].generation
                  /\ DeleteSessions(u, kept)[s].state = "deleted"
  <2>1. sessions[s] \in Session
    BY <1>1
  <2>2. CASE sessions[s].user = u /\ s \notin kept
    <3>1. PICK row : row = DeleteSessions(u, kept)[s]
      OBVIOUS
    <3>2. row = [sessions[s] EXCEPT !.state = "deleted"]
      BY <2>2, <3>1 DEF DeleteSessions
    <3> QED BY <2>1, <2>2, <3>1, <3>2 DEF Session
  <2>3. CASE ~(sessions[s].user = u /\ s \notin kept)
    <3>1. DeleteSessions(u, kept)[s] = sessions[s]
      BY <2>3 DEF DeleteSessions
    <3> QED BY <2>1, <2>3, <3>1
  <2> QED BY <2>2, <2>3
<1>3. DeleteSessions(u, kept) = [s \in SessionId |-> DeleteSessions(u, kept)[s]]
  BY DEF DeleteSessions
<1> QED BY <1>2, <1>3

\* A reset deletes them all.
LEMMA ResetFades ==
    ASSUME TypeOK, NEW u \in Users, opened' = opened, sessions' = DeleteSessions(u, {})
    PROVE  RowsFade
<1>1. \A s \in SessionId : sessions[s] = UnusedSession => sessions[s].user # u
  BY DEF UnusedSession
<1> QED BY <1>1, DeletedRows DEF RowsFade

\* Logout and expiry write the state of one row.
LEMMA StateFades ==
    ASSUME TypeOK, NEW s \in SessionId, sessions[s].state # "unused", opened' = opened,
           NEW state \in {"expired", "deleted"},
           sessions' = [sessions EXCEPT ![s].state = state]
    PROVE  RowsFade
<1>1. sessions \in [SessionId -> Session] /\ sessions[s] \in Session
  BY DEF TypeOK
<1>2. PICK row : row = [sessions[s] EXCEPT !.state = state]
  OBVIOUS
<1>3. /\ row \in Session /\ row.user = sessions[s].user /\ row.shown = sessions[s].shown
      /\ row.generation = sessions[s].generation /\ row.state = state
  BY <1>1, <1>2 DEF Session
<1>4. sessions' = [sessions EXCEPT ![s] = row]
  BY <1>1, <1>2
<1>5. sessions[s] # UnusedSession
  BY LiveIsKnown
<1> QED BY <1>1, <1>3, <1>4, <1>5 DEF RowsFade

\* A change of password keeps the row of the session that made it, and ends
\* the other sessions of the account.
Replaces(s, u, new) ==
    /\ s <= opened /\ sessions[s].user = u /\ u \in verified
    /\ SetPassword(u, new)
    /\ sessions' \in [SessionId -> Session]
    /\ sessions'[s].user = u /\ sessions'[s].state = sessions[s].state
    /\ sessions'[s].state # "unused"
    /\ sessions'[s].shown = new /\ sessions'[s].generation = generation[u] + 1
    /\ \A t \in SessionId \ {s} :
         /\ sessions[t].user # u => sessions'[t] = sessions[t]
         /\ sessions[t].user = u => sessions'[t].user = u /\ sessions'[t].state = "deleted"

LEMMA ChangeReplaces ==
    ASSUME TypeOK, NEW r \in Requests, NEW current \in Passwords, NEW new \in Passwords,
           ChangePassword(r, current, new)
    PROVE  \E s \in SessionId, u \in Users : Replaces(s, u, new)
<1>1. PICK s \in SessionId : s = request[r]
  BY RequestSession DEF ChangePassword
<1>2. PICK u : u = sessions[s].user
  OBVIOUS
<1>3. /\ s <= opened /\ sessions[s] \in Session /\ u \in Users /\ sessions[s].state # "unused"
  BY <1>1, <1>2, RequestSession DEF ChangePassword
<1>4. PICK hash : hash = generation[u] + 1
  OBVIOUS
<1>5. hash \in Nat
  BY <1>3, <1>4 DEF TypeOK
<1>6. PICK old : old = DeleteSessions(u, {s})
  OBVIOUS
<1>7. /\ old \in [SessionId -> Session] /\ old[s] = sessions[s]
      /\ \A t \in SessionId \ {s} :
           /\ sessions[t].user # u => old[t] = sessions[t]
           /\ sessions[t].user = u => old[t].user = u /\ old[t].state = "deleted"
  BY <1>3, <1>6, DeletedRows
<1>8. PICK mid : mid = [sessions[s] EXCEPT !.shown = new]
  OBVIOUS
<1>9. /\ mid \in Session /\ mid.user = sessions[s].user /\ mid.state = sessions[s].state
      /\ mid.shown = new
  BY <1>3, <1>8 DEF Session
<1>10. PICK row : row = [mid EXCEPT !.generation = hash]
  OBVIOUS
<1>11. /\ row \in Session /\ row.user = mid.user /\ row.state = mid.state
       /\ row.shown = new /\ row.generation = hash
  BY <1>5, <1>9, <1>10 DEF Session
<1>12. u \in verified /\ SetPassword(u, new)
       /\ sessions' = [old EXCEPT ![s].shown = new, ![s].generation = hash]
  BY <1>1, <1>2, <1>4, <1>6 DEF ChangePassword
<1>13. sessions' = [old EXCEPT ![s] = row]
  BY <1>7, <1>8, <1>10, <1>12
<1>14. /\ sessions' \in [SessionId -> Session] /\ sessions'[s] = row
       /\ \A t \in SessionId \ {s} : sessions'[t] = old[t]
  BY <1>7, <1>11, <1>13
<1>15. Replaces(s, u, new)
  BY <1>2, <1>3, <1>4, <1>7, <1>9, <1>11, <1>12, <1>14 DEF Replaces
<1> QED BY <1>3, <1>15
LEMMA SetPasswordEffect ==
    ASSUME TypeOK, NEW u \in Users, NEW new \in Passwords, SetPassword(u, new)
    PROVE  /\ password' \in [Users -> Passwords] /\ generation' \in [Users -> 0 .. MaxChanges]
           /\ password'[u] = new /\ generation'[u] = generation[u] + 1
           /\ \A v \in Users \ {u} : password'[v] = password[v] /\ generation'[v] = generation[v]
           /\ \A v \in Users : generation[v] \in Nat
  BY DEF TypeOK, SetPassword

-----------------------------------------------------------------------------
(* The kinds of step.                                                      *)

\* No password is replaced, no session opened and no login begun.
Quiet ==
    /\ RowsFade
    /\ UNCHANGED <<password, generation>>
    /\ verified' \subseteq Users
    /\ \A l \in Logins : login'[l] \in {login[l], None}
    /\ login' \in [Logins -> Attempt \union {None}]
    /\ request' \in [Requests -> SessionId \union {None}]
    /\ \A r \in Requests : request'[r] # None => request'[r] <= opened

LEMMA SameSessions ==
    ASSUME TypeOK, UNCHANGED <<sessions, opened>> PROVE RowsFade
  BY DEF TypeOK, RowsFade

LEMMA LogoutQuiet ==
    ASSUME TypeOK, NEW r \in Requests, EndRequest(r) \/ Logout(r)
    PROVE  Quiet
<1>1. UNCHANGED <<password, generation, verified, opened, login>>
      /\ request' = [request EXCEPT ![r] = None]
  BY DEF EndRequest, Logout
<1>2. CASE EndRequest(r)
  BY <1>1, <1>2, SameSessions DEF EndRequest, Quiet, TypeOK
<1>3. CASE Logout(r)
  <2>1. PICK s \in SessionId : s = request[r] /\ sessions[s].state # "unused"
    BY <1>3, RequestSession DEF Logout
  <2>2. sessions' = [sessions EXCEPT ![s].state = "deleted"]
    BY <1>3, <2>1 DEF Logout
  <2>3. RowsFade
    BY <1>1, <2>1, <2>2, StateFades
  <2> QED BY <1>1, <2>3 DEF Quiet, TypeOK
<1> QED BY <1>2, <1>3

LEMMA OtherQuiet ==
    ASSUME TypeOK,
           \/ \E l \in Logins : RefuseLogin(l)
           \/ \E r \in Requests, s \in SessionId : Authenticate(r, s)
           \/ \E u \in Users : VerifyEmail(u)
           \/ \E s \in SessionId : Expire(s)
           \/ UNCHANGED vars
    PROVE  Quiet
<1>1. ASSUME NEW l \in Logins, RefuseLogin(l) PROVE Quiet
  BY <1>1, SameSessions DEF RefuseLogin, Quiet, TypeOK
<1>2. ASSUME NEW r \in Requests, NEW s \in SessionId, Authenticate(r, s) PROVE Quiet
  <2>1. s <= opened
    BY <1>2, LiveIsKnown, KnownSession DEF Authenticate
  <2> QED BY <1>2, <2>1, SameSessions DEF Authenticate, Quiet, TypeOK
<1>3. ASSUME NEW u \in Users, VerifyEmail(u) PROVE Quiet
  BY <1>3, SameSessions DEF VerifyEmail, Quiet, TypeOK
<1>4. ASSUME NEW s \in SessionId, Expire(s) PROVE Quiet
  <2>1. RowsFade
    BY <1>4, StateFades DEF Expire
  <2> QED BY <1>4, <2>1 DEF Expire, Quiet, TypeOK
<1>5. CASE UNCHANGED vars
  BY <1>5, SameSessions DEF vars, Quiet, TypeOK
<1> QED BY <1>1, <1>2, <1>3, <1>4, <1>5

LEMMA StepCases ==
    ASSUME TypeOK, [Next]_vars
    PROVE  \/ \E l \in Logins, u \in Users, value \in Passwords : VerifyPassword(l, u, value)
           \/ \E l \in Logins : CreateSession(l)
           \/ \E r \in Requests, current, new \in Passwords : ChangePassword(r, current, new)
           \/ \E u \in Users, new \in Passwords : ResetPassword(u, new)
           \/ Quiet
<1>1. ASSUME NEW r \in Requests, EndRequest(r) \/ Logout(r) PROVE Quiet
  BY <1>1, LogoutQuiet
<1>2. CASE \/ \E l \in Logins : RefuseLogin(l)
           \/ \E r \in Requests, s \in SessionId : Authenticate(r, s)
           \/ \E u \in Users : VerifyEmail(u)
           \/ \E s \in SessionId : Expire(s)
           \/ UNCHANGED vars
  BY <1>2, OtherQuiet
<1> QED BY <1>1, <1>2 DEF Next

LEMMA CreatedRow ==
    ASSUME TypeOK, NEW l \in Logins, CreateSession(l)
    PROVE  /\ login[l] # None /\ StillValid(login[l])
           /\ opened + 1 \in SessionId /\ opened' = opened + 1 /\ opened < MaxSessions
           /\ sessions' \in [SessionId -> Session]
           /\ sessions'[opened + 1].user = login[l].user
           /\ sessions'[opened + 1].shown = login[l].password
           /\ sessions'[opened + 1].generation = generation[login[l].user]
           /\ sessions'[opened + 1].state = "live"
           /\ \A s \in SessionId \ {opened + 1} : sessions'[s] = sessions[s]
           /\ login' = [login EXCEPT ![l] = None]
           /\ UNCHANGED <<password, generation, verified, request>>
<1>1. PICK row : row = [user |-> login[l].user, shown |-> login[l].password,
                        generation |-> generation[login[l].user], state |-> "live"]
  OBVIOUS
<1>2. login[l] # None /\ opened < MaxSessions /\ sessions' = [sessions EXCEPT ![opened + 1] = row]
  BY <1>1 DEF CreateSession
<1>3. opened + 1 \in SessionId /\ sessions \in [SessionId -> Session]
  BY <1>2 DEF TypeOK, SessionId
<1>4. generation[login[l].user] \in Nat
  BY <1>2, LoginAttempt DEF TypeOK
<1>5. row \in Session
  BY <1>1, <1>2, <1>4, LoginAttempt DEF Session
<1>6. row.user = login[l].user /\ row.shown = login[l].password
      /\ row.generation = generation[login[l].user] /\ row.state = "live"
  BY <1>1
<1>7. /\ sessions' \in [SessionId -> Session] /\ sessions'[opened + 1] = row
      /\ \A s \in SessionId \ {opened + 1} : sessions'[s] = sessions[s]
  BY <1>2, <1>3, <1>5
<1> QED BY <1>2, <1>3, <1>6, <1>7 DEF CreateSession

-----------------------------------------------------------------------------
(* Types.                                                                  *)

LEMMA FadedTypes ==
    ASSUME TypeOK, RowsFade
    PROVE  /\ sessions' \in [SessionId -> Session] /\ opened' \in 0 .. MaxSessions
           /\ \A s \in SessionId :
                IF s > opened' THEN sessions'[s] = UnusedSession
                ELSE sessions'[s].user \in Users /\ sessions'[s].state # "unused"
  BY DEF TypeOK, RowsFade

LEMMA NextTypeOK == TypeOK /\ [Next]_vars => TypeOK'
<1> SUFFICES ASSUME TypeOK, [Next]_vars PROVE TypeOK'
  OBVIOUS
<1>1. ASSUME NEW l \in Logins, NEW u \in Users, NEW value \in Passwords, VerifyPassword(l, u, value)
      PROVE  TypeOK'
  <2>1. generation[u] \in Nat
    BY DEF TypeOK
  <2>2. [user |-> u, password |-> value, hash |-> generation[u]] \in Attempt
    BY <2>1 DEF Attempt
  <2>3. login' \in [Logins -> Attempt \union {None}]
    BY <1>1, <2>2 DEF VerifyPassword, TypeOK
  <2> QED BY <1>1, <2>3 DEF VerifyPassword, TypeOK
<1>2. ASSUME NEW l \in Logins, CreateSession(l) PROVE TypeOK'
  <2>1. \A s \in SessionId :
          IF s > opened' THEN sessions'[s] = UnusedSession
          ELSE sessions'[s].user \in Users /\ sessions'[s].state # "unused"
    <3> SUFFICES ASSUME NEW s \in SessionId
                 PROVE  IF s > opened' THEN sessions'[s] = UnusedSession
                        ELSE sessions'[s].user \in Users /\ sessions'[s].state # "unused"
      OBVIOUS
    <3>1. s \in Nat /\ opened \in Nat
      BY DEF SessionId, TypeOK
    <3>2. CASE s = opened + 1
      BY <1>2, <3>1, <3>2, CreatedRow, LoginAttempt
    <3>3. CASE s # opened + 1
      BY <1>2, <3>1, <3>3, CreatedRow DEF TypeOK
    <3> QED BY <3>2, <3>3
  <2>2. opened' \in 0 .. MaxSessions /\ \A r \in Requests : request[r] # None => request[r] <= opened'
    <3>1. opened' = opened + 1 /\ opened < MaxSessions /\ opened \in 0 .. MaxSessions
      BY <1>2, CreatedRow DEF TypeOK
    <3>2. \A r \in Requests : request[r] # None => request[r] \in Nat
      BY RequestSession DEF SessionId
    <3> QED BY <3>1, <3>2 DEF TypeOK
  <2> QED BY <1>2, <2>1, <2>2, CreatedRow DEF TypeOK
<1>3. ASSUME NEW r \in Requests, NEW current \in Passwords, NEW new \in Passwords,
             ChangePassword(r, current, new)
      PROVE  TypeOK'
  <2>1. PICK s \in SessionId, u \in Users : Replaces(s, u, new)
    BY <1>3, ChangeReplaces
  <2>2. \A t \in SessionId :
          IF t > opened THEN sessions'[t] = UnusedSession
          ELSE sessions'[t].user \in Users /\ sessions'[t].state # "unused"
    <3> SUFFICES ASSUME NEW t \in SessionId
                 PROVE  IF t > opened THEN sessions'[t] = UnusedSession
                        ELSE sessions'[t].user \in Users /\ sessions'[t].state # "unused"
      OBVIOUS
    <3>1. CASE t = s
      BY <2>1, <3>1 DEF Replaces, SessionId, TypeOK
    <3>2. CASE t # s /\ sessions[t].user # u
      BY <2>1, <3>2 DEF Replaces, TypeOK
    <3>3. CASE t # s /\ sessions[t].user = u
      <4>1. ~(t > opened)
        BY <3>3 DEF TypeOK, UnusedSession
      <4> QED BY <2>1, <3>3, <4>1 DEF Replaces
    <3> QED BY <3>1, <3>2, <3>3
  <2>3. /\ UNCHANGED <<verified, opened, login>> /\ request' = [request EXCEPT ![r] = None]
        /\ sessions' \in [SessionId -> Session]
    BY <1>3, <2>1 DEF ChangePassword, Replaces
  <2>4. password' \in [Users -> Passwords] /\ generation' \in [Users -> 0 .. MaxChanges]
    BY <2>1, SetPasswordEffect DEF Replaces
  <2> QED BY <2>2, <2>3, <2>4 DEF TypeOK
<1>4. ASSUME NEW u \in Users, NEW new \in Passwords, ResetPassword(u, new) PROVE TypeOK'
  <2>1. RowsFade
    BY <1>4, ResetFades DEF ResetPassword
  <2>2. password' \in [Users -> Passwords] /\ generation' \in [Users -> 0 .. MaxChanges]
    BY <1>4, SetPasswordEffect DEF ResetPassword
  <2>3. verified' \subseteq Users /\ UNCHANGED <<opened, login, request>>
    BY <1>4 DEF ResetPassword, TypeOK
  <2> QED BY <2>1, <2>2, <2>3, FadedTypes DEF TypeOK
<1>5. CASE Quiet
  <2>1. opened' = opened
    BY <1>5 DEF Quiet, RowsFade
  <2> QED BY <1>5, <2>1, FadedTypes DEF Quiet, TypeOK
<1> QED BY <1>1, <1>2, <1>3, <1>4, <1>5, StepCases

LEMMA InitTypeOK == Init => TypeOK
<1> SUFFICES ASSUME Init PROVE TypeOK
  OBVIOUS
<1>1. UnusedSession \in Session
  BY DEF UnusedSession, Session
<1> QED BY <1>1 DEF Init, TypeOK, SessionId

\* Users, sessions and half-finished logins and requests stay well formed, and
\* every row of auth_sessions up to the last one belongs to an account.
THEOREM SessionTypes == Spec => []TypeOK
  BY InitTypeOK, NextTypeOK, PTL DEF Spec

-----------------------------------------------------------------------------
(* Live sessions are current.                                              *)

LEMMA LoginStep ==
    ASSUME TypeOK, LoginIsRecent, [Next]_vars
    PROVE  LoginIsRecent'
<1> SUFFICES ASSUME NEW l \in Logins, login'[l] # None
             PROVE  /\ login'[l].hash <= generation'[login'[l].user]
                    /\ login'[l].hash = generation'[login'[l].user]
                       => login'[l].password = password'[login'[l].user]
  BY DEF LoginIsRecent
<1>1. ASSUME login'[l] = login[l], UNCHANGED <<password, generation>>
      PROVE  /\ login'[l].hash <= generation'[login'[l].user]
             /\ login'[l].hash = generation'[login'[l].user]
                => login'[l].password = password'[login'[l].user]
  BY <1>1 DEF LoginIsRecent
<1>2. ASSUME login'[l] = login[l], NEW u \in Users, NEW new \in Passwords, SetPassword(u, new)
      PROVE  /\ login'[l].hash <= generation'[login'[l].user]
             /\ login'[l].hash = generation'[login'[l].user]
                => login'[l].password = password'[login'[l].user]
  <2>1. login[l].user \in Users /\ login[l].hash \in Nat
        /\ login[l].hash <= generation[login[l].user]
    BY <1>2, LoginAttempt DEF LoginIsRecent
  <2>2. CASE login[l].user = u
    <3>1. generation'[u] = generation[u] + 1 /\ generation[u] \in Nat
      BY <1>2, SetPasswordEffect
    <3> QED BY <1>2, <2>1, <2>2, <3>1
  <2>3. CASE login[l].user # u
    <3>1. generation'[login[l].user] = generation[login[l].user]
          /\ password'[login[l].user] = password[login[l].user]
      BY <1>2, <2>1, <2>3, SetPasswordEffect
    <3> QED BY <1>2, <2>1, <3>1 DEF LoginIsRecent
  <2> QED BY <2>2, <2>3
<1>3. ASSUME NEW k \in Logins, NEW u \in Users, NEW value \in Passwords, VerifyPassword(k, u, value)
      PROVE  /\ login'[l].hash <= generation'[login'[l].user]
             /\ login'[l].hash = generation'[login'[l].user]
                => login'[l].password = password'[login'[l].user]
  <2>1. CASE l = k
    <3>1. login'[l] = [user |-> u, password |-> value, hash |-> generation[u]]
          /\ value = password[u] /\ UNCHANGED <<password, generation>>
      BY <1>3, <2>1 DEF VerifyPassword, TypeOK
    <3>2. generation[u] \in Nat
      BY DEF TypeOK
    <3> QED BY <3>1, <3>2
  <2>2. CASE l # k
    BY <1>1, <1>3, <2>2 DEF VerifyPassword, TypeOK
  <2> QED BY <2>1, <2>2
<1>4. ASSUME NEW k \in Logins, CreateSession(k)
      PROVE  login'[l] = login[l] /\ UNCHANGED <<password, generation>>
  <2>1. login' = [login EXCEPT ![k] = None] /\ login \in [Logins -> Attempt \union {None}]
    BY <1>4 DEF CreateSession, TypeOK
  <2> QED BY <1>4, <2>1 DEF CreateSession
<1>5. CASE Quiet
  BY <1>1, <1>5 DEF Quiet
<1>6. ASSUME NEW r \in Requests, NEW current \in Passwords, NEW new \in Passwords,
             ChangePassword(r, current, new)
      PROVE  /\ login' = login /\ \E u \in Users : SetPassword(u, new)
  <2>1. \E t \in SessionId, u \in Users : Replaces(t, u, new)
    BY <1>6, ChangeReplaces
  <2>2. login' = login
    BY <1>6 DEF ChangePassword
  <2> QED BY <2>1, <2>2 DEF Replaces
<1>7. ASSUME NEW u \in Users, NEW new \in Passwords, ResetPassword(u, new)
      PROVE  login' = login /\ SetPassword(u, new)
  BY <1>7 DEF ResetPassword
<1> QED BY <1>1, <1>2, <1>3, <1>4, <1>5, <1>6, <1>7, StepCases

LEMMA LiveStep ==
    ASSUME TypeOK, LoginIsRecent, LiveSessionsAreCurrent, [Next]_vars
    PROVE  LiveSessionsAreCurrent'
<1> SUFFICES ASSUME NEW s \in SessionId, sessions'[s].state = "live"
             PROVE  /\ sessions'[s].generation = generation'[sessions'[s].user]
                    /\ sessions'[s].shown = password'[sessions'[s].user]
  BY DEF LiveSessionsAreCurrent
<1>1. CASE RowsFade /\ UNCHANGED <<password, generation>>
  BY <1>1 DEF RowsFade, LiveSessionsAreCurrent
<1>2. ASSUME NEW l \in Logins, NEW u \in Users, NEW value \in Passwords, VerifyPassword(l, u, value)
      PROVE  RowsFade /\ UNCHANGED <<password, generation>>
  BY <1>2, SameSessions DEF VerifyPassword
<1>3. ASSUME NEW l \in Logins, CreateSession(l)
      PROVE  /\ sessions'[s].generation = generation'[sessions'[s].user]
             /\ sessions'[s].shown = password'[sessions'[s].user]
  <2>1. CASE s = opened + 1
    <3>1. login[l].password = password[login[l].user]
      BY <1>3, CreatedRow DEF StillValid, LoginIsRecent
    <3> QED BY <1>3, <2>1, <3>1, CreatedRow
  <2>2. CASE s # opened + 1
    BY <1>3, <2>2, CreatedRow DEF LiveSessionsAreCurrent
  <2> QED BY <2>1, <2>2
<1>4. ASSUME NEW r \in Requests, NEW current \in Passwords, NEW new \in Passwords,
             ChangePassword(r, current, new)
      PROVE  /\ sessions'[s].generation = generation'[sessions'[s].user]
             /\ sessions'[s].shown = password'[sessions'[s].user]
  <2>1. PICK t \in SessionId, u \in Users : Replaces(t, u, new)
    BY <1>4, ChangeReplaces
  <2>2. CASE s = t
    BY <2>1, <2>2, SetPasswordEffect DEF Replaces
  <2>3. CASE s # t
    <3>1. sessions'[s] = sessions[s] /\ sessions[s].user # u
      BY <2>1, <2>3 DEF Replaces
    <3>2. sessions[s].user \in Users
      BY <3>1, LiveIsKnown, KnownSession
    <3> QED BY <2>1, <3>1, <3>2, SetPasswordEffect DEF Replaces, LiveSessionsAreCurrent
  <2> QED BY <2>2, <2>3
<1>5. ASSUME NEW u \in Users, NEW new \in Passwords, ResetPassword(u, new)
      PROVE  /\ sessions'[s].generation = generation'[sessions'[s].user]
             /\ sessions'[s].shown = password'[sessions'[s].user]
  <2>1. sessions[s].user # u /\ sessions'[s] = sessions[s]
    BY <1>5, DeletedRows DEF ResetPassword
  <2>2. sessions[s].user \in Users
    BY <2>1, LiveIsKnown, KnownSession
  <2> QED BY <1>5, <2>1, <2>2, SetPasswordEffect DEF ResetPassword, LiveSessionsAreCurrent
<1> QED BY <1>1, <1>2, <1>3, <1>4, <1>5, StepCases DEF Quiet

LEMMA NextIInv == IInv /\ [Next]_vars => IInv'
  BY NextTypeOK, LoginStep, LiveStep DEF IInv

LEMMA InitIInv == Init => IInv
  BY InitTypeOK DEF IInv, Init, LoginIsRecent, LiveSessionsAreCurrent, UnusedSession

\* Nobody stays signed in on an outdated password: a login that read the hash
\* before a change or a reset opens a session only if its password is still the
\* current one, and older sessions are gone, however many logins, changes and
\* resets interleave (_authenticate_user, change_password,
\* reset_password_with_token).
THEOREM SessionsAreCurrent == Spec => []LiveSessionsAreCurrent
<1>1. IInv => LiveSessionsAreCurrent
  BY DEF IInv
<1> QED BY <1>1, InitIInv, NextIInv, PTL DEF Spec

\* The step that replaces a password leaves its account at most the one live
\* session that made the change, and touches no row of another account
\* (DELETE FROM auth_sessions WHERE user_id, change_password).
THEOREM ReplacementIsExact == Spec => ReplacementEndsOnlyItsSessions
<1> DEFINE Exact(u) ==
      generation'[u] # generation[u] =>
        /\ \A s, t \in SessionId :
             /\ sessions'[s].state = "live" /\ sessions'[s].user = u
             /\ sessions'[t].state = "live" /\ sessions'[t].user = u
             => s = t
        /\ \A s \in SessionId : sessions[s].user # u => sessions'[s] = sessions[s]
<1>1. ASSUME TypeOK, [Next]_vars, NEW v \in Users PROVE Exact(v)
  <2> SUFFICES ASSUME generation'[v] # generation[v] PROVE Exact(v)
    OBVIOUS
  <2>1. ASSUME NEW r \in Requests, NEW current \in Passwords, NEW new \in Passwords,
               ChangePassword(r, current, new)
        PROVE  Exact(v)
    <3>1. PICK s \in SessionId, u \in Users : Replaces(s, u, new)
      BY <1>1, <2>1, ChangeReplaces
    <3>2. u = v
      BY <1>1, <3>1, SetPasswordEffect DEF Replaces
    <3> QED BY <3>1, <3>2 DEF Replaces
  <2>2. ASSUME NEW u \in Users, NEW new \in Passwords, ResetPassword(u, new) PROVE Exact(v)
    <3>1. u = v
      BY <1>1, <2>2, SetPasswordEffect DEF ResetPassword
    <3> QED BY <1>1, <2>2, <3>1, DeletedRows DEF ResetPassword
  <2>3. CASE generation' = generation
    BY <2>3
  <2> QED BY <1>1, <2>1, <2>2, <2>3, StepCases DEF VerifyPassword, CreateSession, Quiet
<1>2. TypeOK /\ [Next]_vars => [\A u \in Users : Exact(u)]_vars
  BY <1>1
<1> QED BY <1>2, SessionTypes, PTL DEF Spec, ReplacementEndsOnlyItsSessions
=============================================================================

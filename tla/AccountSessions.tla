-------------------------- MODULE AccountSessions --------------------------
(***************************************************************************)
(* Passwords and the sessions they open (app/services/auth_service.py, the *)
(* session lookup of app/utils/security.py, and the credential half of     *)
(* reset_password_with_token).                                             *)
(*                                                                         *)
(* A login reads the password hash without a lock, then takes the user row *)
(* lock and decides again; a password change runs in a request that was    *)
(* authenticated earlier.  Everything done under the user lock up to its   *)
(* commit is one action, because every writer of these rows takes it; only *)
(* logout does not, and deletes a single row.                              *)
(***************************************************************************)
EXTENDS Integers

CONSTANTS
    Users,
    Passwords,    \* the values a password can have
    Logins,       \* requests running login_user or login_browser_user
    Requests,     \* requests that have passed auth_required
    None,
    MaxSessions,  \* bound: rows ever inserted into auth_sessions
    MaxChanges    \* bound: password replacements per user

ASSUME SessionAssumption ==
    /\ None \notin Users \union Passwords
    /\ MaxSessions \in Nat
    /\ MaxChanges \in Nat

SessionId == 1 .. MaxSessions

VARIABLES
    password,    \* the value whose hash users.password_hash is
    generation,  \* which set_password call wrote that hash; equal hashes mean equal calls
    verified,    \* users with email_verified_at set
    sessions,    \* auth_sessions, numbered in creation order
    opened,      \* how many there have been
    login,       \* a login that has verified its password but not locked the user
    request      \* the session a request was authenticated with

vars == <<password, generation, verified, sessions, opened, login, request>>

\* "shown" is the password its owner last proved to know, and "generation" the
\* hash that was in place then; neither is a column.
Session == [user: Users \union {None}, shown: Passwords \union {None}, generation: Nat,
            state: {"unused", "live", "expired", "deleted"}]
UnusedSession == [user |-> None, shown |-> None, generation |-> 0, state |-> "unused"]

Attempt == [user: Users, password: Passwords, hash: Nat]

Init ==
    /\ password \in [Users -> Passwords]
    /\ generation = [u \in Users |-> 0]
    /\ verified \in SUBSET Users
    /\ sessions = [s \in SessionId |-> UnusedSession]
    /\ opened = 0
    /\ login = [l \in Logins |-> None]
    /\ request = [r \in Requests |-> None]

\* Mutant: the condition on user_id is missing.
DeleteAllSessions(u, kept) ==
    [s \in SessionId |->
        IF s \notin kept THEN [sessions[s] EXCEPT !.state = "deleted"] ELSE sessions[s]]

\* DELETE FROM auth_sessions of a user, except at most one row.
DeleteSessions(u, kept) ==
    [s \in SessionId |->
        IF sessions[s].user = u /\ s \notin kept
        THEN [sessions[s] EXCEPT !.state = "deleted"]
        ELSE sessions[s]]

-----------------------------------------------------------------------------
\* _authenticate_user up to the first check_password, on an unlocked read.
VerifyPassword(l, u, value) ==
    /\ login[l] = None
    /\ value = password[u]
    /\ login' = [login EXCEPT ![l] = [user |-> u, password |-> value, hash |-> generation[u]]]
    /\ UNCHANGED <<password, generation, verified, sessions, opened, request>>

\* Mutant: the decision made before the lock stands.
DecidedBefore(a) == TRUE

\* The decision repeated on the locked row: same hash, or the password still fits.
StillValid(a) == \/ a.hash = generation[a.user]
                 \/ a.password = password[a.user]

\* The rest of _authenticate_user and _create_auth_session, one transaction.
CreateSession(l) ==
    /\ login[l] # None
    /\ opened < MaxSessions
    /\ StillValid(login[l])
    /\ opened' = opened + 1
    /\ sessions' = [sessions EXCEPT ![opened + 1] =
                      [user |-> login[l].user, shown |-> login[l].password,
                       generation |-> generation[login[l].user], state |-> "live"]]
    /\ login' = [login EXCEPT ![l] = None]
    /\ UNCHANGED <<password, generation, verified, request>>

RefuseLogin(l) ==
    /\ login[l] # None
    /\ ~StillValid(login[l])
    /\ login' = [login EXCEPT ![l] = None]
    /\ UNCHANGED <<password, generation, verified, sessions, opened, request>>

\* auth_required: the row exists and has not expired.
Authenticate(r, s) ==
    /\ request[r] = None
    /\ sessions[s].state = "live"
    /\ request' = [request EXCEPT ![r] = s]
    /\ UNCHANGED <<password, generation, verified, sessions, opened, login>>

\* A request that changes nothing here, or whose change_password is refused.
EndRequest(r) ==
    /\ request[r] # None
    /\ request' = [request EXCEPT ![r] = None]
    /\ UNCHANGED <<password, generation, verified, sessions, opened, login>>

Logout(r) ==
    /\ request[r] # None
    /\ sessions' = [sessions EXCEPT ![request[r]].state = "deleted"]
    /\ request' = [request EXCEPT ![r] = None]
    /\ UNCHANGED <<password, generation, verified, opened, login>>

SetPassword(u, new) ==
    /\ generation[u] < MaxChanges
    /\ password' = [password EXCEPT ![u] = new]
    /\ generation' = [generation EXCEPT ![u] = @ + 1]

\* change_password.  It does not look whether its own session still exists;
\* a request that does know the current password may act on a deleted one.
ChangePassword(r, current, new) ==
    /\ request[r] # None
    /\ LET s == request[r]
           u == sessions[s].user
       IN  /\ u \in verified
           /\ current = password[u]
           /\ new # current
           /\ SetPassword(u, new)
           /\ sessions' = [DeleteSessions(u, {s}) EXCEPT ![s].shown = new,
                                                         ![s].generation = generation[u] + 1]
    /\ request' = [request EXCEPT ![r] = None]
    /\ UNCHANGED <<verified, opened, login>>

\* reset_password_with_token, once its link is claimed; the new password may
\* be the old one.
ResetPassword(u, new) ==
    /\ SetPassword(u, new)
    /\ verified' = verified \union {u}
    /\ sessions' = DeleteSessions(u, {})
    /\ UNCHANGED <<opened, login, request>>

\* confirm_email_verification, as far as change_password depends on it.
VerifyEmail(u) ==
    /\ u \notin verified
    /\ verified' = verified \union {u}
    /\ UNCHANGED <<password, generation, sessions, opened, login, request>>

\* expires_at passes.
Expire(s) ==
    /\ sessions[s].state = "live"
    /\ sessions' = [sessions EXCEPT ![s].state = "expired"]
    /\ UNCHANGED <<password, generation, verified, opened, login, request>>

Next ==
    \/ \E l \in Logins : \/ \E u \in Users, value \in Passwords : VerifyPassword(l, u, value)
                         \/ CreateSession(l)
                         \/ RefuseLogin(l)
    \/ \E r \in Requests : \/ \E s \in SessionId : Authenticate(r, s)
                           \/ EndRequest(r)
                           \/ Logout(r)
                           \/ \E current, new \in Passwords : ChangePassword(r, current, new)
    \/ \E u \in Users : VerifyEmail(u) \/ \E new \in Passwords : ResetPassword(u, new)
    \/ \E s \in SessionId : Expire(s)

Spec == Init /\ [][Next]_vars

-----------------------------------------------------------------------------
\* Sessions and half-finished calls are well formed (auth_sessions, login
\* state of _authenticate_user, g.auth_session).
TypeOK ==
    /\ password \in [Users -> Passwords]
    /\ generation \in [Users -> 0 .. MaxChanges]
    /\ verified \subseteq Users
    /\ sessions \in [SessionId -> Session]
    /\ opened \in 0 .. MaxSessions
    /\ \A s \in SessionId :
         IF s > opened THEN sessions[s] = UnusedSession
         ELSE sessions[s].user \in Users /\ sessions[s].state # "unused"
    /\ login \in [Logins -> Attempt \union {None}]
    /\ request \in [Requests -> SessionId \union {None}]
    /\ \A r \in Requests : request[r] # None => request[r] <= opened

\* Nobody stays signed in on an outdated password: a login that overlaps a
\* reset or a change either sees the new hash or is refused, and the sessions
\* opened before are gone, except the one that made the change
\* (_authenticate_user, change_password, reset_password_with_token).
LiveSessionsAreCurrent ==
    \A s \in SessionId : sessions[s].state = "live" =>
        /\ sessions[s].generation = generation[sessions[s].user]
        /\ sessions[s].shown = password[sessions[s].user]

\* A replaced password ends every other session of the account in the same
\* step, and no session of another account (DELETE ... WHERE user_id).
ReplacementEndsOnlyItsSessions ==
    [][\A u \in Users : generation'[u] # generation[u] =>
         /\ \A s, t \in SessionId :
              /\ sessions'[s].state = "live" /\ sessions'[s].user = u
              /\ sessions'[t].state = "live" /\ sessions'[t].user = u
              => s = t
         /\ \A s \in SessionId : sessions[s].user # u => sessions'[s] = sessions[s]]_vars
=============================================================================

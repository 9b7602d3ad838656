--------------------------- MODULE BrowserSession ---------------------------
(***************************************************************************)
(* One browser signed in with cookies (app/static/js/auth.js against       *)
(* app/routes/auth.py and app/utils/security.py).                          *)
(*                                                                         *)
(* All tabs share a jar with two cookies: the session and the CSRF token   *)
(* bound to it.  A request carries the cookies of the moment it is sent,   *)
(* the server decides later, and the answer changes the jar when it        *)
(* arrives; answers to different tabs may arrive in any order or never.  A *)
(* page that is reloaded or closed gives its request up, and the server    *)
(* carries it out all the same.                                            *)
(***************************************************************************)
EXTENDS Integers

CONSTANTS
    Tabs,         \* pages, or parallel requests of one page
    None,
    MaxSessions,  \* bound: browser sessions ever opened
    MaxTokens,    \* bound: CSRF tokens ever generated
    MaxLosses     \* bound: requests given up, answers and cookies lost

ASSUME BrowserAssumption ==
    /\ None \notin Nat
    /\ Tabs \intersect Nat = {}
    /\ MaxSessions \in Nat
    /\ MaxTokens \in Nat
    /\ MaxLosses \in Nat

SessionId == 1 .. MaxSessions
CsrfToken == 1 .. MaxTokens
GivenUp == 1 .. MaxLosses           \* places of requests no page waits for
Request == Tabs \union GivenUp

VARIABLES
    csrf,       \* csrf_token_hash of each auth_sessions row; None: no live row
    opened,
    generated,
    jar,        \* the two cookies
    tab,        \* the request of each tab, and those given up
    losses

vars == <<csrf, opened, generated, jar, tab, losses>>

Unsafe == {"act", "logout"}     \* requests with a method other than GET
Jar == [session: SessionId \union {None}, csrf: CsrfToken \union {None}]
EmptyJar == [session |-> None, csrf |-> None]

\* "cookies" are those sent, "answer" is what Set-Cookie leaves in the jar:
\* a session of None keeps the session cookie.
Tab == [pc: {"idle", "prepared", "sent", "keep", "clear", "set"},
        request: {"none", "login", "visit", "restore"} \union Unsafe,
        header: CsrfToken \union {None}, cookies: Jar, answer: Jar]
IdleTab == [pc |-> "idle", request |-> "none", header |-> None,
            cookies |-> EmptyJar, answer |-> EmptyJar]

Init ==
    /\ csrf = [s \in SessionId |-> None]
    /\ opened = 0
    /\ generated = 0
    /\ jar = EmptyJar
    /\ tab = [t \in Request |-> IdleTab]
    /\ losses = 0

At(t, pc) == tab[t].pc = pc
Sent(t, request) == At(t, "sent") /\ tab[t].request = request
Cookie(t) == tab[t].cookies.session
Authenticated(t) == Cookie(t) # None /\ csrf[Cookie(t)] # None

\* _valid_cookie_csrf
ValidCsrf(t) == /\ tab[t].header # None
                /\ tab[t].header = tab[t].cookies.csrf
                /\ tab[t].header = csrf[Cookie(t)]

-----------------------------------------------------------------------------
(* The page.                                                               *)

\* ensureCsrfToken with the cookie in place: the header is read from it.
Prepare(t, request) ==
    /\ At(t, "idle")
    /\ jar.csrf # None
    /\ tab' = [tab EXCEPT ![t].pc = "prepared", ![t].request = request, ![t].header = jar.csrf]
    /\ UNCHANGED <<csrf, opened, generated, jar, losses>>

SendUnsafe(t) ==
    /\ At(t, "prepared")
    /\ tab' = [tab EXCEPT ![t].pc = "sent", ![t].cookies = jar]
    /\ UNCHANGED <<csrf, opened, generated, jar, losses>>

\* A login or a GET; the CSRF token is restored only while its cookie is missing.
Send(t, request) ==
    /\ At(t, "idle")
    /\ request = "restore" => jar.csrf = None
    /\ tab' = [tab EXCEPT ![t].pc = "sent", ![t].request = request, ![t].cookies = jar]
    /\ UNCHANGED <<csrf, opened, generated, jar, losses>>

\* The browser applies Set-Cookie and the page goes on.
Deliver(t) ==
    /\ tab[t].pc \in {"keep", "clear", "set"}
    /\ jar' = CASE At(t, "keep") -> jar
                [] At(t, "clear") -> EmptyJar
                [] At(t, "set") ->
                     [session |-> IF tab[t].answer.session = None
                                  THEN jar.session ELSE tab[t].answer.session,
                      csrf |-> tab[t].answer.csrf]
    /\ tab' = [tab EXCEPT ![t] = IdleTab]
    /\ UNCHANGED <<csrf, opened, generated, losses>>

\* The page is reloaded or closed, or its connection breaks, while the request
\* is at the server: it is carried out later and its answer goes nowhere.
GiveUp(t) ==
    /\ At(t, "sent")
    /\ losses < MaxLosses
    /\ losses' = losses + 1
    /\ tab' = [tab EXCEPT ![losses + 1] = tab[t], ![t] = IdleTab]
    /\ UNCHANGED <<csrf, opened, generated, jar>>

\* The answer has been made and does not arrive.
LoseAnswer(t) ==
    /\ tab[t].pc \in {"keep", "clear", "set"}
    /\ losses < MaxLosses
    /\ losses' = losses + 1
    /\ tab' = [tab EXCEPT ![t] = IdleTab]
    /\ UNCHANGED <<csrf, opened, generated, jar>>

\* The readable cookie disappears: the case refresh_csrf exists for.
LoseCsrfCookie ==
    /\ jar.csrf # None
    /\ losses < MaxLosses
    /\ losses' = losses + 1
    /\ jar' = [jar EXCEPT !.csrf = None]
    /\ UNCHANGED <<csrf, opened, generated, tab>>

-----------------------------------------------------------------------------
(* The server, for a request t of a tab or one given up.                   *)

Keep(t) == tab' = [tab EXCEPT ![t].pc = "keep"]
Clear(t) == tab' = [tab EXCEPT ![t].pc = "clear"]
SetCookies(t, session, token) ==
    tab' = [tab EXCEPT ![t].pc = "set", ![t].answer = [session |-> session, csrf |-> token]]

\* Mutant: the CSRF token of the login is not a fresh one.
LoginReusingToken(t) ==
    /\ Sent(t, "login")
    /\ opened < MaxSessions
    /\ opened' = opened + 1
    /\ generated' = 1
    /\ csrf' = [csrf EXCEPT ![opened + 1] = 1]
    /\ SetCookies(t, opened + 1, 1)
    /\ UNCHANGED <<jar, losses>>

\* browser_login; a session the jar still names is left alone.
Login(t) ==
    /\ Sent(t, "login")
    /\ opened < MaxSessions
    /\ generated < MaxTokens
    /\ opened' = opened + 1
    /\ generated' = generated + 1
    /\ csrf' = [csrf EXCEPT ![opened + 1] = generated + 1]
    /\ SetCookies(t, opened + 1, generated + 1)
    /\ UNCHANGED <<jar, losses>>

\* The credentials are wrong, or the request is not same-origin.
RefuseLogin(t) ==
    /\ Sent(t, "login")
    /\ Keep(t)
    /\ UNCHANGED <<csrf, opened, generated, jar, losses>>

\* 401 of auth_required: cookies that were sent are cleared.
RefuseSession(t) ==
    /\ At(t, "sent")
    /\ tab[t].request # "login"
    /\ ~Authenticated(t)
    /\ IF Cookie(t) = None THEN Keep(t) ELSE Clear(t)
    /\ UNCHANGED <<csrf, opened, generated, jar, losses>>

\* 403 of auth_required: the cookies stay, whatever is wrong with them.
RefuseCsrf(t) ==
    /\ At(t, "sent")
    /\ tab[t].request \in Unsafe
    /\ Authenticated(t)
    /\ ~ValidCsrf(t)
    /\ Keep(t)
    /\ UNCHANGED <<csrf, opened, generated, jar, losses>>

\* Any other route; what it changes is not part of this module.
Serve(t) ==
    /\ Sent(t, "visit") \/ (Sent(t, "act") /\ ValidCsrf(t))
    /\ Authenticated(t)
    /\ Keep(t)
    /\ UNCHANGED <<csrf, opened, generated, jar, losses>>

\* Mutant: the new digest is not committed.
RefreshUncommitted(t) ==
    /\ Sent(t, "restore")
    /\ Authenticated(t)
    /\ generated < MaxTokens
    /\ generated' = generated + 1
    /\ SetCookies(t, None, generated + 1)
    /\ UNCHANGED <<csrf, opened, jar, losses>>

\* refresh_csrf and rotate_session_csrf: a new token, digest and cookie.
RefreshCsrf(t) ==
    /\ Sent(t, "restore")
    /\ Authenticated(t)
    /\ generated < MaxTokens
    /\ generated' = generated + 1
    /\ csrf' = [csrf EXCEPT ![Cookie(t)] = generated + 1]
    /\ SetCookies(t, None, generated + 1)
    /\ UNCHANGED <<opened, jar, losses>>

Logout(t) ==
    /\ Sent(t, "logout")
    /\ Authenticated(t)
    /\ ValidCsrf(t)
    /\ csrf' = [csrf EXCEPT ![Cookie(t)] = None]
    /\ Clear(t)
    /\ UNCHANGED <<opened, generated, jar, losses>>

\* expires_at passes, or another device replaces the password.
EndSession(s) ==
    /\ csrf[s] # None
    /\ csrf' = [csrf EXCEPT ![s] = None]
    /\ UNCHANGED <<opened, generated, jar, tab, losses>>

TabStep(t) ==
    \/ \E request \in Unsafe : Prepare(t, request)
    \/ SendUnsafe(t)
    \/ \E request \in {"login", "visit", "restore"} : Send(t, request)
    \/ Deliver(t)
    \/ GiveUp(t)
    \/ LoseAnswer(t)

ServerStep(t) ==
    \/ Login(t)
    \/ RefuseLogin(t)
    \/ RefuseSession(t)
    \/ RefuseCsrf(t)
    \/ Serve(t)
    \/ RefreshCsrf(t)
    \/ Logout(t)

Next == \/ \E t \in Tabs : TabStep(t)
        \/ \E t \in Request : ServerStep(t)
        \/ \E s \in SessionId : EndSession(s)
        \/ LoseCsrfCookie

Spec == Init /\ [][Next]_vars

-----------------------------------------------------------------------------
\* Cookies and digests come from tokens that were generated, and no two live
\* sessions share one (the cookies of set_browser_auth_cookies, AuthSession).
TypeOK ==
    /\ csrf \in [SessionId -> CsrfToken \union {None}]
    /\ opened \in 0 .. MaxSessions
    /\ generated \in 0 .. MaxTokens
    /\ jar \in Jar
    /\ tab \in [Request -> Tab]
    /\ losses \in 0 .. MaxLosses
    /\ \A s \in SessionId : csrf[s] # None => s <= opened /\ csrf[s] <= generated
    /\ \A r, s \in SessionId : csrf[r] = csrf[s] /\ csrf[r] # None => r = s

\* Nothing is in flight to a page, and the jar names a live session and a token.
Settled ==
    /\ \A t \in Tabs : At(t, "idle")
    /\ jar.csrf # None
    /\ jar.session # None
    /\ csrf[jar.session] # None

\* A test of refresh_csrf ends with "session.csrf_token_hash ==
\* hash_csrf_token(refreshed_cookie.value)" (tests/test_auth.py:580): the two
\* cookies fit together, and the next unsafe request is not refused.
PairWorks == Settled => jar.csrf = csrf[jar.session]

\* Tokens that are in the answer to a request the page had given up before the
\* server came to it: no jar ever gets them.
Unheard == {tab[i].answer.csrf : i \in {g \in GivenUp : At(g, "set")}}

\* With one tab the pair breaks in a single way, a refresh_csrf that was given
\* up and commits its digest after a later one was answered.  Answers and
\* cookies that are lost, logins and logouts given up, and sessions that end
\* never leave the browser with a token that does not fit.
MisfitIsUnheard == Settled => csrf[jar.session] \in Unheard \union {jar.csrf}
=============================================================================

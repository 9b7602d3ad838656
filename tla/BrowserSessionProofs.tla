----------------------- MODULE BrowserSessionProofs -----------------------
(***************************************************************************)
(* Proofs about BrowserSession: sessions never share a CSRF token, and a   *)
(* browser with a single tab keeps cookies that fit together, unless a     *)
(* refresh it had given up has replaced the digest.                        *)
(***************************************************************************)
EXTENDS BrowserSession, TLAPS

USE BrowserAssumption

Types ==
    /\ csrf \in [SessionId -> CsrfToken \union {None}]
    /\ opened \in 0 .. MaxSessions
    /\ generated \in 0 .. MaxTokens
    /\ jar \in Jar
    /\ tab \in [Request -> Tab]
    /\ losses \in 0 .. MaxLosses

TokensAreOwn ==
    /\ \A s \in SessionId : csrf[s] # None => s <= opened /\ csrf[s] <= generated
    /\ \A r, s \in SessionId : csrf[r] = csrf[s] /\ csrf[r] # None => r = s

\* No cookie names a session that has not been opened.
CookiesAreOld ==
    /\ jar.session # None => jar.session <= opened
    /\ \A t \in Tabs : /\ Cookie(t) # None => Cookie(t) <= opened
                       /\ tab[t].answer.session # None => tab[t].answer.session <= opened

\* With one tab the jar keeps the session its request was sent with, and a
\* token is restored only while the jar has none.
JarWaits ==
    \A t \in Tabs :
        /\ tab[t].pc = "prepared" => tab[t].request # "restore"
        /\ tab[t].pc \in {"sent", "set"} => jar.session = Cookie(t)
        /\ tab[t].pc \in {"sent", "set"} /\ tab[t].request = "restore" => jar.csrf = None

\* A token fits unless its session has ended or an unheard one has replaced it.
Fit(session, token) ==
    session # None /\ csrf[session] # None => csrf[session] \in Unheard \union {token}

\* The answer brings a pair that fits.
AnswerFits ==
    \A t \in Tabs :
        tab[t].pc = "set" =>
            Fit(IF tab[t].answer.session = None THEN jar.session ELSE tab[t].answer.session,
                tab[t].answer.csrf)
JarFits == jar.csrf # None => Fit(jar.session, jar.csrf)

Pair == CookiesAreOld /\ JarWaits /\ AnswerFits /\ JarFits

\* Places for requests to be given up later are free.
FreePlaces == \A i \in GivenUp : i > losses => At(i, "idle")

-----------------------------------------------------------------------------
(* What the actions do to a tab.                                           *)

\* Nothing else happens to the tabs than that t becomes r.
Becomes(t, r) ==
    /\ r \in Tab
    /\ tab' \in [Request -> Tab]
    /\ tab'[t] = r
    /\ \A u \in Request : u # t => tab'[u] = tab[u]

LEMMA TabFields ==
    ASSUME NEW r \in Tab
    PROVE  /\ r.header \in CsrfToken \union {None}
           /\ r.cookies \in Jar /\ r.answer \in Jar
           /\ r.cookies.session \in SessionId \union {None}
           /\ r.answer.session \in SessionId \union {None}
           /\ r.answer.csrf \in CsrfToken \union {None}
  BY DEF Tab, Jar

LEMMA Empty ==
    /\ EmptyJar \in Jar /\ EmptyJar.session = None /\ EmptyJar.csrf = None
    /\ IdleTab \in Tab /\ IdleTab.pc = "idle" /\ IdleTab.cookies = EmptyJar
    /\ IdleTab.answer = EmptyJar /\ IdleTab.request = "none"
  BY DEF EmptyJar, IdleTab, Jar, Tab

LEMMA Places == Tabs \subseteq Request /\ GivenUp \subseteq Request /\ Tabs \intersect GivenUp = {}
  BY DEF Request, GivenUp

LEMMA Swapped ==
    ASSUME Types, NEW t \in Request, NEW r \in Tab, tab' = [tab EXCEPT ![t] = r]
    PROVE  Becomes(t, r)
  BY DEF Types, Becomes

\* A page prepares or sends a request, or waits no longer.
LEMMA PrepareEffect ==
    ASSUME Types, NEW t \in Request, NEW request \in Unsafe, Prepare(t, request)
    PROVE  /\ \E r \in Tab : /\ Becomes(t, r) /\ r.pc = "prepared"
                             /\ r.request # "restore"
                             /\ r.cookies = tab[t].cookies /\ r.answer = tab[t].answer
           /\ UNCHANGED <<csrf, opened, generated, jar, losses>>
<1>1. PICK r : r = [tab[t] EXCEPT !.pc = "prepared", !.request = request, !.header = jar.csrf]
  OBVIOUS
<1>2. tab \in [Request -> Tab] /\ tab[t] \in Tab /\ jar.csrf \in CsrfToken \union {None}
  BY DEF Types, Jar
<1>3. /\ r \in Tab /\ r.pc = "prepared" /\ r.request # "restore"
      /\ r.cookies = tab[t].cookies /\ r.answer = tab[t].answer
  BY <1>1, <1>2 DEF Tab, Unsafe
<1>4. tab' = [tab EXCEPT ![t] = r]
  BY <1>1, <1>2 DEF Prepare, Tab
<1> QED BY <1>3, <1>4, Swapped DEF Prepare

LEMMA SendEffect ==
    ASSUME Types, NEW t \in Request,
           SendUnsafe(t) \/ \E request \in {"login", "visit", "restore"} : Send(t, request)
    PROVE  /\ \E r \in Tab : /\ Becomes(t, r) /\ r.pc = "sent"
                             /\ r.cookies = jar /\ r.answer = tab[t].answer
                             /\ SendUnsafe(t)
                                  => r.request = tab[t].request /\ tab[t].pc = "prepared"
                             /\ r.request = "restore" => SendUnsafe(t) \/ jar.csrf = None
           /\ UNCHANGED <<csrf, opened, generated, jar, losses>>
<1>0. tab \in [Request -> Tab] /\ tab[t] \in Tab /\ jar \in Jar
  BY DEF Types
<1>1. CASE SendUnsafe(t)
  <2>1. PICK r : r = [tab[t] EXCEPT !.pc = "sent", !.cookies = jar]
    OBVIOUS
  <2>2. /\ r \in Tab /\ r.pc = "sent" /\ r.cookies = jar /\ r.answer = tab[t].answer
        /\ r.request = tab[t].request
    BY <1>0, <2>1 DEF Tab
  <2>3. tab' = [tab EXCEPT ![t] = r]
    BY <1>0, <1>1, <2>1 DEF SendUnsafe, Tab
  <2> QED BY <1>1, <2>2, <2>3, Swapped DEF SendUnsafe, At
<1>2. ASSUME NEW request \in {"login", "visit", "restore"}, Send(t, request), ~SendUnsafe(t)
      PROVE  /\ \E r \in Tab : /\ Becomes(t, r) /\ r.pc = "sent"
                               /\ r.cookies = jar /\ r.answer = tab[t].answer
                               /\ r.request = "restore" => jar.csrf = None
             /\ UNCHANGED <<csrf, opened, generated, jar, losses>>
  <2>1. PICK r : r = [tab[t] EXCEPT !.pc = "sent", !.request = request, !.cookies = jar]
    OBVIOUS
  <2>2. /\ r \in Tab /\ r.pc = "sent" /\ r.cookies = jar /\ r.answer = tab[t].answer
        /\ r.request = request
    BY <1>0, <2>1 DEF Tab, Unsafe
  <2>3. tab' = [tab EXCEPT ![t] = r]
    BY <1>0, <1>2, <2>1 DEF Send, Tab
  <2> QED BY <1>2, <2>2, <2>3, Swapped DEF Send
<1> QED BY <1>1, <1>2

\* The server answers without a pair of cookies.
Silent(t) == RefuseLogin(t) \/ RefuseSession(t) \/ RefuseCsrf(t) \/ Serve(t) \/ Logout(t)

LEMMA AnswerEffect ==
    ASSUME Types, NEW t \in Request, Silent(t)
    PROVE  /\ \E r \in Tab : /\ Becomes(t, r) /\ r.pc \in {"keep", "clear"}
                             /\ r.cookies = tab[t].cookies /\ r.answer = tab[t].answer
           /\ tab[t].pc = "sent"
           /\ UNCHANGED <<opened, generated, jar, losses>>
           /\ \/ UNCHANGED csrf
              \/ Authenticated(t) /\ csrf' = [csrf EXCEPT ![Cookie(t)] = None]
<1>0. tab \in [Request -> Tab] /\ tab[t] \in Tab
  BY DEF Types
<1>1. PICK pc \in {"keep", "clear"} : tab' = [tab EXCEPT ![t].pc = pc]
  BY DEF Silent, RefuseLogin, RefuseSession, RefuseCsrf, Serve, Logout, Keep, Clear
<1>2. PICK r : r = [tab[t] EXCEPT !.pc = pc]
  OBVIOUS
<1>3. r \in Tab /\ r.pc = pc /\ r.cookies = tab[t].cookies /\ r.answer = tab[t].answer
  BY <1>0, <1>2 DEF Tab
<1>4. tab' = [tab EXCEPT ![t] = r]
  BY <1>0, <1>1, <1>2 DEF Tab
<1>5. Becomes(t, r)
  BY <1>3, <1>4, Swapped
<1> QED BY <1>3, <1>5 DEF Silent, RefuseLogin, RefuseSession, RefuseCsrf, Serve, Logout, Sent, At

\* The server answers with a pair of cookies.
LEMMA SetEffect ==
    ASSUME Types, NEW t \in Request, NEW session \in SessionId \union {None},
           NEW token \in CsrfToken, SetCookies(t, session, token)
    PROVE  \E r \in Tab : /\ Becomes(t, r) /\ r.pc = "set"
                          /\ r.cookies = tab[t].cookies /\ r.request = tab[t].request
                          /\ r.answer.session = session /\ r.answer.csrf = token
<1>0. tab \in [Request -> Tab] /\ tab[t] \in Tab
  BY DEF Types
<1>1. PICK a : a = [session |-> session, csrf |-> token]
  OBVIOUS
<1>2. a \in Jar /\ a.session = session /\ a.csrf = token
  BY <1>1 DEF Jar
<1>3. PICK r : r = [tab[t] EXCEPT !.pc = "set", !.answer = a]
  OBVIOUS
<1>4. /\ r \in Tab /\ r.pc = "set" /\ r.cookies = tab[t].cookies /\ r.request = tab[t].request
      /\ r.answer = a
  BY <1>0, <1>2, <1>3 DEF Tab
<1>5. tab' = [tab EXCEPT ![t] = r]
  BY <1>0, <1>1, <1>3 DEF SetCookies, Tab
<1>6. Becomes(t, r)
  BY <1>4, <1>5, Swapped
<1> QED BY <1>2, <1>4, <1>6

LEMMA LoginEffect ==
    ASSUME Types, NEW t \in Request, Login(t)
    PROVE  /\ \E r \in Tab : /\ Becomes(t, r) /\ r.pc = "set"
                             /\ r.cookies = tab[t].cookies /\ r.request = "login"
                             /\ r.answer.session = opened + 1
                             /\ r.answer.csrf = generated + 1
           /\ tab[t].pc = "sent"
           /\ opened' = opened + 1 /\ opened + 1 \in SessionId /\ opened \in Nat
           /\ generated' = generated + 1 /\ generated + 1 \in CsrfToken /\ generated \in Nat
           /\ csrf' = [csrf EXCEPT ![opened + 1] = generated + 1]
           /\ UNCHANGED <<jar, losses>>
<1>1. /\ opened + 1 \in SessionId /\ opened \in Nat
      /\ generated + 1 \in CsrfToken /\ generated \in Nat
  BY DEF Login, Types, SessionId, CsrfToken
<1>2. PICK s \in SessionId, k \in CsrfToken : s = opened + 1 /\ k = generated + 1
  BY <1>1
<1>3. SetCookies(t, s, k) /\ tab[t].request = "login" /\ tab[t].pc = "sent"
  BY <1>2 DEF Login, Sent, At
<1>4. PICK r \in Tab : /\ Becomes(t, r) /\ r.pc = "set"
                       /\ r.cookies = tab[t].cookies /\ r.request = tab[t].request
                       /\ r.answer.session = s /\ r.answer.csrf = k
  BY <1>3, SetEffect
<1> QED BY <1>1, <1>2, <1>3, <1>4 DEF Login

LEMMA RefreshEffect ==
    ASSUME Types, NEW t \in Request, RefreshCsrf(t)
    PROVE  /\ \E r \in Tab : /\ Becomes(t, r) /\ r.pc = "set"
                             /\ r.cookies = tab[t].cookies /\ r.request = "restore"
                             /\ r.answer.session = None
                             /\ r.answer.csrf = generated + 1
           /\ tab[t].pc = "sent" /\ tab[t].request = "restore"
           /\ Authenticated(t) /\ Cookie(t) \in SessionId
           /\ generated' = generated + 1 /\ generated + 1 \in CsrfToken /\ generated \in Nat
           /\ csrf' = [csrf EXCEPT ![Cookie(t)] = generated + 1]
           /\ UNCHANGED <<opened, jar, losses>>
<1>1. generated + 1 \in CsrfToken /\ generated \in Nat
  BY DEF RefreshCsrf, Types, CsrfToken
<1>2. PICK k \in CsrfToken : k = generated + 1
  BY <1>1
<1>3. /\ SetCookies(t, None, k) /\ tab[t].request = "restore" /\ tab[t].pc = "sent"
      /\ Authenticated(t)
  BY <1>2 DEF RefreshCsrf, Sent, At
<1>4. PICK r \in Tab : /\ Becomes(t, r) /\ r.pc = "set"
                       /\ r.cookies = tab[t].cookies /\ r.request = tab[t].request
                       /\ r.answer.session = None /\ r.answer.csrf = k
  BY <1>3, SetEffect
<1>5. Cookie(t) \in SessionId
  BY <1>3, TabFields DEF Authenticated, Cookie, Types
<1> QED BY <1>1, <1>2, <1>3, <1>4, <1>5 DEF RefreshCsrf

LEMMA DeliverEffect ==
    ASSUME Types, NEW t \in Request, Deliver(t)
    PROVE  /\ Becomes(t, IdleTab)
           /\ jar' \in Jar
           /\ \/ jar' = jar
              \/ jar'.session = None /\ jar'.csrf = None
              \/ /\ tab[t].pc = "set"
                 /\ jar'.session = IF tab[t].answer.session = None
                                   THEN jar.session ELSE tab[t].answer.session
                 /\ jar'.csrf = tab[t].answer.csrf
           /\ UNCHANGED <<csrf, opened, generated, losses>>
<1>0. tab[t] \in Tab /\ jar \in Jar
  BY DEF Types
<1>1. Becomes(t, IdleTab)
  BY Empty, Swapped DEF Deliver
<1>2. CASE At(t, "keep")
  BY <1>0, <1>1, <1>2 DEF Deliver, At
<1>3. CASE At(t, "clear")
  BY <1>0, <1>1, <1>3, Empty DEF Deliver, At
<1>4. CASE At(t, "set")
  <2>1. jar' = [session |-> IF tab[t].answer.session = None
                            THEN jar.session ELSE tab[t].answer.session,
                csrf |-> tab[t].answer.csrf]
    BY <1>4 DEF Deliver, At
  <2>2. jar' \in Jar
    BY <1>0, <2>1, TabFields DEF Jar
  <2> QED BY <1>1, <1>4, <2>1, <2>2 DEF Deliver, At
<1> QED BY <1>2, <1>3, <1>4 DEF Deliver, At

LEMMA LossEffect ==
    ASSUME Types, NEW t \in Request, LoseAnswer(t)
    PROVE  Becomes(t, IdleTab) /\ losses' = losses + 1 /\ losses' \in 0 .. MaxLosses
           /\ UNCHANGED <<csrf, opened, generated, jar>>
<1>1. Becomes(t, IdleTab) /\ UNCHANGED <<csrf, opened, generated, jar>>
  BY Empty, Swapped DEF LoseAnswer
<1>2. losses' = losses + 1 /\ losses' \in 0 .. MaxLosses
  BY DEF LoseAnswer, Types
<1> QED BY <1>1, <1>2

LEMMA GiveUpEffect ==
    ASSUME Types, NEW t \in Tabs, GiveUp(t)
    PROVE  /\ losses + 1 \in GivenUp /\ losses' = losses + 1 /\ losses' \in 0 .. MaxLosses
           /\ tab' \in [Request -> Tab]
           /\ tab'[t] = IdleTab /\ tab[t].pc = "sent"
           /\ \A u \in Request \ {t, losses + 1} : tab'[u] = tab[u]
           /\ UNCHANGED <<csrf, opened, generated, jar>>
<1>1. losses + 1 \in GivenUp /\ losses' \in 0 .. MaxLosses
  BY DEF GiveUp, Types, GivenUp
<1>2. PICK i \in GivenUp : i = losses + 1
  BY <1>1
<1>3. i # t /\ i \in Request /\ t \in Request
  BY Places
<1>4. tab' = [tab EXCEPT ![i] = tab[t], ![t] = IdleTab]
  BY <1>2 DEF GiveUp
<1>5. /\ tab' \in [Request -> Tab] /\ tab'[t] = IdleTab
      /\ \A u \in Request \ {t, i} : tab'[u] = tab[u]
  BY <1>3, <1>4, Empty DEF Types
<1> QED BY <1>1, <1>2, <1>5 DEF GiveUp, At

LEMMA CookieLossEffect ==
    ASSUME Types, LoseCsrfCookie
    PROVE  /\ jar' \in Jar /\ jar'.session = jar.session /\ jar'.csrf = None
           /\ losses' = losses + 1 /\ losses' \in 0 .. MaxLosses
           /\ UNCHANGED <<csrf, opened, generated, tab>>
  BY DEF LoseCsrfCookie, Types, Jar

-----------------------------------------------------------------------------
(* Sessions never share a token, with any number of tabs.                  *)

LEMMA TabsStay ==
    ASSUME NEW t \in Request, NEW r \in Tab, Becomes(t, r)
    PROVE  tab' \in [Request -> Tab]
  BY DEF Becomes

LEMMA NextTokens ==
    ASSUME Types, TokensAreOwn, [Next]_vars
    PROVE  Types' /\ TokensAreOwn'
<1>0. /\ csrf \in [SessionId -> CsrfToken \union {None}]
      /\ opened \in 0 .. MaxSessions /\ generated \in 0 .. MaxTokens
      /\ jar \in Jar /\ tab \in [Request -> Tab] /\ losses \in 0 .. MaxLosses
  BY DEF Types
<1>a. ASSUME UNCHANGED <<csrf, opened, generated>>, tab' \in [Request -> Tab], jar' \in Jar,
             losses' \in 0 .. MaxLosses
      PROVE  Types' /\ TokensAreOwn'
  BY <1>0, <1>a DEF Types, TokensAreOwn
<1>b. ASSUME NEW s \in SessionId, csrf' = [csrf EXCEPT ![s] = None],
             UNCHANGED <<opened, generated, jar, losses>>, tab' \in [Request -> Tab]
      PROVE  Types' /\ TokensAreOwn'
  <2>1. Types'
    BY <1>0, <1>b DEF Types
  <2>2. TokensAreOwn'
    BY <1>0, <1>b DEF TokensAreOwn
  <2> QED BY <2>1, <2>2
\* A token nobody has had.
<1>c. ASSUME NEW s \in SessionId, csrf' = [csrf EXCEPT ![s] = generated + 1],
             generated' = generated + 1, generated + 1 \in CsrfToken,
             opened' \in 0 .. MaxSessions, opened <= opened', s <= opened',
             UNCHANGED <<jar, losses>>, tab' \in [Request -> Tab]
      PROVE  Types' /\ TokensAreOwn'
  <2>1. generated' \in 0 .. MaxTokens
    BY <1>c DEF CsrfToken
  <2>2. Types'
    BY <1>0, <1>c, <2>1 DEF Types
  <2>3. PICK k \in CsrfToken : k = generated + 1
    BY <1>c
  <2>4. csrf'[s] = k /\ \A r \in SessionId : r # s => csrf'[r] = csrf[r]
    BY <1>0, <1>c, <2>3
  <2>5. \A r \in SessionId : csrf[r] # None => r <= opened /\ csrf[r] <= generated
    BY DEF TokensAreOwn
  <2>6. \A r \in SessionId : csrf[r] # k
    BY <1>0, <2>3, <2>5 DEF CsrfToken
  <2>7. \A r \in SessionId : csrf'[r] # None => r <= opened' /\ csrf'[r] <= generated'
    <3> SUFFICES ASSUME NEW r \in SessionId, csrf'[r] # None
                 PROVE  r <= opened' /\ csrf'[r] <= generated'
      OBVIOUS
    <3>1. CASE r = s
      BY <1>c, <2>3, <2>4, <3>1 DEF CsrfToken
    <3>2. CASE r # s
      <4>1. r <= opened /\ csrf[r] <= generated /\ csrf'[r] = csrf[r] /\ csrf[r] \in CsrfToken
        BY <1>0, <2>4, <2>5, <3>2
      <4> QED BY <1>0, <1>c, <4>1 DEF CsrfToken, SessionId
    <3> QED BY <3>1, <3>2
  <2>8. \A q, r \in SessionId : csrf'[q] = csrf'[r] /\ csrf'[q] # None => q = r
    BY <2>4, <2>6 DEF TokensAreOwn
  <2> QED BY <2>2, <2>7, <2>8 DEF TokensAreOwn
<1>1. CASE UNCHANGED vars
  BY <1>0, <1>a, <1>1 DEF vars
<1>2. ASSUME NEW t \in Tabs, TabStep(t) PROVE Types' /\ TokensAreOwn'
  <2>0. t \in Request
    BY Places
  <2>1. CASE \E request \in Unsafe : Prepare(t, request)
    BY <1>0, <1>a, <2>0, <2>1, PrepareEffect, TabsStay
  <2>2. CASE SendUnsafe(t) \/ \E request \in {"login", "visit", "restore"} : Send(t, request)
    BY <1>0, <1>a, <2>0, <2>2, SendEffect, TabsStay
  <2>3. CASE Deliver(t)
    BY <1>0, <1>a, <2>0, <2>3, DeliverEffect, TabsStay, Empty
  <2>4. CASE LoseAnswer(t)
    BY <1>0, <1>a, <2>0, <2>4, LossEffect, TabsStay, Empty
  <2>5. CASE GiveUp(t)
    BY <1>0, <1>a, <2>5, GiveUpEffect
  <2> QED BY <1>2, <2>1, <2>2, <2>3, <2>4, <2>5 DEF TabStep
<1>3. ASSUME NEW t \in Request, ServerStep(t) PROVE Types' /\ TokensAreOwn'
  <2>1. CASE Login(t)
    <3>1. /\ opened + 1 \in SessionId /\ opened' = opened + 1
          /\ csrf' = [csrf EXCEPT ![opened + 1] = generated + 1]
          /\ generated' = generated + 1 /\ generated + 1 \in CsrfToken
          /\ UNCHANGED <<jar, losses>>
      BY <2>1, LoginEffect
    <3>2. tab' \in [Request -> Tab]
      BY <2>1, LoginEffect, TabsStay
    <3>3. opened' \in 0 .. MaxSessions /\ opened <= opened' /\ opened + 1 <= opened'
      BY <1>0, <3>1 DEF SessionId
    <3> QED BY <1>c, <3>1, <3>2, <3>3
  <2>2. CASE RefreshCsrf(t)
    <3>1. /\ Cookie(t) \in SessionId /\ Authenticated(t)
          /\ csrf' = [csrf EXCEPT ![Cookie(t)] = generated + 1]
          /\ generated' = generated + 1 /\ generated + 1 \in CsrfToken
          /\ UNCHANGED <<opened, jar, losses>>
      BY <2>2, RefreshEffect
    <3>2. tab' \in [Request -> Tab]
      BY <2>2, RefreshEffect, TabsStay
    <3>3. opened' \in 0 .. MaxSessions /\ opened <= opened' /\ Cookie(t) <= opened'
      BY <1>0, <3>1 DEF TokensAreOwn, Authenticated
    <3> QED BY <1>c, <3>1, <3>2, <3>3
  <2>3. CASE Silent(t)
    <3>1. /\ tab' \in [Request -> Tab] /\ UNCHANGED <<opened, generated, jar, losses>>
          /\ \/ UNCHANGED csrf
             \/ Authenticated(t) /\ csrf' = [csrf EXCEPT ![Cookie(t)] = None]
      BY <2>3, AnswerEffect, TabsStay
    <3>2. Authenticated(t) => Cookie(t) \in SessionId
      BY <1>0, TabFields DEF Authenticated, Cookie
    <3> QED BY <1>0, <1>a, <1>b, <3>1, <3>2
  <2> QED BY <1>3, <2>1, <2>2, <2>3 DEF ServerStep, Silent
<1>4. ASSUME NEW s \in SessionId, EndSession(s) PROVE Types' /\ TokensAreOwn'
  BY <1>0, <1>b, <1>4 DEF EndSession
<1>5. CASE LoseCsrfCookie
  BY <1>0, <1>a, <1>5, CookieLossEffect
<1> QED BY <1>1, <1>2, <1>3, <1>4, <1>5 DEF Next

LEMMA InitTokens == Init => Types /\ TokensAreOwn
<1> SUFFICES ASSUME Init PROVE Types /\ TokensAreOwn
  OBVIOUS
<1>1. Types
  BY Empty DEF Init, Types
<1>2. TokensAreOwn
  BY DEF Init, TokensAreOwn
<1> QED BY <1>1, <1>2

\* Cookies and digests come from tokens that were generated, and no two live
\* sessions share one, whatever number of tabs log in and restore tokens.
THEOREM TokensAreNotShared == Spec => []TypeOK
<1>1. Types /\ TokensAreOwn => TypeOK
  BY DEF Types, TokensAreOwn, TypeOK
<1> QED BY <1>1, InitTokens, NextTokens, PTL DEF Spec

-----------------------------------------------------------------------------
(* A single tab keeps a pair that fits.                                    *)

OneTab == \A t, u \in Tabs : t = u

\* An answer nobody hears stays where it is.
LEMMA UnheardGrows ==
    ASSUME Types, FreePlaces, [Next]_vars
    PROVE  FreePlaces' /\ Unheard \subseteq Unheard'
<1>0. losses \in Nat /\ \A t \in Tabs, i \in GivenUp : t # i /\ t \in Request /\ i \in Request
  BY Places DEF Types
<1>a. ASSUME losses' \in Nat, losses <= losses',
             \A i \in GivenUp : \/ tab'[i] = tab[i]
                                \/ tab[i].pc = "sent"
                                \/ i = losses + 1 /\ losses' = losses + 1
      PROVE  FreePlaces' /\ Unheard \subseteq Unheard'
  <2>1. \A i \in GivenUp : i > losses => tab[i].pc = "idle"
    BY DEF FreePlaces, At
  <2>2. FreePlaces'
    BY <1>0, <1>a, <2>1 DEF FreePlaces, At, GivenUp
  <2>3. \A i \in GivenUp : tab[i].pc = "set" => tab'[i] = tab[i]
    BY <1>0, <1>a, <2>1 DEF GivenUp
  <2>4. Unheard \subseteq Unheard'
    BY <2>3 DEF Unheard, At
  <2> QED BY <2>2, <2>4
<1>b. ASSUME NEW t \in Tabs, NEW r \in Tab, Becomes(t, r) PROVE \A i \in GivenUp : tab'[i] = tab[i]
  BY <1>0, <1>b DEF Becomes
<1>1. CASE UNCHANGED vars
  BY <1>0, <1>a, <1>1 DEF vars
<1>2. ASSUME NEW t \in Tabs, TabStep(t) PROVE FreePlaces' /\ Unheard \subseteq Unheard'
  <2>0. t \in Request
    BY Places
  <2>1. CASE \E request \in Unsafe : Prepare(t, request)
    BY <1>0, <1>a, <1>b, <2>0, <2>1, PrepareEffect
  <2>2. CASE SendUnsafe(t) \/ \E request \in {"login", "visit", "restore"} : Send(t, request)
    BY <1>0, <1>a, <1>b, <2>0, <2>2, SendEffect
  <2>3. CASE Deliver(t)
    BY <1>0, <1>a, <1>b, <2>0, <2>3, DeliverEffect, Empty
  <2>4. CASE LoseAnswer(t)
    BY <1>0, <1>a, <1>b, <2>0, <2>4, LossEffect, Empty
  <2>5. CASE GiveUp(t)
    <3>1. \A i \in GivenUp : i = losses + 1 \/ tab'[i] = tab[i]
      BY <1>0, <2>5, GiveUpEffect
    <3> QED BY <1>0, <1>a, <2>5, <3>1, GiveUpEffect
  <2> QED BY <1>2, <2>1, <2>2, <2>3, <2>4, <2>5 DEF TabStep
<1>3. ASSUME NEW t \in Request, ServerStep(t) PROVE FreePlaces' /\ Unheard \subseteq Unheard'
  <2>1. tab[t].pc = "sent" /\ losses' = losses /\ \E r \in Tab : Becomes(t, r)
    BY <1>3, LoginEffect, RefreshEffect, AnswerEffect DEF ServerStep, Silent
  <2>2. \A i \in GivenUp : tab'[i] = tab[i] \/ tab[i].pc = "sent"
    BY <1>0, <2>1, Places DEF Becomes
  <2> QED BY <1>0, <1>a, <2>1, <2>2
<1>4. CASE \E s \in SessionId : EndSession(s)
  BY <1>0, <1>a, <1>4 DEF EndSession
<1>5. CASE LoseCsrfCookie
  BY <1>0, <1>a, <1>5, CookieLossEffect
<1> QED BY <1>1, <1>2, <1>3, <1>4, <1>5 DEF Next

LEMMA NextPair ==
    ASSUME OneTab, Types, TokensAreOwn, FreePlaces, Pair, [Next]_vars
    PROVE  Pair'
<1>u. Unheard \subseteq Unheard'
  BY UnheardGrows
<1>p. \A t \in Tabs : t \in Request
  BY Places
<1>0. /\ csrf \in [SessionId -> CsrfToken \union {None}]
      /\ opened \in Nat /\ jar \in Jar /\ tab \in [Request -> Tab]
      /\ jar.session \in SessionId \union {None} /\ jar.csrf \in CsrfToken \union {None}
  BY DEF Types, Jar
<1>1. CASE UNCHANGED vars
  <2>1. CookiesAreOld' /\ JarWaits'
    BY <1>1 DEF vars, Pair, CookiesAreOld, JarWaits, Cookie
  <2>2. AnswerFits' /\ JarFits'
    BY <1>u, <1>1 DEF vars, Pair, AnswerFits, JarFits, Fit
  <2> QED BY <2>1, <2>2 DEF Pair
<1>2. ASSUME NEW t \in Tabs, \E request \in Unsafe : Prepare(t, request) PROVE Pair'
  <2>1. PICK r \in Tab : /\ Becomes(t, r) /\ r.pc = "prepared" /\ r.request # "restore"
                         /\ r.cookies = tab[t].cookies /\ r.answer = tab[t].answer
    BY <1>p, <1>2, PrepareEffect
  <2>2. UNCHANGED <<csrf, opened, generated, jar>>
    BY <1>p, <1>2, PrepareEffect
  <2>3. \A u \in Tabs : u = t /\ tab'[u] = r
    BY <1>p, <2>1 DEF OneTab, Becomes
  <2>4. CookiesAreOld'
    BY <2>1, <2>2, <2>3 DEF Pair, CookiesAreOld, Cookie
  <2>5. JarWaits' /\ AnswerFits'
    BY <2>1, <2>3 DEF JarWaits, AnswerFits
  <2>6. JarFits'
    BY <1>u, <2>2 DEF Pair, JarFits, Fit
  <2> QED BY <2>4, <2>5, <2>6 DEF Pair
<1>3. ASSUME NEW t \in Tabs,
             SendUnsafe(t) \/ \E request \in {"login", "visit", "restore"} : Send(t, request)
      PROVE  Pair'
  <2>1. PICK r \in Tab : /\ Becomes(t, r) /\ r.pc = "sent"
                         /\ r.cookies = jar /\ r.answer = tab[t].answer
                         /\ SendUnsafe(t)
                              => r.request = tab[t].request /\ tab[t].pc = "prepared"
                         /\ r.request = "restore" => SendUnsafe(t) \/ jar.csrf = None
    BY <1>p, <1>3, SendEffect
  <2>2. UNCHANGED <<csrf, opened, generated, jar>>
    BY <1>p, <1>3, SendEffect
  <2>3. \A u \in Tabs : u = t /\ tab'[u] = r
    BY <1>p, <2>1 DEF OneTab, Becomes
  <2>4. CookiesAreOld'
    BY <2>1, <2>2, <2>3 DEF Pair, CookiesAreOld, Cookie
  <2>5. r.request = "restore" => jar.csrf = None
    BY <2>1 DEF Pair, JarWaits
  <2>6. JarWaits'
    BY <2>1, <2>2, <2>3, <2>5 DEF JarWaits, Cookie
  <2>7. AnswerFits' /\ JarFits'
    BY <1>u, <2>1, <2>2, <2>3 DEF Pair, AnswerFits, JarFits, Fit
  <2> QED BY <2>4, <2>6, <2>7 DEF Pair
<1>4. ASSUME NEW t \in Tabs, Deliver(t) PROVE Pair'
  <2>1. /\ Becomes(t, IdleTab) /\ UNCHANGED <<csrf, opened, generated>>
        /\ \/ jar' = jar
           \/ jar'.session = None /\ jar'.csrf = None
           \/ /\ tab[t].pc = "set"
              /\ jar'.session = IF tab[t].answer.session = None
                                THEN jar.session ELSE tab[t].answer.session
              /\ jar'.csrf = tab[t].answer.csrf
    BY <1>p, <1>4, DeliverEffect
  <2>2. \A u \in Tabs : u = t /\ tab'[u] = IdleTab
    BY <1>p, <2>1 DEF OneTab, Becomes
  <2>3. jar'.session # None => jar'.session <= opened
    BY <2>1 DEF Pair, CookiesAreOld
  <2>4. CookiesAreOld'
    BY <2>1, <2>2, <2>3, Empty DEF CookiesAreOld, Cookie
  <2>5. JarWaits' /\ AnswerFits'
    BY <2>2, Empty DEF JarWaits, AnswerFits
  <2>6. JarFits'
    <3>1. CASE jar' = jar
      BY <1>u, <2>1, <3>1 DEF Pair, JarFits, Fit
    <3>2. CASE jar'.csrf = None
      BY <3>2 DEF JarFits
    <3>3. CASE /\ tab[t].pc = "set"
               /\ jar'.session = IF tab[t].answer.session = None
                                 THEN jar.session ELSE tab[t].answer.session
               /\ jar'.csrf = tab[t].answer.csrf
      <4>1. Fit(jar'.session, jar'.csrf)
        BY <3>3 DEF Pair, AnswerFits
      <4> QED BY <1>u, <2>1, <4>1 DEF JarFits, Fit
    <3> QED BY <2>1, <3>1, <3>2, <3>3
  <2> QED BY <2>4, <2>5, <2>6 DEF Pair
<1>5. ASSUME NEW t \in Tabs, LoseAnswer(t) PROVE Pair'
  <2>1. Becomes(t, IdleTab) /\ UNCHANGED <<csrf, opened, generated, jar>>
    BY <1>p, <1>5, LossEffect
  <2>2. \A u \in Tabs : u = t /\ tab'[u] = IdleTab
    BY <1>p, <2>1 DEF OneTab, Becomes
  <2>3. CookiesAreOld'
    BY <2>1, <2>2, Empty DEF Pair, CookiesAreOld, Cookie
  <2>4. JarWaits' /\ AnswerFits'
    BY <2>2, Empty DEF JarWaits, AnswerFits
  <2>5. JarFits'
    BY <1>u, <2>1 DEF Pair, JarFits, Fit
  <2> QED BY <2>3, <2>4, <2>5 DEF Pair
<1>6. ASSUME NEW t \in Tabs, Login(t) PROVE Pair'
  <2>1. PICK r \in Tab : /\ Becomes(t, r) /\ r.pc = "set"
                         /\ r.cookies = tab[t].cookies /\ r.request = "login"
                         /\ r.answer.session = opened + 1
                         /\ r.answer.csrf = generated + 1
    BY <1>p, <1>6, LoginEffect
  <2>2. /\ tab[t].pc = "sent" /\ opened' = opened + 1 /\ opened + 1 \in SessionId
        /\ csrf' = [csrf EXCEPT ![opened + 1] = generated + 1] /\ UNCHANGED jar
    BY <1>p, <1>6, LoginEffect
  <2>3. \A u \in Tabs : u = t /\ tab'[u] = r
    BY <1>p, <2>1 DEF OneTab, Becomes
  <2>4. /\ Cookie(t) \in SessionId \union {None}
        /\ jar.session # None => jar.session <= opened
        /\ Cookie(t) # None => Cookie(t) <= opened
    BY <1>0, <1>p, TabFields DEF Pair, CookiesAreOld, Cookie
  <2>5. CookiesAreOld'
    BY <1>0, <2>1, <2>2, <2>3, <2>4 DEF CookiesAreOld, Cookie, SessionId
  <2>6. JarWaits'
    BY <2>1, <2>2, <2>3 DEF Pair, JarWaits, Cookie
  <2>7. AnswerFits'
    <3>1. csrf'[opened + 1] = generated + 1 /\ opened + 1 # None
      BY <1>0, <2>2 DEF SessionId
    <3> QED BY <1>u, <2>1, <2>3, <3>1 DEF AnswerFits, Fit
  <2>8. JarFits'
    <3>1. jar.session # None => jar.session # opened + 1 /\ jar.session \in SessionId
      BY <1>0, <2>4 DEF SessionId
    <3>2. jar.session # None => csrf'[jar.session] = csrf[jar.session]
      BY <1>0, <2>2, <3>1
    <3> QED BY <1>u, <2>2, <3>2 DEF Pair, JarFits, Fit
  <2> QED BY <2>5, <2>6, <2>7, <2>8 DEF Pair
<1>7. ASSUME NEW t \in Tabs, RefreshCsrf(t) PROVE Pair'
  <2>1. PICK r \in Tab : /\ Becomes(t, r) /\ r.pc = "set"
                         /\ r.cookies = tab[t].cookies /\ r.request = "restore"
                         /\ r.answer.session = None
                         /\ r.answer.csrf = generated + 1
    BY <1>p, <1>7, RefreshEffect
  <2>2. /\ tab[t].pc = "sent" /\ tab[t].request = "restore" /\ Cookie(t) \in SessionId
        /\ csrf' = [csrf EXCEPT ![Cookie(t)] = generated + 1] /\ UNCHANGED <<opened, jar>>
    BY <1>p, <1>7, RefreshEffect
  <2>3. \A u \in Tabs : u = t /\ tab'[u] = r
    BY <1>p, <2>1 DEF OneTab, Becomes
  <2>4. jar.session = Cookie(t) /\ jar.csrf = None
    BY <2>2 DEF Pair, JarWaits
  <2>5. CookiesAreOld'
    BY <2>1, <2>2, <2>3 DEF Pair, CookiesAreOld, Cookie
  <2>6. JarWaits'
    BY <2>1, <2>2, <2>3, <2>4 DEF JarWaits, Cookie
  <2>7. AnswerFits'
    <3>1. csrf'[jar.session] = generated + 1
      BY <1>0, <2>2, <2>4
    <3> QED BY <1>u, <2>1, <2>2, <2>3, <3>1 DEF AnswerFits, Fit
  <2>8. JarFits'
    BY <2>2, <2>4 DEF JarFits
  <2> QED BY <2>5, <2>6, <2>7, <2>8 DEF Pair
<1>8. ASSUME NEW t \in Tabs, Silent(t)
      PROVE  Pair'
  <2>1. PICK r \in Tab : /\ Becomes(t, r) /\ r.pc \in {"keep", "clear"}
                         /\ r.cookies = tab[t].cookies /\ r.answer = tab[t].answer
    BY <1>p, <1>8, AnswerEffect
  <2>2. /\ UNCHANGED <<opened, generated, jar>>
        /\ \/ UNCHANGED csrf
           \/ Authenticated(t) /\ csrf' = [csrf EXCEPT ![Cookie(t)] = None]
    BY <1>p, <1>8, AnswerEffect
  <2>3. \A u \in Tabs : u = t /\ tab'[u] = r
    BY <1>p, <2>1 DEF OneTab, Becomes
  <2>4. CookiesAreOld'
    BY <2>1, <2>2, <2>3 DEF Pair, CookiesAreOld, Cookie
  <2>5. JarWaits' /\ AnswerFits'
    BY <2>1, <2>3 DEF JarWaits, AnswerFits
  <2>6. JarFits'
    <3>1. Authenticated(t) => Cookie(t) \in SessionId
      BY <1>0, <1>p, TabFields DEF Authenticated, Cookie
    <3> QED BY <1>u, <1>0, <2>2, <3>1 DEF Pair, JarFits, Fit
  <2> QED BY <2>4, <2>5, <2>6 DEF Pair
<1>9. ASSUME NEW s \in SessionId, EndSession(s) PROVE Pair'
  <2>1. csrf' = [csrf EXCEPT ![s] = None] /\ UNCHANGED <<opened, generated, jar, tab>>
    BY <1>9 DEF EndSession
  <2>2. CookiesAreOld' /\ JarWaits'
    BY <2>1 DEF Pair, CookiesAreOld, JarWaits, Cookie
  <2>3. \A t \in Tabs : tab[t].answer.session \in SessionId \union {None}
    BY <1>0, <1>p, TabFields
  <2>4. AnswerFits'
    BY <1>u, <1>0, <2>1, <2>3 DEF Pair, AnswerFits, Fit
  <2>5. JarFits'
    BY <1>u, <1>0, <2>1 DEF Pair, JarFits, Fit
  <2> QED BY <2>2, <2>4, <2>5 DEF Pair
<1>10. CASE LoseCsrfCookie
  <2>1. /\ jar'.session = jar.session /\ jar'.csrf = None
        /\ UNCHANGED <<csrf, opened, generated, tab>>
    BY <1>10, CookieLossEffect
  <2>2. CookiesAreOld'
    BY <2>1 DEF Pair, CookiesAreOld, Cookie
  <2>3. JarWaits' /\ AnswerFits' /\ JarFits'
    BY <1>u, <2>1 DEF Pair, JarWaits, AnswerFits, JarFits, Fit, Cookie
  <2> QED BY <2>2, <2>3 DEF Pair
\* The server comes to a request that was given up.
<1>11. ASSUME NEW i \in GivenUp, ServerStep(i) PROVE Pair'
  <2>0. i \in Request /\ Cookie(i) \in SessionId \union {None}
    BY <1>0, Places, TabFields DEF Cookie
  <2>1. PICK r \in Tab : Becomes(i, r)
    BY <1>11, <2>0, LoginEffect, RefreshEffect, AnswerEffect DEF ServerStep, Silent
  <2>2. UNCHANGED jar /\ opened' \in Nat /\ opened <= opened'
    BY <1>0, <1>11, <2>0, LoginEffect, RefreshEffect, AnswerEffect DEF ServerStep, Silent
  <2>3. \A u \in Tabs : tab'[u] = tab[u]
    BY <1>p, <2>1, Places DEF Becomes
  <2>4. \A s \in SessionId : s <= opened => csrf'[s] \in {csrf[s], None} \union Unheard'
    <3>1. CASE Login(i)
      <4>1. csrf' = [csrf EXCEPT ![opened + 1] = generated + 1] /\ opened + 1 \in SessionId
        BY <2>0, <3>1, LoginEffect
      <4> QED BY <1>0, <4>1 DEF SessionId
    <3>2. CASE RefreshCsrf(i)
      <4>1. PICK q \in Tab : /\ Becomes(i, q) /\ q.pc = "set"
                             /\ q.answer.csrf = generated + 1
        BY <2>0, <3>2, RefreshEffect
      <4>2. tab'[i].pc = "set" /\ tab'[i].answer.csrf = generated + 1
        BY <4>1 DEF Becomes
      <4>3. generated + 1 \in Unheard'
        BY <4>2 DEF Unheard, At
      <4>4. csrf' = [csrf EXCEPT ![Cookie(i)] = generated + 1] /\ Cookie(i) \in SessionId
        BY <2>0, <3>2, RefreshEffect
      <4> QED BY <1>0, <4>3, <4>4
    <3>3. CASE Silent(i)
      <4>1. UNCHANGED csrf \/ csrf' = [csrf EXCEPT ![Cookie(i)] = None]
        BY <2>0, <3>3, AnswerEffect
      <4> QED BY <1>0, <4>1
    <3> QED BY <1>11, <3>1, <3>2, <3>3 DEF ServerStep, Silent
  <2>5. CookiesAreOld'
    <3>1. \A t \in Tabs : Cookie(t) \in SessionId \union {None}
                          /\ tab[t].answer.session \in SessionId \union {None}
      BY <1>0, <1>p, TabFields DEF Cookie
    <3> QED BY <1>0, <2>2, <2>3, <3>1 DEF Pair, CookiesAreOld, Cookie, SessionId
  <2>6. JarWaits'
    BY <2>2, <2>3 DEF Pair, JarWaits, Cookie
  <2>7. ASSUME NEW s \in SessionId \union {None}, s # None => s <= opened,
               NEW token, Fit(s, token), s # None, csrf'[s] # None
        PROVE  csrf'[s] \in Unheard' \union {token}
    BY <1>u, <2>4, <2>7 DEF Fit
  <2>8. JarFits'
    <3>1. jar.session # None => jar.session <= opened
      BY DEF Pair, CookiesAreOld
    <3> QED BY <1>0, <2>2, <2>7, <3>1 DEF Pair, JarFits, Fit
  <2>9. AnswerFits'
    <3> SUFFICES ASSUME NEW t \in Tabs, tab[t].pc = "set"
                 PROVE  LET session == IF tab[t].answer.session = None
                                       THEN jar.session ELSE tab[t].answer.session
                        IN  session # None /\ csrf'[session] # None =>
                              csrf'[session] \in Unheard' \union {tab[t].answer.csrf}
      BY <2>2, <2>3 DEF AnswerFits, Fit
    <3>1. PICK session : session = IF tab[t].answer.session = None
                                   THEN jar.session ELSE tab[t].answer.session
      OBVIOUS
    <3>2. session \in SessionId \union {None}
      BY <1>0, <1>p, <3>1, TabFields
    <3>3. session # None => session <= opened
      BY <3>1 DEF Pair, CookiesAreOld
    <3>4. Fit(session, tab[t].answer.csrf)
      BY <3>1 DEF Pair, AnswerFits
    <3> QED BY <2>7, <3>1, <3>2, <3>3, <3>4
  <2> QED BY <2>5, <2>6, <2>8, <2>9 DEF Pair
<1>12. ASSUME NEW t \in Tabs, GiveUp(t) PROVE Pair'
  <2>1. tab'[t] = IdleTab /\ UNCHANGED <<csrf, opened, generated, jar>>
    BY <1>12, GiveUpEffect
  <2>2. \A u \in Tabs : u = t /\ tab'[u] = IdleTab
    BY <2>1 DEF OneTab
  <2>3. CookiesAreOld'
    BY <2>1, <2>2, Empty DEF Pair, CookiesAreOld, Cookie
  <2>4. JarWaits' /\ AnswerFits'
    BY <2>2, Empty DEF JarWaits, AnswerFits
  <2>5. JarFits'
    BY <1>u, <2>1 DEF Pair, JarFits, Fit
  <2> QED BY <2>3, <2>4, <2>5 DEF Pair
<1> QED BY <1>1, <1>2, <1>3, <1>4, <1>5, <1>6, <1>7, <1>8, <1>9, <1>10, <1>11, <1>12
     DEF Next, TabStep, ServerStep, Silent, Request

LEMMA InitPair == Init => Pair /\ FreePlaces
<1> SUFFICES ASSUME Init PROVE Pair /\ FreePlaces
  OBVIOUS
<1>1. jar = EmptyJar /\ \A t \in Request : tab[t] = IdleTab
  BY DEF Init
<1>2. Pair
  BY <1>1, Places, Empty DEF Pair, CookiesAreOld, JarWaits, AnswerFits, JarFits, Fit, Cookie
<1>3. FreePlaces
  BY <1>1, Places, Empty DEF FreePlaces, At
<1> QED BY <1>2, <1>3

\* With one tab, whatever answers and cookies are lost and whatever requests
\* are given up, the two cookies of a live session fit together when nothing is
\* in flight, unless the digest in force is that of a refresh_csrf the page had
\* given up before the server came to it.  With two tabs this is false.
THEOREM OneTabKeepsItsPair == OneTab => (Spec => []MisfitIsUnheard)
<1> SUFFICES ASSUME OneTab PROVE Spec => []MisfitIsUnheard
  OBVIOUS
<1>1. Init => Types /\ TokensAreOwn /\ FreePlaces /\ Pair
  BY InitTokens, InitPair
<1>2. Types /\ TokensAreOwn /\ FreePlaces /\ Pair /\ [Next]_vars
        => (Types /\ TokensAreOwn /\ FreePlaces /\ Pair)'
  BY NextTokens, UnheardGrows, NextPair
<1>3. Types /\ TokensAreOwn /\ FreePlaces /\ Pair => MisfitIsUnheard
  BY DEF Pair, JarFits, Fit, MisfitIsUnheard, Settled
<1> QED BY <1>1, <1>2, <1>3, PTL DEF Spec
=============================================================================

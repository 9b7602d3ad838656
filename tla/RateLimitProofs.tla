--------------------------- MODULE RateLimitProofs ---------------------------
(***************************************************************************)
(* Proofs about RateLimit for every number of clients, addresses and       *)
(* subjects, every choice of routes and every limit.                       *)
(***************************************************************************)
EXTENDS RateLimit, FiniteSetTheorems, TLAPS

USE LimitAssumption

\* What the groups of limits have in common: auth_required is always on its
\* own, and the failures-only limits guard login only.
Group(route, S) ==
    /\ S \subseteq Rule \union {"auth_required"}
    /\ "auth_required" \in S => S = {"auth_required"}
    /\ \A rule \in Conditional : rule \in S => route = "login"

Guards(route) ==
    /\ Len(Stages(route)) \in 1 .. 3
    /\ \A i \in 1 .. Len(Stages(route)) : Group(route, Stages(route)[i])

LEMMA OneGroup ==
    ASSUME NEW route, NEW S, Group(route, S), Stages(route) = << S >>
    PROVE  Guards(route)
  BY DEF Guards

LEMMA TwoGroups ==
    ASSUME NEW route, NEW S, NEW T, Group(route, S), Group(route, T),
           Stages(route) = << S, T >>
    PROVE  Guards(route)
  BY DEF Guards

LEMMA ThreeGroups ==
    ASSUME NEW route, NEW S, NEW T, NEW U, Group(route, S), Group(route, T),
           Group(route, U), Stages(route) = << S, T, U >>
    PROVE  Guards(route)
  BY DEF Guards

LEMMA AuthenticationGroup == \A route : Group(route, {"auth_required"})
  BY DEF Group, Conditional

LEMMA GuardsOfLogin == Guards("login") /\ Conditional \subseteq RulesOf("login")
<1> DEFINE S == {"login-ip", "login-failure-ip", "login-failure-credential"}
<1>1. Stages("login") = << S >>
  BY DEF Stages
<1>2. Group("login", S)
  BY DEF Group, Rule, PeerRules, SubjectRules
<1>3. Conditional \subseteq S \ {"auth_required"}
  BY DEF Conditional
<1> HIDE DEF S
<1>4. S = Stages("login")[1] /\ 1 \in 1 .. Len(Stages("login"))
  BY <1>1
<1>5. Conditional \subseteq RulesOf("login")
  BY <1>3, <1>4 DEF RulesOf
<1> QED BY <1>1, <1>2, <1>5, OneGroup

LEMMA GuardsOfOneGroup ==
    ASSUME NEW route \in {"register", "verification_confirm", "reset_request", "reset_confirm"}
    PROVE  Guards(route)
<1> DEFINE S == Stages(route)[1]
<1>1. Stages(route) = << S >> /\ Group(route, S)
  <2>1. CASE route = "register"
    BY <2>1 DEF Stages, Group, Rule, PeerRules, SubjectRules, Conditional
  <2>2. CASE route = "verification_confirm"
    BY <2>2 DEF Stages, Group, Rule, PeerRules, SubjectRules, Conditional
  <2>3. CASE route = "reset_request"
    BY <2>3 DEF Stages, Group, Rule, PeerRules, SubjectRules, Conditional
  <2>4. CASE route = "reset_confirm"
    BY <2>4 DEF Stages, Group, Rule, PeerRules, SubjectRules, Conditional
  <2> QED BY <2>1, <2>2, <2>3, <2>4
<1> QED BY <1>1, OneGroup

LEMMA GuardsOfVerification == Guards("verification_request")
<1> DEFINE S == {"account-action-ip", "email-verification-request-user"}
<1>1. Stages("verification_request") = << {"auth_required"}, S >>
  BY DEF Stages
<1>2. Group("verification_request", S)
  BY DEF Group, Rule, PeerRules, SubjectRules, Conditional
<1> QED BY <1>1, <1>2, AuthenticationGroup, TwoGroups

\* The peer limit of uploads and downloads comes first, on its own.
PeerFirst(route) ==
    /\ \E rule \in PeerRules : Stages(route)[1] = {rule} /\ rule # "auth_required"
                                /\ rule \notin Conditional
    /\ Guards(route)

LEMMA PeerBoundaryGuards ==
    ASSUME NEW route, NEW peer \in PeerRules \ Conditional, NEW S, Group(route, S),
           Stages(route) = PeerBoundary(peer, S)
    PROVE  PeerFirst(route)
<1>1. Stages(route) = << {peer}, {"auth_required"}, S >>
  BY DEF PeerBoundary
<1>2. peer # "auth_required"
  BY DEF PeerRules
<1>3. Group(route, {peer})
  BY <1>2 DEF Group, Rule
<1>4. Stages(route)[1] = {peer}
  BY <1>1
<1> QED BY <1>1, <1>2, <1>3, <1>4, AuthenticationGroup, ThreeGroups DEF PeerFirst

LEMMA GuardsOfUpload == PeerFirst("upload")
<1> DEFINE S == {"upload-user", "upload-session"}
<1>1. Stages("upload") = PeerBoundary("upload-ip", S)
  BY DEF Stages
<1>2. Group("upload", S) /\ "upload-ip" \in PeerRules \ Conditional
  BY DEF Group, Rule, PeerRules, SubjectRules, Conditional
<1> QED BY <1>1, <1>2, PeerBoundaryGuards

LEMMA GuardsOfDownload == PeerFirst("download")
<1> DEFINE S == {"download-user", "download-session", "download-user-resource"}
<1>1. Stages("download") = PeerBoundary("download-ip", S)
  BY DEF Stages
<1>2. Group("download", S) /\ "download-ip" \in PeerRules \ Conditional
  BY DEF Group, Rule, PeerRules, SubjectRules, Conditional
<1> QED BY <1>1, <1>2, PeerBoundaryGuards

LEMMA GuardsOfRoutes == \A route \in Routes : Guards(route)
  BY GuardsOfLogin, GuardsOfOneGroup, GuardsOfUpload, GuardsOfDownload,
     GuardsOfVerification DEF Routes, PeerFirst

LEMMA DueIsToDo ==
    ASSUME NEW r, request[r].todo # {}
    PROVE  Due(r) \in request[r].todo
  BY DEF Due
-----------------------------------------------------------------------------
(* The inductive invariant.                                                *)

\* Every limit of the stages a request has passed is charged or tested; what
\* is left of the current stage is still to do.
Covered(q) ==
    \A i \in 1 .. q.stage :
        Stages(q.route)[i] \ {"auth_required"} \subseteq q.charged \union q.tested \union q.todo

\* A client's request is consistent by itself.
RequestOK(q) ==
    /\ q.stage <= Len(Stages(q.route))
    /\ q.tested # {} => q.route = "login"
    /\ "auth_required" \in q.todo /\ q.route \in {"upload", "download"} =>
         q.charged \intersect PeerRules # {}
    /\ q.pc = "checking" => q.todo \subseteq Stages(q.route)[q.stage] /\ Covered(q)
    /\ q.pc \in {"checking", "view"} => q.charged \intersect Conditional = {}
    /\ q.pc \in {"view", "deducting"} => ~q.breached
    /\ q.pc = "view" => RulesOf(q.route) \subseteq q.charged \union q.tested
    /\ q.pc = "deducting" =>
         /\ q.verdict \in {"ok", "wrong"}
         /\ q.todo \subseteq q.tested
         /\ q.verdict = "wrong" => Conditional \subseteq q.charged \union q.todo
         /\ q.verdict # "wrong" => q.todo = {} /\ q.charged \intersect Conditional = {}
    /\ q.pc = "answered" =>
         /\ q.verdict = "wrong" => Conditional \subseteq q.charged
         /\ q.verdict \in {"ok", "limited", "unauthenticated"} =>
              q.charged \intersect Conditional = {}

\* A request that has passed the test of a failures-only limit may still be
\* charged to its bucket b.
Awaits(q, b) ==
    /\ b = <<b[1], IF b[1] \in PeerRules THEN q.peer ELSE q.subject>>
    /\ b[1] \in q.tested
    /\ ~q.breached
    /\ \/ q.pc \in {"checking", "view"}
       \/ q.pc = "deducting" /\ b[1] \in q.todo

Pending(b) == {r \in Requests : Awaits(request[r], b)}

Shape ==
    /\ count \in [Bucket -> Nat]
    /\ request \in [Requests -> Request]

BoundedAt(b) ==
    count[b] + Cardinality(Pending(b)) <= Limit[b[1]] - 1 + Cardinality(Requests)

PendingBounded == \A b \in Bucket : b[1] \in Conditional => BoundedAt(b)

IInv ==
    /\ Shape
    /\ \A r \in Requests : RequestOK(request[r])
    /\ PendingBounded

-----------------------------------------------------------------------------
(* A client's own step keeps its request consistent.                       *)

LEMMA StageIsGroup ==
    ASSUME NEW q \in Request, q.stage <= Len(Stages(q.route))
    PROVE  /\ Group(q.route, Stages(q.route)[q.stage])
           /\ q.stage \in 1 .. Len(Stages(q.route))
<1>1. q.route \in Routes /\ q.stage \in 1 .. 3
  BY DEF Request
<1>2. Guards(q.route)
  BY <1>1, GuardsOfRoutes
<1> QED BY <1>1, <1>2 DEF Guards

LEMMA ArriveKeepsRequest ==
    ASSUME NEW q \in Request, NEW S, S = Stages(q.route)[1], NEW n,
           n = [pc |-> "checking", route |-> q.route, peer |-> q.peer, subject |-> q.subject,
                stage |-> 1, todo |-> S, tested |-> {}, charged |-> {}, breached |-> FALSE,
                verdict |-> "none"]
    PROVE  n \in Request /\ RequestOK(n)
<1>1. q.route \in Routes /\ q.peer \in Peers /\ q.subject \in Subjects
  BY DEF Request
<1>2. Guards(q.route)
  BY <1>1, GuardsOfRoutes
<1>3. Group(q.route, S) /\ 1 <= Len(Stages(q.route))
  BY <1>2 DEF Guards
<1>4. q.route \in {"upload", "download"} => "auth_required" \notin S
  BY <1>1, GuardsOfUpload, GuardsOfDownload DEF PeerFirst
<1>5. n \in Request
  BY <1>1, <1>3 DEF Request, Group
<1>6. Covered(n)
  BY DEF Covered
<1> QED BY <1>3, <1>4, <1>5, <1>6 DEF RequestOK

LEMMA HitKeepsRequest ==
    ASSUME NEW q \in Request, RequestOK(q), q.pc = "checking",
           NEW rule \in q.todo, rule \notin Conditional \union {"auth_required"},
           NEW breached \in BOOLEAN, NEW n,
           n = [q EXCEPT !.todo = @ \ {rule}, !.charged = @ \union {rule}, !.breached = breached]
    PROVE  n \in Request /\ RequestOK(n)
<1>1. n = [pc |-> "checking", route |-> q.route, peer |-> q.peer, subject |-> q.subject,
           stage |-> q.stage, todo |-> q.todo \ {rule}, tested |-> q.tested,
           charged |-> q.charged \union {rule}, breached |-> breached, verdict |-> q.verdict]
  BY DEF Request
<1>2. rule \in Rule
  BY DEF Request
<1>3. n \in Request
  BY <1>1, <1>2 DEF Request
<1>4. Covered(n)
  BY <1>1 DEF Covered, RequestOK
<1> QED BY <1>1, <1>3, <1>4 DEF RequestOK

LEMMA TestKeepsRequest ==
    ASSUME NEW q \in Request, RequestOK(q), q.pc = "checking",
           NEW rule \in q.todo, rule \in Conditional,
           NEW breached \in BOOLEAN, NEW n,
           n = [q EXCEPT !.todo = @ \ {rule}, !.tested = @ \union {rule}, !.breached = breached]
    PROVE  n \in Request /\ RequestOK(n)
<1>1. n = [pc |-> "checking", route |-> q.route, peer |-> q.peer, subject |-> q.subject,
           stage |-> q.stage, todo |-> q.todo \ {rule}, tested |-> q.tested \union {rule},
           charged |-> q.charged, breached |-> breached, verdict |-> q.verdict]
  BY DEF Request
<1>2. n \in Request
  BY <1>1 DEF Request
<1>3. Covered(n)
  BY <1>1 DEF Covered, RequestOK
<1>4. q.route = "login"
  BY StageIsGroup DEF RequestOK, Group
<1> QED BY <1>1, <1>2, <1>3, <1>4 DEF RequestOK

\* auth_required is alone in its stage: nothing else is skipped with it.
LEMMA AuthenticateKeepsRequest ==
    ASSUME NEW q \in Request, RequestOK(q), q.pc = "checking", "auth_required" \in q.todo,
           NEW n, n = [q EXCEPT !.todo = {}]
    PROVE  n \in Request /\ RequestOK(n)
<1>1. n = [pc |-> "checking", route |-> q.route, peer |-> q.peer, subject |-> q.subject,
           stage |-> q.stage, todo |-> {}, tested |-> q.tested,
           charged |-> q.charged, breached |-> q.breached, verdict |-> q.verdict]
  BY DEF Request
<1>2. n \in Request
  BY <1>1 DEF Request
<1>3. q.todo = {"auth_required"}
  BY StageIsGroup DEF RequestOK, Group
<1>4. Covered(n)
  BY <1>1, <1>3 DEF Covered, RequestOK
<1> QED BY <1>1, <1>2, <1>4 DEF RequestOK

LEMMA NextStageKeepsRequest ==
    ASSUME NEW q \in Request, RequestOK(q), q.pc = "checking", q.todo = {}, ~q.breached,
           q.stage < Len(Stages(q.route)), NEW S, S = Stages(q.route)[q.stage + 1], NEW n,
           n = [pc |-> "checking", route |-> q.route, peer |-> q.peer, subject |-> q.subject,
                stage |-> q.stage + 1, todo |-> S, tested |-> q.tested,
                charged |-> q.charged, breached |-> q.breached, verdict |-> q.verdict]
    PROVE  n \in Request /\ RequestOK(n)
<1>1. q.route \in Routes /\ q.stage \in 1 .. 3 /\ Guards(q.route)
  BY GuardsOfRoutes DEF Request
<1>2. Group(q.route, S) /\ q.stage + 1 \in 1 .. 3
  BY <1>1 DEF Guards
<1>3. Covered(q)
  BY DEF RequestOK
<1>4. \A i \in 1 .. q.stage + 1 : Stages(q.route)[i] \ {"auth_required"}
                                     \subseteq q.charged \union q.tested \union S
  <2> TAKE i \in 1 .. q.stage + 1
  <2>1. CASE i = q.stage + 1
    BY <2>1
  <2>2. CASE i # q.stage + 1
    <3>1. i \in 1 .. q.stage
      BY <1>1, <2>2
    <3> QED BY <1>3, <3>1 DEF Covered
  <2> QED BY <2>1, <2>2
<1>5. q.route \in {"upload", "download"} => q.charged \intersect PeerRules # {}
  <2> HAVE q.route \in {"upload", "download"}
  <2>1. q.tested = {}
    BY DEF RequestOK
  <2>2. PICK rule \in PeerRules : Stages(q.route)[1] = {rule} /\ rule # "auth_required"
    BY GuardsOfUpload, GuardsOfDownload DEF PeerFirst
  <2>3. 1 \in 1 .. q.stage
    BY <1>1
  <2>4. {rule} \subseteq q.charged \union q.tested \union q.todo
    BY <1>3, <2>2, <2>3 DEF Covered
  <2> QED BY <2>1, <2>4
<1>6. n \in Request
  BY <1>2 DEF Request, Group
<1>7. Covered(n)
  BY <1>4 DEF Covered
<1>8. n.stage <= Len(Stages(n.route))
  <2>1. Len(Stages(q.route)) \in Nat
    BY <1>1 DEF Guards
  <2> QED BY <1>1, <2>1
<1> QED BY <1>5, <1>6, <1>7, <1>8 DEF RequestOK

LEMMA EnterViewKeepsRequest ==
    ASSUME NEW q \in Request, RequestOK(q), q.pc = "checking", q.todo = {}, ~q.breached,
           q.stage = Len(Stages(q.route)), NEW n, n = [q EXCEPT !.pc = "view"]
    PROVE  n \in Request /\ RequestOK(n)
<1>1. n = [pc |-> "view", route |-> q.route, peer |-> q.peer, subject |-> q.subject,
           stage |-> q.stage, todo |-> {}, tested |-> q.tested,
           charged |-> q.charged, breached |-> q.breached, verdict |-> q.verdict]
  BY DEF Request
<1>2. n \in Request
  BY <1>1 DEF Request
<1>3. RulesOf(q.route) \subseteq q.charged \union q.tested
  BY DEF RequestOK, Covered, RulesOf
<1> QED BY <1>1, <1>2, <1>3 DEF RequestOK
\* Before a wrong password is served both failures-only limits were tested.
LEMMA ServeKeepsRequest ==
    ASSUME NEW q \in Request, RequestOK(q), q.pc = "view", NEW verdict \in {"ok", "wrong"},
           verdict = "wrong" => q.tested # {}, NEW n,
           n = [q EXCEPT !.pc = "deducting", !.verdict = verdict,
                         !.todo = IF verdict = "wrong" THEN q.tested ELSE {}]
    PROVE  n \in Request /\ RequestOK(n)
<1> DEFINE S == IF verdict = "wrong" THEN q.tested ELSE {}
<1>1. n = [pc |-> "deducting", route |-> q.route, peer |-> q.peer, subject |-> q.subject,
           stage |-> q.stage, todo |-> S, tested |-> q.tested,
           charged |-> q.charged, breached |-> q.breached, verdict |-> verdict]
  BY DEF Request
<1>2. S \subseteq q.tested /\ q.tested \subseteq Conditional /\ Conditional \subseteq Rule
  BY DEF Request, Rule, PeerRules, SubjectRules, Conditional
<1>3. "auth_required" \notin S
  BY <1>2 DEF Conditional
<1>4. verdict = "wrong" => Conditional \subseteq q.charged \union S
  <2> HAVE verdict = "wrong"
  <2>1. Conditional \subseteq RulesOf(q.route)
    BY GuardsOfLogin DEF RequestOK
  <2> QED BY <2>1 DEF RequestOK
<1>5. verdict # "wrong" => S = {} /\ q.charged \intersect Conditional = {}
  BY DEF RequestOK
<1> HIDE DEF S
<1>6. n \in Request
  BY <1>1, <1>2 DEF Request
<1> QED BY <1>1, <1>2, <1>3, <1>4, <1>5, <1>6 DEF RequestOK

LEMMA DeductKeepsRequest ==
    ASSUME NEW q \in Request, RequestOK(q), q.pc = "deducting", NEW rule \in q.todo, NEW n,
           n = [q EXCEPT !.todo = @ \ {rule}, !.charged = @ \union {rule}]
    PROVE  n \in Request /\ RequestOK(n)
<1>1. n = [pc |-> "deducting", route |-> q.route, peer |-> q.peer, subject |-> q.subject,
           stage |-> q.stage, todo |-> q.todo \ {rule}, tested |-> q.tested,
           charged |-> q.charged \union {rule}, breached |-> q.breached, verdict |-> q.verdict]
  BY DEF Request
<1>2. rule \in Conditional
  BY DEF Request, RequestOK
<1>3. n \in Request
  BY <1>1, <1>2 DEF Request, Rule, PeerRules, SubjectRules, Conditional
<1> QED BY <1>1, <1>2, <1>3 DEF RequestOK

LEMMA AnswerKeepsRequest ==
    ASSUME NEW q \in Request, RequestOK(q), NEW verdict,
           \/ q.pc = "checking" /\ verdict \in {"limited", "unauthenticated"}
           \/ q.pc = "deducting" /\ q.todo = {} /\ verdict = q.verdict
           \/ verdict = "error",
           NEW n, n = [q EXCEPT !.pc = "answered", !.verdict = verdict]
    PROVE  n \in Request /\ RequestOK(n)
<1>1. n = [pc |-> "answered", route |-> q.route, peer |-> q.peer, subject |-> q.subject,
           stage |-> q.stage, todo |-> q.todo, tested |-> q.tested,
           charged |-> q.charged, breached |-> q.breached, verdict |-> verdict]
  BY DEF Request
<1>2. n \in Request
  BY <1>1 DEF Request, RequestOK
<1>3. /\ verdict = "wrong" => Conditional \subseteq q.charged
      /\ verdict \in {"ok", "limited", "unauthenticated"} =>
           q.charged \intersect Conditional = {}
  BY DEF RequestOK
<1> QED BY <1>1, <1>2, <1>3 DEF RequestOK

-----------------------------------------------------------------------------
(* The steps of the clients and the windows.                               *)

\* A client's step that gives its request the value n.
Moves(r, n) ==
    /\ n \in Request /\ RequestOK(n)
    /\ request' = [request EXCEPT ![r] = n]

RequestsOK == \A r \in Requests : RequestOK(request[r])

LEMMA MovesKeepRequests ==
    ASSUME request \in [Requests -> Request], RequestsOK, NEW r \in Requests, NEW n, Moves(r, n)
    PROVE  request' \in [Requests -> Request] /\ RequestsOK'
  BY DEF Moves, RequestsOK

LEMMA ChargeKeepsCount ==
    ASSUME count \in [Bucket -> Nat], NEW b, Charge(b)
    PROVE  /\ count' \in [Bucket -> Nat]
           /\ \A c \in Bucket : c # b => count'[c] = count[c]
           /\ b \in Bucket => count'[b] \in {count[b], count[b] + 1}
<1>1. PICK v \in {count[b], count[b] + 1} : count' = [count EXCEPT ![b] = v]
  BY DEF Charge
<1>2. \A c \in Bucket : count[c] \in Nat /\ count[c] + 1 \in Nat
  OBVIOUS
<1>3. \A c \in Bucket : count'[c] = IF c = b THEN v ELSE count[c]
  BY <1>1
<1>4. count' = [c \in Bucket |-> count'[c]]
  BY <1>1
<1>5. \A c \in Bucket : count'[c] \in Nat
  BY <1>1, <1>2, <1>3
<1> QED BY <1>1, <1>3, <1>4, <1>5

LEMMA AnswerMoves ==
    ASSUME request \in [Requests -> Request], RequestsOK, NEW r \in Requests, NEW verdict,
           Answer(r, verdict),
           \/ At(r, "checking") /\ verdict \in {"limited", "unauthenticated"}
           \/ At(r, "deducting") /\ request[r].todo = {} /\ verdict = request[r].verdict
           \/ verdict = "error"
    PROVE  Moves(r, [request[r] EXCEPT !.pc = "answered", !.verdict = verdict])
<1> DEFINE q == request[r]
           n == [q EXCEPT !.pc = "answered", !.verdict = verdict]
<1>1. q \in Request /\ RequestOK(q)
  BY DEF RequestsOK
<1>2. \/ q.pc = "checking" /\ verdict \in {"limited", "unauthenticated"}
      \/ q.pc = "deducting" /\ q.todo = {} /\ verdict = q.verdict
      \/ verdict = "error"
  BY DEF At
<1>3. request' = [request EXCEPT ![r] = n]
  BY DEF Answer
<1> HIDE DEF q
<1>4. n \in Request /\ RequestOK(n)
  BY <1>1, <1>2, AnswerKeepsRequest
<1> QED BY <1>3, <1>4 DEF Moves, q
-----------------------------------------------------------------------------
(* How many failures a limit may still be charged for.                     *)

LEMMA PendingIsFinite ==
    ASSUME NEW b
    PROVE  /\ IsFiniteSet(Pending(b)) /\ Cardinality(Pending(b)) \in Nat
           /\ Cardinality(Requests) \in Nat
           /\ Cardinality(Pending(b)) <= Cardinality(Requests)
<1>1. Pending(b) \subseteq Requests
  BY DEF Pending
<1> QED BY <1>1, FS_Subset, FS_CardinalityType

LEMMA LimitIsPositive ==
    ASSUME NEW b \in Bucket, b[1] \in Conditional
    PROVE  Limit[b[1]] \in Nat /\ Limit[b[1]] >= 1
  BY DEF Rule, PeerRules, SubjectRules, Conditional

LEMMA PendingIsFiniteNext ==
    ASSUME NEW b
    PROVE  /\ IsFiniteSet(Pending(b)') /\ Cardinality(Pending(b)') \in Nat
           /\ Cardinality(Pending(b)') <= Cardinality(Requests)
<1>1. Pending(b)' \subseteq Requests
  BY DEF Pending
<1> QED BY <1>1, FS_Subset, FS_CardinalityType

\* A bucket stays bounded when no request starts to wait for it and it is not
\* charged.
LEMMA QuietBucket ==
    ASSUME IInv, NEW r \in Requests, NEW n, Moves(r, n),
           NEW b \in Bucket, b[1] \in Conditional,
           Awaits(n, b) => Awaits(request[r], b), count'[b] = count[b]
    PROVE  BoundedAt(b)'
<1>1. Pending(b)' \subseteq Pending(b)
  BY DEF Pending, Moves, IInv, Shape
<1>2. Cardinality(Pending(b)') <= Cardinality(Pending(b))
  BY <1>1, PendingIsFinite, FS_Subset
<1>3. count[b] \in Nat /\ BoundedAt(b)
  BY DEF IInv, Shape, PendingBounded
<1> QED BY <1>2, <1>3, PendingIsFinite, PendingIsFiniteNext, LimitIsPositive DEF BoundedAt

LEMMA QuietStep ==
    ASSUME IInv, NEW r \in Requests, NEW n, Moves(r, n),
           \A b \in Bucket : b[1] \in Conditional /\ Awaits(n, b) => Awaits(request[r], b),
           count' \in [Bucket -> Nat],
           \A b \in Bucket : b[1] \in Conditional => count'[b] = count[b]
    PROVE  IInv'
<1>1. Shape' /\ RequestsOK'
  BY MovesKeepRequests DEF IInv, Shape, RequestsOK
<1>2. PendingBounded'
  BY QuietBucket DEF PendingBounded
<1> QED BY <1>1, <1>2 DEF IInv, RequestsOK

-----------------------------------------------------------------------------
(* One lemma per action.                                                   *)

LEMMA RequestIsOK ==
    ASSUME IInv, NEW r \in Requests
    PROVE  request[r] \in Request /\ RequestOK(request[r])
  BY DEF IInv, Shape

LEMMA AnswerStep ==
    ASSUME IInv, NEW r \in Requests, NEW verdict, Answer(r, verdict), UNCHANGED count,
           \/ At(r, "checking") /\ verdict \in {"limited", "unauthenticated"}
           \/ At(r, "deducting") /\ request[r].todo = {} /\ verdict = request[r].verdict
           \/ verdict = "error"
    PROVE  IInv'
<1> DEFINE n == [request[r] EXCEPT !.pc = "answered", !.verdict = verdict]
<1>1. Moves(r, n)
  BY AnswerMoves DEF IInv, Shape, RequestsOK
<1>2. n.pc = "answered"
  BY RequestIsOK DEF Request
<1> HIDE DEF n
<1>3. \A b \in Bucket : ~Awaits(n, b)
  BY <1>2 DEF Awaits
<1> QED BY <1>1, <1>3, QuietStep DEF IInv, Shape

LEMMA ArriveStep ==
    ASSUME IInv, NEW r \in Requests, Arrive(r)
    PROVE  IInv'
<1> DEFINE q == request[r]
           S == Stages(q.route)[1]
           n == [pc |-> "checking", route |-> q.route, peer |-> q.peer, subject |-> q.subject,
                 stage |-> 1, todo |-> S, tested |-> {}, charged |-> {}, breached |-> FALSE,
                 verdict |-> "none"]
<1>1. n \in Request /\ RequestOK(n)
  BY RequestIsOK, ArriveKeepsRequest
<1>2. request' = [request EXCEPT ![r] = n]
  <2>1. PICK f : f = Fresh(q.route, q.peer, q.subject)
    OBVIOUS
  <2>2. PICK m : m = [f EXCEPT !.pc = "checking", !.todo = S]
    OBVIOUS
  <2>3. request' = [request EXCEPT ![r] = m]
    <3>1. request' = [request EXCEPT ![r] =
                        [Fresh(q.route, q.peer, q.subject) EXCEPT !.pc = "checking", !.todo = S]]
      BY DEF Arrive
    <3> HIDE DEF q, S
    <3> QED BY <2>1, <2>2, <3>1
  <2> HIDE DEF q, S
  <2>4. m = n
    BY <2>1, <2>2 DEF Fresh
  <2> HIDE DEF n
  <2> QED BY <2>3, <2>4
<1>3. \A b \in Bucket : ~Awaits(n, b)
  BY DEF Awaits
<1>4. count' = count
  BY DEF Arrive
<1> HIDE DEF n
<1>5. Moves(r, n)
  BY <1>1, <1>2 DEF Moves
<1> QED BY <1>3, <1>4, <1>5, QuietStep DEF IInv, Shape

LEMMA HitStep ==
    ASSUME IInv, NEW r \in Requests, Hit(r)
    PROVE  IInv'
<1> DEFINE q == request[r]
           rule == Due(r)
           breached == q.breached \/ count[BucketOf(r, rule)] >= Limit[rule]
           n == [q EXCEPT !.todo = @ \ {rule}, !.charged = @ \union {rule}, !.breached = breached]
<1>1. rule \in q.todo /\ q.pc = "checking" /\ rule \notin Conditional \union {"auth_required"}
  BY DueIsToDo DEF Hit, At
<1>2. request' = [request EXCEPT ![r] = n] /\ Charge(BucketOf(r, rule))
  BY DEF Hit
<1>3. q \in Request /\ RequestOK(q) /\ breached \in BOOLEAN
  BY RequestIsOK
<1>4. q.breached => breached
  OBVIOUS
<1> HIDE DEF rule, q, breached
<1>5. n \in Request /\ RequestOK(n)
  BY <1>1, <1>3, HitKeepsRequest
<1>6. /\ n.peer = q.peer /\ n.subject = q.subject /\ n.tested = q.tested /\ n.pc = "checking"
      /\ ~n.breached => ~q.breached
  BY <1>1, <1>3, <1>4 DEF Request
<1> HIDE DEF n
<1>7. \A b \in Bucket : Awaits(n, b) => Awaits(q, b)
  BY <1>1, <1>6 DEF Awaits
<1>8. Moves(r, n)
  BY <1>2, <1>5 DEF Moves
<1>9. count' \in [Bucket -> Nat] /\ \A b \in Bucket : b[1] \in Conditional => count'[b] = count[b]
  <2>1. \A b \in Bucket : b[1] \in Conditional => b # BucketOf(r, rule)
    BY <1>1 DEF BucketOf
  <2> QED BY <1>2, <2>1, ChargeKeepsCount DEF IInv, Shape
<1> QED BY <1>7, <1>8, <1>9, QuietStep DEF q

LEMMA AuthenticateStep ==
    ASSUME IInv, NEW r \in Requests, Authenticate(r)
    PROVE  IInv'
<1> DEFINE q == request[r]
           n == [q EXCEPT !.todo = {}]
<1>1. CASE request' = [request EXCEPT ![r] = n]
  <2>1. q.pc = "checking" /\ "auth_required" \in q.todo /\ count' = count
    BY DEF Authenticate, At
  <2>2. q \in Request /\ RequestOK(q)
    BY RequestIsOK
  <2> HIDE DEF q
  <2>3. n \in Request /\ RequestOK(n)
    BY <2>1, <2>2, AuthenticateKeepsRequest
  <2>4. \A b \in Bucket : Awaits(n, b) => Awaits(q, b)
    BY <2>1, <2>2 DEF Awaits, Request
  <2> HIDE DEF n
  <2>5. Moves(r, n)
    BY <1>1, <2>3 DEF Moves, n
  <2> QED BY <2>1, <2>4, <2>5, QuietStep DEF q, IInv, Shape
<1>2. CASE Answer(r, "unauthenticated")
  BY <1>2, AnswerStep DEF Authenticate
<1> QED BY <1>1, <1>2 DEF Authenticate

LEMMA NextStageRecord ==
    ASSUME NEW q \in Request, q.pc = "checking", NEW stage, NEW S, NEW n,
           n = [q EXCEPT !.stage = stage, !.todo = S]
    PROVE  n = [pc |-> "checking", route |-> q.route, peer |-> q.peer, subject |-> q.subject,
                stage |-> stage, todo |-> S, tested |-> q.tested,
                charged |-> q.charged, breached |-> q.breached, verdict |-> q.verdict]
  BY DEF Request

LEMMA NextStageStep ==
    ASSUME IInv, NEW r \in Requests, NextStage(r)
    PROVE  IInv'
<1> DEFINE q == request[r]
           S == Stages(q.route)[q.stage + 1]
           n == [pc |-> "checking", route |-> q.route, peer |-> q.peer, subject |-> q.subject,
                 stage |-> q.stage + 1, todo |-> S, tested |-> q.tested,
                 charged |-> q.charged, breached |-> q.breached, verdict |-> q.verdict]
<1>1. q.pc = "checking" /\ q.todo = {} /\ ~q.breached /\ q.stage < Len(Stages(q.route))
  BY DEF NextStage, Passed, At
<1>2. q \in Request /\ RequestOK(q)
  BY RequestIsOK
<1>3. n \in Request /\ RequestOK(n)
  BY <1>1, <1>2, NextStageKeepsRequest
<1>4. request' = [request EXCEPT ![r] = n] /\ count' = count
  <2>1. PICK m : m = [q EXCEPT !.stage = q.stage + 1, !.todo = S]
    OBVIOUS
  <2>2. request' = [request EXCEPT ![r] = m] /\ count' = count
    BY <2>1 DEF NextStage
  <2> HIDE DEF q, S
  <2>3. m = n
    BY <1>1, <1>2, <2>1, NextStageRecord
  <2> HIDE DEF n
  <2> QED BY <2>2, <2>3
<1>5. \A b \in Bucket : Awaits(n, b) => Awaits(q, b)
  BY <1>1 DEF Awaits
<1> HIDE DEF n
<1>6. Moves(r, n)
  BY <1>3, <1>4 DEF Moves
<1> QED BY <1>4, <1>5, <1>6, QuietStep DEF IInv, Shape

LEMMA EnterViewStep ==
    ASSUME IInv, NEW r \in Requests, EnterView(r)
    PROVE  IInv'
<1> DEFINE q == request[r]
           n == [q EXCEPT !.pc = "view"]
<1>1. /\ q.pc = "checking" /\ q.todo = {} /\ ~q.breached /\ q.stage = Len(Stages(q.route))
      /\ request' = [request EXCEPT ![r] = n] /\ count' = count
  BY DEF EnterView, Passed, At
<1>2. q \in Request /\ RequestOK(q)
  BY RequestIsOK
<1> HIDE DEF q
<1>3. n \in Request /\ RequestOK(n)
  BY <1>1, <1>2, EnterViewKeepsRequest
<1>4. \A b \in Bucket : Awaits(n, b) => Awaits(q, b)
  BY <1>1, <1>2 DEF Awaits, Request
<1> HIDE DEF n
<1>5. Moves(r, n)
  BY <1>1, <1>3 DEF Moves
<1> QED BY <1>1, <1>4, <1>5, QuietStep DEF q, IInv, Shape

LEMMA ServeStep ==
    ASSUME IInv, NEW r \in Requests, NEW verdict \in {"ok", "wrong"}, Serve(r, verdict)
    PROVE  IInv'
<1> DEFINE q == request[r]
           n == [q EXCEPT !.pc = "deducting", !.verdict = verdict,
                          !.todo = IF verdict = "wrong" THEN q.tested ELSE {}]
<1>1. /\ q.pc = "view"
      /\ verdict = "wrong" => q.tested # {}
      /\ request' = [request EXCEPT ![r] = n] /\ count' = count
  BY DEF Serve, At
<1>2. q \in Request /\ RequestOK(q)
  BY RequestIsOK
<1> HIDE DEF q
<1>3. n \in Request /\ RequestOK(n)
  BY <1>1, <1>2, ServeKeepsRequest
<1>4. /\ n.peer = q.peer /\ n.subject = q.subject /\ n.tested = q.tested
      /\ n.breached = q.breached
  BY <1>2 DEF Request
<1> HIDE DEF n
<1>5. \A b \in Bucket : Awaits(n, b) => Awaits(q, b)
  BY <1>1, <1>4 DEF Awaits
<1>6. Moves(r, n)
  BY <1>1, <1>3 DEF Moves
<1> QED BY <1>1, <1>5, <1>6, QuietStep DEF q, IInv, Shape
\* A request that passes the test joins those that wait, but then the limit
\* was not reached and there is room for every client.
LEMMA TestStep ==
    ASSUME IInv, NEW r \in Requests, Test(r)
    PROVE  IInv'
<1> DEFINE q == request[r]
           rule == Due(r)
           t == BucketOf(r, rule)
           breached == q.breached \/ count[t] >= Limit[rule]
           n == [q EXCEPT !.todo = @ \ {rule}, !.tested = @ \union {rule}, !.breached = breached]
<1>1. rule \in q.todo /\ q.pc = "checking" /\ rule \in Conditional
  BY DueIsToDo DEF Test, At
<1>2. request' = [request EXCEPT ![r] = n] /\ count' = count
  BY DEF Test
<1>3. q \in Request /\ RequestOK(q) /\ breached \in BOOLEAN
  BY RequestIsOK
<1>4. ~breached => ~q.breached /\ ~(count[t] >= Limit[rule])
  OBVIOUS
<1>5. t = <<rule, IF rule \in PeerRules THEN q.peer ELSE q.subject>>
  BY DEF BucketOf
<1> HIDE DEF t, rule, q, breached
<1>6. n \in Request /\ RequestOK(n)
  BY <1>1, <1>3, TestKeepsRequest
<1>7. /\ n.peer = q.peer /\ n.subject = q.subject /\ n.tested = q.tested \union {rule}
      /\ n.pc = "checking" /\ n.breached = breached
  BY <1>1, <1>3 DEF Request
<1> HIDE DEF n
<1>8. Moves(r, n)
  BY <1>2, <1>6 DEF Moves
<1>9. ASSUME NEW b \in Bucket, b[1] \in Conditional
      PROVE  BoundedAt(b)'
  <2>1. CASE ~Awaits(n, b) \/ Awaits(q, b)
    BY <1>2, <1>8, <1>9, <2>1, QuietBucket DEF q
  <2>2. CASE Awaits(n, b) /\ ~Awaits(q, b)
    <3>1. b = t /\ b[1] = rule /\ ~breached
      BY <1>1, <1>4, <1>5, <1>7, <2>2 DEF Awaits
    <3>2. count[b] \in Nat /\ Limit[rule] \in Nat /\ count'[b] <= Limit[b[1]] - 1
      BY <1>2, <1>4, <1>9, <3>1, LimitIsPositive DEF IInv, Shape
    <3>3. count'[b] \in Nat /\ Limit[b[1]] \in Nat
      BY <1>2, <3>1, <3>2
    <3> QED BY <3>2, <3>3, PendingIsFinite, PendingIsFiniteNext DEF BoundedAt
  <2> QED BY <2>1, <2>2
<1>10. Shape' /\ RequestsOK'
  BY <1>2, <1>8, MovesKeepRequests DEF IInv, Shape, RequestsOK
<1> QED BY <1>9, <1>10 DEF IInv, RequestsOK, PendingBounded

\* A failure that is charged no longer waits.
LEMMA DeductStep ==
    ASSUME IInv, NEW r \in Requests, Deduct(r)
    PROVE  IInv'
<1> DEFINE q == request[r]
           rule == Due(r)
           t == BucketOf(r, rule)
           n == [q EXCEPT !.todo = @ \ {rule}, !.charged = @ \union {rule}]
<1>1. rule \in q.todo /\ q.pc = "deducting"
  BY DueIsToDo DEF Deduct, At
<1>2. request' = [request EXCEPT ![r] = n] /\ Charge(t)
  BY DEF Deduct
<1>3. q \in Request /\ RequestOK(q)
  BY RequestIsOK
<1>4. t = <<rule, IF rule \in PeerRules THEN q.peer ELSE q.subject>>
  BY DEF BucketOf
<1> HIDE DEF t, rule, q
<1>5. n \in Request /\ RequestOK(n)
  BY <1>1, <1>3, DeductKeepsRequest
<1>6. /\ n.peer = q.peer /\ n.subject = q.subject /\ n.tested = q.tested
      /\ n.pc = "deducting" /\ n.breached = q.breached /\ n.todo = q.todo \ {rule}
  BY <1>1, <1>3 DEF Request
<1> HIDE DEF n
<1>7. Moves(r, n)
  BY <1>2, <1>5 DEF Moves
<1>8. /\ count' \in [Bucket -> Nat]
      /\ \A b \in Bucket : b # t => count'[b] = count[b]
      /\ t \in Bucket => count'[t] \in {count[t], count[t] + 1}
  BY <1>2, ChargeKeepsCount DEF IInv, Shape
<1>9. ASSUME NEW b \in Bucket, b[1] \in Conditional
      PROVE  BoundedAt(b)'
  <2>1. CASE b # t
    <3>1. Awaits(n, b) => Awaits(q, b)
      BY <1>1, <1>6 DEF Awaits
    <3> QED BY <1>7, <1>8, <1>9, <2>1, <3>1, QuietBucket DEF q
  <2>2. CASE b = t
    <3>1. Awaits(q, b) /\ ~Awaits(n, b)
      BY <1>1, <1>3, <1>4, <1>6, <2>2 DEF Awaits, RequestOK
    <3>2. r \in Pending(b) /\ Pending(b)' \subseteq Pending(b) \ {r}
      BY <1>7, <3>1 DEF Pending, q, Moves, IInv, Shape
    <3>3. IsFiniteSet(Pending(b) \ {r})
          /\ Cardinality(Pending(b) \ {r}) = Cardinality(Pending(b)) - 1
      BY <3>2, PendingIsFinite, FS_RemoveElement
    <3>4. Cardinality(Pending(b)') <= Cardinality(Pending(b)) - 1
      BY <3>2, <3>3, FS_Subset
    <3>5. count[b] \in Nat /\ count'[b] \in Nat /\ count'[b] <= count[b] + 1 /\ BoundedAt(b)
      BY <1>8, <1>9, <2>2 DEF IInv, Shape, PendingBounded
    <3> QED BY <1>9, <3>4, <3>5, PendingIsFinite, PendingIsFiniteNext, LimitIsPositive
            DEF BoundedAt
  <2> QED BY <2>1, <2>2
<1>10. Shape' /\ RequestsOK'
  BY <1>7, <1>8, MovesKeepRequests DEF IInv, Shape, RequestsOK
<1> QED BY <1>9, <1>10 DEF IInv, RequestsOK, PendingBounded

\* With an empty counter there is room for every client, as a limit is positive.
LEMMA WindowStep ==
    ASSUME IInv, NEW c \in Bucket, WindowEnds(c)
    PROVE  IInv'
<1>1. /\ request' = request /\ count' \in [Bucket -> Nat]
      /\ \A b \in Bucket : count'[b] = IF b = c THEN 0 ELSE count[b]
  BY DEF WindowEnds, IInv, Shape
<1>2. ASSUME NEW b \in Bucket, b[1] \in Conditional
      PROVE  BoundedAt(b)'
  <2>1. Pending(b)' = Pending(b)
    BY <1>1 DEF Pending
  <2>2. count[b] \in Nat /\ BoundedAt(b)
    BY <1>2 DEF IInv, Shape, PendingBounded
  <2>3. CASE b = c
    BY <1>1, <1>2, <2>1, <2>3, PendingIsFinite, LimitIsPositive DEF BoundedAt
  <2>4. CASE b # c
    BY <1>1, <2>1, <2>2, <2>4 DEF BoundedAt
  <2> QED BY <2>3, <2>4
<1> QED BY <1>1, <1>2 DEF IInv, Shape, PendingBounded

-----------------------------------------------------------------------------
(* The invariant holds in every state.                                     *)

LEMMA InvariantInitially == Init => IInv
<1> SUFFICES ASSUME Init PROVE IInv
  OBVIOUS
<1>1. ASSUME NEW route \in Calls, NEW peer \in Peers, NEW subject \in Subjects
      PROVE  Fresh(route, peer, subject) \in Request /\ RequestOK(Fresh(route, peer, subject))
  <2>1. route \in Routes /\ Len(Stages(route)) >= 1
    BY <1>1, GuardsOfRoutes DEF Guards
  <2> QED BY <1>1, <2>1 DEF Fresh, Request, RequestOK
<1>2. Shape
  BY <1>1 DEF Shape, Init
<1>3. \A r \in Requests : RequestOK(request[r]) /\ request[r].tested = {}
  <2> TAKE r \in Requests
  <2>1. PICK route \in Calls, peer \in Peers, subject \in Subjects :
          request[r] = Fresh(route, peer, subject)
    BY DEF Init
  <2> QED BY <1>1, <2>1 DEF Fresh
<1>4. PendingBounded
  <2> SUFFICES ASSUME NEW b \in Bucket, b[1] \in Conditional
               PROVE  BoundedAt(b)
    BY DEF PendingBounded
  <2>1. count[b] = 0
    BY DEF Init
  <2> QED BY <2>1, PendingIsFinite, LimitIsPositive DEF BoundedAt
<1> QED BY <1>2, <1>3, <1>4 DEF IInv

LEMMA InvariantIsInductive == IInv /\ [Next]_vars => IInv'
<1> SUFFICES ASSUME IInv, [Next]_vars PROVE IInv'
  OBVIOUS
<1>1. ASSUME NEW r \in Requests, Arrive(r) PROVE IInv'
  BY <1>1, ArriveStep
<1>2. ASSUME NEW r \in Requests, Hit(r) PROVE IInv'
  BY <1>2, HitStep
<1>3. ASSUME NEW r \in Requests, Test(r) PROVE IInv'
  BY <1>3, TestStep
<1>4. ASSUME NEW r \in Requests, Deduct(r) PROVE IInv'
  BY <1>4, DeductStep
<1>5. ASSUME NEW r \in Requests, Authenticate(r) PROVE IInv'
  BY <1>5, AuthenticateStep
<1>6. ASSUME NEW r \in Requests, NextStage(r) PROVE IInv'
  BY <1>6, NextStageStep
<1>7. ASSUME NEW r \in Requests, EnterView(r) PROVE IInv'
  BY <1>7, EnterViewStep
<1>8. ASSUME NEW r \in Requests, Reject(r) PROVE IInv'
  BY <1>8, AnswerStep DEF Reject
<1>9. ASSUME NEW r \in Requests, NEW verdict \in {"ok", "wrong"}, Serve(r, verdict) PROVE IInv'
  BY <1>9, ServeStep
<1>10. ASSUME NEW r \in Requests, SendAnswer(r) PROVE IInv'
  BY <1>10, AnswerStep DEF SendAnswer
<1>11. ASSUME NEW r \in Requests, Fail(r) PROVE IInv'
  BY <1>11, AnswerStep DEF Fail
<1>12. ASSUME NEW b \in Bucket, WindowEnds(b) PROVE IInv'
  BY <1>12, WindowStep
<1>13. CASE UNCHANGED vars
  BY <1>13 DEF vars, IInv, Shape, PendingBounded, BoundedAt, Pending
<1> QED BY <1>1, <1>2, <1>3, <1>4, <1>5, <1>6, <1>7, <1>8, <1>9, <1>10, <1>11, <1>12, <1>13
        DEF Next

LEMMA InvariantHolds == Spec => []IInv
  BY InvariantInitially, InvariantIsInductive, PTL DEF Spec

-----------------------------------------------------------------------------
(* What the invariant implies.                                             *)

\* Counters are natural numbers and a request only ever has limits of its own
\* stage to do, whatever the routes, the limits and the number of clients.
THEOREM TypeCorrect == Spec => []TypeOK
<1>1. IInv => TypeOK
  BY DEF IInv, Shape, RequestOK, TypeOK, At
<1> QED BY <1>1, InvariantHolds, PTL

\* No view is reached past a limit, and no upload or download is authenticated
\* before its peer has been charged.
THEOREM NoLimitIsPassedBy == Spec => []EveryLimitIsCharged
<1>1. IInv => EveryLimitIsCharged
  BY DEF IInv, RequestOK, EveryLimitIsCharged, At
<1> QED BY <1>1, InvariantHolds, PTL

\* Parallel failures exceed a failures-only limit by less than their number,
\* for every limit and any number of clients.
THEOREM FailuresAreBounded == Spec => []FailuresBounded
<1>1. IInv => FailuresBounded
  <2> SUFFICES ASSUME IInv, NEW b \in Bucket, b[1] \in Conditional
               PROVE  count[b] <= Limit[b[1]] - 1 + Cardinality(Requests)
    BY DEF FailuresBounded
  <2>1. count[b] \in Nat /\ BoundedAt(b)
    BY DEF IInv, Shape, PendingBounded
  <2> QED BY <2>1, PendingIsFinite, LimitIsPositive DEF BoundedAt
<1> QED BY <1>1, InvariantHolds, PTL

\* A wrong password is charged to the address and to the target before the
\* client is told, and nothing else ever is.
THEOREM FailuresAreCounted == Spec => []FailuresAreCharged
<1>1. IInv => FailuresAreCharged
  BY DEF IInv, RequestOK, FailuresAreCharged, At
<1> QED BY <1>1, InvariantHolds, PTL
=============================================================================

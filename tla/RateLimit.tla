------------------------------ MODULE RateLimit ------------------------------
(***************************************************************************)
(* The limits a request has to pass (app/rate_limits.py and the decorators *)
(* of app/routes/auth.py and app/routes/files.py).                         *)
(*                                                                         *)
(* Flask-Limiter and its storage are external: a limit is a counter per    *)
(* bucket that a window resets.  The limits around one view are evaluated  *)
(* as a group, one storage call each, all of them even after a breach.  A  *)
(* failures-only limit is tested before the view and charged after it, so  *)
(* other requests come in between.                                         *)
(***************************************************************************)
EXTENDS Integers, Sequences, FiniteSets

CONSTANTS
    Requests,  \* clients, each repeating one call
    Calls,     \* the routes they call
    Peers,     \* socket peer addresses
    Subjects,  \* what the other keys name: identifier, token, user, session, file
    Limit      \* requests a rule lets through in a window

Conditional == {"login-failure-ip", "login-failure-credential"}
PeerRules == {"registration-ip", "login-ip", "login-failure-ip", "account-action-ip",
              "upload-ip", "download-ip"}
SubjectRules == {"login-failure-credential", "email-verification-request-user",
                 "email-verification-confirm-token", "password-reset-request-email",
                 "password-reset-confirm-token", "upload-user", "upload-session",
                 "download-user", "download-session", "download-user-resource"}
Rule == PeerRules \union SubjectRules
Routes == {"register", "login", "verification_request", "verification_confirm",
           "reset_request", "reset_confirm", "upload", "download"}

ASSUME LimitAssumption ==
    /\ IsFiniteSet(Requests)
    /\ Calls \subseteq Routes
    /\ Limit \in [Rule -> Nat \ {0}]

\* Mutant: the peer limit keeps the name of the view and joins its group.
PeerInGroup(peer, rules) == << {"auth_required"}, {peer} \union rules >>

\* _pre_auth_peer_limit: a group of its own, outside auth_required.
PeerBoundary(peer, rules) == << {peer}, {"auth_required"}, rules >>

\* The decorators of a route from the outside in; limits that guard the same
\* callable are one group.  auth_required stands among them.
Stages(route) ==
    CASE route = "register" -> << {"registration-ip"} >>
      [] route = "login" -> << {"login-ip", "login-failure-ip", "login-failure-credential"} >>
      [] route = "verification_request" ->
           << {"auth_required"}, {"account-action-ip", "email-verification-request-user"} >>
      [] route = "verification_confirm" ->
           << {"account-action-ip", "email-verification-confirm-token"} >>
      [] route = "reset_request" -> << {"account-action-ip", "password-reset-request-email"} >>
      [] route = "reset_confirm" -> << {"account-action-ip", "password-reset-confirm-token"} >>
      [] route = "upload" -> PeerBoundary("upload-ip", {"upload-user", "upload-session"})
      [] route = "download" ->
           PeerBoundary("download-ip",
                        {"download-user", "download-session", "download-user-resource"})

VARIABLES
    count,    \* requests charged to a bucket in its current window
    request   \* local state of a client's current request

vars == <<count, request>>

Bucket == (PeerRules \X Peers) \union (SubjectRules \X Subjects)
Request == [pc: {"idle", "checking", "view", "deducting", "answered"},
            route: Routes, peer: Peers, subject: Subjects, stage: 1 .. 3,
            todo: SUBSET (Rule \union {"auth_required"}), tested: SUBSET Conditional,
            charged: SUBSET Rule, breached: BOOLEAN,
            verdict: {"none", "ok", "wrong", "limited", "unauthenticated", "error"}]

Fresh(route, peer, subject) ==
    [pc |-> "idle", route |-> route, peer |-> peer, subject |-> subject, stage |-> 1,
     todo |-> {}, tested |-> {}, charged |-> {}, breached |-> FALSE, verdict |-> "none"]

Init ==
    /\ count = [b \in Bucket |-> 0]
    /\ request \in [Requests -> {Fresh(route, peer, subject) :
                                   route \in Calls, peer \in Peers, subject \in Subjects}]

-----------------------------------------------------------------------------
At(r, pc) == request[r].pc = pc

BucketOf(r, rule) == <<rule, IF rule \in PeerRules THEN request[r].peer ELSE request[r].subject>>

\* The limits of a group are evaluated in one fixed order, whichever it is.
Due(r) == CHOOSE rule \in request[r].todo : TRUE

\* Past its limit the exact number of an unconditional counter does not matter.
Charge(b) ==
    count' = [count EXCEPT ![b] =
        IF b[1] \notin Conditional /\ @ > Limit[b[1]] THEN @ ELSE @ + 1]

Answer(r, verdict) ==
    request' = [request EXCEPT ![r].pc = "answered", ![r].verdict = verdict]

-----------------------------------------------------------------------------
Arrive(r) ==
    /\ At(r, "idle") \/ At(r, "answered")
    /\ request' = [request EXCEPT ![r] =
         [Fresh(@.route, @.peer, @.subject) EXCEPT
            !.pc = "checking", !.todo = Stages(request[r].route)[1]]]
    /\ UNCHANGED count

\* hit: charge first, then compare.
Hit(r) == LET rule == Due(r) IN
    /\ At(r, "checking")
    /\ request[r].todo # {}
    /\ rule \notin Conditional \union {"auth_required"}
    /\ Charge(BucketOf(r, rule))
    /\ request' = [request EXCEPT
         ![r].todo = @ \ {rule},
         ![r].charged = @ \union {rule},
         ![r].breached = @ \/ count[BucketOf(r, rule)] >= Limit[rule]]

\* Mutant: the test lets a request through when the limit is reached.
TestOffByOne(r) == LET rule == Due(r) IN
    /\ At(r, "checking")
    /\ request[r].todo # {}
    /\ rule \in Conditional
    /\ request' = [request EXCEPT
         ![r].todo = @ \ {rule},
         ![r].tested = @ \union {rule},
         ![r].breached = @ \/ count[BucketOf(r, rule)] > Limit[rule]]
    /\ UNCHANGED count

\* test, for a limit with deduct_when.
Test(r) == LET rule == Due(r) IN
    /\ At(r, "checking")
    /\ request[r].todo # {}
    /\ rule \in Conditional
    /\ request' = [request EXCEPT
         ![r].todo = @ \ {rule},
         ![r].tested = @ \union {rule},
         ![r].breached = @ \/ count[BucketOf(r, rule)] >= Limit[rule]]
    /\ UNCHANGED count

\* auth_required lets the request through, or answers 401 or 403 itself.
Authenticate(r) ==
    /\ At(r, "checking")
    /\ "auth_required" \in request[r].todo
    /\ \/ request' = [request EXCEPT ![r].todo = {}]
       \/ Answer(r, "unauthenticated")
    /\ UNCHANGED count

Passed(r) == At(r, "checking") /\ request[r].todo = {} /\ ~request[r].breached

NextStage(r) ==
    /\ Passed(r)
    /\ request[r].stage < Len(Stages(request[r].route))
    /\ request' = [request EXCEPT ![r].stage = @ + 1,
                                  ![r].todo = Stages(request[r].route)[request[r].stage + 1]]
    /\ UNCHANGED count

EnterView(r) ==
    /\ Passed(r)
    /\ request[r].stage = Len(Stages(request[r].route))
    /\ request' = [request EXCEPT ![r].pc = "view"]
    /\ UNCHANGED count

\* RateLimitExceeded: 429.
Reject(r) ==
    /\ At(r, "checking")
    /\ request[r].todo = {}
    /\ request[r].breached
    /\ Answer(r, "limited")
    /\ UNCHANGED count

\* Mutant: only the limits of the last decorator are charged for a failure.
ServeDeductingLast(r, verdict) ==
    /\ At(r, "view")
    /\ verdict = "wrong" => request[r].tested # {}
    /\ request' = [request EXCEPT ![r].pc = "deducting", ![r].verdict = verdict,
         ![r].todo = IF verdict = "wrong" THEN {"login-failure-credential"} ELSE {}]
    /\ UNCHANGED count

\* Mutant: a failure is deducted from every limit, charged before or not.
ServeDeductingAll(r, verdict) ==
    /\ At(r, "view")
    /\ verdict = "wrong" => request[r].tested # {}
    /\ request' = [request EXCEPT ![r].pc = "deducting", ![r].verdict = verdict,
         ![r].todo = IF verdict = "wrong" THEN @ \union request[r].tested \union {"login-ip"}
                     ELSE {}]
    /\ UNCHANGED count

\* The view; _failed_credentials is decided on its response.
Serve(r, verdict) ==
    /\ At(r, "view")
    /\ verdict = "wrong" => request[r].tested # {}
    /\ request' = [request EXCEPT ![r].pc = "deducting", ![r].verdict = verdict,
         ![r].todo = IF verdict = "wrong" THEN request[r].tested ELSE {}]
    /\ UNCHANGED count

Deduct(r) == LET rule == Due(r) IN
    /\ At(r, "deducting")
    /\ request[r].todo # {}
    /\ Charge(BucketOf(r, rule))
    /\ request' = [request EXCEPT ![r].todo = @ \ {rule}, ![r].charged = @ \union {rule}]

SendAnswer(r) ==
    /\ At(r, "deducting")
    /\ request[r].todo = {}
    /\ Answer(r, request[r].verdict)
    /\ UNCHANGED count

\* The storage raises, which nothing swallows, or the process dies.
Fail(r) ==
    /\ At(r, "checking") \/ At(r, "view") \/ At(r, "deducting")
    /\ Answer(r, "error")
    /\ UNCHANGED count

WindowEnds(b) ==
    /\ count[b] > 0
    /\ count' = [count EXCEPT ![b] = 0]
    /\ UNCHANGED request

Next ==
    \/ \E r \in Requests :
         \/ Arrive(r)
         \/ Hit(r)
         \/ Test(r)
         \/ Deduct(r)
         \/ Authenticate(r)
         \/ NextStage(r)
         \/ EnterView(r)
         \/ Reject(r)
         \/ \E verdict \in {"ok", "wrong"} : Serve(r, verdict)
         \/ SendAnswer(r)
         \/ Fail(r)
    \/ \E b \in Bucket : WindowEnds(b)

Spec == Init /\ [][Next]_vars

-----------------------------------------------------------------------------
(* Properties.                                                             *)

RulesOf(route) == (UNION {Stages(route)[i] : i \in 1 .. Len(Stages(route))}) \ {"auth_required"}

\* Counters and requests are well formed, and what a request still has to do
\* belongs to the stage it is in (rate_limits.py, Flask-Limiter's context).
TypeOK ==
    /\ count \in [Bucket -> Nat]
    /\ request \in [Requests -> Request]
    /\ \A r \in Requests :
         /\ request[r].stage <= Len(Stages(request[r].route))
         /\ At(r, "deducting") => request[r].todo \subseteq request[r].tested

\* No path leads to a view past one of its limits, and uploads and downloads
\* are charged to their peer "before authentication or multipart parsing"
\* (upload_peer_rate_limited, download_peer_rate_limited).
EveryLimitIsCharged ==
    \A r \in Requests :
        /\ At(r, "view") => RulesOf(request[r].route) \subseteq
                              request[r].charged \union request[r].tested
        /\ "auth_required" \in request[r].todo /\ request[r].route \in {"upload", "download"}
             => request[r].charged \intersect PeerRules # {}

\* A failures-only limit is exceeded at most by the requests in flight: all of
\* them can pass the test before the first is charged, no later one can
\* ("a finite target cooldown", login_credential_rate_key).
FailuresBounded ==
    \A b \in Bucket : b[1] \in Conditional =>
        count[b] <= Limit[b[1]] - 1 + Cardinality(Requests)

\* Nobody is told that a password was wrong before that is charged to the
\* address and to the target, and only that is charged: "backend failures must
\* reject requests, never silently disable or localize enforcement"
\* (init_rate_limiting, _failed_credentials).
FailuresAreCharged ==
    \A r \in Requests :
        /\ At(r, "answered") /\ request[r].verdict = "wrong" =>
             Conditional \subseteq request[r].charged
        /\ At(r, "answered") /\ request[r].verdict \in {"ok", "limited", "unauthenticated"} =>
             request[r].charged \intersect Conditional = {}
=============================================================================

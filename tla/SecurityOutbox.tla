--------------------------- MODULE SecurityOutbox ---------------------------
(***************************************************************************)
(* The security-mail outbox and the account-action links it delivers.     *)
(*                                                                         *)
(*   app/services/email_outbox_service.py   jobs, leases, retries          *)
(*   app/services/account_token_service.py  links, confirmation, reset     *)
(*   app/services/auth_service.py           registration, password change  *)
(*                                                                         *)
(* Three kinds of process share the database: requests that enqueue a job, *)
(* workers (the CLI, the cron endpoint, or a request delivering inline)    *)
(* that lease a job, create its link, send it and close the job, and       *)
(* clients that confirm a link from their mailbox.  One action is one      *)
(* database transaction, or the part of one between two points at which    *)
(* another process can be observed: a worker that has locked the user row  *)
(* but not committed yet is a state of its own.                            *)
(***************************************************************************)
EXTENDS Integers, FiniteSets

CONSTANTS
    Users,          \* rows of the users table
    Workers,        \* threads running process_security_email_job
    Clients,        \* requests confirming a link
    None,           \* NULL
    Lease,          \* SECURITY_EMAIL_LEASE_SECONDS
    TokenLife,      \* lifetime of a link, per purpose
    MaxAttempts,    \* SECURITY_EMAIL_MAX_ATTEMPTS
    RetryBase,      \* SECURITY_EMAIL_RETRY_BASE_SECONDS
    RetryMax,       \* SECURITY_EMAIL_RETRY_MAX_SECONDS
    InlineDelivery, \* SECURITY_EMAIL_INLINE_DELIVERY
    MaxJobs,        \* bound: rows ever inserted into security_email_jobs
    MaxTokens,      \* bound: rows ever inserted into account_action_tokens
    MaxTime,        \* bound: last instant of the clock
    MaxCrashes      \* bound: worker calls that die half-way

Verification == "email_verification"
Reset == "password_reset"
Changed == "password_changed"
Challenges == {Verification, Reset}
Kinds == Challenges \union {Changed}

ASSUME NoneAssumption ==
    /\ None \notin Users \union Workers \union Clients
    /\ None \notin Nat
    /\ None \notin Kinds
ASSUME TimingAssumption ==
    /\ Lease \in Nat \ {0}
    /\ TokenLife \in [Challenges -> Nat \ {0}]
    /\ MaxAttempts \in Nat \ {0}
    /\ RetryBase \in Nat \ {0}
    /\ RetryMax \in Nat \ {0}
    /\ InlineDelivery \in BOOLEAN
ASSUME BoundAssumption ==
    /\ MaxJobs \in Nat
    /\ MaxTokens \in Nat
    /\ MaxTime \in Nat
    /\ MaxCrashes \in Nat

JobId == 1 .. MaxJobs
TokenId == 1 .. MaxTokens

VARIABLES
    now,         \* utc_now()
    registered,  \* users whose row exists
    verified,    \* users with email_verified_at set
    jobs,        \* security_email_jobs, numbered in creation order
    jobCount,
    tokens,      \* account_action_tokens, numbered in creation order
    tokenCount,
    userLock,    \* holder of SELECT ... FOR UPDATE on a user row, across actions
    worker,      \* local state of a process_security_email_job call
    client,      \* link a confirmation has looked up but not claimed yet
    mailed,      \* links whose message reached a mailbox
    accepted,    \* jobs whose message the transport accepted
    crashes

userVars == <<registered, verified>>
jobVars == <<jobs, jobCount>>
tokenVars == <<tokens, tokenCount>>
mailVars == <<mailed, accepted>>
vars == <<now, registered, verified, jobs, jobCount, tokens, tokenCount,
          userLock, worker, client, mailed, accepted, crashes>>

Job == [user: Users \union {None}, kind: Kinds \union {None},
        status: {"unused", "open", "completed", "cancelled"},
        availableAt: Nat, lease: Nat \union {None}, attempts: Nat]
Token == [user: Users \union {None}, purpose: Challenges \union {None},
          expiresAt: Nat, consumed: BOOLEAN, invalidated: BOOLEAN,
          job: JobId \union {None}]
\* SecurityEmailClaim, with the place the call has reached and its link.
Worker == [pc: {"idle", "claimed", "locked", "moot", "sending", "sent", "refused"},
           job: JobId \union {None}, attempts: Nat,
           lease: Nat, token: TokenId \union {None}]

UnusedJob == [user |-> None, kind |-> None, status |-> "unused",
              availableAt |-> 0, lease |-> None, attempts |-> 0]
UnusedToken == [user |-> None, purpose |-> None, expiresAt |-> 0,
                consumed |-> FALSE, invalidated |-> FALSE, job |-> None]
IdleWorker == [pc |-> "idle", job |-> None, attempts |-> 0,
               lease |-> 0, token |-> None]

\* The state migration 0004 leaves: an empty outbox beside accounts that may
\* already exist and may already be verified.
Init ==
    /\ now = 0
    /\ registered \in SUBSET Users
    /\ verified \in SUBSET registered
    /\ jobs = [j \in JobId |-> UnusedJob]
    /\ jobCount = 0
    /\ tokens = [t \in TokenId |-> UnusedToken]
    /\ tokenCount = 0
    /\ userLock = [u \in Users |-> None]
    /\ worker = [w \in Workers |-> IdleWorker]
    /\ client = [c \in Clients |-> None]
    /\ mailed = {}
    /\ accepted = {}
    /\ crashes = 0

-----------------------------------------------------------------------------
(* Rows and what can be done with them.                                    *)

Open(j) == jobs[j].status = "open"

\* Neither consumed nor invalidated: what every UPDATE of a link asks first.
Live(t) == /\ tokens[t].purpose \in Challenges
           /\ ~tokens[t].consumed
           /\ ~tokens[t].invalidated

\* The condition under which a confirmation accepts the link.
Usable(t) == Live(t) /\ tokens[t].expiresAt > now

Unlocked(u) == userLock[u] = None

Release(w) == [u \in Users |-> IF userLock[u] = w THEN None ELSE userLock[u]]

\* Mutants: jobs that a worker has leased are spared; the jobs of every kind or
\* of every account are cancelled.
CancelIdleJobs(js, u, kind) ==
    [j \in JobId |->
        IF js[j].user = u /\ js[j].kind = kind /\ js[j].status = "open" /\ js[j].lease = None
        THEN [js[j] EXCEPT !.status = "cancelled"] ELSE js[j]]
CancelJobsOfAnyKind(js, u, kind) ==
    [j \in JobId |->
        IF js[j].user = u /\ js[j].status = "open"
        THEN [js[j] EXCEPT !.status = "cancelled", !.lease = None] ELSE js[j]]
CancelJobsOfAnyUser(js, u, kind) ==
    [j \in JobId |->
        IF js[j].kind = kind /\ js[j].status = "open"
        THEN [js[j] EXCEPT !.status = "cancelled", !.lease = None] ELSE js[j]]

\* cancel_security_email_jobs, the jobs half.
CancelJobs(js, u, kind) ==
    [j \in JobId |->
        IF js[j].user = u /\ js[j].kind = kind /\ js[j].status = "open"
        THEN [js[j] EXCEPT !.status = "cancelled", !.lease = None]
        ELSE js[j]]

\* Mutant: links that have expired are not worth an UPDATE.
InvalidateUnexpired(u, purpose) ==
    [t \in TokenId |->
        IF tokens[t].user = u /\ tokens[t].purpose = purpose /\ Usable(t)
        THEN [tokens[t] EXCEPT !.invalidated = TRUE] ELSE tokens[t]]

\* _invalidate_active_action_tokens, also inlined in issue_account_token.
Invalidate(u, purpose) ==
    [t \in TokenId |->
        IF tokens[t].user = u /\ tokens[t].purpose = purpose /\ Live(t)
        THEN [tokens[t] EXCEPT !.invalidated = TRUE]
        ELSE tokens[t]]

AddJob(js, u, kind) ==
    [js EXCEPT ![jobCount + 1] =
        [user |-> u, kind |-> kind, status |-> "open",
         availableAt |-> now, lease |-> None, attempts |-> 0]]

\* enqueue_security_email for a verification or recovery request: the new job
\* supersedes every open job of its kind and the links they have issued.
EnqueueChallenge(u, kind) ==
    /\ jobCount < MaxJobs
    /\ Unlocked(u)
    /\ jobs' = AddJob(CancelJobs(jobs, u, kind), u, kind)
    /\ jobCount' = jobCount + 1
    /\ tokens' = Invalidate(u, kind)
    /\ UNCHANGED <<now, tokenCount, userLock, worker, client, mailed, accepted, crashes>>

-----------------------------------------------------------------------------
(* Requests that enqueue.                                                  *)

Register(u) ==
    /\ u \notin registered
    /\ registered' = registered \union {u}
    /\ UNCHANGED verified
    /\ EnqueueChallenge(u, Verification)

\* A verified account gets no new job, and nothing changes.
RequestVerification(u) ==
    /\ u \in registered \ verified
    /\ EnqueueChallenge(u, Verification)
    /\ UNCHANGED userVars

RequestReset(u) ==
    /\ u \in registered
    /\ EnqueueChallenge(u, Reset)
    /\ UNCHANGED userVars

\* change_password of an account whose request knew the current password.
ChangePassword(u) ==
    /\ u \in verified
    /\ Unlocked(u)
    /\ jobCount < MaxJobs
    /\ jobs' = AddJob(CancelJobs(jobs, u, Reset), u, Changed)
    /\ jobCount' = jobCount + 1
    /\ tokens' = Invalidate(u, Reset)
    /\ UNCHANGED <<now, registered, verified, tokenCount, userLock, worker,
                   client, mailed, accepted, crashes>>

-----------------------------------------------------------------------------
(* process_security_email_job.                                             *)

At(w, pc) == worker[w].pc = pc
JobOf(w) == jobs[worker[w].job]
ClaimUser(w) == JobOf(w).user
ClaimKind(w) == JobOf(w).kind

\* The condition of active_claim and of _transition_claim: the lease a worker
\* obtained is its fencing token.
HoldsLease(w) == /\ JobOf(w).status = "open"
                 /\ JobOf(w).lease = worker[w].lease

\* Mutant: a leased job may be taken at any time.
EligibleWhileLeased(j) == Open(j) /\ jobs[j].availableAt <= now

\* _claim_eligibility
Eligible(j) == /\ Open(j)
               /\ jobs[j].availableAt <= now
               /\ jobs[j].lease # None => jobs[j].lease <= now

\* ORDER BY available_at, created_at, id
Before(j, k) == \/ jobs[j].availableAt < jobs[k].availableAt
                \/ jobs[j].availableAt = jobs[k].availableAt /\ j <= k

\* The UPDATE ... RETURNING of claim_security_email_job; it takes no user lock.
TakeLease(w, j) ==
    /\ At(w, "idle")
    /\ Eligible(j)
    /\ jobs' = [jobs EXCEPT ![j].lease = now + Lease,
                            ![j].attempts = @ + 1]
    /\ worker' = [worker EXCEPT ![w] =
                    [pc |-> "claimed", job |-> j, attempts |-> jobs[j].attempts + 1,
                     lease |-> now + Lease, token |-> None]]
    /\ UNCHANGED <<now, registered, verified, jobCount, tokens, tokenCount,
                   userLock, client, mailed, accepted, crashes>>

ClaimNext(w) ==
    \E j \in JobId : /\ \A k \in JobId : Eligible(k) => Before(j, k)
                     /\ TakeLease(w, j)

\* _process_inline_security_email: the request that enqueued j claims it by id.
ClaimInline(w) ==
    /\ InlineDelivery
    /\ \E j \in JobId : TakeLease(w, j)

\* SELECT ... FOR UPDATE on the user, then the re-check of the claim.  A
\* password notice is sent with the lock still held: nothing commits before.
LockUser(w) ==
    /\ At(w, "claimed")
    /\ Unlocked(ClaimUser(w))
    /\ HoldsLease(w)
    /\ userLock' = [userLock EXCEPT ![ClaimUser(w)] = w]
    /\ worker' = [worker EXCEPT ![w].pc =
                    IF ClaimKind(w) = Changed THEN "sending" ELSE "locked"]
    /\ UNCHANGED <<now, registered, verified, jobVars, tokenVars, client, mailVars, crashes>>

\* The re-check fails: rollback, outcome lost_lease.
AbandonClaim(w) ==
    /\ At(w, "claimed")
    /\ Unlocked(ClaimUser(w))
    /\ ~HoldsLease(w)
    /\ worker' = [worker EXCEPT ![w] = IdleWorker]
    /\ UNCHANGED <<now, registered, verified, jobVars, tokenVars, userLock,
                   client, mailVars, crashes>>

\* Mutant: a link is issued whatever the account's state.
NeverVerified(w) == FALSE

AlreadyVerified(w) == ClaimKind(w) = Verification /\ ClaimUser(w) \in verified

\* Mutant: a recovery job is given a verification link.
IssueVerificationToken(w) ==
    /\ At(w, "locked")
    /\ ClaimUser(w) \notin verified
    /\ tokenCount < MaxTokens
    /\ tokens' = [Invalidate(ClaimUser(w), Verification) EXCEPT ![tokenCount + 1] =
                    [user |-> ClaimUser(w), purpose |-> Verification,
                     expiresAt |-> now + TokenLife[Verification],
                     consumed |-> FALSE, invalidated |-> FALSE,
                     job |-> worker[w].job]]
    /\ tokenCount' = tokenCount + 1
    /\ userLock' = Release(w)
    /\ worker' = [worker EXCEPT ![w].pc = "sending", ![w].token = tokenCount + 1]
    /\ UNCHANGED <<now, registered, verified, jobVars, client, mailVars, crashes>>

\* issue_account_token: siblings die, the new row is inserted, commit.
IssueToken(w) ==
    /\ At(w, "locked")
    /\ ~AlreadyVerified(w)
    /\ tokenCount < MaxTokens
    /\ tokens' = [Invalidate(ClaimUser(w), ClaimKind(w)) EXCEPT ![tokenCount + 1] =
                    [user |-> ClaimUser(w), purpose |-> ClaimKind(w),
                     expiresAt |-> now + TokenLife[ClaimKind(w)],
                     consumed |-> FALSE, invalidated |-> FALSE,
                     job |-> worker[w].job]]
    /\ tokenCount' = tokenCount + 1
    /\ userLock' = Release(w)
    /\ worker' = [worker EXCEPT ![w].pc = "sending", ![w].token = tokenCount + 1]
    /\ UNCHANGED <<now, registered, verified, jobVars, client, mailVars, crashes>>

\* issue_account_token commits and returns None for a verified account.
NothingToVerify(w) ==
    /\ At(w, "locked")
    /\ AlreadyVerified(w)
    /\ userLock' = Release(w)
    /\ worker' = [worker EXCEPT ![w].pc = "moot"]
    /\ UNCHANGED <<now, registered, verified, jobVars, tokenVars, client, mailVars, crashes>>

MessageLink(w) == {worker[w].token} \ {None}

\* deliver_email returns True.
TransportAccepts(w) ==
    /\ At(w, "sending")
    /\ accepted' = accepted \union {worker[w].job}
    /\ mailed' = mailed \union MessageLink(w)
    /\ worker' = [worker EXCEPT ![w].pc = "sent"]
    /\ UNCHANGED <<now, registered, verified, jobVars, tokenVars, userLock, client, crashes>>

\* deliver_email raises EmailDeliveryError, and the transaction rolls back.
\* The connection may have failed after the server took the message.
TransportFails(w) ==
    /\ At(w, "sending")
    /\ \/ UNCHANGED mailed
       \/ mailed' = mailed \union MessageLink(w)
    /\ userLock' = Release(w)
    /\ worker' = [worker EXCEPT ![w].pc = "refused"]
    /\ UNCHANGED <<now, registered, verified, jobVars, tokenVars, client, accepted, crashes>>

\* Mutant: the row changes whoever holds the lease by now.
TransitionUnfenced(w, row) ==
    /\ jobs' = [jobs EXCEPT ![worker[w].job] = row]
    /\ worker' = [worker EXCEPT ![w] = IdleWorker]
    /\ userLock' = Release(w)
    /\ UNCHANGED <<now, registered, verified, jobCount, tokenCount, client, mailVars, crashes>>

\* _transition_claim: the row changes only while the lease is still ours, and
\* the call ends with a commit either way.
TransitionClaim(w, row) ==
    /\ jobs' = IF HoldsLease(w)
               THEN [jobs EXCEPT ![worker[w].job] = row]
               ELSE jobs
    /\ worker' = [worker EXCEPT ![w] = IdleWorker]
    /\ userLock' = Release(w)
    /\ UNCHANGED <<now, registered, verified, jobCount, tokenCount, client, mailVars, crashes>>

Closed(w, status) == [JobOf(w) EXCEPT !.status = status, !.lease = None]

FinishDelivery(w) ==
    /\ At(w, "sent")
    /\ TransitionClaim(w, Closed(w, "completed"))
    /\ UNCHANGED tokens

CancelDelivery(w) ==
    /\ At(w, "moot")
    /\ TransitionClaim(w, Closed(w, "cancelled"))
    /\ UNCHANGED tokens

\* min(base * 2 ** min(max(attempts - 1, 0), 30), maximum); the product is
\* positive, so "at most the maximum" is membership in 1 .. RetryMax.
RetryDelay(attempts) ==
    LET exponent == IF attempts <= 1 THEN 0
                    ELSE IF attempts > 31 THEN 30 ELSE attempts - 1
        delay == RetryBase * 2^exponent
    IN  IF delay \in 1 .. RetryMax THEN delay ELSE RetryMax

\* _reschedule_delivery_failure runs without the user lock; this worker's own
\* link is invalidated even when the lease turns out to be lost.
RescheduleFailure(w) ==
    /\ At(w, "refused")
    /\ tokens' = [t \in TokenId |->
                    IF t = worker[w].token /\ Live(t)
                    THEN [tokens[t] EXCEPT !.invalidated = TRUE]
                    ELSE tokens[t]]
    /\ TransitionClaim(w,
         IF worker[w].attempts >= MaxAttempts
         THEN Closed(w, "cancelled")
         ELSE [JobOf(w) EXCEPT !.lease = None,
                               !.availableAt = now + RetryDelay(worker[w].attempts)])

\* The process dies, or an exception other than EmailDeliveryError escapes:
\* the open transaction rolls back, the job keeps its lease until it expires.
Crash(w) ==
    /\ ~At(w, "idle")
    /\ crashes < MaxCrashes
    /\ crashes' = crashes + 1
    /\ worker' = [worker EXCEPT ![w] = IdleWorker]
    /\ userLock' = Release(w)
    /\ UNCHANGED <<now, registered, verified, jobVars, tokenVars, client, mailVars>>

-----------------------------------------------------------------------------
(* Confirmations: _claim_token looks the link up, waits for the user lock, *)
(* and consumes the link only if it is still usable at the new instant.    *)

LookUp(c, t) ==
    /\ client[c] = None
    /\ t \in mailed
    /\ Usable(t)
    /\ client' = [client EXCEPT ![c] = t]
    /\ UNCHANGED <<now, registered, verified, jobVars, tokenVars, userLock,
                   worker, mailVars, crashes>>

\* Mutant: once the lock is there, the link found before is taken for granted.
ClaimTokenUnchecked(c, purpose) ==
    /\ client[c] # None
    /\ tokens[client[c]].purpose = purpose
    /\ Unlocked(tokens[client[c]].user)
    /\ client' = [client EXCEPT ![c] = None]

ClaimToken(c, purpose) ==
    /\ client[c] # None
    /\ tokens[client[c]].purpose = purpose
    /\ Unlocked(tokens[client[c]].user)
    /\ Usable(client[c])
    /\ client' = [client EXCEPT ![c] = None]

ConfirmVerification(c) ==
    /\ ClaimToken(c, Verification)
    /\ LET t == client[c]
           u == tokens[t].user
       IN  /\ verified' = verified \union {u}
           /\ tokens' = [Invalidate(u, Verification) EXCEPT ![t] =
                            [tokens[t] EXCEPT !.consumed = TRUE]]
    /\ UNCHANGED <<now, registered, jobVars, tokenCount, userLock, worker, mailVars, crashes>>

\* reset_password_with_token: every other link of the account dies, whatever
\* its purpose, open recovery jobs are cancelled and the notice is queued.
ConfirmReset(c) ==
    /\ ClaimToken(c, Reset)
    /\ jobCount < MaxJobs
    /\ LET t == client[c]
           u == tokens[t].user
       IN  /\ verified' = verified \union {u}
           /\ tokens' = [s \in TokenId |->
                            IF s = t THEN [tokens[s] EXCEPT !.consumed = TRUE]
                            ELSE IF tokens[s].user = u
                            THEN [tokens[s] EXCEPT !.invalidated = TRUE]
                            ELSE tokens[s]]
           /\ jobs' = AddJob(CancelJobs(jobs, u, Reset), u, Changed)
           /\ jobCount' = jobCount + 1
    /\ UNCHANGED <<now, registered, tokenCount, userLock, worker, mailVars, crashes>>

\* A new password may fail the policy.
PolicyMayReject(c) == tokens[client[c]].purpose = Reset

\* The link died while waiting, or the new password is refused: rollback.
RejectConfirmation(c) ==
    /\ client[c] # None
    /\ Unlocked(tokens[client[c]].user)
    /\ ~Usable(client[c]) \/ PolicyMayReject(c)
    /\ client' = [client EXCEPT ![c] = None]
    /\ UNCHANGED <<now, registered, verified, jobVars, tokenVars, userLock,
                   worker, mailVars, crashes>>

Tick ==
    /\ now < MaxTime
    /\ now' = now + 1
    /\ UNCHANGED <<registered, verified, jobVars, tokenVars, userLock, worker,
                   client, mailVars, crashes>>

-----------------------------------------------------------------------------
RequestStep(u) == \/ Register(u)
                  \/ RequestVerification(u)
                  \/ RequestReset(u)
                  \/ ChangePassword(u)

\* What a running worker does next; a crash is not something it does.
WorkerStep(w) == \/ ClaimNext(w)
                 \/ ClaimInline(w)
                 \/ LockUser(w)
                 \/ AbandonClaim(w)
                 \/ IssueToken(w)
                 \/ NothingToVerify(w)
                 \/ TransportAccepts(w)
                 \/ TransportFails(w)
                 \/ FinishDelivery(w)
                 \/ CancelDelivery(w)
                 \/ RescheduleFailure(w)

ClientStep(c) == \/ \E t \in TokenId : LookUp(c, t)
                 \/ ConfirmVerification(c)
                 \/ ConfirmReset(c)
                 \/ RejectConfirmation(c)

Next == \/ \E u \in Users : RequestStep(u)
        \/ \E w \in Workers : WorkerStep(w)
        \/ \E w \in Workers : Crash(w)
        \/ \E c \in Clients : ClientStep(c)
        \/ Tick

Spec == Init /\ [][Next]_vars

-----------------------------------------------------------------------------
(* Properties.                                                             *)

JobsOK ==
    /\ jobs \in [JobId -> Job]
    /\ jobCount \in 0 .. MaxJobs
    /\ \A j \in JobId :
         IF j <= jobCount
         THEN jobs[j].user \in registered /\ jobs[j].kind \in Kinds /\ jobs[j].status # "unused"
         ELSE jobs[j] = UnusedJob

TokensOK ==
    /\ tokens \in [TokenId -> Token]
    /\ tokenCount \in 0 .. MaxTokens
    /\ \A t \in TokenId :
         IF t <= tokenCount
         THEN /\ tokens[t].job \in 1 .. jobCount
              /\ tokens[t].user = jobs[tokens[t].job].user
              /\ tokens[t].purpose = jobs[tokens[t].job].kind
              /\ tokens[t].purpose \in Challenges
         ELSE tokens[t] = UnusedToken

WorkersOK ==
    /\ worker \in [Workers -> Worker]
    /\ \A w \in Workers : ~At(w, "idle") => worker[w].job \in 1 .. jobCount
    /\ \A w \in Workers : At(w, "locked") => ClaimKind(w) \in Challenges
    /\ \A w \in Workers : worker[w].token # None => worker[w].token <= tokenCount

MailOK ==
    /\ client \in [Clients -> TokenId \union {None}]
    /\ \A c \in Clients : client[c] # None => client[c] <= tokenCount
    /\ mailed \subseteq 1 .. tokenCount
    /\ accepted \subseteq 1 .. jobCount

\* Every row, claim and lock is well formed, a link belongs to the account and
\* the purpose of the job that issued it, and rows beyond the counters do not
\* exist yet (columns and constraints of the two tables, SecurityEmailClaim).
TypeOK ==
    /\ now \in Nat
    /\ crashes \in 0 .. MaxCrashes
    /\ registered \subseteq Users
    /\ verified \subseteq registered
    /\ userLock \in [Users -> Workers \union {None}]
    /\ JobsOK
    /\ TokensOK
    /\ WorkersOK
    /\ MailOK

\* "prevents concurrent requests from leaving two usable token generations"
\* (email_outbox_service.py:154): an account never has two live links of one
\* purpose, however issuance, replacement, retry and confirmation interleave.
OneLiveLink ==
    \A s, t \in TokenId :
        /\ Live(s) /\ Live(t)
        /\ tokens[s].user = tokens[t].user
        /\ tokens[s].purpose = tokens[t].purpose
        => s = t

\* A new request supersedes its predecessor (enqueue_security_email): at most
\* one verification job and one recovery job of an account is open.
OneOpenChallenge ==
    \A j, k \in JobId :
        /\ Open(j) /\ Open(k)
        /\ jobs[j].user = jobs[k].user
        /\ jobs[j].kind = jobs[k].kind
        /\ jobs[j].kind \in Challenges
        => j = k

\* claim_security_email_job: "a competing worker can receive the row only
\* after its lease has expired".  Two calls in flight for one job never both
\* pass the fencing test, even when the older one wakes up late.
LeaseFences ==
    \A v, w \in Workers :
        /\ ~At(v, "idle") /\ ~At(w, "idle")
        /\ worker[v].job = worker[w].job
        /\ HoldsLease(v) /\ HoldsLease(w)
        => v = w

\* "token invalidation below makes the stale message harmless" (172): a live
\* link was issued for the newest job of its kind, and that job has not been
\* cancelled, superseded or exhausted.
LiveLinkIsCurrent ==
    \A t \in TokenId : Live(t) =>
        /\ jobs[tokens[t].job].status # "cancelled"
        /\ \A k \in JobId :
             jobs[k].user = tokens[t].user /\ jobs[k].kind = tokens[t].purpose
             => k <= tokens[t].job

\* A verified address has no live verification link left
\* (confirm_email_verification, reset_password_with_token, issue_account_token).
VerifiedNeedsNoLink ==
    \A t \in TokenId :
        Live(t) /\ tokens[t].purpose = Verification => tokens[t].user \notin verified

\* After a password change no recovery requested before it can still be used
\* or still be delivered: every live recovery link and every open recovery job
\* is younger than the account's last password-change notice.
NoRecoverySurvivesChange ==
    \A k \in JobId : jobs[k].kind = Changed =>
        /\ \A t \in TokenId :
             Live(t) /\ tokens[t].purpose = Reset /\ tokens[t].user = jobs[k].user
             => tokens[t].job > k
        /\ \A j \in JobId :
             Open(j) /\ jobs[j].kind = Reset /\ jobs[j].user = jobs[k].user => j > k

\* A job leaves the outbox as completed only when some call delivered it, and
\* a password notice is given up only when its attempts are exhausted.
NoticeNotLost ==
    \A j \in JobId :
        /\ jobs[j].status = "completed" => j \in accepted
        /\ jobs[j].kind = Changed /\ jobs[j].status = "cancelled"
           => jobs[j].attempts >= MaxAttempts

\* A closed job is never reopened, leased or retried, and attempts never shrink
\* (_transition_claim and claim_security_email_job test both columns).
ClosedStaysClosed ==
    [][\A j \in JobId :
         /\ jobs[j].status \in {"completed", "cancelled"} => jobs'[j] = jobs[j]
         /\ jobs'[j].attempts >= jobs[j].attempts]_vars
=============================================================================

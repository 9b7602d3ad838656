------------------------ MODULE SecurityOutboxProofs ------------------------
(***************************************************************************)
(* Proofs about SecurityOutbox for every number of accounts, workers and   *)
(* clients, every timing configuration and every bound: rows and leases    *)
(* first, then the links and the notices, then that the outbox implements  *)
(* ActionChallenge.                                                        *)
(***************************************************************************)
EXTENDS SecurityOutboxRefinement, FiniteSetTheorems, TLAPS

USE NoneAssumption, TimingAssumption, BoundAssumption

\* Cancelling an account's jobs of one kind keeps every row a row, and touches
\* neither the account nor the kind nor the existence of any job.
LEMMA CancelJobsRows ==
    ASSUME NEW js \in [JobId -> Job], NEW u, NEW kind
    PROVE  /\ CancelJobs(js, u, kind) \in [JobId -> Job]
           /\ \A j \in JobId :
                /\ CancelJobs(js, u, kind)[j].user = js[j].user
                /\ CancelJobs(js, u, kind)[j].kind = js[j].kind
                /\ CancelJobs(js, u, kind)[j].status # "unused" <=> js[j].status # "unused"
                /\ js[j].status = "unused" => CancelJobs(js, u, kind)[j] = js[j]
  <1>1. ASSUME NEW j \in JobId
        PROVE  LET closed == [js[j] EXCEPT !.status = "cancelled", !.lease = None]
               IN  /\ closed \in Job /\ closed.status = "cancelled"
                   /\ closed.user = js[j].user /\ closed.kind = js[j].kind
    BY DEF Job
  <1>2. \A j \in JobId : CancelJobs(js, u, kind)[j] \in Job
    BY <1>1 DEF CancelJobs
  <1>3. CancelJobs(js, u, kind) \in [JobId -> Job]
    BY <1>2 DEF CancelJobs
  <1> QED BY <1>1, <1>3 DEF CancelJobs

\* The delay before the next attempt is a natural number, whatever the number
\* of attempts.
LEMMA RetryDelayType ==
    ASSUME NEW a \in Nat
    PROVE  RetryDelay(a) \in Nat
  BY DEF RetryDelay

LEMMA InitTypeOK == Init => TypeOK
  BY DEF Init, TypeOK, JobsOK, TokensOK, WorkersOK, MailOK, Job, Token, Worker,
         UnusedJob, UnusedToken, IdleWorker, JobId, TokenId, At

\* Appending a job to rows that satisfy JobsOK yields rows that satisfy it.
LEMMA AddJobOK ==
    ASSUME JobsOK, TokensOK, now \in Nat, registered \subseteq Users,
           jobCount < MaxJobs, jobCount' = jobCount + 1, registered \subseteq registered',
           registered' \subseteq Users,
           NEW u \in registered', NEW k \in Challenges, NEW kind \in Kinds,
           jobs' = AddJob(CancelJobs(jobs, u, k), u, kind)
    PROVE  /\ JobsOK'
           /\ \A j \in 1 .. jobCount : /\ j \in JobId
                                       /\ jobs'[j].user = jobs[j].user
                                       /\ jobs'[j].kind = jobs[j].kind
<1> DEFINE js == CancelJobs(jobs, u, k)
           new == [user |-> u, kind |-> kind, status |-> "open",
                   availableAt |-> now, lease |-> None, attempts |-> 0]
<1>1. /\ js \in [JobId -> Job]
      /\ \A j \in JobId : /\ js[j].user = jobs[j].user
                          /\ js[j].kind = jobs[j].kind
                          /\ js[j].status # "unused" <=> jobs[j].status # "unused"
                          /\ jobs[j].status = "unused" => js[j] = jobs[j]
  BY CancelJobsRows DEF JobsOK
<1>2. jobs' = [js EXCEPT ![jobCount + 1] = new]
  BY DEF AddJob
<1>3. new \in Job
  BY DEF Job, Kinds, Challenges
<1>4. jobCount + 1 \in JobId /\ jobCount \in Nat
  BY DEF JobsOK, JobId
<1>5. jobs' \in [JobId -> Job]
  BY <1>1, <1>2, <1>3, <1>4
<1>6. \A j \in JobId : j # jobCount + 1 => jobs'[j] = js[j]
  BY <1>1, <1>2, <1>4
<1>7. jobs'[jobCount + 1] = new
  BY <1>1, <1>2, <1>4
<1>8. ASSUME NEW j \in JobId
      PROVE  IF j <= jobCount'
             THEN jobs'[j].user \in registered' /\ jobs'[j].kind \in Kinds /\ jobs'[j].status # "unused"
             ELSE jobs'[j] = UnusedJob
  <2>1. CASE j = jobCount + 1
    BY <1>7, <2>1, <1>4
  <2>2. CASE j # jobCount + 1 /\ j <= jobCount
    <3>1. /\ jobs[j].user \in registered' /\ jobs[j].kind \in Kinds
          /\ jobs[j].status # "unused"
      BY <2>2 DEF JobsOK
    <3>2. jobs'[j] = js[j] /\ js[j].user = jobs[j].user /\ js[j].kind = jobs[j].kind
          /\ (js[j].status # "unused" <=> jobs[j].status # "unused")
      BY <1>1, <1>6, <2>2
    <3>3. j <= jobCount'
      BY <1>4, <2>2 DEF JobId
    <3> QED BY <3>1, <3>2, <3>3
  <2>3. CASE ~(j <= jobCount + 1)
    <3>1. ~(j <= jobCount) /\ j # jobCount + 1 /\ ~(j <= jobCount')
      BY <1>4, <2>3 DEF JobId
    <3>2. jobs[j] = UnusedJob
      BY <3>1 DEF JobsOK
    <3>3. jobs'[j] = jobs[j]
      BY <1>1, <1>6, <3>1, <3>2 DEF UnusedJob
    <3> QED BY <3>1, <3>2, <3>3
  <2> QED BY <2>1, <2>2, <2>3, <1>4 DEF JobId
<1>9. JobsOK'
  BY <1>4, <1>5, <1>8 DEF JobsOK, JobId
<1>10. \A j \in 1 .. jobCount : /\ j \in JobId
                                /\ jobs'[j].user = jobs[j].user
                                /\ jobs'[j].kind = jobs[j].kind
  BY <1>1, <1>4, <1>6 DEF JobId
<1> QED BY <1>9, <1>10
\* What every step leaves alone in the jobs table: the account and the kind of
\* an existing job.
JobsKept == /\ jobCount' \in Nat /\ jobCount <= jobCount'
            /\ \A j \in 1 .. jobCount : /\ j \in JobId
                                        /\ jobs'[j].user = jobs[j].user
                                        /\ jobs'[j].kind = jobs[j].kind

\* What an UPDATE of the links leaves alone.
TokensKept == /\ tokenCount' = tokenCount
              /\ tokens' \in [TokenId -> Token]
              /\ \A t \in TokenId :
                   /\ tokens'[t].user = tokens[t].user
                   /\ tokens'[t].purpose = tokens[t].purpose
                   /\ tokens'[t].job = tokens[t].job
                   /\ tokens[t] = UnusedToken => tokens'[t] = tokens[t]

LEMMA InvalidateRows ==
    ASSUME TokensOK, NEW u, NEW p
    PROVE  /\ Invalidate(u, p) \in [TokenId -> Token]
           /\ \A t \in TokenId :
                /\ Invalidate(u, p)[t].user = tokens[t].user
                /\ Invalidate(u, p)[t].purpose = tokens[t].purpose
                /\ Invalidate(u, p)[t].job = tokens[t].job
                /\ tokens[t] = UnusedToken => Invalidate(u, p)[t] = tokens[t]
<1>1. tokens \in [TokenId -> Token]
  BY DEF TokensOK
<1>2. ASSUME NEW t \in TokenId
      PROVE  /\ Invalidate(u, p)[t] \in Token
             /\ Invalidate(u, p)[t].user = tokens[t].user
             /\ Invalidate(u, p)[t].purpose = tokens[t].purpose
             /\ Invalidate(u, p)[t].job = tokens[t].job
             /\ tokens[t] = UnusedToken => Invalidate(u, p)[t] = tokens[t]
  <2>1. tokens[t] \in Token
    BY <1>1
  <2>2. Live(t) => tokens[t] # UnusedToken
    BY DEF Live, UnusedToken, Kinds
  <2> QED BY <2>1, <2>2 DEF Invalidate, Token
<1>3. Invalidate(u, p) \in [TokenId -> Token]
  BY <1>2 DEF Invalidate
<1> QED BY <1>2, <1>3

LEMMA TokensKeptOK ==
    ASSUME TokensOK, JobsKept, TokensKept, jobCount \in Nat
    PROVE  TokensOK'
  BY DEF TokensOK, JobsKept, TokensKept, UnusedToken

LEMMA WorkersUnchanged ==
    ASSUME WorkersOK, JobsKept, jobCount \in Nat, UNCHANGED <<worker, tokenCount>>
    PROVE  WorkersOK'
  BY DEF WorkersOK, JobsKept, At, ClaimKind, JobOf

LEMMA MailUnchanged ==
    ASSUME MailOK, JobsKept, jobCount \in Nat, UNCHANGED <<client, mailed, accepted, tokenCount>>
    PROVE  MailOK'
  BY DEF MailOK, JobsKept

\* The transactions that enqueue keep the type invariant.
LEMMA EnqueueTypeOK ==
    ASSUME TypeOK, NEW u \in registered', NEW kind \in Challenges,
           EnqueueChallenge(u, kind),
           registered \subseteq registered', registered' \subseteq Users,
           UNCHANGED verified
    PROVE  TypeOK'
<1>1. JobsOK' /\ JobsKept
  BY AddJobOK DEF TypeOK, EnqueueChallenge, JobsKept, Kinds, JobsOK
<1>2. jobCount \in Nat
  BY DEF TypeOK, JobsOK
<1>3. TokensKept
  BY InvalidateRows DEF TypeOK, EnqueueChallenge, TokensKept
<1>4. TokensOK' /\ WorkersOK' /\ MailOK'
  BY <1>1, <1>2, <1>3, TokensKeptOK, WorkersUnchanged, MailUnchanged DEF TypeOK, EnqueueChallenge
<1> QED BY <1>1, <1>4 DEF TypeOK, EnqueueChallenge

LEMMA ChangePasswordTypeOK ==
    ASSUME TypeOK, NEW u \in Users, ChangePassword(u)
    PROVE  TypeOK'
<1>1. JobsOK' /\ JobsKept
  BY AddJobOK DEF TypeOK, ChangePassword, JobsKept, Kinds, Challenges, JobsOK
<1>2. jobCount \in Nat
  BY DEF TypeOK, JobsOK
<1>3. TokensKept
  BY InvalidateRows DEF TypeOK, ChangePassword, TokensKept
<1>4. TokensOK' /\ WorkersOK' /\ MailOK'
  BY <1>1, <1>2, <1>3, TokensKeptOK, WorkersUnchanged, MailUnchanged DEF TypeOK, ChangePassword
<1> QED BY <1>1, <1>4 DEF TypeOK, ChangePassword
\* The claim of a job by a worker keeps the type invariant.
LEMMA TakeLeaseTypeOK ==
    ASSUME TypeOK, NEW w \in Workers, NEW j \in JobId, TakeLease(w, j)
    PROVE  TypeOK'
<1>1. /\ jobs \in [JobId -> Job] /\ jobs[j] \in Job /\ jobCount \in Nat
      /\ now + Lease \in Nat /\ jobs[j].attempts + 1 \in Nat
  <2>1. jobs \in [JobId -> Job] /\ jobCount \in 0 .. MaxJobs /\ now \in Nat
    BY DEF TypeOK, JobsOK
  <2>2. jobs[j] \in Job /\ jobs[j].attempts \in Nat
    BY <2>1 DEF Job
  <2> QED BY <2>1, <2>2
<1>2. j <= jobCount /\ j \in 1 .. jobCount
  <2>1. jobs[j].status = "open"
    BY DEF TakeLease, Eligible, Open
  <2>2. j <= jobCount
    BY <2>1 DEF TypeOK, JobsOK, UnusedJob
  <2> QED BY <1>1, <2>2 DEF JobId
<1>3. \A k \in JobId : k # j => jobs'[k] = jobs[k]
  BY <1>1 DEF TakeLease
<1>4. jobs'[j] = [[jobs[j] EXCEPT !.lease = now + Lease] EXCEPT !.attempts = jobs[j].attempts + 1]
  BY <1>1 DEF TakeLease
<1>5. /\ jobs'[j] \in Job /\ jobs'[j].user = jobs[j].user
      /\ jobs'[j].kind = jobs[j].kind /\ jobs'[j].status = jobs[j].status
  BY <1>1, <1>4 DEF Job
<1>6. jobs' \in [JobId -> Job]
  BY <1>1 , <1>5, <1>3 DEF TakeLease
<1>7. JobsOK' /\ JobsKept
  <2>1. jobCount' = jobCount /\ registered' = registered
    BY DEF TakeLease
  <2>2. \A k \in JobId : /\ jobs'[k].user = jobs[k].user /\ jobs'[k].kind = jobs[k].kind
                         /\ jobs'[k].status = jobs[k].status
    BY <1>3, <1>5
  <2>3. JobsOK'
    BY <1>2, <1>3, <1>6, <2>1, <2>2 DEF TypeOK, JobsOK, JobId
  <2>4. JobsKept
    BY <1>1, <2>1, <2>2 DEF TypeOK, JobsOK, JobsKept, JobId
  <2> QED BY <2>3, <2>4
<1>8. TokensOK' /\ MailOK'
  BY <1>1, <1>7, TokensKeptOK, MailUnchanged DEF TypeOK, TakeLease, TokensKept, TokensOK
<1>9. WorkersOK'
  <2>1. worker' \in [Workers -> Worker] /\ worker'[w].pc = "claimed"
        /\ worker'[w].job = j /\ worker'[w].token = None
    BY <1>1 DEF TakeLease, TypeOK, WorkersOK, Worker
  <2>2. \A v \in Workers : v # w => worker'[v] = worker[v]
    BY DEF TakeLease, TypeOK, WorkersOK
  <2>3. jobCount' = jobCount /\ tokenCount' = tokenCount
    BY DEF TakeLease
  <2>4. ASSUME NEW v \in Workers
        PROVE  /\ worker'[v].pc # "idle" => worker'[v].job \in 1 .. jobCount'
               /\ worker'[v].pc = "locked" => jobs'[worker'[v].job].kind \in Challenges
               /\ worker'[v].token # None => worker'[v].token <= tokenCount'
    <3>1. CASE v = w
      BY <1>2, <2>1, <2>3, <3>1
    <3>2. CASE v # w
      BY <1>7, <2>2, <2>3, <3>2 DEF TypeOK, WorkersOK, At, ClaimKind, JobOf, JobsKept
    <3> QED BY <3>1, <3>2
  <2> QED BY <2>1, <2>4 DEF WorkersOK, At, ClaimKind, JobOf
<1> QED BY <1>7, <1>8, <1>9 DEF TypeOK, TakeLease

\* A step that touches neither jobs nor links, nor the counters.
LEMMA RowsUnchanged ==
    ASSUME TypeOK, UNCHANGED <<registered, jobVars, tokenVars>>
    PROVE  JobsOK' /\ TokensOK' /\ JobsKept /\ TokensKept /\ jobCount \in Nat
  BY DEF TypeOK, JobsOK, TokensOK, JobsKept, TokensKept, jobVars, tokenVars, JobId

LEMMA ReleaseType ==
    ASSUME TypeOK, NEW w \in Workers
    PROVE  Release(w) \in [Users -> Workers \union {None}]
  BY DEF TypeOK, Release

\* A step of a worker that only moves it on, or drops its call.
LEMMA WorkerMoves ==
    ASSUME TypeOK, NEW w \in Workers,
           UNCHANGED <<jobs, jobCount, tokens, tokenCount>>,
           NEW row \in Worker, worker' = [worker EXCEPT ![w] = row],
           row.pc # "idle" => row.job \in 1 .. jobCount,
           row.pc = "locked" => jobs[row.job].kind \in Challenges,
           row.token # None => row.token <= tokenCount
    PROVE  WorkersOK'
  BY DEF TypeOK, WorkersOK, At, ClaimKind, JobOf

LEMMA LockUserTypeOK ==
    ASSUME TypeOK, NEW w \in Workers, LockUser(w)
    PROVE  TypeOK'
<1> DEFINE row == [worker[w] EXCEPT !.pc = IF ClaimKind(w) = Changed THEN "sending" ELSE "locked"]
<1>1. worker[w] \in Worker /\ worker[w].job \in 1 .. jobCount
  BY DEF TypeOK, WorkersOK, LockUser, At
<1>2. JobsOK' /\ TokensOK' /\ JobsKept /\ jobCount \in Nat
  BY RowsUnchanged DEF LockUser
<1>3. ClaimUser(w) \in Users /\ ClaimKind(w) \in Kinds
  BY <1>1, <1>2 DEF TypeOK, JobsOK, ClaimUser, ClaimKind, JobOf, JobId
<1>4. row \in Worker /\ row.job = worker[w].job /\ row.token = worker[w].token
      /\ row.pc \in {"sending", "locked"} /\ (row.pc = "locked" => ClaimKind(w) # Changed)
  BY <1>1 DEF Worker
<1>5. worker' = [worker EXCEPT ![w] = row]
  BY DEF LockUser
<1>6. WorkersOK'
  <2>1. row.pc # "idle" => row.job \in 1 .. jobCount
    BY <1>1, <1>4
  <2>2. row.pc = "locked" => jobs[row.job].kind \in Challenges
    BY <1>3, <1>4 DEF ClaimKind, JobOf, Kinds
  <2>3. row.token # None => row.token <= tokenCount
    BY <1>4 DEF TypeOK, WorkersOK
  <2> QED BY <1>4, <1>5, <2>1, <2>2, <2>3, WorkerMoves DEF LockUser, jobVars, tokenVars
<1>7. MailOK'
  BY <1>2, MailUnchanged DEF TypeOK, LockUser, mailVars, tokenVars
<1>8. userLock' \in [Users -> Workers \union {None}]
  BY <1>3 DEF TypeOK, LockUser
<1> QED BY <1>2, <1>6, <1>7, <1>8 DEF TypeOK, LockUser
\* Going back to idle: the end of a call, or its crash.
LEMMA WorkerStops ==
    ASSUME TypeOK, NEW w \in Workers, JobsKept, tokenCount' = tokenCount, jobCount \in Nat,
           worker' = [worker EXCEPT ![w] = IdleWorker]
    PROVE  WorkersOK'
<1>1. worker' \in [Workers -> Worker] /\ worker'[w] = IdleWorker
      /\ \A v \in Workers : v # w => worker'[v] = worker[v]
  BY DEF TypeOK, WorkersOK, Worker, IdleWorker
<1>2. ASSUME NEW v \in Workers
      PROVE  /\ worker'[v].pc # "idle" => worker'[v].job \in 1 .. jobCount'
             /\ worker'[v].pc = "locked" => jobs'[worker'[v].job].kind \in Challenges
             /\ worker'[v].token # None => worker'[v].token <= tokenCount'
  <2>1. CASE v = w
    BY <1>1, <2>1 DEF IdleWorker
  <2>2. CASE v # w
    BY <1>1, <2>2 DEF TypeOK, WorkersOK, At, ClaimKind, JobOf, JobsKept
  <2> QED BY <2>1, <2>2
<1> QED BY <1>1, <1>2 DEF WorkersOK, At, ClaimKind, JobOf

\* A step after which the worker is elsewhere in its call, with the same claim.
LEMMA WorkerAdvances ==
    ASSUME TypeOK, NEW w \in Workers, worker[w].pc # "idle",
           UNCHANGED <<jobs, jobCount, tokens, tokenCount>>,
           NEW pc \in {"claimed", "moot", "sending", "sent", "refused"},
           worker' = [worker EXCEPT ![w].pc = pc]
    PROVE  WorkersOK'
<1> DEFINE row == [worker[w] EXCEPT !.pc = pc]
<1>1. worker[w] \in Worker /\ worker[w].job \in 1 .. jobCount
      /\ (worker[w].token # None => worker[w].token <= tokenCount)
  BY DEF TypeOK, WorkersOK, At
<1>2. row \in Worker /\ row.job = worker[w].job /\ row.token = worker[w].token /\ row.pc = pc
  BY <1>1 DEF Worker
<1>3. worker' = [worker EXCEPT ![w] = row]
  OBVIOUS
<1> QED BY <1>1, <1>2, <1>3, WorkerMoves

\* A link that is issued has a row to go to.
LEMMA LinkRoom ==
    ASSUME TypeOK, NEW w \in Workers, IssueToken(w)
    PROVE  /\ tokens \in [TokenId -> Token] /\ tokenCount \in Nat
           /\ tokenCount + 1 \in TokenId
<1>1. tokens \in [TokenId -> Token] /\ tokenCount \in 0 .. MaxTokens
  BY DEF TypeOK, TokensOK
<1>2. tokenCount < MaxTokens
  BY DEF IssueToken
<1> QED BY <1>1, <1>2 DEF TokenId

LEMMA IssueTokenTypeOK ==
    ASSUME TypeOK, NEW w \in Workers, IssueToken(w)
    PROVE  TypeOK'
<1> DEFINE u == ClaimUser(w)
           kind == ClaimKind(w)
           n == tokenCount + 1
           new == [user |-> u, purpose |-> kind, expiresAt |-> now + TokenLife[kind],
                   consumed |-> FALSE, invalidated |-> FALSE, job |-> worker[w].job]
           old == Invalidate(u, kind)
<1>1. /\ worker[w] \in Worker /\ worker[w].job \in 1 .. jobCount
      /\ kind \in Challenges /\ jobCount \in Nat /\ worker[w].job \in JobId
  <2>1. worker[w] \in Worker /\ worker[w].job \in 1 .. jobCount /\ kind \in Challenges
    BY DEF TypeOK, WorkersOK, IssueToken, At
  <2>2. jobCount \in 0 .. MaxJobs
    BY DEF TypeOK, JobsOK
  <2> QED BY <2>1, <2>2 DEF JobId
<1>2. u \in Users /\ u = jobs[worker[w].job].user /\ kind = jobs[worker[w].job].kind
  BY <1>1 DEF TypeOK, JobsOK, ClaimUser, ClaimKind, JobOf, JobId
<1>3. n \in TokenId /\ tokenCount \in Nat
  BY LinkRoom
<1>4. now + TokenLife[kind] \in Nat
  BY <1>1 DEF TypeOK
<1>5. new \in Token
  BY <1>1, <1>2, <1>4 DEF Token
<1>6. /\ old \in [TokenId -> Token]
      /\ \A t \in TokenId : /\ old[t].user = tokens[t].user
                            /\ old[t].purpose = tokens[t].purpose
                            /\ old[t].job = tokens[t].job
                            /\ tokens[t] = UnusedToken => old[t] = tokens[t]
  BY InvalidateRows DEF TypeOK
<1>7. tokens' = [old EXCEPT ![n] = new] /\ tokenCount' = n
  BY DEF IssueToken
<1>8. /\ tokens' \in [TokenId -> Token] /\ tokens'[n] = new
      /\ \A t \in TokenId : t # n => tokens'[t] = old[t]
  <2> HIDE DEF n, new, old
  <2> QED BY <1>3, <1>5, <1>6, <1>7
<1>9. JobsOK' /\ JobsKept
  <2>1. UNCHANGED <<registered, jobs, jobCount>>
    BY DEF IssueToken, jobVars
  <2>2. JobsOK'
    BY <2>1 DEF TypeOK, JobsOK
  <2> QED BY <2>1, <2>2 DEF TypeOK, JobsOK, JobsKept, JobId
<1>10. TokensOK'
  <2>1. ASSUME NEW t \in TokenId
        PROVE  IF t <= tokenCount'
               THEN /\ tokens'[t].job \in 1 .. jobCount'
                    /\ tokens'[t].user = jobs'[tokens'[t].job].user
                    /\ tokens'[t].purpose = jobs'[tokens'[t].job].kind
                    /\ tokens'[t].purpose \in Challenges
               ELSE tokens'[t] = UnusedToken
    <3>1. jobs' = jobs /\ jobCount' = jobCount
      BY DEF IssueToken, jobVars
    <3>2. CASE t = n
      <4>1. /\ tokens'[t].job = worker[w].job
            /\ tokens'[t].user = u
            /\ tokens'[t].purpose = kind
        BY <1>8, <3>2
      <4>2. t <= tokenCount'
        BY <1>3, <1>7, <3>2
      <4>3. /\ tokens'[t].job \in 1 .. jobCount'
            /\ tokens'[t].user = jobs'[tokens'[t].job].user
            /\ tokens'[t].purpose = jobs'[tokens'[t].job].kind
            /\ tokens'[t].purpose \in Challenges
        BY <1>1, <1>2, <3>1, <4>1
      <4> QED BY <4>2, <4>3
    <3>3. CASE t # n /\ t <= tokenCount
      <4>1. /\ tokens[t].job \in 1 .. jobCount
            /\ tokens[t].user = jobs[tokens[t].job].user
            /\ tokens[t].purpose = jobs[tokens[t].job].kind
            /\ tokens[t].purpose \in Challenges
        BY <3>3 DEF TypeOK, TokensOK
      <4>2. /\ tokens'[t].job = tokens[t].job
            /\ tokens'[t].user = tokens[t].user
            /\ tokens'[t].purpose = tokens[t].purpose
        BY <1>6, <1>8, <3>3
      <4>3. t <= tokenCount'
        BY <1>3, <1>7, <3>3 DEF TokenId
      <4> QED BY <3>1, <4>1, <4>2, <4>3
    <3>4. CASE t # n /\ ~(t <= tokenCount)
      BY <1>3, <1>6, <1>7, <1>8, <3>4 DEF TypeOK, TokensOK, TokenId
    <3> QED BY <3>2, <3>3, <3>4
  <2> QED BY <1>3, <1>7, <1>8, <2>1 DEF TokensOK, TokenId
<1>11. WorkersOK'
  <2>1. /\ worker' \in [Workers -> Worker]
        /\ worker'[w].pc = "sending" /\ worker'[w].job = worker[w].job /\ worker'[w].token = n
        /\ \A v \in Workers : v # w => worker'[v] = worker[v]
    <3>1. worker' = [worker EXCEPT ![w] = [[worker[w] EXCEPT !.pc = "sending"] EXCEPT !.token = n]]
      BY DEF IssueToken, TypeOK, WorkersOK
    <3> QED BY <1>1, <1>3, <3>1 DEF TypeOK, WorkersOK, Worker
  <2>2. ASSUME NEW v \in Workers
        PROVE  /\ worker'[v].pc # "idle" => worker'[v].job \in 1 .. jobCount'
               /\ worker'[v].pc = "locked" => jobs'[worker'[v].job].kind \in Challenges
               /\ worker'[v].token # None => worker'[v].token <= tokenCount'
    <3>0. jobs' = jobs /\ jobCount' = jobCount /\ tokenCount' = tokenCount + 1
      BY DEF IssueToken, jobVars
    <3>1. CASE v = w
      BY <1>1, <1>3, <2>1, <3>0, <3>1
    <3>2. CASE v # w
      <4>1. worker[v] \in Worker /\ (worker[v].token # None => worker[v].token \in Int)
        BY DEF TypeOK, WorkersOK, Worker, TokenId
      <4> QED BY <1>3, <2>1, <3>0, <3>2, <4>1 DEF TypeOK, WorkersOK, At, ClaimKind, JobOf
    <3> QED BY <3>1, <3>2
  <2> QED BY <2>1, <2>2 DEF WorkersOK, At, ClaimKind, JobOf
<1>12. MailOK'
  <2>1. client' = client /\ mailed' = mailed /\ accepted' = accepted /\ jobCount' = jobCount
    BY DEF IssueToken, jobVars, mailVars
  <2>2. \A c \in Clients : client[c] # None => client[c] \in Int
    BY DEF TypeOK, MailOK, TokenId
  <2> QED BY <1>3, <1>7, <2>1, <2>2 DEF TypeOK, MailOK
<1> QED BY <1>9, <1>10, <1>11, <1>12, ReleaseType DEF TypeOK, IssueToken
\* The last transaction of a call, whatever it writes to its own job row.
LEMMA TransitionTypeOK ==
    ASSUME TypeOK, NEW w \in Workers, ~At(w, "idle"), NEW row,
           row \in Job, row.user = JobOf(w).user, row.kind = JobOf(w).kind,
           row.status # "unused",
           TransitionClaim(w, row), TokensKept
    PROVE  TypeOK'
<1> DEFINE j == worker[w].job
<1>1. j \in 1 .. jobCount /\ j \in JobId /\ jobs \in [JobId -> Job] /\ jobCount \in Nat
  BY DEF TypeOK, WorkersOK, JobsOK, JobId
<1>2. /\ jobs' \in [JobId -> Job]
      /\ \A k \in JobId : /\ jobs'[k].user = jobs[k].user
                          /\ jobs'[k].kind = jobs[k].kind
                          /\ k # j => jobs'[k] = jobs[k]
                          /\ k = j => jobs'[k] \in {jobs[k], row}
  BY <1>1 DEF TransitionClaim, JobOf
<1>3. jobCount' = jobCount /\ registered' = registered
  BY DEF TransitionClaim
<1>4. JobsOK' /\ JobsKept
  <2>1. j <= jobCount /\ jobs[j].status # "unused"
    BY <1>1 DEF TypeOK, JobsOK
  <2>2. ASSUME NEW k \in JobId
        PROVE  IF k <= jobCount'
               THEN jobs'[k].user \in registered' /\ jobs'[k].kind \in Kinds /\ jobs'[k].status # "unused"
               ELSE jobs'[k] = UnusedJob
    BY <1>2, <1>3, <2>1 DEF TypeOK, JobsOK
  <2> QED BY <1>1, <1>2, <1>3, <2>2 DEF TypeOK, JobsOK, JobsKept, JobId
<1>5. TokensOK'
  BY <1>1, <1>4, TokensKeptOK DEF TypeOK
<1>6. WorkersOK'
  BY <1>1, <1>4, WorkerStops DEF TransitionClaim
<1>7. MailOK'
  BY <1>1, <1>4, MailUnchanged DEF TypeOK, TransitionClaim, mailVars
<1>8. userLock' \in [Users -> Workers \union {None}]
  BY ReleaseType DEF TransitionClaim
<1> QED BY <1>4, <1>5, <1>6, <1>7, <1>8 DEF TypeOK, TransitionClaim

LEMMA ClosedRow ==
    ASSUME TypeOK, NEW w \in Workers, ~At(w, "idle"), NEW status \in {"completed", "cancelled"}
    PROVE  /\ Closed(w, status) \in Job
           /\ Closed(w, status).user = JobOf(w).user
           /\ Closed(w, status).kind = JobOf(w).kind
           /\ Closed(w, status).status # "unused"
<1>1. JobOf(w) \in Job
  BY DEF TypeOK, WorkersOK, JobsOK, JobId, JobOf
<1>2. Closed(w, status) = [[JobOf(w) EXCEPT !.status = status] EXCEPT !.lease = None]
  BY DEF Closed
<1> QED BY <1>1, <1>2 DEF Job

LEMMA SameTokens ==
    ASSUME TypeOK, UNCHANGED <<tokens, tokenCount>>
    PROVE  TokensKept
  BY DEF TypeOK, TokensOK, TokensKept

LEMMA RescheduleTypeOK ==
    ASSUME TypeOK, NEW w \in Workers, RescheduleFailure(w)
    PROVE  TypeOK'
<1> DEFINE later == [JobOf(w) EXCEPT !.lease = None,
                                     !.availableAt = now + RetryDelay(worker[w].attempts)]
           row == IF worker[w].attempts >= MaxAttempts THEN Closed(w, "cancelled") ELSE later
<1>1. ~At(w, "idle") /\ TransitionClaim(w, row)
  BY DEF RescheduleFailure, At
<1>2. JobOf(w) \in Job /\ JobOf(w).status # "unused" /\ worker[w].attempts \in Nat
  <2>1. worker[w] \in Worker /\ worker[w].job \in 1 .. jobCount
    BY <1>1 DEF TypeOK, WorkersOK
  <2>2. /\ jobs \in [JobId -> Job] /\ jobCount \in 0 .. MaxJobs
        /\ \A j \in JobId : j <= jobCount => jobs[j].status # "unused"
    BY DEF TypeOK, JobsOK
  <2>3. worker[w].job \in JobId /\ worker[w].job <= jobCount
    BY <2>1, <2>2 DEF JobId
  <2> QED BY <2>1, <2>2, <2>3 DEF JobOf, Worker
<1>3. now + RetryDelay(worker[w].attempts) \in Nat
  BY <1>2, RetryDelayType DEF TypeOK
<1>4. later = [[JobOf(w) EXCEPT !.lease = None]
                        EXCEPT !.availableAt = now + RetryDelay(worker[w].attempts)]
  OBVIOUS
<1>5. /\ later \in Job /\ later.user = JobOf(w).user
      /\ later.kind = JobOf(w).kind /\ later.status # "unused"
  BY <1>2, <1>3, <1>4 DEF Job
<1>6. /\ row \in Job /\ row.user = JobOf(w).user
      /\ row.kind = JobOf(w).kind /\ row.status # "unused"
  <2> HIDE DEF later
  <2> QED BY <1>1, <1>5, ClosedRow
<1>7. TokensKept
  <2>1. tokens \in [TokenId -> Token] /\ tokenCount' = tokenCount
    BY <1>1 DEF TypeOK, TokensOK, TransitionClaim
  <2>2. ASSUME NEW t \in TokenId
        PROVE  /\ tokens'[t] \in Token
               /\ tokens'[t].user = tokens[t].user
               /\ tokens'[t].purpose = tokens[t].purpose
               /\ tokens'[t].job = tokens[t].job
               /\ tokens[t] = UnusedToken => tokens'[t] = tokens[t]
    <3>1. Live(t) => tokens[t] # UnusedToken
      BY DEF Live, UnusedToken, Kinds
    <3>2. tokens[t] \in Token
      BY <2>1
    <3> QED BY <3>1, <3>2 DEF RescheduleFailure, Token
  <2>3. tokens' \in [TokenId -> Token]
    BY <2>2 DEF RescheduleFailure
  <2> QED BY <2>1, <2>2, <2>3 DEF TokensKept
<1> HIDE DEF row
<1> QED BY <1>1, <1>6, <1>7, TransitionTypeOK

\* Confirmations: the consumed link and the links that die with it stay rows.
LEMMA ConfirmVerificationTypeOK ==
    ASSUME TypeOK, NEW c \in Clients, ConfirmVerification(c)
    PROVE  TypeOK'
<1> DEFINE t == client[c]
           old == Invalidate(tokens[t].user, Verification)
<1>1. /\ t \in TokenId /\ t <= tokenCount /\ tokenCount \in Nat
      /\ client' = [client EXCEPT ![c] = None]
  BY DEF ConfirmVerification, ClaimToken, TypeOK, MailOK, TokensOK
<1>2. /\ JobsOK' /\ JobsKept /\ jobCount \in Nat
  BY DEF TypeOK, JobsOK, ConfirmVerification, jobVars, JobsKept, JobId
<1>3. tokens[t].user \in registered /\ tokens[t] \in Token /\ tokens[t] # UnusedToken
  <2>1. tokens[t].user \in registered /\ tokens[t].user # None
    <3>1. tokens[t].job \in 1 .. jobCount /\ tokens[t].user = jobs[tokens[t].job].user
      BY <1>1 DEF TypeOK, TokensOK
    <3>2. jobs[tokens[t].job].user \in registered
      BY <3>1 DEF TypeOK, JobsOK, JobId
    <3> QED BY <3>1, <3>2 DEF TypeOK
  <2>2. tokens[t] \in Token
    BY <1>1 DEF TypeOK, TokensOK
  <2> QED BY <2>1, <2>2 DEF UnusedToken
<1>4. TokensKept
  <2>1. /\ old \in [TokenId -> Token]
        /\ \A s \in TokenId : /\ old[s].user = tokens[s].user
                              /\ old[s].purpose = tokens[s].purpose
                              /\ old[s].job = tokens[s].job
                              /\ tokens[s] = UnusedToken => old[s] = tokens[s]
    BY InvalidateRows DEF TypeOK
  <2>2. tokens' = [old EXCEPT ![t] = [tokens[t] EXCEPT !.consumed = TRUE]]
        /\ tokenCount' = tokenCount
    BY DEF ConfirmVerification
  <2>3. /\ [tokens[t] EXCEPT !.consumed = TRUE] \in Token
        /\ [tokens[t] EXCEPT !.consumed = TRUE].user = tokens[t].user
        /\ [tokens[t] EXCEPT !.consumed = TRUE].purpose = tokens[t].purpose
        /\ [tokens[t] EXCEPT !.consumed = TRUE].job = tokens[t].job
    BY <1>3 DEF Token
  <2> HIDE DEF old
  <2> QED BY <1>1, <1>3, <2>1, <2>2, <2>3 DEF TokensKept
<1>5. TokensOK' /\ WorkersOK'
  BY <1>2, <1>4, TokensKeptOK, WorkersUnchanged DEF TypeOK, ConfirmVerification
<1>6. MailOK'
  BY <1>1, <1>2 DEF TypeOK, MailOK, ConfirmVerification, mailVars, jobVars
<1> QED BY <1>2, <1>3, <1>5, <1>6 DEF TypeOK, ConfirmVerification

LEMMA ConfirmResetTypeOK ==
    ASSUME TypeOK, NEW c \in Clients, ConfirmReset(c)
    PROVE  TypeOK'
<1> DEFINE t == client[c]
           u == tokens[t].user
<1>1. /\ t \in TokenId /\ t <= tokenCount /\ tokenCount \in Nat
      /\ client' = [client EXCEPT ![c] = None]
  BY DEF ConfirmReset, ClaimToken, TypeOK, MailOK, TokensOK
<1>2. u \in registered /\ u \in Users /\ u # None
  <2> HIDE DEF t
  <2>1. PICK j \in 1 .. jobCount : u = jobs[j].user
    BY <1>1 DEF TypeOK, TokensOK
  <2>2. jobs[j].user \in registered
    BY <2>1 DEF TypeOK, JobsOK, JobId
  <2> QED BY <2>1, <2>2 DEF TypeOK
<1>3. JobsOK' /\ JobsKept /\ jobCount \in Nat
  <2>1. /\ jobCount < MaxJobs /\ jobCount' = jobCount + 1 /\ registered' = registered
        /\ jobs' = AddJob(CancelJobs(jobs, u, Reset), u, Changed)
    BY DEF ConfirmReset
  <2>2. jobCount \in Nat
    BY DEF TypeOK, JobsOK
  <2> HIDE DEF u
  <2>3. JobsOK' /\ \A j \in 1 .. jobCount : /\ j \in JobId
                                            /\ jobs'[j].user = jobs[j].user
                                            /\ jobs'[j].kind = jobs[j].kind
    BY <1>2, <2>1, AddJobOK DEF TypeOK, Challenges, Kinds
  <2> QED BY <2>1, <2>2, <2>3 DEF JobsKept
<1>4. TokensKept
  <2>1. tokens \in [TokenId -> Token] /\ tokenCount' = tokenCount
    BY DEF TypeOK, TokensOK, ConfirmReset
  <2>2. tokens' = [s \in TokenId |->
                     IF s = t THEN [tokens[s] EXCEPT !.consumed = TRUE]
                     ELSE IF tokens[s].user = u THEN [tokens[s] EXCEPT !.invalidated = TRUE]
                     ELSE tokens[s]]
    BY DEF ConfirmReset
  <2>3. ASSUME NEW s \in TokenId
        PROVE  /\ tokens'[s] \in Token
               /\ tokens'[s].user = tokens[s].user
               /\ tokens'[s].purpose = tokens[s].purpose
               /\ tokens'[s].job = tokens[s].job
               /\ tokens[s] = UnusedToken => tokens'[s] = tokens[s]
    <3>1. tokens[s] \in Token
      BY <2>1
    <3>2. tokens[s] = UnusedToken => tokens[s].user = None
      BY DEF UnusedToken
    <3> HIDE DEF t
    <3> QED BY <1>2, <2>2, <3>1, <3>2 DEF Token
  <2>4. tokens' \in [TokenId -> Token]
    BY <2>2, <2>3
  <2> QED BY <2>1, <2>3, <2>4 DEF TokensKept
<1>5. TokensOK' /\ WorkersOK'
  BY <1>3, <1>4, TokensKeptOK, WorkersUnchanged DEF TypeOK, ConfirmReset
<1>6. MailOK'
  <2>1. UNCHANGED <<mailed, accepted, tokenCount>>
    BY DEF ConfirmReset, mailVars
  <2> QED BY <1>1, <1>3, <2>1 DEF TypeOK, MailOK, JobsKept
<1> QED BY <1>2, <1>3, <1>5, <1>6 DEF TypeOK, ConfirmReset
\* Every step keeps the type invariant.
LEMMA NextTypeOK == TypeOK /\ [Next]_vars => TypeOK'
<1> SUFFICES ASSUME TypeOK, [Next]_vars PROVE TypeOK'
  OBVIOUS
<1>1. ASSUME NEW u \in Users, RequestStep(u) PROVE TypeOK'
  <2>1. CASE Register(u)
    <3>1. /\ registered' = registered \union {u} /\ verified' = verified
          /\ EnqueueChallenge(u, Verification)
      BY <2>1 DEF Register
    <3>2. /\ u \in registered' /\ registered \subseteq registered' /\ registered' \subseteq Users
          /\ Verification \in Challenges
      BY <3>1 DEF TypeOK, Challenges
    <3> QED BY <3>1, <3>2, EnqueueTypeOK
  <2>2. CASE RequestVerification(u) \/ RequestReset(u)
    <3>1. PICK kind \in Challenges :
            /\ EnqueueChallenge(u, kind) /\ u \in registered
            /\ registered' = registered /\ verified' = verified
      BY <2>2 DEF RequestVerification, RequestReset, Challenges, userVars
    <3>2. /\ u \in registered' /\ registered \subseteq registered' /\ registered' \subseteq Users
      BY <3>1 DEF TypeOK
    <3> QED BY <3>1, <3>2, EnqueueTypeOK
  <2>3. CASE ChangePassword(u)
    BY <2>3, ChangePasswordTypeOK
  <2> QED BY <1>1, <2>1, <2>2, <2>3 DEF RequestStep
<1>2. ASSUME NEW w \in Workers, WorkerStep(w) PROVE TypeOK'
  <2>1. CASE ClaimNext(w) \/ ClaimInline(w)
    BY <2>1, TakeLeaseTypeOK DEF ClaimNext, ClaimInline
  <2>2. CASE LockUser(w)
    BY <2>2, LockUserTypeOK
  <2>3. CASE AbandonClaim(w)
    <3>1. JobsOK' /\ TokensOK' /\ JobsKept /\ jobCount \in Nat
      BY <2>3, RowsUnchanged DEF AbandonClaim
    <3> QED BY <2>3, <3>1, WorkerStops, MailUnchanged
            DEF AbandonClaim, TypeOK, mailVars, tokenVars
  <2>4. CASE IssueToken(w)
    BY <2>4, IssueTokenTypeOK
  <2>5. CASE NothingToVerify(w)
    <3>1. JobsOK' /\ TokensOK' /\ JobsKept /\ jobCount \in Nat
      BY <2>5, RowsUnchanged DEF NothingToVerify
    <3>2. WorkersOK'
      BY <2>5, WorkerAdvances DEF NothingToVerify, At, jobVars, tokenVars
    <3> QED BY <2>5, <3>1, <3>2, MailUnchanged, ReleaseType
            DEF NothingToVerify, TypeOK, mailVars, tokenVars
  <2>6. CASE TransportAccepts(w) \/ TransportFails(w)
    <3>1. JobsOK' /\ TokensOK' /\ JobsKept /\ jobCount \in Nat
      BY <2>6, RowsUnchanged DEF TransportAccepts, TransportFails
    <3>2. WorkersOK'
      BY <2>6, WorkerAdvances DEF TransportAccepts, TransportFails, At, jobVars, tokenVars
    <3>3. /\ MessageLink(w) \subseteq 1 .. tokenCount
          /\ worker[w].job \in 1 .. jobCount
      BY <2>6 DEF TransportAccepts, TransportFails, At, TypeOK, WorkersOK, Worker, MessageLink, TokenId
    <3>4. /\ client' = client /\ tokenCount' = tokenCount /\ jobCount' = jobCount
          /\ mailed' \subseteq mailed \union MessageLink(w)
          /\ accepted' \subseteq accepted \union {worker[w].job}
      BY <2>6 DEF TransportAccepts, TransportFails, jobVars, tokenVars
    <3>5. MailOK'
      BY <3>3, <3>4 DEF TypeOK, MailOK
    <3>6. /\ userLock' \in [Users -> Workers \union {None}]
          /\ UNCHANGED <<now, crashes, registered, verified>>
      BY <2>6, ReleaseType DEF TransportAccepts, TransportFails, TypeOK
    <3> QED BY <3>1, <3>2, <3>5, <3>6 DEF TypeOK
  <2>7. CASE FinishDelivery(w) \/ CancelDelivery(w)
    <3>1. PICK status \in {"completed", "cancelled"} :
            ~At(w, "idle") /\ TransitionClaim(w, Closed(w, status)) /\ tokens' = tokens
      BY <2>7 DEF FinishDelivery, CancelDelivery, At
    <3>2. TokensKept
      BY <3>1, SameTokens DEF TransitionClaim
    <3> QED BY <3>1, <3>2, ClosedRow, TransitionTypeOK
  <2>8. CASE RescheduleFailure(w)
    BY <2>8, RescheduleTypeOK
  <2> QED BY <1>2, <2>1, <2>2, <2>3, <2>4, <2>5, <2>6, <2>7, <2>8 DEF WorkerStep
<1>3. ASSUME NEW w \in Workers, Crash(w) PROVE TypeOK'
  <2>1. JobsOK' /\ TokensOK' /\ JobsKept /\ jobCount \in Nat
    BY <1>3, RowsUnchanged DEF Crash
  <2>2. WorkersOK' /\ MailOK'
    BY <1>3, <2>1, WorkerStops, MailUnchanged DEF Crash, TypeOK, mailVars, tokenVars
  <2>3. crashes' \in 0 .. MaxCrashes
    BY <1>3 DEF Crash, TypeOK
  <2> QED BY <1>3, <2>1, <2>2, <2>3, ReleaseType DEF Crash, TypeOK
<1>4. ASSUME NEW c \in Clients, ClientStep(c) PROVE TypeOK'
  <2>1. CASE RejectConfirmation(c) \/ \E t \in TokenId : LookUp(c, t)
    <3>1. JobsOK' /\ TokensOK' /\ JobsKept /\ jobCount \in Nat
      BY <2>1, RowsUnchanged DEF LookUp, RejectConfirmation
    <3>2. WorkersOK'
      BY <2>1, <3>1, WorkersUnchanged DEF LookUp, RejectConfirmation, TypeOK, tokenVars
    <3>3. PICK t \in TokenId \union {None} :
            /\ client' = [client EXCEPT ![c] = t] /\ (t # None => t \in mailed)
            /\ UNCHANGED <<mailed, accepted, tokenCount, jobCount>>
      BY <2>1 DEF LookUp, RejectConfirmation, mailVars, tokenVars, jobVars
    <3>4. MailOK'
      BY <3>3 DEF TypeOK, MailOK
    <3>5. UNCHANGED <<now, crashes, registered, verified, userLock>>
      BY <2>1 DEF LookUp, RejectConfirmation
    <3> QED BY <3>1, <3>2, <3>4, <3>5 DEF TypeOK
  <2>2. CASE ConfirmVerification(c)
    BY <2>2, ConfirmVerificationTypeOK
  <2>3. CASE ConfirmReset(c)
    BY <2>3, ConfirmResetTypeOK
  <2> QED BY <1>4, <2>1, <2>2, <2>3 DEF ClientStep
<1>5. ASSUME Tick \/ UNCHANGED vars PROVE TypeOK'
  <2>1. JobsOK' /\ TokensOK' /\ JobsKept /\ jobCount \in Nat
    BY <1>5, RowsUnchanged DEF Tick, vars, jobVars, tokenVars
  <2>2. WorkersOK' /\ MailOK'
    BY <1>5, <2>1, WorkersUnchanged, MailUnchanged DEF Tick, vars, TypeOK, mailVars, tokenVars
  <2>3. now' \in Nat /\ UNCHANGED <<crashes, registered, verified, userLock>>
    BY <1>5 DEF Tick, vars, TypeOK
  <2> QED BY <2>1, <2>2, <2>3 DEF TypeOK
<1> QED BY <1>1, <1>2, <1>3, <1>4, <1>5 DEF Next

\* Rows, claims and locks stay well formed in every behaviour.
THEOREM TypeCorrect == Spec => []TypeOK
  BY InitTypeOK, NextTypeOK, PTL DEF Spec
-----------------------------------------------------------------------------
(* At most one live link per account and purpose.                          *)

\* No link comes alive in this step, and those that stay alive keep their row.
LiveShrinks == \A t \in TokenId : Live(t)' => Live(t) /\ tokens'[t] = tokens[t]

LEMMA SameTokensLive ==
    ASSUME tokens' = tokens PROVE LiveShrinks
  BY DEF LiveShrinks, Live

LEMMA InvalidateLive ==
    ASSUME TypeOK, NEW u, NEW p, tokens' = Invalidate(u, p) PROVE LiveShrinks
<1>1. tokens \in [TokenId -> Token]
  BY DEF TypeOK, TokensOK
<1> QED BY <1>1 DEF LiveShrinks, Live, Invalidate, Token

\* Only issue_account_token brings a link to life.
LEMMA OnlyIssueRevives ==
    ASSUME TypeOK, [Next]_vars, \A w \in Workers : ~IssueToken(w)
    PROVE  LiveShrinks
<1>0. tokens \in [TokenId -> Token]
  BY DEF TypeOK, TokensOK
<1>1. ASSUME NEW u \in Users, RequestStep(u) PROVE LiveShrinks
  BY <1>1, InvalidateLive DEF RequestStep, Register, RequestVerification,
     RequestReset, ChangePassword, EnqueueChallenge
<1>2. ASSUME NEW w \in Workers, WorkerStep(w) \/ Crash(w) PROVE LiveShrinks
  <2>1. CASE RescheduleFailure(w)
    BY <1>0, <2>1 DEF RescheduleFailure, LiveShrinks, Live, Token
  <2>2. CASE tokens' = tokens
    BY <2>2, SameTokensLive
  <2> QED BY <1>2, <2>1, <2>2 DEF WorkerStep, Crash, ClaimNext, ClaimInline, TakeLease,
             LockUser, AbandonClaim, NothingToVerify, TransportAccepts, TransportFails,
             FinishDelivery, CancelDelivery, tokenVars
<1>3. ASSUME NEW c \in Clients, ClientStep(c) PROVE LiveShrinks
  <2>1. CASE ConfirmVerification(c)
    <3> DEFINE t == client[c]
               old == Invalidate(tokens[t].user, Verification)
    <3>1. t \in TokenId
      BY <2>1 DEF ConfirmVerification, ClaimToken, TypeOK, MailOK
    <3>2. tokens' = [old EXCEPT ![t] = [tokens[t] EXCEPT !.consumed = TRUE]]
      BY <2>1 DEF ConfirmVerification
    <3>3. ASSUME NEW s \in TokenId, Live(s)'
          PROVE  Live(s) /\ tokens'[s] = tokens[s]
      <4>1. tokens[s] \in Token
        BY <1>0
      <4>2. CASE s = t
        <5>1. tokens'[s] = [tokens[s] EXCEPT !.consumed = TRUE]
          BY <3>1, <3>2, <4>2 DEF Invalidate
        <5> QED BY <3>3, <4>1, <5>1 DEF Live, Token
      <4>3. CASE s # t
        <5>1. tokens'[s] = old[s]
          BY <3>1, <3>2, <4>3 DEF Invalidate
        <5> QED BY <3>3, <4>1, <5>1 DEF Live, Token, Invalidate
      <4> QED BY <4>2, <4>3
    <3> QED BY <3>3 DEF LiveShrinks
  <2>2. CASE ConfirmReset(c)
    <3> DEFINE t == client[c]
               u == tokens[t].user
    <3>1. tokens' = [s \in TokenId |->
                       IF s = t THEN [tokens[s] EXCEPT !.consumed = TRUE]
                       ELSE IF tokens[s].user = u THEN [tokens[s] EXCEPT !.invalidated = TRUE]
                       ELSE tokens[s]]
      BY <2>2 DEF ConfirmReset
    <3> HIDE DEF t, u
    <3> QED BY <1>0, <3>1 DEF LiveShrinks, Live, Token
  <2>3. CASE tokens' = tokens
    BY <2>3, SameTokensLive
  <2> QED BY <1>3, <2>1, <2>2, <2>3 DEF ClientStep, LookUp, RejectConfirmation, tokenVars
<1>4. CASE Tick \/ UNCHANGED vars
  BY <1>4, SameTokensLive DEF Tick, vars, tokenVars
<1> QED BY <1>1, <1>2, <1>3, <1>4 DEF Next

\* The new link is the only live one of its account and purpose: every sibling
\* was invalidated in the same transaction.
LEMMA IssueKeepsOne ==
    ASSUME TypeOK, OneLiveLink, NEW w \in Workers, IssueToken(w)
    PROVE  OneLiveLink'
<1> DEFINE u == ClaimUser(w)
           kind == ClaimKind(w)
           n == tokenCount + 1
           old == Invalidate(u, kind)
<1>0. tokens \in [TokenId -> Token] /\ n \in TokenId
  BY LinkRoom
<1>1. /\ tokens'[n].user = u /\ tokens'[n].purpose = kind
      /\ \A t \in TokenId : t # n => tokens'[t] = old[t]
  BY <1>0 DEF IssueToken, Invalidate
<1>2. ASSUME NEW t \in TokenId, t # n, Live(t)'
      PROVE  /\ Live(t)
             /\ tokens'[t].user = tokens[t].user
             /\ tokens'[t].purpose = tokens[t].purpose
             /\ ~(tokens[t].user = u /\ tokens[t].purpose = kind)
  <2>1. tokens[t] \in Token /\ tokens'[t] = old[t]
    BY <1>0, <1>1, <1>2
  <2> HIDE DEF u, kind
  <2> QED BY <1>2, <2>1 DEF Invalidate, Live, Token
<1> HIDE DEF u, kind, n, old
<1> QED BY <1>0, <1>1, <1>2 DEF OneLiveLink

LEMMA NextOneLiveLink == TypeOK /\ OneLiveLink /\ [Next]_vars => OneLiveLink'
<1> SUFFICES ASSUME TypeOK, OneLiveLink, [Next]_vars PROVE OneLiveLink'
  OBVIOUS
<1>1. CASE \E w \in Workers : IssueToken(w)
  BY <1>1, IssueKeepsOne
<1>2. CASE \A w \in Workers : ~IssueToken(w)
  BY <1>2, OnlyIssueRevives DEF LiveShrinks, OneLiveLink
<1> QED BY <1>1, <1>2

\* "prevents concurrent requests from leaving two usable token generations":
\* for any number of accounts, workers and clients, an account never has two
\* live links of one purpose.
THEOREM AtMostOneLiveLink == Spec => []OneLiveLink
<1>1. Init => OneLiveLink
  BY DEF Init, OneLiveLink, Live, UnusedToken, Challenges, Kinds
<1> QED BY <1>1, NextOneLiveLink, TypeCorrect, PTL DEF Spec
-----------------------------------------------------------------------------
(* The lease is a fence.                                                   *)

\* The strengthening that makes LeaseFences inductive: a call in flight whose
\* lease is not the one in the open row has already outlived it, so a lease
\* handed out later, which ends in the future, cannot be mistaken for it.
StaleLeaseExpired ==
    \A w \in Workers :
        ~At(w, "idle") /\ Open(worker[w].job) /\ JobOf(w).lease # worker[w].lease
        => worker[w].lease <= now

LeaseInv == StaleLeaseExpired /\ LeaseFences

\* A step that closes jobs or adds them, moves calls on or ends them, or lets
\* time pass.
LeasesKept ==
    /\ \A j \in 1 .. jobCount :
         jobs'[j].status = "open" => /\ jobs[j].status = "open"
                                     /\ jobs'[j].lease = jobs[j].lease
    /\ \A w \in Workers :
         worker'[w].pc # "idle" => /\ worker[w].pc # "idle"
                                   /\ worker'[w].job = worker[w].job
                                   /\ worker'[w].lease = worker[w].lease
    /\ now' \in Nat /\ now <= now'

LEMMA LeasesKeptInv ==
    ASSUME TypeOK, LeaseInv, LeasesKept PROVE LeaseInv'
<1>1. \A w \in Workers : worker[w].lease \in Nat /\ now \in Nat
  BY DEF TypeOK, WorkersOK, Worker
<1>2. \A w \in Workers : worker[w].pc # "idle" => worker[w].job \in 1 .. jobCount
  BY DEF TypeOK, WorkersOK, At
<1>3. StaleLeaseExpired'
  BY <1>1, <1>2 DEF LeaseInv, StaleLeaseExpired, LeasesKept, At, Open, JobOf
<1>4. LeaseFences'
  BY <1>2 DEF LeaseInv, LeaseFences, LeasesKept, At, HoldsLease, JobOf
<1> QED BY <1>3, <1>4 DEF LeaseInv

\* An expired lease passes to its new holder: whoever held it has outlived it.
LEMMA TakeLeaseInv ==
    ASSUME TypeOK, LeaseInv, NEW w \in Workers, NEW j \in JobId, TakeLease(w, j)
    PROVE  LeaseInv'
<1>1. /\ now \in Nat /\ now' = now /\ Lease \in Nat \ {0}
      /\ jobs[j] \in Job /\ jobs \in [JobId -> Job]
      /\ Open(j) /\ (jobs[j].lease # None => jobs[j].lease <= now)
  BY DEF TypeOK, JobsOK, TakeLease, Eligible
<1>2. /\ jobs'[j].status = "open" /\ jobs'[j].lease = now + Lease
      /\ \A k \in JobId : k # j => jobs'[k] = jobs[k]
  <2>1. jobs'[j] = [[jobs[j] EXCEPT !.lease = now + Lease] EXCEPT !.attempts = jobs[j].attempts + 1]
    BY <1>1 DEF TakeLease
  <2> QED BY <1>1, <2>1 DEF Job, Open, TakeLease
<1>3. /\ worker'[w].job = j /\ worker'[w].lease = now + Lease
      /\ \A v \in Workers : v # w => worker'[v] = worker[v]
  BY DEF TakeLease, TypeOK, WorkersOK
<1>4. ASSUME NEW v \in Workers, v # w, worker[v].pc # "idle", worker[v].job = j
      PROVE  worker[v].lease <= now /\ worker[v].lease # now + Lease
  <2>1. worker[v].lease \in Nat
    BY DEF TypeOK, WorkersOK, Worker
  <2>2. worker[v].lease <= now
    <3>1. CASE jobs[j].lease = worker[v].lease
      BY <1>1, <2>1, <3>1
    <3>2. CASE jobs[j].lease # worker[v].lease
      BY <1>1, <1>4, <3>2 DEF LeaseInv, StaleLeaseExpired, At, JobOf
    <3> QED BY <3>1, <3>2
  <2> QED BY <1>1, <2>1, <2>2
<1>5. \A v \in Workers : worker[v].pc # "idle" => worker[v].job \in JobId
  BY DEF TypeOK, WorkersOK, JobsOK, JobId, At
<1>6. StaleLeaseExpired'
  <2> SUFFICES ASSUME NEW v \in Workers, worker'[v].pc # "idle",
                      jobs'[worker'[v].job].status = "open",
                      jobs'[worker'[v].job].lease # worker'[v].lease
               PROVE  worker'[v].lease <= now
    BY <1>1 DEF StaleLeaseExpired, At, Open, JobOf
  <2>1. v # w
    BY <1>2, <1>3
  <2>2. CASE worker[v].job = j
    BY <1>3, <1>4, <2>1, <2>2
  <2>3. CASE worker[v].job # j
    BY <1>2, <1>3, <1>5, <2>1, <2>3 DEF LeaseInv, StaleLeaseExpired, At, Open, JobOf
  <2> QED BY <2>2, <2>3
<1>7. LeaseFences'
  <2> SUFFICES ASSUME NEW v1 \in Workers, NEW v2 \in Workers,
                      worker'[v1].pc # "idle", worker'[v2].pc # "idle",
                      worker'[v1].job = worker'[v2].job,
                      jobs'[worker'[v1].job].status = "open",
                      jobs'[worker'[v1].job].lease = worker'[v1].lease,
                      jobs'[worker'[v2].job].lease = worker'[v2].lease
               PROVE  v1 = v2
    BY DEF LeaseFences, At, HoldsLease, JobOf
  <2>1. CASE worker'[v1].job = j
    <3>1. \A v \in Workers : worker'[v].pc # "idle" /\ worker'[v].job = j
                              /\ worker'[v].lease = now + Lease => v = w
      BY <1>3, <1>4
    <3> QED BY <1>2, <2>1, <3>1
  <2>2. CASE worker'[v1].job # j
    BY <1>2, <1>3, <1>5, <2>2 DEF LeaseInv, LeaseFences, At, HoldsLease, JobOf
  <2> QED BY <2>1, <2>2
<1> QED BY <1>6, <1>7 DEF LeaseInv

\* Giving the lease back: by LeaseFences everyone else's is already stale.
LEMMA TransitionInv ==
    ASSUME TypeOK, LeaseInv, NEW w \in Workers, ~At(w, "idle"), NEW row,
           row.lease = None, TransitionClaim(w, row), now' = now
    PROVE  LeaseInv'
<1> DEFINE j == worker[w].job
<1>1. /\ worker'[w] = IdleWorker
      /\ \A v \in Workers : v # w => worker'[v] = worker[v]
      /\ now \in Nat
      /\ \A v \in Workers : worker[v].lease \in Nat
      /\ \A v \in Workers : worker[v].pc # "idle" => worker[v].job \in JobId
      /\ j \in JobId /\ jobs \in [JobId -> Job]
  BY DEF TransitionClaim, TypeOK, WorkersOK, JobsOK, JobId, Worker, At
<1>2. CASE ~HoldsLease(w)
  <2>1. LeasesKept
    BY <1>1, <1>2 DEF TransitionClaim, LeasesKept, IdleWorker
  <2> QED BY <2>1, LeasesKeptInv
<1>3. CASE HoldsLease(w)
  <2>1. jobs'[j] = row /\ \A k \in JobId : k # j => jobs'[k] = jobs[k]
    BY <1>1, <1>3 DEF TransitionClaim
  <2>2. ASSUME NEW v \in Workers, v # w, worker[v].pc # "idle", worker[v].job = j
        PROVE  worker[v].lease <= now /\ worker[v].lease # None
    <3>1. ~HoldsLease(v)
      BY <1>3, <2>2 DEF LeaseInv, LeaseFences, At
    <3> QED BY <1>1, <1>3, <2>2, <3>1 DEF LeaseInv, StaleLeaseExpired, HoldsLease, At, Open, JobOf
  <2>3. StaleLeaseExpired'
    <3> SUFFICES ASSUME NEW v \in Workers, worker'[v].pc # "idle",
                        jobs'[worker'[v].job].status = "open",
                        jobs'[worker'[v].job].lease # worker'[v].lease
                 PROVE  worker'[v].lease <= now
      BY <1>1 DEF StaleLeaseExpired, At, Open, JobOf
    <3>1. v # w
      BY <1>1 DEF IdleWorker
    <3>2. CASE worker[v].job = j
      BY <1>1, <2>2, <3>1, <3>2
    <3>3. CASE worker[v].job # j
      BY <1>1, <2>1, <3>1, <3>3 DEF LeaseInv, StaleLeaseExpired, At, Open, JobOf
    <3> QED BY <3>2, <3>3
  <2>4. LeaseFences'
    <3> SUFFICES ASSUME NEW v1 \in Workers, NEW v2 \in Workers,
                        worker'[v1].pc # "idle", worker'[v2].pc # "idle",
                        worker'[v1].job = worker'[v2].job,
                        jobs'[worker'[v1].job].status = "open",
                        jobs'[worker'[v1].job].lease = worker'[v1].lease,
                        jobs'[worker'[v2].job].lease = worker'[v2].lease
                 PROVE  v1 = v2
      BY DEF LeaseFences, At, HoldsLease, JobOf
    <3>1. v1 # w /\ v2 # w
      BY <1>1 DEF IdleWorker
    <3>2. CASE worker[v1].job = j
      BY <1>1, <2>1, <2>2, <3>1, <3>2
    <3>3. CASE worker[v1].job # j
      BY <1>1, <2>1, <3>1, <3>3 DEF LeaseInv, LeaseFences, At, HoldsLease, JobOf
    <3> QED BY <3>2, <3>3
  <2> QED BY <2>3, <2>4 DEF LeaseInv
<1> QED BY <1>2, <1>3
\* Enqueueing closes the account's open jobs of one kind and adds a row nobody
\* has claimed; no other row changes.
LEMMA EnqueueRows ==
    ASSUME TypeOK, NEW u, NEW k, NEW kind, jobCount < MaxJobs,
           jobs' = AddJob(CancelJobs(jobs, u, k), u, kind)
    PROVE  /\ \A j \in 1 .. jobCount : jobs'[j] = CancelJobs(jobs, u, k)[j]
           /\ \A j \in 1 .. jobCount : jobs'[j].status = "open" => jobs'[j] = jobs[j]
<1>1. jobCount \in Nat /\ \A j \in 1 .. jobCount : j \in JobId /\ j # jobCount + 1
  BY DEF TypeOK, JobsOK, JobId
<1>2. jobs \in [JobId -> Job]
  BY DEF TypeOK, JobsOK
<1>3. \A j \in 1 .. jobCount : jobs'[j] = CancelJobs(jobs, u, k)[j]
  BY <1>1, <1>2, CancelJobsRows DEF AddJob
<1>4. ASSUME NEW j \in 1 .. jobCount, jobs'[j].status = "open"
      PROVE  jobs'[j] = jobs[j]
  <2>1. jobs[j] \in Job /\ j \in JobId
    BY <1>1, <1>2
  <2>2. CASE jobs[j].user = u /\ jobs[j].kind = k /\ jobs[j].status = "open"
    <3>1. jobs'[j] = [[jobs[j] EXCEPT !.status = "cancelled"] EXCEPT !.lease = None]
      BY <1>3, <2>1, <2>2 DEF CancelJobs
    <3> QED BY <1>4, <2>1, <3>1 DEF Job
  <2>3. CASE ~(jobs[j].user = u /\ jobs[j].kind = k /\ jobs[j].status = "open")
    BY <1>3, <2>1, <2>3 DEF CancelJobs
  <2> QED BY <2>2, <2>3
<1> QED BY <1>3, <1>4

LEMMA NextLeaseInv == TypeOK /\ LeaseInv /\ [Next]_vars => LeaseInv'
<1> SUFFICES ASSUME TypeOK, LeaseInv, [Next]_vars PROVE LeaseInv'
  OBVIOUS
<1>0. now \in Nat /\ worker \in [Workers -> Worker]
  BY DEF TypeOK, WorkersOK
<1>1. ASSUME NEW u \in Users, RequestStep(u) PROVE LeaseInv'
  <2>1. PICK k, kind : /\ jobs' = AddJob(CancelJobs(jobs, u, k), u, kind)
                       /\ jobCount < MaxJobs
                       /\ worker' = worker /\ now' = now
    BY <1>1 DEF RequestStep, Register, RequestVerification, RequestReset,
                ChangePassword, EnqueueChallenge
  <2>2. LeasesKept
    BY <1>0, <2>1, EnqueueRows DEF LeasesKept
  <2> QED BY <2>2, LeasesKeptInv
<1>2. ASSUME NEW w \in Workers, WorkerStep(w) \/ Crash(w) PROVE LeaseInv'
  <2>1. CASE ClaimNext(w) \/ ClaimInline(w)
    BY <2>1, TakeLeaseInv DEF ClaimNext, ClaimInline
  <2>2. CASE FinishDelivery(w) \/ CancelDelivery(w)
    <3>1. PICK status \in {"completed", "cancelled"} :
            ~At(w, "idle") /\ TransitionClaim(w, Closed(w, status)) /\ now' = now
      BY <2>2 DEF FinishDelivery, CancelDelivery, At, TransitionClaim
    <3>2. Closed(w, status).lease = None
      <4>1. JobOf(w) \in Job
        BY <3>1 DEF TypeOK, WorkersOK, JobsOK, JobId, JobOf
      <4>2. Closed(w, status) = [[JobOf(w) EXCEPT !.status = status] EXCEPT !.lease = None]
        BY DEF Closed
      <4> QED BY <4>1, <4>2 DEF Job
    <3> QED BY <3>1, <3>2, TransitionInv
  <2>3. CASE RescheduleFailure(w)
    <3> DEFINE later == [JobOf(w) EXCEPT !.lease = None,
                             !.availableAt = now + RetryDelay(worker[w].attempts)]
               row == IF worker[w].attempts >= MaxAttempts
                      THEN Closed(w, "cancelled") ELSE later
    <3>1. ~At(w, "idle") /\ TransitionClaim(w, row) /\ now' = now
      BY <2>3 DEF RescheduleFailure, At, TransitionClaim
    <3>2. row.lease = None
      <4>1. JobOf(w) \in Job
        BY <3>1 DEF TypeOK, WorkersOK, JobsOK, JobId, JobOf
      <4>2. later = [[JobOf(w) EXCEPT !.lease = None]
                        EXCEPT !.availableAt = now + RetryDelay(worker[w].attempts)]
        OBVIOUS
      <4>3. Closed(w, "cancelled") = [[JobOf(w) EXCEPT !.status = "cancelled"] EXCEPT !.lease = None]
        BY DEF Closed
      <4>4. later.lease = None /\ Closed(w, "cancelled").lease = None
        BY <4>1, <4>2, <4>3 DEF Job
      <4> HIDE DEF later
      <4> QED BY <4>4
    <3> HIDE DEF row
    <3> QED BY <3>1, <3>2, TransitionInv
  <2>4. CASE IssueToken(w)
    <3>1. jobs' = jobs /\ now' = now
          /\ worker' = [worker EXCEPT ![w] =
                [[worker[w] EXCEPT !.pc = "sending"] EXCEPT !.token = tokenCount + 1]]
      BY <1>0, <2>4 DEF IssueToken, jobVars
    <3>2. worker[w].pc = "locked" /\ worker[w] \in Worker
      BY <1>0, <2>4 DEF IssueToken, At
    <3>3. /\ worker'[w].job = worker[w].job /\ worker'[w].lease = worker[w].lease
          /\ \A v \in Workers : v # w => worker'[v] = worker[v]
      BY <1>0, <3>1, <3>2 DEF Worker
    <3>4. LeasesKept
      BY <1>0, <3>1, <3>2, <3>3 DEF LeasesKept
    <3> QED BY <3>4, LeasesKeptInv
  <2>5. CASE \/ LockUser(w) \/ NothingToVerify(w) \/ TransportAccepts(w) \/ TransportFails(w)
             \/ AbandonClaim(w) \/ Crash(w)
    <3>1. jobs' = jobs /\ now' = now /\ worker[w].pc # "idle"
      BY <2>5 DEF LockUser, NothingToVerify, TransportAccepts, TransportFails,
                  AbandonClaim, Crash, At, jobVars
    <3>2. \/ worker' = [worker EXCEPT ![w] = IdleWorker]
          \/ \E pc : worker' = [worker EXCEPT ![w].pc = pc]
      BY <2>5 DEF LockUser, NothingToVerify, TransportAccepts, TransportFails,
                  AbandonClaim, Crash
    <3>3. \A v \in Workers :
            worker'[v].pc # "idle" => /\ worker[v].pc # "idle"
                                      /\ worker'[v].job = worker[v].job
                                      /\ worker'[v].lease = worker[v].lease
      BY <1>0, <3>1, <3>2 DEF Worker, IdleWorker
    <3>4. LeasesKept
      BY <1>0, <3>1, <3>3 DEF LeasesKept
    <3> QED BY <3>4, LeasesKeptInv
  <2> QED BY <1>2, <2>1, <2>2, <2>3, <2>4, <2>5 DEF WorkerStep
<1>3. ASSUME NEW c \in Clients, ClientStep(c) PROVE LeaseInv'
  <2>1. CASE ConfirmReset(c)
    <3>1. PICK u : /\ jobs' = AddJob(CancelJobs(jobs, u, Reset), u, Changed)
                   /\ jobCount < MaxJobs
                   /\ worker' = worker /\ now' = now
      BY <2>1 DEF ConfirmReset
    <3>2. LeasesKept
      BY <1>0, <3>1, EnqueueRows DEF LeasesKept
    <3> QED BY <3>2, LeasesKeptInv
  <2>2. CASE ~ConfirmReset(c)
    <3>1. jobs' = jobs /\ worker' = worker /\ now' = now
      BY <1>3, <2>2 DEF ClientStep, LookUp, ConfirmVerification, RejectConfirmation, jobVars
    <3>2. LeasesKept
      BY <1>0, <3>1 DEF LeasesKept
    <3> QED BY <3>2, LeasesKeptInv
  <2> QED BY <2>1, <2>2
<1>4. CASE Tick \/ UNCHANGED vars
  <2>1. LeasesKept
    BY <1>0, <1>4 DEF Tick, vars, jobVars, LeasesKept
  <2> QED BY <2>1, LeasesKeptInv
<1> QED BY <1>1, <1>2, <1>3, <1>4 DEF Next

\* A lease is a fencing token: two calls in flight for one job never both pass
\* the test of _transition_claim, for any lease length and any scheduling.
THEOREM LeaseIsFence == Spec => []LeaseFences
<1>1. Init => LeaseInv
  BY DEF Init, LeaseInv, StaleLeaseExpired, LeaseFences, At, IdleWorker
<1>2. LeaseInv => LeaseFences
  BY DEF LeaseInv
<1> QED BY <1>1, <1>2, NextLeaseInv, TypeCorrect, PTL DEF Spec
-----------------------------------------------------------------------------
(* At most one open job per account and challenge.                         *)

\* Besides enqueueing, no step opens a job or changes its account or kind.
OpenShrinks ==
    \A j \in JobId : Open(j)' => /\ Open(j)
                                 /\ jobs'[j].user = jobs[j].user
                                 /\ jobs'[j].kind = jobs[j].kind

LEMMA TransitionOpens ==
    ASSUME TypeOK, NEW w \in Workers, ~At(w, "idle"), NEW row \in Job,
           row.user = JobOf(w).user, row.kind = JobOf(w).kind, TransitionClaim(w, row)
    PROVE  OpenShrinks
<1>1. jobs \in [JobId -> Job] /\ worker[w].job \in JobId
  BY DEF TypeOK, JobsOK, WorkersOK, JobId
<1>2. CASE ~HoldsLease(w)
  BY <1>2 DEF TransitionClaim, OpenShrinks, Open
<1>3. CASE HoldsLease(w)
  <2>1. /\ jobs'[worker[w].job] = row
        /\ \A j \in JobId : j # worker[w].job => jobs'[j] = jobs[j]
    BY <1>1, <1>3 DEF TransitionClaim
  <2> QED BY <1>3, <2>1 DEF OpenShrinks, Open, HoldsLease, JobOf
<1> QED BY <1>2, <1>3

LEMMA OnlyEnqueueOpens ==
    ASSUME TypeOK, [Next]_vars,
           \A u \in Users : ~RequestStep(u), \A c \in Clients : ~ConfirmReset(c)
    PROVE  OpenShrinks
<1>0. jobs \in [JobId -> Job]
  BY DEF TypeOK, JobsOK
<1>1. CASE jobs' = jobs
  BY <1>1 DEF OpenShrinks, Open
<1>2. ASSUME NEW w \in Workers, NEW j \in JobId, TakeLease(w, j) PROVE OpenShrinks
  <2>1. /\ jobs'[j] = [[jobs[j] EXCEPT !.lease = now + Lease] EXCEPT !.attempts = jobs[j].attempts + 1]
        /\ \A k \in JobId : k # j => jobs'[k] = jobs[k]
    BY <1>0, <1>2 DEF TakeLease
  <2>2. jobs[j] \in Job
    BY <1>0
  <2>3. /\ jobs'[j].user = jobs[j].user /\ jobs'[j].kind = jobs[j].kind
        /\ jobs'[j].status = jobs[j].status
    BY <2>1, <2>2 DEF Job
  <2> QED BY <2>1, <2>3 DEF OpenShrinks, Open
<1>3. ASSUME NEW w \in Workers, FinishDelivery(w) \/ CancelDelivery(w) PROVE OpenShrinks
  <2>1. PICK status \in {"completed", "cancelled"} :
          ~At(w, "idle") /\ TransitionClaim(w, Closed(w, status))
    BY <1>3 DEF FinishDelivery, CancelDelivery, At
  <2> QED BY <2>1, ClosedRow, TransitionOpens
<1>4. ASSUME NEW w \in Workers, RescheduleFailure(w) PROVE OpenShrinks
  <2> DEFINE later == [JobOf(w) EXCEPT !.lease = None,
                           !.availableAt = now + RetryDelay(worker[w].attempts)]
             row == IF worker[w].attempts >= MaxAttempts
                    THEN Closed(w, "cancelled") ELSE later
  <2>1. ~At(w, "idle") /\ TransitionClaim(w, row)
    BY <1>4 DEF RescheduleFailure, At
  <2>2. JobOf(w) \in Job /\ worker[w].attempts \in Nat
    BY <2>1 DEF TypeOK, WorkersOK, JobsOK, JobId, JobOf, Worker
  <2>3. now + RetryDelay(worker[w].attempts) \in Nat
    BY <2>2, RetryDelayType DEF TypeOK
  <2>4. later = [[JobOf(w) EXCEPT !.lease = None]
                        EXCEPT !.availableAt = now + RetryDelay(worker[w].attempts)]
    OBVIOUS
  <2>5. later \in Job /\ later.user = JobOf(w).user /\ later.kind = JobOf(w).kind
    BY <2>2, <2>3, <2>4 DEF Job
  <2>6. row \in Job /\ row.user = JobOf(w).user /\ row.kind = JobOf(w).kind
    <3> HIDE DEF later
    <3> QED BY <2>1, <2>5, ClosedRow
  <2> HIDE DEF row
  <2> QED BY <2>1, <2>6, TransitionOpens
<1> QED BY <1>1, <1>2, <1>3, <1>4 DEF Next, WorkerStep, Crash, ClientStep, ClaimNext,
           ClaimInline, LockUser, AbandonClaim, IssueToken, NothingToVerify,
           TransportAccepts, TransportFails, LookUp, ConfirmVerification,
           RejectConfirmation, Tick, vars, jobVars

\* A new job replaces the open one of its account and kind, if it is a
\* challenge; a password notice replaces nothing.
LEMMA EnqueueKeepsOne ==
    ASSUME TypeOK, OneOpenChallenge, NEW u, NEW k \in Challenges, NEW kind \in Kinds,
           kind = Changed \/ kind = k, jobCount < MaxJobs,
           jobs' = AddJob(CancelJobs(jobs, u, k), u, kind)
    PROVE  OneOpenChallenge'
<1> DEFINE n == jobCount + 1
<1>1. jobs \in [JobId -> Job] /\ n \in JobId /\ jobCount \in Nat
  BY DEF TypeOK, JobsOK, JobId
<1>2. /\ jobs'[n].user = u /\ jobs'[n].kind = kind
      /\ \A j \in JobId : j # n => jobs'[j] = CancelJobs(jobs, u, k)[j]
  BY <1>1, CancelJobsRows DEF AddJob
<1>3. ASSUME NEW j \in JobId, j # n, jobs'[j].status = "open"
      PROVE  /\ jobs[j].status = "open"
             /\ jobs'[j].user = jobs[j].user /\ jobs'[j].kind = jobs[j].kind
             /\ ~(jobs[j].user = u /\ jobs[j].kind = k)
  <2>1. jobs[j] \in Job /\ jobs'[j] = CancelJobs(jobs, u, k)[j]
    BY <1>1, <1>2, <1>3
  <2>2. CASE jobs[j].user = u /\ jobs[j].kind = k /\ jobs[j].status = "open"
    <3>1. jobs'[j] = [[jobs[j] EXCEPT !.status = "cancelled"] EXCEPT !.lease = None]
      BY <2>1, <2>2 DEF CancelJobs
    <3> QED BY <1>3, <2>1, <3>1 DEF Job
  <2>3. CASE ~(jobs[j].user = u /\ jobs[j].kind = k /\ jobs[j].status = "open")
    BY <1>3, <2>1, <2>3 DEF CancelJobs
  <2> QED BY <2>2, <2>3
<1>4. Changed \notin Challenges
  BY DEF Challenges, Changed, Verification, Reset
<1> HIDE DEF n
<1> QED BY <1>1, <1>2, <1>3, <1>4 DEF OneOpenChallenge, Open

LEMMA NextOneOpenChallenge == TypeOK /\ OneOpenChallenge /\ [Next]_vars => OneOpenChallenge'
<1> SUFFICES ASSUME TypeOK, OneOpenChallenge, [Next]_vars PROVE OneOpenChallenge'
  OBVIOUS
<1>1. ASSUME NEW u \in Users, RequestStep(u) PROVE OneOpenChallenge'
  <2>1. PICK k \in Challenges, kind \in Kinds :
          /\ kind = Changed \/ kind = k
          /\ jobCount < MaxJobs
          /\ jobs' = AddJob(CancelJobs(jobs, u, k), u, kind)
    BY <1>1 DEF RequestStep, Register, RequestVerification, RequestReset,
                ChangePassword, EnqueueChallenge, Challenges, Kinds
  <2> QED BY <2>1, EnqueueKeepsOne
<1>2. ASSUME NEW c \in Clients, ConfirmReset(c) PROVE OneOpenChallenge'
  <2>1. PICK u : /\ jobCount < MaxJobs
                 /\ jobs' = AddJob(CancelJobs(jobs, u, Reset), u, Changed)
    BY <1>2 DEF ConfirmReset
  <2> QED BY <2>1, EnqueueKeepsOne DEF Challenges, Kinds
<1>3. CASE (\A u \in Users : ~RequestStep(u)) /\ (\A c \in Clients : ~ConfirmReset(c))
  BY <1>3, OnlyEnqueueOpens DEF OpenShrinks, OneOpenChallenge
<1> QED BY <1>1, <1>2, <1>3

\* A replacement request supersedes its predecessor: no interleaving of
\* requests, workers and confirmations leaves two open jobs of one challenge.
THEOREM AtMostOneOpenChallenge == Spec => []OneOpenChallenge
<1>1. Init => OneOpenChallenge
  BY DEF Init, OneOpenChallenge, Open, UnusedJob
<1> QED BY <1>1, NextOneOpenChallenge, TypeCorrect, PTL DEF Spec

-----------------------------------------------------------------------------
(* The inductive invariants about links and notices.                       *)

\* A call that found nothing to send was for a verification that is done.
MootIsVerified == \A w \in Workers : At(w, "moot") => AlreadyVerified(w)

VerifiedInv == VerifiedNeedsNoLink /\ MootIsVerified

\* What a call remembers of its job is not ahead of the row.
ClaimsAreBehind ==
    \A w \in Workers :
        /\ At(w, "sent") => worker[w].job \in accepted
        /\ ~At(w, "idle") => worker[w].attempts <= JobOf(w).attempts

NoticeInv == NoticeNotLost /\ ClaimsAreBehind

\* Every request for a challenge replaces the open one.
OpenIsNewest ==
    \A j, k \in JobId :
        /\ Open(j) /\ jobs[j].kind \in Challenges
        /\ jobs[k].user = jobs[j].user /\ jobs[k].kind = jobs[j].kind
        => k <= j

\* From the lock of the user row to the commit that issues the link the job
\* stays open: whoever takes its expired lease meanwhile waits for the lock.
LockedIsOpen ==
    \A w \in Workers : At(w, "locked") =>
        /\ userLock[ClaimUser(w)] = w
        /\ Open(worker[w].job)
        /\ \A v \in Workers \ {w} :
             /\ ~At(v, "idle") /\ worker[v].job = worker[w].job /\ HoldsLease(v)
             => At(v, "claimed")

Delivering(w) == worker[w].pc \in {"sending", "sent", "refused"}

\* The holder of the lease issued the only live link of its job.
OwnLink ==
    \A w \in Workers, t \in TokenId :
        /\ Delivering(w) /\ HoldsLease(w)
        /\ Live(t) /\ tokens[t].job = worker[w].job
        => t = worker[w].token

LinkInv ==
    /\ OpenIsNewest
    /\ LockedIsOpen
    /\ OwnLink
    /\ LiveLinkIsCurrent
    /\ NoRecoverySurvivesChange
-----------------------------------------------------------------------------
(* What the steps do to the jobs.                                          *)

JobsTyped == jobs \in [JobId -> Job] /\ jobCount \in Nat

LEMMA TypesOfJobs == TypeOK => JobsTyped
  BY DEF TypeOK, JobsOK, JobsTyped

LEMMA ClaimedJob ==
    ASSUME TypeOK, NEW w \in Workers, ~At(w, "idle")
    PROVE  /\ worker[w].job \in JobId /\ worker[w].job \in 1 .. jobCount
           /\ JobOf(w) \in Job /\ worker[w] \in Worker
           /\ ClaimUser(w) \in registered /\ ClaimUser(w) \in Users /\ ClaimKind(w) \in Kinds
  BY DEF TypeOK, WorkersOK, JobsOK, JobId, JobOf, ClaimUser, ClaimKind

\* A new row, and the open jobs of account u and kind k are cancelled.
Supersedes(u, k, kind) ==
    /\ jobCount + 1 \in JobId
    /\ jobCount' = jobCount + 1
    /\ jobs'[jobCount + 1].user = u /\ jobs'[jobCount + 1].kind = kind
    /\ jobs'[jobCount + 1].status = "open"
    /\ jobs'[jobCount + 1].attempts = 0
    /\ \A j \in JobId \ {jobCount + 1} :
         /\ jobs'[j].user = jobs[j].user /\ jobs'[j].kind = jobs[j].kind
         /\ jobs'[j].attempts = jobs[j].attempts
         /\ jobs[j].user = u /\ jobs[j].kind = k => jobs'[j].status # "open"
         /\ \/ jobs'[j] = jobs[j]
            \/ /\ jobs[j].user = u /\ jobs[j].kind = k /\ jobs[j].status = "open"
               /\ jobs'[j].status = "cancelled"

LEMMA EnqueueSupersedes ==
    ASSUME TypeOK, NEW u, NEW k, NEW kind, jobCount < MaxJobs, jobCount' = jobCount + 1,
           jobs' = AddJob(CancelJobs(jobs, u, k), u, kind)
    PROVE  Supersedes(u, k, kind)
<1> DEFINE n == jobCount + 1
           old == CancelJobs(jobs, u, k)
<1>1. JobsTyped /\ n \in JobId
  BY TypesOfJobs DEF JobsTyped, JobId
<1>2. PICK row : row = [user |-> u, kind |-> kind, status |-> "open",
                        availableAt |-> now, lease |-> None, attempts |-> 0]
  OBVIOUS
<1>3. jobs' = [old EXCEPT ![n] = row]
  BY <1>2 DEF AddJob
<1>4. row.user = u /\ row.kind = kind /\ row.status = "open" /\ row.attempts = 0
  BY <1>2
<1>5. jobs'[n] = row /\ \A j \in JobId \ {n} : jobs'[j] = old[j]
  BY <1>1, <1>3 DEF CancelJobs
<1>6. ASSUME NEW j \in JobId
      PROVE  /\ old[j].user = jobs[j].user /\ old[j].kind = jobs[j].kind
             /\ old[j].attempts = jobs[j].attempts
             /\ jobs[j].user = u /\ jobs[j].kind = k => old[j].status # "open"
             /\ \/ old[j] = jobs[j]
                \/ /\ jobs[j].user = u /\ jobs[j].kind = k /\ jobs[j].status = "open"
                   /\ old[j].status = "cancelled"
  <2>1. jobs[j] \in Job
    BY <1>1 DEF JobsTyped
  <2>2. CASE jobs[j].user = u /\ jobs[j].kind = k /\ jobs[j].status = "open"
    <3>1. old[j] = [[jobs[j] EXCEPT !.status = "cancelled"] EXCEPT !.lease = None]
      BY <2>2 DEF CancelJobs
    <3> HIDE DEF old
    <3> QED BY <2>1, <2>2, <3>1 DEF Job
  <2>3. CASE ~(jobs[j].user = u /\ jobs[j].kind = k /\ jobs[j].status = "open")
    <3>1. old[j] = jobs[j]
      BY <2>3 DEF CancelJobs
    <3> HIDE DEF old
    <3> QED BY <2>3, <3>1
  <2> QED BY <2>2, <2>3
<1> HIDE DEF old
<1> QED BY <1>1, <1>4, <1>5, <1>6 DEF Supersedes

\* The steps that enqueue: for which account, and what they supersede.
Enqueues(u, k, kind) ==
    /\ Supersedes(u, k, kind)
    /\ k \in Challenges /\ kind \in {k, Changed}
    /\ kind = Changed => k = Reset
    /\ Unlocked(u)
    /\ LiveShrinks
    /\ \A t \in TokenId : Live(t)' => ~(tokens[t].user = u /\ tokens[t].purpose = k)
    /\ UNCHANGED <<now, userLock, worker, accepted>>
    /\ verified \subseteq verified'

LEMMA InvalidateKills ==
    ASSUME TypeOK, NEW u, NEW p, tokens' = Invalidate(u, p)
    PROVE  \A t \in TokenId : Live(t)' => ~(tokens[t].user = u /\ tokens[t].purpose = p)
<1>1. tokens \in [TokenId -> Token]
  BY DEF TypeOK, TokensOK
<1> QED BY <1>1 DEF Live, Invalidate, Token

LEMMA RequestEnqueues ==
    ASSUME TypeOK, NEW u \in Users, RequestStep(u)
    PROVE  \E k, kind \in Kinds : Enqueues(u, k, kind) /\ verified' = verified
<1>1. ASSUME NEW k \in Challenges, EnqueueChallenge(u, k), verified' = verified
      PROVE  Enqueues(u, k, k)
  <2>1. k # Changed
    BY DEF Challenges, Verification, Reset, Changed
  <2>2. Supersedes(u, k, k)
    BY <1>1, EnqueueSupersedes DEF EnqueueChallenge
  <2>3. LiveShrinks /\ \A t \in TokenId : Live(t)' => ~(tokens[t].user = u /\ tokens[t].purpose = k)
    BY <1>1, InvalidateKills, InvalidateLive DEF EnqueueChallenge
  <2> QED BY <1>1, <2>1, <2>2, <2>3 DEF EnqueueChallenge, Enqueues
<1>2. ASSUME ChangePassword(u) PROVE Enqueues(u, Reset, Changed) /\ verified' = verified
  BY <1>2, EnqueueSupersedes, InvalidateKills, InvalidateLive
     DEF ChangePassword, Enqueues, Challenges
<1> QED BY <1>1, <1>2 DEF RequestStep, Register, RequestVerification, RequestReset, userVars,
                       Challenges, Kinds

LEMMA ConfirmResetEnqueues ==
    ASSUME TypeOK, NEW c \in Clients, ConfirmReset(c)
    PROVE  \E u : /\ Enqueues(u, Reset, Changed)
                  /\ verified' = verified \union {u}
                  /\ \A t \in TokenId : Live(t)' => tokens[t].user # u
<1> DEFINE t == client[c]
<1>1. PICK u : u = tokens[t].user
  OBVIOUS
<1>2. /\ Unlocked(u) /\ jobCount < MaxJobs /\ jobCount' = jobCount + 1
      /\ verified' = verified \union {u}
      /\ jobs' = AddJob(CancelJobs(jobs, u, Reset), u, Changed)
      /\ UNCHANGED <<now, userLock, worker, accepted>>
  BY <1>1 DEF ConfirmReset, ClaimToken, mailVars
<1>3. tokens' = [s \in TokenId |->
                   IF s = t THEN [tokens[s] EXCEPT !.consumed = TRUE]
                   ELSE IF tokens[s].user = u THEN [tokens[s] EXCEPT !.invalidated = TRUE]
                   ELSE tokens[s]]
  BY <1>1 DEF ConfirmReset
<1>4. tokens \in [TokenId -> Token]
  BY DEF TypeOK, TokensOK
<1>5. LiveShrinks /\ \A s \in TokenId : Live(s)' => tokens[s].user # u
  <2> HIDE DEF t
  <2>1. ASSUME NEW s \in TokenId, Live(s)'
        PROVE  Live(s) /\ tokens'[s] = tokens[s] /\ s # t /\ tokens[s].user # u
    <3>1. tokens[s] \in Token
      BY <1>4
    <3> QED BY <1>3, <2>1, <3>1 DEF Live, Token
  <2> QED BY <1>1, <1>4, <2>1 DEF LiveShrinks
<1>6. Supersedes(u, Reset, Changed)
  BY <1>2, EnqueueSupersedes
<1>7. Enqueues(u, Reset, Changed)
  BY <1>2, <1>5, <1>6 DEF Enqueues, Challenges
<1> QED BY <1>2, <1>5, <1>7

LEMMA LeaseRow ==
    ASSUME TypeOK, NEW w \in Workers, NEW j \in JobId, TakeLease(w, j)
    PROVE  /\ Open(j)
           /\ jobs'[j].user = jobs[j].user /\ jobs'[j].kind = jobs[j].kind
           /\ jobs'[j].status = "open" /\ jobs'[j].lease = now + Lease
           /\ jobs'[j].attempts = jobs[j].attempts + 1
           /\ \A k \in JobId \ {j} : jobs'[k] = jobs[k]
           /\ worker[w].pc = "idle"
           /\ worker'[w].pc = "claimed" /\ worker'[w].job = j
           /\ worker'[w].lease = now + Lease
           /\ worker'[w].attempts = jobs[j].attempts + 1
           /\ \A v \in Workers \ {w} : worker'[v] = worker[v]
           /\ UNCHANGED <<now, jobCount, tokens, tokenCount, userLock, verified, accepted>>
<1>1. JobsTyped /\ worker \in [Workers -> Worker]
  BY TypesOfJobs DEF TypeOK, WorkersOK
<1>2. /\ jobs'[j] = [[jobs[j] EXCEPT !.lease = now + Lease] EXCEPT !.attempts = jobs[j].attempts + 1]
      /\ \A k \in JobId \ {j} : jobs'[k] = jobs[k]
  BY <1>1 DEF TakeLease, JobsTyped
<1>3. jobs[j] \in Job
  BY <1>1 DEF JobsTyped
<1>4. Open(j) /\ worker[w].pc = "idle"
  BY DEF TakeLease, Eligible, At
<1>5. /\ worker'[w] = [pc |-> "claimed", job |-> j, attempts |-> jobs[j].attempts + 1,
                       lease |-> now + Lease, token |-> None]
      /\ \A v \in Workers \ {w} : worker'[v] = worker[v]
  BY <1>1 DEF TakeLease
<1>6. UNCHANGED <<now, jobCount, tokens, tokenCount, userLock, verified, accepted>>
  BY DEF TakeLease
<1> QED BY <1>2, <1>3, <1>4, <1>5, <1>6 DEF Open, Job

\* The end of a call: its row is written while it holds the lease.
Ends(w, row) ==
    /\ ~At(w, "idle")
    /\ row.user = JobOf(w).user /\ row.kind = JobOf(w).kind
    /\ row.attempts = JobOf(w).attempts
    /\ row.lease = None
    /\ \A j \in JobId \ {worker[w].job} : jobs'[j] = jobs[j]
    /\ HoldsLease(w) => jobs'[worker[w].job] = row
    /\ ~HoldsLease(w) => jobs'[worker[w].job] = jobs[worker[w].job]
    /\ worker' = [worker EXCEPT ![w] = IdleWorker]
    /\ userLock' = Release(w)
    /\ LiveShrinks
    /\ UNCHANGED <<now, jobCount, tokenCount, verified, accepted>>

LEMMA ClosingEnds ==
    ASSUME TypeOK, NEW w \in Workers, NEW status \in {"completed", "cancelled"}, ~At(w, "idle"),
           TransitionClaim(w, Closed(w, status)), LiveShrinks
    PROVE  Ends(w, Closed(w, status)) /\ Closed(w, status).status = status
<1>1. JobsTyped /\ worker[w].job \in JobId /\ JobOf(w) \in Job
  BY TypesOfJobs, ClaimedJob
<1>2. Closed(w, status) = [[JobOf(w) EXCEPT !.status = status] EXCEPT !.lease = None]
  BY DEF Closed
<1>3. /\ Closed(w, status).user = JobOf(w).user /\ Closed(w, status).kind = JobOf(w).kind
      /\ Closed(w, status).attempts = JobOf(w).attempts
      /\ Closed(w, status).lease = None /\ Closed(w, status).status = status
  BY <1>1, <1>2 DEF Job
<1>4. PICK row : row = Closed(w, status)
  OBVIOUS
<1>5. TransitionClaim(w, row)
  BY <1>4
<1>6. Ends(w, row)
  BY <1>1, <1>3, <1>4, <1>5 DEF TransitionClaim, Ends, JobsTyped, mailVars
<1> QED BY <1>3, <1>4, <1>6

LEMMA ReschedulingEnds ==
    ASSUME TypeOK, NEW w \in Workers, RescheduleFailure(w)
    PROVE  \E row : /\ Ends(w, row)
                    /\ row.status \in {JobOf(w).status, "cancelled"}
                    /\ row.status # JobOf(w).status => worker[w].attempts >= MaxAttempts
<1> DEFINE later == [JobOf(w) EXCEPT !.lease = None,
                                     !.availableAt = now + RetryDelay(worker[w].attempts)]
<1>1. ~At(w, "idle")
  BY DEF RescheduleFailure, At
<1>2. JobsTyped /\ worker[w].job \in JobId /\ JobOf(w) \in Job
  BY <1>1, TypesOfJobs, ClaimedJob
<1>3. LiveShrinks
  BY DEF RescheduleFailure, LiveShrinks, Live, TypeOK, TokensOK, Token
<1>4. CASE worker[w].attempts >= MaxAttempts
  <2>1. TransitionClaim(w, Closed(w, "cancelled"))
    BY <1>4 DEF RescheduleFailure
  <2> QED BY <1>1, <1>3, <1>4, <2>1, ClosingEnds
<1>5. CASE ~(worker[w].attempts >= MaxAttempts)
  <2>1. PICK row : row = later
    OBVIOUS
  <2>2. row = [[JobOf(w) EXCEPT !.lease = None]
                 EXCEPT !.availableAt = now + RetryDelay(worker[w].attempts)]
    BY <2>1
  <2>3. /\ row.user = JobOf(w).user /\ row.kind = JobOf(w).kind
        /\ row.attempts = JobOf(w).attempts
        /\ row.lease = None /\ row.status = JobOf(w).status
    BY <1>2, <2>2 DEF Job
  <2>4. TransitionClaim(w, row)
    BY <1>5, <2>1 DEF RescheduleFailure
  <2>5. Ends(w, row)
    BY <1>1, <1>2, <1>3, <2>3, <2>4 DEF TransitionClaim, Ends, JobsTyped, mailVars
  <2> QED BY <2>3, <2>5
<1> QED BY <1>4, <1>5

-----------------------------------------------------------------------------
(* The kinds of step, by what they do to jobs, links and calls.            *)

\* The last transaction of a call, with the reason for the status it writes.
EndsWell(w, row) ==
    /\ Ends(w, row)
    /\ \/ At(w, "sent") /\ row.status = "completed"
       \/ At(w, "moot") /\ row.status = "cancelled"
       \/ /\ At(w, "refused")
          /\ \A t \in TokenId : Live(t)' => t # worker[w].token
          /\ row.status \in {JobOf(w).status, "cancelled"}
          /\ row.status # JobOf(w).status => worker[w].attempts >= MaxAttempts

\* Jobs stay as they are, no link comes alive, and calls go on or end.
Steady ==
    /\ UNCHANGED <<jobs, jobCount, tokenCount>>
    /\ LiveShrinks
    /\ accepted \subseteq accepted' /\ verified \subseteq verified'
    /\ \A v \in Workers : worker'[v].pc # "idle" =>
         /\ worker'[v].job = worker[v].job /\ worker'[v].attempts = worker[v].attempts
         /\ worker'[v].lease = worker[v].lease /\ worker'[v].token = worker[v].token
         /\ \/ worker'[v].pc = worker[v].pc
            \/ /\ worker[v].pc = "sending" /\ worker'[v].pc \in {"sent", "refused"}
               /\ worker'[v].pc = "sent" => worker[v].job \in accepted'
            \/ worker[v].pc = "locked" /\ worker'[v].pc = "moot" /\ AlreadyVerified(v)
    /\ \A v \in Workers, u \in Users :
         worker'[v].pc = "locked" /\ userLock[u] = v => userLock'[u] = v

LEMMA EndCases ==
    ASSUME TypeOK, NEW w \in Workers, FinishDelivery(w) \/ CancelDelivery(w) \/ RescheduleFailure(w)
    PROVE  \E row : EndsWell(w, row)
<1>1. CASE FinishDelivery(w)
  <2>1. ~At(w, "idle") /\ LiveShrinks
    BY <1>1, SameTokensLive DEF FinishDelivery, At
  <2>2. Ends(w, Closed(w, "completed")) /\ Closed(w, "completed").status = "completed"
    BY <1>1, <2>1, ClosingEnds DEF FinishDelivery
  <2> QED BY <1>1, <2>2 DEF EndsWell, FinishDelivery
<1>2. CASE CancelDelivery(w)
  <2>1. ~At(w, "idle") /\ LiveShrinks
    BY <1>2, SameTokensLive DEF CancelDelivery, At
  <2>2. Ends(w, Closed(w, "cancelled")) /\ Closed(w, "cancelled").status = "cancelled"
    BY <1>2, <2>1, ClosingEnds DEF CancelDelivery
  <2> QED BY <1>2, <2>2 DEF EndsWell, CancelDelivery
<1>3. CASE RescheduleFailure(w)
  <2>1. PICK row : /\ Ends(w, row)
                   /\ row.status \in {JobOf(w).status, "cancelled"}
                   /\ row.status # JobOf(w).status => worker[w].attempts >= MaxAttempts
    BY <1>3, ReschedulingEnds
  <2>2. At(w, "refused") /\ \A t \in TokenId : Live(t)' => t # worker[w].token
    BY <1>3 DEF RescheduleFailure, Live, TypeOK, TokensOK, Token
  <2> QED BY <2>1, <2>2 DEF EndsWell
<1> QED BY <1>1, <1>2, <1>3

LEMMA WorkerSteady ==
    ASSUME TypeOK, NEW w \in Workers,
           \/ AbandonClaim(w) \/ NothingToVerify(w)
           \/ TransportAccepts(w) \/ TransportFails(w) \/ Crash(w)
    PROVE  Steady
<1>1. /\ UNCHANGED <<jobs, jobCount, tokens, tokenCount, verified>>
      /\ userLock' \in {userLock, Release(w)}
      /\ accepted \subseteq accepted'
  BY DEF AbandonClaim, NothingToVerify, TransportAccepts, TransportFails, Crash,
         jobVars, tokenVars, mailVars
<1>2. worker \in [Workers -> Worker]
  BY DEF TypeOK, WorkersOK
<1>3. \/ worker' = [worker EXCEPT ![w] = IdleWorker]
      \/ /\ worker' = [worker EXCEPT ![w].pc = "moot"] /\ worker[w].pc = "locked" /\ AlreadyVerified(w)
      \/ /\ worker' = [worker EXCEPT ![w].pc = "sent"] /\ worker[w].pc = "sending"
         /\ worker[w].job \in accepted'
      \/ worker' = [worker EXCEPT ![w].pc = "refused"] /\ worker[w].pc = "sending"
  BY DEF AbandonClaim, NothingToVerify, TransportAccepts, TransportFails, Crash, At
<1>4. worker'[w].pc # "locked" /\ \A v \in Workers \ {w} : worker'[v] = worker[v]
  BY <1>2, <1>3 DEF Worker, IdleWorker
<1>5. worker'[w].pc # "idle" =>
         /\ worker'[w].job = worker[w].job /\ worker'[w].attempts = worker[w].attempts
         /\ worker'[w].lease = worker[w].lease /\ worker'[w].token = worker[w].token
         /\ \/ /\ worker[w].pc = "sending" /\ worker'[w].pc \in {"sent", "refused"}
               /\ worker'[w].pc = "sent" => worker[w].job \in accepted'
            \/ worker[w].pc = "locked" /\ worker'[w].pc = "moot" /\ AlreadyVerified(w)
  BY <1>2, <1>3 DEF Worker, IdleWorker
<1>6. \A v \in Workers, u \in Users :
        worker'[v].pc = "locked" /\ userLock[u] = v => userLock'[u] = v
  BY <1>1, <1>4 DEF Release
<1> QED BY <1>1, <1>4, <1>5, <1>6, SameTokensLive DEF Steady

LEMMA OthersSteady ==
    ASSUME TypeOK, [Next]_vars,
           \A u \in Users : ~RequestStep(u),
           \A w \in Workers : ~WorkerStep(w) /\ ~Crash(w),
           \A c \in Clients : ~ConfirmReset(c)
    PROVE  Steady
<1>1. LiveShrinks
  BY OnlyIssueRevives DEF WorkerStep
<1>2. UNCHANGED <<jobs, jobCount, tokenCount, worker, userLock, accepted>> /\ verified \subseteq verified'
  BY DEF Next, ClientStep, LookUp, ConfirmVerification, RejectConfirmation, Tick, vars,
         jobVars, tokenVars, mailVars
<1> QED BY <1>1, <1>2 DEF Steady

LEMMA StepCases ==
    ASSUME TypeOK, [Next]_vars
    PROVE  \/ \E u, k, kind : Enqueues(u, k, kind)
           \/ \E w \in Workers, j \in JobId : TakeLease(w, j)
           \/ \E w \in Workers : LockUser(w)
           \/ \E w \in Workers : IssueToken(w)
           \/ \E w \in Workers : \E row : EndsWell(w, row)
           \/ Steady
<1>1. ASSUME NEW u \in Users, RequestStep(u) PROVE \E v, k, kind : Enqueues(v, k, kind)
  BY <1>1, RequestEnqueues
<1>2. ASSUME NEW c \in Clients, ConfirmReset(c) PROVE \E v, k, kind : Enqueues(v, k, kind)
  BY <1>2, ConfirmResetEnqueues
<1>3. ASSUME NEW w \in Workers, WorkerStep(w) \/ Crash(w)
      PROVE  \/ \E j \in JobId : TakeLease(w, j)
             \/ LockUser(w) \/ IssueToken(w) \/ Steady
             \/ \E row : EndsWell(w, row)
  BY <1>3, WorkerSteady, EndCases DEF WorkerStep, ClaimNext, ClaimInline
<1>4. CASE /\ \A u \in Users : ~RequestStep(u)
           /\ \A w \in Workers : ~WorkerStep(w) /\ ~Crash(w)
           /\ \A c \in Clients : ~ConfirmReset(c)
  BY <1>4, OthersSteady
<1> QED BY <1>1, <1>2, <1>3, <1>4

-----------------------------------------------------------------------------
(* Closed jobs stay closed.                                                *)

LEMMA ChallengeKinds ==
    /\ Changed \notin Challenges /\ Verification \in Challenges /\ Reset \in Challenges
    /\ Verification # Reset
  BY DEF Challenges, Verification, Reset, Changed

KeepsClosed(j) ==
    /\ jobs[j].status \in {"completed", "cancelled"} => jobs'[j] = jobs[j]
    /\ jobs'[j].attempts >= jobs[j].attempts

LEMMA StepKeepsClosed ==
    ASSUME TypeOK, [Next]_vars, NEW j \in JobId
    PROVE  KeepsClosed(j)
<1>1. JobsTyped /\ jobs[j].attempts \in Nat
  BY TypesOfJobs DEF JobsTyped, Job
<1>2. ASSUME NEW u, NEW k, NEW kind, Enqueues(u, k, kind) PROVE KeepsClosed(j)
  <2>1. CASE j = jobCount + 1
    <3>1. jobs[j] = UnusedJob
      BY <1>1, <2>1 DEF TypeOK, JobsOK, JobsTyped
    <3> QED BY <1>2, <2>1, <3>1 DEF KeepsClosed, Enqueues, Supersedes, UnusedJob
  <2>2. CASE j # jobCount + 1
    BY <1>1, <1>2, <2>2 DEF KeepsClosed, Enqueues, Supersedes
  <2> QED BY <2>1, <2>2
<1>3. ASSUME NEW w \in Workers, NEW l \in JobId, TakeLease(w, l) PROVE KeepsClosed(j)
  BY <1>1, <1>3, LeaseRow DEF KeepsClosed, Open
<1>4. ASSUME NEW w \in Workers, NEW row, EndsWell(w, row) PROVE KeepsClosed(j)
  BY <1>1, <1>4 DEF KeepsClosed, EndsWell, Ends, HoldsLease, JobOf
<1>5. CASE jobs' = jobs
  BY <1>1, <1>5 DEF KeepsClosed
<1> QED BY <1>2, <1>3, <1>4, <1>5, StepCases DEF LockUser, IssueToken, Steady, jobVars

\* A job that was completed or cancelled is never written again, and attempts
\* never shrink, whatever late workers do (claim_security_email_job,
\* _transition_claim and cancel_security_email_jobs test completed_at and
\* cancelled_at in their WHERE).
THEOREM ClosedForever == Spec => ClosedStaysClosed
<1>1. ASSUME TypeOK, [Next]_vars
      PROVE  \A j \in JobId :
               /\ jobs[j].status \in {"completed", "cancelled"} => jobs'[j] = jobs[j]
               /\ jobs'[j].attempts >= jobs[j].attempts
  BY <1>1, StepKeepsClosed DEF KeepsClosed
<1> QED BY <1>1, TypeCorrect, PTL DEF Spec, ClosedStaysClosed

-----------------------------------------------------------------------------
(* What the steps that lock a user row and issue a link do.                *)

LEMMA LockedCall ==
    ASSUME TypeOK, NEW w \in Workers, LockUser(w)
    PROVE  /\ At(w, "claimed") /\ HoldsLease(w) /\ Unlocked(ClaimUser(w))
           /\ worker'[w].pc = IF ClaimKind(w) = Changed THEN "sending" ELSE "locked"
           /\ worker'[w].job = worker[w].job /\ worker'[w].attempts = worker[w].attempts
           /\ worker'[w].lease = worker[w].lease /\ worker'[w].token = worker[w].token
           /\ \A v \in Workers \ {w} : worker'[v] = worker[v]
           /\ userLock' = [userLock EXCEPT ![ClaimUser(w)] = w]
           /\ UNCHANGED <<now, verified, jobs, jobCount, tokens, tokenCount, accepted>>
<1>1. worker \in [Workers -> Worker]
  BY DEF TypeOK, WorkersOK
<1>2. PICK pc : pc = IF ClaimKind(w) = Changed THEN "sending" ELSE "locked"
  OBVIOUS
<1>3. worker' = [worker EXCEPT ![w].pc = pc]
  BY <1>2 DEF LockUser
<1>4. /\ worker'[w].pc = pc
      /\ worker'[w].job = worker[w].job /\ worker'[w].attempts = worker[w].attempts
      /\ worker'[w].lease = worker[w].lease /\ worker'[w].token = worker[w].token
      /\ \A v \in Workers \ {w} : worker'[v] = worker[v]
  BY <1>1, <1>3 DEF Worker
<1> QED BY <1>2, <1>4 DEF LockUser, jobVars, tokenVars, mailVars

LEMMA IssuedLink ==
    ASSUME TypeOK, NEW w \in Workers, IssueToken(w)
    PROVE  /\ At(w, "locked") /\ ~AlreadyVerified(w) /\ tokenCount + 1 \in TokenId
           /\ worker'[w].pc = "sending" /\ worker'[w].token = tokenCount + 1
           /\ worker'[w].job = worker[w].job /\ worker'[w].attempts = worker[w].attempts
           /\ worker'[w].lease = worker[w].lease
           /\ \A v \in Workers \ {w} : worker'[v] = worker[v]
           /\ userLock' = Release(w)
           /\ tokens'[tokenCount + 1].user = ClaimUser(w)
           /\ tokens'[tokenCount + 1].purpose = ClaimKind(w)
           /\ tokens'[tokenCount + 1].job = worker[w].job
           /\ \A t \in TokenId \ {tokenCount + 1} : Live(t)' =>
                /\ Live(t)
                /\ tokens'[t].user = tokens[t].user
                /\ tokens'[t].purpose = tokens[t].purpose
                /\ tokens'[t].job = tokens[t].job
                /\ ~(tokens[t].user = ClaimUser(w) /\ tokens[t].purpose = ClaimKind(w))
           /\ UNCHANGED <<now, verified, jobs, jobCount, accepted>>
<1> DEFINE u == ClaimUser(w)
           kind == ClaimKind(w)
           n == tokenCount + 1
           old == Invalidate(u, kind)
<1>0. tokens \in [TokenId -> Token] /\ n \in TokenId /\ worker \in [Workers -> Worker]
  BY LinkRoom DEF TypeOK, WorkersOK
<1>1. PICK row : row = [user |-> u, purpose |-> kind, expiresAt |-> now + TokenLife[kind],
                        consumed |-> FALSE, invalidated |-> FALSE, job |-> worker[w].job]
  OBVIOUS
<1>2. row.user = u /\ row.purpose = kind /\ row.job = worker[w].job
  BY <1>1
<1>3. tokens' = [old EXCEPT ![n] = row]
  BY <1>1 DEF IssueToken
<1>4. tokens'[n] = row /\ \A t \in TokenId \ {n} : tokens'[t] = old[t]
  BY <1>0, <1>3 DEF Invalidate
<1>5. ASSUME NEW t \in TokenId \ {n}, Live(t)'
      PROVE  /\ Live(t) /\ tokens'[t] = tokens[t]
             /\ ~(tokens[t].user = u /\ tokens[t].purpose = kind)
  <2>1. tokens[t] \in Token /\ tokens'[t] = old[t]
    BY <1>0, <1>4
  <2> HIDE DEF u, kind, n
  <2> QED BY <1>5, <2>1 DEF Invalidate, Live, Token
<1>6. worker' = [worker EXCEPT ![w] = [[worker[w] EXCEPT !.pc = "sending"] EXCEPT !.token = n]]
  BY <1>0 DEF IssueToken
<1>7. /\ worker'[w].pc = "sending" /\ worker'[w].token = n
      /\ worker'[w].job = worker[w].job /\ worker'[w].attempts = worker[w].attempts
      /\ worker'[w].lease = worker[w].lease
      /\ \A v \in Workers \ {w} : worker'[v] = worker[v]
  BY <1>0, <1>6 DEF Worker
<1> HIDE DEF old
<1> QED BY <1>0, <1>2, <1>4, <1>5, <1>7 DEF IssueToken, jobVars, mailVars

-----------------------------------------------------------------------------
(* A verified address has no live verification link.                       *)

LEMMA ConfirmVerificationLinks ==
    ASSUME TypeOK, NEW c \in Clients, ConfirmVerification(c)
    PROVE  \E u : /\ verified' = verified \union {u}
                  /\ \A t \in TokenId : Live(t)' =>
                       ~(tokens[t].user = u /\ tokens[t].purpose = Verification)
<1>1. PICK t : t = client[c]
  OBVIOUS
<1>2. PICK u : u = tokens[t].user
  OBVIOUS
<1>3. t \in TokenId /\ tokens \in [TokenId -> Token]
  BY <1>1 DEF ConfirmVerification, ClaimToken, TypeOK, MailOK, TokensOK
<1>4. PICK row : row = [tokens[t] EXCEPT !.consumed = TRUE]
  OBVIOUS
<1>5. verified' = verified \union {u} /\ tokens' = [Invalidate(u, Verification) EXCEPT ![t] = row]
  BY <1>1, <1>2, <1>4 DEF ConfirmVerification
<1>6. row.consumed = TRUE
  BY <1>3, <1>4 DEF Token
<1>7. ASSUME NEW s \in TokenId, Live(s)', tokens[s].user = u, tokens[s].purpose = Verification
      PROVE  FALSE
  <2>1. s # t
    BY <1>3, <1>5, <1>6, <1>7 DEF Live, Invalidate
  <2>2. tokens'[s] = Invalidate(u, Verification)[s] /\ tokens[s] \in Token
    BY <1>3, <1>5, <2>1 DEF Invalidate
  <2> QED BY <1>7, <2>2 DEF Live, Invalidate, Token
<1> QED BY <1>5, <1>7

LEMMA NoLinkStep ==
    ASSUME TypeOK, VerifiedInv, [Next]_vars
    PROVE  VerifiedNeedsNoLink'
<1>1. ASSUME NEW w \in Workers, IssueToken(w) PROVE VerifiedNeedsNoLink'
  BY <1>1, IssuedLink DEF VerifiedInv, VerifiedNeedsNoLink, AlreadyVerified
<1>2. CASE LiveShrinks /\ verified' = verified
  BY <1>2 DEF VerifiedInv, VerifiedNeedsNoLink, LiveShrinks
<1>3. ASSUME NEW c \in Clients, ConfirmVerification(c) \/ ConfirmReset(c), LiveShrinks
      PROVE  VerifiedNeedsNoLink'
  <2>1. PICK u : /\ verified' = verified \union {u}
                 /\ \A t \in TokenId : Live(t)' =>
                      ~(tokens[t].user = u /\ tokens[t].purpose = Verification)
    BY <1>3, ConfirmVerificationLinks, ConfirmResetEnqueues
  <2> QED BY <1>3, <2>1 DEF VerifiedInv, VerifiedNeedsNoLink, LiveShrinks
<1>4. CASE \A w \in Workers : ~IssueToken(w)
  <2>1. LiveShrinks
    BY <1>4, OnlyIssueRevives
  <2>2. \/ verified' = verified
        \/ \E c \in Clients : ConfirmVerification(c) \/ ConfirmReset(c)
    <3>1. ASSUME NEW u \in Users, RequestStep(u) PROVE verified' = verified
      BY <3>1, RequestEnqueues
    <3>2. ASSUME NEW w \in Workers, WorkerStep(w) \/ Crash(w) PROVE verified' = verified
      BY <3>2, <1>4 DEF WorkerStep, Crash, ClaimNext, ClaimInline, TakeLease, LockUser,
         AbandonClaim, NothingToVerify, TransportAccepts, TransportFails, FinishDelivery,
         CancelDelivery, RescheduleFailure, TransitionClaim
    <3> QED BY <3>1, <3>2 DEF Next, ClientStep, LookUp, RejectConfirmation, Tick, vars
  <2> QED BY <1>2, <1>3, <2>1, <2>2
<1> QED BY <1>1, <1>4

LEMMA MootStep ==
    ASSUME TypeOK, MootIsVerified, [Next]_vars
    PROVE  MootIsVerified'
<1> SUFFICES ASSUME NEW w \in Workers, worker'[w].pc = "moot" PROVE AlreadyVerified(w)'
  BY DEF MootIsVerified, At
<1>0. JobsTyped /\ worker \in [Workers -> Worker]
  BY TypesOfJobs DEF TypeOK, WorkersOK
<1>1. CASE Steady
  <2>1. AlreadyVerified(w) /\ worker'[w].job = worker[w].job
    BY <1>1 DEF Steady, MootIsVerified, At
  <2> QED BY <1>1, <2>1 DEF Steady, AlreadyVerified, ClaimKind, ClaimUser, JobOf
<1>2. CASE ~Steady
  <2>1. /\ worker'[w] = worker[w] /\ verified \subseteq verified'
        /\ \A j \in 1 .. jobCount : jobs'[j].user = jobs[j].user /\ jobs'[j].kind = jobs[j].kind
    <3>1. ASSUME NEW u, NEW k, NEW kind, Enqueues(u, k, kind)
          PROVE  /\ worker'[w] = worker[w] /\ verified \subseteq verified'
                 /\ \A j \in 1 .. jobCount : jobs'[j].user = jobs[j].user /\ jobs'[j].kind = jobs[j].kind
      <4>1. \A j \in 1 .. jobCount : j \in JobId \ {jobCount + 1}
        BY <1>0, <3>1 DEF JobsTyped, Enqueues, Supersedes, JobId
      <4> QED BY <3>1, <4>1 DEF Enqueues, Supersedes
    <3>2. \A j \in 1 .. jobCount : j \in JobId
      BY DEF TypeOK, JobsOK, JobId
    <3>3. ASSUME NEW v \in Workers, NEW j \in JobId, TakeLease(v, j)
          PROVE  /\ worker'[w] = worker[w] /\ verified \subseteq verified'
                 /\ \A l \in 1 .. jobCount : jobs'[l].user = jobs[l].user /\ jobs'[l].kind = jobs[l].kind
      BY <3>2, <3>3, LeaseRow
    <3>4. ASSUME NEW v \in Workers, LockUser(v) \/ IssueToken(v)
          PROVE  worker'[w] = worker[w] /\ verified' = verified /\ jobs' = jobs
      BY <3>4, LockedCall, IssuedLink
    <3>5. ASSUME NEW v \in Workers, NEW row, EndsWell(v, row)
          PROVE  /\ worker'[w] = worker[w] /\ verified' = verified
                 /\ \A l \in 1 .. jobCount : jobs'[l].user = jobs[l].user /\ jobs'[l].kind = jobs[l].kind
      BY <1>0, <3>2, <3>5 DEF EndsWell, Ends, JobOf, IdleWorker
    <3> QED BY <1>2, <3>1, <3>3, <3>4, <3>5, StepCases
  <2>2. worker[w].job \in 1 .. jobCount /\ AlreadyVerified(w)
    BY <2>1 DEF TypeOK, WorkersOK, MootIsVerified, At
  <2> QED BY <2>1, <2>2 DEF AlreadyVerified, ClaimKind, ClaimUser, JobOf
<1> QED BY <1>1, <1>2

LEMMA NextVerifiedInv == TypeOK /\ VerifiedInv /\ [Next]_vars => VerifiedInv'
  BY NoLinkStep, MootStep DEF VerifiedInv

LEMMA InitVerifiedInv == Init => VerifiedInv
  BY ChallengeKinds DEF Init, VerifiedInv, VerifiedNeedsNoLink, MootIsVerified, Live, At,
     UnusedToken, IdleWorker, Kinds

LEMMA VerifiedInvariant == Spec => []VerifiedInv
  BY InitVerifiedInv, NextVerifiedInv, TypeCorrect, PTL DEF Spec

\* As soon as an address is verified, by whichever link, no verification link
\* of the account is live any more, and none is issued by a worker that leased
\* its job before (confirm_email_verification, issue_account_token).
THEOREM VerifiedHasNoLink == Spec => []VerifiedNeedsNoLink
<1>1. VerifiedInv => VerifiedNeedsNoLink
  BY DEF VerifiedInv
<1> QED BY <1>1, VerifiedInvariant, PTL

-----------------------------------------------------------------------------
(* Notices are delivered or tried as often as configured.                  *)

LEMMA ClaimsStep ==
    ASSUME TypeOK, ClaimsAreBehind, [Next]_vars
    PROVE  ClaimsAreBehind'
<1>0. JobsTyped /\ worker \in [Workers -> Worker] /\ \A j \in 1 .. jobCount : j \in JobId
  BY TypesOfJobs DEF TypeOK, WorkersOK, JobsOK, JobId
<1>1. SUFFICES ASSUME NEW w \in Workers, worker'[w].pc # "idle"
               PROVE  /\ worker'[w].pc = "sent" => worker'[w].job \in accepted'
                      /\ worker'[w].attempts <= jobs'[worker'[w].job].attempts
  BY DEF ClaimsAreBehind, At, JobOf
<1>2. accepted \subseteq accepted' /\ \A j \in JobId : jobs'[j].attempts >= jobs[j].attempts
  <2>1. accepted \subseteq accepted'
    BY StepCases, LeaseRow, LockedCall, IssuedLink DEF Enqueues, EndsWell, Ends, Steady
  <2> QED BY <2>1, StepKeepsClosed DEF KeepsClosed
<1>3. ASSUME worker[w].pc # "idle", worker'[w].job = worker[w].job,
             worker'[w].attempts = worker[w].attempts,
             worker'[w].pc = "sent" => worker[w].pc = "sent" \/ worker[w].job \in accepted'
      PROVE  /\ worker'[w].pc = "sent" => worker'[w].job \in accepted'
             /\ worker'[w].attempts <= jobs'[worker'[w].job].attempts
  <2>1. worker[w].job \in JobId /\ jobs[worker[w].job] \in Job /\ worker[w] \in Worker
    BY <1>0, <1>3, ClaimedJob DEF At, JobOf
  <2>2. /\ worker[w].attempts \in Nat /\ jobs[worker[w].job].attempts \in Nat
        /\ jobs'[worker[w].job].attempts >= jobs[worker[w].job].attempts
        /\ jobs'[worker[w].job].attempts \in Nat
        /\ worker[w].attempts <= jobs[worker[w].job].attempts
    <3>1. TypeOK'
      BY NextTypeOK
    <3>2. jobs'[worker[w].job] \in Job
      BY <2>1, <3>1 DEF TypeOK, JobsOK
    <3> QED BY <1>2, <1>3, <2>1, <3>2 DEF Job, Worker, ClaimsAreBehind, At, JobOf
  <2> QED BY <1>2, <1>3, <2>1, <2>2 DEF ClaimsAreBehind, At
<1>4. ASSUME NEW v \in Workers, NEW j \in JobId, TakeLease(v, j)
      PROVE  /\ worker'[w].pc = "sent" => worker'[w].job \in accepted'
             /\ worker'[w].attempts <= jobs'[worker'[w].job].attempts
  <2>1. CASE w = v
    <3>1. /\ worker'[w].pc = "claimed" /\ worker'[w].job = j
          /\ worker'[w].attempts = jobs[j].attempts + 1
          /\ jobs'[j].attempts = jobs[j].attempts + 1
      BY <1>4, <2>1, LeaseRow
    <3>2. jobs[j].attempts \in Nat
      BY <1>0 DEF JobsTyped, Job
    <3> QED BY <3>1, <3>2
  <2>2. CASE w # v
    BY <1>1, <1>3, <1>4, <2>2, LeaseRow
  <2> QED BY <2>1, <2>2
<1>5. ASSUME NEW v \in Workers, LockUser(v) \/ IssueToken(v)
      PROVE  /\ worker'[w].pc = "sent" => worker'[w].job \in accepted'
             /\ worker'[w].attempts <= jobs'[worker'[w].job].attempts
  <2>1. worker[v].pc # "idle" /\ worker'[v].pc # "sent"
    BY <1>5, LockedCall, IssuedLink DEF At
  <2>2. worker'[w].job = worker[w].job /\ worker'[w].attempts = worker[w].attempts
    BY <1>5, LockedCall, IssuedLink
  <2>3. w # v => worker'[w] = worker[w]
    BY <1>5, LockedCall, IssuedLink
  <2> QED BY <1>1, <1>3, <2>1, <2>2, <2>3
<1>6. ASSUME NEW v \in Workers, NEW row, EndsWell(v, row)
      PROVE  /\ worker'[w].pc = "sent" => worker'[w].job \in accepted'
             /\ worker'[w].attempts <= jobs'[worker'[w].job].attempts
  BY <1>0, <1>1, <1>3, <1>6 DEF EndsWell, Ends, IdleWorker
<1>7. ASSUME NEW u, NEW k, NEW kind, Enqueues(u, k, kind)
      PROVE  /\ worker'[w].pc = "sent" => worker'[w].job \in accepted'
             /\ worker'[w].attempts <= jobs'[worker'[w].job].attempts
  BY <1>1, <1>3, <1>7 DEF Enqueues
<1>8. ASSUME Steady
      PROVE  /\ worker'[w].pc = "sent" => worker'[w].job \in accepted'
             /\ worker'[w].attempts <= jobs'[worker'[w].job].attempts
  BY <1>1, <1>3, <1>8 DEF Steady
<1> QED BY <1>4, <1>5, <1>6, <1>7, <1>8, StepCases

LEMMA NoticeStep ==
    ASSUME TypeOK, MootIsVerified, NoticeInv, [Next]_vars
    PROVE  NoticeNotLost'
<1>0. JobsTyped
  BY TypesOfJobs
<1>1. SUFFICES ASSUME NEW j \in JobId
               PROVE  /\ jobs'[j].status = "completed" => j \in accepted'
                      /\ jobs'[j].kind = Changed /\ jobs'[j].status = "cancelled"
                         => jobs'[j].attempts >= MaxAttempts
  BY DEF NoticeNotLost
<1>2. ASSUME jobs'[j] = jobs[j], accepted \subseteq accepted'
      PROVE  /\ jobs'[j].status = "completed" => j \in accepted'
             /\ jobs'[j].kind = Changed /\ jobs'[j].status = "cancelled"
                => jobs'[j].attempts >= MaxAttempts
  BY <1>2 DEF NoticeInv, NoticeNotLost
<1>3. ASSUME NEW u, NEW k, NEW kind, Enqueues(u, k, kind)
      PROVE  /\ jobs'[j].status = "completed" => j \in accepted'
             /\ jobs'[j].kind = Changed /\ jobs'[j].status = "cancelled"
                => jobs'[j].attempts >= MaxAttempts
  <2>1. CASE j = jobCount + 1
    BY <1>3, <2>1 DEF Enqueues, Supersedes
  <2>2. CASE j # jobCount + 1
    BY <1>2, <1>3, <2>2, ChallengeKinds DEF Enqueues, Supersedes
  <2> QED BY <2>1, <2>2
<1>4. ASSUME NEW w \in Workers, NEW l \in JobId, TakeLease(w, l)
      PROVE  /\ jobs'[j].status = "completed" => j \in accepted'
             /\ jobs'[j].kind = Changed /\ jobs'[j].status = "cancelled"
                => jobs'[j].attempts >= MaxAttempts
  BY <1>2, <1>4, LeaseRow
<1>5. ASSUME NEW w \in Workers, NEW row, EndsWell(w, row)
      PROVE  /\ jobs'[j].status = "completed" => j \in accepted'
             /\ jobs'[j].kind = Changed /\ jobs'[j].status = "cancelled"
                => jobs'[j].attempts >= MaxAttempts
  <2>1. accepted' = accepted /\ ~At(w, "idle")
    BY <1>5 DEF EndsWell, Ends
  <2>2. CASE jobs'[j] = jobs[j]
    BY <1>2, <2>1, <2>2
  <2>3. CASE jobs'[j] # jobs[j]
    <3>1. /\ j = worker[w].job /\ HoldsLease(w) /\ jobs'[j] = row
          /\ row.kind = jobs[j].kind /\ row.attempts = jobs[j].attempts
          /\ jobs[j].status = "open"
      BY <1>5, <2>3 DEF EndsWell, Ends, JobOf, HoldsLease
    <3>2. CASE At(w, "sent") /\ row.status = "completed"
      BY <2>1, <3>1, <3>2 DEF NoticeInv, ClaimsAreBehind
    <3>3. CASE At(w, "moot")
      <4>1. jobs[j].kind = Verification /\ row.status = "cancelled"
        BY <1>5, <3>1, <3>3 DEF MootIsVerified, AlreadyVerified, ClaimKind, JobOf, EndsWell, At
      <4> QED BY <3>1, <4>1, ChallengeKinds
    <3>4. CASE At(w, "refused")
      <4>1. row.status \in {"open", "cancelled"}
            /\ (row.status = "cancelled" => worker[w].attempts >= MaxAttempts)
        BY <1>5, <3>1, <3>4 DEF EndsWell, At, JobOf
      <4>2. worker[w].attempts <= jobs[j].attempts
        BY <2>1, <3>1 DEF NoticeInv, ClaimsAreBehind, JobOf
      <4>3. worker[w].attempts \in Nat /\ jobs[j].attempts \in Nat
        BY <1>0, <2>1, ClaimedJob DEF JobsTyped, Job, Worker
      <4> QED BY <3>1, <4>1, <4>2, <4>3
    <3> QED BY <1>5, <3>2, <3>3, <3>4 DEF EndsWell
  <2> QED BY <2>2, <2>3
<1>6. ASSUME NEW w \in Workers, LockUser(w) \/ IssueToken(w)
      PROVE  jobs' = jobs /\ accepted' = accepted
  BY <1>6, LockedCall, IssuedLink
<1> QED BY <1>2, <1>3, <1>4, <1>5, <1>6, StepCases DEF Steady

LEMMA NextNoticeInv == TypeOK /\ VerifiedInv /\ NoticeInv /\ [Next]_vars => NoticeInv'
  BY ClaimsStep, NoticeStep DEF NoticeInv, VerifiedInv

LEMMA InitNoticeInv == Init => NoticeInv
  BY DEF Init, NoticeInv, NoticeNotLost, ClaimsAreBehind, At, UnusedJob, IdleWorker

\* A job is closed as completed only after some call handed its message to the
\* transport, and a password-change notice is only given up once its attempts
\* are exhausted: neither superseding requests nor late workers lose it.
THEOREM NoticesAreNotLost == Spec => []NoticeNotLost
<1>1. NoticeInv => NoticeNotLost
  BY DEF NoticeInv
<1> QED BY <1>1, InitNoticeInv, NextNoticeInv, VerifiedInvariant, TypeCorrect, PTL DEF Spec

-----------------------------------------------------------------------------
(* Live links are current.                                                 *)

\* Jobs close or are added, links die, and no call is newly locked.
LEMMA LockedIsNotSuperseded ==
    ASSUME LinkInv, NEW w \in Workers, At(w, "locked"), NEW u, Unlocked(u), None \notin Workers
    PROVE  ClaimUser(w) # u
  BY DEF LinkInv, LockedIsOpen, Unlocked

LEMMA EnqueueLinkInv ==
    ASSUME TypeOK, LinkInv, NEW u, NEW k, NEW kind, Enqueues(u, k, kind)
    PROVE  LinkInv'
<1> DEFINE n == jobCount + 1
<1>0. JobsTyped /\ n \in JobId /\ k \in Challenges /\ (kind = k \/ (kind = Changed /\ k = Reset))
      /\ \A j \in JobId : j # n => jobs'[j].user = jobs[j].user /\ jobs'[j].kind = jobs[j].kind
  BY TypesOfJobs DEF Enqueues, Supersedes
<1>1. jobs'[n].user = u /\ jobs'[n].kind = kind
  BY DEF Enqueues, Supersedes
<1>2. \A j \in JobId \ {n} : jobs'[j].status = "open" =>
         jobs'[j] = jobs[j] /\ ~(jobs[j].user = u /\ jobs[j].kind = k)
  BY DEF Enqueues, Supersedes
<1>3. \A j \in 1 .. jobCount : j \in JobId /\ j # n /\ j < n
  BY <1>0 DEF JobsTyped, JobId
<1>4. \A j \in JobId \ {n} : j < n \/ jobs[j] = UnusedJob
  BY <1>0 DEF TypeOK, JobsOK, JobsTyped, JobId
<1>5. \A t \in TokenId : Live(t)' =>
         /\ Live(t) /\ tokens[t].job \in 1 .. jobCount
         /\ tokens'[t].job = tokens[t].job /\ tokens'[t].user = tokens[t].user
         /\ tokens'[t].purpose = tokens[t].purpose
         /\ ~(tokens[t].user = u /\ tokens[t].purpose = k)
         /\ tokens[t].user = jobs[tokens[t].job].user
         /\ tokens[t].purpose = jobs[tokens[t].job].kind
  <2>1. ASSUME NEW t \in TokenId, Live(t) PROVE t <= tokenCount
    BY <2>1, ChallengeKinds DEF TypeOK, TokensOK, Live, UnusedToken, Kinds
  <2> QED BY <2>1 DEF Enqueues, LiveShrinks, TypeOK, TokensOK
<1>6. OpenIsNewest'
  <2> SUFFICES ASSUME NEW j \in JobId, NEW l \in JobId, jobs'[j].status = "open",
                      jobs'[j].kind \in Challenges,
                      jobs'[l].user = jobs'[j].user, jobs'[l].kind = jobs'[j].kind
               PROVE  l <= j
    BY DEF OpenIsNewest, Open
  <2>1. CASE j = n
    BY <1>0, <1>4, <2>1 DEF JobId, UnusedJob, Kinds
  <2>2. CASE j # n /\ l # n
    BY <1>0, <1>2, <2>2 DEF LinkInv, OpenIsNewest, Open
  <2>3. CASE j # n /\ l = n
    BY <1>0, <1>1, <1>2, <2>3, ChallengeKinds
  <2> QED BY <2>1, <2>2, <2>3
<1>7. LockedIsOpen'
  <2> SUFFICES ASSUME NEW w \in Workers, worker[w].pc = "locked"
               PROVE  /\ userLock[jobs'[worker[w].job].user] = w
                      /\ jobs'[worker[w].job].status = "open"
                      /\ \A v \in Workers \ {w} :
                           /\ worker[v].pc # "idle" /\ worker[v].job = worker[w].job
                           /\ jobs'[worker[v].job].status = "open"
                           /\ jobs'[worker[v].job].lease = worker[v].lease
                           => worker[v].pc = "claimed"
    BY DEF LockedIsOpen, Enqueues, At, ClaimUser, HoldsLease, JobOf, Open
  <2>1. worker[w].job \in JobId \ {n} /\ ClaimUser(w) # u /\ Open(worker[w].job)
        /\ userLock[ClaimUser(w)] = w
    BY <1>3, ClaimedJob, LockedIsNotSuperseded DEF At, Enqueues, LinkInv, LockedIsOpen
  <2>2. jobs'[worker[w].job] = jobs[worker[w].job]
    BY <2>1 DEF Enqueues, Supersedes, ClaimUser, JobOf
  <2> QED BY <2>1, <2>2 DEF LinkInv, LockedIsOpen, At, HoldsLease, JobOf, Open, ClaimUser
<1>8. OwnLink'
  <2> SUFFICES ASSUME NEW w \in Workers, NEW t \in TokenId, Delivering(w),
                      jobs'[worker[w].job].status = "open",
                      jobs'[worker[w].job].lease = worker[w].lease,
                      Live(t)', tokens'[t].job = worker[w].job
               PROVE  t = worker[w].token
    BY DEF OwnLink, Enqueues, Delivering, HoldsLease, JobOf
  <2>1. worker[w].job \in JobId \ {n}
    BY <1>3, <1>5
  <2> QED BY <1>2, <1>5, <2>1 DEF LinkInv, OwnLink, HoldsLease, JobOf
<1>9. LiveLinkIsCurrent'
  <2> SUFFICES ASSUME NEW t \in TokenId, Live(t)'
               PROVE  /\ jobs'[tokens'[t].job].status # "cancelled"
                      /\ \A l \in JobId : jobs'[l].user = tokens'[t].user
                                          /\ jobs'[l].kind = tokens'[t].purpose => l <= tokens'[t].job
    BY DEF LiveLinkIsCurrent
  <2>1. tokens[t].job \in JobId \ {n} /\ Live(t)
    BY <1>3, <1>5
  <2>2. jobs'[tokens[t].job].status # "cancelled"
    <3>1. jobs[tokens[t].job].status # "cancelled"
      BY <2>1 DEF LinkInv, LiveLinkIsCurrent
    <3> QED BY <1>5, <2>1, <3>1 DEF Enqueues, Supersedes
  <2>3. tokens[t].purpose \in Challenges
    BY <2>1 DEF Live
  <2>4. ASSUME NEW l \in JobId, jobs'[l].user = tokens[t].user, jobs'[l].kind = tokens[t].purpose
        PROVE  l <= tokens[t].job
    <3>1. l # n
      BY <1>0, <1>1, <1>5, <2>3, <2>4, ChallengeKinds
    <3> QED BY <1>0, <2>1, <2>4, <3>1 DEF LinkInv, LiveLinkIsCurrent
  <2> QED BY <1>5, <2>2, <2>4
<1>10. NoRecoverySurvivesChange'
  <2> SUFFICES ASSUME NEW l \in JobId, jobs'[l].kind = Changed
               PROVE  /\ \A t \in TokenId : Live(t)' /\ tokens'[t].purpose = Reset
                           /\ tokens'[t].user = jobs'[l].user => tokens'[t].job > l
                      /\ \A j \in JobId : jobs'[j].status = "open" /\ jobs'[j].kind = Reset
                           /\ jobs'[j].user = jobs'[l].user => j > l
    BY DEF NoRecoverySurvivesChange, Open
  <2>1. CASE l = n
    <3>1. k = Reset
      BY <1>0, <1>1, <2>1, ChallengeKinds
    <3> QED BY <1>0, <1>1, <1>2, <1>5, <2>1, <3>1, ChallengeKinds
  <2>2. CASE l # n
    <3>1. l < n
      BY <1>0, <1>4, <2>2 DEF UnusedJob, Kinds
    <3>2. \A t \in TokenId : Live(t)' /\ tokens'[t].purpose = Reset
                           /\ tokens'[t].user = jobs'[l].user => tokens'[t].job > l
      BY <1>0, <1>5, <2>2 DEF LinkInv, NoRecoverySurvivesChange
    <3>3. ASSUME NEW j \in JobId, jobs'[j].status = "open", jobs'[j].kind = Reset,
                 jobs'[j].user = jobs'[l].user
          PROVE  j > l
      <4>1. CASE j = n
        BY <1>0, <3>1, <4>1 DEF JobId
      <4>2. CASE j # n
        BY <1>0, <1>2, <2>2, <3>3, <4>2 DEF LinkInv, NoRecoverySurvivesChange, Open
      <4> QED BY <4>1, <4>2
    <3> QED BY <3>2, <3>3
  <2> QED BY <2>1, <2>2
<1> QED BY <1>6, <1>7, <1>8, <1>9, <1>10 DEF LinkInv

\* A live link belongs to a row, with the account and the kind of its job.
LEMMA LinkRow ==
    ASSUME TypeOK, NEW t \in TokenId, Live(t)
    PROVE  /\ t <= tokenCount
           /\ tokens[t].job \in JobId
           /\ tokens[t].user = jobs[tokens[t].job].user
           /\ tokens[t].purpose = jobs[tokens[t].job].kind
           /\ tokens[t].purpose \in Challenges
<1>1. t <= tokenCount
  BY ChallengeKinds DEF TypeOK, TokensOK, Live, UnusedToken, Kinds
<1>2. \A j \in 1 .. jobCount : j \in JobId
  BY DEF TypeOK, JobsOK, JobId
<1> QED BY <1>1, <1>2 DEF TypeOK, TokensOK

\* Rows keep their account and kind, and no row opens and no link comes alive.
LEMMA RowsKeptInv ==
    ASSUME TypeOK, LinkInv, LiveShrinks,
           \A j \in JobId : /\ jobs'[j].user = jobs[j].user /\ jobs'[j].kind = jobs[j].kind
                            /\ jobs'[j].status = "open" => jobs[j].status = "open",
           \A t \in TokenId : Live(t)' => jobs'[tokens[t].job].status # "cancelled"
    PROVE  (OpenIsNewest /\ LiveLinkIsCurrent /\ NoRecoverySurvivesChange)'
<1>1. OpenIsNewest'
  BY DEF LinkInv, OpenIsNewest, Open
<1>2. LiveLinkIsCurrent'
  BY DEF LinkInv, LiveLinkIsCurrent, LiveShrinks
<1>3. NoRecoverySurvivesChange'
  BY DEF LinkInv, NoRecoverySurvivesChange, LiveShrinks, Open
<1> QED BY <1>1, <1>2, <1>3

LEMMA TakeLinkInv ==
    ASSUME TypeOK, LeaseInv', LinkInv, NEW w \in Workers, NEW j \in JobId, TakeLease(w, j)
    PROVE  LinkInv'
<1>1. /\ \A k \in JobId : /\ jobs'[k].user = jobs[k].user /\ jobs'[k].kind = jobs[k].kind
                          /\ jobs'[k].status = jobs[k].status
      /\ \A k \in JobId \ {j} : jobs'[k] = jobs[k]
      /\ LiveShrinks /\ userLock' = userLock
  BY LeaseRow, SameTokensLive DEF Open
<1>2. /\ worker'[w].pc = "claimed" /\ worker'[w].job = j
      /\ jobs'[j].status = "open" /\ jobs'[j].lease = worker'[w].lease
      /\ \A v \in Workers \ {w} : worker'[v] = worker[v]
  BY LeaseRow
<1>3. ASSUME NEW v \in Workers \ {w}, worker'[v].pc # "idle",
             jobs'[worker'[v].job].status = "open",
             jobs'[worker'[v].job].lease = worker'[v].lease
      PROVE  worker'[v].job # j
  BY <1>2, <1>3 DEF LeaseInv, LeaseFences, At, HoldsLease, JobOf
<1>4. (OpenIsNewest /\ LiveLinkIsCurrent /\ NoRecoverySurvivesChange)'
  <2>1. \A t \in TokenId : Live(t)' => jobs'[tokens[t].job].status # "cancelled"
    BY <1>1, LinkRow DEF LinkInv, LiveLinkIsCurrent, LiveShrinks
  <2> QED BY <1>1, <2>1, RowsKeptInv
<1>5. LockedIsOpen'
  <2> SUFFICES ASSUME NEW v \in Workers, worker'[v].pc = "locked"
               PROVE  /\ userLock'[jobs'[worker'[v].job].user] = v
                      /\ jobs'[worker'[v].job].status = "open"
                      /\ \A x \in Workers \ {v} :
                           /\ worker'[x].pc # "idle" /\ worker'[x].job = worker'[v].job
                           /\ jobs'[worker'[x].job].status = "open"
                           /\ jobs'[worker'[x].job].lease = worker'[x].lease
                           => worker'[x].pc = "claimed"
    BY DEF LockedIsOpen, At, ClaimUser, HoldsLease, JobOf, Open
  <2>1. worker'[v] = worker[v] /\ worker[v].pc = "locked"
    BY <1>2
  <2>2. worker[v].job \in JobId
    BY <2>1, ClaimedJob DEF At
  <2>3. ASSUME NEW x \in Workers \ {v}, worker'[x].pc # "idle", worker'[x].job = worker'[v].job,
               jobs'[worker'[x].job].status = "open",
               jobs'[worker'[x].job].lease = worker'[x].lease
        PROVE  worker'[x].pc = "claimed"
    <3>1. CASE x = w
      BY <1>2, <3>1
    <3>2. CASE x # w
      <4>1. worker'[x] = worker[x] /\ worker[x].job # j
        BY <1>2, <1>3, <2>3, <3>2
      <4>2. jobs'[worker[x].job] = jobs[worker[x].job]
        BY <1>1, <2>1, <2>2, <2>3, <4>1
      <4> QED BY <2>1, <2>3, <4>1, <4>2 DEF LinkInv, LockedIsOpen, At, HoldsLease, JobOf
    <3> QED BY <3>1, <3>2
  <2> QED BY <1>1, <2>1, <2>2, <2>3 DEF LinkInv, LockedIsOpen, At, Open, ClaimUser, JobOf
<1>6. OwnLink'
  <2> SUFFICES ASSUME NEW v \in Workers, NEW t \in TokenId, Delivering(v)',
                      jobs'[worker'[v].job].status = "open",
                      jobs'[worker'[v].job].lease = worker'[v].lease,
                      Live(t)', tokens'[t].job = worker'[v].job
               PROVE  t = worker'[v].token
    BY DEF OwnLink, HoldsLease, JobOf
  <2>1. v # w /\ worker'[v] = worker[v] /\ worker[v].job # j
    BY <1>2, <1>3 DEF Delivering
  <2>2. Delivering(v) /\ Live(t) /\ tokens[t].job = worker[v].job
    BY <1>1, <2>1 DEF Delivering, LiveShrinks
  <2>3. jobs'[worker[v].job] = jobs[worker[v].job]
    BY <1>1, <2>1, <2>2, LinkRow
  <2> QED BY <2>1, <2>2, <2>3 DEF LinkInv, OwnLink, HoldsLease, JobOf
<1> QED BY <1>4, <1>5, <1>6 DEF LinkInv

LEMMA LockLinkInv ==
    ASSUME TypeOK, LeaseInv, LinkInv, NEW w \in Workers, LockUser(w)
    PROVE  LinkInv'
<1>1. /\ At(w, "claimed") /\ HoldsLease(w) /\ Unlocked(ClaimUser(w))
      /\ worker'[w].pc = (IF ClaimKind(w) = Changed THEN "sending" ELSE "locked")
      /\ worker'[w].job = worker[w].job
      /\ \A v \in Workers : /\ worker'[v].job = worker[v].job /\ worker'[v].lease = worker[v].lease
                            /\ worker'[v].token = worker[v].token
                            /\ v # w => worker'[v] = worker[v]
      /\ jobs' = jobs /\ tokens' = tokens
  BY LockedCall
<1>2. /\ ClaimUser(w) \in Users /\ userLock \in [Users -> Workers \union {None}]
      /\ userLock' = [userLock EXCEPT ![ClaimUser(w)] = w]
  BY <1>1, ClaimedJob, LockedCall DEF At, TypeOK
<1>3. \A t \in TokenId : Live(t)' <=> Live(t)
  BY <1>1 DEF Live
<1>4. (OpenIsNewest /\ LiveLinkIsCurrent /\ NoRecoverySurvivesChange)'
  BY <1>1, <1>3 DEF LinkInv, OpenIsNewest, LiveLinkIsCurrent, NoRecoverySurvivesChange, Open
<1>5. \A v \in Workers : HoldsLease(v)' = HoldsLease(v) /\ ClaimUser(v)' = ClaimUser(v)
  BY <1>1 DEF HoldsLease, JobOf, ClaimUser
<1>6. ASSUME NEW v \in Workers, worker'[v].pc = "locked"
      PROVE  /\ userLock'[ClaimUser(v)] = v
             /\ Open(worker[v].job)
             /\ \A x \in Workers \ {v} :
                  worker'[x].pc # "idle" /\ worker[x].job = worker[v].job /\ HoldsLease(x)
                  => worker'[x].pc = "claimed"
  <2>1. CASE v = w
    <3>1. Open(worker[v].job) /\ userLock'[ClaimUser(v)] = v
      BY <1>1, <1>2, <2>1 DEF HoldsLease, Open, JobOf
    <3>2. \A x \in Workers \ {v} : ~(worker[x].pc # "idle" /\ worker[x].job = worker[v].job /\ HoldsLease(x))
      BY <1>1, <2>1 DEF LeaseInv, LeaseFences, At
    <3> QED BY <1>1, <2>1, <3>1, <3>2
  <2>2. CASE v # w
    <3>1. worker[v].pc = "locked" /\ userLock[ClaimUser(v)] = v /\ Open(worker[v].job)
      BY <1>1, <1>6, <2>2 DEF LinkInv, LockedIsOpen, At
    <3>2. ClaimUser(v) # ClaimUser(w) /\ ClaimUser(v) \in Users
      BY <1>1, <3>1, ClaimedJob DEF Unlocked, At
    <3>3. worker[w].job # worker[v].job
      BY <3>2 DEF ClaimUser, JobOf
    <3>4. userLock'[ClaimUser(v)] = v
      BY <1>2, <3>1, <3>2
    <3> QED BY <1>1, <3>1, <3>3, <3>4 DEF LinkInv, LockedIsOpen, At
  <2> QED BY <2>1, <2>2
<1>7. LockedIsOpen'
  <2>1. \A v \in Workers : At(v, "locked")' =>
          /\ userLock'[ClaimUser(v)'] = v
          /\ jobs'[worker'[v].job].status = "open"
          /\ \A x \in Workers \ {v} :
               ~At(x, "idle")' /\ worker'[x].job = worker'[v].job /\ HoldsLease(x)' => At(x, "claimed")'
    BY <1>1, <1>5, <1>6 DEF At, Open
  <2> QED BY <2>1 DEF LockedIsOpen, Open
<1>8. OwnLink'
  <2> SUFFICES ASSUME NEW v \in Workers, NEW t \in TokenId, worker'[v].pc \in {"sending", "sent", "refused"},
                      HoldsLease(v), Live(t), tokens[t].job = worker[v].job
               PROVE  t = worker[v].token
    BY <1>1, <1>3, <1>5 DEF OwnLink, Delivering
  <2>1. CASE v = w
    BY <1>1, <2>1, LinkRow, ChallengeKinds DEF ClaimKind, JobOf
  <2>2. CASE v # w
    BY <1>1, <2>2 DEF LinkInv, OwnLink, Delivering
  <2> QED BY <2>1, <2>2
<1> QED BY <1>4, <1>7, <1>8 DEF LinkInv

LEMMA IssueLinkInv ==
    ASSUME TypeOK, LinkInv, NEW w \in Workers, IssueToken(w)
    PROVE  LinkInv'
<1> DEFINE n == tokenCount + 1
<1>1. /\ At(w, "locked") /\ n \in TokenId /\ worker'[w].pc = "sending" /\ worker'[w].token = n
      /\ worker'[w].job = worker[w].job /\ worker'[w].lease = worker[w].lease
      /\ \A v \in Workers \ {w} : worker'[v] = worker[v]
      /\ userLock' = Release(w) /\ jobs' = jobs
  BY IssuedLink
<1>2. /\ tokens'[n].user = ClaimUser(w) /\ tokens'[n].purpose = ClaimKind(w)
      /\ tokens'[n].job = worker[w].job
      /\ \A t \in TokenId \ {n} : Live(t)' =>
           /\ Live(t) /\ tokens'[t].job = tokens[t].job
           /\ tokens'[t].user = tokens[t].user /\ tokens'[t].purpose = tokens[t].purpose
           /\ ~(tokens[t].user = ClaimUser(w) /\ tokens[t].purpose = ClaimKind(w))
  BY IssuedLink
<1>3. /\ worker[w].job \in JobId /\ ClaimUser(w) = jobs[worker[w].job].user
      /\ ClaimKind(w) = jobs[worker[w].job].kind /\ ClaimKind(w) \in Challenges
      /\ jobs[worker[w].job].status = "open"
  BY <1>1, ClaimedJob DEF At, ClaimUser, ClaimKind, JobOf, TypeOK, WorkersOK, LinkInv,
     LockedIsOpen, Open
<1>4. ASSUME NEW v \in Workers \ {w}, worker[v].pc # "idle", worker[v].job = worker[w].job,
             HoldsLease(v)
      PROVE  worker[v].pc = "claimed"
  BY <1>1, <1>4 DEF LinkInv, LockedIsOpen, At
<1>5. OpenIsNewest'
  BY <1>1 DEF LinkInv, OpenIsNewest, Open
<1>6. LockedIsOpen'
  <2> SUFFICES ASSUME NEW v \in Workers, worker'[v].pc = "locked"
               PROVE  /\ userLock'[jobs[worker'[v].job].user] = v
                      /\ jobs[worker'[v].job].status = "open"
                      /\ \A x \in Workers \ {v} :
                           /\ worker'[x].pc # "idle" /\ worker'[x].job = worker'[v].job
                           /\ jobs[worker'[x].job].status = "open"
                           /\ jobs[worker'[x].job].lease = worker'[x].lease
                           => worker'[x].pc = "claimed"
    BY <1>1 DEF LockedIsOpen, At, ClaimUser, HoldsLease, JobOf, Open
  <2>1. v # w /\ worker'[v] = worker[v] /\ At(v, "locked")
    BY <1>1 DEF At
  <2>2. userLock[ClaimUser(v)] = v /\ Open(worker[v].job) /\ ClaimUser(v) \in Users
    BY <2>1, ClaimedJob DEF LinkInv, LockedIsOpen, At
  <2>3. userLock'[ClaimUser(v)] = v
    BY <1>1, <2>1, <2>2 DEF Release
  <2>4. worker[w].job # worker[v].job
    BY <1>1, <2>1, <2>2 DEF LinkInv, LockedIsOpen, ClaimUser, JobOf
  <2> QED BY <1>1, <2>1, <2>2, <2>3, <2>4
          DEF LinkInv, LockedIsOpen, At, HoldsLease, JobOf, ClaimUser, Open
<1>7. OwnLink'
  <2> SUFFICES ASSUME NEW v \in Workers, NEW t \in TokenId, Delivering(v)',
                      jobs[worker'[v].job].status = "open",
                      jobs[worker'[v].job].lease = worker'[v].lease,
                      Live(t)', tokens'[t].job = worker'[v].job
               PROVE  t = worker'[v].token
    BY <1>1 DEF OwnLink, HoldsLease, JobOf
  <2>1. CASE v = w
    <3>1. t = n
      BY <1>1, <1>2, <1>3, <2>1, LinkRow
    <3> QED BY <1>1, <2>1, <3>1
  <2>2. CASE v # w
    <3>1. worker'[v] = worker[v] /\ Delivering(v) /\ HoldsLease(v)
      BY <1>1, <2>2 DEF Delivering, HoldsLease, JobOf
    <3>2. worker[v].job # worker[w].job
      BY <1>4, <2>2, <3>1 DEF Delivering
    <3>3. t # n
      BY <1>2, <3>1, <3>2
    <3> QED BY <1>2, <3>1, <3>3 DEF LinkInv, OwnLink
  <2> QED BY <2>1, <2>2
<1>8. LiveLinkIsCurrent'
  <2> SUFFICES ASSUME NEW t \in TokenId, Live(t)'
               PROVE  /\ jobs[tokens'[t].job].status # "cancelled"
                      /\ \A k \in JobId : jobs[k].user = tokens'[t].user
                                          /\ jobs[k].kind = tokens'[t].purpose => k <= tokens'[t].job
    BY <1>1 DEF LiveLinkIsCurrent
  <2>1. CASE t = n
    BY <1>2, <1>3, <2>1 DEF LinkInv, OpenIsNewest, Open
  <2>2. CASE t # n
    BY <1>2, <2>2 DEF LinkInv, LiveLinkIsCurrent
  <2> QED BY <2>1, <2>2
<1>9. NoRecoverySurvivesChange'
  <2> SUFFICES ASSUME NEW k \in JobId, jobs[k].kind = Changed
               PROVE  /\ \A t \in TokenId : Live(t)' /\ tokens'[t].purpose = Reset
                           /\ tokens'[t].user = jobs[k].user => tokens'[t].job > k
                      /\ \A j \in JobId : jobs[j].status = "open" /\ jobs[j].kind = Reset
                           /\ jobs[j].user = jobs[k].user => j > k
    BY <1>1 DEF NoRecoverySurvivesChange, Open
  <2>1. ASSUME NEW t \in TokenId, Live(t)', tokens'[t].purpose = Reset,
               tokens'[t].user = jobs[k].user
        PROVE  tokens'[t].job > k
    <3>1. CASE t = n
      BY <1>2, <1>3, <2>1, <3>1 DEF LinkInv, NoRecoverySurvivesChange, Open
    <3>2. CASE t # n
      BY <1>2, <2>1, <3>2 DEF LinkInv, NoRecoverySurvivesChange
    <3> QED BY <3>1, <3>2
  <2> QED BY <2>1 DEF LinkInv, NoRecoverySurvivesChange, Open
<1> QED BY <1>5, <1>6, <1>7, <1>8, <1>9 DEF LinkInv

LEMMA EndLinkInv ==
    ASSUME TypeOK, VerifiedInv, LinkInv, NEW w \in Workers, NEW row, EndsWell(w, row)
    PROVE  LinkInv'
<1>1. /\ row.user = JobOf(w).user /\ row.kind = JobOf(w).kind /\ row.lease = None
      /\ \A j \in JobId \ {worker[w].job} : jobs'[j] = jobs[j]
      /\ HoldsLease(w) => jobs'[worker[w].job] = row
      /\ ~HoldsLease(w) => jobs'[worker[w].job] = jobs[worker[w].job]
      /\ userLock' = Release(w) /\ LiveShrinks
  BY DEF EndsWell, Ends
<1>2. worker'[w].pc = "idle" /\ \A v \in Workers \ {w} : worker'[v] = worker[v]
  BY DEF EndsWell, Ends, IdleWorker, TypeOK, WorkersOK
<1>3. /\ worker[w].job \in JobId
      /\ worker[w].pc \in {"sent", "moot", "refused"}
  BY ClaimedJob DEF EndsWell, Ends, At
<1>4. ASSUME NEW t \in TokenId, Live(t)'
      PROVE  jobs'[tokens[t].job].status # "cancelled"
  <2>1. Live(t)
    BY <1>1, <1>4 DEF LiveShrinks
  <2>2. jobs[tokens[t].job].status # "cancelled" /\ tokens[t].job \in JobId
    BY <2>1, LinkRow DEF LinkInv, LiveLinkIsCurrent
  <2>3. CASE tokens[t].job = worker[w].job /\ HoldsLease(w)
    <3>1. jobs'[tokens[t].job] = row /\ tokens[t].user = ClaimUser(w) /\ tokens[t].purpose = ClaimKind(w)
      BY <1>1, <2>1, <2>3, LinkRow DEF ClaimUser, ClaimKind, JobOf
    <3>2. CASE At(w, "sent") /\ row.status = "completed"
      BY <3>1, <3>2
    <3>3. ~At(w, "moot")
      BY <2>1, <3>1 DEF VerifiedInv, VerifiedNeedsNoLink, MootIsVerified, AlreadyVerified
    <3>4. CASE At(w, "refused") /\ \A s \in TokenId : Live(s)' => s # worker[w].token
      BY <1>4, <2>1, <2>3, <3>4 DEF LinkInv, OwnLink, Delivering, At
    <3> QED BY <3>2, <3>3, <3>4 DEF EndsWell
  <2>4. CASE ~(tokens[t].job = worker[w].job /\ HoldsLease(w))
    BY <1>1, <2>2, <2>4
  <2> QED BY <2>3, <2>4
<1>5. (OpenIsNewest /\ LiveLinkIsCurrent /\ NoRecoverySurvivesChange)'
  <2>1. \A j \in JobId : /\ jobs'[j].user = jobs[j].user /\ jobs'[j].kind = jobs[j].kind
                         /\ jobs'[j].status = "open" => jobs[j].status = "open"
    BY <1>1 DEF JobOf, HoldsLease
  <2> QED BY <1>1, <1>4, <2>1, RowsKeptInv
<1>6. LockedIsOpen'
  <2> SUFFICES ASSUME NEW v \in Workers, worker'[v].pc = "locked"
               PROVE  /\ userLock'[jobs'[worker'[v].job].user] = v
                      /\ jobs'[worker'[v].job].status = "open"
                      /\ \A x \in Workers \ {v} :
                           /\ worker'[x].pc # "idle" /\ worker'[x].job = worker'[v].job
                           /\ jobs'[worker'[x].job].status = "open"
                           /\ jobs'[worker'[x].job].lease = worker'[x].lease
                           => worker'[x].pc = "claimed"
    BY DEF LockedIsOpen, At, ClaimUser, HoldsLease, JobOf, Open
  <2>1. v # w /\ worker'[v] = worker[v] /\ At(v, "locked")
    BY <1>2 DEF At
  <2>2. /\ userLock[ClaimUser(v)] = v /\ Open(worker[v].job) /\ ClaimUser(v) \in Users
        /\ worker[v].job \in JobId
    BY <2>1, ClaimedJob DEF LinkInv, LockedIsOpen, At
  <2>3. jobs'[worker[v].job] = jobs[worker[v].job]
    BY <1>1, <1>3, <2>1, <2>2 DEF LinkInv, LockedIsOpen, At
  <2>4. userLock'[ClaimUser(v)] = v
    BY <1>1, <2>1, <2>2 DEF Release
  <2> QED BY <1>2, <2>1, <2>2, <2>3, <2>4
          DEF LinkInv, LockedIsOpen, At, HoldsLease, JobOf, ClaimUser, Open
<1>7. OwnLink'
  <2> SUFFICES ASSUME NEW v \in Workers, NEW t \in TokenId, Delivering(v)',
                      jobs'[worker'[v].job].status = "open",
                      jobs'[worker'[v].job].lease = worker'[v].lease,
                      Live(t)', tokens'[t].job = worker'[v].job
               PROVE  t = worker'[v].token
    BY DEF OwnLink, HoldsLease, JobOf
  <2>1. worker'[v] = worker[v] /\ Delivering(v) /\ Live(t) /\ tokens[t].job = worker[v].job
    BY <1>1, <1>2 DEF Delivering, LiveShrinks
  <2>2. worker[v].lease # None /\ worker[v].job \in JobId
    BY <2>1, LinkRow DEF TypeOK, WorkersOK, Worker
  <2>3. jobs'[worker[v].job] = jobs[worker[v].job]
    BY <1>1, <2>1, <2>2
  <2> QED BY <2>1, <2>3 DEF LinkInv, OwnLink, HoldsLease, JobOf
<1> QED BY <1>5, <1>6, <1>7 DEF LinkInv

LEMMA SteadyLinkInv ==
    ASSUME TypeOK, LinkInv, Steady
    PROVE  LinkInv'
<1>1. /\ jobs' = jobs /\ LiveShrinks
      /\ \A v \in Workers : worker'[v].pc # "idle" =>
           /\ worker'[v].job = worker[v].job
           /\ worker'[v].lease = worker[v].lease /\ worker'[v].token = worker[v].token
           /\ \/ worker'[v].pc = worker[v].pc
              \/ worker[v].pc = "sending" /\ worker'[v].pc \in {"sent", "refused"}
              \/ worker[v].pc = "locked" /\ worker'[v].pc = "moot"
      /\ \A v \in Workers, u \in Users :
           worker'[v].pc = "locked" /\ userLock[u] = v => userLock'[u] = v
  BY DEF Steady
<1>2. (OpenIsNewest /\ LiveLinkIsCurrent /\ NoRecoverySurvivesChange)'
  BY <1>1, RowsKeptInv DEF LinkInv, LiveLinkIsCurrent, LiveShrinks
<1>3. LockedIsOpen'
  <2> SUFFICES ASSUME NEW v \in Workers, worker'[v].pc = "locked"
               PROVE  /\ userLock'[jobs[worker'[v].job].user] = v
                      /\ jobs[worker'[v].job].status = "open"
                      /\ \A x \in Workers \ {v} :
                           /\ worker'[x].pc # "idle" /\ worker'[x].job = worker'[v].job
                           /\ jobs[worker'[x].job].status = "open"
                           /\ jobs[worker'[x].job].lease = worker'[x].lease
                           => worker'[x].pc = "claimed"
    BY <1>1 DEF LockedIsOpen, At, ClaimUser, HoldsLease, JobOf, Open
  <2>1. worker'[v].job = worker[v].job /\ At(v, "locked")
    BY <1>1 DEF At
  <2>2. userLock[ClaimUser(v)] = v /\ Open(worker[v].job) /\ ClaimUser(v) \in Users
    BY <2>1, ClaimedJob DEF LinkInv, LockedIsOpen, At
  <2>3. userLock'[ClaimUser(v)] = v
    BY <1>1, <2>2
  <2>4. ASSUME NEW x \in Workers \ {v}, worker'[x].pc # "idle", worker'[x].job = worker'[v].job,
               jobs[worker'[x].job].status = "open",
               jobs[worker'[x].job].lease = worker'[x].lease
        PROVE  worker'[x].pc = "claimed"
    <3>1. worker[x].pc # "idle" /\ worker[x].job = worker[v].job /\ HoldsLease(x)
      BY <1>1, <2>1, <2>4 DEF HoldsLease, JobOf
    <3>2. worker[x].pc = "claimed"
      BY <2>1, <3>1 DEF LinkInv, LockedIsOpen, At
    <3> QED BY <1>1, <2>4, <3>2
  <2> QED BY <2>1, <2>2, <2>3, <2>4 DEF Open, ClaimUser, JobOf
<1>4. OwnLink'
  BY <1>1 DEF LinkInv, OwnLink, Delivering, HoldsLease, JobOf, LiveShrinks
<1> QED BY <1>2, <1>3, <1>4 DEF LinkInv

LEMMA NextLinkInv == TypeOK /\ LeaseInv /\ VerifiedInv /\ LinkInv /\ [Next]_vars => LinkInv'
<1> SUFFICES ASSUME TypeOK, LeaseInv, VerifiedInv, LinkInv, [Next]_vars PROVE LinkInv'
  OBVIOUS
<1>1. LeaseInv'
  BY NextLeaseInv
<1> QED BY <1>1, StepCases, EnqueueLinkInv, TakeLinkInv, LockLinkInv, IssueLinkInv, EndLinkInv,
           SteadyLinkInv

LEMMA InitLinkInv == Init => LinkInv
  BY ChallengeKinds DEF Init, LinkInv, OpenIsNewest, LockedIsOpen, OwnLink, LiveLinkIsCurrent,
     NoRecoverySurvivesChange, Open, Live, At, Delivering, UnusedJob, UnusedToken, IdleWorker, Kinds

LEMMA InitLeases == Init => LeaseInv
  BY DEF Init, LeaseInv, StaleLeaseExpired, LeaseFences, At, IdleWorker

LEMMA LinkInvariant == Spec => []LinkInv
  BY InitLinkInv, NextLinkInv, InitLeases, NextLeaseInv, VerifiedInvariant, TypeCorrect, PTL
     DEF Spec

\* A link that can still be used was issued for the newest request of its kind,
\* and that request has not been cancelled, superseded or given up: a worker
\* that wakes up late cannot revive an older one
\* (email_outbox_service.py:154-172, issue_account_token, _transition_claim).
THEOREM LinksAreCurrent == Spec => []LiveLinkIsCurrent
<1>1. LinkInv => LiveLinkIsCurrent
  BY DEF LinkInv
<1> QED BY <1>1, LinkInvariant, PTL

\* After a password change, by the owner or by a recovery, no recovery asked
\* for earlier can be used or delivered any more, whatever worker was on its way
\* with it (change_password, reset_password_with_token).
THEOREM NoOldRecovery == Spec => []NoRecoverySurvivesChange
<1>1. LinkInv => NoRecoverySurvivesChange
  BY DEF LinkInv
<1> QED BY <1>1, LinkInvariant, PTL

-----------------------------------------------------------------------------
(* The outbox implements ActionChallenge.                                  *)

LinksOf(u, p) == {t \in TokenId : Usable(t) /\ tokens[t].user = u /\ tokens[t].purpose = p}
SpentLinks == {t \in 1 .. tokenCount : ~Usable(t)}
ChangesOf(u) == {j \in JobId : jobs[j].user = u /\ jobs[j].kind = Changed}

LEMMA MappedState ==
    /\ UsableLinks = [u \in Users |-> [p \in Challenges |-> LinksOf(u, p)]]
    /\ UsableLinks' = [u \in Users |-> [p \in Challenges |-> LinksOf(u, p)']]
    /\ PasswordChanges = [u \in Users |-> Cardinality(ChangesOf(u))]
    /\ PasswordChanges' = [u \in Users |-> Cardinality(ChangesOf(u)')]
    /\ Abstract!Purposes = Challenges
  BY DEF UsableLinks, PasswordChanges, LinksOf, ChangesOf, Abstract!Purposes, Challenges

\* A usable link is one of the rows of some account.
LEMMA UsableRow ==
    ASSUME TypeOK, NEW t \in TokenId, Usable(t)
    PROVE  /\ t \in 1 .. tokenCount
           /\ tokens[t].user \in Users /\ tokens[t].purpose \in Challenges
           /\ t \in LinksOf(tokens[t].user, tokens[t].purpose)
<1>1. t <= tokenCount /\ tokens[t].purpose \in Challenges
  BY LinkRow DEF Usable
<1>2. tokens[t].user \in Users
  BY <1>1 DEF TypeOK, TokensOK, JobsOK, JobId
<1> QED BY <1>1, <1>2 DEF LinksOf, TokenId

LEMMA KnownLinks ==
    ASSUME TypeOK
    PROVE  Abstract!Known = 1 .. tokenCount
<1>1. \A t \in 1 .. tokenCount : t \in TokenId
  BY DEF TypeOK, TokensOK, TokenId
<1>2. Abstract!Known = SpentLinks \union UNION {LinksOf(u, p) : u \in Users, p \in Challenges}
  <2>1. Abstract!Known = SpentLinks \union UNION {UsableLinks[u][p] : u \in Users, p \in Abstract!Purposes}
    BY DEF Abstract!Known, SpentLinks
  <2>2. \A u \in Users, p \in Challenges : UsableLinks[u][p] = LinksOf(u, p)
    BY MappedState
  <2> QED BY <2>1, <2>2, MappedState
<1>3. ASSUME NEW t \in 1 .. tokenCount PROVE t \in Abstract!Known
  <2>1. CASE Usable(t)
    BY <1>1, <1>2, <2>1, UsableRow
  <2>2. CASE ~Usable(t)
    BY <1>2, <2>2 DEF SpentLinks
  <2> QED BY <2>1, <2>2
<1>4. ASSUME NEW t \in Abstract!Known PROVE t \in 1 .. tokenCount
  BY <1>2, <1>4, UsableRow DEF SpentLinks, LinksOf
<1> QED BY <1>3, <1>4

\* A step in which links at most stop being usable is a withdrawal.
LEMMA Withdrawing ==
    ASSUME TypeOK, now \in Nat, now' \in Nat, now <= now', LiveShrinks,
           UNCHANGED <<verified, tokenCount, PasswordChanges>>
    PROVE  \E lost \in SUBSET TokenId : Abstract!Withdraw(lost)
<1> DEFINE lost == {t \in TokenId : Usable(t) /\ ~Usable(t)'}
<1>1. ASSUME NEW t \in TokenId, Usable(t)'
      PROVE  Usable(t) /\ tokens'[t] = tokens[t]
  <2>1. Live(t) /\ tokens'[t] = tokens[t] /\ tokens[t].expiresAt > now'
    BY <1>1 DEF Usable, LiveShrinks
  <2>2. tokens[t].expiresAt \in Nat
    BY DEF TypeOK, TokensOK, Token
  <2> QED BY <2>1, <2>2 DEF Usable
<1>2. ASSUME NEW u \in Users, NEW p \in Challenges PROVE LinksOf(u, p)' = LinksOf(u, p) \ lost
  BY <1>1 DEF LinksOf
<1>3. SpentLinks' = SpentLinks \union (Abstract!Known \intersect lost)
  <2>1. \A t \in 1 .. tokenCount : t \in TokenId
    BY DEF TypeOK, TokensOK, TokenId
  <2>2. SpentLinks' = {t \in 1 .. tokenCount : ~Usable(t)'}
    BY DEF SpentLinks
  <2> QED BY <1>1, <2>1, <2>2, KnownLinks DEF SpentLinks
<1>4. UsableLinks' = [u \in Users |-> [p \in Abstract!Purposes |-> UsableLinks[u][p] \ lost]]
  BY <1>2, MappedState
<1>5. Abstract!Withdraw(lost)
  BY <1>3, <1>4 DEF Abstract!Withdraw, SpentLinks
<1> QED BY <1>5

\* A step that kills the usable links of one account and some purposes.
Kills(u, purposes) ==
    /\ \A t \in TokenId :
         Usable(t)' <=> Usable(t) /\ ~(tokens[t].user = u /\ tokens[t].purpose \in purposes)
    /\ \A t \in TokenId : Usable(t)' => tokens'[t] = tokens[t]
    /\ tokenCount' = tokenCount

LEMMA KilledLinks ==
    ASSUME TypeOK, NEW u \in Users, NEW purposes \in SUBSET Challenges, Kills(u, purposes)
    PROVE  /\ UsableLinks' = [UsableLinks EXCEPT ![u] =
                [p \in Challenges |-> IF p \in purposes THEN {} ELSE UsableLinks[u][p]]]
           /\ SpentLinks' = SpentLinks \union UNION {UsableLinks[u][p] : p \in purposes}
<1>1. ASSUME NEW v \in Users, NEW p \in Challenges
      PROVE  LinksOf(v, p)' = IF v = u /\ p \in purposes THEN {} ELSE LinksOf(v, p)
  BY DEF Kills, LinksOf
<1>2. \A v \in Users, p \in Challenges : UsableLinks[v][p] = LinksOf(v, p)
  BY MappedState
<1>3. UsableLinks' = [UsableLinks EXCEPT ![u] =
        [p \in Challenges |-> IF p \in purposes THEN {} ELSE UsableLinks[u][p]]]
  <2>1. PICK row : row = [p \in Challenges |-> IF p \in purposes THEN {} ELSE UsableLinks[u][p]]
    OBVIOUS
  <2>2. PICK new : new = UsableLinks'
    OBVIOUS
  <2>3. PICK old : old = UsableLinks
    OBVIOUS
  <2>4. /\ new = [v \in Users |-> [p \in Challenges |-> LinksOf(v, p)']]
        /\ old = [v \in Users |-> [p \in Challenges |-> LinksOf(v, p)]]
    BY <2>2, <2>3, MappedState
  <2>5. row = new[u]
    <3>1. \A p \in Challenges : row[p] = LinksOf(u, p)'
      BY <1>1, <1>2, <2>1
    <3>2. row = [p \in Challenges |-> row[p]]
      BY <2>1
    <3>3. row = [p \in Challenges |-> LinksOf(u, p)']
      BY <3>1, <3>2
    <3> QED BY <2>4, <3>3
  <2>6. ASSUME NEW v \in Users, v # u PROVE new[v] = old[v]
    BY <1>1, <2>4, <2>6
  <2>7. new = [old EXCEPT ![u] = row]
    BY <2>4, <2>5, <2>6
  <2> QED BY <2>1, <2>2, <2>3, <2>7
<1>4. SpentLinks' = SpentLinks \union UNION {LinksOf(u, p) : p \in purposes}
  <2>1. SpentLinks' = {t \in 1 .. tokenCount : ~Usable(t)'}
    BY DEF SpentLinks, Kills
  <2>2. \A t \in 1 .. tokenCount : t \in TokenId
    BY DEF TypeOK, TokensOK, TokenId
  <2>3. \A t \in TokenId : Usable(t) => t \in 1 .. tokenCount
    BY UsableRow
  <2>4. \A t \in 1 .. tokenCount :
          ~Usable(t)' <=> ~Usable(t) \/ \E p \in purposes : t \in LinksOf(u, p)
    BY <2>2 DEF Kills, LinksOf
  <2> QED BY <2>1, <2>2, <2>3, <2>4 DEF SpentLinks, LinksOf
<1> QED BY <1>2, <1>3, <1>4

\* A password has changed as often as a notice was queued.
LEMMA ChangesKept ==
    ASSUME \A j \in JobId : jobs'[j].user = jobs[j].user /\ jobs'[j].kind = jobs[j].kind
    PROVE  PasswordChanges' = PasswordChanges
<1>1. \A u \in Users : ChangesOf(u)' = ChangesOf(u)
  BY DEF ChangesOf
<1> QED BY <1>1, MappedState

LEMMA ChangesCounted ==
    ASSUME TypeOK, NEW u \in Users, NEW k, NEW kind \in Kinds, Supersedes(u, k, kind)
    PROVE  /\ kind # Changed => PasswordChanges' = PasswordChanges
           /\ kind = Changed => PasswordChanges' =
                [PasswordChanges EXCEPT ![u] = PasswordChanges[u] + 1]
<1> DEFINE n == jobCount + 1
<1>1. /\ n \in JobId /\ jobs'[n].user = u /\ jobs'[n].kind = kind
      /\ \A j \in JobId \ {n} : jobs'[j].user = jobs[j].user /\ jobs'[j].kind = jobs[j].kind
  BY DEF Supersedes
<1>2. jobs[n].kind # Changed
  BY <1>1, TypesOfJobs DEF TypeOK, JobsOK, JobsTyped, UnusedJob, Kinds
<1>3. \A v \in Users : ~(v = u /\ kind = Changed) => ChangesOf(v)' = ChangesOf(v)
  BY <1>1, <1>2 DEF ChangesOf
<1>4. CASE kind # Changed
  BY <1>3, <1>4, MappedState
<1>5. CASE kind = Changed
  <2>1. ChangesOf(u)' = ChangesOf(u) \union {n} /\ n \notin ChangesOf(u)
    BY <1>1, <1>2, <1>5 DEF ChangesOf
  <2>2. IsFiniteSet(ChangesOf(u))
    <3>1. IsFiniteSet(JobId)
      BY FS_Interval DEF JobId
    <3> QED BY <3>1, FS_Subset DEF ChangesOf
  <2>3. Cardinality(ChangesOf(u)') = Cardinality(ChangesOf(u)) + 1
    BY <2>1, <2>2, FS_AddElement
  <2>4. PICK new : new = PasswordChanges'
    OBVIOUS
  <2>5. new = [v \in Users |-> Cardinality(ChangesOf(v)')]
    BY <2>4, MappedState
  <2>6. PICK old : old = PasswordChanges
    OBVIOUS
  <2>7. old = [v \in Users |-> Cardinality(ChangesOf(v))]
    BY <2>6, MappedState
  <2>8. new = [old EXCEPT ![u] = old[u] + 1]
    BY <1>3, <2>3, <2>5, <2>7
  <2> QED BY <1>5, <2>4, <2>6, <2>8
<1> QED BY <1>4, <1>5

LEMMA ClockRuns == ASSUME TypeOK, [Next]_vars PROVE now \in Nat /\ now' \in Nat /\ now <= now'
<1>1. now' \in {now, now + 1}
  <2>1. ASSUME NEW u \in Users, RequestStep(u) PROVE now' = now
    BY <2>1 DEF RequestStep, Register, RequestVerification, RequestReset, ChangePassword,
                EnqueueChallenge
  <2>2. ASSUME NEW w \in Workers, WorkerStep(w) PROVE now' = now
    BY <2>2 DEF WorkerStep, ClaimNext, ClaimInline, TakeLease, LockUser, AbandonClaim, IssueToken,
                NothingToVerify, TransportAccepts, TransportFails, FinishDelivery,
                CancelDelivery, RescheduleFailure, TransitionClaim
  <2>3. ASSUME NEW c \in Clients, ClientStep(c) PROVE now' = now
    BY <2>3 DEF ClientStep, LookUp, ConfirmVerification, ConfirmReset, RejectConfirmation
  <2> QED BY <2>1, <2>2, <2>3 DEF Next, Crash, Tick, vars
<1>2. now \in Nat
  BY DEF TypeOK
<1> QED BY <1>1, <1>2

\* Requests for a link, the worker's steps around the one that issues it, and
\* time: links can only be withdrawn.
LEMMA EnqueueWithdraws ==
    ASSUME TypeOK, [Next]_vars, NEW u \in Users, NEW k \in Challenges,
           EnqueueChallenge(u, k), verified' = verified
    PROVE  Abstract!Next
<1>1. Supersedes(u, k, k) /\ tokenCount' = tokenCount /\ LiveShrinks
  BY EnqueueSupersedes, InvalidateLive DEF EnqueueChallenge
<1>2. PasswordChanges' = PasswordChanges
  BY <1>1, ChangesCounted, ChallengeKinds DEF Kinds
<1> QED BY <1>1, <1>2, Withdrawing, ClockRuns DEF Abstract!Next

LEMMA SteadyWithdraws ==
    ASSUME TypeOK, [Next]_vars, Steady, verified' = verified
    PROVE  Abstract!Next
<1>1. PasswordChanges' = PasswordChanges
  BY ChangesKept DEF Steady
<1> QED BY <1>1, Withdrawing, ClockRuns DEF Steady, Abstract!Next

LEMMA CallWithdraws ==
    ASSUME TypeOK, [Next]_vars, NEW w \in Workers, WorkerStep(w) \/ Crash(w), ~IssueToken(w)
    PROVE  Abstract!Next
<1>1. ASSUME NEW j \in JobId, TakeLease(w, j) PROVE Abstract!Next
  <2>1. /\ \A i \in JobId : jobs'[i].user = jobs[i].user /\ jobs'[i].kind = jobs[i].kind
        /\ UNCHANGED <<verified, tokenCount>> /\ LiveShrinks
    BY <1>1, LeaseRow, SameTokensLive
  <2> QED BY <2>1, ChangesKept, Withdrawing, ClockRuns DEF Abstract!Next
<1>2. CASE LockUser(w)
  <2>1. UNCHANGED <<jobs, verified, tokenCount>> /\ LiveShrinks
    BY <1>2, LockedCall, SameTokensLive
  <2> QED BY <2>1, ChangesKept, Withdrawing, ClockRuns DEF Abstract!Next
<1>3. ASSUME NEW row, EndsWell(w, row) PROVE Abstract!Next
  <2>1. /\ \A i \in JobId : jobs'[i].user = jobs[i].user /\ jobs'[i].kind = jobs[i].kind
        /\ UNCHANGED <<verified, tokenCount>> /\ LiveShrinks
    BY <1>3 DEF EndsWell, Ends, JobOf
  <2> QED BY <2>1, ChangesKept, Withdrawing, ClockRuns DEF Abstract!Next
<1>4. CASE AbandonClaim(w) \/ NothingToVerify(w) \/ TransportAccepts(w) \/ TransportFails(w) \/ Crash(w)
  <2>1. verified' = verified
    BY <1>4 DEF AbandonClaim, NothingToVerify, TransportAccepts, TransportFails, Crash
  <2> QED BY <1>4, <2>1, WorkerSteady, SteadyWithdraws
<1> QED BY <1>1, <1>2, <1>3, <1>4, EndCases DEF WorkerStep, ClaimNext, ClaimInline

\* A change by the owner kills the recovery links.
LEMMA ChangeChanges ==
    ASSUME TypeOK, NEW u \in Users, ChangePassword(u)
    PROVE  Abstract!ChangePassword(u)
<1>1. /\ u \in verified /\ UNCHANGED <<now, verified, tokenCount>>
      /\ tokens' = Invalidate(u, Reset) /\ Supersedes(u, Reset, Changed)
  BY EnqueueSupersedes DEF ChangePassword
<1>2. Kills(u, {Reset})
  <2>1. tokens \in [TokenId -> Token]
    BY DEF TypeOK, TokensOK
  <2>2. ASSUME NEW t \in TokenId
        PROVE  /\ Usable(t)' <=> Usable(t) /\ ~(tokens[t].user = u /\ tokens[t].purpose = Reset)
               /\ Usable(t)' => tokens'[t] = tokens[t]
    <3>1. tokens[t] \in Token
      BY <2>1
    <3>2. CASE tokens[t].user = u /\ tokens[t].purpose = Reset /\ Live(t)
      <4>1. tokens'[t] = [tokens[t] EXCEPT !.invalidated = TRUE]
        BY <1>1, <3>2 DEF Invalidate
      <4>2. tokens'[t].invalidated
        BY <3>1, <4>1 DEF Token
      <4> QED BY <3>2, <4>2 DEF Usable, Live
    <3>3. CASE ~(tokens[t].user = u /\ tokens[t].purpose = Reset /\ Live(t))
      <4>1. tokens'[t] = tokens[t]
        BY <1>1, <3>3 DEF Invalidate
      <4> QED BY <1>1, <3>3, <4>1 DEF Usable, Live
    <3> QED BY <3>2, <3>3
  <2> QED BY <1>1, <2>2 DEF Kills
<1>3. UsableLinks' = [UsableLinks EXCEPT ![u][Reset] = {}]
  <2>1. UsableLinks' = [UsableLinks EXCEPT ![u] =
          [p \in Challenges |-> IF p \in {Reset} THEN {} ELSE UsableLinks[u][p]]]
    BY <1>2, KilledLinks, ChallengeKinds
  <2>2. [p \in Challenges |-> IF p \in {Reset} THEN {} ELSE UsableLinks[u][p]]
        = [UsableLinks[u] EXCEPT ![Reset] = {}]
    BY MappedState
  <2> QED BY <2>1, <2>2
<1>4. SpentLinks' = SpentLinks \union UsableLinks[u][Reset]
  BY <1>2, KilledLinks, ChallengeKinds
<1>5. PasswordChanges' = [PasswordChanges EXCEPT ![u] = PasswordChanges[u] + 1]
  BY <1>1, ChangesCounted DEF Kinds
<1> QED BY <1>1, <1>3, <1>4, <1>5 DEF Abstract!ChangePassword, SpentLinks

\* A confirmed address.
LEMMA ConfirmationVerifies ==
    ASSUME TypeOK, NEW c \in Clients, ConfirmVerification(c)
    PROVE  \E u \in Users : Abstract!Verify(u)
<1>1. PICK t : t = client[c]
  OBVIOUS
<1>2. PICK u : u = tokens[t].user
  OBVIOUS
<1>3. /\ t \in TokenId /\ tokens[t].purpose = Verification /\ Usable(t)
      /\ tokens \in [TokenId -> Token]
  BY <1>1 DEF ConfirmVerification, ClaimToken, TypeOK, MailOK, TokensOK
<1>4. PICK row : row = [tokens[t] EXCEPT !.consumed = TRUE]
  OBVIOUS
<1>5. /\ verified' = verified \union {u}
      /\ tokens' = [Invalidate(u, Verification) EXCEPT ![t] = row]
      /\ UNCHANGED <<now, jobs, tokenCount>>
  BY <1>1, <1>2, <1>4 DEF ConfirmVerification, jobVars
<1>6. row.consumed /\ u \in Users /\ t \in LinksOf(u, Verification)
  BY <1>2, <1>3, <1>4, UsableRow DEF Token
<1>7. Kills(u, {Verification})
  <2>1. ASSUME NEW s \in TokenId
        PROVE  /\ Usable(s)' <=> Usable(s) /\ ~(tokens[s].user = u /\ tokens[s].purpose = Verification)
               /\ Usable(s)' => tokens'[s] = tokens[s]
    <3>1. tokens[s] \in Token
      BY <1>3
    <3>2. CASE s = t
      <4>1. tokens'[s] = row
        BY <1>3, <1>5, <3>2 DEF Invalidate
      <4> QED BY <1>2, <1>3, <1>6, <3>2, <4>1 DEF Usable, Live
    <3>3. CASE s # t /\ tokens[s].user = u /\ tokens[s].purpose = Verification /\ Live(s)
      <4>1. tokens'[s] = [tokens[s] EXCEPT !.invalidated = TRUE]
        BY <1>3, <1>5, <3>3 DEF Invalidate
      <4>2. tokens'[s].invalidated
        BY <3>1, <4>1 DEF Token
      <4> QED BY <3>3, <4>2 DEF Usable, Live
    <3>4. CASE s # t /\ ~(tokens[s].user = u /\ tokens[s].purpose = Verification /\ Live(s))
      <4>1. tokens'[s] = tokens[s]
        BY <1>3, <1>5, <3>4 DEF Invalidate
      <4> QED BY <1>5, <3>4, <4>1 DEF Usable, Live
    <3> QED BY <3>2, <3>3, <3>4
  <2> QED BY <1>5, <2>1 DEF Kills
<1>8. UsableLinks' = [UsableLinks EXCEPT ![u][Verification] = {}]
  <2>1. UsableLinks' = [UsableLinks EXCEPT ![u] =
          [p \in Challenges |-> IF p \in {Verification} THEN {} ELSE UsableLinks[u][p]]]
    BY <1>6, <1>7, KilledLinks, ChallengeKinds
  <2>2. [p \in Challenges |-> IF p \in {Verification} THEN {} ELSE UsableLinks[u][p]]
        = [UsableLinks[u] EXCEPT ![Verification] = {}]
    BY <1>6, MappedState
  <2> QED BY <2>1, <2>2
<1>9. SpentLinks' = SpentLinks \union UsableLinks[u][Verification]
  BY <1>6, <1>7, KilledLinks, ChallengeKinds
<1>10. PasswordChanges' = PasswordChanges /\ UsableLinks[u][Verification] # {}
  BY <1>5, <1>6, ChangesKept, MappedState, ChallengeKinds
<1>11. Abstract!Verify(u)
  BY <1>5, <1>8, <1>9, <1>10 DEF Abstract!Verify, SpentLinks
<1> QED BY <1>6, <1>11

\* A password replaced through a recovery link.
LEMMA ResetRecovers ==
    ASSUME TypeOK, NEW c \in Clients, ConfirmReset(c)
    PROVE  \E u \in Users : Abstract!Recover(u)
<1>1. PICK t : t = client[c]
  OBVIOUS
<1>2. PICK u : u = tokens[t].user
  OBVIOUS
<1>3. /\ t \in TokenId /\ tokens[t].purpose = Reset /\ Usable(t)
      /\ tokens \in [TokenId -> Token]
  BY <1>1 DEF ConfirmReset, ClaimToken, TypeOK, MailOK, TokensOK
<1>4. /\ verified' = verified \union {u}
      /\ tokens' = [s \in TokenId |->
                      IF s = t THEN [tokens[s] EXCEPT !.consumed = TRUE]
                      ELSE IF tokens[s].user = u THEN [tokens[s] EXCEPT !.invalidated = TRUE]
                      ELSE tokens[s]]
      /\ Supersedes(u, Reset, Changed)
      /\ UNCHANGED <<now, tokenCount>>
  BY <1>1, <1>2, EnqueueSupersedes DEF ConfirmReset
<1>5. u \in Users /\ t \in LinksOf(u, Reset)
  BY <1>2, <1>3, UsableRow
<1>6. Kills(u, Challenges)
  <2>1. ASSUME NEW s \in TokenId
        PROVE  /\ Usable(s)' <=> Usable(s) /\ ~(tokens[s].user = u /\ tokens[s].purpose \in Challenges)
               /\ Usable(s)' => tokens'[s] = tokens[s]
    <3>1. tokens[s] \in Token
      BY <1>3
    <3>2. CASE s = t
      <4>1. tokens'[s] = [tokens[s] EXCEPT !.consumed = TRUE]
        BY <1>3, <1>4, <3>2
      <4>2. tokens'[s].consumed
        BY <3>1, <4>1 DEF Token
      <4> QED BY <1>2, <1>3, <3>2, <4>2, ChallengeKinds DEF Usable, Live
    <3>3. CASE s # t /\ tokens[s].user = u
      <4>1. tokens'[s] = [tokens[s] EXCEPT !.invalidated = TRUE]
        BY <1>3, <1>4, <3>3
      <4>2. tokens'[s].invalidated
        BY <3>1, <4>1 DEF Token
      <4> QED BY <3>3, <4>2, UsableRow DEF Usable, Live
    <3>4. CASE s # t /\ tokens[s].user # u
      <4>1. tokens'[s] = tokens[s]
        BY <1>3, <1>4, <3>4
      <4> QED BY <1>4, <3>4, <4>1 DEF Usable, Live
    <3> QED BY <3>2, <3>3, <3>4
  <2> QED BY <1>4, <2>1 DEF Kills
<1>7. UsableLinks' = [UsableLinks EXCEPT ![u] = [p \in Challenges |-> {}]]
  <2>1. UsableLinks' = [UsableLinks EXCEPT ![u] =
          [p \in Challenges |-> IF p \in Challenges THEN {} ELSE UsableLinks[u][p]]]
    BY <1>5, <1>6, KilledLinks
  <2>2. [p \in Challenges |-> IF p \in Challenges THEN {} ELSE UsableLinks[u][p]]
        = [p \in Challenges |-> {}]
    OBVIOUS
  <2> QED BY <2>1, <2>2
<1>8. SpentLinks' = SpentLinks \union UsableLinks[u][Verification] \union UsableLinks[u][Reset]
  <2>1. SpentLinks' = SpentLinks \union UNION {UsableLinks[u][p] : p \in Challenges}
    BY <1>5, <1>6, KilledLinks
  <2>2. UNION {UsableLinks[u][p] : p \in Challenges} = UsableLinks[u][Verification] \union UsableLinks[u][Reset]
    BY DEF Challenges
  <2> QED BY <2>1, <2>2
<1>9. PasswordChanges' = [PasswordChanges EXCEPT ![u] = PasswordChanges[u] + 1]
  BY <1>4, <1>5, ChangesCounted DEF Kinds
<1>10. UsableLinks[u][Reset] # {}
  BY <1>5, MappedState, ChallengeKinds
<1>11. Abstract!Recover(u)
  BY <1>4, <1>7, <1>8, <1>9, <1>10, MappedState DEF Abstract!Recover, SpentLinks
<1> QED BY <1>5, <1>11

\* The commit of issue_account_token: the new link replaces its siblings.
LEMMA IssueIssues ==
    ASSUME TypeOK, NEW w \in Workers, IssueToken(w)
    PROVE  \E u \in Users, p \in Challenges, t \in TokenId : Abstract!Issue(u, p, t)
<1>1. PICK u : u = ClaimUser(w)
  OBVIOUS
<1>2. PICK kind : kind = ClaimKind(w)
  OBVIOUS
<1>3. PICK n : n = tokenCount + 1
  OBVIOUS
<1>4. /\ u \in Users /\ kind \in Challenges /\ n \in TokenId /\ tokens \in [TokenId -> Token]
      /\ now \in Nat /\ tokenCount \in Nat
      /\ kind = Verification => u \notin verified
      /\ UNCHANGED <<now, verified, jobs>> /\ tokenCount' = n
  <2>1. At(w, "locked") /\ ~AlreadyVerified(w) /\ tokenCount + 1 \in TokenId
        /\ UNCHANGED <<now, verified, jobs>>
    BY IssuedLink
  <2>2. tokenCount' = tokenCount + 1
    BY DEF IssueToken
  <2>3. ClaimUser(w) \in Users
    BY <2>1, ClaimedJob DEF At
  <2>4. ClaimKind(w) \in Challenges
    BY <2>1 DEF TypeOK, WorkersOK
  <2>5. tokens \in [TokenId -> Token] /\ now \in Nat /\ tokenCount \in Nat
    BY DEF TypeOK, TokensOK
  <2> QED BY <1>1, <1>2, <1>3, <2>1, <2>2, <2>3, <2>4, <2>5 DEF AlreadyVerified
<1>5. PICK row : row = [user |-> u, purpose |-> kind, expiresAt |-> now + TokenLife[kind],
                        consumed |-> FALSE, invalidated |-> FALSE, job |-> worker[w].job]
  OBVIOUS
<1>6. tokens' = [Invalidate(u, kind) EXCEPT ![n] = row]
  BY <1>1, <1>2, <1>3, <1>5 DEF IssueToken
<1>7. Usable(n)' /\ tokens'[n].user = u /\ tokens'[n].purpose = kind
  <2>1. TokenLife[kind] \in Nat \ {0}
    BY <1>4
  <2>2. tokens'[n] = row
    BY <1>4, <1>6 DEF Invalidate
  <2> QED BY <1>4, <1>5, <2>1, <2>2 DEF Usable, Live
<1>8. ~Usable(n)
  BY <1>3, <1>4, UsableRow
<1>9. ASSUME NEW s \in TokenId, s # n
      PROVE  /\ Usable(s)' <=> Usable(s) /\ ~(tokens[s].user = u /\ tokens[s].purpose = kind)
             /\ Usable(s)' => tokens'[s] = tokens[s]
  <2>1. tokens[s] \in Token
    BY <1>4
  <2>2. CASE tokens[s].user = u /\ tokens[s].purpose = kind /\ Live(s)
    <3>1. tokens'[s] = [tokens[s] EXCEPT !.invalidated = TRUE]
      BY <1>4, <1>6, <1>9, <2>2 DEF Invalidate
    <3>2. tokens'[s].invalidated
      BY <2>1, <3>1 DEF Token
    <3> QED BY <2>2, <3>2 DEF Usable, Live
  <2>3. CASE ~(tokens[s].user = u /\ tokens[s].purpose = kind /\ Live(s))
    <3>1. tokens'[s] = tokens[s]
      BY <1>4, <1>6, <1>9, <2>3 DEF Invalidate
    <3> QED BY <1>4, <2>3, <3>1 DEF Usable, Live
  <2> QED BY <2>2, <2>3
<1>10. ASSUME NEW v \in Users, NEW p \in Challenges
       PROVE  LinksOf(v, p)' = IF v = u /\ p = kind THEN {n} ELSE LinksOf(v, p)
  <2>1. CASE v = u /\ p = kind
    BY <1>4, <1>7, <1>9, <2>1 DEF LinksOf
  <2>2. CASE ~(v = u /\ p = kind)
    BY <1>7, <1>8, <1>9, <2>2 DEF LinksOf
  <2> QED BY <2>1, <2>2
<1>11. UsableLinks' = [UsableLinks EXCEPT ![u][kind] = {n}]
  <2>1. PICK new : new = UsableLinks'
    OBVIOUS
  <2>2. PICK old : old = UsableLinks
    OBVIOUS
  <2>3. /\ new = [v \in Users |-> [p \in Challenges |-> LinksOf(v, p)']]
        /\ old = [v \in Users |-> [p \in Challenges |-> LinksOf(v, p)]]
    BY <2>1, <2>2, MappedState
  <2>4. new[u] = [old[u] EXCEPT ![kind] = {n}]
    BY <1>4, <1>10, <2>3
  <2>5. ASSUME NEW v \in Users, v # u PROVE new[v] = old[v]
    BY <1>10, <2>3, <2>5
  <2>6. new = [old EXCEPT ![u] = new[u]]
    BY <2>3, <2>5
  <2>7. new = [old EXCEPT ![u][kind] = {n}]
    BY <2>4, <2>6
  <2> QED BY <2>1, <2>2, <2>7
<1>12. SpentLinks' = SpentLinks \union UsableLinks[u][kind]
  <2>1. UsableLinks[u][kind] = LinksOf(u, kind)
    BY <1>4, MappedState
  <2>2. SpentLinks' = {t \in 1 .. n : ~Usable(t)'}
    BY <1>4 DEF SpentLinks
  <2>3. \A t \in 1 .. n : t \in TokenId /\ (t = n \/ t \in 1 .. tokenCount)
    BY <1>3, <1>4 DEF TokenId
  <2>4. \A t \in 1 .. tokenCount : t \in 1 .. n /\ t # n
    BY <1>3, <1>4
  <2>5. \A t \in LinksOf(u, kind) : t \in 1 .. tokenCount
    BY UsableRow DEF LinksOf
  <2>6. ASSUME NEW t \in 1 .. n
        PROVE  ~Usable(t)' <=> t \in SpentLinks \union LinksOf(u, kind)
    <3>1. CASE t = n
      BY <1>7, <2>4, <2>5, <3>1 DEF SpentLinks
    <3>2. CASE t # n
      BY <1>9, <2>3, <3>2 DEF SpentLinks, LinksOf
    <3> QED BY <3>1, <3>2
  <2> QED BY <2>1, <2>2, <2>4, <2>5, <2>6 DEF SpentLinks
<1>13. n \notin Abstract!Known
  BY <1>3, <1>4, KnownLinks
<1>14. PasswordChanges' = PasswordChanges
  BY <1>4, ChangesKept
<1>15. Abstract!Issue(u, kind, n)
  BY <1>4, <1>11, <1>12, <1>13, <1>14 DEF Abstract!Issue, SpentLinks
<1> QED BY <1>4, <1>15

LEMMA NextRefines ==
    ASSUME TypeOK, [Next]_vars
    PROVE  [Abstract!Next]_(Abstract!vars)
<1>1. ASSUME NEW u \in Users, RequestStep(u) PROVE Abstract!Next
  <2>1. CASE ChangePassword(u)
    BY <2>1, ChangeChanges DEF Abstract!Next
  <2>2. CASE Register(u) \/ RequestVerification(u) \/ RequestReset(u)
    BY <2>2, EnqueueWithdraws, ChallengeKinds
       DEF Register, RequestVerification, RequestReset, userVars
  <2> QED BY <1>1, <2>1, <2>2 DEF RequestStep
<1>2. ASSUME NEW w \in Workers, WorkerStep(w) \/ Crash(w) PROVE Abstract!Next
  <2>1. CASE IssueToken(w)
    BY <2>1, IssueIssues, MappedState DEF Abstract!Next
  <2>2. CASE ~IssueToken(w)
    BY <1>2, <2>2, CallWithdraws
  <2> QED BY <2>1, <2>2
<1>3. ASSUME NEW c \in Clients, ConfirmVerification(c) \/ ConfirmReset(c) PROVE Abstract!Next
  BY <1>3, ConfirmationVerifies, ResetRecovers DEF Abstract!Next
<1>4. CASE /\ \A u \in Users : ~RequestStep(u)
           /\ \A w \in Workers : ~WorkerStep(w) /\ ~Crash(w)
           /\ \A c \in Clients : ~ConfirmReset(c) /\ ~ConfirmVerification(c)
  <2>1. verified' = verified
    BY <1>4 DEF Next, ClientStep, LookUp, RejectConfirmation, Tick, vars
  <2> QED BY <1>4, <2>1, OthersSteady, SteadyWithdraws
<1> QED BY <1>1, <1>2, <1>3, <1>4

LEMMA InitRefines == ASSUME Init PROVE Abstract!Init
<1>1. /\ tokenCount = 0 /\ verified \in SUBSET Users
      /\ \A t \in TokenId : ~Usable(t)
      /\ \A j \in JobId : jobs[j].kind # Changed
  BY DEF Init, Usable, Live, UnusedToken, UnusedJob, Kinds
<1>2. UsableLinks = [u \in Users |-> [p \in Abstract!Purposes |-> {}]]
  <2>1. \A u \in Users, p \in Challenges : LinksOf(u, p) = {}
    BY <1>1 DEF LinksOf
  <2> QED BY <2>1, MappedState
<1>3. PasswordChanges = [u \in Users |-> 0]
  <2>1. \A u \in Users : ChangesOf(u) = {}
    BY <1>1 DEF ChangesOf
  <2> QED BY <2>1, FS_EmptySet, MappedState
<1>4. SpentLinks = {}
  BY <1>1 DEF SpentLinks
<1> QED BY <1>1, <1>2, <1>3, <1>4 DEF Abstract!Init, SpentLinks

\* Whatever requests, workers, crashes and confirmations do, an account's links
\* behave as ActionChallenge promises: a new link replaces its predecessor, a
\* link is spent once, and a password changes only through the current recovery
\* link or by a verified account (email_outbox_service.py and
\* account_token_service.py as a whole).
THEOREM OutboxImplementsActionChallenge == Spec => ImplementsActionChallenge
<1> QED BY InitRefines, NextRefines, TypeCorrect, PTL
        DEF Spec, ImplementsActionChallenge, Abstract!Spec
=============================================================================

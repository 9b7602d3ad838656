--------------------------- MODULE OutboxSchedule ---------------------------
(***************************************************************************)
(* When the jobs of the outbox get their turn: the order in which they are *)
(* claimed, the pauses between the calls that claim them, leases, delays   *)
(* and lost calls.                                                         *)
(*                                                                         *)
(*   email_outbox_service.py   claim_security_email_job, the batch, retries *)
(*   app/__init__.py           the email-worker command                    *)
(*   app/routes/internal.py    the endpoint a cron job calls               *)
(*                                                                         *)
(* SecurityOutbox says what a call does to rows, links and locks; here a   *)
(* delivery is one step and time is everything.  Times are kept relative   *)
(* to the present, so that the clock has no last instant: a lease or a     *)
(* delay is what is left of it, and rows that are overdue keep their order *)
(* in the queue.  A superseded job is a closed one and is left out.        *)
(*                                                                         *)
(* A broken job raises something other than EmailDeliveryError whenever    *)
(* its message is due.  The exception leaves the batch, the lease stays.   *)
(***************************************************************************)
EXTENDS Integers, SequencesExt

CONSTANTS
    Workers,      \* callers of process_pending_security_email
    MaxJobs,      \* bound: rows ever inserted into security_email_jobs
    BatchSize,    \* SECURITY_EMAIL_WORKER_BATCH_SIZE, _HTTP_BATCH_SIZE
    Cadences,     \* longest pauses between two calls an operator may choose
    CallTime,     \* longest delivery, up to the last SMTP timeout
    Lease,        \* SECURITY_EMAIL_LEASE_SECONDS
    MaxAttempts,  \* SECURITY_EMAIL_MAX_ATTEMPTS
    RetryBase,    \* SECURITY_EMAIL_RETRY_BASE_SECONDS
    RetryMax,     \* SECURITY_EMAIL_RETRY_MAX_SECONDS
    MaxCrashes,   \* bound: calls that die half-way on a sound job
    None          \* NULL

JobId == 1 .. MaxJobs

ASSUME ScheduleAssumption ==
    /\ MaxJobs \in Nat
    /\ MaxCrashes \in Nat
    /\ Cadences \subseteq Nat \ {0}
    /\ {BatchSize, Lease, MaxAttempts, RetryBase, RetryMax} \subseteq Nat \ {0}
    /\ None \notin Nat
\* Configuration requires a lease of at least ten SMTP timeouts, so a live call
\* does not outlive its lease (app/validation.py).
ASSUME LeaseAssumption == CallTime \in Nat /\ CallTime < Lease

VARIABLES
    cadence,   \* of this deployment; never changes
    broken,    \* jobs whose delivery raises; never changes
    created,   \* rows inserted so far
    queue,     \* open jobs ORDER BY available_at, created_at, id
    wait,      \* instants until available_at, 0 when it has passed
    lease,     \* instants until lease_expires_at, 0 when it has passed, or None
    attempts,  \* counted up to MaxAttempts: the code only asks whether it is reached
    call,      \* what each worker is doing
    crashes

setting == <<cadence, broken>>
vars == <<cadence, broken, created, queue, wait, lease, attempts, call, crashes>>

\* The states of a call: "idle" with the instants until the next one, "batch"
\* between two jobs with the iterations left, and "delivering" a job.
Idle(rest) == [pc |-> "idle", job |-> None, left |-> 0, rest |-> rest]
Batch(left) == [pc |-> "batch", job |-> None, left |-> left, rest |-> 0]

Init ==
    /\ cadence \in Cadences
    /\ broken \in SUBSET JobId
    /\ created = 0
    /\ queue = <<>>
    /\ wait = [j \in JobId |-> 0]
    /\ lease = [j \in JobId |-> None]
    /\ attempts = [j \in JobId |-> 0]
    /\ call \in [Workers -> {Idle(rest) : rest \in 0 .. cadence}]
    /\ crashes = 0

-----------------------------------------------------------------------------
(* The queue.                                                              *)

Open(j) == j \in Range(queue)

\* _claim_eligibility, asked of the rows of the queue.
Eligible(j) == /\ wait[j] = 0
               /\ lease[j] # None => lease[j] = 0

Due == SelectSeq(queue, Eligible)

\* The place of a job that becomes available after the delay: behind those
\* available before it, and among equals in the order of creation.
Insert(q, j, delay) ==
    LET Earlier(k) == wait[k] < delay \/ (wait[k] = delay /\ k < j)
        Later(k) == ~Earlier(k)
    IN  SelectSeq(q, Earlier) \o <<j>> \o SelectSeq(q, Later)

\* enqueue_security_email
Enqueue ==
    /\ created < MaxJobs
    /\ created' = created + 1
    /\ queue' = Insert(queue, created + 1, 0)
    /\ UNCHANGED <<setting, wait, lease, attempts, call, crashes>>

-----------------------------------------------------------------------------
(* Calls of process_pending_security_email.                                *)

At(w, pc) == call[w].pc = pc

StartCall(w) ==
    /\ At(w, "idle")
    /\ call[w].rest = 0
    /\ call' = [call EXCEPT ![w] = Batch(BatchSize)]
    /\ UNCHANGED <<setting, created, queue, wait, lease, attempts, crashes>>

Claim(w) ==
    /\ At(w, "batch")
    /\ call[w].left > 0
    /\ Due # <<>>
    /\ LET j == Head(Due)
       IN  /\ lease' = [lease EXCEPT ![j] = Lease]
           /\ attempts' = [attempts EXCEPT ![j] = Min({@ + 1, MaxAttempts})]
           /\ call' = [call EXCEPT ![w].pc = "delivering", ![w].job = j]
    /\ UNCHANGED <<setting, created, queue, wait, crashes>>

\* Nothing is due, or the batch is full.  The command polls again at once after
\* a full batch and sleeps otherwise; the endpoint waits for the next cron.
EndCall(w) ==
    /\ At(w, "batch")
    /\ \/ /\ call[w].left = 0
          /\ \E rest \in 0 .. cadence : call' = [call EXCEPT ![w] = Idle(rest)]
       \/ /\ call[w].left > 0
          /\ Due = <<>>
          /\ \E rest \in 1 .. cadence : call' = [call EXCEPT ![w] = Idle(rest)]
    /\ UNCHANGED <<setting, created, queue, wait, lease, attempts, crashes>>

\* The result is appended and the batch goes on.
NextInBatch(w) == call' = [call EXCEPT ![w] = Batch(call[w].left - 1)]

Delivering(w) == At(w, "delivering") /\ call[w].job \notin broken

\* _finish_delivery; _cancel_delivery when there is nothing to send; and
\* _reschedule_delivery_failure when the attempts are used up.
Close(w) ==
    /\ Delivering(w)
    /\ queue' = Remove(queue, call[w].job)
    /\ lease' = [lease EXCEPT ![call[w].job] = None]
    /\ NextInBatch(w)
    /\ UNCHANGED <<setting, created, wait, attempts, crashes>>

RetryDelay(n) == Min({RetryBase * 2^(n - 1), RetryMax})

\* _reschedule_delivery_failure while attempts are left.
Reschedule(w) ==
    /\ Delivering(w)
    /\ attempts[call[w].job] < MaxAttempts
    /\ LET j == call[w].job
           delay == RetryDelay(attempts[j])
       IN  /\ wait' = [wait EXCEPT ![j] = delay]
           /\ lease' = [lease EXCEPT ![j] = None]
           /\ queue' = Insert(Remove(queue, j), j, delay)
    /\ NextInBatch(w)
    /\ UNCHANGED <<setting, created, attempts, crashes>>

\* Mutant: the claim was not committed, and is rolled back with the rest.
RaiseUncommitted(w) ==
    /\ At(w, "delivering")
    /\ call[w].job \in broken
    /\ lease' = [lease EXCEPT ![call[w].job] = None]
    /\ \E rest \in 0 .. cadence : call' = [call EXCEPT ![w] = Idle(rest)]
    /\ UNCHANGED <<setting, created, queue, wait, attempts, crashes>>

\* The exception leaves the batch.  A supervisor starts the command again, or
\* the cron job calls again: at once or after a pause.
Raise(w) ==
    /\ At(w, "delivering")
    /\ call[w].job \in broken
    /\ \E rest \in 0 .. cadence : call' = [call EXCEPT ![w] = Idle(rest)]
    /\ UNCHANGED <<setting, created, queue, wait, lease, attempts, crashes>>

Crash(w) ==
    /\ ~At(w, "idle")
    /\ crashes < MaxCrashes
    /\ crashes' = crashes + 1
    /\ \E rest \in 0 .. cadence : call' = [call EXCEPT ![w] = Idle(rest)]
    /\ UNCHANGED <<setting, created, queue, wait, lease, attempts>>

-----------------------------------------------------------------------------
(* Time.                                                                   *)

MayWait(w) ==
    CASE At(w, "idle") -> call[w].rest > 0
      [] At(w, "batch") -> FALSE
      [] At(w, "delivering") -> Lease - lease[call[w].job] < CallTime

Less(n) == IF n \in {0, None} THEN n ELSE n - 1

Tick ==
    /\ \A w \in Workers : MayWait(w)
    /\ wait' = [j \in JobId |-> Less(wait[j])]
    /\ lease' = [j \in JobId |-> Less(lease[j])]
    /\ call' = [w \in Workers |-> [call[w] EXCEPT !.rest = Less(@)]]
    /\ UNCHANGED <<setting, created, queue, attempts, crashes>>

WorkerStep(w) == \/ StartCall(w)
                 \/ Claim(w)
                 \/ EndCall(w)
                 \/ Close(w)
                 \/ Reschedule(w)
                 \/ Raise(w)

Next == \/ Enqueue
        \/ \E w \in Workers : WorkerStep(w)
        \/ \E w \in Workers : Crash(w)
        \/ Tick

\* Time passes, and calls go on and come back within the cadence.  Nothing has
\* to be requested, and nothing says that a message is ever accepted.
Fairness == /\ \A w \in Workers : WF_vars(WorkerStep(w))
            /\ WF_vars(Tick)

Spec == Init /\ [][Next]_vars /\ Fairness

-----------------------------------------------------------------------------
(* Properties.                                                             *)

\* Every broken job can raise once, each at the end of the longest delivery and
\* before the longest pause, and the first of them is still leased then.
KeepsUp == Cardinality(broken) * (CallTime + cadence) < Lease

Owed(j) == Open(j) /\ j \notin broken /\ KeepsUp

\* Every delivery intent is completed or given up in the end: a job whose call
\* died is taken over, a refused one is retried until it is exhausted, and none
\* starves behind jobs that abort every batch they are in, as long as the
\* workers keep up with those.
EveryJobCloses ==
    \A j \in JobId : Owed(j) ~> ~Open(j)
=============================================================================

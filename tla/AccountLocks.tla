---------------------------- MODULE AccountLocks ----------------------------
(***************************************************************************)
(* The row locks PostgreSQL takes for the transactions on one account.     *)
(*                                                                         *)
(* Each transaction is the sequence of rows its statements lock, in the    *)
(* order of the code; a lock is kept until the commit.  The rows are the   *)
(* user, the open outbox job of a challenge, its live link and a session:  *)
(* the rows that two of these transactions can both match.  A row locked   *)
(* twice by one transaction is listed twice, as the code does.             *)
(***************************************************************************)
EXTENDS Integers, Sequences

CONSTANTS
    Txns,   \* database connections working on the account
    Kinds,  \* the transactions they run, a subset of DOMAIN Program
    None

Rows == {"user", "job", "link", "session"}

\* enqueue_security_email of a challenge: user, then in
\* cancel_security_email_jobs user again, open jobs, live links.
Enqueue == <<"user", "user", "job", "link">>

\* change_password: user, cancel_security_email_jobs, the other sessions, and
\* enqueue_security_email of the notice.
ChangePassword == <<"user", "user", "job", "link", "session", "user">>

\* Mutant: the link is locked by the lookup, before the user.
LinkFirst == <<"link", "user", "link">>

\* confirm_email_verification: _claim_token, then the siblings of the link.
ConfirmVerification == <<"user", "link", "link">>

\* reset_password_with_token: _claim_token, other links, all sessions,
\* cancel_security_email_jobs, enqueue_security_email of the notice.
ConfirmReset == <<"user", "link", "link", "session", "user", "job", "link", "user">>

\* claim_security_email_job: one UPDATE.
ClaimJob == <<"job">>

\* process_security_email_job of a challenge up to the commit of the link.
IssueLink == <<"user", "user", "link">>

\* A password notice keeps the user row until _transition_claim commits.
SendNotice == <<"user", "job">>

\* _finish_delivery and _cancel_delivery of a challenge.
CloseJob == <<"job">>

\* _reschedule_delivery_failure: the link first, the job second, no user lock.
RescheduleFailure == <<"link", "job">>

\* _authenticate_user to the commit of _create_auth_session.
Login == <<"user">>

\* logout_session and rotate_session_csrf.
TouchSession == <<"session">>

Program ==
    [Enqueue |-> Enqueue, ChangePassword |-> ChangePassword,
     ConfirmVerification |-> ConfirmVerification, ConfirmReset |-> ConfirmReset,
     ClaimJob |-> ClaimJob, IssueLink |-> IssueLink, SendNotice |-> SendNotice,
     CloseJob |-> CloseJob, RescheduleFailure |-> RescheduleFailure,
     Login |-> Login, TouchSession |-> TouchSession]

ASSUME KindsAssumption == Kinds \subseteq DOMAIN Program
ASSUME NoneAssumption == None \notin Txns

VARIABLES
    running,  \* the kind of transaction a connection runs
    done,     \* how many of its locks it has
    holder    \* which connection holds a row

vars == <<running, done, holder>>

Init ==
    /\ running = [t \in Txns |-> None]
    /\ done = [t \in Txns |-> 0]
    /\ holder = [r \in Rows |-> None]

Finished(t) == done[t] = Len(Program[running[t]])
NextRow(t) == Program[running[t]][done[t] + 1]

\* Two connections wait for each other only through a row one has and the
\* other asks for next.
WaitsFor(t, s) ==
    /\ running[t] # None
    /\ ~Finished(t)
    /\ holder[NextRow(t)] = s
    /\ s # t

Begin(t, kind) ==
    /\ running[t] = None
    /\ running' = [running EXCEPT ![t] = kind]
    /\ UNCHANGED <<done, holder>>

Lock(t) ==
    /\ running[t] # None
    /\ ~Finished(t)
    /\ holder[NextRow(t)] \in {None, t}
    /\ holder' = [holder EXCEPT ![NextRow(t)] = t]
    /\ done' = [done EXCEPT ![t] = @ + 1]
    /\ UNCHANGED running

\* Mutant: the connection goes back to the pool with its locks.
EndUncommitted(t) ==
    /\ running' = [running EXCEPT ![t] = None]
    /\ done' = [done EXCEPT ![t] = 0]
    /\ UNCHANGED holder

\* An exception between two statements ends the transaction just the same.
EndTxn(t) ==
    /\ running' = [running EXCEPT ![t] = None]
    /\ done' = [done EXCEPT ![t] = 0]
    /\ holder' = [r \in Rows |-> IF holder[r] = t THEN None ELSE holder[r]]

Commit(t) == running[t] # None /\ Finished(t) /\ EndTxn(t)

Rollback(t) == running[t] # None /\ ~Finished(t) /\ holder[NextRow(t)] \in {None, t} /\ EndTxn(t)

Next == \E t \in Txns : \/ \E kind \in Kinds : Begin(t, kind)
                        \/ Lock(t)
                        \/ Commit(t)
                        \/ Rollback(t)

\* Lock queues are first come, first served, and a transaction that has its
\* locks goes on; nobody has to begin one or to fail.
Fairness == \A t \in Txns : SF_vars(Lock(t)) /\ WF_vars(Commit(t))

Spec == Init /\ [][Next]_vars
FairSpec == Spec /\ Fairness

-----------------------------------------------------------------------------
\* A connection holds exactly the rows of the locks it has taken (PostgreSQL
\* keeps row locks until the end of the transaction).
TypeOK ==
    /\ running \in [Txns -> Kinds \union {None}]
    /\ done \in [Txns -> Nat]
    /\ \A t \in Txns : IF running[t] = None THEN done[t] = 0
                       ELSE done[t] <= Len(Program[running[t]])
    /\ holder \in [Rows -> Txns \union {None}]
    /\ \A r \in Rows, t \in Txns :
         holder[r] = t <=> /\ running[t] # None
                           /\ \E i \in 1 .. done[t] : Program[running[t]][i] = r

\* "takes the user lock first.  This ... avoids PostgreSQL deadlocks"
\* (email_outbox_service.py:152): no transactions wait for each other in a
\* circle, which the server would break by failing one of the requests.
NoDeadlock ==
    ~ \E S \in (SUBSET Txns) \ {{}} : \A t \in S : \E s \in S : WaitsFor(t, s)

\* A transaction waits only for ones that come to an end.
EveryTransactionEnds == \A t \in Txns : running[t] # None ~> running[t] = None
=============================================================================

# Secure Share: models and proofs

TLA+ specifications of Secure Share (a Flask application on PostgreSQL with
private file storage, and its browser client), TLC configurations that check them on
small instances, and TLAPS proofs, for instances of any size, of the safety
properties of every part but the schedule of the outbox, and of both refinements.

## The system

| Part | State it keeps | Operations | Talks to |
|---|---|---|---|
| Security-mail outbox (`app/services/email_outbox_service.py`, `app/routes/internal.py`, CLI `email-worker`) | `security_email_jobs`: kind, availability, lease, attempts, completed/cancelled | enqueue, supersede, claim a lease, finish, cancel, reschedule | creates links, sends through the mail transport |
| Account-action links (`account_token_service.py`) | `account_action_tokens`: purpose, expiry, consumed/invalidated | issue, look up, claim, confirm an address, reset a password | outbox (notices), sessions (revocation), accounts |
| Accounts and sessions (`auth_service.py`, `app/utils/security.py`) | `users`: hash, verification; `auth_sessions` | register, login, logout, change password, authenticate a request | outbox |
| Private files (`file_service.py`) | `files` rows and the bytes in a directory or a blob store | upload, clean up, download, delete | permissions |
| Permissions (`permission_service.py`) | `file_permissions` | grant, revoke, list | files, accounts |
| Browser client (`app/static/js/*.js`) | cookies, the lists on the page | login, CSRF refresh, refresh of lists | all routes |
| Rate limits (`app/rate_limits.py`, decorators of the routes) | counters in Redis | hit, test, charge a failure, reject | `auth_required`, the views of login, account actions, upload, download |
| Bootstrap (`app/database.py`, `migrations/`) | tables and columns, the recorded revision | classify, stamp, upgrade | Alembic, the operator |

What is hard: the outbox, the links and the accounts are changed by requests, by
workers (several at once: CLI, cron endpoint, inline delivery) and by the
clients of mailed links. They meet only in the database, under row locks and
leases; workers crash and come back late; mail is sent in the middle. Files
live in two stores without a common transaction. The schema is upgraded by
commands that can end anywhere, limits are counted in a store of their own while
requests overlap, and the dashboard gets its answers in any order. Every such
point is a hazard in `PROJECT.json`, with the property that watches it, or the
reason there is none.

What makes each part correct:

- *links*: one live link per account and purpose, used once, never after its
  expiry, its replacement, or a credential change;
- *outbox*: one open job per challenge, one worker per lease, closed jobs stay
  closed, notices are not lost, every job that can be delivered or refused ends;
- *locks*: no deadlock between the transactions of one account;
- *sessions*: no session outlives the password it was opened with;
- *browser*: the two cookies fit together, so that no signed-in page is refused;
- *files*: an acknowledged upload stays, an acknowledged deletion is final, bytes
  and rows part only for known causes;
- *permissions*: grants are unique and belong to a file that exists, and only the
  owner and the grantees of a file are admitted to it;
- *rate limits*: no way to a view past one of its limits, and no failure told
  before it is counted;
- *bootstrap*: the recorded revision is true, an unknown schema stays untouched,
  an interrupted run can be run again;
- *dashboard*: rows belong to the file the dialog names, and a quiet page shows
  what its owner has done.

## Modules

### `SecurityOutbox`: outbox, links and the accounts they act on

Rows are functions from an id, numbered in creation order, to a record of the
columns that matter; `status` folds `completed_at` and `cancelled_at`. Secrets
and hashes are gone: a link *is* its row, and a client can hold it only if it is
in `mailed`. The clock is `now`. One action is one transaction, or the part of
one between two points where others can act:

| Code | Actions |
|---|---|
| `register_user`, the verification and reset requests, `change_password` | `Register`, `RequestVerification`, `RequestReset`, `ChangePassword` |
| `claim_security_email_job` (by the loop / by id) | `ClaimNext`, `ClaimInline` |
| `SELECT … FOR UPDATE` on the user and the re-check of the claim | `LockUser`, `AbandonClaim` |
| `issue_account_token` and its commit | `IssueToken`, `NothingToVerify` |
| `deliver_email` | `TransportAccepts`, `TransportFails` (the message may have arrived all the same) |
| `_finish_delivery`, `_cancel_delivery`, `_reschedule_delivery_failure`, all through `_transition_claim` | `FinishDelivery`, `CancelDelivery`, `RescheduleFailure` |
| death of the process, or an exception nobody catches | `Crash` |
| `_claim_token`: lookup, then lock and claim | `LookUp`, `ConfirmVerification`, `ConfirmReset`, `RejectConfirmation` |

`userLock` holds the one lock that outlives an action: that of a worker between
its re-check and its commit. For a password notice that includes the delivery,
as in the code. Other transactions take the lock and commit in one action and are
enabled only while it is free. `registered` and `verified` are chosen freely at
the start, as accounts older than migration 0004 may be in any state.

`accepted` and `mailed` are the outside world, `crashes` is a bound.

### `ActionChallenge` and `SecurityOutboxRefinement`

What links promise, without jobs, workers or a clock: `Issue`, `Withdraw`,
`Verify`, `Recover`, `ChangePassword`. The refinement mapping takes as usable the
rows that are neither consumed, invalidated nor expired and counts password
changes by their notices. `ImplementsActionChallenge` says that each step of the
outbox is a step of this specification or changes nothing it can see.

### `OutboxSchedule`

When each job gets its turn, which is a question of time and not of links: a
delivery is one step, and the rows are the columns a claim asks for. `queue` is the
`ORDER BY` of the claim, `wait` and `lease` are what is left until
`available_at` and `lease_expires_at`. Being relative, they need no last instant:
the clock runs for ever, leases expire while workers pause, and TLC explores all
of it.

| Code | Actions |
|---|---|
| `enqueue_security_email` | `Enqueue` |
| the polling loop of `email-worker`, a cron call of the endpoint | `StartCall`, `EndCall` (next call at once after a full batch, else within `cadence`) |
| `claim_security_email_job` | `Claim` |
| `_finish_delivery`, `_cancel_delivery`, the last refusal | `Close` |
| `_reschedule_delivery_failure` | `Reschedule` |
| an exception that is not an `EmailDeliveryError` | `Raise`: the batch ends, lease and attempt stay; a supervisor or the next cron call goes on |
| death of the process | `Crash`, at most `MaxCrashes` times |

Which jobs are `broken` and what `cadence` the operator has set is chosen at the start.
A broken job raises at every delivery, so it never closes and comes up again
whenever its lease is over, at the head of the queue. The assumptions are two.
A delivery ends within `CallTime`, which is shorter than the lease: production
requires a lease of ten SMTP timeouts (`app/validation.py`); the wait for the
user row is part of it. (Workers that outlive their lease are in `SecurityOutbox`,
where nothing is assumed of time.) And the callers come back within `cadence`,
which the operator sets and the code does not check: it may be longer than the lease.
`EveryJobCloses` is claimed where `KeepsUp`: all broken jobs together cost less than
one lease, at one delivery and one pause each. Without broken jobs that is always so.
The premise is sharp: with one worker, two broken jobs and `Lease` equal to what they
cost, TLC finds the sound job starving once the premise is dropped. With the example schedule of
`docs/vercel-deployment.md` (one job a minute) and the default lease of five
minutes this takes five broken jobs, with a daily cron one.

### `AccountSessions`

Login verifies the password on an unlocked read (`VerifyPassword`) and decides
again under the lock (`CreateSession` or `RefuseLogin`); requests hold the
session they were authenticated with while others delete it. `generation` is the
stored hash (salted: each `set_password` writes a new one), `shown` the password
the owner of the session last proved to know.

### `AccountLocks`

Each transaction as the sequence of rows its statements lock. PostgreSQL keeps
the locks until the end of the transaction. SQLite, where `FOR UPDATE` does
nothing and writers are serialised, has no such deadlocks.

### `FileVault`

Storage calls and commits as separate actions, each with its failures:
`RemoveBytesFails` may have removed a blob, `CommitUploadFails` and
`CommitDeleteFails` may have committed, and a write that fails leaves nothing
(`WriteFails`) or bytes nobody records (`WriteLeavesBytes`: the `unlink` in the
`finally` raises too, or the blob was put although the answer is an error). `backend` is a column of the row, so both
stores exist side by side. The `history` variables (what was acknowledged,
deleted, reported, abandoned, and whose commit raised) serve the properties only.

### `FileAccess` and `FileVaultRefinement`

What private files promise, with no storage and no transactions: a file is new,
then live with an owner and the users it is shared with, then gone for good; a
download is admitted for the owner or a sharer of a live file. In the mapping a
row is the life of its file (it is gone when a delete request has begun to
withdraw the bytes and the row no longer exists), the rows of `file_permissions`
are the shares, and a request between its authorisation and its end is a
reading. Checks and storage calls stutter; ambiguous commits map to the step
they may have been, or to none. `ImplementsFileAccess` is the refinement.

### `Bootstrap`

`init-db` and the Alembic run it starts, for both engines. `durable` is what has
been committed, `pending` what the one open transaction sees. On PostgreSQL a
stamp and an upgrade are a transaction each. On SQLite, `CREATE` and `ALTER` are
final at once until the first `UPDATE` or `INSERT` of a run opens the
transaction that `env.py` commits at its end. A schema is a set of objects
(tables, added columns), a recorded revision, and whether the rows that refer to
users are all there.

| Code | Actions |
|---|---|
| `initialize_database`: reading the tables, then the revision and the columns | `ReadTables`, `Classify`, `Refuse` |
| `stamp` | `CreateVersionTable`, `WriteStamp` |
| `upgrade`: `env.py` and the five revisions | `BeginUpgrade`, `CreateVersionTable`, `CreateObject`, `TransformUsers`, `RecordRevision`, `FinishUpgrade` |
| a failing statement, a lost connection, a dead process | `Abort` |

The decision to adopt is taken on a connection that is closed before the stamp is
written, so another run may upgrade in between; `rewound` records a stamp that
replaced a later revision and `cut` a run that ended after statements that no
transaction covered.

### `RateLimit`

A request passes the stages its decorators put around the view: a group of
limits, `auth_required`, another group. Each limit is one call to the store, so
requests interleave between any two of them. `Hit` charges and compares, `Test`
only compares (the failures-only limits of login), `Deduct` charges after the
view has answered 401. `RATELIMIT_FAIL_ON_FIRST_BREACH` is off: all limits of a
group are evaluated before the request is rejected. `Fail` is the store raising
at any of these points; errors are not swallowed. Buckets are a peer address or
the one subject a request names (identifier, token, user and session, file):
hashing them is left out. `Calls` picks the routes of an instance, `Limit` the
numbers.

### `Dashboard`

The page runs one handler at a time, so an action is the code between two
`await`s: what the user does (`Upload`, `OpenPermissions`, `Grant`, …), what the
server does with a call (`Read`, `Change`, `Refuse`), and what the page does with
an answer (`ShowFiles`, `ShowPermissions`, `AfterUpload`, …). Calls are served
and answered in any order; `Change(c, FALSE)` carried the change out and lost the
answer. A list is represented by the number of changes it reflects, which is all
that "up to date" needs.

### `BrowserSession`

One browser with several tabs against `auth_required` and the cookie routes. A
request carries the cookies of the moment it is sent (`cookies`) and the token
its page read before (`header`), the server decides later, and the answer
changes the jar when it arrives (`Deliver`) or never (`LoseAnswer`). A page that is
reloaded or closed gives its request up (`GiveUp`): the request moves to one of the
places `GivenUp`, the tab is free, and the server still carries it out. A digest
*is* its token, numbered in the order of generation; `csrf[s]` is `None` when
session `s` has no live row. `LoseCsrfCookie` is the case `refresh_csrf` is
written for.

### `…Proofs` and `MC…` modules

`XProofs` EXTENDS module `X` (or its refinement) with theorems and their proofs and
adds nothing to the model. `MCX` holds definitions for TLC: lifetimes, symmetry
sets, which transactions run.

## Runs

| Run | Instance | Question |
|---|---|---|
| `outbox_links` | 1 account, 1 worker, 2 clients, 3 jobs, 2 links, time 0–1, 1 crash | Do links stay single and die in time, and does the outbox implement `ActionChallenge`? |
| `outbox_leases` | 2 accounts, 2 workers, inline delivery, 2 jobs, 2 links, time 0–2 | Does the lease fence late workers; are jobs superseded, closed and retried soundly, and does work for one account leave the other alone? |
| `schedule` | 2 workers, 3 jobs, any of them broken, batches of 2, cadence 1 or 3, delivery 1, lease 3, 2 attempts, 1 crash | Does every sound job close, behind jobs that abort every batch and with leases that run out between the calls? |
| `sessions` | 2 accounts, 2 passwords, 1 login, 2 requests, 3 sessions, 2 changes each | Does a session ever outlive its password? |
| `locks` | 3 connections, every transaction but `RescheduleFailure` | Is user-first locking free of deadlock, and does everyone get their turn? |
| `locks_deadlock` | 2 connections, every transaction | Is the statement of the comment true of the code as it is? (No.) |
| `vault` | 1 file, 3 users, 3 requests, 2 grants, 1 crash | What survives failures between storage and database, and races of grant, delete and download; and do the services implement `FileAccess`? |
| `bootstrap` | 2 operators, both engines, 10 schemas to start from | Is the revision true, does an interrupted run resume, are unknown schemas left alone, and is a reported success one? |
| `rate_limits` | 2 clients, 3 routes, 1 peer, 2 subjects, limits of 1 (broad login: 2) | Is every limit charged, and are failures counted before they are told and bounded in spite of the race? |
| `dashboard` | 2 files, 3 calls in flight, 3 actions of the user | Do rows belong to the dialog, is a quiet page current, and does loading end? |
| `browser_one_tab` | 1 tab, 2 sessions, 5 tokens, 3 losses (requests given up, answers and cookies lost) | Is a restoration given up too early the only way to a pair that is refused? |
| `browser_tabs` | 2 tabs, 1 session, 3 tokens, 1 loss | Is the pair of cookies sound when two tabs restore it at once? (No.) |

Why the bounds are enough: two links or jobs of a kind are needed to see one
replace the other, a third job to have a notice besides; two workers to have a
late one; a lease of 1 with a clock to 2 lets a lease expire, be taken over and
expire again; verification links outlive recovery links, so that either may
expire first; two password changes can bring the first password back; three
requests are a grant, a deletion and a download at once, and three users an owner,
a grantee and somebody who is neither. Two operators are one that decides and one
that overtakes it; the revisions are modelled in full. Two clients are enough to
test a limit before either is charged, and the three routes are the three shapes
of guard: failures-only, before authentication, behind it. A grant or a
revocation is two calls, and the third is the one that overtakes; of three
actions, two can be changes after the one that opens a dialog. Crashes are bounded by
1 because a crashed call leaves only its job's lease and its link, and the next
call meets both; `outbox_leases` needs none, since a worker that takes no further
step is a dead one to the other worker. In `outbox_links` the call after a crash takes the job over when its
lease of 1 has run out; recovery links expire there, verification links in `outbox_leases`. A lease of 3 is one
longer than what a broken job costs at cadence 1, the edge of `KeepsUp`; at cadence 3
every lease may run out between two calls. `CHECK_DEADLOCK FALSE` stands wherever
the bounds make the model stop; `AccountLocks` and `OutboxSchedule` never stop and are
checked for it.

Fairness of `OutboxSchedule`: time passes and a running call goes on (weak fairness of
`Tick` and of each worker's steps); that a call starts again in time is not fairness but
`cadence`. Nothing is assumed of the transport, which may refuse for ever, nor of
requests.

Fairness of `Dashboard`: a call ends sooner or later, if only with an error (the
browser gives up), and the script handles what has arrived. Which call goes first
is open, and the user need not do anything.

Symmetry is used for workers, clients, requests, connections, operators and, where nothing
orders them, users and passwords; never in a run with a liveness property.

## What came out

**Lock order of a failed delivery** (`locks_deadlock`). `_reschedule_delivery_failure`
updates its link and then its job without the user lock. An enqueue, a password
change or a reset holds the user lock and updates jobs first and links second.
The comment at `email_outbox_service.py:152` promises that every operation on a
challenge takes the user lock first, to avoid deadlocks; this one does not.
PostgreSQL ends it by aborting one side. If it is the worker, the request cancels the
job and invalidates the link, and the exception leaves `process_security_email_job`
and ends the batch.

**Restoring the CSRF cookie from two tabs** (`browser_tabs`). Both answers carry a
token of their own, the digest of the later commit is stored, and the answer
that arrives last decides the cookie. If the two orders differ, every unsafe
request of the session is answered 403, and nothing repairs it: a 403 leaves the
cookies in place and `ensureCsrfToken` restores only a missing one.

One tab is enough if it is reloaded. It asks for a token and gives the request up
before the server has come to it; the reloaded page asks again and gets one; then
the first request is carried out, since `rotate_session_csrf` writes its digest
whatever is stored by then, and its token reaches nobody. The outcome is the same
403. `browser_one_tab` has this case and shows that with one tab there is no other:
lost answers, lost cookies, logins and logouts given up leave a pair that fits
(`MisfitIsUnheard`).

Everything else held, some of it with an exception that the property names:

- A migration interrupted on SQLite, which autocommits, can leave objects whose
  revision is not recorded; the next run fails on the object that exists
  (`Resumable` excepts `cut`). PostgreSQL has no such state.
- Two `init-db` on one legacy schema: the slower one can stamp the baseline over
  the revision the faster one has reached, and its upgrade then fails
  (`Resumable` and `SuccessIsHead` except `rewound`).
- The dashboard keeps no order among answers: a list may be replaced by an older
  one until the next refresh (`ShownIsCurrent` excepts lists that were overtaken).
- A grant or revocation answered after its dialog was closed clears the list of
  the dialog that is open by then, which keeps saying "Loading authorized users"
  when its own rows had arrived before (`LoadingEnds` excepts it).
- An interrupted deletion or an ambiguous commit leaves a row without bytes,
  which the owner can still delete; a download authorised before a revocation is
  served.
- A failed upload can leave bytes that nothing records: when the process dies, when
  removing the partial copy fails too, or when a blob was put in spite of an error
  (`BytesMatchRows` names these as the `abandoned` ones; everything else that has no
  row is logged).
- Jobs that raise at every delivery are retried without limit, and if the callers are
  slower than their leases the others starve (`EveryJobCloses` asks for `KeepsUp`).
- Requests in parallel exceed a failures-only limit by at most their number, less
  one (`FailuresBounded`).

## Proofs

Each theorem is about `Spec` for every value of the constants: any number of
accounts, workers, clients, connections, tabs, files or operators, every bound and
every timing. The only assumptions are the named ones of the modules (NULL is no
value, bounds are natural numbers, lifetimes and limits positive, `Kinds` and
`Calls` name what exists), and TLC evaluates them in the runs. Every invariant below was first
checked by TLC on the instance of its run. The proofs follow the
actions: one lemma says what an action does to the row, call or tab it is about,
and the steps of the invariants use only that.

### `SecurityOutboxProofs`

- `TypeCorrect`: `[]TypeOK`. It is inductive: that a link has the account and
  purpose of its job is what makes the later proofs work.
- `AtMostOneLiveLink`: `[]OneLiveLink`; every action that creates a live link
  invalidates its siblings in the same transaction.
- `AtMostOneOpenChallenge`: `[]OneOpenChallenge`, likewise from `CancelJobs`.
- `LeaseIsFence`: `[]LeaseFences`. Not inductive alone: two workers could hold
  equal lease times. `StaleLeaseExpired` says that the lease of a worker that has
  lost its job is older than the one in the row, because a lease is taken only
  when the old one is not in the future and its length is positive.
- `ClosedForever`: `ClosedStaysClosed`, an action property: every write to a job
  goes through a test of its lease or its being open.
- `VerifiedHasNoLink`: `[]VerifiedNeedsNoLink`, with `MootIsVerified` (`VerifiedInv`): a worker
  that found nothing to send has seen a verified account, and nothing unverifies one.
- `NoticesAreNotLost`: `[]NoticeNotLost`, with `ClaimsAreBehind` (`NoticeInv`): what a worker
  remembers of its job, its attempts included, is not ahead of the row.
- `LinksAreCurrent` (`[]LiveLinkIsCurrent`) and `NoOldRecovery`
  (`[]NoRecoverySurvivesChange`) share `LinkInv`. The difficult moment is between
  the commit of a link and its delivery, when its worker may have lost the lease:
  `OwnLink` says whose link that is, `OpenIsNewest` that each request
  replaces the open job, and `LockedIsOpen` that from the lock of the user row to
  the commit of the link the job stays open, because whoever takes over the lease
  waits for that lock.
- `OutboxImplementsActionChallenge`: `Spec => ImplementsActionChallenge`. A step
  leaves the usable links alone, takes some away (`Withdraw`, expiry included), adds
  one that was never usable (`Issue`), or is a confirmation (`Verify`, `Recover`) or
  a change of password (`ChangePassword`). Numbers of links are never reused,
  since the used ones are those up to `tokenCount`.

### `FileVaultProofs`

`IInv` joins the four invariants of the runs with what they rest on: how far the
file of each request has come (`Progress`), that keys and grant numbers not handed
out are unused (`Unused`), that an upload has its key for itself until it commits
(`UploadsAlone`), and that partial bytes have no row. From it:
`VaultTypes`, `GrantsStaySound`, `AcknowledgedIsKept`, `DeletedStaysGone`,
`PartingsHaveACause` (`[]BytesMatchRows`), the action property `DeletedIsNeverServed`
(`NeverServedAgain`), and `VaultImplementsFileAccess`: checks and storage calls
stutter, each commit is a step of `FileAccess` or none. `VaultAssumption`
includes that NULL is not a row.

### `AccountSessionsProofs`

`SessionTypes`, `SessionsAreCurrent` (`[]LiveSessionsAreCurrent`) and the action property
`ReplacementIsExact`. The invariant needs `LoginIsRecent`: if the hash a login has
read is still the stored one, then the password it has verified is the current
one. It holds because hashes are salted and never written back, and it is
the reason why comparing the hash again under the lock is enough.

### `AccountLocksProofs`

`LocksAreHeld`: `[]TypeOK`, a connection holds exactly the rows it has locked.
`UserFirstAvoidsDeadlock`: `[]NoDeadlock`, provided that `RescheduleFailure` is not among
`Kinds`; with it the statement is false (`locks_deadlock`). Every other
transaction locks one row or the user row first, so whoever waits with a row in
hand holds the user row; in a circle of waiting transactions that would be two.

### `BootstrapProofs`

The only assumption is `BootstrapAssumption`. There are three invariants, each on
top of the one before:

- `SafeInv` holds in every history: databases only grow, a revision is recorded
  after its statements, an unknown schema leads to a refusal. It gives
  `BootstrapTypes`, `RevisionsAreTrue`, `RowsAreKept` and `UnknownIsUntouched`.
- `OrderlyInv`, while no stamp has gone back (`~rewound`): what is committed is a
  revision with perhaps the beginning of the next (`Shape`), and each
  migrating run sees exactly what it has made itself, or is doomed, since
  somebody else has executed its next statement (`Paths`). It gives
  `SuccessMeansHead`: a doomed run does not finish.
- `ResumeInv`, when no SQLite migration has been cut either: a schema between two
  revisions is the work of a run that still goes on, so that a run which is alone
  finds none. It gives `RunsCanResume`.

### `RateLimitProofs`

One inductive invariant, `IInv`, kept by every action (`InvariantIsInductive`):

- `TypeCorrect`: `[]TypeOK`.
- `NoLimitIsPassedBy`: `[]EveryLimitIsCharged`. What a request has passed must be
  remembered for every stage so far (`Covered`), and the theorem needs that
  `auth_required` is a stage of its own and that uploads and downloads begin with
  their peer limit (`Group`, `PeerFirst`, proved route by route).
- `FailuresAreCounted`: `[]FailuresAreCharged`, because a request that may fail has
  tested both failures-only limits and owes exactly those (`RequestOK`).
- `FailuresAreBounded`: `[]FailuresBounded`. The counter alone says nothing about
  the requests that have passed the test and are not charged yet (`Pending`). The
  invariant bounds the sum of both: a request joins `Pending` only while the
  counter is below the limit, and a charge moves one request from the set to the
  counter.

`LimitAssumption` includes that the clients are finitely many.

### `DashboardProofs`

- `PageStaysWellFormed`: `[]TypeOK`. That the counters stay within `MaxActions`
  needs `AskedFor`: every change carried out or still to be carried out was asked
  for by an action of its own, a retried deletion included. That a busy button admits
  one call needs that a call keeps its button until it ends.
- `RowsAreTheDialogs`: `[]RowsBelongToDialog`, from `RowsFit`.
- `QuietPageIsCurrent`: `[]ShownIsCurrent`, which says nothing while calls are in
  flight. The invariants `ListIsOnItsWay` and `RowsAreOnTheirWay` do: unless an
  answer was lost, the newest answer seen is the truth, or some call will bring it: a
  read that has not been served, one that was served after the last change, or a
  change whose handler will reload. `AnswersKnown` and `SeenIsKnown` add that no
  answer is ahead of the server.

### `BrowserSessionProofs`

- `TokensAreNotShared`: `[]TypeOK` for any number of tabs: a digest is a token
  that was new when it was stored, so no two live sessions have the same.
- `OneTabKeepsItsPair`: `[]MisfitIsUnheard` if there is only one tab (`OneTab`; with
  two the digest in force can also be one whose answer was overtaken), for all
  sessions, tokens and losses. While the tab waits, the jar names the session its
  request was sent with, and a token is restored only while the jar has none
  (`JarWaits`), so the pair that an answer brings (`AnswerFits`) and the pair in the
  jar (`JarFits`) are in force together only if a request given up has changed the
  digest; `FreePlaces` says that the places of such requests are filled in order, so
  what is in them stays (`UnheardGrows`).

### Only model-checked

Liveness stays with TLC (`EveryJobCloses`, `EveryTransactionEnds`, `LoadingEnds`), and with it the whole of
`OutboxSchedule`: the installed provers do not handle `ENABLED`, on which fairness rests.
The statements that are false of the code are refuted by TLC (`locks_deadlock`,
`browser_tabs`). The first is proved under the hypothesis that repairs
it, of the pair of cookies what remains true with one tab.

## Not modelled

Hashing, secrets, message texts, the password policy and path validation (pure
functions of strings); templates and styles; deployment checks. An account is
never deleted and an address never changes, because no code does either; the
branches for those cases are left out. A client that never verified can still
request a reset, as in the code. `claim_security_email_job` under PostgreSQL may
return nothing although another job is due, when it loses a race for the first
one; that is a step that changes nothing.

The settings are read and validated once at start, before there is anything to
interleave with; only their consequences appear, as assumptions on constants or
in the schedule of the outbox. The comparison of `Origin` headers before a CSRF
restoration is a predicate on one request. Downgrades and the offline mode of the
migrations are run by hand, and no code calls them. The windows and counters of
Flask-Limiter are external: a window may end at any time, a counter is exact.

## Plan

1. Model: pure operators (retry delay, password policy) against reference
   definitions.
2. Prove: bounds of the retry delay (`RetryDelay`, the cap at exponent 30), the
   refinement of `ActionChallenge` and `FileAccess` by statements about
   them alone (a spent link is never usable again, a gone file has no readers).

# Verification of the PFM backend

TLA+ models of the backend in `src/pfm/app`, model-checked with TLC on small
instances and proved with TLAPS for every value of the constants. This file says what
the system is made of, which part is modelled where, what each run and each theorem
shows, and what is left.

## 1. Inventory

The backend is a FastAPI application (one event loop per process, several processes),
a PostgreSQL database, a Redis server, Celery workers, an identity provider (Supabase)
and two outbound services. "Hard" below is what a unit test hardly reaches.

| Component (source) | State it keeps | Operations | Hard behaviour | What makes it correct |
|---|---|---|---|---|
| Idempotency executor (`core/idempotency.py`, `models/idempotency.py`, `workers/idempotency_tasks.py`) | one row per (scope, key): status, owner, lease, expiry, stored result; per request a claim and a lease-renewal task | `execute` = claim, run the operation in the row's transaction or replay; release; renew; periodic clean-up | concurrent first requests, lapsed leases taken over, rows deleted by id between a read and a write, cancelled requests, lost commits | performed once per key; what is replayed was committed for the same payload; a claim left behind becomes free; every request is answered |
| Redis service (`db/redis.py`) | published client, generation, stopped flag, time of the last failure, a lock | `start`, `ensure_started`, `require_client`, `stop` | connection attempts racing `stop`, cancelled attempts, callers queued behind a failure | stopped is final, no connection is lost, attempts are spaced, one client is published |
| Rate limiter (`core/rate_limit.py`) | limiter per policy, lock per policy | warm-up, dependency per request in five tiers | Redis failing at any of five points, concurrent construction of a bucket, a bucket built on a client that is gone | strict tiers fail closed, the others open; one bucket per policy, on the published client |
| Auth provisioning (`auth/service.py`, `auth/repository.py`, `models/user.py`, `models/auth_identity.py`) | rows of `users` and `auth_identities` with their unique keys | sign-up, sign-in, refresh, confirm e-mail (upsert of the local user); authenticate a request | two first sign-ins of one account, provider-side changes of address, a row changed between its read and its write | one user per identity for ever, no user without identity, authentication provisions nobody |
| JWKS cache and verifier (`auth/jwks.py`, `auth/verifier.py`, `auth/claims.py`) | key set, expiry, a lock | verify a token: look its key up, fetch, fetch again for an unknown key | rotation while a set is fetched, failed and cancelled fetches with the lock, callers queued behind them | keys never go back; no published key is unknown; withdrawn keys go in time |
| Supabase provider (`auth/supabase.py`, `auth/provider.py`) | none; the provider keeps one-time codes and passwords | sign up, sign in, refresh, two resets, two confirmations, log out | the reset of two calls that fails between them, effects whose answer is lost, one code sent twice | the outcome reported is the outcome; every call returns |
| Outbound clients (`clients/*.py`) | shared client per service | request with retries and back-off, close | retry of what was applied, the deadline in the middle of it | bounded attempts |
| Transaction import and tasks (`api/transactions.py`, `services/transactions.py`, `workers/*.py`) | the queue, the messages workers hold | ask Plaid, dispatch, run, retry, redeliver | a deadline at any await, an ambiguous dispatch, a worker that dies with a message | the answer tells whether the task was queued; a queued task is not lost and is settled |
| HTTP middleware (`middleware/*.py`, `core/context.py`) | per request: response started, event emitted | deadline, body limit, completion event, exception handlers | a deadline or an exception while the response is being sent | one response and one event per request |
| Life cycle and readiness (`main.py`, `api/health.py`, `db/session.py`) | what is open, and whose | start, serve, clean up under a deadline | clean-up that raises or is too slow, resources opened late, several applications in one interpreter | only a fault leaves anything open |
| Telemetry and analytics (`core/telemetry/*.py`, `core/analytics/*.py`) | process-wide providers, the active runtime | bootstrap, shut down, exit handlers | a bootstrap that fails half-way | what was recorded is flushed |
| Authentication API and dependencies, configuration, problem responses, taxonomy, mock provider, migrations, notebooks | none that other components read | | | listed in `PROJECT.json` with the reason each is left out |

Interactions. A request passes the middleware (whose deadline *cancels* the task that
serves it), the limiter (which asks the Redis service for a client), authentication
(key set, then `auth_identities`), and for a mutation the idempotency executor, whose
row and business writes share one database transaction. The life cycle starts and stops
the Redis service and warms the limiter up. The health probe calls `ensure_started`
under a deadline shorter than the connection's own. An
import asks Plaid through an outbound client and hands its task to the broker; Celery
workers run it, and run the clean-up of expired keys, beside the requests. A session the
identity provider issues is verified like any bearer token, through the key set.

The list `hazards` of `PROJECT.json` names every place where this bites, and the
properties that cover it.

## 2. The modules

| Module | Of | Models |
|---|---|---|
| `Idempotency` | `core/idempotency.py` | the whole executor for one key, renewal tasks, clean-up, faults |
| `OncePerKey` | its docstring's promise | abstract: a mutation is performed once and its result repeated |
| `IdempotencyInv` | | inductive invariants of `Idempotency`, and how far a request is from its end |
| `IdempotencyProofs`, `IdempotencyOnceProofs` | | theorems about it |
| `RedisService` | `db/redis.py` | start, lazy start, recovery-aware access, stop, cancellation; its inductive invariant |
| `RedisServiceProofs` | | theorems about it |
| `RateLimiter` | `core/rate_limit.py` | the limiter composed with the Redis service (EXTENDS it: same client, same callers) |
| `RateLimiterProofs` | | theorems about it, using those of the service |
| `AuthProvisioning` | `auth/service.py`, `auth/repository.py`, the two tables | the upsert of the local user and the authentication of requests, statement by statement; its inductive invariant |
| `AuthProvisioningProofs` | | theorems about it |
| `JwksCache` | `auth/jwks.py`, `auth/verifier.py` | verifications over the cached key set, and the endpoint that rotates it |
| `SupabaseProvider` | `auth/supabase.py` | the provider adapter (EXTENDS `JwksCache`: an issued session is verified there) |
| `SupabaseProviderProofs` | | theorems about both |
| `RequestPipeline` | `middleware/*.py` as `create_app` stacks them | one response and one completion event per request |
| `HttpClient` | `clients/base.py` | a call with its retries |
| `TransactionImport` | `api/transactions.py`, `services/transactions.py`, `workers/*.py` | the import (EXTENDS both: the same request is in the pipeline, in the call and in the queue) and the workers |
| `TransactionImportProofs` | | theorems about the three |
| `Lifecycle` | `main.py`, `core/telemetry/bootstrap.py`, `workers/celery_app.py` | the life of an API process, a worker child, the beat |
| `LifecycleProofs` | | theorems about it |
| `MC*` and `*.cfg` | | small instances |

### Idempotency

*State.* `row` is the key's row of `idempotency_requests` (id, fingerprint, status,
lease owner, lease and retention ends, result, replay count). For each request: `pc`
(the next step of `execute`), `stamp` (the `lease_expires_at` computed once per
`_claim_request`), `seen` and `snap` (what its last SELECT returned), `claim`,
`renewal` (its background task), `effect` (what its operation committed) and `reply`.
`sweep` is the row the clean-up job has selected and not yet deleted.

*Actions.* Every transaction of the code is a SELECT, an await, and at most one write
with its commit; the SELECT is one action and the write another, so everything another
session commits in between is explored. UPDATE and DELETE name the row by its id only,
as the ORM does without a version column: a steal, a release and the clean-up write over
whatever the row has become. `Select*`, `Insert`, `InsertConflict`, `Steal`,
`StealStale`, `DeleteExpired` are `_claim_request`; `Load`, `Complete*`,
`OperationFails`, `StopRenewal` are `_execute_claimed_operation`; `Release*` is
`_release_claim`; `Replay*` is `_replay_record`; `Renew*` is `_renew_lease`; `Cleanup*`
is the Celery job. `Abandon` is a request cancelled by the deadline of
`RequestTimeoutMiddleware`, or a dead process: `CancelledError` is no `Exception`, so
nothing is released. `CommitUnacknowledged` is a commit whose acknowledgement is lost.

*Constants.* `Faulty` says which requests may be cut short; `Punctual` says that a live
request acts, and renews, before its lease runs out. The lease is 300 s and is renewed
every third of it, and a request is cancelled after 30 s, so punctuality fails only where
the event loop or the database stalls for minutes. Properties that hold without these
assumptions are checked without them.

### RedisService

*State.* The fields of `RedisService` (`client`, `stopped`, `generation`,
`lastFailure`, `lock`) and per caller where it is suspended, the client it was given or
is closing, and its answer. A caller makes one call, so it builds at most one client,
which bears its name; `conn` says whether that client's connection is open.

*Actions.* The code between two awaits is atomic under asyncio, so an action runs from
one await that can suspend to the next. `Connect` builds a client and sends the ping;
`Publish`, `PingFails` and `Discard` are its ends; `Stop` takes the client under the
lock, `StopCloses` closes it outside. `Cancel` raises `CancelledError` at an await of a
caller in `Hasty`: the ping's client is then neither published nor closed and no failure
is stamped, which is what `except Exception` does. `asyncio.Lock` is first come, first
served; here any waiter may be next, which allows more orders. A close ends (`Closes`)
or raises (`CloseFails`, of a client in `Brittle`), after a failed ping as well as in
`StopCloses`; one that raises leaves its connection open. Lines 253-254
(`require_client` finding the service unavailable right after `ensure_started`) cannot
be reached, as no await lies between.

### RateLimiter

Extends `RedisService`: a request of a strict tier *is* a caller of the service
(`Strict \subseteq Callers`) and enters it through `AskService`. `limiter[p]` is the
cached limiter of a policy, named by the client its bucket was built on. The five points
of failure (no client after a restart attempt, none at the look-up, none at the second
look under the lock, the bucket's construction, the count itself) are five actions that
all answer `Uncountable(r)`, which refuses a strict tier and admits an open one. Whether a bucket
is full belongs to an external library: admitted and limited are both possible. The
cache's generation stamp is not modelled, because `PublishedOnce` shows that no second
generation is ever published. Requests come after the warm-up (the server awaits the
life cycle's start), which is one action.

### AuthProvisioning

*State.* `users` and `identities` are the committed rows; a user is named by the call
that inserts it. Per call: `pc` (the next statement), `profile` (the address the provider
gave), `found` and `loaded` (the user it works on and that user's row as it was read),
`holds` (what its open transaction has locked) and `outcome` (an answer, a violated
constraint, or any other failure). `account` is what the
provider knows.

*Actions.* `_upsert_local_user` is one transaction at READ COMMITTED: each SELECT reads
what is committed by then, and a flush is as many actions as it takes locks one after
another: `Update` (the row of the user, and with it the address the row has) and `Rekey`
(the new address) and `UpdateIdentity` for an account that is linked; `InsertUser`, or
`Sync` for a user found by its address whose profile has changed, then `Link` (the key of
the identity) and `Refer` (the share lock its foreign key takes on the user), for one that
is not; `Touch` for the login. A statement whose lock another transaction holds waits: its
action is disabled until the other has ended, and is then the statement or its `*Conflict`.
Transactions can wait for one another in a circle; `BreakCircle` is PostgreSQL failing
one of them. The written values become visible at `Commit`. A call's `Op` says which
method it is: `"session"` stands for sign-up, sign-in and refresh, which verify the
returned token and mark the login; `"confirm"` does neither; `"request"` is
`authenticate_request`, which only reads. `Cut` is a deadline or a crash; `CutAfterCommit` is a lost acknowledgement.

*Abstracted.* The ORM writes the columns that differ from the row it loaded; only the
unique address, `is_active` and the owner of an identity are kept; whether another column
of the user or of the identity differs, so that the statement is sent at all, is either
way. The row and the index entry of an identity are one lock, as every writer wants both.
Nothing deletes rows, so the branch "identity without
a user" (line 260) cannot be reached. Deactivation is done by nobody in the code and is an
operator's action. That the provider keeps addresses distinct is assumed.

### JwksCache

*State.* `cached` and `expiresAt` are the fields of `JwksCache`; a key set is named by the
number of the *edition* the endpoint published, and `Published` says which keys are in
which. Per verification: the key id of its token, whether its refresh is forced, and
the answer it was given. `birth` and `gone` are auxiliary: what was published when the
verification began, and when a key was last withdrawn.

*Actions.* `AskHit`, `AskMiss`, `AskStale` are `_get_keys` before any await; `Enter*` is
`_refresh_keys` with the lock, which looks again unless it is forced; `Serve` and
`Receive` are the request and its answer, with a rotation possible in between;
`FetchFails` is every error on the way, which leaves the old set. `get_signing_key` goes
round once more with force (`FetchAgain`) for a key it did not find, so a caller fetches
at most twice. `Release` is the end of `async with`, for whatever reason. What
`jwt.decode` says of a token whose key was found is either verdict.

*Times.* The clock is one for the endpoint and the process, and an answer travels at most
`Transit`, because the HTTP client's read timeout ends it.

### SupabaseProvider

`wire[c]` is where the request of a call is: sent, applied by the provider, refused, or
over. `Lost` may strike at any of these, so "failed" says nothing about the effect; it
stands for the 503 and 504 of `_request_json`. `ClientError` is what a 4xx becomes: hidden
(`allow_expected_client_errors`), the error of a one-time code, or `_client_error`'s.
`CodeProved` sends the second request of `confirm_password_reset` with the session the
first returned. One account and one outstanding code are modelled, and any number of
callers who have the code. An effect that takes place after the caller has given up is
not: it would be one that no answer speaks of.

### RequestPipeline, HttpClient, TransactionImport

A response is a start and a body. `SendStart` is a start on its way outwards: every
layer's wrapped `send` notes it synchronously and only then may the server wait, so
"begun" and "delivered" differ for a while, and the deadline (`Deadline`) may strike
there. `guarded` is the extent of `wait_for`. `Propagate` is an exception on its way out:
the logging layer emits if it has not, then either the outermost middleware or the server
answers 500 if nothing was written. A `TimeoutError` of the route itself is
indistinguishable from the deadline and is answered 503. `BodySizeLimitMiddleware`'s
`except RequestTooLargeProblem` cannot be reached in `create_app`, as the exception
handlers inside it have made a response of the problem by then (`Respond`).

`HttpClient` counts attempts; `Retry` follows a timeout, a broken connection or a 5xx,
whether or not Plaid has handled the attempt. (Plaid's timeout of 30 s per attempt equals
the default deadline of a request, so that a retry after a timeout needs a configuration
with a longer deadline; one after a 5xx does not.)

The import answers 202 from the same step that queues the task (`Accept`), as
`dispatch_task` does not await. `DispatchFails` is an error of the broker that leaves it
open whether the message was taken. A worker acknowledges after the run
(`task_acks_late`); `LoseWorker` gives an unacknowledged message back
(`task_reject_on_worker_lost`), also one whose task has run, or has been published
again for a retry: a task may run more than once, which the code accepts. The
task's body computes nothing yet. The dead-letter queue that `openspec/` describes is not
in the code. The gauge of tasks in flight counts `before_start` and `after_return`, whose
pairing is Celery's.

### Lifecycle

`open` holds what is open, each thing with its owner: the Plaid client and the engine's
pool belong to the process (owner 0), the Redis service and the analytics to one
application. `StartFails` and `Start` are `lifespan` up to the bootstrap of telemetry,
`Use` is a request that opens something lazily, `Close`, `CloseRaises` and `Cut` are one
step of `_cleanup_resources` that ends, raises, or is cut off by `shutdown_timeout`;
`Finish` closes the analytics and the telemetry. The Anthropic client is opened by
nobody. A new application may start in the same interpreter, as the tests do
(`test_telemetry.py`); what its predecessor left to the process, it inherits.
Bootstrap and shutdown of telemetry do not await and are one step each. A worker child
leaves by `os._exit` and runs no exit handler; the beat has no shutdown signal and runs
them.

## 3. What is checked

| Run | Instance | What it shows |
|---|---|---|
| `idempotency_once` | 3 requests, one payload, nobody cut short, lease 2, retention 2, clock to 3 | performed once, result kept for the retention, `OncePerKey` implemented |
| `idempotency_one_retry` | 1 request that may be cut short at any step, 1 retry; lease 2, retention 3, clock to 4 | the two perform the operation together only once a record has outlived its retention, a dead claim is neither prolonged nor kept for ever, every request is answered |
| `idempotency_retries` | a request that may be cut short, a retry of it and a request with another body, all arbitrarily slow; lease 1, retention 1, clock to 1 | whatever takeovers, deletions and replays do to each other, what is replayed is genuine, a completed row stays completed and replayable and a refusal leaves nothing behind |
| `idempotency_double`, `idempotency_erased` | as above | violations, see section 5 |
| `redis_service` | a start, a lazy call, a probe and a stop, all but the stop cancellable, closes of two clients that may raise, cool-down 2, clock to 3 | stop is final and releases everything, no connection is lost but by a cancelled caller or a close that raises, failures are a cool-down apart, one publication, no call hangs |
| `rate_limiter` | start, stop, 2 strict requests and 1 open request of the same policy, one cancellable inside the service | tiers fail their way, one bucket per policy on the published client, every request is decided |
| `auth_provisioning` | 2 first sign-ins of one account, the confirmation of another account's address, a request; 2 changes of address | one user per account, nobody half provisioned, the loser of a race may retry, a deactivation stays, transactions wait for one another in a circle only after a change of address, every call ends |
| `supabase_provider` | 2 callers, one of whom a deadline may cancel, one code; rotation old, old and new, new; time to live 1, transit 1, clock to 3 | the key set never goes back, refuses no published key and drops withdrawn ones; a reset reports what became of the account; every call returns |
| `transaction_import` | 2 requests, one an import and the other an import or a health check; 2 workers, 1 retry of Plaid and of the task, 1 worker lost | one response and one event per request, the answer tells whether the task was queued, a queued task is not lost and is settled, every request ends |
| `import_status` | 1 import, no lost worker | violation, see section 5 |
| `lifecycle` | an API process with up to 3 applications, a worker child, a beat | only a fault leaves anything open, and only from where it struck; what was recorded is flushed |

*Bounds.* `MaxTime` bounds the clock: it exceeds lease and retention (cool-down) by at
least one tick, so that each can run out, be renewed and run out again while requests are
under way; in `idempotency_retries`, where nobody has to be punctual, it is enough that
each can run out once, at the same moment. Two requests suffice for every race of one claim against one other party; the
third is there for two takeovers of one lapsed lease, or for the body that differs. Four callers let each kind of call
of the Redis service meet every other; a further caller of a kind is what the proofs add.
Two first sign-ins are the race of `_upsert_local_user`; two changes of address are what
it takes for an account to meet the row of another one, and the confirmation belongs to
that other account: with them two calls wait for each other, so that `BreakCircle`
happens. (Three changes let two accounts exchange their addresses, and let three calls
form a circle; the actions are the same.) Two verifications are what it takes for one
to fetch while the other waits or reads; the rotation adds a key and withdraws one, and
the clock goes far enough for a set fetched before the withdrawal to expire after it. Two
imports and two workers let every message meet a loss, a retry and another worker; one
retry and one loss each let both happen to one task. Three applications let a second one
inherit from one that failed and leave to a third. Symmetry is used only in runs
without liveness, among requests with equal payload and equal faults.

*Fairness.* `Idempotency`: weak fairness of the clock and of each request's own steps,
since the event loop runs every coroutine that is ready and every statement ends or
errors. Arrivals, renewals, clean-up and faults are never required to happen.
`RedisService`: weak fairness of each caller's steps under, or queueing for, the lock: a
ping ends with an answer or a socket time-out, and a free lock is handed on. Weak
fairness is enough as each caller calls once and the queue is finite. `RateLimiter`: the
same for its own steps. `AuthProvisioning`: one weak fairness condition on
"some call that has begun executes a statement, or a circle is broken", as the database
goes on while any statement can and PostgreSQL looks for circles; fairness of single calls is not needed, because each has few statements.
`SupabaseProvider`: weak fairness of
each caller's own steps, where a failed fetch or a lost answer counts as a step (the
HTTP client's timeout); with two callers weak fairness is enough for the lock's queue.
`TransactionImport`: weak fairness of each request's and each worker's own steps,
which a running event loop and a running worker justify; the deadline, the loss of a
worker and the arrival of requests are not counted on. `Lifecycle` states safety only and
no fairness. No run needs fairness of a fault or of an arrival.

The type invariants are theorems, so the runs leave them to the proofs.

Each property has a mutant in `PROJECT.json`: an operator beside the correct one, marked
`\* Bug:`, that states how the code could plausibly have been written wrongly.

## 4. What is proved

Theorems hold for every set of requests, callers and policies, every lease, retention,
cool-down and clock bound, from the `ASSUME`s of the modules alone, unless stated.

- **`Idempotency`, unconditionally** (`IdempotencyProofs`): `TypeOK`, `ReplayIsGenuine`,
  `CompletedRowIsReplayable`, `RefusalLeavesNothing` and `NeverReopened`, from the
  inductive `SafetyInv`. None of them is inductive alone. `RowInv` says that a completed
  row's result was committed by a request that had claimed *this* row (`claim` against
  `row.id`); `TargetInv` says that whatever a request is about to steal or replay carries
  its own payload, which is what is left of the check in `_claim_request` by the time the
  write happens; `OutcomeInv` says what a request has performed at each step.
- **`Idempotency`, once** (`IdempotencyOnceProofs`). The promises that finding
  `idempotency_double` breaks are proved of every behaviour in which what it consists of
  does not happen: *no two takeovers overlap* (`TakeoversApart`: no two requests have both
  read a lapsed lease and not yet written), and holders are `Punctual`. Under that
  hypothesis, for any number of requests that may be cut short anywhere, `ExecutedOnce`,
  `DeadLeaseNotRenewed` and the refinement `ImplementsOncePerKey` hold,
  from the inductive `ApartInv`: a row in PROCESSING has an owner who executes under a
  running lease or has ended (`OwnerInv`); any other request that has claimed it has
  ended, or has seen it completed (`Excluded`); whoever's lapsed lease was read is gone
  (`StealInv`), which is what a second takeover in between would break; a result about to
  be replayed still stands (`StandingInv`). `OrderlyApart` then proves the hypothesis
  itself of two classes of instances, named `Orderly`: nobody is cut short
  (`NobodyTakesOver`: a request that is answered has completed or deleted its row, so no
  lapsed lease is ever found), or there are two requests, an attempt and its one retry,
  whatever happens to either. So the theorems `ExecutesOnce`, `LiveClaim`, `DeadLease` and
  `Refinement` assume `Orderly` and nothing about behaviours. `LiveClaim` says who performs
  the operation at the same time: nobody under one claim (`ExclusiveInv`: of those who have
  claimed a row all but one have ended), and under two claims only when the record of one
  has outlived its retention (`seen[r] + Retention <= now`, `AgedInv` below). That case is
  real: a lease is renewed for as long as the operation takes and the retention is not, so
  an operation longer than the retention (seven days by default, against 30 s for a request)
  loses its row to the clean-up or to the next request, which claims the key anew. Instances of `Orderly` are
  the runs `idempotency_once` and `idempotency_one_retry`; that of `idempotency_double`,
  with a second retry, is not.
- **`Idempotency`, results kept.** `CompletedKept` holds of every behaviour without a
  takeover (`ResultKeptApart`, from `AgedInv`: while nobody takes a claim over, only its
  inserter has claimed a row, and a row that somebody is about to delete for its age has
  expired), whoever is late or cut short, hence when nobody is cut short (`ResultKept`).
  Finding `idempotency_erased` therefore needs a takeover.
- **`Idempotency`, no endless round.** `_claim_request` and `execute()` loop until they
  find a row they can use or make one. `NoEndlessRound` gives the measure: `StepsLeft(r)`
  falls with every step of `r` and rises with nobody's, for any finite set of requests and
  any faults. It counts the way to the end without another round (`WayLeft`), and three
  steps for each insertion or deletion of the row that is still possible: ids are minted
  once (`IdsAndLeases`, which also bounds leases and expiries), so each request inserts one row at most and each row is deleted
  once (`ChangesLeft`); a round is only repeated after one of these, or after finding that
  it happened (`Outdated`). `StepsBounded` draws the bound: six steps for each request and
  ten.
- **`RedisService`** (`RedisServiceProofs`): `ServiceInv` is inductive and gives
  `TypeOK`, `StoppedForGood`, `NoConnectionLost`, `FailuresSpaced`, `PublishedOnce`, for any set of
  clients whose close may raise.
  The parts that carry it: the lock is held exactly during an attempt and an attempt is
  made only where nothing is published and nothing stopped (`LockInv`); a failure is
  remembered as long as another attempt is possible (`FailureInv`). A second invariant,
  `ServedInv`, follows each client: the published one is connected, whoever was answered
  with a client has the published one until a stop, and every call that has returned has
  an answer. Of `StopReleasesAll` the safety half is proved: after a stop only its own
  close has anything left to release (`StopReleases`), and what is released stays so
  (`StaysReleased`), with any caller and also the stop cancelled. Who waits for the lock
  waits for an attempt under way (`WaitsForAnAttempt`).
- **`RateLimiter`** (`RateLimiterProofs`): a behaviour of the composition is one of the
  service (`ServiceKept`), so `ServiceInv` holds in it; with it `LimiterInv` is
  inductive and gives `TiersFailTheirWay`, `BuiltOnPublished` and `OneBucketPerPolicy`.
  With `ServedInv` a cached limiter's connection is open until a stop
  (`BucketsConnected`). Nobody queues for a policy's limiter that nobody is building
  (`QueuedBehindABuilder`), and a request that asked the service to reconnect waits for an
  attempt or has an answer its dependency handles (`AskedIsInHand`), both from
  `HandsInv`: the holder of a policy's lock is building that policy's bucket.
- **`AuthProvisioning`** (`AuthProvisioningProofs`): `ProvisioningInv` is inductive and
  gives `TypeOK`, `AnswersNameTheOwner`, `ProvisionedWhole` and `LoserMayRetry`, and with
  the step lemmas `DeactivationSticks`. None holds by itself: that a commit links an
  account which nobody has linked meanwhile comes from the key locked since the insert
  (`LockInv`, `OwnerInv`); that it gives no row a second address, from the address locked
  since the flush (`AddressInv`); that the loser of a race was beaten by its own account,
  from all rows still having first addresses while none has moved (`CalmInv`). The proof
  splits a step into those that leave the committed rows alone, a commit, and the steps
  of others. Deadlock: transactions do not take their locks in one order. `Sync` takes the
  user's row before the identity's key and `Touch` takes it after, so once a call links its
  account to another account's user, two calls of it can hold the one and wait for the
  other; and two accounts that exchange addresses wait for each other's. Both need an
  address that has passed from one account to another at the provider, and that is what is
  proved: until one has, a call waits only for calls further on (`WaitsOrdered`), no
  transactions wait in a circle (`DeadlockNeedsMoves`), and whenever one waits, some call
  further on waits for nobody (`SomebodyGoesOn`), for any number of calls. That every call
  ends after a move too, with circles broken, is checked by TLC (`EveryCallEnds`).

- **`JwksCache`** (`SupabaseProviderProofs`): `JwksInv` is inductive and gives
  `KeysNeverGoBack`, `UnknownMeansUnpublished` and `AcceptsOnlyRecentKeys` for every
  rotation, also one that brings a withdrawn key back. What carries it: who asks the
  endpoint holds the lock, so the answer in a caller's hands is at least as new as the
  cache and as its token (`AnswersAreNew`); a key that is known and no longer published
  was withdrawn less than a time to live and a transit before the set expires
  (`KnownWereRecent`). A refusal comes from a forced fetch only, whose edition lies
  between the caller's birth and now.
  A verification has at most eight steps, the forced look-up among them
  (`EveryStepCounts`), and waits for the lock only behind a fetch that is under way
  (`WaitsForAFetch`).
- **`SupabaseProvider`** (`SupabaseProviderProofs`): every step is one of the cache or
  leaves it alone (`ProviderUsesCache`), so the cache's theorems hold of it; and
  `ResetAnswersTrue`, from where the code, who spent it and who set a password stand at
  each leg.
- **`TransactionImport`** (`TransactionImportProofs`): `OneResponse` and `LoggedOnce` from
  `PipelineInv`, which relates what the layers believe, what the server has written and
  what is logged at each place (one event, of the start that was delivered or of one that
  was on its way when the server's 500 took its place); `AnswerTellsWhetherQueued` from `ToldInv`, which says the
  same of a response still on its way; `AcceptedNotLost` step by step over the queue. The
  import implements the specifications of its two parts (`ImportUsesPipeline`,
  `ImportUsesClient`), so what is proved of either holds in it. A request makes at most
  three steps for each permitted retry of Plaid, and eight (`RequestsGetOn`,
  `RequestsAreShort`): a repetition is paid for by an attempt that is used up.
- **`Lifecycle`** (`LifecycleProofs`): `LeftOpenOnlyByFault` and `FlushedAtExit` from
  `LifeInv`: what the clean-up has passed is closed and stays so, and an exit handler is
  registered whenever anything may be unflushed.

*Only model-checked.* Every safety and action property of a run is a theorem, some under
the hypotheses named above. What is left to TLC is liveness (`EveryRequestAnswered`,
`AbandonedKeyRecovers`, `EveryCallReturns`, `StopReleasesAll`, `EveryRequestDecided`,
`EveryCallEnds`, `AcceptedIsSettled`, `EveryRequestEnds`): fairness and ENABLED are beyond
the prover. The half of it that is safety is proved: the measures of the executor's, the
verification's and the import's loops, and of every lock that whoever waits for it waits
for somebody who can go on. What remains is that a coroutine which can run is run. Two
measures are not stated, as they are sums over messages that no installed prover can
reason about (induction over a finite set): how often a task runs in all, and how many
messages there are for it.

## 5. Findings

- `idempotency_double`: two retries that both read a lapsed lease both take the row over
  (UPDATE by id, no version), and `_execute_claimed_operation` tests only the owner, not
  the status: after the first retry has completed, the second executes the mutation
  again. A takeover whose WHERE named the owner and status it had read would repair it.
- `idempotency_erased`: a row selected as expired is deleted by id although a takeover
  refreshed and completed it in between, so a fresh result is lost.

- `import_status`: `docs/observability.md:127-128` says that the event is emitted for
  the final response status; `RequestLoggingMiddleware` emits it when the start of a response
  passes it. If the deadline or an exception strikes while that start waits to be
  written, the server answers 500 in its place, and the event has the status of the start
  that nobody received (`LoggedAsSent`). `LoggedOnce` states what does hold: one event,
  and another status than the client's only in this case.

Differences without a run:

- `openspec/.../reliability/spec.md:16` lets a concurrent duplicate wait and return the
  stored response; the code answers 409 at once.
- The import route requires an `Idempotency-Key` and never calls the executor: the same
  request sent twice queues its transactions twice (hazard at
  `services/transactions.py:59`).
- A sign-up whose account waits for confirmation has no session in the provider's answer;
  `_parse_provider_session` raises before `requires_email_verification` is computed
  (`auth/supabase.py:125`), and the client is told 503 although the account exists.
- In a password reset a 4xx of the second request becomes "invalid credentials" after the
  code is spent; the client cannot repeat it with the same code.
- A worker that dies between the publication of a retry and its acknowledgement leaves
  two messages for one task.
- A worker child whose bootstrap of telemetry failed after the providers were set has
  neither a runtime to flush nor an exit handler (the exception in `FlushedAtExit`).
- A Plaid client whose close raised stays in its module and is used by the next
  application of the interpreter.
- The unit of `Rate(limit, window)`'s interval (`core/rate_limit.py:203`) depends on the
  installed library and cannot be settled from the source.

## 6. What could follow

The plan of this project was executed in the order: executor, Redis service, limiter,
provisioning, then the key cache and the provider, the pipeline with the import, and the
life cycle. What would add most to it next: once the takeover's WHERE names the owner it
has read (section 5), `ExecutedOnce` without the hypothesis that takeovers are apart; the
composition of the import with the executor once the route calls it; a task body once
there is one.

## 7. Not modelled, and why

- *Configuration* (`config.py`), *problem responses* (`core/exceptions.py` and the modules
  that format with it) and the *category taxonomy* (`engine/*.py`) are pure functions and
  constant tables: no state, no order of events, and unit tests enumerate them.
- *Authentication API and dependencies* call the service that `AuthProvisioning` models
  and shape its results; they keep nothing between requests. The *mock provider* is a
  double for tests.
- The middleware layers that set context variables or headers (ids, user context,
  security headers, CORS) keep nothing that another request can see.
- *Readiness* reads flags and pings; `shutting_down` is set after the server has drained
  its requests, so a probe that sees it is one that came in between. What a probe does to
  Redis is a caller of `RedisService`.
- `AnthropicClient.create_message` has no caller.
- What telemetry records, how it is formatted, and the metric registry change nothing
  that another component reads; the providers' life is in `Lifecycle`.
- *Migrations* run once; the constraints they create are what the models of the tables
  assume. *Notebooks* are exploration and not part of the program, though they are the
  larger part of its lines.
- What a bucket of the limiter counts, how a token's signature is checked and what
  PostgreSQL, Celery and the broker do inside belong to them; the models take from them
  what the code relies on.

Out of the prover's reach: liveness (fairness and ENABLED), and what a recursive
definition computes for every input; no module here declares a recursive operator.

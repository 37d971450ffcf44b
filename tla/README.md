# A TLA+ verification of QuoinAPI

QuoinAPI (package `app`) is a FastAPI service template: a users API over
PostgreSQL, bearer tokens checked against a remote key set, a shared outbound
HTTP client, a stack of ASGI middlewares and a graceful shutdown. This directory
holds TLA+ modules that model its concurrent core, its access rules, its
migrations and its release scripts, the TLC configurations that
model-check them, theorems about them that TLAPS checks, and `PROJECT.json`,
which maps every definition to the lines it models.

All paths below are relative to the repository root; `src/` stands before them
in `PROJECT.json`.

## 1. The system

The process is one asyncio event loop. Every request is a task; tasks switch
only at an `await`, so the code between two awaits is atomic in memory, but not
in the database, where every statement is a step of its own.

| Component | Code | State it keeps | Operations | Hard behaviour |
|---|---|---|---|---|
| User module | `app/modules/user` | the `users` table (soft-deleted rows stay) | create, get, list, update, delete | lookup and write are separate statements; rows change between them |
| Database session | `app/db/session.py` | one transaction per request, a pool of connections | begin, flush, commit, rollback | commit before the response; failures and cancellation at every statement |
| JWKS cache | `app/core/security.py` 80-271 | keys, fetch and attempt times, a lock, a background task | look up, fetch, refresh | queueing on the lock, failing and rotating provider, cancellation |
| Token decoding, roles | `app/core/security.py` 274-508 | none | validate, require roles | a decision over many claims and settings |
| Outbound HTTP client | `app/http/client.py` | one circuit per host (purgatory), a connection pool | request, close | retries against applied writes; late results against an open circuit |
| Request pipeline | `app/core/middlewares.py`, `exception_handlers.py` | per request: has a response started, bytes read, status seen | timeout, size cap, error net, in-flight bracket, access log, CORS, trusted host | who answers, exactly once, when several layers want to |
| Lifecycle | `app/core/lifecycle.py`, `app/main.py` | in-flight count, idle event, shutting-down flag, client and engine | acquire, release, drain, shut down | requests that enter, hang or are cancelled while the process stops |
| User listing | `app/core/pagination.py`, `app/modules/user/repository.py` 27-34, 140-225 | none: each page is a request | a page: rows, then their total | two statements and many requests, with commits in between |
| Settings | `app/core/config.py`, `app/main.py` | one start-up record from two sources | validation for production, CORS and host checks | a conjunction of checks, each decisive later |
| Migrations | `alembic` | the schema, the rows, the revision | upgrade to head, downgrade anywhere | data a downgrade cannot represent; several processes; releases writing meanwhile |
| Migration guard | `scripts/migration_guard.py` | none | scan a script | which calls it lets through |
| Release scripts | `scripts/bump_version.py`, `tag_release.py` | two files, git tags, the remote, GitHub releases | bump, tag, push, publish | stopping half-way and being run again, from another clone |
| System routes | `app/modules/system` | none | health, readiness, home page | reads the shutting-down flag |
| Other scripts | `scripts/` | none, or generated text | scaffold, set up, sync | none |
| Telemetry, logging, OpenAPI, versioning, schemas | `app/core` | library configuration | set up | none |

How they interact:

- A request passes the pipeline outermost first (`configure_middlewares`):
  security headers, request id, access log, trusted host, CORS, timeout, size
  limit, in-flight bracket, unhandled-error net, then FastAPI with its exception
  handlers. The response comes back through the same layers.
- The timeout layer cancels whatever the request awaits at that moment: a
  statement of the session, the lock or fetch of the key cache, an outbound
  attempt, a send. `Timeout`, `Cancel`, `Cancel` and `TimeOut` of the four
  modules are this one cancellation, seen from each component.
- The key cache fetches through the shared HTTP client, whose errors become the
  `upstream` answer of a token check.
- A page of the listing is a request like any other: the host check, the caller
  and roles, the parameters, then the session. What a boot with some settings
  allows later (`AccessControl`) is only seen by composing the two.
- Migrations run beside the application: a release at head and older ones write
  the table as far as the locks of the migrating transaction let them.
- The in-flight bracket of the pipeline is the counter of the lifecycle; at
  shutdown the lifespan waits for it before it closes the HTTP client and the
  engine that the sessions use.

What makes each component correct, in a sentence:

- **users**: whatever the interleaving, what clients were told is what the table
  holds; addresses of live users stay unique; tombstones are final; every
  request is answered.
- **key cache**: at most one fetch at a time and at most one per backoff window;
  no key is refused that arrived; the cache ends with what the provider publishes.
- **HTTP client**: no write is applied twice by a resend; an answer never
  misstates what was sent; one result per call for the circuit of its host; a
  circuit recovers with its upstream.
- **pipeline**: exactly one response, the right one, truthfully logged, and the
  bracket let go, whoever answers.
- **lifecycle**: the counter is exact; resources close only over quiet requests
  or after the drain gave up, and always close.
- **listing and access**: nobody reads without a valid token and role, under any
  settings that boot; a walk over the pages is complete if nobody writes, and
  drifts by no more than was written.
- **migrations**: the schema is the one its revision stands for; users survive;
  a run fails for a reason one can name; the guard flags what can hurt.
- **release scripts**: no tag is older than its commit or behind a newer one,
  nothing published moves, and a re-run finishes what was begun.

## 2. The modules

| Module | Models | Extended or instantiated by |
|---|---|---|
| `UserUnitOfWork` | user service, repository, session, at SQL-statement granularity | `UserRefinement` |
| `UserRegistry` | the abstract promise of the users API | `UserRefinement` |
| `UserRefinement` | the refinement mapping between the two | `UserProofs`, `MCUsers` |
| `JwksCache` | the key cache with its provider | `JwksProofs`, `MCJwks` |
| `HttpClient` | the outbound client, its circuits and upstreams | `HttpProofs`, `MCHttp` |
| `RequestPipeline` | one request and its response through the middlewares | `PipelineProofs`, `MCPipeline` |
| `Lifecycle` | counter, drain, lifespan and the server around them | `LifecycleProofs`, `MCLifecycle` |
| `AccessControl` | boot, host, token and role decisions, as operators | `UserListing` |
| `UserListing` | a walk over the pages of users, its requests and the writers | `ListingProofs`, `MCListing` |
| `Migrations` | the chain of migrations, its runs, the guard, and the writers | `MigrationProofs`, `MCMigrations` |
| `ReleaseScripts` | bump and tag runs in several clones over one origin | `ReleaseProofs`, `MCRelease` |
| `*Proofs` | the theorems, their invariants and lemmas | |
| `MC*` | constants for TLC | |

Operators named `<Definition>_<Variant>` stand just before the definition they
vary. They are plausible mistakes in the code (a dropped guard, a wrong order, a
missing reset); `PROJECT.json` "mutants" says which property each one breaks.
The specifications never use them.

### 2.1 UserUnitOfWork

A request `r` walks through `pc[r]`: `idle`, `begin`, `precheck`, `flush`,
`index`, `refresh`, `commit`, `committed`, `done`.

| Action | Code |
|---|---|
| `GetUser` | `UserService.get_user` and `UserRepository.get` (filter on `deleted_at`), 404 |
| `PrecheckCreate`, `PrecheckUpdate` | the e-mail lookups of `create_user` and `update_user`, 409 |
| `Flush` | `session.flush()`: the row lock and the new row version. Only attributes that differ from the loaded ones are in the `SET` clause; the `WHERE` is the primary key alone |
| `EnterIndex` | the second half of the same statement: `ix_users_email_lower`; an `IntegrityError` on it becomes a 409 |
| `Refresh` | `session.refresh()`, which does not filter tombstones |
| `Commit`, `Respond` | `get_session` after its `yield`, then the response |
| `DbError`, `Timeout` | any statement raises; the timeout cancels. Cut short in a `COMMIT`, the outcome is either |
| `DeadlockVictim` | PostgreSQL fails one of a cycle of waits |

PostgreSQL is external and modelled from how the code uses it: READ COMMITTED
snapshots, row locks held to the end of the transaction, an update that waits
continues on the newest version, and a unique index that makes a writer wait for
an undecided rival and fails it on a committed one. `profile` stands for the two
columns the code treats alike; a tombstone's timestamp is the request that
stamped it.

`UserRegistry` is what the API promises without sessions, locks or an index:
every request looks up in one instant and acts in one later instant, at most
once, on live users with unique addresses; a refusal is true when it is given;
a server error or timeout may come without the effect or with it, but never
with half of it. `UserRefinement` maps the table to its live users and a request
to its stage; the commit is the instant a request acts.

### 2.2 JwksCache

`keys`, `fetched` and `attempted` are `_keys`, `_fetched_at` and
`_last_attempt` (the times as ages that stop just past the limit they are
compared with). `quiet`, the time since a fetch was last begun, is kept beside
them for the property about their spacing and read by no action. `queue` is the
asyncio lock: its head holds it. `task` is the
background refresh. A caller runs `Ask`, then `ServeKnown` or `WaitForUnknown`,
`Resume` once the lock is granted, and `Land` when its fetch ends; the task runs
`TaskStart`, `TaskResume`, `TaskLand`. `Cancel` is the request timeout.
`Rotate`, `FailOrRecover`, `Respond` and `Tick` are the provider and the clock.
A provider is up, down (a transport error), or bad (it answers with something
that is no key document), and its documents may carry entries the parser skips.
A callback order the model keeps: a fetch that lands after the provider rotated
stores the older document.

### 2.3 HttpClient

A call enters the circuit of its host once (`FailFast`, `Enter`), then attempts
(`Respond`, `Retry`, `Resend`) inside of it until it ends (`Succeed`, `GiveUp`,
`Cancel`). `sent` counts the attempts the upstream may have applied. The circuit
is the purgatory library, external, as the client and its tests use it: it opens
on the threshold-th failed call in a row, admits trials after its TTL, closes on
a trial's success and reopens on its failure; a result that comes in while it
is open changes nothing. Every exception that leaves its context is a failure, a
cancellation included.

### 2.4 RequestPipeline

One request at a time, any number one after another. A step ends at a message
sent or received. `started` holds the layers whose tracker has seen a response
start; `wire` is what the server was given; `Dropped` is the size limit's
`guarded_send` withholding the application's answer to a read that failed at the
cap. The handler may read, start, stream, end, return or raise in any order the
protocol allows, including an exception after its start, FastAPI's 400 for the
failed read, and a handler that swallows the error.

### 2.5 Lifecycle

`in_flight`, `idle` and `shutting_down` are the fields of `Lifecycle`; `pc` is
the lifespan after its `yield`. `woken` is the drain made ready by the event but
not yet run, which is where a new request can slip in. The server is external and
of one of the kinds in `Servers`: `"stops_first"` is that of the drain's own
docstring (`app/core/lifecycle.py` 79-83) and of `docs/guides/deployment.md`,
which stops accepting and waits for its requests or cancels them before it shuts
the lifespan down; `"keeps_accepting"` promises nothing. `late` is kept for the
properties: the requests that entered after the count had reached zero during
the drain.

### 2.6 AccessControl and UserListing

`AccessControl` holds decisions and no state: `Boots` is what `create_app()`
refuses (`validate_production_settings`, the CORS and host checks), `ENV` the two
places the environment's name may come from, `HostAllowed` the Host check, and
`validate_token`, `get_current_caller`, `require_roles` the dependencies of a
route, in the order in which they refuse. PyJWT is `Decodes`: it does not look at
the issuer when none is asked for.

`UserListing` takes them: `Boot`, then per page `Request` (host, caller,
parameter bounds, sort, in this order), `ReadRows`, `ReadTotal` and `Respond`. A
client walks on while pages are full. `Insert`, `Update` and `Delete` are one
commit each, between any two steps, and `Tick` is the clock a token grows old by.
`Orders` are the row orders the database may choose for the `ORDER BY`;
`parse_sort` and `USER_SORTABLE` keep their names; `Terms` are the places of a
sort's terms, so that its empty segments are passed over where they stand. A
row's NULL name is a number above the others, where PostgreSQL sorts it.

### 2.7 Migrations

Each script is the sequence of its calls on `op` (`InitUp`, `InitDown`, ...). A
run (`job`) knows the revision it read, the one it goes to, the one it is at and
its next call there: `CallOf` is that call of the `Script`, and past its end the
checked update of `alembic_version` (`Stamp`), after which `Advanced` moves on to
the next script. `Succeeds` is what a call needs; its `Effect` is what it makes
of the schema (`Reshaped`) and of each row (`Rewritten`). `env.py`'s transaction around all of it is `work`, which
`Commit` publishes and `RollBack` (on `Fail`, `Crash`) drops. The revision is
read in `Begin`, before any lock is taken: that is how replicas race. `Register`
and `Delete` are the release at head, `OldRegister` and `OldDelete` one before it.
`Matches` and `Flagged` are the rules of `migration_guard.py` on the same calls.

### 2.8 ReleaseScripts

`Bump` and `BumpEnds` are the two writes of `bump_version.py`; `Tag`, `CreateTag`,
`Push`, `View`, `CreateRelease` the commands of `tag_release.py`; `Stop` ends
either script between any two of them. `tag_release.py` looks at neither the
branch nor `git status`, so `Tag` starts from any working tree and `CreateTag`
tags whatever commit the clone is on: a bump that is not committed puts its tag
on the commit before it. `Pull`, `WriteNotes`, `CommitTree`, `Merge` and
`Reconcile` are what a maintainer does by hand according to
`docs/guides/release-workflow.md`; a commit may hold the whole tree or, as in
its step 3, the changelog alone. Versions are their numbers, so `NextVersion` is
the real arithmetic; a commit is a tree and the commits behind it.

## 3. What TLC checks

| Run | Question | Bounds |
|---|---|---|
| `users_races` | Do two requests of any kind, in any interleaving, cancelled anywhere, keep what they promised? | 2 requests, 2 seeded users (live, mixed-case, tombstone or absent), 3 spellings of 2 addresses, database errors and timeouts |
| `users_answered` | Is everybody answered although they wait for connections and for each other, and who is answered 500? | 4 updates that swap addresses over 3 connections, timeouts |
| `users_deadlock` | Is a duplicate always a 409? No: section 5 | the same, without faults |
| `users_delete_twice` | Is the second delete a 404? No: section 5 | 2 deletes |
| `jwks_cache` | One fetch at a time, one per window, no key refused that arrived? | 2 callers and the task, 2 keys, ages up to 2 and 1, all faults |
| `jwks_settles` | Does every check end, and does the cache end with what is published? | the same with 1 key |
| `http_calls` | Can a resend apply a write twice? Does an answer misstate what was sent? Does a call count once? Does a recovered host's circuit close? | 2 calls at a time, 2 hosts (writes to one, reads of the other, a relative URL), 2 attempts, threshold 2, every kind of failure |
| `pipeline` | One response, truly logged, the bracket let go, whoever answers? | a cap of 1 chunk, bodies up to 3, timeout at any await |
| `shutdown` | Is the counter exact, under whom do resources close, and do they close? | 3 requests, both kinds of server, all drain outcomes |
| `listing` | Who gets rows, from what boot, and what do the pages put together say? | up to 4 users, 5 sorts and 3 filters, limits 0 to 3, 2 commits; every combination of settings for one walk; every combination of claims over 4 instants |
| `migrations` | Does the chain keep schema and users, whoever runs it and writes meanwhile? | 2 processes, 3 rows over 2 addresses in 2 spellings, all 7 revisions both ways |
| `release` | Do tags follow the history, does nothing published move, does a re-run finish? | 2 clones, 1 bump, the first commit and 2 more, 1 interruption, from a final version and from a candidate |

Deadlock is checked everywhere but in `listing`, where a walk ends. The type
invariants are proved (section 4) instead of being spent on a run, except that
of `Migrations`, which is both.

The properties, by what they relate:

- `AcknowledgedIsStored`, `RefusedLeavesNoTrace`: an answer against the table,
  then and later. `ServerErrorsAreDeadlocks` is what is left of "never a 500"
  (section 5): it names the four requests without which there is none.
- `RegistryPromise`: the refinement. It fails if an update writes back a column
  it only loaded (a lost update) and it is where the outcome of a `COMMIT` cut
  short is accounted for, and where a 409 must be true when it is given.
- `LockIsSound`: after any cancellation the queue of the lock has no ghost and
  whoever fetches holds it. `FetchesAreSpaced` measures the time since the last
  fetch itself, not the program's stamp of it: it fails without the second check
  under the lock, and it fails when a fetch leaves without its stamp.
- `AppliedAtMostOnce`, `AnswersAreTruthful`: the ways a caller of the client
  could be misled about what was sent. `CircuitRecovers`: once a host is healthy
  and its callers are not cancelled any more, its circuit closes for good; it
  fails if a success is not told to the circuit.
- `NoBareError`, `OneResponse`, `LoggedIsSent`: the trackers of three layers
  against what is on the wire. `OversizeIsRefused`: the application's own answer
  to a failed read never gets out.
- `ClosedOnlyWhenQuiet`: what the docstring promises, under the server it relies
  on. `OnlyLatecomersLose`: what the drain itself does, under any server. A
  request inside before the count reached zero is waited for, so after a drain
  that succeeded only one that came later can find its client or engine closed.
- `QuietWalkIsComplete` needs the primary key after the sort terms: without it
  tied rows fall between two pages. `DriftIsBounded` says what is left of it
  under writers, of the rows and of the total that is counted apart from them. `RowsNeedAReader` ties a page to the token and the clock at
  that page, and to settings the boot accepted; `ProductionIsConfigured` ties an
  answer to what was validated at startup.
- `SchemaIsRevision`, `UsersAreKept`: every `downgrade()` against its
  `upgrade()`, with rows in between, and a run whose plan is stale.
  `FailsForCause` lists every way a run can fail; `GuardFlagsWhatBites` compares
  the guard's rules with what its calls do to rows.
- `TagsFollowHistory`, `MetadataKeepsUp`: tags against commits, after half bumps,
  from stale clones and from trees that were never committed. A tag may be newer
  than its commit (the model reaches that); it is never older, nor on or after a
  commit at which a later version is out. `PublishedIsFinal`, `RerunFinishes`: safety and progress
  of running `just tag` again.

### Why the bounds are enough

- **users.** A race needs two writers of one row or two rows with one address;
  two requests over two users have both, and a mixed-case spelling is what
  separates comparing values from comparing keys. A cycle of waits in the index
  needs four updates: two that hold the addresses and two that pass their
  lookups while these are undecided. That is why the deadlock has a workload of
  its own; `UserProofs` shows for any number of requests that it takes that many.
- **key cache.** Two callers and the task give the lock a holder and two waiters.
  Ages only matter as "within" or "past" each limit, with `MinRefresh < Ttl`
  as in the defaults (30 s and 3600 s). Liveness uses one key: a set that is
  empty or not is enough to arrive and to be withdrawn, and two keys multiply the
  provider's behaviour, not the cache's. `JwksProofs` covers every number of
  callers, and with it longer queues on the lock.
- **HTTP client.** Two attempts distinguish the first, a resend and the last;
  a threshold of two distinguishes a counted failure from an opening one; the
  second host is what a shared circuit would betray. Two calls at a time are one
  admitted before the circuit opens and one that trips or tries it; each is made
  again and again, so a circuit sees any sequence of them. `Ttl = 0` means that
  an open circuit is on trial after one tick of the clock, not at once. `PoolTimeout` and
  `ConnectError` are one outcome of `NotSent`.
- **pipeline.** Chunks below, at and past the cap; a cap of zero and every other
  cap and length are covered by the proofs.
- **shutdown.** Three requests: one that hangs, one that ends, one that comes late.
- **listing.** With four ids a walk has one page, a full and an empty one, or two
  and a short one; the new id lies between old ones, where an insertion shifts
  what follows. Two commits are what a bound "one each" needs to be told from a
  constant. Settings and claims are finite: the run takes all of them, each with
  one walk of two pages, and the clock passes the life of a token in between.
- **migrations.** A duplicate needs two rows, a live one and a tombstone a third
  state of them; three rows over two addresses also leave an unrelated user whose
  fate shows what a script does to the others. Two processes race; a third would
  wait for the same lock. The chain is the real one, whole.
- **release.** One bump makes a candidate out of a final version, and the next
  candidate or the final version out of a candidate. Beside the first commit, two
  are enough for two merges, for two branches off one commit of which the second
  must be left behind, and for a bump committed on top of another change; a
  second clone is the one that is behind, or publishes the same version. The
  order of several bumps is what `ReleaseProofs` adds: it lifts all bounds for
  the safety properties.

### Fairness

- The event loop runs every ready task: weak fairness of a component's own steps.
- PostgreSQL grants a lock that is free and breaks every deadlock: weak fairness
  of `Serve`. No fault is ever owed: `DbError` and `Timeout` have none, so
  `EveryRequestAnswered` does not lean on a timeout to end a wait.
- An HTTP attempt ends because it has a timeout (`HTTP_TIMEOUT_SECONDS`, or the
  shorter one of the key fetch): weak fairness of `Respond` and `Tick`. In
  `JwksCache` a caller's `Resume` and `Land`, and the provider's `Respond`, are
  strongly fair because the request timeout may strike in between; the key
  fetch's budget is shorter than `REQUEST_TIMEOUT_SECONDS`, so it is not cut
  short every time.
- `CircuitRecovers` supposes that cancellations come to an end, in its premise:
  callers that all cancel for ever keep a circuit open, legitimately, since each
  counts as a failure. While they and the failures last, all are possible.
- The handler of `RequestPipeline` owes nothing; only the clock and the sends are
  fair, so `EveryRequestEnds` holds by the timeout alone. With
  `REQUEST_TIMEOUT_SECONDS = 0` it would not, and the run says `Timeouts = TRUE`.
- In `Lifecycle` a running request owes nothing; a cancelled one unwinds, the
  server gets to the lifespan once it was told to stop, and the lifespan's waits
  are bounded. That requests are cancelled in the end (weak fairness of
  `CancelTasks`) is the server's graceful timeout or, where none is set as in the
  shipped command, the request timeout of the pipeline.
- In `ReleaseScripts` a command returns, and the maintainer tries again, as the
  script's own message asks: weak fairness of a clone's `BumpEnds`, `TagRun` and
  `Tag` with a release to publish, taken together. Nothing by hand is owed.
  Interruptions are bounded by `MaxStops`, as commands that fail for ever finish
  nothing.
- `UserListing` and `Migrations` promise no liveness: a client may stop walking,
  and a migration waits for whoever runs it again.

## 4. What is proved

For every value of the constants that satisfies the named assumptions:

| Module | Theorems | Assumptions |
|---|---|---|
| `UserProofs` | `TypeCorrect`, `EmailsStayUnique`, `DeletedStaysDeleted`, `SuccessIsStored`, `RefusalIsTraceless` | `UserAssumption`, `WorkloadAssumption` |
| | `OnlyDeadlocksAreServerErrors` | the same; of faults without database errors |
| | `RefinesRegistry` | also `RegistryAssumption` |
| `JwksProofs` | `TypeCorrect`, `LockStaysSound`, `FetchesStaySpaced`, `ArrivedStaysServed` | `JwksAssumption` |
| `HttpProofs` | `TypeCorrect`, `WritesAreAppliedAtMostOnce`, `AnswersTellWhatWasSent`, `OneResultEach` | `HttpAssumption` |
| `PipelineProofs` | `TypeCorrect`, `AnswersOnce`, `NoErrorIsBare`, `ReleasedOnce`, `LogIsTrue`, `OversizeGetsNoAnswer` | `PipelineAssumption` |
| `LifecycleProofs` | `TypeCorrect`, `CounterExact`, `DrainWaitsForEverybody`, `NoConnectionIsLost` | `LifecycleAssumption` |
| `ListingProofs` | `ProductionAuthenticates`, `AcceptedIsIssued`, `AdmittedHoldsRoles` | none |
| | `TypeCorrect`, `ProductionConfigured`, `ReadersOnly`, `WalkDrifts`, `WalkIsComplete` | `ListingAssumption`, `AccessAssumption` |
| `MigrationProofs` | `TypeCorrect`, `SchemaFollowsRevision`, `AddressesStayUnique`, `UsersStay`, `FailuresHaveCause`, `GuardFlags` | `MigrationAssumption` |
| `ReleaseProofs` | `TypeCorrect`, `BumpGoesUp`, `TagsFollow`, `MetadataIsAhead`, `PublishedStays` | `ReleaseAssumption` (none for `BumpGoesUp`) |

The assumptions say what a constant is (finite sets of rows, spellings with one
canonical form, a `Null` that is nothing else); the runs evaluate them.

- **Users.** Uniqueness of the committed table is not inductive: a commit could
  add a second row with an address. The invariant adds that a version in the
  index differs in its key from every committed live row (`IndexApart`) and from
  every other version in the index (`IndexUnique`), that a row has one pending
  version (`OneWriter`), and that a pending version of a tombstone is a tombstone
  (`PendingTombstone`). The last one is where the narrow `SET` clause is needed.
- **Users, answers and refinement.** A second invariant (`EInv`) is about what a
  request will commit: its pending version is what it makes of the row *as it is
  committed now*, because nobody else writes a locked row (`PendingIsEffect`); it
  leaves a mark in the table only by committing (`TraceIsCommitted`); and what its
  lookup found free is taken only by requests that have committed since
  (`LookupHolds`). From the last follows that two requests waiting for each other
  in the index need two others that have committed: the four that
  `ServerErrorsAreDeadlocks` names, and that remain once they are there
  (`DeadlockNeedsFour`, `LostForGood`). `RefinesRegistry` maps every action to
  `LookUp`, `Apply`, an answer or a stutter of `UserRegistry`; at the commit,
  `PendingIsEffect` makes the row written the one effect of the request on the
  registry as it is then (none, for an update of a user deleted meanwhile), and a
  409 given in the index must still be true.
- **Key cache.** The queue of the lock is a sequence without repetitions whose
  members are exactly the callers (and the task) that wait or fetch; removing one
  from anywhere in it, as a cancellation does, keeps that (lemmas on `RemoveAt`).
  From it, whoever lands a fetch is the head. The stamp the guards read agrees
  with the time since the last fetch in every state (`Stamped`): it is what a
  fetch that failed to stamp itself would break.
- **HTTP client.** A write without `retry_on_status` is unsent as long as it has
  another attempt before it (`UnsentOK`), because only a failure before sending
  brings it back to the loop; `SentOK` bounds what was sent by what was started.
- **Pipeline.** Each layer decides from its own tracker whether it may answer. The
  trackers of the size limit and the timeout agree with the wire
  (`TrackersAgree`); the innermost one also notes starts that the size limit
  drops, and that only happens when a 413 or a 504 is still to come (`InnerOK`,
  `AnswerOK`).
- **Lifecycle.** The counter is the cardinality of the bracket under every
  server, by the finite-set theorems; with it the event stands for an empty
  bracket (`EmptyMeansZero`). `Waited`: from the moment the drain is woken,
  whoever is inside came in since. Under the server that stops first nobody can
  (`Closing`: once the shutdown has begun no request is accepted or running
  uncancelled), which is the docstring's promise.
- **Access.** The decisions are proved once, for every setting, token and clock;
  the invariant `Checked` carries "this server booted" from `Boot` to every later
  request, and with it they apply to each page.
- **Walks.** The sort terms followed by the primary key order the matching users
  linearly (`OrderIsLinear`: the first place where two users differ decides), so
  every user has a place, the number of those before it, and a page is who stands
  at its places (`PageIs`). A commit writes one user and shifts each other by at
  most one place (`PlaceShifts`): so at most one more of the untouched users slips
  in among the places already read, and at most one of those sent slips out behind
  them (`FirstGains`, `LaterGains`). `Drift` keeps both accounts: who is missed,
  and who was repeated or is yet to come again, never more than the commits;
  `TotalInv` keeps that of the count.
  `Quiet` is the exact form without any.
- **Migrations.** The scripts are run call by call over the schema, once, for both
  directions. Then: what is committed is a whole revision whose unique indexes
  hold (`Committed`); a run that has touched nothing is at its start (`Planned`);
  the one that has is `OnCourse` over the database it read, or its plan is stale
  and it is still inside its first script, at whose end the checked stamp stops it
  (`Working`). `Kept` says what a run has left of the rows. The table stays open to
  writers only between the last two revisions, which is why a folded unique index
  built under a lock cannot be betrayed by a concurrent release; of all the calls
  only building that index over all rows can fail for data: on the way up over
  two spellings of one address, on the way down over a reused one.
- **Releases.** Versions are ordered and a bump goes strictly up
  (`VersionsAreOrdered`, `BumpGoesUp`). The invariant is an order: no commit is
  behind one it builds on, no clone behind the commit it has checked out, no
  `__init__` ahead of its `pyproject` (`InOrder`). A tag run reads any tree, but
  no tree is behind its commit, so what it names is at least what the commit it
  tags carries (`RunOK`, `Tagged`). A tag of an older version on, or after, the
  commit of a later one would break the order.

Only model-checked: the liveness properties (`EveryRequestAnswered`,
`CacheFollowsProvider`, `EveryCheckEnds`, `CircuitRecovers`, `EveryRequestEnds`,
`EngineIsDisposed`, `RerunFinishes`), which rest on fairness, and that the runs
do not deadlock: the prover reasons about neither fairness nor enabledness. Every
other property of a passing run is a theorem.

## 5. Where the code and its documents disagree

Two runs show one each:

- `users_delete_twice`: two deletes of one user both load it alive (`service.py`
  135) and both answer 204; `docs/guides/soft-delete.md:97` promises a 404 for
  the second.
- `users_deadlock`: two updates that ask for addresses two others have just
  swapped in wait for each other in the unique index. PostgreSQL ends one with
  `deadlock_detected`, which is no `IntegrityError` (`repository.py` 245), and it
  is answered 500; `docs/guides/error-handling.md:73` says a duplicate is always
  a 409, never a 500, even under concurrent writes. `ServerErrorsAreDeadlocks`
  and its theorem say that this is the only way.

Met while modelling, and visible in the models without a run of their own:

- While the provider is down, a check inside the backoff window of a failed fetch
  is answered 401 "Token signing key not found" without a fetch (`security.py:209`
  says "after a fresh fetch", `docs/guides/security.md:310` a 5xx).
- A call admitted before its circuit opened retries against the open circuit
  (`Resend` does not ask it); `client.py:91-94` says the breaker spares the
  upstream doomed retries.
- An update that loaded its user before a concurrent delete committed answers 200
  with the tombstone: `refresh` re-reads by key alone (`repository.py` 249).
- A field patched to the value that was loaded is not written, so a concurrent
  change of it survives an update that was acknowledged (`repository.py` 239).
- The in-flight bracket ends before the 504 or the 413 that replaces an answer is
  sent (`middlewares.py` 474), so the drain may end under them.
- Under a server that goes on accepting, the drain returns at a count of zero and
  the engine closes under later requests (`lifecycle.py` 85). The docstring names
  this reliance; `ClosedOnlyWhenQuiet` makes it an explicit hypothesis, and
  `OnlyLatecomersLose` says how far the loss goes without it.
- The downgrade of `7dc9a90dcc5a` rebuilds the index over tombstones and drops
  their mark: it fails over a tombstone whose address is in use again, and where
  it succeeds the deleted users are live. `docs/guides/database-migrations.md:201`
  counts on the test suite to find a rollback that does not work; the suite's
  tables hold no such rows. `FailsForCause` and `UsersAreKept` carry these as
  their exceptions.
- `f76b93d38f43` is an `UPDATE` without `WHERE`, which the project's own guard
  flags when such a script is generated (`Matches`).
- A half bump is refused by the next bump, but not by a tag run, which reads
  `app/__init__.py` alone (`tag_release.py` 36-49): it may be merged and tagged, as
  the old version (`MetadataKeepsUp`).
- A tag run from a tree whose bump is not committed tags, pushes and publishes the
  new version on the commit before it (`tag_release.py` 171-197), and an existing
  tag is never compared with the commit: `release-workflow.md` leaves it to the
  maintainer to be on a clean, merged main.
- A tag that another clone pushed at another commit makes the push fail, and no
  re-run gets past it (the third exception of `RerunFinishes`).
- The production host check compares with the default list as written: the same
  hosts in another order pass (`validate_production_hosts`).
- A page's total may differ from its rows by what was committed between the two
  statements; `docs/guides/pagination.md:145-150` says so.

## 6. What is not modelled

- Sending to a client that has disconnected, WebSocket scopes and headers (request
  id, security headers). `RequestPipeline` keeps the host and origin decisions and
  drops the matching; the host's is in `AccessControl`.
- Updates of an e-mail by the application while a migration runs (its inserts and
  deletes are there).
- The pool's own timeout is a `DbError` at a statement that waits for a connection.
- `stamina` is assumed to make at least one attempt (`HTTP_RETRY_ATTEMPTS >= 1`).
- Of the listing, two of the four sortable columns and search terms as sets of
  words (the escaping of `%` and `_` is in the query's text).
- Alembic's offline mode, which prints SQL; the guard's batch contexts, its choice
  of the newest file and its report.
- Of the settings, the parsing of values and the warnings.
- For good: the stateless system routes (readiness reads `shutting_down`, which
  `Lifecycle` has), library configuration (telemetry, logging, OpenAPI,
  versioning), Pydantic declarations, and scripts that generate or edit text once
  (scaffolding, template set-up and update, docs sync, a development token).

## 7. Plan

What is left, in this order:

1. A composition of `RequestPipeline` with `Lifecycle`: several requests whose
   answers are sent after the bracket.
2. The safety half of the liveness properties: what a step towards the end may
   not undo (the position in the queue of the lock, the tag already pushed, the
   layers already unwound), as action properties with proofs.
3. The rest of the settings (which values parse) and the other two sortable
   columns, which add cases and no argument.

## 8. Running it

    tlc -workers 2 -config users_races.cfg MCUsers
    tlapm UserProofs.tla

Each `.cfg` names its specification, constants and properties; `PROJECT.json`
"runs" says which MC module it belongs to. The largest runs take about two
minutes and a half.

# Verification of justwant

TLA+ models of the parts of justwant whose correctness depends on what runs
between two awaits, their model-checking runs (TLC) and machine-checked proofs
(TLAPS). Paths are relative to the root of the repository; every definition
that models code is listed with its lines in `PROJECT.json`.

## 1. The system

justwant is a set of packages a TypeScript application composes: services that
keep their state in a repository the application supplies (or in memory), with
plugins and hooks around each call. There is one thread for each process and
every `await` is a point where other calls, timers and other processes run, so
nearly every service is a sequence of reads and writes that can be cut into by
another. Little of it is protected: the packages ask for no transactions and,
but for a few advisory locks, take none.

| Component | State | Operations | Hard behaviour |
|---|---|---|---|
| lock: mutex | rows of a LockRepository | acquire, release, isLocked, forceRelease, extend | find-then-create, expiry while calls run, crashes, throwing hooks |
| lock: semaphore | rows with a count | acquire, release, available | capacity checked before the write, lost updates |
| job: service, crons | handlers, skip and paused marks | register, start, enqueue, dispatch, skipNext, skipUntil, disableCron, unregister | runs that overlap while marks are read and cleared |
| job: node engine | node-cron tasks | register, unregister, start, stop | tasks that outlive their entry in the map |
| job: pg engine | table of schedules, advisory locks, a timer for each instance | register, handle, unregister, poll | several instances, polls that overlap, sessions that break |
| job: lock plugin | lock of each job | beforeExecute | owners that are shared, handlers that outlive the ttl |
| job: BullMQ and QStash engines | queues, schedules and workers of a provider, maps of each process | register, unregister, handle, start, stop, enqueue, dispatch, pause, resume, cancelInstance | registering and closing at once, several deliveries, rotated keys |
| permission | assignments, overrides | can, assign, unassign, grant, deny, revoke | resolution over several reads, duplicates |
| membership, organisation | memberships, organisations, and the roles of permission | create, update, delete, addMember, removeMember, assignRole, listForMember | two services changed one after the other |
| waitlist, referral | entries, referrals | subscribe, invite, pop, unsubscribe, refer | check-then-create, pop twice, half an invitation |
| db | the application's tables | the adapters for Drizzle, Prisma and Waddler | writes of two statements, soft deletes, NULL in filters |
| user, preference | rows of a table | create, update, delete, list, set, setMany, reset | uniqueness by check-then-write |
| flag | overrides shared by instances | evaluate, override, rollback | a release that rolls back what another one wrote |
| notify | templates of an instance and of a repository | send, set, edit and remove templates | plugins that throw after the delivery, a registry and its copy |
| storage | files of a provider | upload, download, delete, exists | half-written files, plugins that change path and bytes |
| cache: service, adapters, plugins | entries, tags, two levels, gets in flight | get, set, wrap, pull, invalidateTag | stale fills, tags that outlive entries |
| env, config | files, process variables, rows; what was read of them | createEnv and its watcher, get | files that change while they are read |
| event | listeners | emit, listen, listenOnce, unlisten | listeners that change the listeners |
| embedding | rows of vectors | upsert, similar, delete, migrations | ids shared by universes, lost answers |
| context | promises of slots | forRequest, get | slots that need each other, rejections nobody awaits |
| cookie | the jar of a browser | get, set | responses that arrive late, or never |
| contract, crypto, actor, bezier, warehouse | none that lasts | validate, encrypt, convert, query | none |
| feature, resource, id, meta, core | none | definitions | none |
| analytics, audit, auth, billing, consent, keys, monitor, protect, support | none | not implemented yet | none |

Who calls whom: the lock plugin of job calls the mutex; the service of job
calls an engine and a job repository; organisation calls membership and
permission; waitlist calls referral; cache stacks its plugins on an adapter,
and the tiered adapter on two others; everything with rows calls a repository.

What makes each correct: a lock has one holder and its holder is not deceived;
a semaphore gives out max units; a scheduled job runs once for a tick, in one
place, and does run; a skip request has exactly the effect asked for; members
roles in an organisation are its members' alone, and an answer about permissions
was true when it was asked for; a person waits once and is
let in once; rows, preferences, flags, templates, files and vectors are what the
last call has left; a payload that was accepted is handled or its failure is
told; a cache never serves what was deleted; a setting is the one of the first
source that has it, and its changes are told; listeners run once for each event
they listened for; a slot is resolved once for each request; a store of cookies
answers what was set.

## 2. Modules

    LockRepository        rows and the five repository methods
      Mutex               createLock over it, one step for each await
        JobLock           lockPlugin over Mutex
          MutexProofs     typing, exclusion and refinement of Mutex, and the
                          exclusion of JobLock, for all constants
      Semaphore           createSemaphore over it
        SemaphoreProofs   UnitsHonoured and CapacityHonest, for all constants
    LockService           what a lock promises, with no rows, clock or processes
    PgEngine              pgEngine: instances, table, sessions, polls
      PgEngineProofs      typing and LockGoverns, for all constants
    NodeCron              createJob's crons over nodeEngine and a repository
      NodeCronProofs      TasksKnown, and what a request to skip is good for
    Rows                  tables of @justwant/db: where clauses, finds, writes
      Permission          createPermission over assignments and overrides
      Membership          createMembershipService over memberships
      Organisation        createOrganisationService over both, its clients and
                          properties
        OrganisationProofs    its five properties, for all deployments
      Referral            createReferralService over referrals
      Waitlist            createWaitlistService over both adapters, and Referral, its
                          clients and properties
        WaitlistProofs    all but Fifo, for all deployments
    TableAdapters         the mapped tables of the three database adapters
      Users, Preference   createUserService, createPreferenceService over them
        Accounts          clients of both, and the properties
          AccountsProofs  UsersKept and PreferenceKept, for all clients and plans
    Flags, Notify         createFlagService, createNotify
      Releases            instances that use them, and the properties
    Storage               createStorageService, its clients and properties
    CacheAdapters         six adapters and the two levels of a tiered one
      Cache               createCache, dedupe and the typed layers over them, its
                          callers and properties
    Queues                createJob over the BullMQ and QStash engines, its clients
                          and properties
    Settings              createEnv with its watcher, createConfigService
    Events                the event bus, with handlers that use it
    Embeddings            createEmbeddingService over four stores
      PlatformProofs      SettingKept, OnceSpent and VectorKept, for all clients and
                          plans
    Contexts              createContextService: the slots of a request
    Cookies               createCookieStore over three adapters and a browser
    MC*                   the instances TLC checks

**How code becomes actions.** A call runs without interruption from one await
to the next. Each such stretch is an action; `call[p].at` (or `polls[i][s].at`,
`runs[r].at`) names the await the call is suspended at, and its other fields
are the locals that were read before it. Await of a repository or of an *after*
hook is a step; *before* hooks run before anything is read and add no
interleaving. What the code reads and then uses after an await is therefore a
local that may be stale, as in the program.

**LockRepository** (`packages/lock/src/types/index.ts`). The repository is the
application's. The model is the contract the code relies on, with two switches
for what it leaves open: `UniqueKey` (create always rejects a second row of a
key; FALSE, the case of the runs, lets it do either) and
`Wildcard` (an undefined field of a where clause matches anything, as in the
repository of the specs). `expiresAt` is kept as the ticks that are left, so no
clock value is needed; strictly later than `expiresAt` a row is expired, hence
`ExpiresIn(ttl) = ttl + 1`.

**Mutex** (`lock/src/lock/createLock.ts`). `Acquire` is split at findOne,
delete of an expired row, create, and the after hook; `Release`, `Extend` and
`ForceRelease` likewise. `grant` is what a client may conclude from the answers
it got: that row `id` is its lock and lasts for `left`. Hooks throw, processes die at any step and their grants with them; their rows stay.
`muddled` is history: the keys whose locks the code itself does not keep apart.
A key becomes one when create puts a row beside another (findOne and create are
two awaits, and no unique key is asked for), when extend revives an expired row
that an acquire is about to delete, or when two processes use it for one owner at
the same time; it stays one until nobody uses it and no row is left. The
properties speak, without condition, of every other key.

**LockService** is the promise: a key is taken only while nobody holds it.
`Mutex!Service` maps the owners with a grant to its `holder`.

**Semaphore** (`lock/src/semaphore/createSemaphore.ts`). The same style;
`using` counts the units a client was answered true for. The store may start
with an expired row, since a repository may serve a mutex as well. `overtaken` is
history: the acquires whose key was given more units after they had counted them
and before they have written.

**JobLock** (`job/src/plugins/lock.ts`). Extends Mutex: an execution slot
acquires, runs the handler and releases in a finally block. A plugin has one owner
for all its slots (`PluginAssumption`). `exec[p].left` is what the lock of an
execution has left: a handler may outlast it, and one that is let in by the lock
of its own owner has what that one has left, since acquire renews nothing.

**PgEngine** (`job/src/engines/pg/index.ts`). Instances, each with the two maps
and the timer of the code; a table of `next_run_at`; `session[c][j]`, how often
connection c holds the advisory lock of j, which PostgreSQL grants again to the
session that has it. Polls go on for several awaits and overlap where an instance
has more than one slot (`SlotsOf`); with a pool (`ConnsOf`) each query may run on
any of its connections. Handlers throw, queries fail, connections break and
instances die and boot again. Two histories: `polls[i][s].conn`, in whose session a
poll has taken its lock until that breaks, and `strayed`, the locks that a poll of
a pool has given back for another one or left behind on another connection.

**NodeCron** (`job/src/core.ts`, `job/src/engines/node/index.ts`,
`job/src/repo/memory.ts`). `tasks` are the tasks node-cron has, `current` the
one the engine's map has for a cron: where they differ a task is out of reach.
`runs` are runs of the handler wrapped by `wrapHandlerWithSkipCheck`. `destroys` says
whether tasks have the method destroy: version 3 of node-cron, which the package
pins, has none, and then a task that is replaced stays and fires. `asked`,
`skipped`, `wanted`, `raced` (the crons where a request or a second check came
between a check's read of the mark and its write) and `replaced` are history
variables the properties compare with.

**Rows** (`db/src/drizzle/`) is the table the next three share: where clauses
that drop undefined fields and compare NULL with `=`, finds that take any
matching row, updates by id that throw when the row is gone.

**Permission** (`permission/src/permission.ts`, `resolve.ts`), **Membership**
(`membership/src/createMembershipService.ts`) and **Organisation**
(`organisation/src/createOrganisationService.ts`), which instantiates the other
two. Each keeps its tables and, for every client, the call it has in progress
(`pcall`, `mcall`, `ocall`): the arguments, the next repository call and what it
found. A step is one repository call and the code up to the next await; any of
them may be rejected. A facade call starts a call of a service, waits, and
takes its outcome.

The second part of Organisation lets clients make these calls. A deployment names
the calls each client makes and what the tables hold; a run checks several.
`seen`, `vouched`, `calm` and `firm` are history: what the documented policy
(`Allowed`: deny over grant over role) said at each instant of a query, whether
it allowed a change, and which calls and overrides nothing has undone.

**Referral** (`referral/src/createReferralService.ts`) and **Waitlist**
(`waitlist/src/createWaitlistService.ts`, its two adapters and
`plugins/expiration.ts`), built the same way: `entries` and `referrals` are the
tables, `wcall` and `rcall` the calls in progress, and invite waits for the call
of the referral service it starts. `options` says which adapter is used: in
memory an actor is compared field by field and insertion order breaks ties, over
a table an undefined organisation matches any and entries with the same
`createdAt` come in any order. `createdAt` is taken when findOne has answered
and stored later. The organisation is the only context entries keep. Entries are
removed by the key of their actor, a text that the adapter takes apart again:
`Splits` names the persons whose id holds a colon and the actor it reads as, and
with an organisation after it the key throws (`Parses`).

The second part of Waitlist is to it what that of Organisation is to the
organisation services. `raced` and `contested` name the persons and entries two calls dealt
with at once, `mistaken` the persons another entry was about to be removed
for, `handed` what pop answered, `told` the last position a client was
told, `coded` the referral codes handed out.

**TableAdapters** (`db/src/drizzle/createAdapter.ts`,
`db/src/prisma/createAdapter.ts`, `db/src/waddler/core.ts`) has every difference
of the three adapters and three dialects that a service can notice. `query[c]`
is the query of a client, of one statement or, where there is no RETURNING
(MySQL), of two. Finds hide rows whose `deletedAt` is set, updates by id reach
them, and a unique column counts them. A row that is not there makes Prisma
throw and the others answer nothing or read again.

**Users** (`user/src/createUserService.ts`), **Preference**
(`preference/src/`) and **Accounts**, their clients. create and update of a user
look for the email first; set and reset of a preference find, then write.
`raced` and `tangled` are the emails and preferences two calls dealt with at
once, `entry` what the last lone call has left of a preference.

**Flags** (`flag/src/`), **Notify** (`notify/src/createNotify.ts`) and
**Releases**, the instances of an application that use them. An override that
the schema of the release reading it rejects is rolled back for all; what evaluate
makes of the default, the override and the configuration it is called with is
validated, and then the context, whose outcome is open (configurations are taken
whole, not merged field by field); a send goes
through the phases of each plugin, delivers, and goes through them again.

**Storage** (`storage/src/`): uploads and downloads through the plugins rename,
imageTransform, encryption and multiBucket, to a directory, S3, R2, Supabase or
Vercel Blob. A path leads to a file by number, because a local writer writes
to the file it opened, whatever the path has come to lead to; a writer's
`Torn` bytes can be read. Encryption is modelled by what it wraps, with the key
it needs.

**CacheAdapters** (`cache/src/adapters/`): an operation is a sequence of
commands, each one await; `todo[c][l]` are those a call has yet to send to the
adapter of level `l`, and the tiered adapter sends to both side by side.
**Cache** (`cache/src/createCache.ts`, `plugins/dedupe.ts`, `entry/`) is the
service over them: `wrap` gets, computes and sets, `pull` gets and deletes, tags
are an index the adapter keeps. Its properties follow each value: it is
`dead` once a call that should have removed it has returned, unless a call that
carries it ran meanwhile; a ttl ends where the value is copied to the first level,
which drops it (`tiered.ts:43`, `:67`). Between calls a process may be started
again, with empty memory adapters.

**Queues** (`job/src/core.ts`, `engines/bullmq/`, `engines/qstash/`): `site`
says what is deployed, `schedules`, `held` and `messages` are the provider's,
and each machine has the maps of the engine and its workers. The provider
delivers a message to a worker, or over HTTP to the route of a machine, again
while attempts are left; machines die and boot. The five middlewares of QStash
are two: those that read the request and those that get a parsed body.
Its history remembers which payloads were accepted, run and given up.

**Settings** (`env/src/core.ts`, `env/src/watcher.ts`, `config/src/`): files
are sequences of lines, names are paths, and the creation of an environment is
one moment (reads are synchronous). The watcher reads its files one after the
other on each event, while they change, and tells the difference from what it
knew. `get` of the configuration asks its sources in order; JSON is read
once and kept.

**Events** (`event/src/`): the emits in progress form a stack, `emitting`; a
handler may emit, listen, unlisten or throw before it returns. What a handler
does after an await of its own is a later call.

**Embeddings** (`embedding/src/`): an item becomes a text, a vector and a row
of its universe in pgvector, sqlite-vec, Vectorize or memory; the vector of a
text is `[text, size]`, and how near two are is given. Vectorize has one row for an
id, whatever its universe (`IndexOf`); sqlite-vec one too where its INSERT ... ON
CONFLICT is taken, and otherwise the statement fails (`gear.conflicts`: SQLite
documents no upsert for virtual tables). `upsert` awaits the
engine, then the store, and either may fail after its effect.

**Contexts** (`context/src/`): the promises of the slots of each request, and
what each `get` awaits. Resolvers get other slots, before or after an await of
their own; a rejection nobody handles ends the process.

**Cookies** (`cookie/src/`): `jar` is the browser's, with paths; `tab` what the
page of a tab was requested with and what its response will set. Releases of
different stores serve the pages. With `document.cookie` reads and writes are of
the jar; Express and fetch are the header adapter with other names.


## 3. Runs

| Run | Shows | Bounds |
|---|---|---|
| `MutexExclusive` | `MutualExclusion`, `GrantBacked`, `CallsBacked` (inductive), `LiveLockKept`, and that Mutex implements LockService | 3 processes, an owner each (two differ in the org only), 1 key, no unique key, extensions at any time, ttl 0 and 1, hooks throw, processes die; a muddled key is followed to its end, but nothing new starts on it (`MuddleEnds`) |
| `SemaphoreConcurrent` | `CapacityHonest` (the units of all owners exceed max only by a call whose count is outdated when it writes, and those of an owner with one process never), `UnitsHonoured` (rows account for the units such an owner uses, and they can be released) | 3 processes, two of which share an owner (and lose each other's increments), max 2, counts 1 and 2, an expired row, hooks throw, processes die; none asks for more than max in all (`FewUnits`) |
| `JobLockSlots` | `NoDoubleExecution`, `LocksAccounted` (no lock is left behind, none keeps an execution from running without cause), `JobResumes` | 2 slots on one instance, 1 on another, an owner for each instance, handlers of any length; instances die |
| `PgClients` | `LockGoverns`: polls that run a job at once share a session, unless the lock has strayed over a pool; every other lock is held once for each poll that has taken it, through register, handle, unregister, failures, crashes | 1 instance with a pool of 2 and polls that overlap, 1 with a client, 1 job, clock to 1; a session holds a lock twice at most (`HeldTwice`), calls of the application and overlapping polls do not mix (`FewCalls`) |
| `PgSteady` | `TicksServed`: `next_run_at` advances and due jobs are run, once deployed | 2 instances, a client and a poll each, clock to 3 |
| `Crons` | `TasksKnown` (which tasks are out of reach), `SkipsHonoured` (requests, their number, their end) | 1 cron, 2 runs that overlap, 2 tasks, with destroy and without, clock to 1 |
| `Organisations` | `RolesOfMembersOnly`, `AnswersTrue`, `OverrideStands`, `RevocationsHonoured`, `ChangeVouched` | 2 clients, six deployments (below), 2 organisations, 2 slugs, 1 resource, 1 member and 1 of a type that groups refuse |
| `DenyDropped` (violation) | a deny in the whole scope after one on a resource is not written | 1 client |
| `Waitlists` | `ActorsOnce`, `CallsHonoured`, `InvitationsHonoured`, `RemovesItsOwn`, `Fifo` | 2 clients, ten deployments over both adapters, persons with and without an organisation, one whose id has a colon, one whose id is the code of another, 2 or 3 entries, clock to 1 |
| `Services` | `UsersKept`, `PreferenceKept`, `FlagsKept`, `NotifyKept`, `FileKept`, `FileAuthentic` | 2 clients, 3 or 4 calls in all; users and preferences over each adapter and dialect, two releases of flags, plugins that throw, files of each provider |
| `Caches` | `NoZombie`, `AnswersKept` | 2 callers, 2 keys, 2 namespaces, 2 tags, clock to 2, at most 4 calls; 20 deployments |
| `Platform` | `QueuesHonoured`, `ChangeTold`, `SettingKept`, `OnceSpent`, `VectorKept`, `ContextKept`, `CookieKept` | queues: 2 callers, 2 machines, 4 calls, a crash, a rotation of keys, 2 deliveries; settings: 2 readers, 2 files, 3 edits; events: 5 or 6 steps; embeddings: 2 clients, 2 items, 3 calls; contexts: 3 slots and one that is not listed, 2 requests, 3 gets; cookies: 2 tabs, 2 releases, 6 steps |

`Services` and `Platform` check several components that do not meet in one
application's calls: each plan deploys one of them and the others stay as they
began. `Services`, `Platform` and `Caches` stop when the calls of the plan have
been made, so they do not check for deadlock.

**Why the bounds are enough.** A hazard of these components needs two calls
that cut into each other, and a third party that profits from the confusion:
three processes on one key. Three row ids are as many as
a muddled key of three processes needs; a second row that finds none free is the
same as one that is rejected. A ttl of 1 lets a lock
outlive one tick and expire at the next, 0 never; longer ones only add ticks.
Three connections, two of them of one pool, and two polls there make every
interleaving of lock and unlock, on the connection of the lock and on another one;
a clock of 1 has one tick become due, 2 and 3 let it be run and fall
due again. Two tasks are the one in the map and one it may have replaced.
Two levels, two tags and two namespaces are what it takes for an entry to
outlive its tag or to be taken for another; two ticks expire an entry and the one that replaced it. Two releases are one that accepts and one that rejects
an override, a cookie or a message; two deliveries are a failure and its retry.
In `Organisations` the hazards need a call of one client in the middle of one
of the other; rows are few because each call leaves at most one. `OrgIds`
bounds how many organisations are ever created. `MaxTime`, `MaxAsks`, `Ids`, `Tasks`, `Runs` and `Slots` are bounds of the
model only; the proofs below do not depend on the sizes of `Procs`, `Keys`,
`Ids`, `Owners` and `Ttls`.

**What the properties leave out**, and how they know. Where the code lets two calls
spoil each other's work no assumption rules that out: the runs and the proofs
go through it, a history variable records that it has happened, and the
properties speak of everything else.

- Locks: `muddled` (section 2). Two acquires that both find no row both answer true
  unless the repository has a unique key, which neither code nor documentation
  asks for; an extension may renew a row that an acquire deletes a moment later;
  and two slots of one instance have one owner, so the second is let in while the
  first runs, and the first to end gives back the lock of both. An execution
  whose lock has run out (`RunsInTime`) is not the lock's affair either.
- Semaphore: `LimitKept` lets a call take the units in use past max only when what
  it has counted is no longer so. Two owners that race do, which `semaphore.mdx:28`
  excludes.
- Polls: two of one session are both granted the lock, and run the job beside each
  other. In a pool lock and unlock may run in different sessions (a poll that was
  denied the lock gives one back too, since `continue` passes through `finally`):
  the lock that is given back instead, and the one that is left behind, are
  `strayed`, and of them `LockGoverns` says nothing. A poll whose session has broken
  has lost its lock.
- Skips: `raced`. A run reads the mark and clears it with an await in between: a
  request in between is erased, and two runs are both skipped by one skipNext.
- Tasks: `replaced`. Without destroy, which node-cron 3 has not, a second
  registration leaves the first task firing.

Two assumptions are left. `SteadySpec`, of `PgSteady` alone: all instances have
registered before the clock starts, because registering again moves `next_run_at`
(a tick that is due when an instance restarts is lost, `pg/index.ts:157`), and no
query fails. And `Selective`, of the proofs of the semaphore (section 4).

The deployments of `Organisations`
(`MCOrganisation`) let one client at a time change roles, memberships or slugs
while the other asks, lists or acts: findOne and create are two calls, and the
code has nothing that keeps two writers apart (two `assign` leave two rows, of
which `unassign` removes one; two `create` share a slug). Overrides are written
by both. Each deployment uses overrides of one level, the scope or a resource;
`DenyDropped` shows what mixing them does.

The deployments of `Waitlists` (`MCWaitlist`) let both clients do anything, and
the properties excuse what the code cannot help: two calls that were about to
create an entry of one person leave two (`raced`), and two pops that have both
read an entry both answer it (`contested`). Entries go by the key of their actor.
Over a table the key of a person without an organisation leads to an entry of that
person within one (`StandsFor`), though `createWaitlistService.spec.ts:108` has the
two apart; a key with a colon too many leads to another actor or throws.
`RemovesItsOwn` says that a removal takes an entry its key leads to, and no other;
for the persons it has taken another one's entry for (`mistaken`) the list no longer
is what the calls have said. An id that is also a code is resolved to its own
person. Positions over a table are compared only
from when they are `Settled`: entries of one millisecond may change places, and
one that was stamped earlier may be stored later.

In `Services` users and preferences are compared with the calls that ran alone:
two creates of an email leave two rows, and are excused (`raced`), unless the
column is unique. Preferences with the value null are left out over memory,
where null is no value. Over Drizzle and Waddler, whose filters never match NULL,
an actor without an organisation is not found again (`FoundAgain`): each set creates
a row and get answers the default, and `PreferenceKept` says so. In `FileKept` a file is owed to the last upload that ran
alone; names of the hash strategy and uploads that fail silently are part of the
plans. Signing and watermarks are not.

In `Caches` a value of a tiered cache whose ttl has passed is answered only after a
copy to the first level, which drops the ttl (`tiered.ts:43`, `:67`). Redis gets no ttl of zero (which never expires), and
invalidations over redis are of one tag: `createCache.ts:266` takes
`invalidateTags` off the adapter, where it needs `this`, so that it throws and
the default `onError` swallows it. `mset` of vercel-kv drops ttls, and the bulk
operations of cf-kv are detached from their object and fail. With dedupe there
is one namespace: its map is of the module.

In `Platform` unparsed bodies on the routes of Express and Pages are left out (a
verified one fails, an unverified one is executed as `{}`). Universes share ids in
the plans of embeddings: in Vectorize two items of an id are one, and in sqlite-vec
an upsert overwrites the item of the other universe and leaves it there
(`LeftBehind`), where its ON CONFLICT is taken at all; both cases are plans. A change
of a file that was missing at creation, or was replaced, is excused
(`unseen`): it is not watched. Two overlapping `handle` of a queue are excused
(`crossed`): they leak a worker. Cookies are set with one path: of two cookies
of a name, a page would read that of the shorter path.

**Fairness.** `JobFairness`: the runtime continues calls that have started and
the clock, handlers end, and the engine starts executions again and again
(strong fairness of `Execute`: an instance is not busy with something else for
ever). `Fairness` of PgEngine: setInterval fires and the server answers (weak),
and a handler that is run again and again does not throw for ever (strong).
`Fairness` of NodeCron: runs continue and node-cron fires a task that is on
(strong, since a run may have to wait for a free name), and no run waits for
another one. Crashes, failures and
throwing hooks are never required.

**What the violation says.** `DenyDropped` is a sentence of the documentation the
code does not keep; `PROJECT.json` quotes it.

**Other places where code and documentation part**, met while modelling; the
models follow the code:

- the default owner of `lockPlugin` is shared by all instances (`lock.ts:15`), which
  then run a job at once, against `lock.ts:3`; `JobLockSlots` gives each instance one;
- owners that race take more than max units of a semaphore (`createSemaphore.ts:53`;
  `lock/semaphore.mdx:28`);
- with a pool, which `job/pg.mdx:45` allows, an advisory lock is taken in one session
  and given back in another;
- a preference of an actor without an organisation is never found again over Drizzle
  and Waddler (`createPreferenceService.ts:81`; `preference/basic-usage.mdx:45`);
- unsubscribing a person without an organisation over a table removes its entry
  within one (`waitlist/adapters/db.ts:46`; `createWaitlistService.spec.ts:108`);
- a tiered cache answers values whose ttl has passed (`tiered.ts:43`;
  `cache/tiered.mdx:54`);
- the poll of the pg engine reads `next_run_at` before it takes the advisory
  lock and not again (`engines/pg/index.ts:83`), so that a late instance runs a
  tick that has been run; `LockGoverns` speaks of overlap only;
- setInterval starts a poll whether or not the last one has ended
  (`engines/pg/index.ts:162`), and advisory locks do not keep polls of one
  session apart (`:101`): a handler longer than the interval runs twice at once,
  and another instance may join it;
- plugins do not wrap the runs of workers and crons, though `job/index.mdx:42`
  says so; enqueue where a handler is registered runs it at once, paused or not;
  QStash's refusal to delete a schedule is swallowed (`engines/qstash/index.ts:118`);
  another process than the one that registered cannot unregister;
- `invalidateTags` over redis does nothing (above), though `cache/tags.mdx:9` says
  that entries are deleted; DEL of a tag loses a concurrent SADD to it;
- `env` does not reload the object its watcher tells of (`env/core.ts:382`;
  `env/basic-usage.mdx:172`), and a callback that throws ends the process;
- a listener of listenOnce is called twice when a handler before it emits the
  same type (`event/primitive.ts:49`; `event/basic-usage.mdx:93`), so
  `OnceSpent` speaks of the emits that begin after the first call;
- filters are ignored by pgvector and sqlite-vec (`pgvector.ts:83`;
  `embedding/api.mdx:173`), and migrations of sqlite-vec throw when run again;
- an eager slot that rejects ends the process under Node's default
  (`createContextService.ts:21`; `context/scopes.mdx:21` has the error surface at
  get); a circle of slots overflows the stack, or waits for ever if one awaits
  before it gets the next;
- a cookie that `onMismatch` removes is removed with no path (`typed.ts:156`), so
  a page below / leaves a cookie of / where it is; a cookie that is absent is
  removed too where the schema does not take undefined, and the response may
  delete what another page has set meanwhile; values that are objects are stored
  as JSON but the schema is given the text; a `parser` among the options is not
  used (`typed.ts:56`); names are encoded and never decoded.

## 4. Proofs

`MutexProofs` proves, for every value of the constants:

- `Typing`: `Spec => []TypeOK`. This and the other theorems are about `Spec`, with no
  hypothesis on the repository, the owners or the time of extensions;
- `Backing`: `CallsBacked` is invariant. It is the inductive invariant: a key that is
  not muddled has one row and no two processes that use it for one owner, every
  grant of it is backed by a live row of its owner that lasts at least as long, and
  the locals of every suspended call on it are still true of the rows. That a key
  stops being muddled when nobody uses it and no row is left is part of it: what
  is left behind could be used by nobody.
  `MutualExclusion` alone is not inductive: it says nothing of a call that has
  created its row and not yet answered, or has read a row it will delete;
- `Exclusion`, `NeverDeceived`, `Kept`: mutual exclusion, `GrantBacked` and the
  action property `LiveLockKept`, from it;
- `Implementation`: every step of Mutex is a `Take`, a `Drop` or a stutter of
  `LockService`; a muddled key counts as held by nobody.

Its last part proves `JobTyping`, and `JobExclusion`: `JobSpec =>
[]NoDoubleExecution`. Executions take only steps of Mutex, so `CallsBacked` carries
over; an execution that has not outlasted its lock has a grant (its `left` is no
more than that of the grant), and two grants of a key that is not muddled belong
to one process.

`PgEngineProofs` proves, for any instances, jobs, clients or pools, numbers of polls
and clock, with no hypothesis:

- `Governed`: `Spec => []LockGoverns`, whatever throws, fails or crashes. It is
  `NoOverlap` with what makes it inductive: the types and `LockAccounted`: no two
  sessions hold the lock of a job, and one that has not strayed is held once for
  each poll that has taken it and not given it back. `NoOverlap` alone says nothing
  of who holds a lock, and so nothing of the poll that asks for it next. The number
  is a cardinality: the lemmas say what a poll that comes or goes adds to it.

`NodeCronProofs` proves, for any crons, tasks, runs and bounds:

- `Reached`: `Spec => []TasksKnown`, whether tasks can be destroyed or not. The
  inductive invariant is the types, `NoStrayTask` and `MapOwned`: the task the map
  has for a cron was made for it. Without the last, a registration could destroy
  the task of another cron and leave its own firing;
- `SkipsCounted`: `Spec => []SkipsOnce /\ RequestHonoured`, the safety parts of
  `SkipsHonoured`, however runs and requests overlap. The invariant `SkipInv` adds, of
  the crons that are not `raced`, that the mark in the repository is
  the last request or a date that has passed (`MarkTrue`), that a run about to
  clear a mark has read the one that is there (`CheckTrue`), and that a skipNext
  still marked has not been granted (`Pending`). `RequestHonoured` then holds of
  each step: a run that gets through has read no mark, or one whose date has come.

`SemaphoreProofs` proves, for any processes, keys, rows and units and from a
finite store:

- `UnitsKept` and `CapacityKept`: `Spec => []UnitsHonoured` and `Spec =>
  CapacityHonest`. The second is `LimitKept`, of all owners together: a call that is
  not `Outdated` when it writes has read a count that still is so, and the units it
  adds were checked against it; and `SharesBounded`, of each owner. The inductive invariant `IInv` says, of an owner with one
  process: it has at most one row for a key (`OneRow`), which counts no more than
  max units unless it has expired (`Bounded`) and no less than the units in use,
  in flight to an answer or about to be given back (`Backed`); what a suspended
  call has read of the row is still true (`CallOK`), and the units it is about to
  add fit beside it (`MayAdd`). The other owners' rows may change at every step,
  so the total that acquire compares with max is stale when it writes; its own
  part of it is not, because no other process writes there. Of all owners `IInv`
  says that calls refer to rows of their own (`Refers`) and take no more than
  they have read (`Takes`).
- The counts are sums over the rows (`MapThenSumSet`). What the proofs need of sums
  (a sum splits, a part is no more than the whole, an injection into bigger
  terms gives a bigger sum) needs an induction over finite sets, which is made by
  taking a smallest set for which the fact fails.
- The hypotheses: `Modest`, no leftover row that counts exceeds max units; and
  `Selective`, the where clause of a process selects rows of its own owner. The
  second is a demand the code makes on its application: where an undefined
  organisation matches any, acquire by an actor without an organisation finds the
  row of the same actor within one and, since it does not check `ownerMatches` as
  release does (`createSemaphore.ts`), adds its units there; release then throws.
  TLC finds `CapacityHonest` violated with two such owners.

`OrganisationProofs` proves, for any clients, members, organisations, realm and
tables, and any deployments that are `Careful`:

- `RolesKept`: `Spec => []RolesOfMembersOnly`. No transaction and no constraint joins
  the assignments of permission to the rows of membership; only the order of the
  calls of the facade does. The invariant `RInv` says what each suspended call
  knows: a client between add and assign that its member has joined (`Joins`), one
  between unassign and remove that its member holds no role (`Leaves`), and that
  the row a call is about to delete is the one it means, since ids are fresh
  (`FreshMembership`). Unassign deletes one row, so `Leaves` needs that a member
  has one role in an organisation (`OneRole`), which holds as long as one client
  assigns: find and create are two steps, and two of them both find none.
- `Careful` is the hypothesis: whoever holds a role at the start is a member, and
  either nobody removes members and roles are given to those of the start or
  through addMember (`OnlyJoins`), or one client changes the membership and nobody
  else gives roles (`OneChanges`). Each deployment of the run is one of these. The
  code needs it: assignRole does not ask for membership, and a removal that is
  between its two halves does not see what another client assigns. Everything
  else is free: what the other clients ask, revoke, override, list or delete, and
  which calls the tables reject.
- The assumption on the constants: no member and no organisation is undefined or
  null, which a where clause would drop or never match.

The rest of `OrganisationProofs` proves the four other properties of the organisation
services, as generally. Each rests on `TInv`: the
types of the tables and of the calls at every await, fresh ids, and which call of
permission a suspended call of the facade waits for.

- `OverridesStand`: `Spec => []OverrideStands`. Its invariant `SInv` adds that the
  ids a suspended revocation holds are of rows it means to delete (`HoldsIds`): ids
  are fresh, so whatever the others do meanwhile, it deletes nothing else.
- `RevocationsDone`: `Spec => []RevocationsHonoured`. `CInv` says, as long as nobody
  adds to what a call revokes, that everything left of it is among the rows the
  call has found (`Clearing`), and that a member has one role in a place
  (`OneRoleEach`): unassign deletes one row only.
- `AnswersSeen`: `Spec => []AnswersTrue`. A query reads denies, then grants, then the
  role, of one action after the other. `AInv` says of a suspended query that what
  it answered for the actions behind it was the policy at some instant since it
  began, and, of the action it is at, which of the reads behind it can still be
  relied on and which conclusion the policy has already borne out (`Asking`).
- `ChangesVouched`: `Spec => ChangeVouched`, from `AnswersSeen` and `VInv`: a change that
  is past its check was allowed at some instant of it.

The hypotheses are of the deployments; every one of the run satisfies them, and
TLC has checked that too:

- `Explicit`: arguments and rows are of their types, questions are not empty, and
  ids are unique. What the code takes as `undefined` is one of the values.
- `OneLevel`, for overrides: if grant or deny is called without a resource then it
  always is, and so were the rows of the start. Mixed, the call without a
  resource takes the row of a resource for its own, and the revocation of one
  deletes the row of the other: the finding `DenyDropped`.
- `OneGiver`: one client assigns roles, directly or through the facade. Two could
  both find no row and create two; unassign then leaves one behind.
- `OneKind`, for the answers: where others deny during a query nobody grants or
  assigns meanwhile, and where others grant nobody changes roles. With both, a
  query can combine an old read of one table with a new one of another into an
  answer that no instant gave.

The assumption of `Organisation`, `ArgumentAssumption`, is that neither `undefined` nor
`null` is the name of a scope, a resource or a permission.

`WaitlistProofs` proves, for any clients, persons, organisations and deployments of the
waitlist and the referral service, over both adapters, whatever is rejected. Each
theorem rests on `TInv`, the types of the tables and of the calls at every await.

- `ActorsKeepOnePlace`: `Spec => []ActorsOnce`. findOne and create have an await
  between them; `WInv` says that a call about to create has found nothing and
  nobody has added it since, unless `raced` has the person. For pop `HInv` says
  that two pops hold the same entry only as `contested`, that what a pop holds has
  not been handed out, and that the row it is about to delete is the one it has
  read: pop removes by the key of the actor, so the last needs `WInv` too.
- `CallsDoWhatTheyAnswer`: `Spec => []CallsHonoured`. `CInv` says what a bulk call or a
  cleanup has done so far (`Effected`), as long as no call that undoes it has
  overlapped, and that the deletion it is about to make leaves no entry of the
  actor (`Targeted`).
- `RemovalsAreOwn`: `Spec => RemovesItsOwn`, an action property. `OInv` says that the row
  a suspended deletion holds is one of its actor, whatever was created since, and
  that what pop and the cleanup have still to remove are the actors of what they
  read.
- `InvitationsLeadBack`: `Spec => []InvitationsHonoured`. `IInv`: an invitation that goes
  on to the list has its referral (`Invited`, `Recorded`), and one recipient has one
  referral (`OnePerRecipient`, `Alone`). `KInv`: a code that is handed out or stored is
  its person's (`Issued`, `Vouched`, `Asked`).

The hypotheses are of the deployments; every one of the run satisfies them, and
TLC has checked that too:

- `Explicit`: actors, expiry dates and options are of their types.
- `CodesNamed`, for `InvitationsLeadBack` alone: ids and generated codes are neither
  undefined nor null, which their types exclude.

The assumption of `Waitlist`, `ActorAssumption`, is that no person and no organisation
is undefined or null.

`AccountsProofs` proves, for any clients and plans of the user or the preference
service, over any of the three adapters and dialects, whatever connections break and
whichever rows an application hides or removes:

- `UsersStayKept`: `AccountsSpec => []UsersKept`. create and update look for the
  email in one statement and write it in another, so what keeps it single is what
  the call still knows when it writes (`Clear`): no visible user but its own has
  the email, unless another call names it at the same time, in which case `raced`
  has it (`Overlaps`), or the column is unique and the write is refused. The
  statement may be two (MySQL writes, then reads again) and its answer may be
  lost after the write took effect. For deletes `Dropped` says that no
  visible row is that of a user whose delete has returned, and `Unmissed` that no
  call that began later has read one; both need that ids are fresh and that no
  statement makes a hidden row visible.
- Its hypothesis: the emails of a plan are neither undefined nor null (`Addressed`).
  The type of the service asks it, and where clauses would drop such a value or
  never match it. Its assumption, `AdaptersAssumption`: the date of a deleted row is
  not null, and undefined is not null.
- `PreferencesStayKept`: `AccountsSpec => []PreferenceKept`, over the memory adapter
  too. A set or a reset finds an entry in one statement and writes it in another,
  and what it has found must still be so when it writes. `PreferencesInv` says: of a
  preference that no two calls wrote at the same time there is one visible entry at
  most (`OneEntry`); what its only writer has found is all that is held, and what it
  has written is held when it goes on (`WriterOK`); the id it writes by is of no
  other preference's row, whoever created or deleted rows in between (`IdOf`: ids
  are not given twice); while nobody writes it, it is what the last call left,
  unless that one failed (`EntriesKept`); and a get or a list that is owed a value
  runs beside no writer of it (`ReaderOK`). A call of setMany gives up its
  preferences one by one, so the one that it leaves must hold its value even when a
  later one of the same call fails.
- Its hypothesis, `Keyed`: keys, values, persons and organisations are neither
  undefined nor null, and two actors differ in what is stored of them. The
  plans of the run satisfy it. Its assumption, `AccountsAssumption`: what stands for
  "no value is owed" is not the value of a preference that was reset.

`PlatformProofs` proves, for any clients and plans, three properties of what an
application stands on:

- `VectorsStayKept`: `EmbeddingsSpec => []VectorKept`, over the four stores, whatever
  connections break. `EmbedInv` says, of a suspended call, what it is about to
  store (`EmbedCallOK`: the vector is that of the text it was called with, and a
  migration that makes the index has its table), and of each item that the rows
  hold what its last change left (`Holds`), unless an answer was lost or two
  changes overlapped. An upsert replaces by id in one store and by id and universe
  in another; `UpsertedShown` and `WithoutShown` say that either touches its item
  and no other.
- Its hypotheses are of the values alone: what stands for no item is not one, and a
  set of rows is not the value for an absent table (`TablesAreRows`). Where universes
  share a row the invariant follows the row (`LeftBehind`).
- `SettingsStayKept`: `SettingsSpec => []SettingKept`. A read passes over sources and
  may be suspended at a database while files, rows and variables change. Its
  invariant says what a suspended read can still rely on (`StageOK`): each source it
  has passed had no value at some instant of the call, and what it has found was in
  the row at one; and that the history has what each source holds now (`HadOK`), so
  that whichever source the read goes on to adds a witness. The hypothesis
  `Listed`: the sources of a key are a sequence.
- `OncesStaySpent`: `EventsSpec => []OnceSpent`, for any nesting of handlers, with no
  hypothesis. A once takes itself off the bus before it runs, but emits that are
  suspended in a handler still have it among what they will call. `BusInv` says
  that a function is one registration wherever it is known (`OnceIsOne`) and that
  its set holds it once (`Alone`), so that taking it off leaves no second one; and
  of a once that was called (`Spent`) that it is not on the bus and is left only in
  emits no later than those that had begun. The lemmas are about the operators of
  `SequencesExt` the model uses: a flattened sequence has the elements of its parts
  (`FlattenSeqTyped`), a first occurrence that is removed leaves none
  (`RemoveFirstDrops`).

TLC has checked each inductive invariant on the instance of a run before it was
proved.

Only model-checked: liveness (`JobResumes`, `DueRuns`, `SkipEnds`, a part of
`SkipsHonoured`), which is beyond the prover, and for now every component but
the locks, the pg and node engines, the organisation services, the waitlist with
its referrals, the users, the preferences, the embeddings, the reads of settings
and the event bus; of the waitlist also `Fifo`, of the settings `ChangeTold`.
What the parser of environment files or a cookie store computes by a fold over
its input is checked on the inputs of the runs: the library's induction theorems
take an operator as a parameter, which the provers cannot instantiate.

## 5. Plan

Modelled first were the lock and job packages, then the services over rows,
then the cache, the providers of queues and what an application stands on. Left
to do, in this order:

1. Proofs: `NoZombie` and `AnswersKept` of the cache, `FlagsKept` and `NotifyKept`,
   `FileKept` and `FileAuthentic`, `QueuesHonoured`.
2. Operations that are missing: transactions, upsert and hard deletes of db; `ttl`,
   `persist` and the plugins stats, prefetch, stale of the cache; `retryInstance`
   and schedule ticks of the providers; signed URLs of storage.
3. Pure algorithms: actor keys, Bezier curves over integers, the clauses of
   warehouse, against reference definitions over bounded inputs.

## 6. Not modelled

Logging, telemetry, the wording of errors, serialisation where no property is
about it, and packages without state of their own. `has`, `isLocked` and other
single reads that answer what a row says. Listings and counters of the engines.
Of db: transactions, bulk inserts, DDL, the classes of errors. Of env: quotes and
escapes in files, the order of keys in an expansion. Of embedding: scores, and how
Vectorize becomes consistent. Whatever the applications' repositories and the
providers do beyond their interface. `PROJECT.json` lists every component with its
status and reason.

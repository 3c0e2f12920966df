# VibeIn in TLA+

A verification development kept beside the VibeIn monorepo: TLA+ modules that
model its components, TLC configurations that check them on small instances, and
proofs that TLAPS checks for every value of the constants. Paths below are
relative to the root of the repository (`src/` in `PROJECT.json`).

* `tlasany M.tla` parses a module,
* `tlc -workers 2 -config MCX_run.cfg MCX.tla` runs a configuration,
* `tlapm XProofs.tla` checks a module of proofs.

`PROJECT.json` is the machine-readable side: components, runs, one mutant per
checked property, the source lines of every definition, findings, hazards,
theorems.

## 1. Inventory

VibeIn is a TypeScript monorepo: a NestJS backend
(`apps/services/vibeinbackend`), a Next.js frontend (`apps/web/soundfear`) and
shared packages (`packages/*`). It has no tests, so comments and documents are all
that says what the code is meant to do.

```
 browser                         backend process(es)                   stores
 -------                         -------------------                   ------
 login/registration flows --HTTP--> auth controller
   OTP step, OAuth popup              |-> OTP service ----> Lua handler --> Redis
 video extractor (worker)             |-> identities -----> Mongo client -> MongoDB
                                      |-> sessions -------> Redis client -> Redis
```

### Backend packages

| Component | State | Operations | What is hard, and what makes it correct |
|---|---|---|---|
| **OTP service** `packages/otp` | per e-mail the code (bcrypt hash, expiresAt, attempts) and the verify token; per device and e-mail the lock, the cooldown and the send count; all with TTLs in Redis | `sendOtp` (one Lua script), `verifyOtp` (lock and read in a MULTI, checks, bcrypt, increment / delete / exchange, release in `finally`), `consumeVerifyToken`, `cooldownSeconds` | the value is read before an await and written back after it; the lock may run out under its holder; crashes and failed commands leave the lock or an uncounted guess; the lock key has the device, the code's key has not. Correct when guesses are bounded, a code is exchanged once and in time whenever nobody else works on it, the lock excludes, is never stolen and never stays for ever, and sends are bounded |
| **Lua handler** `packages/cache/src/luaHandler.ts` | `_initialized`, `_scripts`, `_loading`; Redis' script cache | `initialize`, `execute` with NOSCRIPT recovery | one instance shared by two services; calls interleave at each await around the shared map of promises; the cache may be lost at any time, a command sent again or run after its caller gave it up. Correct when a script is loaded once at a time, run once per call and per time its command is sent, and every call settles |
| **Redis client, Redis service** `packages/cache` | the status of the ioredis client, `isRedisConnected` | `getClient`, the retry strategy, `disconnect`; the commands, which all begin with `getClient` | concurrent first callers; ioredis reconnects by itself; quit. Correct when the flag and the client agree, but for causes one can name |
| **Rate limiter** `packages/rate-limiter` | windows, logs, buckets, violations and bans in Redis, black- and whitelist | `check`, `reset`, `penalty`, four Lua algorithms | nothing reaches it, and `check` throws on every call as the code stands, see section 8 |
| **Mongo client** `packages/mongo` | `connection`, `connecting` | `connect`, `disconnect`, `getConnection`, transactions | one attempt shared by callers; disconnect during an attempt; the driver loses and finds the server by itself. Correct when one attempt runs at a time and no connection stays open unknown to the client |
| **SMTP, logger, config, lint** | - | - | stubs and I/O |

### Backend application

| Component | State | Operations | What is hard |
|---|---|---|---|
| **Identities** `modules/auth/.../use-case.repository.ts` | users and identities in MongoDB with unique indexes | register / log in with credentials or a provider | two first sign-ins race in snapshot transactions; the callback runs again after a conflict or a failover, a commit may lose its answer; only the indexes keep duplicates out. Correct when every call is atomic, no user is left without an identity and none is doubled |
| **Sessions** `.../session/infrastructure/redis.service.ts` | one hash per session, one set per user | create, revoke one, revoke all | none is ever created as the code stands, see section 8 |
| **Auth service, auth controller** | - | compose OTP, identities and sessions | the verify token is consumed before the account is created, the account is committed before the session |
| **Tokens and hasher, provider OAuth service, request context, HTTP shell** | - | libraries, HTTP, wiring | no interleaving of their own |

### Web application

| Component | State | Operations | What is hard |
|---|---|---|---|
| **OAuth popup** `use-oauth-popup.ts`, `oauth-buttons.tsx`, callback page | refs to the popup, the active id, an interval and a timeout; `pendingProvider`; the exchange mutation | `start`, poll, expiry, message handler, `cancel`, unmount | results arrive twice, late or never; the browser may sever the popup; refs know only the latest flow. Correct when a spinner always ends, no dismissed flow succeeds, and a success is accepted for as long as promised |
| **Extraction pipeline and demuxer** `modules/video-extractor` | the page's stage, the worker of the pipeline, each worker's packet count and messages | `start`, `reset`, `abort`; the worker's open, copy, finalize, fail | a worker per run, messages in flight across reset and restart. Correct when a result is whole, 100 % means final, and a finished page is left alone |
| **Login and registration flows, OTP step** `modules/auth/components` | step, e-mail, ticket, typed code, countdown, mutations under way | submit, automatic submission, resend, back, password screens | answers overtake each other and the user; a resend drops a verification; a corrected digit submits again. Correct when the screens belong to the address last asked for and a complete code is always answered |
| **Auth store and guards** `auth.store.ts`, `use-require-session.ts`, the dashboard page | status and user in memory | `setSession`, `clear`, the guard of the dashboard, `signOut` | the session lives in localStorage, which other tabs share; answers arrive after the page is left. Correct when a page that was left changes nothing and the guard always decides |
| **Mock auth service** `auth.mock.ts` | users and session in localStorage, tickets in memory | the `AuthApi` calls | each waits first and does its work when the wait is over |
| **Contracts, marketing pages, UI kit** | - | - | declarations, rendering |

`PROJECT.json` lists the hazards of this code at their lines, with the properties
that would catch them; a hazard without property has a note that says why.

## 2. Plan

The order follows what a wrong step would cost. First what guards accounts and is
shared by the backend (1, 2), then the concurrency of the browser (3, 4), then the
backend's stores, then their composition.

| # | Module | Models | State |
|---|---|---|---|
| 1 | `Otp`, `TimedLock`, `OneTimeCode` | OTP service; the abstract lock with a lease and the abstract one-time code it implements | done, proved |
| 2 | `LuaHandler`, `ScriptService` | Lua script handler; the abstract service of scripts it implements | done, proved |
| 3 | `OAuthPopup`, `SignIn` | OAuth popup; the abstract sign-in it implements | done, proved |
| 4 | `Extraction` | extraction pipeline and demuxer | done, proved |
| 5 | `Accounts`, `AccountStore` | identities in transactions against unique indexes; the atomic store of accounts they implement | done, proved |
| 6 | `MongoClient` | one shared attempt, retries, disconnect during an attempt, the driver's reconnects | done, proved |
| 7 | `RedisClient` | the first connection among concurrent callers, ioredis' reconnects, quit | done, proved |
| 8 | `AuthFlows` | login and registration flows, OTP screen, auth store, guard, mock auth service, as one browser tab | done, proved |

The rate limiter, the sessions and the auth controller were planned and are not
modelled: section 8 has the reasons. What could be added when the code grows into
it: the composition of verify token, account and session with a crash between any
two, once a session can be created.

## 3. The modules and the code

Each module is written alike: one action per piece of code between two awaits,
guards from its conditions and early returns, history variables named as such and
read by no guard, bounds named in the CONSTANTS. Definitions whose comment begins
with "Mutant:" are faulty variants of the definition after them and take part in no
specification; `PROJECT.json` says which property each of them violates.

### Otp (`packages/otp/src`)

A *request* is one call of `verifyOtp`, a record of its lock token, device and
e-mail, used once. Time is one clock `now` in ticks, for Node and Redis alike.

| Code | Model |
|---|---|
| keys `otp`, `verifyToken` per e-mail; lock, cooldown, send count per device and e-mail | `otp`, `verifyToken`, `lock`, `cooldown`, `sendCount`; each value carries `until`, its TTL, and `Tick` removes what has run out |
| `sendOtp` with the script `sendotp` | `Send`: one atomic action, cooldown tiers in `ComputeCooldown` |
| `lockAquireAndGetOtp` (SET NX EX and GET in a MULTI) | `Acquire`; `Busy` when somebody has the lock; `AcquireNoOtp` when there is no code, which leaves the lock behind as the code does |
| expiry and attempt checks | `CheckFails`, `CheckPasses` on the snapshot `snap[r]` |
| delete of an exhausted code | `Delete` |
| bcrypt comparison | `CompareInvalid`, `CompareValid` |
| `attemptIncress`, `#setToken`, `releaseLock` | `Increment`, `Exchange`, `Release` |
| a command that fails, a process that dies | `CommandFails` (the `finally` still releases), `Crash` (it does not) |
| `deviceVerified` | `Consume` with the field names the script reads |

The DI container wires this package to scripts that are never loaded
(`StoreService.init` has no caller), so the model is of the classes and their Lua
scripts, not of a running deployment. The controller calls `verifyOtp` without
`tokenSetAble`; both ways are modelled (with and without `Exchange`).

`TimedLock` is the abstract lock: clients enter and leave, leases lapse at any
time, and a client enters only when all inside with its key have lapsed. `Otp`
instantiates it as `Lease` with *inside* = the requests between lock and release,
*lapsed* = those of them older than `LockTtl`.

The code's key belongs to the e-mail and the lock to a device and an e-mail, so
requests of several devices, and one that outlived its lock, may work on one value
at the same time. History variables say when they do: `beside[r]` holds the codes of
the requests that `r` works beside, `joint` counts the wrong guesses made beside another
request for the same code, and a *round* of a code lasts as long as requests carry
it without a gap; `rounds` counts those in which an attempt was written.

`OneTimeCode` is the abstract code. It is sent once and guessed wrong at most
`MaxAttempts` times, and once more for each wrong guess that died uncounted or was
made *jointly*; it costs at most `MaxAttempts` rounds; and it is neither guessed nor
used after its time, nor after its use by a request that worked alone. There are no
requests, no lock and no stored value in it. `Otp` instantiates it as `OneTime`: the stored
values, the snapshots and the lock are hidden, *guesses*, *uncounted* and *uses* are the
history of comparisons, of deaths between comparison and increment, and of
exchanges. A code may be answered for `OtpTtl + MaxDuration`, since the expiry is
checked when a request begins and bcrypt comes later.

A command is sent once in this module, although ioredis sends one again when the
connection broke before its reply (see LuaHandler). In one backend process all
commands share a connection and are answered in order: what is sent again runs
before any later command of the process, so a SET, a DEL or a compare-and-delete finds
what its first run left. Two commands answer differently the second time. The MULTI of
the lock is refused by its own lock, which stays behind: in the model, `Acquire` and
then `Crash`. `sendOtp` is refused by its own cooldown, or stores the same code again
when that is over. With several processes a command of another one can come in
between, and a SET sent again could write back a value after its request's lock was
gone; this is outside the model. A command that runs after `commandTimeout` keeps its
place in the order too: a request is as long as its last command.

### LuaHandler (`packages/cache/src/luaHandler.ts`)

Calls of `initialize` and `execute` are processes of one Node event loop. A load is
the promise created by `#performLoad` or `#reloadScript`; it is named after the call
that made it. `loading[s]` is the entry of `_loading`. `LoadOrJoin` is the synchronous
piece that looks the entry up and joins or creates; `ScriptLoad`, `LoadResolves`
and `LoadRejects` are the command, its reply and its error with the `finally` blocks at
the places the code has them; a joiner resumes after the owner's own
continuation, as promise reactions run in the order they were attached. `EvalSha`,
`NoScript`, `Eval`, `Reload`, `Reloaded` and `CommandFails` are the branches of `execute`.
Redis' cache is external: `Flush` empties it, `EVAL` may or may not fill it, a reply
may be lost after the script ran. ioredis is external too, with the options it is
given (`constants/redis.constants.ts`, and the defaults where they say nothing): when the
connection breaks before a reply, it sends the command again once it is back
(`Resend`; for a load, `ScriptLoad` once more), and after `commandTimeout` the caller
hears of an error while the command stays where it is and may run later, several
times even (`TimesOut`, `LateRun`, `LateLoad`). A script file that changes between two loads
is left out.

`ScriptService` is the abstract service: a script is loaded by one call at a time, a
caller of `initialize` returns when all it asked for is registered, and a call of
`execute` runs its script at most once and once more each time its command was sent
again, returns only after a run, and may throw at any time, even before the last
run. `LuaHandler` instantiates it as `Service`; the flag, the map of promises, the
positions in the loops and Redis' cache are hidden.

### OAuthPopup (`apps/web/soundfear/src/modules/auth`)

A *flow* is one call of `start` that opened a popup. The refs of the hook are
variables; the intervals and timeouts of all flows exist beside them, because the
refs know only the last. `ClearInterval`, `StopPolling` and `Finish` are the
functions of the hook and are used inside the actions as the code calls them:
`Start`, `PollClosed` and `PollGivesUp` (two branches of the interval), `Expire`,
`Handle` and `Ignore` (the message listener), `Cancel`, `Unmount`, `ExchangeEnds`.
External: the popup's window (`PopupLost`: it is closed or severed by the browser;
`PopupRestored`: it goes back behind the page that severed it), `Publish` (the callback
page, which posts over BroadcastChannel and over the opener). `Start` has the
guard of the buttons, which are disabled while a flow is pending or a session is
fetched.

`SignIn` is what the page is promised: one flow at a time is awaited, only the one
awaited succeeds, once, and a new one begins when no spinner turns and no session
is fetched. `OAuthPopup` instantiates it as `Page`; popups, channels, messages,
intervals, timeouts and the refs behind them are hidden.

### Extraction (`apps/web/soundfear/src/modules/video-extractor`)

A *run* is one call of `start`. `Start`, `Reset`, `Abort` and `Deliver` are the main thread
(hook and pipeline), `Boot`, `Open`, `Skip`, `Add`, `Added`, `Finalize`, `Finish`, `Fail`, `Crash` the worker and
its demuxer. `Skip` and `Add` are the loop up to the await of the copy (a packet without
bytes is skipped), `Added` what follows it; an abort is noticed at the next packet.
A file is a sequence of packets, each with the time at which it ends (`timestamp +
duration`) and whether it is empty. Nothing orders these times, a first packet may
begin before zero, and the stated duration may be any; `Percent` floors their quotient
and keeps it within 0 and 99, and it is posted when it differs from the last one,
be it lower. A worker's messages are a FIFO (`outbox`); those of different workers
are delivered in any order. The drop zone is enabled in stage `idle`, so a second
run may start before the first has posted anything; `Reset` terminates the worker
in `this.worker` only and with it the messages it posted. Mediabunny is external: it
hands out packets one by one, may fail at each await and states any duration. `abort`
has no caller in the page yet. The size check in the worker is left out as the
drop zone applies the same limit first; `ChunkedFileReader` has no caller.

### Accounts and AccountStore (`modules/auth` and `packages/mongo` of the backend)

A call of `UseCaseRepository` is one transaction: `Call` begins it, `Find` are the
reads of a sign-in with a provider, `CreateUser` and `CreateIdentity` the two
documents, `Commit` the end. MongoDB is external and modelled as its documentation
has it: all reads come from the snapshot of the first operation, writes are the
transaction's own until the commit, an index key in the snapshot is a duplicate,
one written since or under way is a write conflict, and after a conflict or a
failover (`Lose`) the driver runs the whole callback again or gives up (`Retry`).
`Commit` may take effect and lose its answer.

`Providers` are Google and GitHub (`AuthProvider` without `Credentials`). They name their
users independently, so an id of one may be an id of the other for somebody else,
and one e-mail may come from both: its second sign-in links a second identity to the
user of the first. The branch that links maps the provider to itself
(`use-case.repository.ts:101-103`).

The module stands at the interface of the repository. `input.user.email` is
`input.email`, e-mails are normalised by the schema, and the indexes are built.
`withTransaction` wraps `EmailAlreadyRegisteredError` in a `TransactionException`; the
model says `taken` for the pair. `setCredentialsPassword` and `touchLastLogin` have no
caller. Over HTTP less is possible: a registration fails since the OTP store and
the session store are registered under the same symbol, a login with a password
since `passwordHash` is not selected, and the provider has no routes. The model
says what the repository does for any caller.

`AccountStore` is the abstract specification: each call that succeeds takes effect
at once, and a failed one either changed nothing or had its whole effect.
`Accounts` instantiates it as `AtomicStore`, with every stage of a transaction mapped to
*asked*.

### MongoClient (`packages/mongo`) and RedisClient (`packages/cache`)

In `MongoClient` a connection is a number with a state. `Connect`, `Succeed`, `Fail` and
`TryAgain` are `connect` and `withRetry` between awaits; `Disconnect` and `Closed` the two
halves of `disconnect` around its await. `LoseServer` and `FindServer` are the driver's
own. `lostOnce` and `overlap` are history: they name the two causes by which a
connection may stay open behind the client's back.

In `RedisClient`, `GetClient` is the piece of `getClient` before its await, `Ready` and
`CloseEvent` what resumes it. A call of `connect` that ioredis refuses changes nothing,
so it is no action. ioredis is external (`Reconnect`, and the status it has). The
flag is set by the caller whose `connect` succeeds and reset by nobody, which is
what `Wedged` and `Dead` are about.

`MCStores` puts `Accounts`, `MongoClient` and `RedisClient` side by side. They share no
state, so a behaviour is one of one of the three: the run is three small ones, and
its size is their sum.

### AuthFlows (`apps/web/soundfear/src`)

One browser tab. A call of the auth service is a record in `calls` from `mutate` to
its answer; the mock waits and then works at once, so a call's body and the
callbacks after it are one step (`RequestDone`, `LoginDone`, `VerifyDone`, ...).
Callbacks given to `mutate` run only while their component is mounted and the
mutation was not reset: such a call is `live`. A change of step, a way back, a left
page and a resend make calls silent (`Silence`). `Arrive` is the router at its goal,
with the effects of the page it mounts (`Mount`: `useRequireSession`). `Reload` loses
the memory and keeps localStorage; `OtherTab` changes localStorage. The popup is
reduced to who waits for it: `OAuthPopup` has its windows and timers.

Simplifications: after a sign-in the router goes to the dashboard, the default
target (`?next=` may name another page of the site); passwords are left out, so a
login of a known user may fail; React's re-renders and effects come before the
next event; localStorage is available; of the two implementations of the auth
service the mock (`NEXT_PUBLIC_AUTH_MOCK=true`) is modelled, since what the other one
answers is decided by a server.

Known behaviour that the model shows and no property forbids: a login or
registration whose page was left still writes its session to localStorage; the
end of `signOut` clears the store wherever the user is by then; `completeRegistration`
overwrites an account registered meanwhile; an abandoned popup can still sign in.

## 4. What the runs show

| Run | Instance | Shows | Distinct states |
|---|---|---|---|
| `otp_codes` | 1 e-mail, 2 devices (2 requests and 1), requests longer than the lock, 2 codes, 2 attempts, until the last lock and code have run out | `TypeOK`, `LockKept`, `NeverOvercounts`, `StoredAttemptsBounded`, `SingleExchange`, `DisturbsOnlyItsOwn`, and the refinement `OneTimeCodeSpec` | 1 598 000 |
| `otp_locks` | 1 e-mail, 1 device, 3 requests, some longer than the lock, under fairness | `LockAlwaysFreed` and the refinement `LeaseSpec` | 657 000 |
| `otp_cooldown` | 2 e-mails, 5 codes, no verification | `RateBound` | 84 000 |
| `otp_token` | 1 request | finding: `StoredTokenAccepted` is violated | |
| `lua_shared` | 2 scripts, 2 initializers in opposite order, 2 executions, 1 flush, 1 command of each call sent again, any timed out | `TypeOK`, `EntriesAreLive`, and the refinement `ScriptServiceSpec` | 771 000 |
| `lua_settle` | the same without commands sent again, under fairness | `CallsSettle` | 394 000 |
| `lua_own` | the same, each initializer with its own script | finding: `InitializedLoadsAll` is violated | |
| `oauth_flows` | 2 flows, 4 ticks | `TypeOK`, `OneInterval`, `SpinnerIsWatched`, `AcceptedUnlessOrphaned`, `NoSuccessAfterDismissal`, `SpinnerEnds`, and the refinement `SignInSpec` | 243 000 |
| `oauth_window` | 2 flows, 5 ticks | finding: `LateSuccessAccepted` is violated | |
| `extraction_runs` | 3 runs, with files that go on beyond their duration, that go back and that are empty, under fairness | `TypeOK`, `HundredIsFinal`, `ResultsAreWhole`, `OnlyOvertakenSurviveReset`, `ResultOnItsWay`, `OnlyTheFileGoesBack`, `NothingAfterResult`, `RunsEnd` | 471 000 |
| `web_flows` | 3 addresses, 3 calls under way, 5 acts of the user, 1 of another tab | `TypeOK`, `StepsFollowUser`, `CodeIsVerified`, `GuardDecides`, `LeftAlone`, `TicketsBuySessions`, `WaitsEnd` | 318 000 |
| `stores` | 4 calls, 2 e-mails, 2 providers, 2 ids; 5 connections to MongoDB, 2 attempts; 3 retries of Redis | `StoresTypeOK`, `NoOrphanUsers`, `ClientsAccounted`, and the refinement `AccountStoreSpec` | 932 000 |

All runs say `CHECK_DEADLOCK FALSE`: calls are used once and clocks end, so a state
in which everything is over is the normal end of a behaviour. That nothing stops
*before* it is over is what the liveness properties say.

A run does not list what its refinement says already. `OneTimeCodeSpec` contains `GuessBudget`,
`RoundsBudget` and, with `SingleExchange`, `NoLateExchange`; `LeaseSpec` contains `LeaseMutex`;
`ScriptServiceSpec` contains `SingleFlight`, `OneRunPerSend`, `ResultsAreReal` and, under the
configs of its run, `InitializedLoadsAll`. Each of these has a theorem of its own
all the same, since the proofs of the refinements rest on them.

### What the OTP properties mean together

The device's id is the client's word and nothing ends a request with its lock, so no
property assumes one device or short requests. Two devices may read the same
snapshot and write the same count back, and each may exchange the code; so may a
request and the one that took the lock after it lapsed. What holds all the same:

* **The budget.** Of the wrong guesses of a code, all but those made beside another
  request for it are at most `MaxAttempts`, and one more for each request that died
  after bcrypt and before the increment (`GuessBudget`). The guesses made beside each
  other are not bounded one by one, but a round of overlapping requests in which one
  is counted costs an attempt, so there are at most `MaxAttempts` such rounds
  (`RoundsBudget`). Nobody is locked out early (`NeverOvercounts`).
* **The one use.** A code exchanged by a request that worked beside no other for it is
  gone: no request carries it any more, and none ever brings it back (`SingleExchange`).
* **The lifetime.** No code is guessed or exchanged after its lifetime and the length
  of one request, beside others or not (`OneTimeCodeSpec`, `NoLateExchange`).
* **Other codes.** A request removes or overwrites only the code it read, one that a
  request beside it carries back, or one sent since it began (`DisturbsOnlyItsOwn`).
  The last is a hazard of the code, not of the model: a send takes no lock, so a stale
  write may remove a code that was just mailed.

With one device per e-mail and requests no longer than their lock nobody is ever
beside another (`AloneWithOneDevice`): then the budget and the one use hold without
exception.

### Bounds and why they are enough

* **Otp.** In `otp_codes` two requests of one device are one that
  outlived its lock and one that has it now, and the third meets them from another
  device; together they exhaust two attempts and leave one that must be refused.
  Two attempts distinguish the first failure from the last; two codes let a new
  one arrive under a request that holds the old one. `MaxDuration` is twice `LockTtl`.
  `EndOfTime` of both runs lies a lock and a code beyond `LastStart`, so every lock
  that was taken and every code that was sent can run out. A lock belongs to one device
  and e-mail: the three requests of `otp_locks` share one. `UnevenSymmetry` permutes the
  codes and the tokens of one device only.
  `otp_cooldown` scales the tiers down to one and two sends and keeps the relation
  that matters, long cooldown = lifetime of the count (86 400 s both in the code);
  eleven ticks hold almost two of those lifetimes.
* **LuaHandler.** Two initializers with opposite orders meet at both scripts from both
  sides; two executions meet their loads; one flush makes
  each of them recover, also while they are loading. One command sent again
  tells a run of the script from a run too many (`MaxResends`); the theorems have no such bound.
* **OAuthPopup.** Two flows are what an orphaned timer needs (its own and the one it
  hits). `CloseGrace = 0` means the grace period can end at any poll; the window
  of two ticks lets the second flow start inside the first one's.
* **Extraction.** Three runs: one whose worker was overtaken, its replacement and one
  after the reset. One file has an empty packet and goes on beyond its stated
  duration, or states none (0); one goes back, to before zero; the only packet of one
  is empty. With `Interval = 2` the first and the second copied packet are due: progress at
  the cap, progress that falls, and progress left out because it is what is shown. A packet
  between two that are due only adds to `copied`; the theorems have no such bound.
* **AuthFlows.** Three addresses: one that has an account, one that registration
  refuses, and the provider's, which can be typed and registered as well. Five acts
  are request, code, resend, another code and a way back or a link; the proofs show
  that the safety properties need no such bound. Three calls under way are a verification,
  a resend and a sign-out that was begun before.
* **Stores.** Two calls conflict, a third meets what either left behind, and a fourth
  a conflict of a conflict; two
  providers, two ids and two e-mails let callers share any of them and differ in the rest. Five
  connections with two attempts are one lost by the driver, its replacement, and
  a disconnect during the attempts of the next. Three retries instead of ten change
  nothing but the length of the way to the end. `StoresSymmetry` is sound: calls, e-mails, providers
  and ids are model values that nothing tells apart, and the run has no liveness property.

## 5. Fairness

* `Otp`: weak fairness of each request's own steps (`Verify(r)`) and of the clock. Node
  resumes an await whose command was answered; nothing is assumed of users, of sends
  or of crashes. `LockAlwaysFreed` says every lock is free again and again.
* `LuaHandler`: weak fairness of `Proceed(p)` for each call: a command gets a reply or an
  error and the event loop goes on. Which of the two is open. Flushes, new calls
  and commands sent again or late are not fair. `lua_settle` has `MaxResends = 0`: how often
  a command is sent again is open too, and a caller that waits for it has its error
  after `commandTimeout` (`TimesOut`) whatever happens to the command.
* `OAuthPopup`: weak fairness of the timers' callbacks and of the clock, because the
  browser fires every timer in the end. Popups, users and the server owe nothing:
  `SpinnerEnds` holds although no message may ever come.
* `Extraction`: weak fairness of each worker and of message delivery. `RunsEnd` excepts
  failed and terminated runs: the code posts nothing for them (the posts are
  commented out with a TODO, `extraction.worker.ts:23`), which is a hazard without a property.
* `AuthFlows`: weak fairness of the answer of each call (the mock's timers fire) and of
  the router's arrival. The user, the popup, the countdown and other tabs owe
  nothing.
* The stores have no liveness property: whether a retry ends is up to MongoDB,
  and to Redis whether a connection comes up.

## 6. Findings

1. **The verify token is never accepted** (`otp_token`). `#setToken`
   (`packages/otp/src/service/otp.service.ts:159-162`) writes the fields `token` and
   `email`, the script in `packages/otp/src/infrastructure/cache/redis.ts:130` reads
   `storedToken` and `storedEmail`.
2. **`initialize` loads only the first caller's scripts** (`lua_own`). The flag
   `_initialized` belongs to the shared handler, not to the configs
   (`packages/cache/src/luaHandler.ts:50`); the OTP service and the rate limiter
   both initialize it, though only one of them is reached today. With equal configs the property holds and is proved
   (`SameConfigsAreLoaded`).
3. **The timeout of a flow the poll gave up ends a newer flow** (`oauth_window`).
   `start` overwrites `expiryRef` (`use-oauth-popup.ts:130`), nothing clears the
   old timeout and `finish` ends whatever flow is active. `AcceptedUnlessOrphaned`
   shows, and its theorem proves, that this is the only way to lose the window.

## 7. What is proved

The eight modules of proofs have no unproved step. Assumptions are the named ASSUMEs
of the modules (constants are numbers, sentinels are not members) and, where said
below, one assumption more.

| Module | Theorems | Argument |
|---|---|---|
| `OtpProofs` | `TypeCorrect`, `LockIsKept`, `LockIsExclusive`, `LockImplementsLease` | The lock of an active request is in Redis with its own token until it lapses. With `TypeOK` this is inductive as it stands: `Tick` removes only what has run out, `Acquire` finds the key free, and `Release` compares tokens, which is what keeps a late `finally` from stealing. Exclusion and the refinement follow: whoever enters found no lock, so everybody inside with its key has lapsed |
| `OtpCodeProofs` | `RequestsAreTimely`, `CodesAreSent`, `AttemptsAreCounted`, `NobodyLockedOutEarly`, `AttemptsStayBounded`, and under `LongEnough` `SendsAreBounded` | Stored attempts and snapshots of a code are bounded by its failed comparisons, with one to spare between a comparison and its increment; snapshots past the check are below the maximum. It holds for any devices, since it never compares two requests. For `SendsAreBounded` (the tiers follow each other, the long cooldown lasts as long as the send count) `SendsInv` says that the stored count, up to the long cooldown, covers the sends of every window a send now would fall into, and that from then on the cooldown outlasts them |
| `OtpSerialProofs` | `ChecksAreInTime`, `ExchangesAreInTime`, `NeighboursAreKnown`, `RoundsAreCounted`, `RoundsAreBounded`, `GuessesAreCounted`, `BudgetHolds`, `SpentIsGone`, `ExchangedOnce`, `OnlyItsOwnIsDisturbed`, `LostWereAnswered`, `CodesAreOneTime`, and under `OneDevice` `AloneWithOneDevice` | For any devices and any length of requests. `BesideInv` says that requests which carry a value of one e-mail know each other's code; so a request with nobody beside it is the only carrier of its code (`OnlyCarrier`), and what it read is what it overwrites. On this rest the others. `RoundsInv`: the stored attempts of a code cover its counted rounds, and a carried snapshot covers them but for the present one, so that a late write never takes a round back. `SoloInv` and `BudgetInv`: a request that works alone is in a round of its own, and the wrong guesses of a code, without the lost ones and those made together, are one for each counted round and at most one in the present; `GuessBudget` alone is not inductive, since nothing in it says what the next increment will write. `SpentInv`: a code exchanged alone is carried and stored nowhere. `OwnInv`: what is stored under a request that carries a value is the code it read, nothing, one a request beside it may carry back, or one sent since it began. `CodesAreOneTime` is the refinement of `OneTimeCode` from these with `InTimeInv` (what is compared was read in its time) and `LostInv` (only an answered guess dies uncounted): each comparison is a `GuessWrong` or a stutter, each first increment of a round a `Cost`, each exchange a `Use`, each death between comparison and increment a `Die` |
| `LuaHandlerProofs` | `TypeCorrect`, `EntriesHold`, `EntriesStayLive`, `LoadsAreSingle`, `RunsHold`, `RunsAreCounted`, `ResultsComeFromRuns`, and under `SameNames` `SameConfigsAreLoaded`, `HandlerIsService` | The entry of a script belongs to a call that awaits its own load, and each load in flight has its entry; so a caller that finds none may load. How often a call has run is bounded by the step it is at and by how often its command was sent again (`RunsByStep`): before a command runs there is one run to spare, a command that timed out takes it along (`late`), and NOSCRIPT means that there was none. This gives at most one run more than commands sent again (`OneRunPerSend`, for any number of these and of timeouts) and a result only after one. `SameNames` (all initializers name the same scripts) makes the flag mean what callers read into it. `HandlerIsService` is the refinement of `ScriptService` from `ServiceInv`, the conjunction of these: a step of a joiner is a stutter unless it answers, a creation of a load is `BeginLoad` because the entry was free, its reply `EndLoad`, and whatever lets Redis run the script is `Run` or, when the command is sent again, `RunUnheard`. Without `SameNames` it is false, which is what `lua_own` shows |
| `OAuthPopupProofs` | `TypeCorrect`, `WatchHolds`, `IntervalsAreSingle`, `SpinnersAreWatched`, `FlowsHold`, `DismissedStaysDismissed`, `OnlyOrphansCutTheWindow`, `HookIsSignIn` | A running interval is the one in `pollRef`, and something is pending: therefore the buttons are disabled whenever `start` could leak one. While mounted the active flow owns `expiryRef`, so any other timeout belongs to a flow that was given up. For the refinement of `SignIn`, `SuccessInv` adds that a success has dismissed its flow and that nothing is awaited while a session is fetched (`PageInv`); a message is then `Succeed` or `End` of the awaited flow or a stutter, and a timeout, whosever it is, at most an `End` |
| `ExtractionProofs` | `TypeCorrect`, `ShownHolds`, `HundredComesLast`, `ResultsHoldEveryPacket`, `NothingFollowsTheResult`, `ResetEndsTheRest`, `ResultsAreComing`, `ProgressFollowsTheFile` | One invariant per run: a message of 100 % exists only when the worker is done, the result is the last message, and a resolved run has copied every packet with bytes and has an empty outbox. `ProgressFollowsTheFile` needs `OrderInv`: `lastProgressPercent` is the percentage of a packet that was copied before (`Sourced`), and, unless the file has gone back, the percentages in an outbox are sorted and end at `lastProgressPercent` (`RunOrder`) and the page shows of a run at most what the run has still to say (`PageOrder`). The percentage grows with the end of a packet (`PercentMonotone`), so a post below the last one takes two packets of which the later ends first; duration, interleaving and the final messages cannot make the page fall |
| `AuthFlowsProofs` | `TypeCorrect`, `ScreensFollowTheUser`, `CompleteCodesAreVerified`, `PagesAreLeftAlone`, `TheGuardDecides`, `TicketsAreNotWasted` | The screens' properties are not inductive without what calls know: a request or a verification that is still heard is about the address wanted last and the purpose of the flow on the page, and a screen's calls are heard only while the screen is there (`CallsFit`); a popup that is heard has its page (`PagesFit`). Hence an answer that is still heard belongs to the screen that is shown, and on a page without flow or guard nothing is heard but the end of `signOut`. `TheGuardDecides` adds that the router never goes from the dashboard to itself (`GuardInv`), since an arrival there would leave the guard as it is. `TicketsAreNotWasted` needs `TicketInv`: a ticket for a reset has its user, a call of a password screen has a ticket older than any later screen's, and one with the ticket on the screen is heard |
| `StoresProofs` | `TypeCorrect`, `CollectionsAreWhole`, `CallsAreAtomic`, `StoresTypeCorrect`, `ClientsAreAccounted` | A user that a transaction under way has created has an e-mail nobody else has or is about to commit (`NewEmails`), and an identity about to be committed is there already or shares no key with any other (`NewIdentities`). The snapshots do not appear in the invariant: what a call decides on what it has read is checked again by the indexes, or is about documents that are never removed. For the refinement, every stage before the commit is a stutter and the commit one atomic step; what a provider's call will answer then is fixed by `Accountable`. For the clients, `MongoInv` adds what is stored while attempts or closings are under way, `RedisInv` how a client got where it is without its flag |

Each invariant that a theorem rests on is built of named parts (`...Inv`), and has
one proof step per action.

**Only model-checked.** Liveness (`LockAlwaysFreed`, `CallsSettle`, `SpinnerEnds`, `RunsEnd`,
`WaitsEnd`): fairness and ENABLED are out of the prover's reach. What of them is
safety is proved: `LockKept` (a request's lock is its own until its end), `EntriesAreLive` (whoever
is waited for is under way), `SpinnerIsWatched`, `ResultOnItsWay` and `GuardDecides` say that
what a waiting part waits for is there. Every safety property that a passing run
checks has a theorem, and so has every refinement. No module uses a RECURSIVE operator.

## 8. Not modelled, and why

* **Rate limiter.** Nothing reaches it: no package imports it. `check` throws on every
  call, since nothing sets `_initialized` (`rete-limiter.ts:88`); the constructor is given
  a `RedisService`, which has none of the operations it calls; `init` loads
  `lua/leaky-bucket.lua`, which is not there; `token-bucket.lua` reads a variable `key`
  that it never declares. There is no behaviour a model could be faithful to.
* **Sessions.** `createSession` fails on every call: its HSET is given one string where a
  field and a value are needed, so EXEC is aborted. No session ever exists for the
  other operations, and the script of `revokeAllSessions` is empty.
* **Auth controller and auth service.** They keep no state and compose the OTP
  service, the accounts and the sessions. As wired, a registration and a login over
  HTTP fail before they get that far (section 3, Accounts), so a composition would
  show nothing that `Otp` and `Accounts` do not. Two hazards at this seam have no
  property for that reason: the verify token is consumed before the account is
  created, and the account is committed before its session.
* **Six more hazards without a property.** What the code does there is modelled, but
  the code itself goes wrong, or nothing in the repository says that it should do
  otherwise; `PROJECT.json` has the notes. A stale write or delete may hit a code that
  was just mailed (`otp.service.ts:102`); a code verified without `tokenSetAble` stays
  (`otp.service.ts:139`); `execute` throws when only the reload failed (`luaHandler.ts:161`);
  a failed extraction posts nothing (`extraction.worker.ts:51`); the flag of the Redis
  client stays wrong (`redis.client.ts:35`); a disconnect beside a connect leaves a
  connection open (`mongoose.client.ts:99`). `ClientsAccounted` says of the last two only
  that there are no other causes: it excuses those it names.
* **Tokens, password hasher, provider OAuth service:** cryptography and HTTP without
  state of their own. `Otp` models bcrypt as a comparison that may succeed only with
  the code the snapshot holds.
* **Contracts and schemas, request context, HTTP shell, SMTP stub, logger,
  marketing pages, UI kit, build and deployment:** declarations, wiring and
  rendering. They are most of the repository's lines, together with code that is
  commented out (`auth.service0.ts`, `auth.service1.ts`, `somefile.tsx`); that is why
  the modules map to a small share of all lines although they cover the code that
  keeps state.
* **Wording.** Error texts, logging, URLs, codecs and MIME types are abstracted
  everywhere.

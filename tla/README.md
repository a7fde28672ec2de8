# Verification of fmg-api-client

TLA+ modules, TLC runs and TLAPS proofs about `fmg_api_client`, an asynchronous
JSON-RPC client for FortiManager (FMG). Paths below are relative to
`src/src/fmg_api_client/`.

## The system

| Component | State it keeps | Operations | Hard behaviour | What makes it correct |
|---|---|---|---|---|
| `core/locking.py` `WorkspaceLockContext` | `_locked`, `_workspace_enabled` | `lock`, `commit`, `unlock`, `force_unlock`, `async with` | check-then-act on lockinfo; every await may raise, be cancelled, be retried, or lose its answer; -9 is overloaded | exclusive lock, batches all or nothing, no lock left behind |
| `core/client.py` `FMGClient` | `_http`, `_request_id`, `_system_status` | `connect`, `disconnect`, verbs, `multiplex` | retries of requests that may have been executed; calls under way across `disconnect` and `connect` | no more executions than attempts, results that mean something, calls that end |
| `core/session.py` `SessionManager` | `_session_token` | `login`, `logout`, `inject_session`, `auth_headers` | login or logout failing half way; token overwritten by a second login | no FMG session is left to itself but by a second login or a failed one or a failed logout |
| `core/tasks.py` `TaskTracker` | `interval`, the clock | `wait` | timeout racing completion; unknown states | bounded, truthful, prompt |
| `core/models.py`, `core/exceptions.py` | none | status codes, task states, coercions | strings of 7.6 against numbers of 7.4 | - |
| `managers/devices.py` `DeviceManager` | none (rows at FMG) | create/ensure/delete device, groups, members | row that materialises late; check-then-add races; non-blocking delete | ensure is idempotent, no false failure |
| `managers/metafields.py`, policies, blueprints, provisioning, CLI templates, objects | none (rows at FMG) | create/ensure variables, per-device values, upserts, adds, deletes, `get` | several writes, one of which may fail; the adapter's dialect against FMG's release; late and repeated writes | a write that reports success is there; what a failed sequence leaves is known |
| `managers/install.py` | none | start installs, returning a task id | retried exec starts two tasks; no task number in the answer | a tracked task is one the install started |
| `versions/` | `_registry` | `register`, `get`, `detect_version` | three parsers of one version text; FMG upgraded after detection | the adapter is that of the release |

All components talk to FMG through the client (`FMGClientProtocol`): the lock
context and the managers are callers of its verbs, `connect` calls the session
manager, and `TaskTracker.wait` polls with `get`. FMG keeps the shared state: the
ADOM's lock, uncommitted and committed writes, objects and tasks. Everything runs
on an event loop, so code between two awaits is atomic and everything else
interleaves, within a process and between processes.

## Modules

| Module | What it is |
|---|---|
| `FmgWorkspace` | external: one ADOM's workspace at FMG, one operator per request |
| `WorkspaceLock` | the lock context, one action per await and outcome, any number of contexts |
| `AtomicBatches` | abstract: a batch of writes becomes visible as a whole, or never |
| `RpcContract` | abstract: what one client call promises its caller |
| `FmgClient` | the client with its session manager, network and FMG |
| `TaskTracker` | `TaskTracker.wait` with a clock |
| `Installs` | `InstallManager`: an exec, the task it names, and the tracker that follows it |
| `DeviceManager` | the device manager: workers on one device and one group of an ADOM |
| `Versions` | version texts, their parsers and the adapters' dialects, as operators |
| `Registry` | `AdapterRegistry` as a process keeps it: registrations and lookups |
| `ConfigManagers` | the managers that write variables, templates, packages and objects, with version detection |
| `WorkspaceLock_proofs`, `WorkspaceBatches_proofs`, `FmgClient_proofs`, `TaskTracker_proofs`, `DeviceManager_proofs`, `Installs_proofs`, `Versions_proofs`, `ConfigManagers_proofs` | theorems |
| `MCWorkspaceLock`, `MCFmgClient`, `MCDeviceManager`, `MCConfigManagers`, `MCRegistry` | model values and function constants for TLC |

How they compose: `WorkspaceLock` extends `FmgWorkspace` and implements
`AtomicBatches` (`BatchesAtomic`). Its client calls are an abstraction: FMG may
execute the request any number of times while the call is pending (`Serve`), and
the call ends with an answer to one of the executions or with a transport error
(`Answers`). That this is what the client does is `RpcContract`, which
`FmgClient` is shown to implement, by TLC (`KeepsContract`) and by proof
(`ContractKept`). `DeviceManager` and `ConfigManagers` are built on the same contract.
`Installs` extends `TaskTracker`: its steps are those of the exec and, from the moment
a task id is known, those of `wait`. `ConfigManagers` and `Registry` extend `Versions`.

### WorkspaceLock and FmgWorkspace

A context is one use of a `with` block. `pc[w]` is the await it is suspended at:
`lockinfo`, `lock`, `probe` in `lock()`; `write` in the body; `commit` and
`unlock` in `__aexit__`; `force` in `force_unlock()`; or `body` between two
writes. `locked` and `enabled` are `_locked` and `_workspace_enabled`. `reply` is
the answer FMG has given to the pending call. `failed` and `aborted` are history
(which calls raised, whether the body did). `late` holds requests abandoned by
their client that FMG may still execute.

`LockinfoReturns`, `LockReturns`, `ProbeReturns`, `WriteReturns`,
`CommitReturns`, `UnlockReturns`, `ForceReturns` are the code from one await to
the next, one disjunct per way the code goes on. `Cancel` is `CancelledError`,
which is no `Exception`, so that only the `finally` of `unlock()` sees it. `Crash`
is the end of the process.

Taken for granted of FMG (nothing of it is in the repository): a session owns the
lock, not a client object; with workspace mode on, a write by a session that does
not own the lock is refused; writes are pending until `commit`; `unlock` discards
what was not committed; lock requests answer -9 when workspace mode is off or the
user may not lock. What is not known is a constant: whether the owner is granted
its own lock again (`RelockOutcomes`), whether lockinfo is served
(`LockinfoExposed`), whether a commit may be refused (`CommitMayFail`).

### FmgClient

`life` is where the coroutine that connects and disconnects stands: `down`,
`login` (in `SessionManager.login`), `status` (the `get("/sys/status")` of
`connect`), `up`, `failed` (an exception left `connect` or `disconnect`),
`logout`, `closing` (in `aclose`). `http` is `_http`; the HTTP client of the n-th
`connect()` is n, 0 is `None`. `token` is `_session_token`, by the login it comes
from; `sessions` are the logins FMG still honours. A call has a `phase` (`idle`,
`inflight`, `backoff`, `done`), counts its `attempt`s, and keeps the token of its
payload in `sess`. `served`, `executed` and `effect` say what FMG has done with
each attempt; `Serve` may do that after the client has given the attempt up.

`Start` is `_call` or `multiplex` up to its first await, `AnswerArrives`,
`TransientFailure` and `PermanentFailure` are the three branches of
`_post_payload`'s loop body, `Wake` is the code behind `asyncio.sleep`.
`CheckStatus` is `_check_status`, which `multiplex` does not call.

### TaskTracker

One step per await of `wait`. Time is counted in eighths of a second: 2.0 s, 1.5
and 15.0 s give integers there, so `interval * 1.5` is exact until it is capped; with
other parameters `NextInterval` drops the fraction of a unit. The constructor takes
any parameters, and so does the module: the first interval may be above the cap, which
`wait` applies from the second sleep on, a backoff may shrink the interval, a timeout may
be negative. `doneAt` and `final`, chosen initially, say when the task finishes and how
FMG says so: with a number, as 7.4 does, which `CoerceState` passes on whatever it is, or
with a word, as 7.6 does, of which one that is not listed becomes 0. `RunningCodes` and
`FinalCodes` are the numbers FMG may use; that 3 and 4 are none of a task under way is
what `models.py:127` says of them and is assumed. A GET takes between 1 and
`MaxLatency`; FMG looks at the task at some moment before its answer arrives. A sleep may
overrun.

### DeviceManager

A worker runs one operation; `op[w]` says which and `pc[w]` the client call it
awaits, so that `ensure_model_device` is `lookup`, `create`, `poll` and
`assign_to_group` is `getGroup`, `addGroup`, `addMember`. `LookupReturns` to
`ListReturns` are the code behind each await, a call of one operation by another
included (`GroupEnsured` returns from `ensure_device_group`, to the caller or into
`assign_to_group`). `result` is what the operation returned or raised, with
"created" and "reused" for the flag of `ensure_model_device`. The sleep between
polls is the time before the next `Serve`.

`device`, `group` and `member` are kept at FMG (external): an accepted device is
`creating` until its row shows up (`Materialise`), a deleted one is `deleting`
until its row goes (`Vanish`), which is what the module docstring and the flags
`create_task` and `nonblocking` tell of FMG. `makers`, `deleted`, `flawed` and
`contended` are history. Faulty workers may have a request executed twice
(`Serve`), or later (`Abandon`, `ServeLate`), and may fail or be cancelled at any
await (`GiveUp`). All writes are said to need a workspace lock, but nothing in the
manager takes one; `Locked` gives each operation a lock of its own, and the run
`devices` does without.

The deadline of `create_model_device` is looked at only when a GET has not found
the row. `PollReturns` may therefore raise `TimeoutError` after any such poll, as
one slow GET is enough, and must after `MaxPolls`.

### Versions and Registry

A version text is a record of its leading letter, its dotted numbers and whether a dash
suffix follows. `MajorMinor` is `SystemStatus.major_minor`, `Normalize` what
`AdapterRegistry.get` does with its argument (which has been through `MajorMinor`
before), and `ParseOsVersion` what `create_model_device` tells FMG. A dialect is the
namespace of the variables and the field names of a default and of an override, which
is all that the adapters differ in as far as a manager's outcome goes.
`Registry` keeps `_registry` by the text a key was registered under: `register()` does
not normalise, `get()` does.

### ConfigManagers

A worker detects the version (`detect`) and runs the operations of a program, each a
sequence of requests (`Requests`): `set_per_device` one upsert per override in the
dict's order, `ensure_variables` one `create_if_missing` per name in ascending order,
the others one request. `nth[w]` is the request it awaits, `at[w]` the operation.
`CallReturns` is what the code does with an answer: on to the next request, or out with
the error; only `get()` takes NotFoundError for an answer. `GiveUp` is a transport error
or a cancellation at any await.

What the managers offer is one set each (`MetafieldManager` to
`ProvisioningTemplateManager`); a program has operations of these only (`Offered`).

The status call of `detect_version` is answered with the release in one of its spellings,
with something that states no version (no dict, or no `Version` in it: `SystemStatus()`,
`NoText`), or with an error status, which `get` raises. `told` is what the last answer
stated. Without a version the registry is asked for the empty text, and the outcome is
`VersionError` also where FMG runs a release that has an adapter.

FMG (external) is a table of rows. Each release has a namespace and fields of its own
(`Native`): a request in another namespace finds nothing (-3), a field FMG does not know
is ignored, so the row is there but says nothing new. That silent loss is what the
library's README (`README.md:8-9`) and `tests/unit/test_versions_payloads.py:4-8` warn
of. An override needs its variable and its device, a rule or scope member its object;
deleting an object takes its members along. `Upgrade` changes the release under the
adapters that were chosen before it, and keeps the rows. `last` is history: who wrote a
row last. Faulty workers may have a request executed twice, or later than their call
(`Abandon`, `ServeLate`), when the worker is at another operation or gone.

### Installs

`ExecLost`, `ExecReturns` and `ExecRaises` are the outcomes of one attempt of the exec;
`tasks` counts the tasks of FMG, the first `OldTasks` of which are somebody else's. An
attempt whose answer was lost may have started a task. An answer that names none, or is
no dict, gives task id 0. A task that is not there is never reported as finished.

## Runs

| Run | Shows | Distinct states |
|---|---|---|
| `lock_core` | contexts a1 and a2 in turn on session s1, b on s2, with workspace mode on or off and b perhaps told so; answers lost, retried, cancelled, crashed for a1 and a2, `force_unlock` by a2, refused commits, an owner that may be granted its lock again: `LockedImpliesOwner`, `MutualExclusion`, `CleanExitDurable`, the inductive invariant `IInv`; a lock is left behind only for a reason (`LeakExplained`), the flag outlives a block only behind a raising commit (`FlagOutlivesCommit`), an aborted body stays hidden unless its unlock failed (`AbortedHidden`); every `with` block runs down (`BlocksRunDown`) and ends, and locks are given back | 550,216 |
| `lock_late` | three sessions, one without lock permission (so -9 with workspace mode on), no lockinfo, own lock granted again or not, requests executed after the client gave up: `IInv`, which includes `LockedImpliesOwner`, and the refinement of `AtomicBatches`, which includes that a clean exit has published its batch | 326,200 |
| `lock_exit` | **violated**: a `with` block ends with the lock held | - |
| `client_calls` | one call with three attempts through a client that is connected up to three times (password authentication), closed and failing meanwhile: it keeps `RpcContract`, what it reports is what its last attempt did (`AnswersAreOwn`), it comes closer to its end with every step (`CallsRunDown`) and ends, and an FMG session is left to itself only by connecting over it or by a login or logout that failed (`OrphansHaveCause`) | 76,109 |
| `client_retry` | **violated**: a retried `add` reports its own effect as `DuplicateError` | - |
| `tasks` | an install and the `wait` for its task: bounded, truthful, prompt, and only for a task of the install, in whatever word or number it is reported | 365,516 |
| `tasks_timeout` | **violated**: a task that finished before the timeout is reported as timed out | - |
| `devices` | a worker that ensures or creates the device or assigns it, one that ensures, groups or assigns, one that deletes, verifies or lists, without a lock; what an operation returns is true, its errors have a reason, it ends | 288,947 |
| `devices_group` | **violated**: `ensure_device_group` ends in `DuplicateError`, even in a lock | - |
| `config` | two workers with programs of one to four operations, one faulty; FMG at 7.4, 7.6 or 7.8 (no adapter), perhaps upgraded to 7.6, free to refuse requests and to answer the status call without a version: writes take effect, a raised sequence leaves a prefix, errors have a reason, the adapter fits, programs end | 166,618 |
| `config_defaults` | **violated**: `ensure_variables` overwrites the default of a variable that is there | - |
| `registry_major` | **violated**: "7" does not find the highest registered 7.x | - |

Deadlock is not checked: contexts, calls, waits and operations come to an end
and the models then stop.

Bounds. Three contexts are two of one session, for what a context leaves to its
successor, and a competitor; `Faulty` keeps the competitor's calls reliable, so
that a fault is always seen by somebody whose own calls work. Two writes per
batch are enough to tear one. `client_calls` has one call and the bounds that matter to it: three
attempts, the default of the code, give a retry, a repeated retry and exhaustion, and
three `connect()`s a token that is overwritten, one that is dropped, and a call that
outlives its client. Calls meet only in the objects at FMG, and the properties speak
of one call or of the client's life; `FmgClient_proofs` has them for any number of
calls, both ways to authenticate and every verb. `client_retry` has two calls, an add
and a delete of one object. The finish times of `tasks`
are 0, a time within each regime of the interval (growing, capped), both sides of
the timeout, and never. In `devices` one worker is faulty, for an operation's own
retries and for what they do to the reliable ones; one device and one group
suffice because no operation looks at two, and two polls without the row tell a
first poll, a repeated one and the last apart. In `registry_major` the keys are a registered
release, new ones, and two that no lookup arrives at.

Every property comes with a wrong variant of one action that TLC finds it
violated by; those operators are marked as such in the modules, next to the one
they are variants of, and nothing else uses them.

Fairness. `FmgClient!Fairness`: an attempt in flight or backing off goes on,
because the `httpx.Timeout` of `connect()` bounds connect, read, write and pool
waits and `_sleep_for` is bounded. `WorkspaceLock!Fairness`: FMG answers a call's
first attempt, a pending call returns (`CallsEnd` is what justifies it), and the
body, which is the user's, takes its next step. `DeviceManager!Fairness` is the same
for the calls of an operation; FMG is not assumed ever to show or remove a row.
`ConfigManagers!Fairness` is that of the calls again, written with `reply` as subscript
because each of these steps changes it. No
fairness is assumed of faults, `force_unlock`, retries, entering a block or
starting an operation.

## What the violated properties say

* `ExitUnlocks`, from `core/locking.py:4` ("guarantees unlock even on
  exception"): `__aexit__` (287-296) awaits `commit()` with no `finally`, so that
  a commit that raises skips `unlock()`. `FlagOutlivesCommit` says that this is the only
  way to leave the block with the flag set. `LeakExplained` bounds what remains at FMG:
  where calls are answered nothing but such a commit leaves a lock behind; where they may
  be lost, a raising lock or unlock and a crash do as well.
* `RetryIsSafe`, from `core/client.py:46-48` ("safe to retry ... idempotent"):
  `add` and `delete` are not idempotent in what they report. After a lost answer
  the retry raises `DuplicateError` or `NotFoundError` for what the call has done.
  `AnswersAreOwn` says what does hold: "ok" means that the last attempt did it, and the
  two errors that the last attempt found it so, hence that an earlier one may have.
* `TimeoutMeansUnfinished`, from `core/tasks.py:68`: the timeout is looked at
  before the poll, so the last sleep is a blind spot. `EarlyFinishNotTimedOut`
  says how large it can be.
* `GroupIsIdempotent`, from `managers/devices.py:199` ("Create the device group if
  missing. Idempotent."): `add` (203) has no handler for `DuplicateError`, unlike
  `assign_to_group` (213). The answer to the first `add` is lost, the retry finds
  the group that it created, and the operation raises although the group is there.
  A lock does not help. `AssignedIsMember` says what does hold, `ErrorsExplained`
  that without a retry or a competitor it cannot happen.
* `DefaultsKept`, from `managers/metafields.py:52` ("Create the listed variables in bulk
  if not already present."): `create_if_missing` is a `set` with the default in its
  payload, "" for `ensure_variables`, and a variable that is present loses its default.
  That `set` updates the fields it carries is assumed of FMG.
* `MajorFindsHighest`, from `versions/registry.py:9-10` (`"7"` "returns the highest
  registered minor for major 7"): `get()` (66) knows exact keys only and raises
  `VersionError`.

## Proofs

Theorems hold for all values of the constants that satisfy the named assumptions
(`LockAssumption`, `ClientAssumption`, `TrackerAssumption`, `InstallAssumption`,
`DeviceAssumption`, `ConfigAssumption`). They give constants their types, without an order
between the parameters of the tracker. `TrackerAssumption` also says that FMG gives no
task under way the state 3 or 4. `ConfigAssumption`
also says that operations are well formed (a dict has every key once; variables are
written by the metafield manager alone, which has no delete), that every operation is
one its manager offers, and that an upgrade leads to
another release and two upgrades in a row are one.

* `WorkspaceLock_proofs`: `TypeCorrect`; `Inductive` (`IInv`); from it
  `LockHeld` and `Exclusive`. They assume `Disciplined`, the usage rules under which
  they are true: either contexts of one session take turns and FMG executes no
  abandoned request, or no two contexts share a session and nobody calls
  `force_unlock()`. `LockedImpliesOwner` is not inductive by itself. `GrantIsCurrent`
  is needed because FMG grants the lock before the context knows: nobody else may
  take or release it in between. `LockedLate` gives that a context with `_locked`
  set is past its lock call, so an unlock under way is its own; `TakeTurns` that no
  other context of the session can release the lock; `LateIsPast` that an abandoned
  unlock belongs to a context that has ended. Exclusion follows: two contexts that
  hold the lock have sessions that both are the owner.
* `WorkspaceBatches_proofs`: what a `with` block promises.
  - `LeakAccounted` (`LeakExplained`), where FMG executes no abandoned request. The
    invariant `LeakInv` names for every owned lock a context that answers for it: it has
    been granted the lock and waits to hear so, runs under the lock, waits for its unlock,
    or its commit raised. Only in a session with lost calls do the weaker answers count
    (any wait for the lock, an unlock that was refused, a raising lock or unlock, a
    crash), and that a reliable call ends with its answer (`ReliableEnds`) is what
    separates the two. `ModeInv` supplies why -9 at the lock call cannot hide a lock that
    was granted, and why a body under a lock always goes on to its unlock or its commit.
    Without the restriction it is false: a lock request the client has given up on may be
    executed after the block is over. This is the safety part of `LockGivenBack`.
  - `FlagAccounted` (`FlagOutlivesCommit`), without any usage rule. `FlagInv` adds that a
    context whose commit raised has ended under its lock; a context that ends without an
    unlock otherwise has not got its lock yet (`LockedLate`) or runs without protection
    (`ModeInv`).
  - `CleanExit` (`CleanExitDurable`) under `Disciplined` and `Told` (who passes
    `workspace_enabled=False` where workspace mode may be on has a session of its own;
    otherwise its writes go into the pending writes of a context that may never
    commit). `DurableInv` follows the accepted writes: in the body they are where the
    commit will find them, after an accepted commit they are published.
  - `BatchesKept` (`BatchesAtomic`), the refinement of `AtomicBatches`, under these and
    `Sole` (an owner is not granted its own lock again, or no two contexts share a
    session). `AtomicInv` says that pending writes are the owner's, and those of the one
    context that will commit them; that only a context at its commit or past it can
    publish, be it by an abandoned commit; and what an abandoned unlock can still
    discard. A commit that FMG executes maps to `Publish`, the end of a block to
    `Succeed`, `Abort` or `Doubt`, all else to a stutter.
  - `AbortsHidden` (`AbortedHidden`) under `Disciplined` and `Told` only, that is, also
    where FMG grants an owner its lock again. `HiddenInv` follows the writes of a context
    that is before the end of its body, or was aborted and gave its lock back: none of
    them is published, and before the body and after the unlock none is pending. Who
    commits for the same session is then either the context itself, which is not aborted,
    or takes its turn when the other has ended.
  - `RunDown` (`BlocksRunDown`): with `Left`, the awaits a context has before it at most.
* `FmgClient_proofs`: `TypeCorrect`, `AttemptsCorrect`, and `ContractKept`, the
  refinement of `RpcContract`: each step of the client maps to a step of the
  contract or to a stutter, `AttemptsAccountedFor` being the invariant that says why
  an answer "ok" has an execution behind it. `OrphansExplained` (`OrphansHaveCause`) and `ClosedHasNoToken`
  follow the token through login, logout and their failures: a session becomes an orphan
  (`Orphans`: open at FMG, its token neither held nor on its way) only when `connect()` on a
  connected client replaces its token, or when a login or a logout failed. There is no
  history in the model for that: the property compares the sessions before and after a
  step; `CalmCallsServed` says that
  a call on a client that stays up has its session and its HTTP client on every attempt.
  `OwnAnswers` (`AnswersAreOwn`) needs in its invariant that the answer under way is that
  to the last attempt (`Tells`), and that a retry drops the one before. `RunDown`
  (`CallsRunDown`) is the termination argument of `CallsEnd`, short of fairness: a bound
  on the steps of a call that every one of them lowers.
* `TaskTracker_proofs`: `Bounded`, `Truthful`, `Prompt`, `BlindSpot`, from the
  invariant `Pace`, which says how far the clock can be at each place of the loop. A round
  of the loop is counted with the longest sleep there can be (`Longest`): the cap, or the
  first interval where that is longer. `NextIntervalBounded` is what the cap gives.
* `Installs_proofs`: `FinishedStarted` (`FinishedWasStarted`), and `WaitAfterInstall`: the
  promises of `wait()` hold behind an install, too.
* `Versions_proofs`: cutting a version text twice is cutting it once (`CutTwice`), the
  parser of the device manager agrees with the registry's on every text with a minor
  release (`ParsersAgree`), every spelling of a release leads to its key, and a status
  without a version to none (`NoVersion`).
* `ConfigManagers_proofs`: `Inductive`, and from it `TypeCorrect`, `NoSilentLoss`
  (`WritesTakeEffect`), `AdapterStaysFit` (`AdapterFits`), `PrefixOnRaise`
  (`RaisedIsPrefix`) and `ErrorsHaveReasons` (`ErrorsExplained`), for any number of workers, programs and late requests. The
  invariant has five parts: `TypeOK`; the course of a program (a worker awaits a request
  of an operation that it has, `Course`); the effects (a request that was answered "ok" has
  written its row, and a row last written by an operation holds what it asked for, `Effects`); the
  order (`Order`: requests behind the one awaited have not been sent); and the fit of the
  adapters (`Fits`). `Requests` sorts the names of `ensure_variables`; that a finite set of
  numbers has an ascending enumeration is proved by a least counterexample. For
  `ErrorsExplained` the invariant `EInv` has two more parts: a variable that somebody has
  written is there (`Present`; no operation deletes one), and an error that is on its way,
  or was raised, has its reason already (`Owed`, `Explained`). A `VersionError` has one of two:
  the last answer to the status call stated no version, or that of a release FMG runs or
  ran and that has no adapter. The reasons of a
  `NotFoundError` are those of `MayMiss`: an adapter behind an upgrade, an operation that
  reads, deletes or writes below an object of somebody else's, or an override whose
  device or variable nobody ensured. A stale adapter stays stale, as an upgrade leads to
  another release and two of them in a row are one.
* `DeviceManager_proofs`: `Inductive` (`IInv`), and from it `DeviceEnsured`,
  `CreationIsOwn`, `MembershipEnsured`, `ListTruthful`, for any number of workers
  and any operations. The four properties speak of operations that have ended;
  `AnswerIsCurrent` is what makes them inductive: an answer that its worker has not
  seen yet is still true, as long as nothing is deleted, and a worker that polls or
  adds a member has its earlier calls behind it. The argument is that every request
  keeps what was ensured (`ExecuteKeeps`) and no answer overstates
  (`AnswerIsTrue`). `ErrorsHaveReasons` (`ErrorsExplained`) adds that an error on its way
  has its reason already. `RunDown` (`OperationsRunDown`): with `Left`, the calls an
  operation still makes at most.

Every invariant and every action property of a run is stated by a theorem. Only
model-checked is liveness (`BlocksEnd`, `LockGivenBack`, `CallsEnd`, `OperationsEnd`,
`ProgramsEnd`), which is out of the prover's reach; the `RunDown` theorems and
`LeakAccounted` prove what of it does not need fairness. `Registry` serves `registry_major` alone, which ends at the
lookup that fails.

## Not modelled

* Overlapping contexts that share a session: nothing in the code forbids them, but
  FMG cannot tell them apart, and the unlock of one then drops the lock and the
  pending writes of the other. `Overlap` is TRUE only where sessions are distinct.
  One context object entered by two tasks at once, likewise.
* A later context of the same session that is granted the lock again where lockinfo
  is missing would commit what an aborted body left pending when its unlock failed.
  Nothing in the code can prevent that. `AbortedHidden` says that there is no other way
  for such writes to become visible; `BatchesAtomic`, which excludes this one too, is
  checked where every context has a session of its own (`lock_late`), and proved under
  `Sole` for shared sessions as well.
* `delete_device` right before `ensure_model_device`: nothing in the code waits for the row
  to go, so that what was reused may vanish. The model has both operations at once;
  `EnsuredIsThere` speaks of runs without a delete.
* Calls under way while their own client is closed or connected anew are modelled, and may
  raise: `CalmCalls` is about the others, and `KeepsContract` and `AnswersAreOwn` are what
  holds of these.
* `force_unlock()` while another context of its session works: the code does not check
  it and the models do not do it (`Disciplined`).
* Expiry of sessions at FMG, cancellation within `aclose()`, two clients on one
  session manager. A status per sub-request of `multiplex`: no manager uses it, and its
  caller gets the raw result.
* In `DeviceManager`: `get_device`, `try_get_device` and `get_device_status`, plain
  reads; that FMG may refuse a delete; records of an unexpected shape; a task 0 that is reported as
  finished (in `Installs`); `os_type`, which
  7.6 wants and 7.4 does not.
* In `ConfigManagers`: the `list_*` operations, plain reads without a decision; a status
  whose fields have the wrong types (`detect_version` then raises pydantic's
  `ValidationError`); that a
  manager is used with a lock context (`WorkspaceLock` has the writes of a body,
  whatever they are).
* Wording, logging, URLs, payload fields other than those of variables; the parsing of
  lockinfo, of which only the verdict (locked, not locked, unknown) matters to `lock()`.
* `scripts/capture_fixtures.py` and packaging: no part of the library.

## Plan

1. *Done*: the modules, runs and theorems above; every component that changes state is
   modelled.
2. Composition: a `ConfigManagers` program as the body of a `WorkspaceLock` context, so
   that "all or nothing in a lock" is a property of both together.
3. `multiplex` with a status per sub-request, once a manager uses it.

# warded in TLA+

A verification development of **warded**, a Go command that puts an
identity-aware reverse proxy in front of a local service. It consists of TLA+
models of the parts that share state or talk to each other, TLC runs on small
instances of them, and theorems proved with TLAPS for every instance.

Each module names the source file it models in its header; `PROJECT.json` maps
each definition to source lines. Paths below are relative to `src/internal`.

- [1. The system](#1-the-system)
- [2. Modules](#2-modules)
- [3. Runs](#3-runs)
- [4. Bounds, symmetry, deadlock, fairness](#4-bounds-symmetry-deadlock-fairness)
- [5. Theorems](#5-theorems)
- [6. Where code and text disagree](#6-where-code-and-text-disagree)
- [7. Not modelled, and the plan](#7-not-modelled-and-the-plan)

## 1. The system

A user prepares a ward with `warded new` (a *draft*), finishes it in the
browser, and `warded status` or `warded serve` turns the converted draft into a
*ward*. `serve` then terminates TLS, logs browsers in through the platform,
checks agent tokens, forwards to the upstream, and sends the platform a
heartbeat every minute. Other commands (`whitelist`, `renew-cert`, `status`)
edit the same `ward.json` while it runs.

| Part | Code | State | Operations | Talks to |
|---|---|---|---|---|
| Proxy sessions | `adapters/proxy/server.go`, `adapters/jwt` | `transactions`, `revokedSessions` under `Server.mu`; cookies in browsers | login page, callback, session check, logout, cleanup loop, restart | platform (exchange) |
| Upstream manager | `adapters/upstream/process_manager*.go` | `ownedCmd` under `mu`; OS processes | `EnsureRunning`, `Shutdown` | proxy handlers, `serve` |
| File store: one file | `adapters/storage/json_store.go` (`saveToDir`) | `ward.json`, `ward.json.tmp` | open, truncate, write, rename | every command |
| File store: directories | same file (`SaveWardRuntime`, `CommitPendingRuntime`, ...) | `.pending`, one directory per draft or ward, `wardDir` of a handle | load, save, rename, scan | every command |
| Ward record | `cmd/serve.go`, `cmd/whitelist.go`, `application/status_service.go`, `application/renew_cert_service.go`, `application/mapping` | the record on disk, a copy in each process | load, edit, save; answers of the platform | store, platform |
| Draft life cycle | `cmd/new.go`, `application/new_service.go`, `application/draft_activation_service.go` | id and secret of a draft, credentials of a ward | draw a secret, submit, ask, claim, promote | store, platform |
| Pending setup | `cmd/new.go` (flags) | eleven settings that depend on each other | validate, merge, validate, save, submit | store |
| Platform certificate | `adapters/tls/platform_provider.go` | certificate, refresh flag, next allowed time, failures | handshake, refresh | platform |
| Serve process | `cmd/serve.go`, `adapters/proxy/multi_server.go` | phase, contexts, error channels, shared store handle | prepare, serve, heartbeat, shut down | all of the above |
| Agent tokens | `adapters/platformjwt/verifier.go` | list of valid tokens | verify, replace | heartbeat |
| OpenClaw integration | `application/integrate_service.go` | configuration of another program | read, set, verify | its command line |
| Preflight and `new --commit` | `application/doctor_preflight_service.go`, `cmd/new.go` | the listen port, a temporary upstream | check, start, listen, ask, clean up | platform, the host's other processes |
| systemd service | `application/systemd_service.go`, `adapters/systemd` | unit file, unit as loaded | write, reload, enable; restart | `systemctl`, `serve` |
| Platform client, rendering, doctor reports, ACME, packaging | various | none of their own | | |

### What is hard here, and what makes it right

- *Handlers, cleanup loop, restarts* share two maps, and a handler gives the
  lock up between looking and acting. A login state must buy one exchange; a
  logout must not be forgotten while its cookie lives.
- *`EnsureRunning` and `Shutdown`*: concurrent requests, a mutex held while
  waiting for a process, deadlines that pass in the queue. One process at a
  time, none unaccounted for, every call returns.
- *Whole-record saves without a lock*: every command saves its copy of
  everything. Nothing may be lost but to an older copy, and a crash may not
  leave half a file.
- *A protocol over crashes*: the secret of a draft has to be on disk before the
  platform hears of it and stay there until the ward's credentials are; two
  commands may promote the same draft.
- *Validated, then reloaded*: `new` validates flags against one setup and
  merges them into another, and computes the effective values twice.
- *A clock read before a lock*: the certificate provider decides with a time
  and a state that are a moment old.
- *One process, several wards*: one failing heartbeat ends the others, and a
  store handle with a mutable `wardDir` is shared by all.
- *One port and one upstream for several processes*: checks that hold for a
  moment, deferred calls that are registered too late, and a supervised `serve`
  that fails and restarts beside them. Who starts an upstream has to stop it,
  the platform's probe has to reach whoever asked for it, and the service has to
  come up in the end.

`PROJECT.json` lists these as hazards, each at its line with its properties.
Where the code itself does what the hazard is about, no property can deny it: the
note of the hazard then says what the model has of it, and what the properties
around it still claim.

## 2. Modules

```
LoginTicket   <== ProxySession          ==> refines (INSTANCE, PROPERTY)
AtomicRecord  <== AtomicSave
WardEdits     <== WardRecord  (up to stale copies)
Enrollment    <== DraftActivation
UpstreamManager   PlatformCert   MultiServe   PendingSetup   OpenClawIntegrate
HostCommands
MCX EXTENDS X;  X_proofs EXTENDS X, but for
Integrations_proofs EXTENDS PlatformCert, OpenClawIntegrate
SetupCommands_proofs EXTENDS PendingSetup, HostCommands
```

Where two components share a module of proofs, the names both would use carry the
name of one: `OpenClawSpec` and `OpenClawTypeOK` in `OpenClawIntegrate`,
`HostSpec` and `HostTypeOK` in `HostCommands`.

A module takes the detail of another as one step and says so: `WardRecord`,
`DraftActivation`, `MultiServe` and `PendingSetup` write a file in one step,
which `AtomicSave` justifies for saves that do not overlap; `MultiServe` has
upstreams that just run or do not, which is `UpstreamManager`'s business; a
setting of `PendingSetup` is payload in `DraftActivation`. `HostCommands` puts
whole processes side by side: each has one child at most (`UpstreamManager`), a
setup is an entry of the data directory that is a draft or a ward
(`DraftActivation`), `serve` serves or is on its way there (`MultiServe`).

**ProxySession** (spec: **LoginTicket**). One state machine per request
goroutine. `ServeLoginPage` is the login page, `TakeTransaction` the map access of
`handleCallback` under the lock, followed by the age check, the exchange
with the platform and the signing; `AcceptCookie` is `Verify`, and the
revocation check is a step of its own, since the lock is taken in between.
`CleanupExpiredState` is the ticker, `Restart` a new process. Cookies are
their claims. The abstract ticket goes from unused to offered to redeemed or
dropped, once.

**AtomicSave** (spec: **AtomicRecord**). `saveToDir` as open, truncate, write,
close and rename, on inodes, so that two processes can have the same temporary
file open under names that change. Kills and failing writes at every step. The
abstract register holds one whole record that some command wanted saved, or
none yet.

**WardRecord** (spec: **WardEdits**). `serve`, `whitelist add/remove`,
`status` and `renew-cert` on one record, with platform answers that leave
fields out. `WardEdits` lists, as sets of records, what each command may make of
a record; `SavesAreEdits` holds every save against the copy it was made from,
however old, so only what stale copies put back is outside of `WardEdits!Next`.

**DraftActivation** (spec: **Enrollment**). All directories of the store and
every step of `new`, `new --commit`, `status`, `whitelist` and the start of
`serve` that touches a draft, with kills between any two. A draft is named after its secret.
`Enrollment` relates a draft at the platform to the one credential for it on
disk: none, secret, ward, dropped. `careful` is chosen in `Init` and stays: with
it a `new` is run only while no other command is, and no other while it runs
(`status`, `whitelist` and `serve` overlap freely).

**UpstreamManager**. Callers queue for the mutex, probe, start, wait; a
process is starting, listening, hung, a zombie or gone; the main goroutine
serves, shuts down, exits. Deadlines run while a call waits for the mutex.

**PlatformCert**. Handshakes read the state under the read lock (`ShouldRefresh`),
start a refresh under the write lock (`StartRefresh`), pick a certificate under
the read lock again (`Pick`), with the time they read at first: `lag` says whether
a tick has passed since. A refresh fetches, installs or marks a failure,
and clears its flag last. Times are distances from now.

**MultiServe**. Preparation ward by ward, a heartbeat goroutine per ward, the
shared context, the error channels, the order of the deferred calls, and the
shared `JSONStore`: `Look`, `Move` and `Write` are the three accesses of
`SaveWardRuntime`, between which another ward's save changes `wardDir`.

**PendingSetup**. A setup is a function from settings to values and a command
line a partial one. `Accepted` is the validation of `PreRunE` with the
`effective...` functions, `Merge` is `mergePendingRuntime`, `Sound` is what
`RunE` validates again; `Check`, `LoadAndMerge`, `Save`, `Submit`, `MoveAway`
are the steps between which another `new` can run. `raced` remembers whether
`RunE` ever found another setup than `PreRunE`.

**OpenClawIntegrate**. The configuration of the agent's gateway, of which
`integrate agent openclaw` reads and writes one key per call of the gateway's
own command line: `GetOrigins`, `SetOrigins` for `--allow-origins`; `GetBind`,
`GetPort`, `SetBind`, `SetPort` for `--baseline --repair`; `Validate` for both.
A command can stop between any two calls, and `Edit` is the user. `disturbed`
remembers the commands during which somebody else changed a key.

**HostCommands**. A host: who listens on the ward's port (`port`), what each
process has started as upstream (`child`), the entries of the data directory
(`entry`). A command goes through `stage`: the port is checked (`CommitChecks`,
`PreflightChecks`), the upstream found or started, the probe server listens
(`CommitListens`, `PreflightListens`), the platform is asked and calls back
(`heard`: whom it reached), and the deferred calls run (`Return`), of which
`deferred` says whether stopping the upstream is one. `integrate systemd`
(`integrate`, `unit`) writes, reloads and enables; the service (`serve`) loads,
prepares, binds, serves, revives its upstream and ends, and systemd clears what
it has started. `Reboot` starts the machine again.

## 3. Runs

Passing runs (invariants and temporal properties are commented where they are
defined):

| Run | Instance | What it shows |
|---|---|---|
| `proxy_session` | 2 requests, 2 login states, 2 sessions, cookies of this and another ward, clock to 3 | one fresh exchange per login state; a logout holds while the cookie lives; only genuine identities are forwarded; the map implements `LoginTicket`; the ticker alone reclaims everything |
| `atomic_save` | 2 writers, 2 records, 4 inodes | damage and vanished temporary files come from overlapping saves only; a lone save is read back; while no saves overlap each step is one of the register |
| `ward_record` | serve and 1 command, 1 rule | each save, of a stale copy too, is one edit of that copy by the process whose business it is; an ended ward stops being served; the rules in the file end up as those enforced |
| `upstream` | 3 callers, 3 processes | one process, no orphan, `Shutdown` stops what was started before it, every call returns |
| `draft` | 2 commands of any kind, 2 drafts | ids and secrets are never mixed, also when two `new` overlap; with `new` left alone, claimed wards stay and `Enrollment` is implemented |
| `platform_cert` | 2 handshakes, 2 refreshes, validity 3 ticks | certificates get newer, pauses are kept, the fallback goes out only while the platform is being asked or was within the pause; a valid certificate always comes back |
| `multi_serve` | 2 wards, 1 managed, 1 agent token, 1 may end, 1 directory removed | no upstream left behind, errors are reported, records stay in their directories or are replaced, the end of a ward and a revocation take effect |
| `openclaw` | 2 commands, 2 origins, one repeated entry, ports 8443 and 65000 | a command that is not outdated changes one thing and takes nothing away; success is reported to an undisturbed command only if it is true |
| `host_commands` | 1 preflight, 1 `new --commit`, `serve` under systemd, 2 entries, another program that takes the port once | which command may leave an upstream behind, and when; the probe reaches its own command; a service with one ward comes up again and again and gets a lost upstream back |
| `pending_setup` | 2 commands, 12 command lines, 2 ports | a saved ingress is servable whatever overlaps; what was saved undisturbed can be committed as it is |

Runs that end in a violation show a disagreement of the code with its own text
(section 6): `upstream_exit`, `pending_port`.

Some properties are conjunctions of named parts, or imply a smaller one that is
kept because a theorem states it: `ProcessesAccountedFor` (one process, no
orphan, `Shutdown` is complete), `CleanExit` (no upstream left, no silent end),
`TokensFollowPlatform` (a revoked token is refused in the end and a granted one
accepted), `ImplementsTicket` (implies `OneFreshExchange`), `ImplementsRecord`
(implies `AloneSaveIsRead`).

Each property of a passing run has a mutant: a definition of the module is
replaced by a form with a plausible bug (they are defined beside the original,
commented `Mutated form`), and the property then fails on the same instance.

## 4. Bounds, symmetry, deadlock, fairness

**Bounds.**
- Two actors are enough for the races here, since a race is between one that
  looks and one that changes what was looked at. `upstream` has three: one
  holds the mutex, one waits for it, one comes after `Shutdown`.
- `MaxClock = 3` is one more than the longest lifetime, so entries of every age
  meet. Nothing is put in a map that could not age on this clock: login pages
  and signatures stop in time.
- Four inodes: one is `ward.json`, one the temporary file, two opened by
  writers that lost their name.
- `MaxRemovals` and `Ending` in `MultiServe` bound what the user and the
  platform do; with one removal both ways of losing a directory happen.
- 8443 moves up and 65000 down when it is adopted in `openclaw`; 0 stands for a
  port that cannot be read.
- In `PlatformCert` a tick is longer than a handshake and than the 15 seconds
  of a refresh, so neither sees more than one; `minRefreshAfter` is two ticks at
  least (five minutes in the code). `since` and `failures` saturate where the
  code no longer tells values apart, times that lie back one tick past now: a
  handshake that read its clock a tick ago compares with nothing older, so
  `Current` and `ShouldRefresh` are exact. `Hints` 0, 1 and 3 reach the three
  branches of `normalizeRefreshAfter` (default, floor, as it is).
- In `HostCommands` a command runs once and `MaxOthers` bounds how often another
  program takes the port; serve, the service's restarts and reboots are
  unbounded. The upstream is a managed one: with an external one there is
  nothing to start or to stop. `integrate systemd` on an enabled, unchanged unit
  changes nothing and is left out.
- `FewRaces`, the CONSTRAINT of `pending_setup`, keeps a run from
  going on where a command has been overtaken and one is between `PreRunE` and
  the merge. The command lines are those of the README and
  the changes of one thing in them. The theorems about this module need neither.

**Symmetry** is used where only invariants and step properties are checked and
the sets are interchangeable: `AtomicSave`, `DraftActivation`, `PendingSetup`,
`OpenClawIntegrate`.

**Deadlock** is not checked in three runs. In `draft` all drafts may be used
up; in `multi_serve` the process exits for good; in `pending_setup` a setup may
refuse every command line of the instance. In the others something can always
happen.

**Fairness.**
- `ProxySession`: the cleanup ticker fires and time passes. Nothing is assumed
  of requests.
- `WardRecord`: heartbeats are tried again and again, so one is answered
  in full infinitely often if it is asked infinitely often (SF), and an
  answered one is saved.
- `UpstreamManager`: goroutines run, deadlines pass, and `sync.Mutex` hands the
  lock over to a waiter it has kept waiting (its starvation mode), hence SF on
  `Lock`. Nothing is assumed of the upstream.
- `PlatformCert`: time passes, clients finish and come again, a refresh that was
  started ends. The platform has good moments: SF on a fetch that works and is
  installed.
- `MultiServe`: goroutines run; full answers of the platform keep coming (SF).
- `HostCommands`: commands end, another program leaves the port, systemd
  restarts what has ended, requests come, deadlines pass (WF). No step of the
  start of `serve` fails every time it is tried again, and its upstream comes up
  at last where it can (SF on `LoadWard`, `Prepare`, `AfterStart`, `Bind`,
  `ChildListens(Serve)`); that it is tried again is the code's doing, in
  `Restart=always`. Kills, crashes and reboots may go on for ever.
- The other modules state safety only.

## 5. Theorems

All are proved for every value of the constants under the assumptions named in
the modules, which say little more than that the special values differ from the
ordinary ones, that bounds and durations are natural numbers. One assumption
limits the environment: `UserPorts` of `OpenClawIntegrate` goes up to 65535,
since `parseOpenClawPort` has no upper bound and relies on OpenClaw not to keep
another port. Each proof has an inductive invariant, one lemma for `Init`, one
for `Next` with a step per action, and a temporal step that puts them together.

| Module | Theorems | Why the invariant is stronger than the property |
|---|---|---|
| `ProxySession_proofs` | `TypeCorrect`, `LoginStateSingleUse`, `LogoutIsHonoured`, `IdentityIsGenuine`, `TicketRefinement` | a taken login state is out of the map and in one handler's hands; a session id not yet signed belongs to no cookie; a revocation is on record while the cookie is good |
| `AtomicSave_proofs` | `TypeCorrect`, `DamageNeedsTwoSaves`, `AloneSaveWins`, `AloneRefinement` | an inode only one save has a hand in is open in that save only, is not `ward.json` yet and holds what the save has written |
| `WardRecord_proofs` | `TypeCorrect`, `SavesAreSingleEdits`, `EditsAreLostToStaleCopiesOnly`, `ServeKeepsConfiguration` | what each process holds at each step |
| `UpstreamManager_proofs` | `TypeCorrect`, `StartsAreSerialized`, `EveryProcessIsTracked`, `ShutdownIsComplete`, all three in `UpstreamIsAccountedFor` | the mutex is held exactly between lock and return; unreaped processes too are in somebody's hands; what is owned after `Shutdown`'s turn is late |
| `DraftActivation_proofs` | `TypeCorrect`, `SecretsFit`, `KeysAreKept`, `EnrollmentRefinement`, `WardsStay` | see below |
| `Integrations_proofs`: PlatformCert | `TypeCorrect`, `RefreshAlone`, `CertsAdvance`, `PauseIsKept`, `FallbackHasReason` | whoever refreshes holds the flag, and only then is it set; the certificate in use is no newer than the last issued; a handshake that found a refresh due is right or was overtaken; one that is about to get the fallback has seen to a refresh or looked within the pause, and a pause outlasts the refresh that set it |
| `Integrations_proofs`: OpenClawIntegrate | `OpenClawTypeCorrect`, `ReportsHold`, `EditsAreSingle` | what a command has read at each step is what is there, and what it has set still is, until somebody disturbs it (`Progress`); the lists it works on stay finite, so their lengths can be compared |
| `MultiServe_proofs` | `TypeCorrect`, `NoUpstreamLeft`, `NoSilentEnd`, both in `ExitIsClean`, `SharedStoreIsHarmless` | what runs belongs to wards already prepared; a heartbeat's error is in its channel before it cancels; nothing is on the way to a rename while all directories are there |
| `SetupCommands_proofs`: PendingSetup | `TypeCorrect`, `IngressIsServable`, `SavedCanBeCommitted` | what is saved or about to be has derived ports and proxies; the verdict of `PreRunE` carries over to the merged setup (lemmas about `With`, `Merge`, `Accepted`) |
| `SetupCommands_proofs`: HostCommands | `HostTypeCorrect`, `UpstreamsAreStopped`, `ProbesReachTheirOwn` | which stages can have a child, and in which stopping it has been deferred (`UpstreamsOwned`); whoever waits for the probe holds the port until it returns (`PortHeld`) |

**Drafts.** `IInv`, which holds also when two `new` overlap: a record without a
ward id has a secret wherever it has a draft id, so a fresh secret never meets
an old id; `.pending` is never a ward's. `Kept`, which needs `new` to be left
alone (`careful`), has two parts. `StoreKept`: the directory of a draft holds
that draft, or nothing once it is dead, that of a ward its claimed draft or its
credentials, and every draft that is open at the platform has its secret
somewhere. `CommandsKept`: what each command has in hand fits the directory it
is going to save to, and in a `new` it is the secret that is in `.pending`;
commands that work in `.pending` share one draft, which is why an older copy of
it cannot be saved over another. Each step of the store keeps `Kept` and is a
step of `Enrollment` or none; there is one lemma for each way of writing
(`.pending` saved, a directory written, renamed, the platform's own steps), and
`WardsStay` follows from the refinement.

Refinement is proved for every abstract specification: `LoginTicket`;
`AtomicRecord`, while no saves overlap; `Enrollment`, while `new` is left
alone; `WardEdits`, up to stale copies (`SavesAreSingleEdits`). Proved, but with
no run of their own, are `EditsAreLostToStaleCopiesOnly` (a consequence of
`SavesAreEdits`), `KeysAreKept`, `ServeKeepsConfiguration` (only `status` or a
stale copy changes the upstream configuration) and `RefreshAlone` (at most one
refresh of the certificate).

**Only model-checked:** liveness (`StateIsReclaimed`, `EndedWardIsNotServed`,
`ServeHasTheLastWord`, `CallReturns`, `ValidCertComesBack`, `EndStopsServing`,
`TokensFollowPlatform`, `ServeComesUp`, `UpstreamIsBack`), which the prover
cannot do under fairness. Every other property of a passing run, all invariants
among them, is a theorem.

## 6. Where code and text disagree

Shown by a run:

- **The upstream outlives warded** (`upstream_exit`). A handler still at work
  when `serve` exits restarts what `Shutdown` has just stopped
  (`cmd/serve.go:166`).
- **The port cannot be changed** (`pending_port`). On a saved standalone setup
  `new --port N` is refused, because the recorded public port is held against
  the new listen port, although the message for an occupied port recommends
  `--port` (`cmd/new.go:117`).

Seen while modelling, with no run of their own:

- `serve` takes care not to take the upstream configuration of an answer, which
  may be the platform's defaults (comment at `cmd/serve.go:458`); `status`
  stores it, and the next `serve` starts with it
  (`application/status_service.go:155`).
- A running `serve` saves its whole copy with every heartbeat, so a rule that
  `whitelist add` has reported as added is gone from the file a minute later
  (`cmd/serve.go:582`; `ServeHasTheLastWord`).
- `--allow-origins` compares the lengths of the list before and after
  `appendUnique`: of a list that repeats an entry and lacks the origin it
  reports "Required origin is already present."
  (`integrate_service.go:117`; the first conjunct of `ReportsAreTrue` leaves
  such lists out).
- An adoption of a public port that fails after the port was set cannot be
  repeated: the port no longer is the one to adopt (`GetPort`'s guard).
- `EnsureRunning` probes with the caller's context; if it expired in the queue
  for the mutex, a listening process is taken for dead and stopped
  (`StopOwned` of `UpstreamManager`).
- A `status` or a `whitelist` that still holds a draft recreates the draft's
  directory after another command has renamed it; the ward is then there twice,
  and a `serve` that names no ward refuses to start.
- `SaveWardRuntime` renames first and writes second: killed in between, it
  leaves a draft in a ward's directory, from where a later `serve`, which scans
  the directories, still promotes it (part of what `ImplementsEnrollment`
  covers). `status` does not find it any more: it looks for a directory of the
  draft's name.
- Overlapping `new` commands can save a setup that no `new` would accept: a
  starter setup with a custom domain, a managed upstream without a command.
- For `--commit`, `PreRunE` starts a managed upstream whose `Shutdown` is
  deferred late in `RunE` (`cmd/new.go:567`); a command that returns before its
  probe server is up leaves it running, where README.md:151 says that warded
  "cleans it up when the command exits" (the exception in `LeftBehind`).
- `integrate systemd` counts wards, `serve` counts directories, drafts included
  (`cmd/serve.go:97`): with a draft beside the ward, or with `--ward-id` among
  several wards, it installs a service that never gets past "multiple local
  wards found". A second setup does the same to a running service at its next
  restart (the premise of `ServeComesUp`).
- `integrate systemd` on a unit that runs already reports it as started, but
  `enable --now` leaves the old process running, also under a rewritten unit.
- The command line `doctor preflight` suggests at its end leaves out the ingress
  flags, the public port and the IPv6 listen flag (`cmd/doctor.go:630`): the
  `new` it recommends is refused or makes another setup than the one checked.

## 7. Not modelled, and the plan

Left out for good: the HTTP client, rendering and error texts, the reports of
`doctor` and `doctor agent` (they read and keep nothing), the ACME provider (a
wrapper of certmagic, which has the state), packaging. Loss of power is not
modelled: processes die, and machines restart in `HostCommands`, but what was
written stays. Header rewriting and path whitelisting of the proxy and the claim
checks of agent tokens are comparisons without state that end in the forwarding
of one request; a property of them would restate the code. SNI routing is a
lookup in a map built once. The paths of user and system units, `--dry-run` and
the choice of an `openclaw` target are lookups too.

Done, in this order: proxy sessions; the file; the record; the upstream
manager; drafts; the platform certificate; serve of several wards; the pending
setup; the OpenClaw repairs; agent tokens in the serve of several wards; the
host with preflight, `new --commit` and the systemd service; `whitelist` on
drafts.

Next:

1. The replacement of the platform's public keys by heartbeats, next to that of
   the token list.
2. `WardRecord` with two commands at a time in the liveness properties.
3. Safety halves of the liveness properties, as far as they can be stated
   without fairness: what a `serve` that has stopped, or a call that waits, still
   needs in order to go on.

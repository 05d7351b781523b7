# HV Launcher, verified

TLA+ models of [HV Launcher](https://github.com/RemakeCode/hv-launcher), a Decky
plugin with a Go backend that swaps the AMD KVM kernel modules for
`cpuid_fault_emulation` while managed Steam games run, swaps them back when the
last one has ended, and sets a host up for that. TLC checks the models on small
instances, TLAPS proves what matters most for every instance.

## The system

| Part | Source | State it keeps | Operations |
| --- | --- | --- | --- |
| Hypervisor controller | `hypervisor/controller.go`, `host.go` | state, sessions, ownership, snapshot of the modules; all behind one mutex | `StartSession`, `EndSession`, `ObserveLifetime`, `TestModule`, `Shutdown`, `Reconcile` |
| Transition journal | `hypervisor/journal.go` | one file, replaced by rename | `Load`, `Write`, `Clear` |
| Session wrapper | `wrapper/run.go` | the session ID it was given; its child | `Run`: POST a session, run the game, DELETE the session |
| Session and lifetime handlers | `server/sessions_handler.go` | none | `startSession`, `endSession`, `lifetime` |
| Lifetime observer | `src/steam.ts` | timers of retries | one post per Steam notification, retries when unresolved |
| Process resolution | `steamprocess/running.go` | none; reads `/proc` | which managed games run |
| Process lifecycle | `cmd/hv-launcher/main.go`, `main.py`, `server/server.go` | the process, the capability secret | start, reconcile, listen, SIGTERM, SIGKILL after 2 s |
| Setup jobs | `jobs/jobs.go`, `server/jobs_handler.go` | the active job, the last 64, subscriber channels of 16 events | `Start`, `Update`, `Output`, `finish`, `Subscribe`, `Active`, `Get` |
| Setup event store | `src/setup-events.ts` | the latest snapshot of each kind, which endings were notified | events, `reconcile`, `dismiss`, `stop` |
| Capabilities | `auth/auth.go`, `main.py` | secret, table of used nonces | issue, `Consume` |
| Rate limiter | `server/limiter.go` | a counter and its window | `Allow` |
| Configuration store | `config/store.go` | managed games, in memory and on disk | `Open`, `PutGame`, `DeleteGame` |
| Shortcut manager | `shortcuts/launch.go`, `src/steam.ts` | launch options in Steam, the record of the original | enable, disable |
| UMIP | `umip/*.go` | boot configuration, backup, generated configuration | `Apply` |
| CPUID module | `cpuidmodule/*.go` | DKMS registration, installed module, stored verification | preflight, `Install`, `SaveIfChanged` |
| Proton | `linuwux/proton/*.go` | staging directory, installed tool | preflight, `Install` in a worker |
| Runtime, inspection | `linuwux/runtime/manager.go`, `system/inspect.go` | none; reads the host and the stored verification | `Inspect` |
| Routing, UI, logger | `server/*.go`, `src/*.tsx` | none of its own | decoding, presentation |

How they interact: Steam runs the **wrapper** in place of a managed game; the
wrapper asks the **backend** over HTTP for a session; the handler calls the
**controller**, which writes the **journal** and runs `modprobe`. Steam tells the
**frontend** when applications start and stop, and the frontend posts that to the
backend too, so that a session whose wrapper died is closed. `main.py` starts and
kills the backend. The frontend puts the wrapper into Steam's launch options, and the
backend keeps the original ones in its **configuration**. Setup operations are
**jobs** of the backend, authorised by **capabilities** that `main.py` signs, and
reported by a stream of events. An **inspection** reads what they changed and tells
what is left to do.

What is hard here:

* three modules and one file change one after another, and the process may be
  killed, the host restarted, a call fail, or another program intervene, between
  any two;
* which session is the last one, with requests, DELETEs and notices in any order,
  some twice, some lost, some about a launch that is over;
* a client that gives up while its request waits for the mutex or for `modprobe`;
* events that are dropped or overtaken by the snapshots that should replace them;
* operations on two stores (Steam and the configuration, a boot configuration and
  the menu made of it, DKMS and the module tree) with an undo that may fail;
* a place that must be free, looked at before it is taken; a clock that is read
  before a mutex is waited for; a report about things that change while it is made.

What makes each part correct, in short: the controller undoes what it did and
nothing else; the journal is enough to do so after a kill; a game that was given a
session has the emulation for as long as it plays; KVM is back after the last one;
at most one job runs and its end is seen by whoever watches; a capability is used
once, and one that is good goes through; launch options and configuration agree, and
the managed options start the game the user meant; the administrator's boot
configuration is never lost and what is reported of it is so; an installer cleans up
after itself and leaves alone what others put there; a host is called ready only if
it is. The hazards, each with its line, are in `PROJECT.json`.

## Modules

| Module | What it is |
| --- | --- |
| `ModuleLease` | the abstract specification: a change of modules only under a durable note of the snapshot to return to |
| `Controller` | the controller, its journal and the host's modules |
| `Launcher` | Steam, wrappers, frontend, server and plugin around `Controller` (EXTENDS it) |
| `SetupJobs` | the coordinator of setup jobs and its event stream |
| `SetupEvents` | the frontend's store of job snapshots, over `SetupJobs` (EXTENDS it) |
| `LaunchOptions` | launch options as tokens, and what is put around them |
| `Shortcuts` | turning management on and off, across Steam, the page and the configuration store |
| `Capability` | issuing and consuming setup capabilities |
| `RateLimiter` | the limit on transitions |
| `Server` | `Shortcuts`, `Capability` and `RateLimiter` in one process that is killed and restarted |
| `BootParameters` | parsing and replacing the kernel's arguments in a boot configuration |
| `Umip` | `Apply`: backup, write in place, updater, undo |
| `ModuleInstall` | installing the CPUID module with DKMS, testing it |
| `Archive` | which archives are accepted, what is extracted, what a tool must have |
| `ProtonInstall` | installing a patched Proton |
| `Readiness` | the inspection's conclusions as operators |
| `Setup` | the three installers, the inspection, people and kills on one host |
| `MCController`, `MCLauncher`, `MCSetupEvents`, `MCShortcuts`, `MCServer`, `MCSetup` | values and symmetry for TLC |
| `ControllerProofs`, `LauncherProofs`, `SetupJobsProofs`, `CapabilityProofs`, `LaunchOptionsProofs`, `ServerProofs`, `SetupProofs` | theorems and their proofs |
| `Recursion` | lemmas for induction over numbers and sequences |

Definitions that begin with "Mutant:" in their comment are variants of the operation
after them with a plausible mistake; no specification uses them. `PROJECT.json` says
which property notices each.

### Controller

Every public operation of the controller holds its mutex to the end
(`controller.go:89`, `:112`, ...), so there is one operation at a time and `pc`
names where it is; `"free"` is the unlocked mutex. What makes it worth modelling
is what can happen *within* one, so an operation is an action that begins it
(`StartSession`, `Close`, `Reconcile`, ...: all of it up to the first call that
leaves the process) followed by one action for the snapshot, each journal write and each
`modprobe`. `op` is what its local variables remember: its kind, the sessions it is
about to record, whether its context is still alive, whether it is rolling back.

| Variable | Code |
| --- | --- |
| `loaded`, `vms` | `/sys/module`, and whether a virtual machine holds `kvm_amd` |
| `debt` | history: modules the controller changed and has not changed back (not in the code; the properties are about it) |
| `meddled` | history: did others change modules while a record stood or the controller owned them? |
| `journal` | the file, `journalRecord` |
| `verification` | the stored outcome of the module test |
| `up`, `pc`, `op` | the process, and the operation under way |
| `state`, `sessions`, `owned`, `before` | fields of `Controller` |

Calls fail as they do: `modprobe` is refused when a module is in use, fails when
`Unreliable`, and a failed one may have changed a part of what it was asked
(`modprobe -r kvm_amd` removes `kvm` too when nothing else uses it); a command whose
context is cancelled does not start. A failed journal write or removal may have
taken effect, because the directory is synced after the rename. `Kill` and `Reboot`
come at any point; a reboot loads `BootModules`. `Meddle` is the administrator, or
any program that loads or removes modules: always if `Meddling`, else only while the
controller has no record and owns nothing.

An activation checks first whether the emulation is loaded (`controller.go:112`, `:363`),
runs `modinfo`, and only then takes the snapshot of the modules it will return to
(`:283`, `:384`). `Activate` ends with the check and `TakeSnapshot` is a step of its own,
so another program may load or remove modules between them: the snapshot may have an
emulation in it that the check did not find. Then the controller owns the transition and
not the emulation, and must leave it when it restores. That is why `DebtAfter` does
not count an emulation that the snapshot has, and `SnapshotOfCheck` is the mistake that
`ForeignEmulationStays` notices.

Left out: the native execution path (no module changes there, only a list of
sessions), why a preflight refuses, messages and log output.

### ModuleLease and the refinement

`lease` is the set of at most one snapshot: in the code an *owned* record in the
journal file. `debt` is the same in both. A lease is taken when nothing is owed,
modules are changed only while there is one, and it is released, or exchanged, only
when nothing is owed. `Controller` implements it (`LeaseSpec`): a behaviour-level
reading of the write-ahead order of `activateLocked` and of "journal last" in
`restoreLocked`.

### Launcher

One wrapper for each app at a time, since Steam runs one instance of a game.
`stage` is where the wrapper is in `Run`, `request` where its POST is at the server
(queued behind the mutex, served by the operation under way, or abandoned by its
client), `notices` the frontend's posts under way, a set, so that they are taken in
any order. `instance` is Steam's instance ID, here the number of the launch.
`nameless` and `late` are settled at the start of a behaviour: which applications'
notices name none (App ID 0), and whether a notice may be overtaken by the game's next
launch. `Serve`, `Deliver` and `GiveBack` are handlers that got the mutex and perform
`Controller`'s operation; `Work` is the operation going on and, at its end, the
answer to the request. `Refuse` stands for every refusal before anything changes:
the limiter, a game that is not managed, no execution path, `kvm_amd` in use,
recovery required, a client that is gone. When nothing listens, a request fails and
a notice is lost; when the backend is killed both are lost with it. `StopPlugin`
also ends all games, because `_stop_stale_backends` matches every process that runs
the binary and a wrapper passes SIGTERM on (`main.py:44`, `run.go:132`).

### SetupJobs and SetupEvents

| Variable | Code |
| --- | --- |
| `jobs`, `order`, `active` | fields of `Coordinator`; a job's ID is drawn from `fresh` |
| `unpublished` | the event each goroutine made under the mutex and is about to publish, which takes the mutex again (`jobs.go:105`) |
| `stream`, `channel` | the connection of `GET /setup/events`: closed, its head sent, or subscribed (`jobs_handler.go:40-43`), and the events in it |
| `latest`, `notified` | `latestByKind` and `notified` of `SetupEventStore` |
| `fetch` | each call of `reconcile`: the request it waits for, read at the server (`ReadActive`, `ReadJob`) before it is taken by the store (`TakeActive`, `TakeJob`) |
| `announced`, `missed` | history: how often an end was announced, and which ends no stream carried |

`Start`, `Update` and `Finish` each change the coordinator under its mutex and leave
their event to `Publish`, which loses it if the channel is full or nobody has
subscribed. `Start` publishes before its goroutine begins, so a job's own events are in
order. A snapshot is an ID, a kind, a state and a step that stands for its phase,
progress and output. `RestartBackend` forgets all jobs and breaks the stream; requests
that are at the server fail, replies on their way still arrive. Left out: notices of
activation failures, which only take room in the channel, the limits on output, and
`stop()` of the store with what follows a second `start()`.

### LaunchOptions and Shortcuts

Launch options are a sequence of tokens: leading assignments, `%command%`, the wrapper,
the runtime, other words. `Managed` is `ManagedLaunchValueForMode`; the wrapper is
written in quotes, so that `AlreadyManaged`, which looks for it without, does not see
it. `Started` and `Variables` say what a shell makes of launch options; `LaunchKept`
compares what the original and the managed ones start. It leaves out options in which an
assignment stands without a `%command%`: Steam passes such an assignment to the game
as an argument, the runtime mode makes it a variable (`Ambiguous`).

| Variable | Code |
| --- | --- |
| `memory`, `disk` | the records of the configuration store, and `config.json` |
| `options`, `library` | Steam's launch options, and the games it shows |
| `toggle` | each call of `enableManagedGame` or `disableManagedGame`: its step and what it has read |
| `written`, `edited`, `disturbed` | history: the options the user last wrote, games edited while managed, and games whose toggle was cut off or overlapped or whose record was deleted while they were missing |

Each request of a toggle is a step, and the handler is split where it leaves the
store's mutex: `EnableWithMode` looks whether the game is managed, and puts the record
under another lock (`launch.go:92`). `Save` is a change in memory with its rollback: a
save that fails leaves the old file (`config/store.go`). A backend that dies while a
save is under way leaves either. A rename that has been made survives; power loss before
the directory reaches the disk is not modelled, for `config.json` is written by a
process that syncs the file alone.

### Capability, RateLimiter and Server

`Consume` reads the clock, checks signature and claims (`Verify`), reads the clock again
(`ReadClock`) and then waits for the mutex (`Consume`); requests do so at once, with any
capability that was ever issued, as often as they like, for this or another operation.
A token is its claims and the secret it is signed with. `StartVerifier` is a new plugin
object with a new secret and a new, empty table; `again` counts across all of it. A
capability is used up even when the coordinator then says that a job runs
(`umip_handler.go:39`). The wall clock is assumed not to be set back.

`Allow` is the limiter under its mutex, `allowed` the requests it let through in this
process with their times.

`Server` runs the three in one process and lets it die between any two steps.

### Umip and BootParameters

A configuration is a sequence of lines, of which those that assign the variable of the
kernel's arguments matter, with the arguments in them. `Candidate` is the inspection of
a text, `Replacement` what `buildReplacement` makes of it, for Limine and GRUB. `Apply`
is split at the backup, the write in place (`Torn`: cut off at any line), the updater,
and each step back. `generated` is the text the boot menu was made of, `booted` the one
that the running kernel was started with; `intended` is history: the last text meant by
the administrator, or applied. Facts about the code that the model shows but no property
forbids: a kill between the write and the updater leaves the file configured and the menu
not generated from it, and the next `Apply` refuses, for there is nothing to change; an
edit that the administrator makes while `Apply` runs is overwritten from what was read at
its start (`umip.go:44`), so that `Edit` is enabled only between calls.

### ModuleInstall, Archive and ProtonInstall

`ModuleInstall` is split at each command: stage, look, dependencies, `dkms add`, build,
install, verify, test, clean up. `registry` says whose registration of the version there
is. The administrator adds or removes one at any time (he removes none from under a
running `Install`). `dkms add` is assumed to be all or nothing. A compatible module means
one that `modinfo` finds with the right `vermagic`; `accepted` is history: the kernel has
loaded it in a test. The test itself is `Controller`'s operation `TestModule`; here it is
its outcome.

`Archive` says which entries `recordPath` accepts in which order, how the search for the
file behind a hard link goes, what extraction makes, and what `InspectInstalled` requires.
`ProtonInstall` is split at each look at the tool's place and the rename.
`os.Rename` does not replace a directory that is there when it looks, but it can replace
an *empty* one that appears between its look and the system call. A worker whose backend
was killed dies at its next report; a rename it had begun may be made.

### Readiness and Setup

`Readiness` holds the tables of processors, `selectPath`, the checks and
`deriveStatusWithRuntime` as operators on a machine. `Setup` puts the installers, admitted
one at a time as the coordinator does, beside an inspection that reads the stored
verification, the module and the rest one after another (`BeginInspect`, `LookForModule`,
`Conclude`), people who change what they like, kills and reboots. Without `modinfo` the
module counts as missing, and a module that is not compatible resets the stored
verification (`inspect.go:235`), also one that a test has stored meanwhile: that costs a
verdict, and never makes a host look ready. The store's save may fail, so that an old
"verified" may outlive a failed test; it still says that the kernel once accepted it.

## Runs

| Run | Question | Bounds |
| --- | --- | --- |
| `controller` | Is every change on record, does idle owe nothing, are sessions on record, is an ambiguous record left alone, do games keep the emulation, does one that others loaded stay, is `ModuleLease` implemented? | 2 apps, 2 session IDs, 1 instance, 2 crashes; calls fail, clients leave, others load and remove modules at any point |
| `controller_recovery` | Does the next backend give the modules back after a kill or a reboot? (liveness) | 2 crashes; calls succeed |
| `launcher` | Does a game that was given a session keep the emulation? Is KVM back once all is quiet? Does the composition implement `Controller`? | 2 apps, 3 launches; either 1 interrupt (a killed wrapper or a timeout) and 1 crash, or notices late or without names |
| `launcher_killed` | Is KVM back if a wrapper was killed? (violated) | 2 launches, 1 interrupt |
| `launcher_unnamed` | Does a notice without a name harm another game? (violated) | 2 launches |
| `launcher_timeout` | Does a game run without a session only if the backend is out of reach? (violated) | 2 launches, 1 timeout |
| `setup_events` | Does one job run at a time, whatever is pruned or restarted? Does every job end, whoever reads its events? Is its end announced once? (with liveness) | 2 jobs of which 1 is retained, a channel of 1 event, 1 update, 1 restart, 1 call of `reconcile` beside the stream |
| `setup_stale` | Does what the store shows as running run, when all is delivered? (violated) | 1 job, nothing lost in a full channel, no restart |
| `setup` | Is nothing of the administrator's lost, is what installers report so, do they leave others' things alone, are accepted archives installable, is a host called ready only if it is? | 3 hosts, 7 archives, both boot loaders; 2 jobs, 1 change by people; everything fails, kills and reboots at any point |
| `server` | Do launch options and records agree, do managed options start the right thing, is what is served saved? Is a capability accepted once, and a good one at all? Are bursts bounded? | 1 game, 2 toggles at once and 3 in all, 3 methods, 7 launch options, 1 edit, 1 move, 1 kill; 2 capabilities, 2 operations, 2 requests at once, age 2, a table of 1, 3 seconds; 2 requests in a window of 2 seconds |
| `shortcuts_edited` | Do edits outlive turning a game off? (violated) | 2 toggles, 1 edit; nothing fails |
| `shortcuts_nested` | Is the wrapper never put around itself? (violated) | 3 toggles, 2 moves; nothing fails |

Why the bounds are enough: two sessions are what it takes to tell the last one from
another, and a second of the same game from one of a different game (IDs are drawn
from a set; one that was given back can be drawn again, as a fresh one). Two crashes
allow one to strike the recovery from the other. Three launches of two games give
one game a second launch, while notices of its first are under way, beside another
game. Two jobs are what it takes to prune one and to have the end of one beside the
start of the other, and, in `setup`, to install after an attempt of the same kind that
failed or was killed; a channel of one event overflows at once. The hosts are a processor for each
path and each need: a Zen 2 that needs UMIP off and the module, a Zen 4 whose kernel
has CPUID faulting, an Intel without UMIP. The archives have each kind of entry, a chain of
hard links in the order that cannot be extracted as it comes, a circle of links, a link
outside. Two toggles are what it takes to overlap, three to turn a game on, off and on; a table of one
capability is full after the first; two windows fit into the clock. The
three modules are the code's own. The instances are explored completely, there is no
state constraint; the constants whose names begin with `Max` are the only bounds on
behaviours, named in the guards they are in (`Reconciles`, `Toggles`, `Handlers` bound
how many calls overlap, `Nonces` how many capabilities there are). Two action constraints, both called
`Apart`, keep apart what need not meet in one behaviour: in `launcher`, late or nameless
notices and interrupts or crashes; in `server`, the parts of the process, each of which
meets kills and restarts.

Apps, session IDs, games, toggles, nonces and handlers are symmetric in the runs of safety
properties; the liveness runs have no symmetry. Deadlock is checked where the environment always has a
step; in `setup`, `server` and the two `shortcuts_` runs all bounded work may come to its
end.

The runs that pass take care to say what they assume. `GamesKeepEmulation` and
`ForeignEmulationStays` say nothing of a history in which others changed modules under the
lease (`meddled`), and cannot: an administrator who unloads the emulation takes it from the
games, and one who loads it while the backend is down and its record stands will see the
next backend unload it (`controller.go:520`), as it would its own. `GamesHaveEmulation`
assumes that no notice of a game's earlier launch is under way when it is launched
again, and that notices name their game: a late *running* notice would give the new session
the old instance, and the late *stop* end it. `RestoredAfterLastGame` is about behaviours
without interrupts and crashes: if the *running* notice is lost with the backend and the wrapper is
then killed, the session stays, as in `launcher_killed`. `OptionsFollowRecord` and
`WrappedIsRecorded` leave out `disturbed` games: two toggles of one game at once (a page
opened anew does not know of the toggle of the last), a toggle cut off by the death of the
backend, and a missing game turned off, whose options stay as they are; they assume that
nobody types the wrapper in the quotes the code uses (`PlainAssumption`). `AcceptedOnce`
leaves out a capability that expired while its request waited for the mutex: by then its
entry may be gone from the table, and it may be accepted again by another request that waited.
`ReadyIsTrue` is about an inspection during which nothing that it reads changes.

### Fairness

`RecoversAfterKill` and `JobsEnd` need any. `WF(Step)`: an operation that has begun goes on;
its goroutine waits for nothing but `modprobe` (with a deadline) and the disk.
`WF(Start)`: Decky starts the backend of a loaded plugin (`main.py:56`). The job and the
publication of its events are goroutines, too. Nothing is
assumed of clients, games or the administrator. `controller_recovery` has `Unreliable = FALSE`:
if the disk fails for ever the modules cannot be recovered, and the code then stays in
`recovery-required`.

## Disagreements

* `launcher_killed`: `TECHNICAL.md:22` says KVM is restored after the last managed game
  closes. A *running* notice that arrives before its session exists is dropped
  (`controller.go:162`), so the session never gets an instance ID; if the wrapper is then
  killed before its DELETE, the stop that follows does not match (`:177`) and the
  emulation stays until the plugin restarts.
* `launcher_unnamed`: a notice under App ID 0 is resolved when it is *handled*
  (`sessions_handler.go:82`), up to 1.75 s late (`steam.ts:222`). If the only game that
  runs by then is another one, that game's session takes the instance, and the stop
  closes it under the game.
* `launcher_timeout`: the comment at `run.go:45` says the wrapper fails open only when
  the service cannot be reached; it also does after its 30 s at a service that is
  reached, which then may open a session for a game that runs without one.
* `setup_stale`: `setup-events.test.ts:88` says that a cached running job that completed
  while the stream was disconnected is refreshed. The server sends the head of the answer
  before it subscribes (`jobs_handler.go:40-43`), so that an end published in between is
  lost, while the `reconcile` that the head started may have read the job just before it.
  `accept` takes that reply (`setup-events.ts:119`), and the job is shown as running until
  the stream breaks again.
* `shortcuts_edited`: `TECHNICAL.md:14` says that disabling preserves edits made
  externally, and `README.md:94` that a newer value is kept. `disableManagedGame` writes the
  saved original over whatever the options are by then (`steam.ts:166`), as `README.md:71`
  says it does.
* `shortcuts_nested`: the check against a wrapper around the wrapper (`launch.go:40`,
  `launch_test.go:43`) looks for the wrapper without the quotes that `launch.go:44` puts it
  in. A game that is uninstalled, turned off (its options stay), installed again and turned
  on is wrapped twice, and the wrapped options are saved as its original ones.

## Proofs

Every theorem is about any values of the constants that satisfy the named assumptions, so
about any number of games, sessions, requests, jobs, crashes and edits.

`ControllerProofs`, with and without failures, cancellation and meddling:

* `TypeCorrect`: `Spec => []TypeOK`;
* `LeaseInvariant`: `Spec => []LeaseInv`, and from it
  `ChangesStayOnRecord` and `IdleIsRestored`;
* `ImplementsLease`: `Spec => LeaseSpec`, and so `DebtIsCovered`;
* `SessionsStayOnRecord`, `AmbiguityIsSafe`, `EmulationStays`: the three invariants
  `SessionsAreOnRecord`, `AmbiguityIsLeftAlone` and `GamesKeepEmulation`;
* `ForeignIsNeverUnloaded`: `ForeignEmulationStays`, for hosts that do not load the
  emulation at boot. (One that does, and goes down under an owned record, finds the emulation
  loaded and the record standing, and the next `Reconcile` unloads it.)

`ChangesAreOnRecord` and `IdleOwesNothing` are not inductive: the one says nothing of
whether the snapshot in memory is the one on disk, the other nothing of how an
operation comes to report idle. `LeaseInv` adds what the code relies on at each
point: modules are changed only under an owned record of the snapshot in memory
(`HeldWhileChanging`), and a preflight owns nothing yet; a process that owes something owns
it, with the snapshot that is on record in memory (`DebtIsHeld`); what a restore has paid back by each of its steps
(`PaidBack`); only the last step of a start has sessions (`SessionsInside`,
`StartPending`); a dead process remembers nothing (`DeadIsBlank`). The argument has two
halves: a step away from the snapshot can only add debt that the record undoes
(`CommandOnRecord`), a step back only pays (`CommandPays`); so where the journal is
cleared nothing is owed. TLC checks `LeaseInv` itself in `controller`. On top of it each of the other
invariants has its own strengthening: `SessionsInv` (which sessions a write in progress
will have put on disk), `AmbiguityInv` (only a controller at rest, or discarding, sees a
record that nobody owns), `EmulationInv` (the steps that unload run when the controller does
not say active) and `ForeignInv` (an emulation that is loaded under ownership is owed, or in the
snapshot to return to, in memory and on record).

`LauncherProofs`: `LauncherTypeCorrect`, `ImplementsController`
(`LauncherSpec => ControllerSpec`), so that each of the theorems above holds of the
composition; `LaunchesStayOnRecord` is one. `GamesAreHeld` is `[]GamesHaveEmulation`, again for
hosts that do not load the emulation at boot. Its invariant, `LaunchInv`, relates the parts: the
controller has sessions only with the emulation loaded (`PlayInv`); no two wrappers hold the same
ticket, so that one game's DELETE cannot end another's session (`TicketsDiffer`); a start under
way serves a request, and its wrapper waits with that session's ID or has given up
(`PendingInv`); the notices of a game that runs say so, so that no stop ends it
(`NoticesInOrder`); and a game that plays has the emulation either as somebody else's or with
its session in memory, while the backend lives, and on record (`Held`). The record is what the
next backend adopts the game from, and `KeptStep` shows that nothing the controller does for
others, nor its death and restart, takes `Held` away.

`LastGameRestores` is `[]RestoredAfterLastGame`. When all is quiet no session may be left, and for
that each must be somebody's to give back. `EndsInv` says so, for behaviours without interrupts
and crashes: an ID names one session, and its wrapper holds that ID with the DELETE still to send
(`AllAnswered`); the operation under way has a living context, and its write of the sessions neither
ends the process nor asks for recovery (`Obeyed`); ownership on record is known in memory (`OwnedInMemory`), so that the next
backend finds nothing to adopt. It assumes `~Unreliable`, which `RestoredAfterLastGame` does not
say and needs, as TLC found with failing calls allowed, in 17 states: the plugin stops while a game starts, the
journal write of the restore fails, the process exits, and the next backend adopts from the old
record a session whose game runs without one. It stays until the plugin stops again.

`SetupJobsProofs`: `JobsTypeCorrect` and `OneJobRuns` (`JobsSpec => []ActiveRuns`).
`ActiveRuns` is inductive beside `JobsTypeOK`: a start finds nobody running, and pruning
spares the newest job (`NewestIsRetained`), so its snapshot is there until it ends. With the
event store above it: `SetupTypeCorrect`, `OneJobRunsBelowStore` and `EndsAreAnnouncedOnce`
(`[]EndsAnnouncedOnce`). For the last, `Announced` says of each job that has ended that its end was
notified, is on its way (made, in the channel) or was missed by every stream, and that what was
notified was announced once; a reply read long ago takes nothing of this back.

`CapabilityProofs`: `CapabilityTypeCorrect`, `SingleUse` (`[]AcceptedOnce`) and
`GoodCapabilityIsAccepted`. Single use needs two facts that are not in the property: a
request past the signature carries the secret of the backend that checks it
(`RequestInv`), and a capability that this backend accepted is in its table until it
expires (`ReplayInv`). `TableIsAccounted` compares the cardinality of the table with that
of the capabilities in use.

`ServerProofs`: `ServerRefinesCapability` (the process implements `CapabilitySpec`, so the
theorems of the parts hold of it: `ServerCapabilities`), `LimitHolds`, `RecordsFollowOptions`,
`WrappersAreRecorded`, `ServedIsWhatIsSaved`, `ShortcutsTypeCorrect` and `LaunchesAreKept`. The
limiter's invariant counts requests of this window and of the one before it (`LimiterInv`). That
of the shortcuts says what a toggle knows at each of its steps, unless it shares its game with
another (`Knows`): what it has read is still so. That of the launch options (`LaunchInv`) says
what records and calls carry: nothing, or options and the managed options made of them, never
the one without the other.

`LaunchOptionsProofs`: `ManagedStartsTheSame`. For options of any length, each mode and any
params: the managed options are not empty, and start the command that the user's started,
with its variables and those params that are 1, each `%command%` behind the wrapper. TLC compares seven
options; the proof takes the recursive `Without` and `InFront` one token at a time (what a
token adds depends on it alone, and on whether a `%command%` was seen), then puts together what
they make of the environment, the settings and the rest.

`SetupProofs` takes each installer, then the composition.

* Umip: `UmipTypeCorrect`, `TextNeverLost`, `OutcomesAreTrue`, `ArgumentAddedAlone`, from
  `FilesInv` and `BackupInv` (at each step, which text is where, and that a copy of the intended
  one is kept that is not about to be discarded), and `ReplacementAddsTheArgument`: for *every*
  text, the replacement keeps each argument, adds the one and is found configured.
* ModuleInstall: `FailuresAreCleanedUp`, `InstalledStays`, `RegistrationsRespected`, from what each
  step knows of the registration, and whether the installer made it (`RegistrationInv`).
* ProtonInstall: `ToolsAreWhole`, `ToolsRespected`, and `ArchivesInstall`
  (`[]AcceptedArchivesInstall`), for archives of any length whose links have a directory to be made
  in (the code does not check that before it extracts). The search for the file behind a hard
  link and the passes that make the links are two algorithms, of which one decides whether to
  accept what the other must extract. The passes follow the search backwards from the file it
  ends at, a step a pass (`LinksAreMade`), and there are as many passes as the search may have steps.
* Setup: `HostTypeCorrect`, `InstallersKeepPromises`, `SetupRespectsRegistrations`,
  `SetupRespectsTools`, lemma by lemma: a step of one installer is none of the others, up to
  forgetting how the last ended. `ReadyIsSound` (`[]ReadyIsTrue`) needs what an inspection has
  read so far to be so while `steady` (`InspectInv`).

`Recursion` is what the proofs about recursive functions rest on. The theorems of the library
that do induction take the property as an operator, which the provers cannot instantiate; here it is
a *set*, of numbers at which it holds (`Inductive`), and the step of a recursion is a *function*
(`RecursiveFunction`: what such a definition defines exists; `Appending`: what holds of
the empty sequence and outlives `Append` holds of each). They follow from `Least`, which the
well-foundedness of the strict subsets gives.

Assumptions on constants: `BootModules` is a possible set of modules, `MaxCrashes` and the
other bounds natural numbers, the switches Booleans; for `Launcher`, that clients may leave
(`Cancelling`), that `NoId` is no session ID, and that instances are the launches; for
`SetupJobs`, that at least one job is retained and `Nothing` is neither a job nor a snapshot;
ages, capacities, limits and windows are positive; `Texts`, `Archives` and `Hosts` are
well-formed; `params` are sequences of strings (`MethodsAssumption`); plain launch options are
launch options, and have no quoted wrapper in them (`PlainAssumption`). Three theorems assume
more, in their statements: see above.

Only model-checked, and for good: `RecoversAfterKill` and `JobsEnd`, liveness under fairness, which is
beyond the prover. Every other property of the passing runs is a theorem. `GamesAreHeld` and
`ForeignIsNeverUnloaded` are about hosts that do not load the emulation at boot and
`LastGameRestores` about calls that work, as in the runs that check them.

## Not modelled

* Decoding, status codes, routing, wording, logs, and the presentation: no state that
  another part relies on. `proton-state.ts` and `readiness-workspace-state.ts` map a
  snapshot to what is shown.
* The text of `/proc`, `/sys`, package managers, DKMS and compression formats: the models start
  from what was read. The plan of dependencies is a flag.
* An orphaned `modprobe` that completes after its backend was killed (`host.go:35`): a
  command's effect and its answer are one step of `Controller`.
* What becomes of a game that two toggles handle at once (`launch.go:92`): the models let it
  happen, and no property is stated of it.
* Power loss between a rename of `config.json` and the write of its directory.
* The native execution path of the controller, `stop()` of the event store, the
  unregistration of the lifetime observer.

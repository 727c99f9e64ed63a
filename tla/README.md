# A verification of BoostLock

BoostLock (`src/boostlock`) is a root daemon that keeps CPU clocks high on an
idle machine: it writes cpufreq and cpuidle files under `/sys`, holds a PM QoS
latency request, pulses the cores, watches the temperature, and promises to put
everything back. This directory models the parts of it that are hard to test,
checks them with TLC on small instances, and proves the most important results
with TLAPS for every instance.

All source references below are relative to `src/`.

## 1. Inventory

| Part | State it keeps | Operations | What makes it correct |
|---|---|---|---|
| Policy transaction executor (`boostlock/sysfs.py:486-531`, opener and writer in `daemon.py:824-865`) | list of completed actions, rollback errors | preflight, write, compensate, raise | all of the plan, or nothing but what the error names |
| Policy planning (`sysfs.py:413-484, 548-569`, `pm_qos.py:197-233`, `daemon.py:760-822`) | none of its own; reads sysfs | build a plan, choose one PM QoS route, append its actions | one action per file, snapshot before write, targets inside the limits |
| Daemon lifecycle (`daemon.py`) | `_state`, `_is_locked_boost`, `_stop_event`, `_lock`, signal handlers | start, stop, lock, unlock, pause, resume, reconfigure, run, emergency rollback, IPC dispatch, signal handler | the machine is restored at exit; status tells the truth; signals end the process |
| PM QoS (`pm_qos.py`) | descriptor, saved cpuidle values, locked and fallback flags | lock, release, fallback | releasing gives back exactly what locking took |
| Snapshot and restore (`state.py`, `rollback.py`) | snapshot in memory and on disk | create, save, load, restore, fallback, atexit and signal hooks | original values survive until they are back |
| PID file (`daemon.py:78-182`) | flock, PID file | acquire, release | one instance |
| Thermal guard (`thermal.py`) | median window, latch, clamp, thresholds, monitor thread | poll, filter, judge, callbacks | a hot processor is never boosted for long; the latch has hysteresis |
| Pulse engine (`engine.py`) | workers, controller thread, duty per policy | start, stop, pause, resume, reconfigure, control loop | workers run exactly while the engine is RUNNING; duty inside its bounds and the clamp |
| IPC (`ipc.py`, `protocol.py`) | socket, listener and client threads | start, stop, serve, send | a request is executed at most once and answered |
| Configuration and CLI (`config.py`, `cli.py`) | configuration values | validate, merge, start, restore | every accepted configuration satisfies the order of its thresholds |
| Benchmark (`bench.py`), hardware (`hardware.py`) | none | sample, detect | statistics and display only |

How the parts interact. `BoostLockDaemon` owns all the others. `start()` takes
the PID lock, has the planner build a plan, gives its actions to the snapshot
manager, sends it through the executor, then starts guard, engine and IPC
server. The guard calls the daemon back from its monitor thread; the engine's
controller polls the guard's clamp; client threads of the IPC server call the
daemon; signals run `stop()` on the main thread. All of these threads share the
daemon's one non-reentrant lock, which `start()`, `stop()` and the emergency
rollback hold only for short stretches.

What is hard: the transaction failing at any action, with compensations failing
too; `start()` and `stop()` interleaving with every other thread; the signal
handler on top of the thread that holds the lock; daemon threads killed by the
end of the main thread; retries of LOCK after UNLOCK with values the daemon
itself wrote; old or invalid temperature samples; half-stored thresholds and
configurations; restores that fail half-way, race with hotplug or are killed;
several processes over one PID, snapshot and socket file; joins and requests that
time out. `PROJECT.json` lists each of these under `hazards` with its line and
the properties that cover it, or the reason why none does.

## 2. Modules

| Module | Models | Role |
|---|---|---|
| `AtomicApply` | what `README.md` promises of a transaction | abstract specification |
| `PolicyTransaction` | the executor | detailed specification, refines `AtomicApply` |
| `PolicyTransactionProofs` | | the executor's invariants and refinement, proved |
| `StartupTransaction` | planner, route, LOCK, UNLOCK, target changes | composes with the executor and refines `PolicyTransaction` |
| `DaemonLifecycle` | one daemon process, thread by thread | the transaction is one step here |
| `DaemonProofs` | | what a daemon leaves and reports, and what its transactions do (`StartupTransaction`), proved |
| `ThermalGuard` | guard, filter, callbacks, threshold stores | |
| `ThermalGuardProofs` | | the latch and the median, proved |
| `SnapshotRestore` | `state.py` on the policies a daemon changes | a restore write by write |
| `SnapshotRestoreProofs` | | what a restore gives back, and its order, proved |
| `RollbackSession` | the two context managers of the library | older snapshot layout, signals, exits |
| `Instances` | several processes, `kill -9`, `boostlock restore` | transaction and restore are one step each |
| `InstancesProofs` | | one daemon, and what survives `kill -9`, proved |
| `PulseEngine` | the threads of the engine | with the daemon's calls of it |
| `PulseEngineProofs` | | workers and controller, proved |
| `PolicyTargets` | the four functions that resolve a target | operators only |
| `Configuration` | defaults, validation, merge, options of `start` | operators, extends `PolicyTargets` |
| `Tuning` | RECONFIGURE beside the duty controller and the waveform | extends `Configuration` |
| `TuningProofs` | | configuration, targets and pulses, proved |
| `IPCSession` | client, listener, connection threads, server stop | |
| `SessionProofs` | | what an answer tells, and what a session of the library leaves (`RollbackSession`), proved |
| `MC*` | | instances for TLC |

### PolicyTransaction

`phase` is the position in `execute_policy_apply_plan`; `plan`, `toOpen`, `pos`,
`residue` and `culprit` are its local variables; `image` is the content of the
files. One action per thing that can happen: a path is opened or refused in plan
order, a write succeeds, is swallowed (a failed update of a latency descriptor
that is already held, `pm_qos.py:111-124`) or fails, a compensation succeeds or
fails and the loop goes on. A compensation of the device that fails leaves it
closed, because the descriptor is forgotten either way (`pm_qos.py:297-306`).
`Outside` lets anybody write the files between two transactions. `Plans` is a
parameter: the plan is any sequence of actions that names each file once and
carries the value that was read (`WellFormed`); that the daemon's plans are such
sequences is what `StartupTransaction` checks. A failed write of an ordinary
file is assumed to leave it unchanged, as sysfs stores do.

`AtomicApply` says it without steps: pending, then committed with every wanted
value in place, or aborted with no change outside the reported paths. The
refinement mapping shows an outside reader the old image until the executor
returns.

### StartupTransaction

The two loops that build the plan are loops here, too: `Prepare` begins, `PlanPolicy`
is one turn of `build_policy_apply_plan`, with the two conditional groups
`LimitActions` and `ControlActions`, `PlanIdle` one turn of the daemon's loop over the
cpuidle nodes, which are read a second time and may have gone (`daemon.py:781-784`),
and `Lock` hands the complete plan to the executor. `at` is the position in these
loops, `planned` the list so far. The daemon's lock is held from `Prepare` on, so no
UNLOCK or RECONFIGURE comes between. Machines are parameters: policies that are usable or not,
share a boost file or own one, know their limits or not, with a latency device,
cpuidle states only, or neither. The executor's steps are those of
`PolicyTransaction` through `INSTANCE`. Frequencies are small numbers, every
other file content is a model value. A plan that cannot be built, because a file
cannot be read, changes nothing and is not a step. Nothing else writes the
files: a change of the limits by another program is left to `Outside` of the
executor's own module. The minimum at the beginning is the one of the hardware or any
a user has raised it to, within the limits (`Minimum`).

### DaemonLifecycle

`pc` gives each thread its next step: the main thread in `run()`, the signal
handler on top of it (`Runs` holds the main thread while it is active), and the
client threads. The steps of `start()`, `stop()` and `_emergency_rollback()` are
single actions separated wherever the code has let go of the lock; `lock()`,
`unlock()`, `pause()` and `resume()` hold it (`mutex`) from their first step to
the last. `sysfs` is the collective content of the cpufreq files: original,
boosted or the defaults `restore_fallback` writes; `snapshot` and `snapFile` say
which of them a restore would write; `qos` says whether this process holds the
request, whether it is in effect, and what releasing it would write back. A
client connection that was accepted before the server stopped may deliver its
request later (`Connect`, `Request`). When the main thread returns from `run()`
nothing moves any more, as all other threads are daemon threads.

`races` is a history variable. It records that a PID lock was refused, that a
START met a daemon that was alive but not RUNNING, that a LOCK met a start() or
stop() under way, that a stop() overtook a start(), or that a signal met a main
thread which holds the lock. The properties say that these, and an exit in the
middle of a client's `stop()` (`CutShort`), are the *only* ways in which the
promise of `README.md:60` fails. `ExitRestores`, `ExitRestoresDespiteLock`,
`ExitRestoresAfterStop` and `SignalStops` state the promise without them and are
not invariants; see section 5.

Not in this module: signals before the handlers are registered or after they are
removed, which kill the process; a second signal while a handler runs; threads
that cannot be created; a compensation that fails inside the transaction (that is
the executor's module).

### ThermalGuard

One `Update` is one `update_state()` under the guard's lock: the processor has
some temperature, the sensors can be read or not, the filter returns the median
of its window, or the last raw sample for a rejected one, or 50 degrees; the
five branches of the `if` chain are separate definitions (`Critical` ... `Cool`). Temperatures are kept doubled because the median of an
even window is a mean of two. RECONFIGURE stores warn, limit and recover in three
steps between which updates run. The daemon's callbacks are modelled as they are
called, with their number of arguments: the guard passes none, so they fail
before their first statement and the exception is logged.

### SnapshotRestore

`snapshot`, `snapFile` and `source` are functions from captured controls to
values, so a control the plan did not name is not in the domain. `Begin` takes
the snapshot `restore()` chooses, from memory or from the file, and discovers the
policies (when there is none, `Fallback` writes the defaults, or any part of them: each
node may fail, and a failed cpuidle write even ends `restore_fallback`,
`state.py:634`); `NextPolicy`, `WriteSucceeds` and `WriteFails` are the loop over them, one
write at a time, the bounds in the order `MaxFirst` computes from the values *seen at
discovery* (`state.py:524-545`); `Finish` drops snapshot and file whatever failed
(`state.py:580-592`). `Hotplug`, `Change` (another program) and `Crash` may happen
between any two writes, and cpufreq refuses a minimum above a maximum. Policies
may share a boost file.

### RollbackSession

`RollbackManager` and `PMQoSController` in nested with statements, in one thread.
`pc` is the program, `frames` the stack of restores under way: a signal pushes one
on top of whatever runs, a running handler included. The snapshot has the older,
per-CPU layout, which also holds the cpuidle states. `setup` says whether the
manager is used as a context manager, with `restore_on_exit`, or with its atexit
hook only, and whether the previous signal handlers were functions (`chained`).
`Unwound` is `sys.exit` on its way through the two `__exit__` methods.

A `Signal` meets the manager's handlers (`Handle`) or not. Before they are registered
and after `__exit__` has put the previous ones back (`Unhook`, then `UnhookExit` for the
atexit hook, then the restore) it is ignored by a handler of the program's own
(`Ignore`), it kills (`Kill`: SIGTERM, SIGHUP, SIGQUIT, place `killed`), or it is Ctrl-C:
`KeyboardInterrupt` leaves the restore that runs where it is and the process exits
(place `interrupted`). Registering the four handlers is one step, and so is putting the
previous ones back. The SystemExit of a handler and the KeyboardInterrupt come between
the writes of a restore, not inside one.

### Instances

Each process takes the steps of `start()` and `stop()`; `acquire()` is an open and a
flock, `release()` an unlock and an unlink, because a start may fall in between.
`path` is the inode behind the PID path, `holder` who has the flock of each inode.
`sysfs`, `idle` and `snapFile` are shared; `memory` and `saved` die with the process.
`sock` is the process whose socket is behind the path, `serving` the set of those whose
server runs: only these unlink it when they stop, whoever's it is by then. A start
breaks off at the snapshot, with the PID lock held and no snapshot taken
(`StartBreaks`), or in the transaction (`ApplyFails`).
`events` is a history variable: a start was refused (`refused`), a snapshot was
taken of values that were not the originals (`dirty`) or could not be saved
(`unsaved`), a start broke off before it had a snapshot (`unplanned`), a PID file was unlinked under a process that had it open (`orphan`),
`kill -9` (`killed`), `boostlock restore` (`command`). Each property names the events
it is allowed to fail after.

### PulseEngine

`alive`, `stopped` and `paused` are sets of worker threads, each a run of the engine
and a CPU; `controllers` the runs whose controller thread lives. `start()`, `pause()`
and `resume()` are one critical section; `stop()` is `EnterStop`, `TakeList`,
`StopWorker` for each worker, `JoinController`, which may time out, and `FinishStop`. One caller
is the request that holds the daemon's lock, the others are the daemon's own
`stop()` and rollback, which call the engine without it.

### PolicyTargets, Configuration, Tuning

`PolicyTargets` has `PlannedTarget`, `EngineTarget`, `BenchTarget` and `ClampReason`, each
translated from its own function. The target "auto" is a value of its own, `Automatic`,
and no integer; 0 is an integer that `validate()` refuses. `Configuration` has `Valid`, `Merge` and
`FromArguments`. In `Tuning` a RECONFIGURE is `MergeUpdate` (outside the lock, from the
configuration of that moment), `Store` (the lock is taken, `daemon.config` replaced)
and the engine's stores of targets, minimum, maximum and step; `Control` is one turn
of the controller for one policy, `Yield` its choice when the system is busy (at any
time: the load is not modelled), `Scaled` the thermal clamp, `Executed` the duties a
waveform makes of a pulse. `own` has the policies the engine knows by name; all
others keep a target per CPU. `wanted` and `overlapped` are history variables.
Duties are whole percents, so steps are even.

### IPCSession

A call is a pair of a client and a number, so a repeated command is another call.
`Connect`, `Send`, `Receive`, `Hangup`, `Timeout` and `Interrupt` are the client;
`ListenerChecks`, `ListenerWaits` and `Accept` the listener; `CheckStop`, `Recv`,
`RecvTimeout`, `Run`, `Refuse` and `Reply` the thread of a connection (a request that
cannot be decoded is answered without its handler, `ipc.py:203-208`); `BeginStop` and `Close` the server's
`stop()`; `Die` the end of the process, after which `Restart` may begin again. The
kernel keeps the backlog and delivers a line whole or not at all.

## 3. What is checked

| Run | Shows | Bounds and why they are enough |
|---|---|---|
| `executor` | `NoSilentResidue`, `ImplementsPromise`, `AppliedIsComplete`, `PreflightFirst`, `TypeOK` | 3 paths, one of them the device; plans of up to 3 actions: a failure before, between and after completed writes, with one, several or no failed compensations. The theorems cover every other size |
| `startup` | `ReleaseRestoresPMQoS`, `ImplementsExecutor`, `MinimumInsideLimits` | 2 policies and 16 machines; targets 2, 3 and auto in any order; every minimum between the hardware's and the maximum at the beginning; two cpuidle states, so one can be missing, lost or already disabled. LOCK and UNLOCK repeat without bound |
| `lifecycle` | `OnlyKnownRacesLeaveChanges`, `PausedMeansQuiet`, `LockedMeansBoosted` | two client threads (symmetric), three requests of any kind, two signals: UNLOCK, PAUSE, LOCK is the shortest series that tells the three variables apart, and four requests were explored once with the same result. The cpuidle route, because its effect survives the process |
| `lifecycle_live` | `SignalStopsUnlessRace`, `StopEventEnds` | two requests, one signal; no symmetry, which is unsound for liveness |
| `thermal` | `OpensOnlyWhenCool`, `SpikeDoesNotTrip`, `HeatSuspends`, `TripSuspends` | the window of 5 the code uses; temperatures below, between and above all thresholds and outside the filter's range; two configurations that do not overlap, so that a half-stored one has its recovery threshold above its limit |
| `thermal_throttle` | violated: `daemon.py:887`, `README.md:72` | two temperatures |
| `snapshot` | `UnreportedMeansRestored`, `OrderAccepted`, `CrashCanRetry` | two policies that share a boost file, two frequencies (a saved minimum above the present maximum), one hotplug event, writes by others at any time |
| `rollback_session` | `ExitRestores`, `KilledIsRecoverable`, `LatencyGivenBack` | two cpuidle states, so one can be missing, disabled by the user or lost half-way; two signals, each a Ctrl-C or one that kills, so that one interrupts the handler of the other or the last restore; one failing write |
| `engine` | `NotRunningMeansQuiet`, `OneController`, `StopReturns` | one stopping thread and one request, so that two `stop()` calls overlap; two workers, two runs: a run, a stop and the next run |
| `instances` | `OneDaemon`, `OriginalsRecoverable`, `QuietMeansRestored`, `RunningIsReachable`, `RunningMeansBoosted` | two processes, three starts (two daemons meet after one was refused), two kills; starts that break off at any stage; `restore` at any time |
| `tuning` | `ConfigurationValid`, `UpdatesKept`, `EngineFollowsConfig`, `PulseWithinMaximum`, `TargetsAgree`, `DutySettles` | two RECONFIGURE threads; updates that move either end of the duty, or the target, to one above every limit, and one, the target 0, that `validate()` refuses; limits that contradict each other; duties 5 to 7, so that a step of 2 passes the maximum; a start with `--max-temp 90` that is refused |
| `ipc` | `AnswerTellsWhatRan`, `LateOnlyAfterGivingUp`, `CallReturns` | two users, one repeats its command; one place in the backlog, so that it is full; two starts of the server |

Every module with a state of its own has a `TypeOK` (`StartupTypeOK`, `RollbackTypeOK`).
Run `executor` lists it, because it is also proved (`TypeCorrect`); in the others it
holds on the same instances and can be added to the configuration. Most of them are
proved, too (section 4).

Deadlock is checked except where the system really stops: the process of
`DaemonLifecycle` and those of `Instances` end, a session of `RollbackSession` and a
restore that crashed are over, and in `PulseEngine`, `Tuning` and `IPCSession` the
bound on runs, a start that is refused and the bound on calls leave nothing to do.

Fairness. The executor is straight-line code, so it runs until it returns
(`WF` on each of its phases; failures are its choice). In `DaemonLifecycle` the
main thread, an active handler and every client thread go on when they can, and
taking the mutex needs no more than weak fairness because nobody can hold it for
ever outside the races; requests and signals are not fair, they may never come.
The monitor thread polls for ever and a RECONFIGURE that has begun stores its
last value. In `PulseEngine` only the steps of `stop()` are fair, not the threads it
waits for: its joins have time limits. In `Tuning` the controller and the stores go
on. In `IPCSession` only the client is fair, whose socket has a timeout: the server
may be stuck for ever.

Each property of a passing run has a mutant in `PROJECT.json`: a faulty variant
of one definition, kept next to it in the module under a comment "Faulty
variant", that makes the property fail.

## 4. What is proved

All from the named assumptions on the constants, and for every value of them. Of the
properties of the passing runs, every invariant, every action property and both
refinements are proved; what is left to TLC is liveness.

The assumptions say no more than the code does: bounds on the exploration are natural
numbers, an element that stands for "none" is not a process, thread or path, and

* plans are sequences of actions (`PolicyTransaction`); a snapshot plan names each file
  once (`SnapshotRestore`);
* the window of the spike filter is odd (`OddAssumption`; it is 5, `thermal.py:391`);
* started configurations and updates are integers, duties whole percents, and a target
  may also be "auto" (`Tuning`), which is not an integer (`AutomaticAssumption`);
* there are more inodes than processes, so that a file system can always make a new one
  (`Instances`);
* client threads are neither the main thread nor its signal handler
  (`DaemonLifecycle`);
* a policy is discovered once (`sysfs.py:239`) and is not called `cpufreq`, a machine
  has the parts `MachineOK` lists, and its cpuidle nodes are listed once
  (`ConstantsOK` of `StartupTransaction`);
* cpuidle states have names of their own and are found once each, and the files start
  with values they can hold (`ConstantsOK` of `RollbackSession`).

The lemmas about the last two take their `ConstantsOK` as a hypothesis, which the
theorems discharge with the assumption.

No property below is inductive as it stands. Each module has an `IInv` (`SInv` for
`StartupTransaction`, `RInv` for `RollbackSession`), the lemma that the initial states
satisfy it, for each of its parts the lemma that a step preserves the part, and
`Inductive`, from which the theorems follow. The proofs about these two modules are
second halves of `DaemonProofs` and `SessionProofs`, which is why they call their
specifications `StartupSpec` and `RollbackSpec`. Every `IInv` was an invariant of the instance of its run before it was
proved.

`PolicyTransactionProofs`:

* `TypeCorrect`, `ResidueIsReported`, `AppliedMeansApplied`: the invariants of run
  `executor`;
* `NoWriteBeforePreflight`: its action property;
* `Refinement`: `Spec => ImplementsPromise`.

`IInv` adds what the code relies on silently: the plan is well formed with respect to
the image *at its beginning* (`PlanInv`); before the first write the image is untouched
(`CleanInv`); while writing, the actions before `pos` are in place and all other files
untouched (`WritingInv`); while compensating, the actions after `pos` are undone,
excused or reported (`RollbackInv`). One lemma per group of actions shows that it is
preserved, and `OutcomeIs` and `OutcomeNextIs` translate phases for the refinement.

`ThermalGuardProofs`:

* `TrippedMeansSuspended`, for every window, odd or not. The inductive invariant only
  adds that the latch is a Boolean, and the lemma `BranchLatch` treats the five
  branches for an arbitrary temperature and arbitrary thresholds.
* `LatchOpensOnlyWhenCool` and `SpikesDoNotTrip`, about the median itself.
  `OrderStatisticIs` shows that a history has a k-th smallest sample, by two uses of
  the largest sample of a set (`LargestSample`), and the well-foundedness of the
  naturals takes the place of an induction over the history. `HighMedian` and
  `LowMedian` turn a comparison with the median into a count of the samples above a
  value, and `AboveAppend` and `AboveTail` say how one new sample moves that count. Both
  theorems need the odd window: with the four samples 10, 0, 0, 3 and a recovery threshold
  of 1 the median is 1.5, a new sample of 2 makes it 1, and the latch opens on a
  temperature above the threshold.

`TuningProofs`, for every set of threads, updates, policies and limits:

* `ConfigurationStaysValid`, `UpdatesAreKept`, `EngineHasTheConfiguration`. `LockInv`
  says that one thread at most is storing, and stores the daemon's configuration;
  `StoreInv` what the engine has at each store; `MergeInv` that a merged
  configuration is valid and, unless RECONFIGUREs overlapped, based on the present
  one. What is stored was validated when it was merged, long before the store, which
  is why the handler's record has to be part of the invariant.
* `ResolversAlwaysAgree`: the plan, the engine, the benchmark and the reason in STATUS
  agree on every target, by the lemmas `ResolversAgree` and `ReasonExplains` about the
  operators of `PolicyTargets`.
* `PulsesStayWithin`. `PulseInv` keeps the order of the waveform's limits from the start of the
  daemon, and the bound on the pulse of a policy that was adjusted to the configuration
  of now; `ScaledBound` is about the thermal clamp, `ExecutedBound` about the four
  waveforms.

`SessionProofs`, for every set of clients and calls, any backlog and any number of
starts: `AnswersTellWhatRan`, `LateConnectionsStayUnread`, `OnlyGivenUpCallsRunLate`.
`SessionInv` relates for each call where its client is, where its connection is and
how often its handler ran; `QueueInv` says that a connection waits in the backlog
once; `LateInv` that a late connection never gets past its first look at the event.
`LateConnectionsStayUnread` is an invariant of the same instance as run `ipc`, which
does not list it.

The second half of `SessionProofs` is about `RollbackSession`, for any cpuidle states,
frequencies, initial values and number of signals, nested as deep as they come:

* `ExitIsRestored`: whoever exits as promised leaves the original values, or the
  defaults after a second restore, or, by Ctrl-C in the restore of `__exit__`, the
  originals in the file (in a second restore: each control at its original or its
  default);
* `KillIsRecoverable`: a first signal that kills finds the originals in force or in the
  file;
* `LatencyIsGivenBack`: an unlocked controller holds nothing back;
* `RestoresAreBounded`: the types, and one restore more than signals at most, because
  `__exit__` unregisters the atexit hook and the hook leaves no snapshot behind
  (`CountInv`).

The invariant is `RInv`. `FrameInv` is its heart: of the restore on top of the stack, each
file has its target or is still to be written (`Covered`), and cpufreq will accept the
write that comes next (`Ready`); `BoundsTogether`, part of the type of a frame, keeps the
two bounds next to each other, so that the first cannot be undone before the second.
`PathInv` says that the snapshot lasts until the first restore has ended and that the
program is on its way out after it; `ExitInv` that a program which ends without a
restore was not to restore; `HeldInv` that before the first restore a cpuidle state differs
from its original only while the controller holds it, and `SavedInv` that what it holds
are originals, so that the release *after* a restore, on the way through the inner
`__exit__`, writes what is there already (`SettledNext`). `InterruptedInv` says what Ctrl-C leaves of
a restore: the snapshot it was made from, or a mixture (`Between`) of original values and
defaults. All but the types assume
`Calm`: no failed write, no handler that lets the program go on. `RInv` was checked on
the instance of run `rollback_session` first.

`DaemonProofs`, for every set of client threads and any number of requests and
signals:

* `ExitLeavesNoChanges`: the restoration `README.md:60` promises, with its exceptions;
* `LockedIsBoosted` and `PausedIsQuiet`: what the status says is so.

`RoleInv` gives each thread the steps it may be at and the mutex to the thread whose
step holds it. `QuietInv` assumes only that no START met a live daemon. The other two
assume that no race has happened: `StateInv` relates `_state` and
`_is_locked_boost` to the steps of *all* threads, in particular that one thread at most
is in the part of `stop()` behind the lock; `MachineInv` says for each step of `start()`,
`stop()` and the rollback what of the machine has been changed or given back, and which
values the snapshot holds. `RacesGrow` lets each step assume that there was no race
before it either.

The second half of `DaemonProofs` is about `StartupTransaction`, for any number of
policies and cpuidle states, any limits, targets and machines:

* `ExecutorImplemented`: `StartupTransaction` implements `PolicyTransaction`, so all of
  the above holds of the plans the daemon really builds;
* `ReleaseHolds`: without the boost there is no latency request and every cpuidle state
  is back, through any series of LOCK, failed LOCK, UNLOCK and RECONFIGURE;
* `MinimumHolds`: no minimum leaves its limits; `StartupTypes`.

The invariant is `SInv`. `PlanningInv` says of the plan under construction that it is
`Sound`, i.e. names each file once and carries the value read, and that its files belong
to policies and nodes the loops have passed; this is what lets the next turn append
without a repetition, and the reason why planning is a loop in the model and not a
fold, about whose value nothing could be proved by steps. `ConcatSound` joins two
sound lists for different files, and `LimitActionsSound` and `ControlActionsSound` show
it of one policy, shared boost file or not. `RunInv` is the executor's promise as the
daemon needs it: a file is as before, or reported, or belongs to an action still to be
undone. `ReleaseInv` relates what UNLOCK will write to the values before the daemon.
`TargetInside` is the arithmetic of `_effective_policy_target` (`sysfs.py:548-569`), with
unknown limits.

`InstancesProofs`, for every number of processes, starts and kills: `OneDaemonHolds`,
`OriginalsAreRecoverable`, `QuietIsRestored`, `RunningKeepsItsSocket`,
`RunningStaysBoosted`. `FileInv` is about the PID file: a step either has it open or has not,
and a descriptor is of the inode behind the path as long as none was unlinked under
its owner; that gives `ActiveAlone` and `ChangingAlone`, on which the other parts rest.
`RecoverInv` and `CleanInv` say where the original values are under the two sets of
events in which they must not be lost, `ServerInv` and `BoostInv` are the socket and the
boost of a daemon that runs.

`PulseEngineProofs`, for any number of CPUs, of runs and of threads that call `stop()`:
`NotRunningIsQuiet` and `ControllerIsAlone`. `CallInv` is about the position of each
call of `stop()`; `QuietInv` adds that only workers of the last run can still be at work,
and that a `stop()` has told all of them below the one it has come to; `ControllerInv`
that the event is set while the engine runs only by somebody who stops it.

`SnapshotRestoreProofs`, for any policies, sharing of boost files, frequencies and
hotplug events: `UnreportedIsRestored`, `CrashIsRecoverable` and the action property
`OrderIsAccepted`. `SnapInv` says that every snapshot, in memory, on disk or chosen by a
restore, holds original values; `TodoInv` and `ProgressInv` that a captured file is
still to come, reported or restored; `OrderInv` that what was seen at discovery is
still true of the bounds of a policy whose turn has not begun, and that the bound
written first has its value when the second is written. `TurnAccepted` is the case
analysis on the two orders.

Model-checked only:

* liveness (`HeatSuspends`, `StopReturns`, `SignalStopsUnlessRace`, `StopEventEnds`,
  `DutySettles`, `CallReturns`), out of the prover's reach;
* `TypeOK` of `ThermalGuard`, `Tuning` and `IPCSession`, whose theorems need less.

## 5. Known disagreements

Where a document, a comment or a test of the repository says something the code
does not do. `thermal_throttle` has a run. Each of the others is named in a
definition that is not an invariant, or in the proviso of one that is, and TLC
shows it when that definition is added to the configuration or the proviso is
removed.

* The guard's trip and recovery callbacks never take effect: it calls them without
  the reading they require and logs the TypeError (`thermal.py:493, 505` against
  `daemon.py:886, 899`). `TripThrottlesDaemon`.
* A STOP request is executed by a daemon thread that wakes the main thread first;
  the process may end before anything is restored, against `README.md:60`
  (`daemon.py:569-575, 329-334`). `ExitRestoresAfterStop`.
* A LOCK between stop()'s release of the lock and its restore applies the boost
  again, and the exit leaves it (`daemon.py:334-360, 395-404`).
  `ExitRestoresDespiteLock`.
* A signal during start() is lost: start() publishes RUNNING after the handler's
  stop(), and clears the stop event (`daemon.py:301-305`); a signal while the main
  thread holds the lock blocks it for ever (`daemon.py:210, 329, 945`). `SignalStops`.
* A start() refused by the PID lock restores without a snapshot of its own
  (`daemon.py:320-322`): the running daemon's file, or the defaults of
  `restore_fallback` (`state.py:346-348`), and unlinks the PID file it could not lock.
  `ExitRestores` of `DaemonLifecycle`; event `refused` and `orphan` in `Instances`. A
  start that breaks off later, but before its snapshot, restores in the same way
  although it has changed nothing: event `unplanned`.
* A lower target after a higher one is clamped up to the daemon's own minimum
  (`sysfs.py:553` against `README.md:54`). `TargetReached`.
* A latency device that exists and cannot be opened fails the startup instead of
  being skipped (`pm_qos.py:199` against `README.md:58`). `RunsWithoutPMQoS`.
* `boostlock start --max-temp 90`, the example of `README.md:37`, is refused: the
  option sets the limit alone and the warning threshold's default is 90 as well
  (`cli.py:129-130`, `config.py:78-80`). One start of run `tuning` is this one.
* After a failed transaction the error blames the wrong action: the compensation
  loop uses the name `action` again, which the message then formats
  (`sysfs.py:522, 528`). `culprit` in `PolicyTransaction` follows the code.
* `state.py:203` promises foolproof recovery; the signal handler restores, drops the
  snapshot and raises SystemExit inside the with statement, whose `__exit__` restores
  once more, now the defaults (`state.py:688-696, 722-731`). With a previous handler
  the program goes on and what it changes afterwards stays. The provisos of
  `ExitRestores` in `RollbackSession`.
* Ctrl-C is one of the signals the manager intercepts (`state.py:653`), but not while
  `__exit__` restores: the previous handlers are back by then (`state.py:672-675,
  728-731`), `default_int_handler` raises KeyboardInterrupt, which the restore's
  `except Exception` does not hold up, and the process exits half restored, without an
  atexit hook that would go on. A signal that kills does the same. The snapshot file
  still has the originals, so `boostlock restore` can finish it; a half-written set of
  defaults has no file any more. The place `interrupted` in `ExitRestores` of
  `RollbackSession`.
* A standalone cpuidle fallback that fails half-way gives nothing back
  (`pm_qos.py:278-284`). The proviso of `LatencyGivenBack`.
* RECONFIGURE changes the limits of the duty controller and not those of the
  waveform (`engine.py:896-916`): a larger minimum at the start keeps duties up, and
  waveforms other than the square one still reach the old maximum. The provisos of
  `PulseWithinMaximum`.
* Two RECONFIGURE requests that merge into the same configuration lose one of the
  updates (`daemon.py:417, 423`). `overlapped` in `Tuning`.
* The load that makes the duty controller yield counts the pulses of its own workers
  (`engine.py:187`). `Tuning` lets the controller yield at any time.

## 6. Plan

Done: every module above. Next, the most important first:

1. `ThermalGuard`: each read of a threshold as a step of its own (`thermal.py:518`).
2. A refinement from `Instances` to a lock whose owners may die.

## 7. Not modelled

RAPL, sensor and hardware discovery (`hardware.py`), the statistics of the benchmark,
status, metrics and audit counters: reads without effect on the state above.
Argument parsing, printing and service installation in `cli.py`; the double fork of
`daemonize`. Of the engine: round-robin targeting, the per-policy thermal clamps
(only tests set them), and the reuse of a duty state after a policy got another
identifier. EPB appears in `README.md` of the repository but is never planned by the
code (`sysfs.py:432`), so no model writes it.

# TLA+ models of the CoCalc self-host connector

The connector (`src/src/packages/cloud/self-host/go/main.go`, one Go file)
runs on a user's machine. It pairs with a CoCalc control plane, then
loops: it fetches one command over HTTP, carries it out with the
`multipass` VM tool, and acknowledges the result. It records which
instance belongs to which host id in `state.json`. This directory holds
TLA+ models of that program, the TLC configurations that check them, and
`PROJECT.json`, the machine-readable index (components, runs, mutants,
line map, findings, hazards).

## 1. Inventory

| Part | Code | State | Operations |
|---|---|---|---|
| Control-loop scheduler | `runLoop` 440-488 | baseInterval, fastInterval, boostUntil | pick interval, pollOnce, reset boost on command/error, sleep |
| Poll cycle | `pollOnce` 393-438 | none (in-memory `State` passed in) | GET /next, 204 idle, execute, POST /ack (failure only logged) |
| Dispatcher | `executeCommand` 490-507 | none | switch on action, unknown is an error |
| Handlers | `handleCreate` 509-609, `handleStart` 611-630, `handleStop` 632-651, `handleDelete` 653-669, `handleStatus` 671-693, `handleResize` 695-763 | `State.Instances`, the multipass instances | info, launch/start/stop/delete/purge/set/exec, saveState |
| Hypervisor gateway | `runMultipass` 765-786, `multipassInfo` 794-828 | the instances (external) | one invocation, exit code; info normalised, failure reads as absent |
| State store | `loadState`/`readJSON` 327-348, `saveState`/`saveJSON` 335-362 | `state.json` | read (missing/corrupt reads as empty), in-place rewrite, `fail()` on error |
| Cloud-init packager | `createCloudInitPaths` 869-884, `wrapCloudInitScript` 838-860, `cleanupCloudInit` 886-903 | scratch directory | write the file, remove it after a successful launch |
| Daemon supervisor | `startDaemon` 241-288, `stopDaemon` 290-317, `parsePID`, `processAlive` | `daemon.pid` | check pid, spawn, SIGTERM, 200ms wait |
| Size helpers | `toInt`, `toString`, `toNumberString`, `formatSize`, `parseSizeGB` 941-1029 | none | payload coercion |
| Pairing client | `runPair` 107-174 | `config.json` | existing-config check, POST /pair, saveJSON |
| CLI entry | `main` 70-99, `runLoopCmd` 176-193 | none | dispatch; a spawned loop's start-up check of the config |
| HTTP, paths, logging | `httpRequest`, `configPath`, `logLine`, `shellEscape` | none | I/O and formatting |

How they interact. One loop process owns an in-memory copy of `State`,
loaded once at startup. Every mutating handler rewrites the whole file
from that copy. The control plane keeps each command until it is acked,
so a command whose ack is lost is handed out again. Multipass is shared
with the rest of the machine: the guest can shut itself down, and the
operator can delete instances by hand. Nothing stops two agent processes
(`run --daemon` and `once`, or a foreground `run`) from using the same
`state.json`.

What makes it hard: crashes between a multipass call and the save that
records it; torn in-place writes; lost acks and redelivery; calls that
fail after acting; stale names in `State`; resize's five-step sequence
without rollback; the boost window's timing.

## 2. Modules

* `Gateway.tla`: multipass as pure operators over an instance table
  `Names -> {Running, Stopped, Deleted, Absent}`.
  * `Effect` is multipass's own rules. It is external to this repository,
    so it is modelled from the spec (`spec_modelled`).
  * `RunMultipass` adds two failure modes: a transient failure, and
    (`LaunchFailsLate`) a launch that fails after creating the instance.
  * `MultipassInfo` may read an existing instance as absent when
    `InfoCanFail` is set.
* `Sizes.tla`: the coercion helpers `toInt`, `toString` (`ToStr`, since
  TLC has a `ToString`), `toNumberString`, `formatSize` and `parseSizeGB`
  as operators over the values `encoding/json` decodes a field into. A
  value is a tagged record: a number (float64, kept in tenths), a string
  (numeric part and unit suffix, e.g. `Str(200, "GiB")` for "20GiB"), or
  nil. `toInt`'s lower-casing and `gb`/`g` suffix trimming work on the
  suffix.
* `Resize.tla`: `ResizeRequest` is handleResize's coercion of the payload
  (lines 708-713): the settings whose value formats non-empty, and the
  grow size. A missing key reads as nil. Then the invocation sequence
  (`ResizeCalls`). `RunCalls` is a RECURSIVE operator that runs the
  sequence and stops at the first non-zero exit, as every step's
  `return nil, err` does.
* `Agent.tla`: the poll cycle, the dispatcher, all six handlers, and the
  state store.
  * `mem[p]` is process p's in-memory `State`. `file` is `state.json`,
    which may be the model value `Corrupt`.
  * `pending` is the control plane's queue. It comes from spec section 6
    (`Issue` is `spec_modelled`).
  * One `Dispatch` step is one whole handler, including its `saveState`.
    A crash inside `SaveState` is the only place a handler can be cut
    short, because everything before the save only calls multipass.
  * `Ack` is delivered or lost. `Crash` / `Restart` kill the process and
    reload `file`.
  * `OutOfBand` is the environment changing an instance (guest shutdown,
    manual delete).
  * History variables `seen` and `launchedFor` record what was observed
    and which host a launch was for.
  * A payload's size fields are a key into the constant `Bodies`, and
    `Request` is what handleResize makes of each body. Keeping the JSON
    values out of the state keeps the liveness check fast.
  * `MC_Agent.tla` gives the model values and three payload sets:
    * `HostPayloads`: every action addressed by host id, create with
      cloud-init, and three resize bodies: `cpus: 2`; `cpus: 2, disk_gb:
      30` (a grow); `memory: "4G", disk: "20GiB"` (a disk setting toInt
      cannot read, so no grow).
    * `NamedPayloads`: create naming another host's instance.
    * `UntrackedPayloads`: commands for hosts not yet created.
* `Supervisor.tla`: the abstract daemon supervisor of spec 4.6. It has a
  count of background loops (at most one) and one answer per command-line
  invocation.
  * A start spawns only when no loop runs.
  * `already_running` is allowed only while one runs.
  * `not_running`, `invalid_pid` and `stopped` are allowed only while none
    runs.
  * Errors may come at any time.
* `Daemon.tla`: `startDaemon` / `stopDaemon` and `runPair`, one step per
  file or process call, dispatched by `main` (`Cli`).
  * State: `daemon.pid` (`NoFile`, `Empty` for a truncated file, or a
    pid), the process table (free / starting / loop / other / gone),
    pending SIGTERMs, whether `config.json` holds credentials (`paired`),
    and a program counter per invocation.
  * `PairCheck`, `PairRequest`, `PairSave` are runPair: an existing
    config without `--replace` is refused; the control plane answers with
    credentials, rejects the token, or the request or decode fails (each
    a `fail()` with nothing written); then the config is saved.
  * `StartSpawn` makes a "starting" child. `LoopStart` is its
    `runLoopCmd`: with credentials it becomes the loop, without them
    runLoop `fail()`s and it exits, leaving daemon.pid naming a dead pid.
  * `processAlive` is `Alive`: any live process, ours or not.
  * `ProcExit` ends a process: on SIGTERM, or on its own (`fail()`).
  * `Init` is a config directory an earlier run could leave behind: no
    pid file, a truncated one, or a stale pid.
  * Three fault switches: `Concurrent` (invocations overlap), `PidReuse`
    (an exited pid is taken by another program), and `PidWriteFails`.
  * `Abstract == INSTANCE Supervisor WITH Clis <- (the start and stop
    invocations), loops <- (number of starting or running daemons),
    spawned <- ...` is the refinement mapping. `SupervisorRefined` is
    `Abstract!Spec`; pair steps are stuttering steps of it.
  * `MC_Daemon.tla` has 3 pids, 2 starts, 2 stops, a `pair` and a
    `pair --replace`, in any order. Three pids are enough: one stale pid
    from `Init` and one per start.
* `ControlLoop.tla`: `runLoop`'s interval choice.
  * Time is kept as `boostLeft` = max(boostUntil − now, 0), clipped to the
    60s window, so no clock variable is needed.
  * One step is one iteration. pollOnce takes a duration from
    `Durations` and ends with no command, a command, or an error.
  * `quiet`/`startQuiet` are history variables: the seconds since the
    last activity ended.
  * `MC_ControlLoop.tla` supplies configured intervals, including
    negative and zero values.

Fairness.
* Agent: none, and only safety is checked. The HTTP calls time out
  (20s), but `runMultipass` runs `exec.Command` with no timeout
  (line 772): a hung multipass call blocks the handler, the ack and the
  loop forever, so the code guarantees no handler step. `Crash`,
  `Restart`, `Issue` and `OutOfBand` are environment actions.
* ControlLoop: weak fairness on `Iteration`. `ReturnsToBase` is about
  which interval the loop sleeps while it keeps iterating; a hung poll
  would stop the loop altogether, which is the Agent hazard above.
* Daemon: weak fairness on each invocation's steps (its only wait is the
  200ms sleep), on a spawned child reaching its start-up check, and on
  the exit of a signalled process (Go's default SIGTERM action terminates
  the process). Running loops that are not signalled may run forever.

## 3. Runs

Bounds. `Agent.cfg` uses:
* hosts {h1,h2} and instance names {n1,n2};
* 3 commands, 1 crash, 1 lost ack and 1 out-of-band change.

These bounds suffice for create → crash → redelivery → adopt, for
create → delete → start, and for resize after an external stop. The run
covers about 308k distinct states in about 10s. The violation runs
switch on a single failure mode each.

| Run | Checks | Result |
|---|---|---|
| `agent` (Agent.cfg) | `TypeOK`; `TrackedWasObserved` (every tracked name was launched or observed, spec 3); `LaunchedInstancesRecoverable` (an instance launched for h, until deleted, is tracked under h in state.json or a create for it is still pending); `AbsentIsNotFound` (start/stop/status/resize of an absent named instance answer not_found); `ResizeKeepsRunState` (a successful resize leaves the run state as it found it); `GrowAfterDiskSet` (every in-guest grow follows a `set` of the disk in the same resize; the two come from different helpers, formatSize and parseSizeGB); `CreateIdempotent` (a create of a live tracked instance answers its state and launches nothing, spec 8) | pass |
| `torn_write` (AgentTorn.cfg) | `LaunchedInstancesRecoverable` with torn writes | violated: saveJSON is not atomic (spec 4.5) |
| `late_launch` (AgentLateLaunch.cfg) | same, launch may fail after creating | violated: instance acked as an error, never tracked |
| `two_procs` (AgentTwoProcs.cfg) | same, two processes | violated: whole-file rewrites from stale copies lose entries |
| `delete_exit_codes` (AgentDelete.cfg) | `DeleteReportsGone` | violated: exit codes of delete/purge ignored (line 662) |
| `info_flake` (AgentInfoFlake.cfg) | `CreateIdempotent` with a flaky `multipass info` | violated: a create whose ack was lost is redelivered, info fails once, and the agent launches again and acks an error |
| `untracked_start` (AgentUntracked.cfg) | `UntrackedIsNotFound` (start/stop/status/resize of a host State does not know answer not_found; delete does not answer an error) | violated: untracked host gives an error (spec 8 says not_found), and a delete redelivered after its lost ack errors too (line 660) |
| `shared_instance` (AgentShared.cfg) | `NoSharedInstance` | violated: create adopts another host's instance by name; status with an explicit name rebinds the host the same way (line 684) |
| `daemon` (Daemon.cfg) | `TypeOK`, `OrphanFree` (between invocations every spawned daemon, starting or running, is the one daemon.pid names), `SupervisorRefined` | pass. Covers sequential start, stop, pair and re-pair invocations, stale and truncated pid files, a child that exits at start-up for want of credentials, loops dying on their own, and loops slower than the 200ms grace; 703k states in about 1 min |
| `daemon_pid_reuse` (DaemonPidReuse.cfg) | `SupervisorRefined` with pid reuse | violated: a stale pid held by another program makes start answer AlreadyRunning with no daemon; stop would SIGTERM that program |
| `control_loop` (ControlLoop.cfg) | `TypeOK` (with runLoop's fallback for a zero or negative configured interval), `BoostWindowHonoured`, `ReturnsToBase` | pass: configured intervals {-1,0,2,10,30}, pollOnce durations {0,4,70}s |
| `boost_after_command` (ControlLoopAfterCommand.cfg) | `FastAfterCommand` | violated: the interval is picked before pollOnce, so the sleep after a command from idle is the base one (spec 8) |

Every property of a passing run has a mutant in `PROJECT.json`: a
plausible bug in the mapped code (a dropped info check, a save on a
failed launch, a stop after grow...) that TLC catches.

## 4. Not modelled, and the plan

* **Daemon faults without a run of their own.**
  * Setting `PidWriteFails` breaks `SupervisorRefined`: the loop runs,
    the pid write fails, and `stop` answers not_running.
  * Setting `Concurrent` breaks it too. TLC's first trace is a stop that
    overlaps a start and answers not_running after the spawn. Two
    overlapping starts can also both pass the check at 249-257, and a
    start's `os.Remove` at 256 can delete a fresh pid.
  * Both were found by setting the constant in a copy of Daemon.cfg. The
    run budget of the project is spent, so they are listed as hazards.
* **Write-only fields.** start/stop/resize never refresh `last_state`,
  and status drops `image` and `created_at` when it rewrites an entry
  (line 685), against spec 3 and 8. The connector never reads these
  fields back, so no behaviour of the model depends on them. They are
  left out, and a unit test of one handler shows the divergence.
* **Resize refinement.** Make resize step-wise (one multipass call per
  step, interleaved with out-of-band changes) and show it refines the
  atomic `HandleResize`. Add a property about partial failure (spec 5).
* **Cloud-init packager.** `wrapCloudInitScript`/`indentBlock` as
  operators checked against a reference. The scratch directory bound.
* **Size helpers (numeric edge).** The helpers are modelled (`Sizes`), and
  `GrowAfterDiskSet` checks that they agree on which values mean a disk
  change. They disagree on units, and stating that needs multipass's own
  size parser, which is not in this repository:
  * disk "20GiB" is set and never grown;
  * disk_gb 0.5 is set ("0.5G") and floors to no grow;
  * disk_gb "20GiB" with disk 30 sets 20GiB and grows to 30;
  * a bare string "20" is passed to multipass, which reads it as bytes.
  `toStringSlice` only feeds the ipv4 list, which is left out. create's
  use of the helpers (launch arguments) does not change the model.
* **Cloud-init directory race.** `cleanupCloudInit` removes the shared
  base directory when it is empty, and may do so between another
  process's `os.MkdirAll` and its `WriteFile` (line 592). The race sits
  inside one handler, which the model takes as one step.
* **Re-pairing a running daemon.** The loop reads `config.json` once
  (line 188), so `pair --replace` does not reach a running daemon until
  it is restarted. `paired` records only whether credentials exist, and
  the spec states no property about which ones a running loop uses.
* **Eventual acknowledgement.** No property says every command is
  eventually acked: nothing in the code bounds a multipass call, so
  such a property would rest on fairness the code does not give.
* **Out of reach.** Path plumbing (`configPath`, `statePathFromConfig`,
  `userHomeDir`), help and version output, HTTP transport and logging:
  I/O and formatting with no state a property could distinguish. The
  pair request body (name, version, platform) is left out for the same
  reason.

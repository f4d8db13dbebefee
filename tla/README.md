# Sympheo in TLA+

Sympheo is a daemon that watches a GitHub Projects board and keeps one coding
agent at work on every issue in an *active* column. This directory specifies
what it does, checks the specification with TLC on small instances, and proves
what matters most for every instance with TLAPS. Paths are relative to the
repository (`src/orchestrator/tick.rs` and so on); `MaxConcurrent` and the
like are constants of the modules.

Contents: [the system](#the-system) · [the modules](#the-modules) ·
[runs](#the-runs) · [fairness](#fairness) · [proofs](#the-proofs) ·
[where the code differs](#where-the-code-differs) ·
[what is not modelled](#what-is-not-modelled) · [plan](#plan)

## The system

One Tokio process. Its tasks are: one **main task** that runs `tick()` and then
`process_retries()` for ever, woken by a timer or by the refresh endpoint; one
**worker task** per agent, spawned by either of these; the **HTTP handlers**;
a **signal handler**, a **workflow watcher** and, if the startup cleanup
failed, a **background cleanup**. They share `OrchestratorState` behind one
`RwLock`, the process registry behind a mutex, the configuration behind another
`RwLock`, the file system, and the board, which people and agents edit.

| Component | State it keeps | Operations | Talks to | Hard because | Correct when |
|---|---|---|---|---|---|
| Scheduler (`orchestrator/{tick,state,retry}.rs`) | `running`, `claimed`, `retry_attempts`, tallies | `tick` (stall detection, reconcile, dispatch), `process_retries`, `handle_worker_exit`, `spawn_worker`'s wrapper, `reload_config` | tracker (awaits), workers (flag, lock), workspaces | every decision is taken under a lock that is given up at each await; three copies of the exit logic; two dispatch paths | no claim leaks; one worker per issue; caps hold; every retry is served; a closed issue is let go |
| Worker run (`run_worker`, `tick.rs`) | locals `issue`, `turn_number`; in the shared entry `stagnation_counter`, `turn_count`, session, tokens | prepare, turn loop, refresh, teardown | workspace, git, backend, tracker | its entry may be removed or replaced while it runs; two budgets and a guardrail in separate `break`s | it ends; budgets and guardrail hold; the phase is that of the current column; the agent gets a complete workspace |
| Operator endpoints (`server/mod.rs`) | none | cancel, delete a retry, refresh; the page, its fragments, the JSON | scheduler's state | they act, and look, between any two steps of the main task | nothing is released before its worker is gone; every claim is shown once |
| Workspaces (`workspace/*.rs`, `git/*.rs`) | directories `<root>/<identifier>`, a clone in each | `create_or_reuse`, `run_hook`, `remove_workspace`, the isolated environment, reset and branch before a turn | git, shell | four callers delete; set-up can fail half-way; a reset throws commits away | deleted only once it is no longer used, or by the cleanup; the host's secrets stay with the host |
| Process registry (`agent/process_registry.rs`) | the PIDs of live children | register, guard drop, `terminate_all`, panic hook | OS | snapshot, grace period, then kill: children come and go meanwhile | no child outlives the daemon; no other process is killed |
| Local backend (`agent/backend/local.rs`) | one child per turn, its watchdog, its stderr reader, a prompt file | `run_turn` | OS, registry, event channel | a per-read and a total timeout, the flag polled once a second, pipes, two outputs | each turn ends, takes its process group with it, and is judged by what its agent said last |
| ACP backend (`agent/acp/*`, `agent/backend/acp.rs`) | a session reactor | prompt, cancel, permission requests | a JSON-RPC peer | late answers after a timeout; requests after a cancellation | an answer belongs to the prompt it is given for; a grant is one the mode allows |
| GitHub tracker (`tracker/*.rs`) | caches of the project's and the options' ids | reads, page by page; mutations with retries | GitHub | the board moves between two pages; retry of what took effect; stale ids | an answer misses nothing that stayed; success means done; every effect is accounted for by a request that failed |
| Start and main loop (`main.rs`) | interval, watcher | validation, startup cleanup and its repetition, loop, signals, reload | all of the above | cleanup concurrent with the scheduler; a file read while it is written | the cleanup takes a run's workspace only where the issue was moved or the directory's name invites it; the last edit is used; a run is stopped for a reason |
| Configuration and workflow file (`config/*`, `workflow/*`), CLI adapters (`agent/cli/*`) | versions of `WORKFLOW.md`: the runner's, the scheduler's, each run's | readers, casts, options and their merge, phases, command lines, event parser | | four versions of one file are combined in one turn | budgets are the written ones; a phase's options stay in it |

The hazards this produces are listed, each at its line and with the properties
that cover it, under `hazards` in `PROJECT.json`; `map` there says which lines
each definition stands for.

## The modules

| Module | Models |
|---|---|
| `Orchestrator` | the scheduler: every change to `running`, `claimed` and `retry_attempts`, the workers as the scheduler sees them, cancel and delete-retry, the existence of workspaces, the background cleanup |
| `StatusSurface` | what the page and the JSON show of it |
| `IssueClaims` | what the scheduler promises about one issue: free, running, queued, held; attempts; a global cap. No locks, no tasks, no stale answers. `Orchestrator` refines it |
| `WorkerLife` | what the scheduler relies on of one worker: set-up, turns, hook, removal, exit; a flag nobody takes back. `Orchestrator`'s tasks and `WorkerRun`'s runs both refine it |
| `WorkerRun`, `WorkTree` | the successive runs of one issue: `create_or_reuse`, the turn loop, the wrapper; the clone in the directory |
| `AgentTurn` | the turns of the local and the mock backend as a conversation: prompt file, lines, stderr, verdict |
| `Processes` | the same turns as process groups: watchdog, registry, shutdown, panic hook, numbers that are used again |
| `AcpSession` | a session of the ACP backend: caller, reactor, agent, permissions |
| `SessionUsage` | how an agent's events reach the shared session and the token totals |
| `Tracker` | the GitHub tracker's fetches and mutations, for several callers |
| `Service` | the daemon's life: start, sweep, crash, reload, and the columns that each version of the file makes active or terminal |
| `Settings` | what `WORKFLOW.md` becomes: numbers, options, phases, checks, environment, command lines |
| `OrchestratorProofs`, `WorkerRunProofs`, `AgentTurnProofs`, `AcpSessionProofs`, `SessionUsageProofs`, `TrackerProofs`, `ServiceProofs`, `SettingsProofs` | theorems about the module they are named for; `AgentTurnProofs` has those of `Processes` as well |
| `MCOrchestrator`, `MCWorkerRun`, `MCAcpSession`, `MCTracker`, `MCService`, `MCSettings` | values for the constants that a `.cfg` cannot write |

How they fit: `StatusSurface` extends `Orchestrator`, `WorkerRun` extends
`WorkTree`, and `Orchestrator` instantiates `IssueClaims`. `Orchestrator` and
`WorkerRun` meet in `WorkerLife`: the coarse workers of the one and the detailed
runs of the other both implement it, so that what the scheduler takes for granted
of a worker is what a run does. The others meet at
a boundary that one of them treats as its environment: a turn of `WorkerRun`
is `AgentTurn`, whose agent may end at any time because of `Processes`; the
fetches of `Orchestrator` may give any answer or none, which `Tracker` narrows
for issues that stay; its constant configuration is `Service`'s variable and
`Settings`' content. A product of all of them is out of TLC's reach.

### Orchestrator

*State.* `running[i]` is the worker task whose `RunningEntry` is filed under
issue `i`; `entryState` is that entry's `issue.state`; `retry[i]` is the
attempt of `retry_attempts[i]` (0: no entry) and `due` the entries whose
`due_at` has passed, so time is one bit per entry. `main` is the program
counter of the main task and `seen`, `work`, `snap`, `cur` its locals: the last
tracker answer, what is left of the loop it is in, the list
`process_retries` copied before its first await, the issue being handled. A
worker task is a slot of `Workers` with its `pc`, `job`, `attempt`, `result`
and the flag `cancelled` it shares with its entry. `workspace[i]` says that
the directory exists; `tracker[i]` is the board. `sweep` and `doomed` are the
place and the list of the background cleanup, a further task.

*Steps.* An action is what one task does under one acquisition of the state
lock, or one awaited call between two. Hence `Dispatch` is the insertion into
`claimed` and `running` together with `spawn_worker` (`tick.rs:113-152`, one
write lock), and the retry loop is `TakeRetry`, an awaited fetch that fails or
not, and one of `RetryInactive`, `RetryNoSlot`, `RetryDispatch`
(`tick.rs:418-488`), between which anything may happen. The stall kill is three
steps (`tick.rs:194-218`): entry to queue, backend cleanup, directory. The
cleanup (`main.rs:108-159`, repeated by `main.rs:171-186`) asks for the terminal
issues (`CleanupFetched`), removes the directory of each (`CleanupRemoves`), opens
the root (`CleanupLists`) and then takes directories in `SYMPHEO-`
(`CleanupRemovesPrefixed`); it takes no lock and looks at no entry, so all of
this comes between any two steps of the others. Whether the tracker finds an
orphan active is open: it is asked about the rest of the directory's name.

*What is abstracted.* Stall detection may pick any set of running issues: its
timestamps are not modelled. A worker is `starting`, in its `turns`, in
`afterRun`, `removing` or `exiting`; `WorkerRun` has the detail. Two branches
that log and continue do the same as one that succeeds. File-system calls
succeed. The configuration is constant (`Service` has the reload). There is no
`Restart`, again because `Service` has it: all state but
the directories is in memory, and `Init` starts from any board and any
directories, except, where the cleanup at startup succeeded (`CleanupFailed`
is false), those of terminal issues. `CleanupFailed` and `Prefixed`, the issues
whose directory has a name in `SYMPHEO-`, are constants.

*Calm and timely behaviours.* Two things the code does break what is otherwise
true of claims and workers, and each has a definition: `CopyIsDeleted`, an
operator's deletion of a retry of which `process_retries` already holds a copy, and
`WorkerIsDropped`, the first step of a stall kill, or a reconcile that drops an
entry for a limbo column. `TimelySpec` is `Spec` without the first, `CalmSpec`
without either. They leave out these steps and no others: stall detection may be
on, a limbo column may exist, and every behaviour of the program is one of
theirs up to the first such step.

*Limits that are constants.* `Workers` bounds the tasks alive at once, not the
runs; a worker that ends gives its slot back. Nothing else is bounded: attempts
stay within `MaxAttempts` by the code's own check. In runs where tasks may
outlive their entries the bound can stop a spawn that the program would make;
these runs state nothing about a spawn happening.

Every module also holds *seeded faults*: variants of an action or a helper with
a plausible mistake, placed before the original and used by nothing.
`PROJECT.json` pairs each with a property; with the variant in place of the
original, TLC finds that property violated, so the property does depend on the
code being as it is.

### StatusSurface

What the page, its six polled fragments and the JSON show, as functions of
the scheduler's state: each answer is rendered under one read lock.
`StatusIsFaithful` relates them to each other and to what goes on behind them.
While `process_retries` has an issue in its hands the issue is on no list at
all; the property says that this is the only such moment.

### IssueClaims

`phase[i]` and `tries[i]`. An error adds one attempt or ends the claim past
`MaxAttempts`; a normal end starts over at 1; one issue is *held* at a time;
starting needs a slot; the operator may withdraw what is queued (`Withdraw`).
`Orchestrator` maps `running`, `retry_attempts` and the
issue in the hands of `process_retries` to these phases (`PhaseOf`,
`AttemptOf`).

### WorkerLife

`stage[w]` is where a worker is, `outcome[w]` what it will report, `stopped[w]`
whether it has been told to stop. Its outcome is settled when its turns are over
(or its set-up has failed), `after_run` always runs unless the daemon goes, and the
directory is deleted exactly if the flag was set when that hook ended. Any set of workers may be told
to stop in one step, which is what a reconcile does. `MayCrash` says whether
the daemon may end: in `WorkerRun` it may, in `Orchestrator` not.

### WorkerRun

`pc` is the place in `run_worker` and its wrapper, `known` its `issue.state`,
`turn` is `turn_number`, `answer` what the last refresh said; `entry`,
`cancelled` and `stagnation` are the part of `OrchestratorState` a run shares.
`Stage` maps the places of `run_worker` to the stages of `WorkerLife`: the turn
loop with its refreshes is one of them, `turns`.
`dir` is `absent`, `empty` (made, not set up) or `ready`. `still` is a history
variable: the column has not changed and the entry has stayed since the run
began.

The rest of the scheduler is the environment: it starts a run when none is on
file, sets the flag, or drops the entry (with the flag for a limbo column,
without it for a stall kill). The daemon may be restarted at any point, and the
cleanup may take the directory at any point, in use or not (`Cleanup`). Two
*overlapping* runs of an issue are left to `Orchestrator` and `AgentTurn`. `stop_session` and `cleanup_workspace` do nothing in
any adapter of this commit and are left out.

`tree` is the clone as `WorkTree` has it: HEAD's place, whether the branch named
after the issue exists, and where the last commits are that have not been
pushed. `Synced` is the step before a turn (`tick.rs:711`): status, and on
changes a hard reset to the issue's branch if it has a name and to the remote's
default branch otherwise. Each git command may fail by itself, and each is
logged and passed over, as in the code. What a reset throws away, or what goes
with a clone that is deleted (`Deleted`), is `lost`. The clone decides nothing
about the run, and no property is about it: that commits survive does not hold
(below).

### Processes

`proc[p]` is what the system knows of group `p`: free, alive, or dead and not
yet reaped, which is the only time its number is safe. `at[r]` and `child[r]`
are the place and the child of run `r` in `run_turn` (`local.rs:120-401`); a run
is one worker, with one flag, and may have any number of turns. `watch` holds
the watchdog tasks that have not fired: a turn starts one and never ends it, so
they gather over the turns of a run. `registry` is the global map; a run has one
turn at a time, so the pair of run and number stands for the token. `down` and
`hit` are the signal handler and the snapshot it works from (`main.rs:207`,
`process_registry.rs:101`); after `process::exit` only the agents move. `hook`
is the snapshot of a panic's hook, which waits 500 ms and then kills by number
while the daemon goes on (`Panic`, `HookOver`): any task may panic at any time.

*Steps.* These tasks run on different threads and share no lock for longer than
one call, so every call is a step; between the spawn and the registration,
or the snapshot and the second kill, anything may happen. A turn has four ends:
its output ends (killed, waited for, judged), a read or the whole turn times
out (killed, not waited for), or it is killed by another and then sees the end of
its output. What the agent prints, including what its stderr reveals, is one
choice, `outcome`. A process that leaves its group is out of anyone's reach
in the code and not modelled; `SIGTERM` may or may not end a group.

### AgentTurn

The same turns as a conversation. A prompt is the number of its turn, and the
prompt file holds the last one written; an agent reads the file when it boots,
so two runs of an issue, which overlap after a stall kill, can exchange
prompts. `out` and `err` are the agent's two outputs, `Parse` what the adapter
of each CLI makes of a line, `success` the flag of the read loop, `slot` what
the reader of stderr has found first. `report` and `signal` are history
variables: what the agent meant last, and the first failure it told. The mock
backend plays a script in place of an agent. Lines are few and of few kinds:
the ends of a step, well or badly, in each CLI's spelling, and one line that
says nothing and may be written for ever.

### AcpSession

`client` is the caller's side (`start_session`, `run_turn`, `stop_session`),
`reactor` the thread, `child` the agent's process, `stream` the agent's
messages not yet read, `queue` the prompts not yet taken, `open` the prompts the
agent has not answered. `allowed` records each permission granted with the
prompt it was asked for. The timers of the reactor (`tool_progress_timeout`,
`cancel_grace`) may fire whenever no message has been taken, `turn_timeout` at
any time. The agent may stop a prompt for any reason or none, ask at any time,
dawdle, and die.

### SessionUsage

The events of a turn pass through a channel of `Cap` to a consumer task that
applies each under locks of its own; `ReadUsage` and `AddUsage` are the two
lock acquisitions of one usage event (`tick.rs:541`, `tick.rs:562`). `step` is
the agent's, `usage` what the backend keeps of the last finished step for the
fallback (`tick.rs:815`). `surplus` is tokens counted less tokens spent, `tally`
what was counted for a run, and `astray` records that an event met an entry
that was not its run's: then nothing is claimed.

### Tracker

A call is a sequence of requests, and between any two of them the board moves:
`place` is an item's position, `column` its status, `name` the name of an option.
A fetch reads pages of `PageSize` behind a cursor (`github.rs:159`); a mutation
looks up the project's and an option's id, which are kept for all callers, and
sends its request until GitHub answers (`mutations.rs:249`): refused, lost,
limited or failed, with or without having taken effect. The wait for a limit is
decided by the headers of any answer that is no success (`mutations.rs:286`), so
`SendLimited` is also the answer to the last request allowed, a server error for
instance, which may have taken effect: it is repeated and not counted. The
history variable `exhausted[c]` counts these, and `MaxExhausted` bounds them over
the calls at once, as nothing in the code does. `all[c]` says how often
the list read so far holds an item: the order of a fetch's answer decides
nothing, as the scheduler sorts its candidates (`tick.rs:105`).

### Service

The start with its checks, the sweep and its repetition, the watcher, a crash
and a new start, an operator's cancel, a tick's two readings of the
configuration. A version of the file is what it says: a kind (it passes
validation, parses without passing, or does not parse) and the columns it calls
active and terminal, which every part reads from the version it has: the runner,
the tracker and the sweep from `boot`, the scheduler from `config`, a tick in
progress from `tickConfig`. `root` says that the workspace root exists: without
it the sweep fails at `read_dir`, after it has removed what was terminal.
`SweepOrphan` is the loop over the directories in `SYMPHEO-`. `dropped` is a history
variable: runs that have met a configuration, at their start or by a reload,
that takes their column for none to work in; `moved` and `ordered` are the runs
whose issue was moved or which were cancelled, `reopened` the issues moved
since the sweep asked. `MaxTroubles` bounds moves, cancels and failures of the
sweep together; crashes are not bounded.

### Settings

A file is a record of raw values, each a type and its content, and every
accessor is written as in `typed.rs`: what it takes for absent, what it clamps,
in which order it casts. A `u32` has `Bits` bits. The arguments that are passed on
are a set, since no property depends on their order; phases keep theirs, as the first one for a
column is the one that counts. On top of these are the
validation and the constructors that run after it, the isolated environment,
the merge of options, and the command line of each adapter as a record of what
it asks the CLI for. `boot` is the file the runner keeps for good, `config` the
scheduler's, `run.limits` and `run.config` the two a run has read.

## The runs

`tlc -config X.cfg M.tla`, with the module `M` given in `PROJECT.json`.

| Run | Question | Instance | Distinct states |
|---|---|---|---|
| `workers` (`OrchestratorWorkers.cfg`) | Is the live worker of an issue the one on file and alone, and who takes its directory? | 2 issues, the second blocked by the first and with a directory in `SYMPHEO-`; cap 2, 2 worker slots, 1 attempt; operator cancels, a background cleanup, one issue that may leave the board | 2,541,876 |
| `slots` (`OrchestratorSlots.cfg`) | With more work than slots, do claims, queue and cap add up, does the page say so, and is this the life cycle of `IssueClaims`? | 2 issues, cap 1, 2 worker slots; cancels, deletions, stall detection; `CalmSpec` | 173,736 |
| `progress` (`OrchestratorProgress.cfg`) | When workers outlive their entries, is every entry removed, a closed issue released for good, every retry served, and every worker's life that of `WorkerLife`? | 1 issue, cap 1, 2 worker slots; stalls, a limbo column, retries deleted; fairness | 331,504 |
| `stalled_worker` (`StalledWorker.cfg`) | Is a worker that is given up told to stop? No: [below](#where-the-code-differs) | 2 issues, cap 2; stalls | counterexample |
| `worker_turns` (`WorkerTurns.cfg`) | Do budgets, guardrail and phase hold in every run, does every run end, and is its life that of `WorkerLife`? | 4 columns, 5 turns, a budget of 2 in one column; fairness | 435,877 |
| `process_turns` (`ProcessTurns.cfg`) | Does every turn take its agent with it, is the registry exact, does a cancellation reach the agent? | 2 runs of any number of turns, 2 process numbers, cancels, panics, a shutdown; fairness | 928,676 |
| `agent_turns` (`AgentTurns.cfg`) | Is the verdict the agent's, does it get its prompt, does every turn end? | 4 CLIs, 2 runs, 2 turns, 2 lines besides idle ones, 3 kinds of complaint; fairness | 638,385 |
| `acp_turns` (`AcpTurns.cfg`) | Whose answer does a turn get, what may an agent do after a cancellation, does every turn return? | 2 turns, 2 requests, 2 modes; fairness | 725,208 |
| `session_usage` (`SessionUsage.cfg`) | Is every token counted once, for its own run? | 2 runs, 2 turns, 1 step, 2 tokens, a channel of 1 | 345,032 |
| `tracker_calls` (`TrackerCalls.cfg`) | Is an answer right, a success done, does every call return? | 2 callers, 3 items on pages of 1, 1 option and 2 names, 2 calls, 1 edit, 1 retry, 1 uncounted repetition with effect; fairness | 422,904 |
| `service_life` (`ServiceLife.cfg`) | What does the sweep delete, what stops a run, what becomes of an edit? | 1 issue in `SYMPHEO-`, 2 columns, files with one of them active, terminal or neither, 2 runs, 2 edits, 1 trouble, crashes; fairness | 670,919 |
| `settings` (`Settings.cfg`) | Which budget, options and environment does an agent get? | 2 edits of a file of 15 keys, a `u32` of 5 bits | 702,772 |

*Why these bounds.* Issues interact only through the cap, through `tick`'s and
`process_retries`' loops and through blocking: two issues and one slot make
them compete, two with a slot each let both loops dispatch in any order. An
issue meets at most one other worker of its own before a property on pairs
breaks, so two worker slots show it. In `workers` the two slots are as many as
the cap: a second worker of one issue takes the slot the other issue leaves free.
`MaxAttempts` of 2 distinguishes a first attempt, a retry and the end of the
budget; `workers` has 1, a first attempt and the end, and only its first issue
(on which the second waits) may be taken off the board (`Removable`), as the
cleanup needs the room; in the other runs every issue may. In `worker_turns` five turns exceed the guardrail (3), which exceeds the
smaller column budget (2), so that each of the three stops a run in some
behaviour. In `process_turns` two numbers for two runs are few enough that a
number is soon used again by another run, or by the same run with an old
watchdog on it. Two turns let the first leave something for the second, in
`agent_turns`, `acp_turns` and `session_usage`; two runs let one meet the
other's entry or file. Pages of one item make the most boundaries, and three
items let one move over another behind the cursor. Two edits are one before
the start and one under a run, or one that is broken and one that mends it.
The worker slots are interchangeable and nothing compares them: `SYMMETRY` is
used where only safety is checked.

What the properties mean:

- `ClaimsAccounted`: an issue is claimed exactly while it has an entry, waits
  in the queue, or is in the hands of `process_retries`. A path that forgets to
  release would lose the issue for ever, silently, and there are many.
- `StatusIsFaithful`: an operator finds every claim in one place, sees no more
  running than allowed, and has no button that kills nothing.
- `LiveWithinCap`: the cap bounds agents and not only entries, unless a worker
  is dropped.
- `OneWorkerPerIssue`, `WorkspaceInUseIsKept`: the wrapper's exit removes
  *whatever* entry is on file for its issue (`tick.rs:332`); that is right only
  if it is its own. And no task may delete the directory before `after_run` has
  used it: the worker and reconcile do not, and what the background cleanup
  takes, which waits for nobody, is only what was terminal when it asked or has
  a name in `SYMPHEO-`.
- `EntriesInv`: with types (attempts within their budget) and cap, that an
  entry has a live worker (`EntryHasLiveWorker`): an entry is only ever removed by its worker (reconcile
  merely signals a terminal one), so one without a live worker holds its slot
  for ever. It survives even dropped workers: an early exit of an old worker
  removes the new worker's entry, never leaves one behind.
- `ImplementsWorkerLife`: in `Orchestrator`, that a flag once set stays set and is
  the flag of that worker and not of the next in its place, although reconcile,
  cancel and exit all touch it; in `WorkerRun`, that every one of the many ways out of
  `run_worker` goes through `after_run`, and that only a run that was told to
  stop deletes its directory.
- `StagnantRunIsShort`, `BudgetsInv` (`StateBudgetKept`), `PhaseIsCurrent`, `RunEnds`: the turn
  loop. The guardrail's counter is in the entry that others replace and drop;
  an issue no longer listed skips guardrail and column budget both, and only
  `max_turns` ends such a run.
- `AgentsAreOwned`: an agent is killed before its turn lets go of it, on every
  path; the wait for it may be given up, the kill may not. `RegistryIsCurrent`:
  what the shutdown iterates is neither stale nor incomplete, apart from the
  one step between spawn and registration. `CancelEndsRun`: a flag set at any
  point, before the watchdog exists or between two turns, ends the run although
  a turn may last hours.
- `VerdictIsTheAgents`: a turn counts as its agent meant it, whatever it said
  earlier, in four spellings, with two outputs read by two tasks. `TurnsInv`:
  agent and prompt belong together, and the file does not stay.
- `AnswersAreOwn`, `CancelledTurnsFail`, `SessionInv`: a late stop reason, a
  late request and a late kill do no harm, as long as a session is stopped
  after an error, as the code's only caller does.
- `NeverCountedTwice`, `LastStepIsCounted`, `UsageInv`: events and fallback
  together count each token once. They hold until an event meets a foreign
  entry, which a failed turn's consumer can bring about.
- `FetchIsFaithful`, `OkMeansDone`, `CallsInv`: no error becomes an empty page,
  no refusal becomes a success, and a mutation takes effect at most once more
  than it was retried or repeated after a failed last request: waiting at a
  limit that holds adds nothing.
- `SweepSparesRuns`, `LeftoversAreSwept`, `ServiceInv`: the sweep removes in the
  end what became terminal while the daemon was down, though it fails at first
  and is repeated under live runs; it takes no run's workspace because of an
  *edit*, since it goes by the terminal states of the start, only because of a
  move or a name in `SYMPHEO-`; and nothing runs before the first one is over.
- `StopsAreCalledFor`: a run that is told to stop was moved, was cancelled by the
  operator, or has met a configuration without its column. Edits that do
  not parse, a reload between the two readings of a tick, a tick under an
  invalid file that still has the column, and a crash stop nothing.
- `LastEditIsUsed`: the watcher loses no edit.
- `SettingsInv`, `OverridesStayInTheirPhase`, `SecretsAreAskedFor`: see
  `Settings`; the budget that stops a run is the written one although casts lie
  between, a phase's options reach no other phase, and a secret of the host
  reaches an agent only if a file names it.

`RetryIsServed` has a slot for each issue, and needs it: `process_retries` goes
through a `HashMap` in no order and `tick` dispatches fresh issues before it
looks at retries, so that with fewer slots than issues a retry may wait for
ever. No document promises otherwise.

## Fairness

- `Orchestrator`: weak fairness of the main task, of each worker and of the
  passage of time for each queued retry. The main task is a loop that is woken
  by an interval timer and whose tracker calls have a 30 s timeout
  (`tracker/github.rs:85`); a worker is a Tokio task of its own.
- `WorkerRun`: of the run's next step, whichever it is. What a run awaits ends
  because of a timeout (hooks, turns per read and in total, tracker calls), with
  one exception: git commands have none (`git/local.rs:22`), and both modules
  assume that they end.
- `Processes`: a ready task is polled and the output of a dead group ends; of a
  run's watchdogs *some* one that is ready wakes up, not each of them. It is
  *not* assumed that a timeout of a turn ever expires (the defaults are long),
  so `CancelEndsRun` is the watchdog's doing alone.
- `AgentTurn`: the backend's own steps, and the timer around the whole read
  loop. `AcpSession`: the reactor's steps and `turn_timeout`. In both nothing is
  asked of the agent, which may talk for ever, so `TurnsReturn` rests on the
  total timeout, the only one that a line does not start anew.
- `Tracker`: each caller's next request is answered, if only by the client's
  timeout. `CallsReturn` assumes besides that the rate limit does not come back
  for ever, since repetitions because of it are not counted.
- `Service`: the sweep's and the watcher's tasks.

Nothing is assumed of the board, the tracker's success, or the operator: all
progress properties hold if every fetch fails.

## The proofs

`tlapm OrchestratorProofs.tla` and so on. All constants are arbitrary, subject
to the named assumption of their module, which TLC evaluates in its runs:
`IssuesAssumption`, `WorkersAssumption`, `ConfigAssumption` and
`CleanupAssumption` of `Orchestrator` (what `ServiceConfig` clamps), `RunAssumption` of `WorkerRun`,
and for the others that bounds are naturals, that no model value is also a
number or one of the names for nothing, and that what the code needs one of is
not empty. `Workers` need not be finite. `U32Assumption` says of `2^Bits` that it
is a natural number above one, which follows from `Bits >= 1` but not for a prover that knows no
powers.

| Theorem | Under | States |
|---|---|---|
| `EntriesSafe` | `Spec` | `[]EntriesInv` of `Orchestrator`, from `TypeCorrect`, `EntriesHaveWorkers`, `CapHolds` |
| `ClaimsHold` | `TimelySpec` | `[](ClaimsAccounted /\ OnePlacePerIssue)` |
| `StatusFaithful` | `TimelySpec` | `[]StatusIsFaithful` |
| `NoWorkerLost` | `CalmSpec` | `[](LiveWorkerHasEntry /\ OneWorkerPerIssue)` |
| `WorkspacesKept` | `CalmSpec` | `WorkspaceInUseIsKept`, an action property |
| `LiveCapHolds` | `CalmSpec` | `[]LiveWithinCap` |
| `Refinement` | `CalmSpec` | `ImplementsIssueClaims` |
| `WorkersLive` | `Spec` | `ImplementsWorkerLife` of `Orchestrator` |
| `RunsLive` | `Spec` | `ImplementsWorkerLife` of `WorkerRun` |
| `StagnationStops`, `BudgetsKept`, `ContinuationsCost`, `PhaseFollowsBoard` | `Spec` | the invariants of `WorkerRun`, and that a run that ended well has had a turn |
| `NoAgentOutlivesItsTurn`, `RegistryExact`, `EveryTurnWatched` | `ProcSpec` | the safety properties of `Processes`, and that every live agent that is read from has a watchdog with its number (`TurnIsWatched`) |
| `TurnsSafe`, `VerdictsAreTheAgents` | `Spec` | `[]TurnsInv`, `[]VerdictIsTheAgents` of `AgentTurn` |
| `SessionSafe`, `AnswersOwn` | `Spec` | `[]SessionInv`, `[]AnswersAreOwn` of `AcpSession` |
| `CancelledNeverSucceeds` | `Spec` | `CancelledTurnsFail`, an action property |
| `UsageSafe`, `NoDoubleCount`, `LastStepCounted` | `Spec` | `[]UsageInv`, `[]NeverCountedTwice`, `[]LastStepIsCounted` of `SessionUsage` |
| `CallsBounded`, `FetchFaithful`, `OkIsDone` | `Spec` | `[]CallsInv`, `[]FetchIsFaithful`, `[]OkMeansDone` of `Tracker` |
| `ServiceSafe`, `StopsCalledFor` | `Spec` | `[]ServiceInv`, `[]StopsAreCalledFor` of `Service` |
| `SweepSpares` | `Spec` | `SweepSparesRuns`, an action property |
| `NumbersSafe`, `PhasesApply`, `SecretsKept` | `Spec` | `[]SettingsInv`, `[]OverridesStayInTheirPhase`, `[]SecretsAreAskedFor` of `Settings` |

Every safety invariant and every action property that a run checks is a
theorem. No theorem restricts the configuration: what `TimelySpec`
and `CalmSpec` leave out are the steps `CopyIsDeleted` and `WorkerIsDropped` of
[where the code differs](#where-the-code-differs), so the theorems under
them hold of every configuration up to the first such step, and say that the
scheduler is right up to exactly those; `WorkspacesKept` excepts besides, in its
formula, the deletions of the background cleanup. For a program without the retry endpoint
`NoEndpointIsTimely` shows that `Spec` implies `TimelySpec`. What holds even
beyond those steps is stated of `Spec`: entries, cap, and the life of a worker.

The theorems of the other modules have no such condition, but some of their
properties do: `AnswersAreOwn` ends with the first turn that `run_turn` has
given up, `AgentGetsItsPrompt` with two overlapping turns (`mixed`),
`NeverCountedTwice` with an event that meets another run's entry (`astray`). TLC finds
the counterexample each of them excludes; the theorems say there is no other.

### The argument, module by module

Every safety theorem follows from an inductive invariant that TLC has checked
on the constants of that module's run before it was proved. It is named with
its parts at the head of each proof module; below is why the property alone
does not carry.

*Orchestrator.* `TypeOK` is not inductive alone: `handle_worker_exit` uses `cur`
and a worker its `job`, so `Typing` adds that the main task has an issue in
hand where it needs one (`CursorOK`) and that a live worker has a job
(`JobsOK`). `ClaimsAccounted` needs `DueListIsCurrent`: `TakeRetry` may only
move a claim from queue to hand if the copy it takes is still in the queue;
`ClaimInv` is the conjunction. A deletion takes claim and queue entry away
together (`ClaimInvDelete`), and the copy is the third thing it would have to take. `LiveWorkerHasEntry` needs claims (a
dispatch must find no live worker: no claim, hence no entry, hence no worker)
and that no kill is under way (`NoKill`; together they are `WorkerInv`);
workspaces then stay because a worker deletes a directory only in phase
`removing`, the issue has no other worker, and reconcile only does after a kill:
each remaining deletion is one of the cleanup's own (`CleanupTakes`). `StatusIsFaithful` is `ClaimInv`, the cap, `EntryHasLiveWorker`
and one more fact about columns: an entry's column is active when it is filed
and only ever rewritten by a reconcile that found it active (`ColumnsOK`).
`LiveWithinCap` follows by counting: `job` maps live workers
one-to-one to entries. The refinement has one lemma per kind of step, and uses
`ClaimInv` to know in which phase an issue is before the step. That its workers
live `WorkerLife` needs that a free slot has nothing left of the run that was
in it (`IdleIsFresh`) and, as reconcile signals through the entry, that an entry's
worker is alive.

*WorkerRun.* `RunInv` adds that there is a turn left at the head of the
loop for both budgets (`BudgetLeft`), that an undisturbed run has counted every
turn as stagnant (`StagnationCounted`), and that no run before its teardown
has failed (`NoErrorYet`). The tree of a run keeps its type because every git
command makes a tree of one (`TreesTyped`) and no step does anything else to it
(`TreeSteps`). For `RunsLive` there is one lemma per kind of step; an entry is the run's own,
and a flag that was left behind is no other run's (`IdleIsFresh`).

*Processes* (the last section of `AgentTurnProofs`). `ProcInv` adds who holds
which number (`Numbers`): a turn has a child exactly from spawn to the drop of
the guard, its number is not free until the turn has waited for it, and two
children that have not been waited for differ. Without it a kill or a spawn
could hit the child of another turn. The set of runs and of numbers is
arbitrary, and so are the watchdogs left over from earlier turns.

*AgentTurn.* `TurnsIInv`. That the flag `success` is the agent's last word
holds only for lines that have been read, so `ReportIsHeard` says of the pipe
what it still has to say, and `FailureIsHeard` the same of stderr, where the
first line that matters counts and not the last. `PipesAreEmpty` carries both
from one turn to the next. The prompt needs who is alone in a turn (`Alone`) and
whose number the file then holds (`FileIsOwn`).

*AcpSession.* `AcpInv`. An answer could be another turn's if a message of an
earlier prompt were still on its way, so `OthersFailed` says which prompts the
stream and the agent may still speak for: the current one and those whose turn
has been given up. It rests on the order of prompts (`InOrder`), on a stop reason
being the last that is heard of one (`StopIsLast`), and on every prompt the
reactor holds being awaited or given up (`AwaitedOrFailed`).
`GrantsEndAfterCancel` needs `LateGrantIsNoticed`: after a late grant the
reactor does not read on without having seen the flag. `CancelledTurnsFail` is
proved with an invariant for one turn from the cancellation on
(`CancelledInv(t)`), as what holds from some step on is no invariant of the
whole behaviour.

*SessionUsage.* `UsageIInv`. `surplus` alone says nothing of the events that
are still in the channel. `Ledger` of the entry's own run is what they will add: a
balance `s` for every place of the queue, which starts from the total as it
stands, grows by each event's saturated difference, ends at what the agent has
really used (`Backed`) and, at every place with no new step behind it, covers
the tokens reported up to there (`Covered`). The sum of a queue is recursive
and out of the prover's reach; `\E s` with a recurrence in it is not, and the
four ways in which a queue changes are four lemmas (`AddsEmpty`, `AddsShift`,
`AddsAppend`, `AddsTail`). `ReadIsCurrent` is why the two lock acquisitions of
one usage event are harmless for an entry's own run.

*Tracker.* `TrackerIInv`. `ReadSoFar` says in the middle of a fetch what
`FetchIsFaithful` says at its end, for the places up to the cursor. The step is
that the first `PageSize` of what lies behind a cursor, in the order of their
places, are a prefix of it (`PageIsPrefix`). A mutation's `EffectsFollow` counts
effects against the requests sent, in each of the five ways a request may end,
and against the uncounted ones in the second way of `SendLimited`.

*Service.* `ServiceIInv`. That a run is stopped for a reason needs that the column
of a run nobody has moved is one the start's configuration calls active, and, until
a configuration has given it up, one with work by the scheduler's configuration
and by the one reconcile holds (`UnmovedHaveWork`): the two differ when a reload
falls between. It needs besides that the run on file for an issue is one of that
issue that goes on (`EntriesAreRuns`) and that nothing is in use before the
daemon is up (`QuietUntilUp`). `SweepSpares` adds that what the sweep has still
to remove is terminal by the start's configuration, or was when it asked
(`DoomedAreTerminal`, `SweepHasItsPlace`).

*Settings.* `SettingsIInv`. Files are not arbitrary: `FilesOK` says that each
copy in use, the runner's, the scheduler's and the run's two, is one that edits can
produce, number by number, argument by argument and phase by phase. Budgets
need that a turn is left at the head of the loop (`BudgetLeft`), start-up errors
that the file has passed its checks (`ChecksForeseeFailures`). That the phase
found is the *first* one for a column needs that a non-empty set of places has
a first (`FirstPlace`). This is an induction, and the library's is beyond the
prover; `ByOnes` obtains the one that is needed from the pigeonhole principle: a set
that has 0 and all successors below `n` and lacks `n` would map one-to-one into
a part of itself.

### What is only model-checked

- Liveness, which rests on fairness and is out of the prover's reach:
  `InactiveIsReleased`, `RetryIsServed`, `RunEnds`, `CancelEndsRun`,
  both `TurnsReturn`, `CallsReturn`, `LeftoversAreSwept`,
  `LastEditIsUsed`.

The prover takes no theorem of its library that has an operator as a parameter
(induction, the least element of a set). Where a proof needs one it goes another
way: the pages of `Tracker` with `FS_Subset` and the order of places, the sums
of `SessionUsage` with `\E s` and a recurrence, `Settings`' first place with
`ByOnes`. No module that is proved about has a recursive operator.

## Where the code differs

One run checks a sentence of the documentation and finds it violated.

`stalled_worker`: a stall kill removes the entry but never sets the flag
(`tick.rs:203`); the "killed" agent runs on, outside the cap, while its
workspace is deleted and its successor started in the same path.

The rest was met while modelling. Where a module shows it, its name is given;
none of it is a property, since it does not hold.

*Scheduler.*

- Per-state cap (`Orchestrator`): `max_concurrent_agents_by_state` is not looked
  at by `process_retries` (`tick.rs:460`, `state.rs:87`).
- Limbo column (`Orchestrator`: `WorkerIsDropped`): for a column in neither list reconcile sets the
  flag and drops entry and claim at once (`tick.rs:246`). Moved back, the issue
  gets a second worker while the first is still in its turn, and the first then
  deletes the directory of both.
- Retry removal (`Orchestrator`: `CopyIsDeleted`): a retry deleted (`server/mod.rs:1076`) while
  `process_retries` holds its copy is queued again without its claim if the
  fetch fails (`tick.rs:423`); the issue is dispatched as fresh, and then again
  as a retry.
- Terminal column (`Orchestrator`): a worker that sees its issue terminal before
  reconcile does exits with the flag unset (`tick.rs:313`), and nobody removes
  the workspace until the daemon is started again.
- Stall detection compares with `last_timestamp` (`tick.rs:179`), which text,
  tool and usage events do not move: an agent that streams without finishing a
  step counts as stalled. `Orchestrator` lets any entry stall at any time.
- Background cleanup (`Orchestrator`: `CleanupRemoves`, `CleanupRemovesPrefixed`;
  `WorkerRun`: `Cleanup`): it deletes the directory of an issue that was terminal
  when it asked while the issue's worker is in its last turn or in `after_run`, or
  has been started again since, although `tick.rs:230` calls the worker's wrapper
  the single owner of the deletion, so that `after_run` finds an intact
  workspace. The first start, which has no workspace root, always leads to it.
- An operator's cancel removes the workspace of an issue that goes on to be
  continued: uncommitted work is lost. A claim dropped past the retry budget is
  taken up again as a first attempt by the next tick if the issue is still
  active, so that the budget only resets the back-off.
- The page calls an issue blocked by comparing with the columns done and closed,
  not with `tracker.terminal_states`.

*Runs and their clones.*

- Half clone (`WorkerRun`: `MakeDirectory`, `CloneFails`, `Reuse`): after a
  failed clone or `after_create`, or a daemon that ends between the two, the directory
  stays, and the next attempt reuses it as if it were complete (`manager.rs:93`),
  although `WORKFLOW.md:97` forbids it. With a workspace root inside a checkout,
  as `WORKFLOW.md:68` has it, git then acts on the enclosing checkout.
- `workspace.git_reset_strategy` (`WORKFLOW.md:70`) is read nowhere: the reset is
  always a hard one (`WorkTree`).
- `checkout -b` fails in every later run, in which the branch exists, so that the
  run does not know its branch and resets to the remote's default branch
  (`WorkTree`); the name the tracker derives from a title usually is no ref, and
  then the reset itself fails and is only logged (`tick.rs:721`).
- Commits that have not been pushed are lost with the clone of a cancelled run,
  a stalled one or one that the cleanup takes, and by a reset to the remote's
  default branch (`WorkTree`: `Deleted`, `ResetHard`).
- git commands have no timeout and do not look at the flag (`git/local.rs:22`);
  a hook that fills its pipes blocks until its timeout (`manager.rs:154`).
- A state's own budget is said to override `max_turns` (`WORKFLOW.md:195`); both
  are checked (`tick.rs:979`), so that it can only lower it (`Settings`).

*Agents.*

- A child that is spawned after the shutdown's snapshot, or has not been
  registered at that moment, is alive after `process::exit`, although
  `process_registry.rs:2` says that Ctrl-C leaves no agent behind (`Processes`:
  `SpawnChild`, `Signal`, `GraceOver`).
- The panic hook kills all agents on the panic of any task; `main.rs:188` takes
  the runtime for dying then, but a Tokio task or a handler panics alone and
  the daemon goes on. `render_retry_rows` cuts an error text at byte 50
  (`server/mod.rs:798`), which panics inside a character of several bytes: a
  look at the page is then enough (`Processes`: `Panic`, `HookOver`).
- A watchdog is never told that its turn is over. If its run is cancelled turns
  later it kills the group whose number it remembers, which may by then be
  another run's agent (`Processes`: `WatchdogFires`). The hook's second kill
  has the same fault.
- The exit status of an agent is never looked at: one that crashes after a good
  step has succeeded; pi's end without a message ends a turn well (`AgentTurn`).
- Claude is given `--dangerously-skip-permissions` besides `--permission-mode`
  (`Settings`).
- No session is ever resumed: the handles `start_session` makes are no UUIDs,
  and only UUIDs are passed on, although `tick.rs:699` counts on it (`Settings`).
  The second and later turns have the continuation prompt alone.
- ACP (`AcpSession`): a turn that times out does not cancel its prompt, whose
  late stop reason the next turn would take; a failed handshake leaves the
  reactor and the agent to themselves. The backend is not reachable from
  `AgentRunner` at this commit.

*Tracker and tokens.*

- Between steps the session's token count is zero although earlier steps were
  counted, so the fallback (`tick.rs:815`), meant for agents without usage
  events, adds a last step whose usage event came too early or not at all
  (`SessionUsage`).
- A mutation that fails with no request left is repeated without being counted
  as a retry, whatever the failure was and whether or not it took effect
  (`mutations.rs:286`): its effects are bounded by the retries only as long as no
  last allowed request fails (`Tracker`: `SendLimited`, `exhausted`).
- A stale option id is sent and refused for the life of the daemon
  (`mutations.rs:155`, `Tracker`). An error of the first query is taken for "not an
  organization" (`github.rs:148`). `linkedItems` is read and never asked for
  (`github.rs:354`): no issue is blocked.

*Configuration.*

- Hot reload (`WORKFLOW.md:16`) does not reach the runner, the workspace manager
  and the tracker, which keep the file of the start (`Service`, `Settings`).
- `process_retries` starts runs under a file that validation refuses. A file that
  is read while an editor has it truncated parses as an empty one: under it
  every column but the default ones is limbo, and `reconcile`, which does not
  validate, stops the runs (`Service`: `Reconcile`, `dropped`). An
  editor that saves by renaming takes the watch away (`main.rs:265`).
- A valid edit of `active_states` or `terminal_states` stops the runs in a column it
  takes away although their issues have not moved (`tick.rs:223`, `Service`:
  `Ended`, `Strayed`), while the tracker goes on fetching by the states of the start.
- Phases are not validated at the start (`WORKFLOW.md:20`): `WorkflowSpec::validate`
  is called by tests only, and a phase that does not parse fails every turn
  (`Settings`).
- Casts: a per-state turn limit below zero becomes about 4 billion
  (`typed.rs:184`), and numbers beyond 2^32 wrap (`Settings`).
- `cli.env` is said to be merged on top of the daemon's environment; the
  environment is cleared first (`Settings`). `{{ attempt }}` (`WORKFLOW.md:326`)
  does not render on a first attempt. Placeholders in a phase's prompt are not
  rendered at all.
- The orphan sweep takes what follows `SYMPHEO-` for a node id (`main.rs:138`): an
  active issue of a repository of that name loses its workspace, under its run if the
  sweep is a repeated one (`Orchestrator`: `CleanupRemovesPrefixed`, `Service`:
  `SweepOrphan`).

## What is not modelled

- Data: texts of prompts and templates, quoting, dates, sanitising of names,
  JSON and HTML. They influence no decision above, save as an outcome (a turn
  fails, a template does not parse) that the actions have. The three counters
  of a usage move together and are one number.
- A panic in a worker task, which would leave its entry and its claim behind
  for good: `run_worker` has no path that panics by design. A panic elsewhere is
  `Processes`' `Panic`.
- Failing file-system calls outside the sweep: creating a directory is assumed
  to succeed, and in `Orchestrator` removing one too (`WorkerRun`'s may fail).
- git beyond what a run uses: commit, merge, log and diff are called by nothing.
- `completed`, `last_tick_at` and the list of recent movements: shown, never
  decided on.
- Errors and the library root (`error.rs`, `lib.rs`): types and declarations.
- Accessors of the same shape as a modelled one (the hooks, the other timeouts).

## Plan

The modules were written in this order, each with its runs before its proofs:
`Orchestrator` with `IssueClaims`, its proofs and its refinement; `WorkerRun`
and `Processes`; `AcpSession`, `SessionUsage`, `Tracker`, `AgentTurn`,
`Service`, `Settings`; `WorkTree` and `StatusSurface`; then the safety theorems of all of
them, `WorkerLife` with its two refinements, and the theorems of the scheduler
for every configuration.

What would be worth adding, in the order of what it would tell:

1. Two overlapping runs of an issue in `WorkerRun`, for what the second finds in
   a clone that the first still works in. `Orchestrator` and `AgentTurn` have
   the overlap, but not the clone.
2. A turn in stages, as `WorkerLife` is for a run, implemented by both
   `Processes` and `AgentTurn`.
3. The configuration of `Orchestrator` as a variable that `Reload` changes,
   once its bounds leave room for it: `Service` has the reload, with one issue.
4. What a run finds in its clone after the cleanup has taken it: `WorkerRun` lets
   turns and hooks end in any way then.

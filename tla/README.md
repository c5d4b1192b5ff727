# ElectroMind: TLA+ models, checks and proofs

ElectroMind runs an LLM agent for computational chemistry. A desktop client, a
terminal client or an HTTP client sends *inputs* to *threads*; each thread works on
its inputs in *Runs* (a loop of model calls and tool batches), may write to a
*workspace*, asks the user to approve risky tools, keeps plans, artifacts and HPC
submissions on disk, loads *skills*, and must survive a restart. Beside the program,
the repository's skills hold scripts that several agents call on one research project.

This directory models what decides which Run may work, what becomes of every input,
tool call and file, and what a crash or an overlap leaves; checks it with TLC; and
proves most of its safety properties with TLAPS for all values of the constants.

Paths below are relative to the repository's `src/`: `electromind/...`, `app/...`;
`skills/...` is beside it. `PROJECT.json` maps every definition to its lines, lists
the main hazards at their lines with the properties about them, and names every mutant.

## 1. Inventory

| Component | State | Operations | Correct when |
|---|---|---|---|
| Thread sessions (`harness/session_manager.py`, `state.py`, `inbound.py`, `workspace.py`) | per thread: active run and phase, queue, pending immediates, bounded receipts, approvals, run snapshot, runner; lease per workspace with waiters | send, start, declare a phase, complete/cancel/fail, settle, approvals, lease, restore | no input lost or waiting twice; one Run per thread; approvals in the scope of the live Run; one writer per workspace |
| Run engine (`engine/run_engine.py`) | runner registry | `run_loop`, `steer`, `cancel_run`, plan and artifact commands | every exit ends the Run and releases the lease |
| Checkpoints and run loop (`harness/checkpoints.py`, `runtime/loop_core.py`, `runner.py`) | cancel flag, mailbox, turn counter, frames | checkpoints, tool rounds, synthesis turn | immediates are read once and only at safe points; the loop ends |
| Wire process (`app/wire.py`) | active thread, runner, registry, turn table | about 50 commands, end of a turn, chain, wake-ups | commands and Runs interleave without two Runs, lost inputs, forgotten waiters, or runners closed under a Run |
| State file (`harness/persistence.py`) | `harness_state.json` | save, recover | what was acknowledged is durable; retries are recognised |
| Tools and permits (`execution/tool_scheduler.py`, `runtime/inbound.py`, `app/tool_permit.py`) | batches, control events, approvals | batch, ask, permit, deny, cancel | a risky call runs with its own permit; an answered call does not wait on |
| Side effects (`execution/intent_log.py`, `idempotency.py`) | intents, results by key | record, commit, replay | no recorded submission is repeated; what is on disk is true |
| Plans (`execution/plan.py`) | tracker, versions on disk | propose, approve, revise, step | approved versions do not change; done means approved |
| HPC submissions (`hpc/`, `skills/tools/hpc-submit`) | records by key, written by two scripts | record, bind, reconcile | no job unknown, none submitted twice while recorded |
| Artifacts (`artifacts/`) | manifests, versions | register, validate, accept, pack | nothing gets past the parser |
| Files (`atomicfile.py`, `ithread/local.py`) | file and backup | write, recover, quarantine | old or new, never torn |
| Net changes (`harness/mutations.py`) | snapshots, bounded blobs | capture, track, report | an exact change is true and can be shown |
| Context (`context/`, `core/agent.py`) | conversation, summary | estimate, compact, truncate | the newest message is sent; pairs stay pairs |
| Sub-agents (`tools/delegate.py`, `runtime/frame.py`) | stack of frames | push, run, pop | a frame goes with its sandbox and budget |
| Sandboxes (`sandbox/`) | backend, attempts | command, write, restart, close | a call happens at most once; nothing is left behind |
| Skills (`skills/`, `app/commands/skills.py`) | directories, trust, catalogue, views, snapshots, mounts | install, discover, resolve, activate, mount | trusted, whole, current, recorded before shown |
| Settings and models (`app/config.py`, `setup.py`, `model_resolver.py`) | files in layers | merge, set, trust, adopt, resolve | no start overwrites; nothing runs unasked that was not allowed |
| In-process client and terminals (`app/client.py`, `repl.py`, `tui/`, `print_mode.py`) | a second composition of manager and engine; a view | send, start, cancel, answer, draw, close | as the wire process; what is shown is so |
| Research scripts (`skills/procedures/research-orchestrator`) | `.research`: tasks, leases, artifacts, decisions, events | claim, renew, release, accept, gate, scaffold | one owner; decided before accepted; follow-ups once |
| DeepMD chain (`skills/tools/deepmd`) | files of one training | train, freeze, test, plot, check | "pass" stands for one model's package |
| HTTP service, external tasks, parsers, traces, adapters, evaluations, desktop | | | not modelled (section 5) |

**How they interact.** The wire process has one command loop (it reads stdin in a
thread and awaits `handle_command`) and one asyncio task per Run. Both call the session
manager and share the turn table, the runner registries and each runner's inbound
checkpoint. `RunEngine.run_loop` drives `runner.run`, declares phases, and in its
`finally` settles the pending immediates, makes the terminal transition, releases the
workspace and calls back into the wire, which starts the threads that wait for the
workspace and saves the state file. Inside a Run the loop asks the model with what the
context manager leaves of the conversation, cuts the calls into batches, waits for
permits in the control queue, and records intents around side effects; a `delegate`
call pushes a frame on the same runner. The terminal front ends use the same manager
and engine through `EmbeddedAgentClient`, without the wire. Scripts of skills are
processes of their own: what they share is files.

**What is hard.** Inside a process everything rests on asyncio switching only at a
real suspension, and on check-then-act chains across several calls: `cancel` clears the
turn table at once while the task unwinds later; a Run that ends before its first event
has no id; leases, waiters, registries and directories change in different commands;
acknowledgements precede saves; flags and records outlive the Run they were made for.
Between processes there is hardly a lock: settings, submissions, leases and installed
skills are read whole, changed and written whole, and a killed script leaves what it
had written. Retries, time-outs and late answers are everywhere.

## 2. Modules

A module per component. Those that share no state are checked side by side in one run:
`MCStores`, `MCAgents`, `MCClients` and `MCWorkbench` add a variable `part`, chosen in
the initial state, that says whose behaviour this is; the other parts keep their
initial values, so the state space is the sum and not the product of the parts.

| Module | Models | Checked in |
|---|---|---|
| `SessionOps` | the phase table, and each method of `ThreadSessionManager` as an operator | (used below) |
| `ThreadSession` | one session under all its callers in any order | `MCThreadSession` |
| `Wire` | command loop, Runs as tasks, leases, waiters, registries, checkpoints | `MCWire` |
| `Recovery` | the state file, its save points, crashes at any step | `MCRecovery` |
| `ToolCalls`, `ToolRun` | repair of the conversation, batches; rounds, permits, intents, submissions, crashes | `MCToolRun` |
| `Submissions` | scripts, scheduler and the unlocked store | `MCStores` |
| `PlanLedger`, `Plans` | what the plan store promises; tracker and store, shown to implement it | `MCStores` |
| `AtomicFile` | write with backup, recovery, damage, three kinds of callers; a reader of lines skips those that do not parse | `MCStores` |
| `Artifacts` | one artifact, its versions, its file and the training set; manifests the agent makes and those a front end sends with a verdict and a status of its own | `MCStores` |
| `TaskLeases` | lease scripts, killed anywhere, with and without `--owner` | `MCStores` |
| `SkillInstalls`, `SkillRuns` | install step by step with kills; catalogue, fingerprint and the view of a turn on top of it | `MCAgents` |
| `SkillMounts` | snapshot, mount, verification and rollback of two activations | `MCAgents` |
| `ContextWindow` | what a model call is sent | `MCAgents` |
| `Frames` | sub-agents on the runner's stack; the building of a frame may fail or be cancelled before it is pushed | `MCAgents` |
| `TrainChain` | the DeepMD chain over restarts | `MCAgents` |
| `SandboxGuard` | calls, restarts, time-outs, closing; a cancel at every await of a call | `MCAgents` |
| `EmbeddedClient` | `EmbeddedAgentClient` with `SessionOps` | `MCClients` |
| `FrontEnd`, `Timeline` | the full-screen application; items and cached lines | `MCClients` |
| `TextFronts` | print mode and the blocking REPL | `MCClients` |
| `WireCommands` | life of threads, directories and runners under the commands of the wire | `MCClients` |
| `ProjectGates` | acceptance, verdicts, claims, follow-ups, reports | `MCWorkbench` |
| `SkillResolution` | candidates, ids, shadowing, pins, the list shown to the model | `MCWorkbench` |
| `SkillTurns` | one skill over the turns of a runner | `MCWorkbench` |
| `SkillPanel` | the wire panel and the command line install at once, also while a SKILL.md does not parse; what escapes the command loop and the start after it | `MCWorkbench` |
| `Settings` | layers, writers, first starts, trust, models | `MCWorkbench` |
| `NetChanges` | snapshots around write calls, the change told at the end | `MCWorkbench` |
| `SessionOpsProofs` | lemmas about the operators of `SessionOps`, used by the proofs about sessions, the wire, recovery and the clients | |
| `ThreadSessionProofs`, `WireProofs` | theorems about the module of that name | |
| `ToolRunProofs` | theorems about permits, intents, submissions and the conversation of `ToolRun` | |
| `StoresProofs` | theorems about `Recovery`, `Plans`, `Submissions`, `AtomicFile`, `Artifacts`, `TaskLeases` | |
| `WorkbenchProofs` | theorems about `NetChanges`, `ProjectGates`, `Settings`, `SkillTurns`, `SkillPanel` | |
| `AgentsProofs` | theorems about `SandboxGuard`, `TrainChain`, `SkillMounts`, `Frames`, `SkillInstalls` with `SkillRuns`, `ContextWindow`, and the `TurnSound` of `MCAgents` | |
| `ClientsProofs` | theorems about `Timeline`, `FrontEnd`, `TextFronts`, `WireCommands`, and the properties `MCClients` makes of them | |

**Correspondence.** Each module names in its head the files it models, and each
definition the function. Some conventions:

- *Sessions.* Every method of the manager holds `lifecycle_lock` and awaits nothing
  while it does, so a method is one operator, and a caller that makes several calls
  without suspending composes operators in one action. `ThreadSession`, `Wire`,
  `Recovery` and `EmbeddedClient` all use these operators.
- *Suspension.* A Run's program counter names where it is suspended. In `Wire`, an
  `input/send` is two actions only where it can really suspend, in `ensure_runner`. The
  end of a Run does not suspend; it is several actions (`EndLoop`, `WakeNext`,
  `EndTurn`, `Chain`) so that each can start another Run, and nothing else is enabled
  meanwhile (`fin.stage`). `Wire.Features` says what the environment does: `cancel`,
  `fail`, `early` (a Run ends before its first event), `reopen` (resume of the thread
  that is active already), `return` (resume of a waiting thread).
- *Two modules for the wire.* `Wire` knows how a Run reads inputs and ends; in
  `WireCommands` a Run is only what still uses a runner and a directory, so that open,
  reset, delete and exit can be followed further. `WireCommands.Objects` are runner
  objects; `Default` is the id of inputs sent while no thread is active.
- *Crash.* In `Recovery` `dirty` is set between a handler's change and its save, and
  `lost` and `repeated` are what a crash took before a save or gives again. In `ToolRun`
  a crash between the steps of one call (`job[id]`: waiting, running, acted, committed)
  leaves intents, results and the conversation as they were on disk. Scripts
  (`Submissions`, `TaskLeases`, `ProjectGates`, `SkillInstalls`, `SkillPanel`,
  `Settings`) have a step for every file they write and may be killed in front of each.
- *Data.* A content, a body or a skill's text is a model value and is its own digest;
  a size in `ContextWindow` is its tokens; a file of `TrainChain` is the number of the
  run whose training it goes back to. Sets of risky tools, schema checks of a file and
  the parser's verdict are constants.
- *History variables* (`accepted`, `given`, `world`, `permits`, `blessed`, `ever` ...) only
  record what happened, for the properties; no guard reads them.

Definitions with the comment `Mutant` are changed forms of the definition they follow,
the way a plausible bug would change it; nothing uses them. Properties with the comment
`Not so` are listed in section 3.

## 3. Runs

| Run | Shows |
|---|---|
| `session_any` | whatever order the manager is called in, even `start_run` over a live Run: no input vanishes (`NoSilentLoss`), waits twice (`WaitsOnce`), is delivered twice while its receipt is known (`DeliveredOnce`) or stays pending for a Run that is over (`NoStrandedImmediate`); every approval has one fate (`ApprovalsAccounted`) |
| `session_checked` | if callers ask `has_active_run` first: inputs of one lane keep their order (`LanesInOrder`); a Run leaves neither an approval nor a loop (`RunsLeaveNothing`) |
| `wire_any` | two writing threads on one workspace with cancels, failures, early ends and returns: `WriteExclusion`, `OneLoopPerThread`, every input waits or was given once (`InputsAccounted`), "applied" is true (`AppliedWasGiven`), a cancel never reaches another thread (`CancelStaysInThread`) |
| `wire_live` | whichever way a Run ends, its lease and its session are free (`ExitsReleaseAll`); under fairness every Run ends (`RunsEnd`) and every waiting thread gets a Run (`WaiterServed`) |
| `wire_reopen` | a finding: a client resumes the thread that is active already while a Run is at work; the Run loses its runner's mailbox, and an immediate input sent then vanishes (`NoInputLost`) |
| `recovery_crash` | two crashes at any step: acknowledged inputs are accounted for and wait once (`InputsAccounted`); between handlers the file has queue, marker and pending as memory has them (`StateFileCurrent`); retries are recognised (`RetriesRecognised`) |
| `tools_any` | batches, permits, cancels and two crashes: the provider is sent well-formed rounds and every result of a finished round (`HistoryRepaired`); a risky execution has the permit of that call, arguments and Run, and intents are true at any crash (`ExecutionsAccounted`); a recorded submission is not repeated (`RecordedNotRepeated`); an answered call goes on (`AnswerReachesCall`, under fairness) |
| `stores_any` | `JobsAccounted` (submissions), `AgreementsKept` and the refinement `LedgerKept` (plans), `FileKept` (atomic files), `ArtifactsSound`, `LeasesSound` |
| `agents_any` | `TurnSound` (what a turn relies on: installs and catalogue, mounts, the request the model is sent), `FramesSound` (sub-agents), `ChainSound` (DeepMD chain), `SandboxSound` (sandbox) |
| `clients_any` | `EmbeddedSound` (the in-process client), `TerminalSound` (application, timeline, print mode and REPL), `CommandLoopSound` (runners and directories) |
| `workbench_any` | `ProjectSound` (gates), `ShelfSound` (names, turns and installation of skills), `SettingsSound`, `ChangesSound` (file changes a Run reports) |
| `commands_user` | a finding: the old `user` command on an idle thread starts what waits in the queue, never its own text, although the protocol says that it starts a turn |

The `...Sound` properties are conjunctions of named promises of one component, each with
its comment in the module; MC modules restrict each to the behaviours of its own part.

**Bounds.** Sessions and `Wire`: contention for a workspace needs two threads (that
nothing changes with more is what the theorems of section 4 add); two inputs on one
thread can be queued, immediate, deferred and chained; as many Run ids as inputs, so the
supply never blocks; one tool batch (`MaxTurns = 1`) and the synthesis turn; a second
runner object for a thread that is opened again. A receipt limit below the number of inputs, so
that receipts are evicted; `MaxCrashes = 2` admits a crash in the recovery from a crash.
`ToolRun`: two calls, in one answer or in two, that repeat each other, conflict or run
side by side and are answered in either order; three Runs so that a leftover of one can
meet the next but one. The plan of batches is a relation: `FirstFit` says of a placement
of the calls that it is the one the scheduler's loop makes. Stores: two keys (processes of different Runs) and three jobs, so a job
can be submitted again; two plan versions; three entries and two faults of a file;
two digests of an artifact, one of which the parser finds sound, two replaced versions and
one manifest sent by a front end (`MaxClaims`), any of its fields at once; two tasks with or without a dependency and two agents.
`ContextWindow`: the window holds about ten small messages, so that every decision (ok,
compact, limit) and refusal happens within seven messages. Skills: one install and one other
change (a kill, an edit, a removal, trust) around two reloads. `Frames`: two sub-agents in
one batch, limits of one, so that each is exceeded. `SandboxGuard`: two environments and two things
that go wrong (`MaxFaults` counts faults, failed removals and cancelled calls alike), so a
cancelled start or write can meet a revival. `WireCommands`: five commands reach
every pair of a reset, resume, delete or exit with an unwinding Run. `SkillResolution`:
four directories of two names, one found in two places, room for some of them.
`Settings`: two processes and three commands. Symmetry is used only where no order or
number is (`ThreadSession`, `Recovery`, agents, keys and contents of `MCStores`, bodies and resources
of skills). `MaxOverlaps = 0` in `stores_any`: the lease contract is about scripts that do
not overlap, and `TaskLeases` says so in the guard of each property; kills and expiry
remain. Deadlock is not checked: a system whose inputs are used up, whose Runs are over
or whose bounds are reached may stop.

**Fairness.** `Wire.FairSpec` has weak fairness of the event loop's own continuation, of
each Run's task and of the opening of a runner; `ToolRun.FairSpec` of a ready task, of the
model and of the tools: asyncio runs every ready task, and what a Run awaits (the
provider, which classifies its own time-outs, a tool, unwinding) returns. A user or client
is never assumed to do anything: `AnswerReachesCall` speaks of calls that were
answered. A call nobody answers waits for ever, because `wait_tool_permit` has no
time-out and an expired approval takes no answer any more; the code has it so.

### Where the code does not keep what it, or a reader, expects

The modules state these as properties too, each under a comment `Not so`. They are no
part of the passing runs. To see one violated, write its name in the cfg of the run
that checks its module, as the only `INVARIANT` (or, where it is `[temporal]`,
`PROPERTY`), and run TLC: the counterexample is the scenario.

| Module (run) | Property | What happens |
|---|---|---|
| `Wire` (`wire_any`) | `CancelOnlyCurrent` | `InboundCheckpoint.cancelled` is never reset and the runner is reused: later Runs end as cancelled too |
| | `WriteExclusion`, `OneLoopPerThread` with `ReadInput = {m2}` | a read-only Run holds no lease and `start_run` accepts a live phase: an input sent while it unwinds starts a second Run on its runner; and the lease is decided by the input just sent while the Run takes the queue's head |
| (`wire_reopen`) | `AppliedWasGiven` | resuming the active thread loses its runner, and its mailbox |
| (`wire_any`) | `ExitsReleaseAll` | with `early`: a Run without a first event has no id, so no terminal transition and no release |
| (`wire_live`) | `WaiterServed` [temporal] with `Features = {"return"}` | `resume` takes a waiting thread's runner from the registry; each release registers the waiter anew, for ever |
| `Recovery` (`recovery_crash`) | `FinishedStaysFinished` [temporal] | the end of a Run is saved after its waiters were woken; a crash in between restores it as interrupted |
| `ToolRun` (`tools_any`) | `ConflictsInOrder` with `MaxCalls = 3` and `MaxIds = 3` | a call joins the first batch it does not conflict with, in front of a conflicting call in a later one |
| `Submissions` (`stores_any`) | `OneJobPerKeyAlways` | an old copy written over a bound job frees its key for a second submission |
| `Artifacts` | `TrainingDataAlwaysParsed` | the parser judges the file as it is, not the digest of the manifest, and `artifact/register` takes a front end's verdict and acceptance for the registry's own |
| `AtomicFile` | `ConfigNotReset` | a damaged `thread.toml` is renamed away by one reader; the next finds none and writes defaults |
| `TaskLeases` | `OneOwnerAlways` with `MaxOverlaps = 1` | two claims both check before either writes |
| `SkillInstalls`, `SkillRuns`, `SkillMounts` (`agents_any`) | `OldOrNew`, `EditsNoticed`, `ResourcesCurrent`, `ReplaysWhole`, `MountsStay` | a killed install leaves both versions; edits during a reload or of a resource alone are not picked up; a repeated activation may return part of a body; the rollback of one activation takes another's mount |
| `ContextWindow` | `SentWithinThreshold`, `CompactedPaired`, `FittingIsSent`, `SystemCurrent` | after truncation the decision "ok" sends the original; compaction cuts pairs; a long summary refuses a conversation that fits; the first system row stays |
| `Frames` | `SteersReachMain`, `CancelledIsNotCompleted`, `NoSandboxLeft` | a sub-agent's checkpoint drains the steers; a cancelled sub-agent is reported "completed"; an error or a cancel between the opening of its sandbox and `push_frame` leaves it open |
| `TrainChain` | `VerdictIsCurrent`, `TestedIsCurrent`, `SummaryIsCurrent`, `FiguresMatch`, `ReadyMapDrawn`, `FrozenIsWhole` | files of earlier starts stay and are taken for this one's |
| `SandboxGuard` | `NothingEverLeft`, `TimedOutIsOver` [temporal] | two restarts at once leave a container, and so does a start that is cancelled while `docker run` works, or an `rm -f` that fails; a timed-out command goes on in it |
| `EmbeddedClient` (`clients_any`) | `ClosedIsQuiet`, `CancelIsPerRun`, `AppliedWasGiven` | closing starts waiters; the sticky flag again; steers are acknowledged before they are read |
| `FrontEnd`, `Timeline` | `PendingIsAnswerable`, `LiveIsNotIdle`, `IdleThreadTakesInput`, `DrawnIsCurrent` | Enter on an empty composer is refused and shows a live Run as idle; a view that was left has lost its card or shows the state of another; lines of another width stay |
| `TextFronts` | `FailureIsTold`, `WaitCanEnd` | a Run that raised exits with 0; a question that expired leaves the REPL waiting |
| `WireCommands` | `AcknowledgedHasThread`, `RunKeepsRunner`, `RunKeepsDirectory`, `SettingsFrozen`, `ExitClosesAll`, `ClosedOnce`, `ExitStartsNothing`, `WaitingSurvives`, `NothingLeaks` | reset, delete, resume and exit meet a Run that is cancelled but still unwinding, or a parked runner; a close that raises in reset or delete leaves the loop and is repeated at exit; an assembly that fails after its sandbox was opened leaves it open |
| `ProjectGates` (`workbench_any`) | `AllRecommendationsDone`, `ScaffoldKeepsValid`, `AcceptedIsWhatPassed`, `RowsKept` [temporal] | a killed scaffolding passes for a complete one; accepted names are not contents; overlapping scripts lose rows |
| `SkillResolution` | `LoadedIsIdentical`, `ModelOpensWhatItSees`, `RegistryAgrees`, `IdsStay` [temporal] | a saved catalogue forgets distances; the list and `use_skill` look names up differently; an id passes to another skill |
| `SkillTurns` | `ModelSeesSkill`, `RunStartsClean`, `SkillGoesWithMessage`, `ActivatedStays`, `SkillEndsWithRun`, `OneSandbox` | skills activated after the first Run never reach the model; the skill waits in one place of the process |
| `SkillPanel` | `TrustIsMeantAlways`, `HandWrittenStays`, `CheckedIsFree`, `ToldOfCommands` [temporal], `WireGoesOn`, `ShownIsInstalled`, `SameSourcePasses` | trust by a name, not by a content; skills written by hand are replaced; while one SKILL.md does not parse, the command line finds no conflict and the desktop gets no list; a trust or a removal of a wrong name ends the wire process; a repository's source carries its commit |
| `Settings` | `CommandLineWins`, `AnnouncedIsUsed`, `NoCommandLost`, `OldSettingsAdopted` | the refresh lays files over the command line; an input's model is announced only; overlapping writers |
| `NetChanges` | `NeverUnrecorded`, `BeforeIsTrue` | a cancel during the snapshot after a write; a failed snapshot is told as an absent file |

## 4. Proofs

All theorems hold for every value of the constants that satisfies the named
assumptions of the module (`SessionConstants`, `CallerConstants`, `WireConstants`,
`RecoveryConstants`, `ToolConstants`, `RunnerConstants`, `PlanConstants`,
`SubmissionConstants`, `FileConstants`, `ArtifactConstants`, `LeaseConstants`,
`StoreConstants`, `StoreContents`, `GateConstants`, `GateInputs`, `SettingsInputs`,
`TurnConstants`, `PanelConstants`, `SandboxConstants`, `ChainConstants`,
`MountAssumption`, `FrameAssumption`, `SkillAssumption`, `SkillRunAssumption`,
`ContextAssumption`, `FrontConstants`, `CommandConstants`).
They say only what kind of values the constants are; what else a theorem assumes stands
in its statement. Each theorem follows from an inductive invariant, which was first
checked with TLC on the constants of the run, then proved with one lemma per action.

| Theorem | States | Inductive invariant and argument |
|---|---|---|
| `TypeCorrect` | `TypeOK` of `ThreadSession` | by itself inductive, with type lemmas for each operator; the bound on the receipts comes from `Trim` |
| `NothingStranded` | `NoStrandedImmediate` | an immediate is only made while a Run is active, and every terminal transition defers what is pending |
| `NoInputLostSilently` | `NoSilentLoss` | the accepted inputs are exactly those in queue, pending and delivered; every operator moves between these three |
| `InputsWaitOnce` | `WaitsOnce` | queue and pending are injective and disjoint; `Accounted` looks at both, so eviction of a receipt does not matter |
| `NothingDeliveredTwice` | `DeliveredOnce` | `Recognised`: whoever is in the session has a receipt or was evicted; repetitions stay within the evicted ones through settling |
| `LanesKeepOrder` | `LanesInOrder`, assuming `CallersCheck` | `LaneInv`: delivered, pending and queue, one after the other, are in the order of their ranks within each lane |
| `ApprovalsHaveOneFate`, `GrantsInScope` | `ApprovalsAccounted`, `GrantedInScope` | the second is an action property that needs the first to identify a request by its id |
| `ApprovalsDieWithRun`, `RunsAreEnded`, `NothingLeftBehind` | `ApprovalsOfLiveRun`, `NoRunAbandoned`, both: `RunsLeaveNothing`, assuming `CallersCheck` | the second uses `LiveRunInv`: the only loop at work is the session's Run |
| `WireTypeCorrect` | `TypeOK` of `Wire` and `Owned` | a runner kept anywhere (by the loop, the registry, a task, the turn table) is one of that thread |
| `OneWriter`, `OneLoop` | `WriteExclusion`, `OneLoopPerThread`, assuming `AllWrite` | `HoldInv` |
| `LeaseNeverLeaks`, `EveryRunExits`, `ExitsReleaseEverything` | `LeaseOfLiveRun`, `EveryExitEnds`, both: `ExitsReleaseAll`, assuming `AllWrite` and `NoEarlyEnd` | `HoldInv` and `ExitInv` |
| `InputsAreAccounted`, `AppliedIsGiven` | `InputsAccounted`, `AppliedWasGiven`, assuming `NoReopen` | `Apart`: a thread has one open runner (`RunnersKept`), and its mailbox is what its session counts as pending and no Run has read (`InputsPlaced`) |
| `CancelsStayInThread` | `CancelStaysInThread` of `Wire` | `CancelsAsked`: a runner's flag goes back to a cancel in its thread, and runners do not change threads (`Owned`) |
| `InputsSurviveCrashes`, `StateFileStaysCurrent`, `RetriesStayRecognised` | `InputsAccounted`, `StateFileCurrent`, `RetriesRecognised` of `Recovery` | `RecoveryInv`: what stands in memory in each state of the process, the mailbox as the unread part of pending, and for each crash what the disk lacks |
| `ExecutionsAreAccounted`, `RecordedSubmissionsOnce` | `ExecutionsAccounted`, `RecordedNotRepeated` of `ToolRun` | `RunInv`: ids of planned calls are new, a batch holds no two conflicting calls, and each job state says what permit, intent and effect there is by then (`Progress`) |
| `HistoryIsRepaired` | `HistoryRepaired` of `ToolRun` | `HistInv`: until a crash tears it, the conversation is settled round by round (`Settled`), but for the last round while a batch is under way (`OpenRound`); whatever is loaded, `Repair` makes it well-formed |
| `AgreementsOutlive`, `TrackerImplementsLedger`, `ApprovedStays` | `AgreementsKept`; `LedgerKept`; the ledger's `Frozen`, for the tracker | what is approved was blessed and what an update made done rests on it (a step a client's proposal brought as done is `claimed` until it is updated); every step of `Plans` is a step of `PlanLedger` or a stutter; the third follows through the refinement |
| `JobsStayAccounted` | `JobsAccounted` | `SubInv`: the copies that processes hold tell the truth too, and a process that runs alone has a copy that is up to date |
| `FileStaysKept` | `FileKept` | `FileInv`: up to one damage, what two writes had is with the owner, in the file and in the `.bak`, but for the lines a damage made unreadable (`SkippedLines`) |
| `ArtifactsStaySound` | `ArtifactsSound` | `ArtInv`: which fields of a manifest are still its sender's word (`said`), and what the others rest on; `KeepsVersions` of each step |
| `LeasesAreSound` | `LeasesSound` | `LeaseInv`: as long as no two scripts overlap, the state is what the script at work has left to write (`AtWork`) |
| `ProjectsAreSound` | `ProjectSound` | `GateInv`: tasks made and tasks in hand come from one recommendation each (`OnceEach`) |
| `SettingsAreSound` | `SettingsSound` | `SettingsInv`: for each process what it has read and what it may write (`Fits`), and for the user's file whether a command is between truncating and filling it (`SaidIsKept`); what commands wrote is never replaced by a start, because a start publishes only a missing file |
| `ChangesAreSound` | `ChangesSound` | `ChangesInv`: a tracked file without an inexact change has both ends right (`EndsTrue`) |
| `TurnsAreSound`, `PanelIsSound` | `SkillTurns!TurnSound` and `PanelSound`, parts of `ShelfSound` | `TurnInv`: what stands between two turns in runner, view and process; `PanelInv`: what each command has seen and may still act on (`JobKnows`), unless it had no catalogue to look at |
| `SandboxIsSound` | `SandboxSound` | `GuardInv`: how far each call has come says what took effect (`Settled`) and who may still stray (`Straggler`); until two calls meet one is at work, alone, and no environment is up but the handle's and those left by a cancelled start or a failed removal (`Started`, `HostStays`) |
| `ChainIsSound` | `ChainSound` | `ChainInv`: a run whose steps are under way (`Underway`) has its own files up to the step it stands at (`OwnFiles`), and the summary is checked against those |
| `FramesAreSound` | `FramesSound` | `FrameInv`: what the stack holds for each frame by its place (`Stacked`), what it used of its budgets (`Limits`), and each steer in one place, told or waiting (`Once`); an open sandbox is of a frame on the stack or `cut` |
| `MountsStayWhole` | `MountTypeOK`, `MountsWhole`, parts of `TurnSound` | `MountInv`: the store's digests are whole or known torn, and each activation says what is behind it (`Behind`) |
| `SkillsStayCurrent` | `SkillRunTypeOK`, `SkillKept`, `SkillsCurrent`, parts of `TurnSound` | `SkillInv`: what an install at each step has left in target and backup (`InstallFits`), what a reload has read unless something changed under it (`Reads`), what a turn was given (`Views`) |
| `RequestsAreSound`, `TurnIsSound` | `ContextSound`; `TurnSound` of `MCAgents`, with the two above | `ContextInv`: a conversation has every call with its results in the round of that call (`Paired`) and ends, while a Run works, with something the model has not answered |
| `TimelineIsTrue`, `FrontIsSound`, `TextFrontsAreSound`, `TerminalIsSound` | `TimelineSound`, `FrontSound`, `TextSound`; `TerminalSound`, all three | `TimelineInv`: only the last item is open and what is cached for a width is what the item was; `FrontInv`: what is live has an owner, and answered calls are remembered; `TextInv`: one client works, its sink holds its own Run, and a line typed answers the question it was asked for |
| `CommandLoopIsSound`, `CommandsAreSound` | `CommandsSound`; `CommandLoopSound` | `CommandInv`: between two commands each table (runners, registry, waiters, turns, directories) agrees with the others (`TableInv`), what opens or exits is known (`OpeningSound`, `StoppingRuns`), and with one conversation at a time one runner is open (`PlainTables`), beside those of failed assemblies (`Leaked`) |

**Why they are inductive.** `WriteExclusion` is not inductive: nothing in it says why a
second Run cannot start. `HoldInv` does: a live Run holds its workspace's lease, is its
session's Run, and its loop has seen either no id or its own; a registered turn belongs
to a live or ending task; at most one end is under way. Two live Runs with one workspace
would hold one lease. `ExitInv` adds what the exit rests on: past the first event the
loop knows its id, and the phase of a working Run admits every outcome, so the terminal
transition is never refused and the release that follows it happens. The other proofs
have the same shape: the promise is about what is left behind, the invariant says what
is on its way.

**The assumptions are necessary**, and section 3 says how to see it: without `AllWrite`
(`ReadInput = {m2}`) `OneWriter` and `OneLoop` fail; without `NoEarlyEnd` (the feature
`early`) `ExitsReleaseAll` does; without `NoReopen` inputs are lost, which is the finding
of `wire_reopen`. `LeasesSound`, `JobsAccounted`, `FileKept` and `SettingsSound` carry
their provisos (no overlap, no process with an old copy, one damage, no lost command) in
the properties themselves, and so do `ArtifactsSound`, `AgreementsKept` (what a client
claims), `FramesSound`, `SandboxSound` (what an error or a cancel cuts short) and
`CommandLoopSound` (failed assemblies, commands that raise),, next to what is still promised without them.

**Sequences.** Settling picks the inputs that no Run has read with `Only`, a subsequence
given by a recursive function. Induction over data is out of the prover's reach as a
rule, but an induction over a natural number for one fixed formula is not: the lemmas
`OnlyKeeps` and `OnlyMembers` take the least position where the claim fails
(`LeastNumber`) and show that there is none. Where a sum, a filter or a chain of calls is
such a function (`Estimate`, `OfRoles`, `Woken`), the lemma `Counting` does the same for
any set of numbers that holds the first and with each one the next.

**Only model-checked.** Liveness (`WaiterServed`, `RunsEnd`, `AnswerReachesCall`), which
needs ENABLED. `NamesSound`, the first part of `ShelfSound`: what keeps the catalogue in
order is a choice among sorted lists, filtered and folded, and the provers cannot
instantiate the induction these definitions need; the other two parts of `ShelfSound` are
theorems. `EmbeddedSound` of `MCClients` is not proved yet (section 5).

## 5. What is left out, and the plan

Not modelled, with the reason:

- *No caller in the program*: external tasks (`harness/external.py` is saved and
  restored, but nothing registers a task), `load_persisted` and the replay of
  `_restore_payload`, `make_activate_skill_tool`, the collector of old snapshots,
  `build_skill_state_event`, `attach_watcher`, `install_skill_catalog`,
  `PlanTracker.complete`, `PlanStore.delete`, deletion of artifacts,
  `recover_pending_intents` and `record_unknown`.
- *Same loop elsewhere*: the HTTP service hosts the wire's command loop behind one lock.
- *Pure conversion or I/O*: parsers, traces, adapters, provider streaming, storage formats
  of conversations, archives, rendering of changes and hunks, pop-ups and wording,
  commands that only read, schema checks of single project files (one flag each).
- *Outside the running program*: evaluations, build files, the desktop editor, single-pass
  skill scripts.
- *Assumed*: `Recovery` takes a save as one step (`AtomicFile` shows what a single write
  promises; a failed save of the state file is only logged by the wire and shows at the
  next save). Two threads of one wire process are in `Wire`, their runners' directories
  in `WireCommands`; the two are not composed. Sandboxes and providers are the outside
  world: they answer, fail, hang or die.

Next, proofs: `EmbeddedSound`, with the lemmas of `SessionOpsProofs` and an invariant like
`HoldInv`; then `NamesSound`, which first needs `SkillResolution` written with recursive
functions in place of sorted lists.

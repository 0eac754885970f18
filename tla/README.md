# DGX Spark Web Manager: TLA+ models and proofs

This directory specifies the parts of the manager and of its host agent whose
correctness depends on the order of events: threads and requests that share
SQLite rows, a root agent that must survive its own crashes, and plans that
must not run without an administrator's decision. TLC checks the modules on
small instances; TLAPS proves most of the safety results for every instance.

`PROJECT.json` lists the components, the runs, the source lines behind every
definition, the hazards, the findings and the theorems.

## 1. The system

One manager process (FastAPI, SQLite through SQLAlchemy) and one host agent
(root, socket-activated systemd service).

| Component | State | Operations | Interacts with | Hard part |
| --- | --- | --- | --- | --- |
| Task engine (`tasks/engine.py`, `api/tasks.py`) | `tasks` rows, three lane threads, a shared wake event | create, claim, finish, pause, resume, cancel, stop, start/recover | every handler; HTTP control | unlocked read-decide-commit, crash between claim and finish, lost wake-ups |
| Job runner (`host_agent/.../runner.py`, `launcher.py`) | job registry, metadata files, process groups, gate pipes | start, get, cancel, worker and reader threads, recovery | agent server; executor | crash at any step, failing writes, processes that outlive the agent |
| Output window (`runner.py`, `operations/executor.py`) | retained bytes, absolute offsets, collected text | append, snapshot, poll, consume | executor and agent across a socket | retention limit inside a character, gaps between polls, offsets after a restart |
| Operation plans (`api/diagnostics.py`, `operations/executor.py`, `api/settings.py`) | sessions, plans, their tasks | message, approve, reject, clear history, claim, steps, save | task engine, agent | concurrent administrators, stop half-way, restart in a step |
| Orchestrator (`services/ops_orchestrator.py`) | session status, messages, tool runs | respond loop, release, recover | provider, agent tools | deadlines against late answers, restart in a tool |
| Agent server, protocol, client (`server.py`, `protocol.py`, `services/ops_agent.py`) | nonce cache, connection slots, handlers, read jobs | accept, read, verify, dispatch, await, answer; open, send, receive, validate | job runner | duplicated frames, the age of requests and answers, read jobs against their deadline, slots |
| Deployments (`services/deployments.py`, `api/deployments.py`) | deployment rows, containers, ports | create, update, start/stop/restart/delete, rebuild from the launch contract, rollback, recovery | Docker, task engine, discovery | container identity, partial replacement, crash between Docker and the database, scans in between |
| Model lifecycle, downloads, discovery (`services/model_lifecycle.py`, `tasks/huggingface.py`, `services/discovery.py`) | model rows, cache and staging directories, aria2 processes | delete, download, scan | deployments, task engine | delete against use, file threads, resumption from partial files |
| Gateway (`api/gateway.py`, `gateway/`, `services/upstream_gateway.py`, `api/upstream.py`) | in-flight count, metrics, upstream configuration, model cache, streams | route, relay, translate, list, edit | deployments, upstream | chunk boundaries, callers that leave, a configuration edited meanwhile |
| Providers | configuration revision, test results | edit, test | orchestrator, gateway | a test result for an older configuration |
| Recommendations, runtimes, image studio, auth, system, audit | caches, derived values | estimate, render, log in | deployments | mostly pure |
| Frontend, scripts, migrations, templates | | | | outside this project |

How the database is used matters everywhere: `app/db.py` opens plain
SQLAlchemy sessions (`autoflush=False`, no version column). A SELECT holds no
lock (SQLite ignores `FOR UPDATE`), and a flush writes only the columns whose
assigned value differs from the *loaded* one, `WHERE id = ?`. Operator
`Column` of `TaskStates` is that rule. An operation that reads, decides and
commits is therefore two actions.

What makes each component correct:

- Task engine: a row says running only while its lane runs it; status changes
  follow the documented table; equal work is not live twice; a lane dies only
  of the races of section 4; queued work is finished.
- Job runner: no command without a recorded identity; none unwatched; a final
  status stays; jobs end; launchers leave.
- Output window: offsets tell the truth; nothing is repeated or silently
  dropped; a healthy agent is never rejected.
- Agent server: a call is accepted once; a timely answer is never refused as
  stale; a read job is awaited or reported.
- Orchestrator: the session is always released; abandoned calls never exceed
  their slots; a tool that failed is not asked again; a tool run that is open
  has a worker.
- Deployments: a row points to a container that exists; a transient status has
  a task that takes it off; ports differ; a delete hits what was seen.
- Model files: a snapshot holds whole files only; no downloader outlives its
  handler; a mark "deleting" has its task; nothing the handler can know to be
  in use is deleted.
- Gateway: every call is counted, and recorded if it reached upstream; streams
  keep their events, whole and in order; a Responses stream is well formed; a
  model list belongs to the upstream it was asked of.
- Operation plans: a plan is decided once and executed only if approved; steps
  run once per start; sessions are never stranded; history of unfinished work
  is kept; approved plans end.

## 2. Modules

| Module | Models | State and actions |
| --- | --- | --- |
| `TaskStates` | `ALLOWED_TRANSITIONS`, `transition_task`, the flush rule | operators only |
| `TaskEngine` | the task engine | `rows` is the table; `lane[l]` and `request[r]` are threads with the row they loaded; `CreateRead/Commit/Conflict/Reread`, `ControlRead/Commit`, `ClaimRead/Commit`, `WaitWoken/TimesOut`, `HandlerEnds`, `FinishRead/Commit`, `Stop`, `ProcessEnds`, `Start` |
| `JobRunner` | one job's threads, file and processes | `job` is memory, `disk` the files, `procs` the live processes, `gate` the pipe; one action per section of `_run` between two points where a crash can fall; `Crash`, `Restart`, `Load...`, `Serve` |
| `OutputWindow` | `_append_output`, `get`, `_consume_output` | a byte is its absolute position, a character its first position; agent and executor interleave |
| `PlanLifecycle` | abstract: what a plan promises | `Propose`, `Decide`, `Execute`, `Conclude`, `Clear` |
| `OpsPlans` | sessions, plans, their tasks, the control-lane worker, requests | two-step requests; `Respond...` for `ops.respond`, `Execute.../Step.../PlanCompletes` for `operation.execute`; implements `PlanLifecycle` |
| `OpsResponse` | the response loop of `ops_orchestrator.py` with `_BoundedCallRunner` | `worker` is the control lane, `late` the abandoned call threads, `open`/`failures`/`intents` the stored tool runs and messages; `Claim`, `ClaimSession`, provider turns, tool steps, `DeadlinePasses`, controls, crash and recovery |
| `AgentServer` | the agent's socket server and the manager's client | `conn` and `handler` are the two ends, `nonces` the cache, `clock` whole seconds; frames may arrive twice; the agent may restart, and systemd keeps the listening socket meanwhile |
| `Deployments` | the handlers of `services/deployments.py`, their API, `scan_containers` | `rows`, `box` (Docker), `tasks`, `h` (the running handler, one step per transaction or Docker call), `scan`; `Crash`, `Restart`, `Exits`, `Recreated` |
| `ModelFiles` | `download_handler`, `delete_handler`, `scan_models` on one model; what refers to it | `stage`, `proc`, `snap`, `tmp`, `main` are the disk; `row` the record; `dl` has one thread per file; `x` deletes; `ref` are the deployments that refer to the model, which `Deploy`, `Undeploy` and `scan_containers` change |
| `ResponsesStream` | the translator of `gateway/responses_stream.py` | operators on its state: `start`, `_ensure_...`, `delta`, `feed`, `close`, `finish` |
| `Gateway` | routing, relays, accounting, upstream configuration and model cache | `r[c]` is a call and the pieces of its stream; `cfg` committed rows, `edit` an open transaction, `cache`; extends `ResponsesStream` |
| `TaskEngineProofs`, `JobRunnerProofs`, `OpsPlansProofs`, `OpsResponseProofs`, `AgentServerProofs`, `ModelFilesProofs`, `GatewayProofs`, `DeploymentsProofs` | theorems about the module each is named after (`JobRunnerProofs` has those of `OutputWindow` as well); the inductive invariants (`IInv`; `WindowInv` of `OutputWindow`; `RelayInv` and `TurnInv` of `Gateway`) are at the end of that module | |
| `MC...` | instances for TLC | model values, functions from them, symmetry |

Definitions marked *mutant* sit beside the definition they vary: each is a
plausible mistake in that code, and each checked property is violated when one
of them replaces the original.

Abstractions worth knowing:

- `TaskEngine`: `result_json` is reduced to what `check_control` reads;
  `input_json` to the work it names; handlers are "return, raise, or stop at a
  `check_control`". `TaskContext.update` (progress, log) is left out.
- `JobRunner`: a metadata write is atomic (temporary file, fsync, rename) and,
  when it raises, may or may not have taken effect. Processes are the leader,
  children in its group, children that dropped the recovery token, and
  processes that left the group. The reader runs beside the worker. The kill
  at recovery is one complete step; in the code a child forked between the last
  listing of `/proc` and the last SIGKILL would escape, and the early returns
  (no pidfds, another boot, `/proc` unreadable) kill nothing. The unit's
  `KillMode=control-group` covers both.
- `OutputWindow`: the redactors are reduced to "whole characters come out of
  the agent's, and the executor's may hold back any suffix until it is
  flushed". The agent retains at least the four bytes of the widest character
  (`server.py` keeps the default of 64 KiB): a smaller window could drop
  everything it is given, and two gaps in a row would then leave two markers
  with nothing between them. A file that `_load_jobs` skips leaves no job and
  no window; `JobRunner` has that step.
- `OpsPlans`: task rows change in whole operations (their races are
  `TaskEngine`'s); claims need not be oldest first; no code edits the steps of
  a stored plan, so digest checks succeed while the row exists; a plan has
  `Steps` steps, each run or skipped. `create_diagnostic` is `create_session`
  followed by a message. The provider/tool loop is one state ("thinking").
  A request that fails with a database error changes nothing and is not an
  action of its own. `_save_plan_result` reads and commits in one step.
- `OpsResponse`: a tool call is its fingerprint, a result its length; the
  provider may answer anything at any time or never. A resume of a running
  task is left to `TaskEngine`.
- `AgentServer`: signatures always verify for frames the client made; jobs end
  or not, as `JobRunner` says. Work between two waits takes less than a
  second, except across the one boundary the clock may pass.
- `Deployments`: a specification stands for its fingerprint without the port;
  what preflight learns about models, memory and runtimes is one choice. A
  Docker container object keeps the name and status of its last reload
  (external). The control lane runs one handler at a time, as `TaskEngine`
  shows. A rollback is one step per Docker call. A scan reads all containers
  and rows at one moment and commits later; the code reads container by
  container. `updated_at` is not kept: a recovery may find its row changed at
  any time. A launch contract has the port of its row and the managed label,
  which the code does not check. The manager's own containers, which
  `_validate_action_container` refuses, are not among those of the model.
- `ModelFiles`: one repository with one commit, two files (one with the
  weights), or a local directory. aria2 and `hf cache rm` are external and die
  with the manager (one control group). Every selected file has a known size;
  a copy instead of a link may be cut off by a crash, and a deletion in the
  middle of it counts as one before it. A deployment's reference appears in one
  step, when its row is committed: by a create in the control lane, or by a
  container scan in a request thread.
- `Gateway`: an SSE event is three pieces and a chunk any run of them; round
  robin is any candidate; the caller's key is valid. Request and response
  bodies are reduced to modalities and event kinds. A delimiter of SSE is one
  piece, never cut. A tool call has the index 0 or none, and every piece of it
  has arguments.

## 3. Runs

| Run | Shows | Bounds |
| --- | --- | --- |
| `task_engine_control` | `TypeOK`, `RunningIsHeld`, `UndocumentedOnlyByRace`, `LaneDiesOnlyByRace` | 2 request threads, all controls, restart |
| `task_engine_queue` | `OneLiveTaskPerInput`, `QueuedIsFinished` when nobody uses the controls | 3 tasks on 2 lanes, 1 key, 3 calls, 1 restart |
| `job_runner` | `IdentityBeforeCommand`, `NoUnwatchedCommand`, `TerminalOnDiskIsFinal`, `JobEnds`, `LauncherLeaves` | 1 job, 2 restarts, 2 failing writes, files of any size |
| `output_window` | `WindowIsSuffix`, `NoSilentGap`, `DoneHasTail`, `FailsOnlyAfterLostWrite` | window of 4 bytes, characters of 1, 2 and 4 bytes, 9 bytes written, 1 lost write |
| `ops_plans_one` | `StepOncePerStart`, `UnfinishedPlanIsResumable`, `FollowsLifecycle` (refinement), `ApprovedEnds` | 1 request at a time, all controls, 1 plan of 2 steps, 6 calls, 1 restart |
| `ops_plans_races` | `ProcessingIsHeld`, `ApprovalIsDecidable` | 2 concurrent requests, 2 plans, 6 calls, 1 restart |
| `ops_response` | `OpenRunHasItsWorker`, `CallsAreBounded`, `FailedToolNotRepeated`, `ResponseEnds` | 1 task claimed up to 3 times, 2 tools, 1 call slot, 1 restart, all controls |
| `agent_server` | `AnswersAreFresh`, `ReadJobIsAwaited`, `AcceptedOnce` | a read and a shell call, one frame duplicated, 2 handlers, 2 nonces, 1 restart, 3 seconds |
| `deployments` | `RowKeepsItsContainer`, `TransientHasItsTask`, `PortsDiffer`, `DeleteHitsItsSnapshot` | 3 specifications, 2 tasks, 4 containers, 2 requests beyond them, 1 crash, 1 fault of Docker |
| `deployments_rollback` | violates `RollbackRestores` | 1 edit, no crash, no fault |
| `model_files` | `SnapshotsHoldWholeFiles`, `NoStrayDownloader`, `DeletingHasItsTask`, `NoDeleteInUse` | 2 files, a download, 2 deletions, 3 requests, 1 crash, 1 fault |
| `gateway` | `CallsAreAccounted`, `RelaysKeepEvents`, `ResponsesAreWellFormed`, `ListsAreOfTheirUpstream` | 2 callers, streams of 2 and 1 events in chunks of up to 4 pieces, 2 upstreams, 1 edit, 1 failing metric |

Why the bounds are enough: a race here has two parties and one row, so two
request threads and one lane per task type produce every pair; a third lane
adds nothing because lanes share only the wake event, of which two lanes
already steal from each other. One restart puts a crash at every point; two
put a crash inside recovery. Jobs share no state but the agent's up/down
cycle and the loop over files, so one job meets every case of its own. A
window smaller than a four-byte character, and more bytes than
two windows, make every kind of cut happen. `MaxCalls` covers session,
message, approval and three further calls, more than any counterexample found
needs. Two deployment tasks are an operation and one that meets what the first
left behind; one crash and one fault fall at every step of either. Two callers
are what it takes to share the count and the cache, and two events what it
takes to cut one event and begin the next in the same chunk. Symmetry is used
in safety runs only.

Most runs switch the deadlock check off: a finished client, an agent whose
jobs have ended, and an idle manager whose administrators make no call, stop.

Fairness: lane and worker threads are scheduled by the operating system and
handlers bound their own waits (provider, tool and job deadlines), a stopped
manager exits and is restarted by its supervisor (`compose.yaml:8`,
`install-native.sh:86`), a closed pipe delivers end of file. The agent's unit
has no `Restart=`: systemd keeps its socket and starts the agent for the next
client, and there is one, for the executor polls a job until it ends. Nothing is assumed of administrators, clients or
commands: neither a control call, nor the end of a command, nor the end of its
output is fair.

## 4. Findings

One disagreement has a run whose counterexample is the behaviour described:

1. `deployments_rollback`: when an edited deployment's replacement does not
   become healthy, `update_handler`'s rollback asks the container object for a
   name and a status cached before the stop and the rename. Both tests fail,
   and the old container stays stopped under its backup name
   (`deployments.py:1593`; `_rebuild_action_container_from_contract` reloads
   first). `backend/tests/test_deployments.py:5017` and `docs/API.md:666` say
   it is restored.

The other behaviours below are in the models too. Where a property would
forbid one, its statement names it as an exception, or the run's constants
exclude it; the property's comment says which.

Tasks and plans:

- A cancel that loaded a queued row commits after the claim; `_finish` then
  raises outside the `try` (`engine.py:228`) and the lane's thread ends, so no
  task of the lane runs until the manager restarts. A resume of the running
  task does the same. `LaneDiesOnlyByRace` says that nothing else ends a lane.
- `resume` is accepted on a running task (`ALLOWED_TRANSITIONS` lets running
  go to queued for restart recovery). `UndocumentedOnlyByRace` names it as one
  of the two sources of undocumented transitions, `ApprovedEnds` as a way to
  end the lane's thread.
- `create_task` releases the key of a finished task; a failed or cancelled one
  can then be resumed while its replacement is unfinished, and the same work
  is live twice (`engine.py:130`). `OneLiveTaskPerInput` is therefore checked
  without controls.
- An approval and a rejection that both read `pending`: the later commit wins,
  and a rejected plan may be executed (`diagnostics.py:398`;
  `docs/TROUBLESHOOTING.md:42` says a rejected plan remains rejected).
- `cancel_requested` is never reset when a cancelled task finishes, and the
  history clear counts it as active (`settings.py:92`), so the clear refuses
  until the task is resumed, contrary to `docs/TROUBLESHOOTING.md:48`.
- Cancelling a queued `operation.execute` leaves its plan approved and its
  session waiting until the task is resumed (`UnfinishedPlanIsResumable`).
- With two administrators, the history clear may delete a plan approved after
  its checks, two approvals may execute a plan twice, and two messages that
  both pass the check for an active response are answered with one task, the
  second text being dropped. `FollowsLifecycle` and `StepOncePerStart` are
  therefore stated for one administrator request at a time.
- A restart runs the steps of an executing plan again from the first
  (`StepOncePerStart` counts it), while an agent job of the earlier attempt
  may still run.
- A succeeded tool result that exceeds the limits is stored without its
  status and counts as a failed call afterwards (`_bound_payload`).

Host agent:

- Job metadata that JSON escapes inflate past `output_limit * 4 + 4096` is
  skipped at recovery (`runner.py:844`), so its command is not terminated by
  the agent; `NoUnwatchedCommand` and `JobEnds` exclude such files.
- A client that times out on `shell.execute` leaves the started job unwatched
  until its own timeout (`executor.py:241`).
- A handler delayed across its nonce's expiry, or a restarted agent, may
  accept a duplicate; `AcceptedOnce` is about one agent process.

Deployments and models:

- After a crash between the commit of an edit and the removal of the old
  container, the startup scan may insert a row whose route name is taken; the
  resulting `IntegrityError` is not caught (`discovery.py:528`, `main.py:254`)
  and the manager does not start.
- The retry of an interrupted create or edit fails its preflight when its own
  replacement still holds the port; a scan during a create's health wait
  inserts a row that makes the create's insert fail; a scan between an edit's
  commit and its clean-up may insert a row for the old container.
- Cancelling or pausing a start or restart during its health wait leaves the
  row "starting" until the task is resumed (`TransientHasItsTask`). A rebuild
  cut off by a crash leaves the old container under its backup name, and later
  actions refuse it.
- A resumed download whose predecessor died while assembling the snapshot
  takes its sources from `snapshots/.<hash>.incomplete`
  (`resolve_hf_snapshot` falls back to the newest directory), then removes
  that directory (`huggingface.py:644`) and fails, contrary to
  `docs/ARCHITECTURE.md:116`. A scan at that moment reports the incomplete
  directory as available.
- A scan that read a model's record before a deletion marked it writes
  `metadata_json = {}` over the mark (`discovery.py:279`): the record can stay
  "deleting" with no task id. It takes two scans: the first, which read
  "available", commits "unavailable" over the mark and leaves the task id; the
  deletion fails and is resumed; the second, which read that record, empties
  the metadata of the resumed deletion. When the deletion is then paused or
  cancelled, its restore and its resumption find "another task", and new
  requests are answered 409 (`model_lifecycle.py:625`). Five requests are
  needed, two more than the run `model_files` allows: the attempt to prove an
  earlier form of `DeletingHasItsTask` showed it, and TLC then found the 21
  states. The property is now about records that carry a task id.
- A container scan in a request thread inserts or rewrites rows whose
  `config.model_path` counts as a reference (`discovery.py:383`,
  `model_lifecycle.py:278`). When it commits between the check of a deletion
  (`model_lifecycle.py:598`) and the removal, files that a container uses are
  removed. `NoDeleteInUse` excludes exactly these late references; one that is
  there when the handler runs again after a crash stops it, and restores
  "available" on files that may be half removed.
- A delete that is re-entered and then cancelled at its first check restores
  "available" on partly deleted files; a cancelled re-entry in the queue
  leaves "deleting" until it is resumed.

Gateway:

- A metric that cannot be written in a relay's `finally` skips `on_finished`
  (`proxy.py:272`), and `active_requests` never returns to 0
  (`docs/API.md:125`); `CallsAreAccounted` allows exactly that.
- The local chat relay drops an unterminated last event, the fallback and the
  Responses relay keep it. A broken chat stream is recorded as 499, a broken
  fallback or Responses stream with upstream's 200. An error body that breaks
  off leaves no metric, and neither does a whole answer of a Responses turn
  that `from_chat_response` raises on (`api/gateway.py:1242`: JSON that is no
  object, or a usage that is no number); `CallsAreAccounted` names both.
- The exposure, the URL and the key of the upstream are read by three SELECTs; a list may be
  cached under the old configuration after `put_upstream` invalidated the
  cache and before it commits. `cache_key` uses only the length of the key, so
  `ListsAreOfTheirUpstream` is about URLs.

## 5. Proofs

Each proof module ends in theorems `Spec => []P` (or `Spec => P` for an action
property and the refinement). Behind them stands one inductive invariant, which
TLC checked on the instance of the module's run before it was proved. The
proofs have one lemma per action; the facts about records and sets that several
of them share are lemmas of their own. The assumptions on the constants are the
named `ASSUME`s of the modules: sets are sets of the right kind and finite
where the model counts them, bounds are natural numbers, markers such as
`NoRow` are not values, and a time limit is at most the age it must fit in
where the code checks or fixes that.

### Task engine

`TaskEngineProofs` proves, for any sets of tasks, keys, lanes and requests,
any lane assignment and any bounds (`TaskEngineAssumption`):

- `TypeCorrect`: `Spec => []TypeOK`;
- `RunningHeld`: `Spec => []RunningIsHeld`;
- `OnlyRacesLeaveTheTable`: `Spec => UndocumentedOnlyByRace`.

`RunningIsHeld` is not inductive: a claim commits `running` without looking at
the row again, so one must know that the claiming lane holds a task of its own
filter; a control commit writes a status computed from a stale row, so one
must know that it never computes `running`; and a lane that leaves its task
must have written a status other than `running`. `SessionInv` says what an open
session remembers (what it loaded and what `transition_task` or the endpoint
accepted), and `IInv == TypeOK /\ SessionInv /\ RunningIsHeld` is inductive.
`TypeStep`, `SessionStep` and `HeldStep` prove the three parts, one step per
action; `FlushType` and its companions are the facts about records they cite;
`Inductive` combines them. `OnlyRacesLeaveTheTable` follows from the same
invariant: a session whose loaded status is still the current one writes what
`ControlDocumented` and `OutcomeDocumented` say. So does
`LanesDieByRacesOnly`: `Spec => LaneDiesOnlyByRace`, since a session that loaded
`running` and is no resume computes `running` again, and every outcome of a
handler is a transition from `running`.

When nobody uses the control endpoints (`NoControls`, the instance of run
`task_engine_queue`), it also proves

- `WorkIsNotDoubled`: `Spec => []OneLiveTaskPerInput`.

With controls it is false (section 4): a resume revives a finished task whose
key was released. Without them a lane finds the status it left (`queued` when
it claims, `running` until it has finished), a request releases a key only of a
task that has ended and stays so, and unfinished work keeps its key, which the
UNIQUE constraint keeps unique. `QueueInv` says this; it is inductive relative
to `IInv`.

### Job runner

`JobRunnerProofs` proves, for any set of jobs and any number of restarts and
failing writes (`JobRunnerAssumption`):

- `TypeCorrect`: `Spec => []TypeOK`;
- `IdentityIsDurable`: `Spec => []IdentityBeforeCommand`;
- `CommandsAreWatched`: `Spec => []NoUnwatchedCommand`;
- `TerminalIsFinal`: `Spec => TerminalOnDiskIsFinal`.

None of the three safety properties is inductive: each depends on where the
worker is and on what memory and file hold when a write fails. `JobInv(j)` says
it for one job: the gate stays shut until the identity is in the file and in
memory, so that every later write repeats it; a job its worker has not finished
is not finished in its file either, and afterwards the file differs from memory
at most by a write that failed; the group is gone before a status says so; and
recovery is done with a job it has read. `UnreadInv` says recovery reads only
files that exist and all of them before the agent serves. `IInv`, the type
invariant with both, is inductive: one lemma per action shows that it keeps the
invariant of its own job and leaves the others `Untouched`; the steps of the
loader, a crash and a restart, which touch the agent itself, show it for all
jobs; `FinishInv` and `ProcsShrink` carry what several of them share.

### Output window

In the second half of `JobRunnerProofs` (`OutputWindowAssumption`), for every
limit on what the agent retains and the executor collects, every way to cut
the stream into chunks and every number of lost writes:

- `WindowInvariance`: `WindowSpec => []WindowInv`;
- `WindowsTellTheTruth`: `WindowSpec => []WindowIsSuffix`;
- `OutputHasNoSilentGap`: `WindowSpec => []NoSilentGap`;
- `FinishedStepsHaveTheirTail`: `WindowSpec => []DoneHasTail`;
- `HonestAgentsAreBelieved`: `WindowSpec => []FailsOnlyAfterLostWrite`.

The collected output alone says nothing about what comes next, so `WindowInv`
follows it through the agent and the wire. Every offset somebody holds is an
`Edge`: a character begins there, or nothing has been written from there on
and the next chunk will begin there. A restart that loses a write may put the
window behind the executor's offset; `AgentInv` and `ClientInv` say that this
takes a lost write and a dead reader. `AnswerInv` says that the snapshot under
way is valid, starts where the executor stopped, or behind a gap that has
swallowed a character. `CollectedInv` says that below the character limit the
parts *and* what the redactor holds back are everything read so far, up to the
offset.

The lemmas are about the operators: `SkipFacts`, `CutFacts` and `GrownFacts`
(a window grows by whole characters, ends where the chunk ends and is never
empty), `SnapshotFacts`, `TextFacts` (decoding yields the characters that begin
between two offsets, in order), `LinkedText` and `LinkedGap` (reading on
with and without a gap), `FeedFacts` (emitting a prefix and holding the rest).
`Skip` and `Text` are defined over data of any length; their lemmas argue by
the least counterexample (`LeastNumber`, from the library's `WFMin`) instead of
by induction.

### Agent server

`AgentServerProofs` (`AgentServerAssumption`, which includes that the server's
deadline for read jobs plus one second fits in the age the client accepts, 21
seconds against 30 in the code):

- `AnswersStayFresh`: `Spec => []AnswersAreFresh`;
- `ReadJobsAreAwaited`: `Spec => []ReadJobIsAwaited`;
- `FramesAreAcceptedOnce`: `Spec => AcceptedOnce`.

An answer is fresh when it is read because it was fresh when it was sent
(`ConnInv`; the model lets no second pass between writing an answer and
reading it, as it lets none pass in other work that does not wait); it was
fresh when it was sent because the thread's place bounds the time since it
read the clock (`HandlerInv`), the wait for a slot and the read job's run
included. A frame is not accepted again because every accepted call
is in the cache with the time its frame becomes too old, or that time has
passed (`NonceInv`): eviction takes expired nonces only, and a full cache
refuses.

### Operation plans

`OpsPlansProofs`, for any number of concurrent requests (`OpsPlansAssumption`):

- `ProcessingSessionsAreHeld`: `Spec => []ProcessingIsHeld`;
- `ApprovalsAreDecidable`: `Spec => []ApprovalIsDecidable`.

The second needs more than its statement, since two decisions may be under way
about one plan: `WaitInv` says that a waiting session has a plan that is
unfinished *and* that whoever is about to reject it saw the session waiting and
will release it. The invariant also says that tasks and requests are about
things that exist, although the history clear deletes them.

Under `OneAtATime`, one administrator request in progress (the instance of run
`ops_plans_one`, and what the findings of section 4 make necessary):

- `StepsStartOnce`: `Spec => []StepOncePerStart`;
- `UnfinishedPlansAreResumable`: `Spec => []UnfinishedPlanIsResumable`;
- `ImplementsLifecycle`: `Spec => FollowsLifecycle`, the refinement of
  `PlanLifecycle`.

`OneInv` adds what a request read and still holds at its commit
(`DecisionInv`), that the executor's plan is the one it loaded and is concluded
when its task ends (`ExecutorInv`), that an unfinished plan has its task
(`Resumable`), and how often each step has run, given where the executor is
(`RunsInv`). The refinement goes action by action: a step maps to `Propose`,
`Decide`, `Execute`, `Conclude` or `Clear`, or leaves the plans alone.

### Response loop

`OpsResponseProofs` (`OpsResponseAssumption`):

- `OpenRunsAreOwned`: `Spec => []OpenRunHasItsWorker`;
- `CallThreadsAreBounded`: `Spec => []CallsAreBounded`;
- `FailuresAreRemembered`: `Spec => FailedToolNotRepeated`.

`SessionInv` ties the session's status and the open run to the worker's place,
`MemoryInv` the failures that happened to the ones stored and to the set the
worker rebuilt from them, for as long as it may still queue a tool.

### Model files

`ModelFilesProofs` (`ModelFilesAssumption`):

- `SnapshotsStayWhole`: `Spec => []SnapshotsHoldWholeFiles`;
- `DownloadersAreWatched`: `Spec => []NoStrayDownloader`;
- `MarksAreOwned`: `Spec => []DeletingHasItsTask`;
- `NothingInUseIsDeleted`: `Spec => []NoDeleteInUse`.

That a linked file is whole depends on the thread that fetched it, its
process's exit code and whether the file came from the cache (`Fetched`). That
a mark keeps its task depends on the open scan, which may write an old
decision over it: `Harmless` says a scan never writes a mark or a task id of
its own, and ids are not given twice, so a dropped record does not come back
(`RecordInv`, `DeletionInv`). That nothing known to be in use is removed
depends on the lane, which a create and an undeployment share with the
deletion, and on `late`, which says that a found reference is younger than the
check of this run.

### Gateway

`GatewayProofs` (`GatewayAssumption`):

- `EveryCallIsAccounted`: `Spec => []CallsAreAccounted`;
- `ListsKeepToTheirUpstream`: `Spec => []ListsAreOfTheirUpstream`;
- `EventsAreRelayedWhole`: `Spec => []RelaysKeepEvents`;
- `ResponsesStayWellFormed`: `Spec => []ResponsesAreWellFormed`.

`CallOK` says what a call knows in each phase; the count is the cardinality of
the calls that `Counts` names, so each action is shown to add or remove at
most its own caller; and a cache entry holds what its URL published.

`RelayInv` is behind the streams: what `stream_body` keeps is the unterminated
rest of everything upstream sent, and what it wrote parses into the frames
before it, with nothing left over. That a chunk keeps it is a fact about
`Split`, the cut of a buffer into frames, which is proved first: `SplitGoesOn`
(cutting the kept rest with a chunk behind it goes on where the cut of
everything before had stopped) and `WholeFrames` (a buffer without its rest
has the same frames). Both are inductions over sequences; the induction rule
`ByOneMore` is about a set instead of a predicate, so that the provers can
use it, and `SplitAppend` first shows that the recursion in `Split` computes
what it says.

`TurnInv` is behind the Responses turns. An unfinished translator
(`TranslatorOK`, `Open`) has one item per `item.added` frame, opened in the
order of the output indices; items have different keys, and `_tool_order` has
those of the tool calls; each item has the text that the deltas of its index
spell (`Spells`: a monotone enumeration of those frames); and all texts
together have the ordinals of the events that upstream terminated (`Heard`).
The proof climbs with the code: one frame more (`EmitKeeps`), one delta
(`DeltaKeeps`), one item opened (`OpenKeeps`), one event (`FeedKeeps`), the
frames of a buffer (`FeedHears`), a chunk behind the kept rest (`ChunkHears`,
again by `SplitGoesOn`). At the end `LastEvent` says which readable event the
unterminated rest still brings, `Closing` which items `finish` has closed, and
`FinishFacts` that each of them is closed once when `response.completed` is
sent. `Feed` and `closed` are recursive functions; that they compute what their
equations say (`FeedsExist`, `ClosedExists`) is proved with one lemma about
iteration (`Iterated`).

### Deployments

`DeploymentsProofs` (`DeploymentsAssumption`), for any specifications, ports,
tasks, containers, requests, crashes and Docker faults:

- `Invariance`: `Spec => []IInv`;
- `RowsKeepTheirContainers`: `Spec => []RowKeepsItsContainer`;
- `MarksHaveTheirTask`: `Spec => []TransientHasItsTask`;
- `PortsStayDifferent`: `Spec => []PortsDiffer`;
- `DeletesHitTheirSnapshot`: `Spec => DeleteHitsItsSnapshot`.

Rows, containers, the running handler and an open scan are written by
different parties at different times, and none of the four properties survives
a step without the others. `BoxOK`, `RowOK` and `Bound` say what a row and its
container have in common (name, label, specification, port). `HandlerOK` says
where the handler is and what it relies on there: what an edit has renamed and
created so far (`UpdateInv`), what a rebuild has (`RebuildInv`), that the port
it found is its own until it commits (`OwnPort`), and that what it waits for is
still there (`Waiting`, `Spare`). `ScanOK` bounds what an open scan may write
over rows it read earlier. `MarkOK` ties a transient mark to the snapshot its
task will act on, and `CidsDiffer` keeps two rows from one container. There is
one lemma per action; what several share is in `Frame` and `Moves` (steps that
leave the rows or Docker alone), `RowCommit`, `Undisturbed` and `Written`.

Looking for this invariant corrected the model where it said more than the
code does: a rename onto a taken name fails in a rollback too; the table's
unique columns make a rebuild's commit and a recovery's sync fail; a search
for a port among none returns nothing; a container needs a free id.

### Only model-checked

- Liveness (`QueuedIsFinished`, `JobEnds`, `LauncherLeaves`, `ApprovedEnds`,
  `ResponseEnds`): fairness and ENABLED are outside the proof system's reach.

Every safety invariant and every action property of the passing runs is stated
by a theorem.

## 6. Plan

Done: the task engine, the job runner and its output window, operation plans
and their refinement, the response loop, the agent server, deployments, model
files, the gateway. Left, in this order:

1. `Providers`: the configuration revision against a probe that answers after
   the configuration changed; the capability and recommendation caches.
2. The image studio's handler, and the Magpie middleware beside the gateway.

Not modelled, and why: the frontend and its styles, chat templates,
migrations, install scripts and image builds (no shared state with the
components above, or shell transactions against systemd and Docker); argument
validation, command-line construction, redaction patterns, prompt text and
JSON translation (stateless data conversion); deployment recommendations,
model evidence and the resource estimator (scoring of documents and arithmetic
on sizes, one question at a time); log-in sessions, audit rows and resource
collection (stateless or append-only).

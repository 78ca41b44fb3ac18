# OmniTask execution core in TLA+

OmniTask runs a user's goal in a browser: a NestJS backend plans it, checks the
plan against policies, holds it at an *automation gate* until the user
approves, and then either hands it to a Python browser engine over Redis or
executes it step by step in a Chromium of its own. Beside this path there is an
older one: tasks created over REST, planned, queued in Bull and judged by a
critic. This directory models the parts where the difficulties are:

* one execution in the backend's event loop, with the approvals, timers, controls,
  screenshots and unawaited database updates that run beside it;
* one execution in the Python engine, with the queue before it and the relay of
  its events behind it;
* the Python engine's browsers of one user, shared by runs and a collector;
* tasks from the POST that creates them to the verdict, through the idempotency
  guard, the planner, the circuit breaker and the jobs of the queue.

Paths below are relative to `src/apps/backend/src/` unless they start with `src/`.

## The system and what is modelled

| Part | State it keeps | Operations | Talks to | Modelled in |
|---|---|---|---|---|
| Session authority (`agent/runtime/session-manager.service.ts`) | map of live sessions: browser state, gate state, aborting, last emitted states | create, delete, setAborting, setGateState, transitionBrowserState | sockets (emit), database (update nobody awaits) | `SessionAuthority` |
| Execution engine (`agent/execution-engine.service.ts`) | session row, timers | startExecution, handleApprovalResponse, pause, resume, cancel | authority, pipeline, streamer, browser agent | `ExecutionPipeline` |
| Pipeline and stages (`agent/stages/`) | the run's context: step, success, exit reason | run, one `execute` per stage | authority, database, planner, tools | `ExecutionPipeline` |
| Automation gate (`automation-gate-stage`, `runtime/automation-gate.service.ts`) | pending launch requests and their timers | hold, clear, deny, simulate | engine (responses through an event emitter) | `ExecutionPipeline`, abstractly `LaunchGate` |
| Clarification gate (`runtime/clarification-gate.service.ts`) | session status | hold, answer, time out, throw | Redis poll | `ExecutionPipeline` |
| Browser agent, streamer (`browser-agent`, `screenshot-streamer`) | map of browsers, intervals, frame counters | createSession, closeSession, start, stop, frame | authority (READY, RUNNING, STOPPED) | `ExecutionPipeline` (life cycle only) |
| Endpoints (`agent.controller.ts`, `websocket/agent.gateway.ts`) | none | approve, reject, pause, resume, cancel, interrupt | engine, coordinator | the clients and controls of `ExecutionPipeline` |
| Multi-agent coordinator (`agent/multi-agent-coordinator.service.ts`) | list of displayed agents | interrupt in natural language | session row, sockets | `Interrupt` of `ExecutionPipeline` |
| Dispatcher, Python bridge (`runtime/worker-dispatcher`, `runtime/python-bridge`) | Redis list, heartbeat key | isAlive, dispatch | Python engine | `WorkerJobs`; one choice in `Dispatch` of the pipeline |
| Worker event relay (`websocket/worker-*`) | keys for the engine; writes sessions, steps, approvals | one handler per event | Redis channel, authority, database | `WorkerJobs` |
| Python engine (`src/apps/browser-py/executor.py`, `events.py`, `main.py`) | jobs popped, live page, recoveries | pop, run_job, step loop, heal, recover | Redis, relay | `WorkerJobs` (step plans; skills are opaque), abstractly `PlanRun` |
| Python browser manager (`src/apps/browser-py/browser_manager.py`) | contexts, locks and last use per user | get_context, new_page, close_user, close event, gc | Chromium, the engine's runs | `BrowserManager` |
| Idempotency (`idempotency/`) | keys in flight, stored answers | canActivate, getResponse, setResponse, cleanup | handlers, database | `TaskQueue` |
| Circuit breaker (`common/circuit-breaker/`) | one record per name | isAllowed, onSuccess, onFailure | queue service | `CircuitBreaker` |
| Queue, tasks, planning, execution workers (`queue/`, `tasks/`, `planning/`, `execution/`) | task, plan and execution rows, jobs in Redis | create, execute, generatePlan, executeTask, handleTask, completeExecution | each other, Bull, the agents | `TaskQueue` |
| Supervisor, message bus (`agent/orchestration/`, `agent/message-bus/`) | plans of sub-goals, subscriptions | orchestrate, results, errors, cancel | agents by request/reply | no, see below |
| Everything else (auth, billing, memory, planner, frontend, ...) | own tables | CRUD, calls to models | - | no, see the notes in `PROJECT.json` |

`PROJECT.json` lists all components with their files, and the hazards of the
code at their lines, also those no property covers yet.

### What makes it hard

* Nothing is locked: handlers interleave at every `await`. The two that matter
  most read a row, wait, and write what they decided (approval responses and
  expiry timers).
* Two writers feed one session record, and the status column of the database
  has more: the authority (unawaited), the clarification gate, the cognitive
  pause, the denial, the reflection stage, the error handler, cancel, and the
  natural-language interrupt, which writes the column and tells nobody.
* Cancelling a run does not stop it. It sets a flag in a record that it deletes
  a moment later; the run looks at the flag now and then.
* The worker's events are handled as they come: a handler awaits the database,
  and for the last event of a job a language model, while the next one starts.
* The engine keeps popped jobs in memory, repeats steps after crashes, and polls
  keys that another process is to write.
* Timers, screenshots being taken and listeners outlive the run that made them.
* A browser belongs to a user and not to a run: runs, their recoveries, the collector
  and the close event of a browser that died all change one registry, and the event
  does not say which browser it is about.
* A job that times out goes on running while Bull repeats it; a job whose process
  died is repeated as well, and so are calls whose enqueueing failed half way.
* The idempotency guard is over before the handler it guards has begun.
* Calls throw anywhere, inside the step's `try` block and outside it, and inside a
  `setImmediate` callback that nobody catches, which ends the process or loses the run.
* A `close()` whose exception is swallowed leaves a Chromium that no registry knows.

## Modules

`SessionAuthority` has the writes as operators on a session's record
(`WithGate`, `WithBrowser`) because one turn of the event loop often makes two of
them; `Put` and `PutTwice` apply one or two calls to the map and put the
resulting status updates in flight. As a specification of its own
(`AuthSpec`) any owner may make any call at any time. `inflight` counts the
updates issued and not yet applied; `UpdateLands` applies or loses them in any
order.

`ExecutionPipeline` EXTENDS it and adds one execution per session. An action is
the code between two awaits. `pc` says where the run is; each stage's guard and
early returns are the disjuncts of its action.

| Code | Actions |
|---|---|
| `startExecution` | `Start`, `Register` |
| `ClarificationGateService.runGate` | `HoldForClarification`, `Clarify` (relay not subscribed), `PollThrows` (subscribed), `CallbackThrows` |
| the backend's process ending, by an unhandled rejection or from outside | `BackendEnds` |
| goal planning, policy check, gate evaluation (one turn after the plan is stored) | `Plan` with `AutomationGate`, `FailPolicy` |
| `requestLaunchApproval` and what follows its promise | `RequestLaunchApproval`, `ResumeLaunch`, `DenyLaunch`, `Simulate` |
| worker dispatch, `createSession` | `Dispatch`, `ChromeUp` |
| step loop, `preStep`, cognitive pause | `Iterate` with `CognitiveGate`, `BeginStep`, `CognitivePause` |
| `executeStep`, `requestApproval`, `attemptReplan` | `AskForStep`, `RunTool`, `Progress`, `Replan`, `StepThrows` |
| closing, verification, reflection, cleanup | `LeaveLoop`, `CloseEnds`, `VerifyAndReflect` |
| errors outside the step's `try` | `StageThrows`, `HandleError` |
| `handleApprovalResponse` | `CheckReply` (read), `ApplyReply` (write, gate, emit) |
| expiry timers | `TimerFires` (read), `Expire` (write, emit) |
| pause, resume, cancel | `Pause`, `ResumeExecution`, `CancelBegins`, `CancelCloses`, `CancelWrites` |
| `handleNaturalLanguageControl` | `Interrupt` |
| screenshot interval | `TakeFrame`, `FrameArrives` |

`emit` runs its listeners in the same turn, so `ApplyReply` and `Expire` include
`Resume`, what the awaiting run does up to its next await. `granted` is the
only history variable: the requests some response approved after finding them
PENDING.

`LaunchGate` is the abstract promise of the gate: phases deciding, held,
cleared, refused, launched, ended and a set of runs whose launch the user
approved. It knows no requests, timers or browsers.

`WorkerJobs` EXTENDS `SessionAuthority` as well and starts where the pipeline's
`Dispatch` hands over: sessions whose launch was cleared.

| Code | Actions |
|---|---|
| `WorkerDispatcherService.dispatch`, `PythonBridgeService` | `CheckAlive`, `Push` |
| `main.py`: heartbeat, BRPOP loop, the process ending and starting | `HeartbeatExpires`, `Pop`, `EngineDies`, `EngineStarts` |
| `run_job` | `BrowserOpens`, `BrowserFails`, `SkillEnds`, `SkillThrows`, `Finish` |
| `_run_steps`, `wait_for_approval`, wait conditions | `BeginStep`, `PollDecision`, `Act`, `ConditionHolds`, `StepThrows` |
| `_LiveSession.recover`: from the loop, from the page's crash callback | `StepCrashes`, `PageCrashes` |
| `_attempt_healing` and the relay's healing verdict | `Heal` |
| `handleApprovalRequired` | `FindOrCreate`, `HoldStatus` |
| `handleStepDenied`, `handleStepCompleted` | `RejectPending`, `RunningStatus` |
| `handleExecutionCompleted`, `handleExecutionFailed` | `ReadStatus` (check), `WriteVerdict`; `WriteFailure` |
| approval endpoints with `setApprovalDecision`, `cancelExecution`, unawaited updates | `Respond`, `Cancel`, `StatusLands` |

`working` holds the handlers the relay has begun; they finish in any order. Of the
results of a job the model keeps what decides its outcome: their number
(`entries`) and whether one failed. `returned` counts how often the action of
each step returned; it is the only history variable of this module.

`PlanRun` is the abstract promise of engine and relay: a job waits, is open or is
closed; while it is open, the first step not performed yet or the last one that was is
performed; repeats need a recovery each; a closed job stays as it is; and only
a closed job whose steps were all performed once can be recorded as a success. It
has no browsers, approvals, crashes, events or handlers. The refinement mapping
(`Plan` in `WorkerJobs`) reads the phase off `pc`, takes `returned` and `recoveries` as they
are, the number of performances from the engine's own results (`Performances`), and the
successes from the rows of sessions that name no skill.

`CircuitBreaker` has the methods of `CircuitBreakerService` as functions from a
breaker's record to the next one (they do not await). Whether the cooldown is over
is the choice of the caller.

`TaskQueue` EXTENDS it. Requests, jobs and runs of jobs are the actors; all requests
ask for the same plan, which is when they interact.

| Code | Actions |
|---|---|
| `IdempotencyGuard.canActivate`, `getResponse` | `Arrive`, `Lookup` with `Finds`, `Purge`, `Answer` |
| `setResponse`, the TTL, the hourly `cleanup` | `StoreResponse`, `Expire`, `Cleanup` |
| `TasksService.create`, `PlanningService.generatePlan` | `FindOrInsert` with `Reusable`, `GeneratePlan`, `MarkPlanned`, `PlanFailed`, `EnqueuePlan`, `PlanEnqueued` |
| `QueueService.addTaskJob` with the breaker | `AddSucceeds`, `AddFails` |
| Bull (external): active, timeout, stalled, the next attempt | `Take`, `Timeout`, `Done`, `FailedOnce`, `Stalled`, `Restart` |
| `TasksService.execute`, `handleExecuteAfterPlan` | `StartExecute`, `MarkRunning` |
| `ExecutionService.executeTask` | `RunTask`, `EnqueueRun`, `RunEnqueued` |
| `ExecutionTaskWorker.handleTask`, `completeExecution` | `RunCycle`, `CompleteExecution` with `Verdict`, `SetVerdict` |

`late` (the requests that arrived after an answer was stored) and `passed` (the
executions the critic passed) are history variables.

`BrowserManager` models one user; users share only the collector's turn.

| Code | Actions |
|---|---|
| `run_job` and `_LiveSession.recover` asking for a page | `Ask`, `Recover` |
| `get_context` under the user's lock | `GetWarm`, `GetCold` |
| `_launch`: launch, init script, registration | `Launched`, `LaunchFails`, `Register` |
| `new_page` and its relaunch | `OpenPage`, `PageFails`, `Dropped`, `PageFailsAgain` |
| `close_user` | `CloseUser`, `Closed` (parts of `PageFails`, `Dropped`, `Collect`, `Collected`) |
| `_on_context_close` | `CloseEvent` |
| `gc`, stage 1: idle browsers | `TimePasses`, `Collect`, `Collected` |
| `gc`, stage 2: profiles on disk | `Sweep` |
| a run ending or failing to set up; Chromium dying (external) | `RunEnds`, `SetupFails`; `Dies` |

Operators introduced by "a fault" are wrong versions of the definition that
follows them. They are not used by the specifications; substituting one shows
that the corresponding property notices.

### Abstractions

* Results of models, tools, policies, the dispatcher and the database are
  choices. A plan is `Steps` steps; since only the number of iterations, not the
  content, is visible, a shorter plan behaves like one that breaks out early.
* A database write and the code after it up to the next await are one action,
  except where the order with respect to another actor's check matters
  (responses, timers, cancel).
* A response that was checked before the create of its request returned to the
  run is not modelled: the create and the registration of the listener are one
  action.
* In `WorkerJobs`, the relay applies browser states in the turn in which they
  arrive, in the order of the channel, so they are part of the step that
  publishes them. All other events only start a handler. Equal handlers are one.
* The relay has subscribed and no published event is lost. Where the subscription
  failed, the engine's events reach nobody, and only there the relay's connection
  could write keys.
* A response to a step of the worker (row, gate and key) is one action: its
  check and its write are split in the pipeline, where two responders matter.
* A domain skill is opaque between its start and its end. `keep_session` is in the
  engine but not in the jobs the dispatcher builds, and is left out.
* The crash callback belongs to a job's first page. The model lets it fire more than
  once, which is more than the code does.
* At most one screenshot of a session is being taken; a session is cancelled
  at most once; session ids are not reused.
* `recordStep` swallows its errors and is part of `Progress`; verification,
  memory and reflection up to the final write are one action.
* Bull is modelled by what the code relies on: `attempts` failures, a timeout
  that fails a job and leaves its handler running, and one repetition of a job that
  stalled with its process. Backoff delays are left out. Faults (a failed call, a
  timed-out job, a restart) are bounded together by `MaxFaults`.
* The planner's call, the agents' cycle and the rows of an execution's steps are data;
  their failures are choices.
* Of Playwright it is assumed that a profile is open in one process at most (a second
  launch on it throws), that calls return or throw, and that a `close()` that succeeds
  has delivered the close event of its context. A `close()` may throw and leave Chromium
  open, and the event of a Chromium that died comes at any time, also after the launch of the
  next one, whose entry it then removes: its handler knows only the user. Time is `fresh` or `old`, which is what the
  collector tells apart. A run can lose its page only with its browser. The user's
  profile is `small` or `grown`; trimming caches and evicting the profile both make it
  `small`, and opening a page makes it `grown`.
* `RelaySubscribed` says whether the relay's subscription succeeded, which is decided when
  the backend starts. If it did, `getClarificationAnswer` is a command on a connection
  that takes none, and the first poll of a clarification throws; only if it did not,
  the answer and the five minutes without one are reachable.
* `runGate` is called in a `setImmediate` callback that does not catch, and the backend has no
  handler for unhandled rejections of its own. Without one, what `runGate` throws ends the process
  and with it the runs of all sessions (`BackendEnds`, which is also every other end of
  the process). With a `SENTRY_DSN`, Sentry's listener, which warns, keeps Node alive: only the run is
  gone, its session stays tracked, and its row as it was (`CallbackThrows`). The model allows both. The end of the
  process empties what is in memory; rows and requests stay as they are, and nothing
  takes the sessions up again (`lost`).

## Runs

The instances of the pipeline have one session (executions share no state but
the maps indexed by session) and one step, which can ask for approval before
and after its tool, so that with the launch three requests of one session are
in play. `MaxInFlight = 1` bounds the unapplied status updates by delaying the
next change of the record, which for safety only removes behaviours in which two
updates are pending at once. `MaxControls` bounds the pause, resume, cancel and
interrupt calls. `CHECK_DEADLOCK FALSE` in the pipeline because a finished system
stops, and in the worker's runs for the same reason. `RelaySubscribed` is FALSE in
`pipeline_race`, where a clarification is answered or times out, and TRUE in the other runs of the
pipeline, where the first poll throws; the process may end at any moment in all of them.

The instance of the worker has one session and a plan of two steps, any of which
may ask for approval, and two recoveries, which is the default of
`_MAX_RECOVERIES`. Two steps are what it takes to skip one or to confuse their
requests, two recoveries to have the loop and the callback draw on the budget
together. Jobs share the list and the engine's life only, which is why one is
enough.

The instance of the task queue has two POSTs that may carry the same key and one
request to execute, of which two arrive; two attempts and one stall, so that a job
has a run that failed, one that stalled and a last one; one fault, which may fall
anywhere; and thresholds of 1 and 2, with which one failure opens the breaker and
one success does not close it. Bull's concurrency is 1 in `task_queue` and 3 in
`idempotent_create`, where no faults are needed. A handler whose job timed out overlaps with the
job's next run also at concurrency 1. The instance of the browser manager has two runs with one
recovery each: two are needed to close one's browser under the other, and
two calls of `new_page`, each of which launches at most twice, to have an old close
event, or a Chromium whose `close()` threw, meet a new context.

| Run | Instance | Shows |
|---|---|---|
| `pipeline_race` | 2 clients, no controls, symmetric clients | double and contradicting responses race with each other and with the timers: launch and steps need the approval of their own request (`LaunchNeedsConsent`, `StepNeedsConsent`), and the run implements `LaunchGate` (`ImplementsLaunchGate`) |
| `pipeline_control` | 1 client, 2 controls | with pauses, resumes, cancellations and interrupts anywhere: `LaunchNeedsConsent`; no gate is left held without a waiter (`HeldGateHasWaiter`); sessions of finished runs are released except on the known exits (`FinishedRunIsReleased`); no run reaches its verification with a browser nobody has begun to close (`LoopClosesBrowser`); COMPLETED means that all steps were performed, unless the run was simulated or cancelled (`CompletedIsEarned`); no session shows a live browser whose launch has not begun (`LiveNeedsLaunch`); the state last emitted is the one derived from the two owners' states (`EmittedIsCurrent`), and STOPPED and ERROR are final (`TerminalBrowserIsFinal`) |
| `pipeline_live` | 1 client, 1 control, fairness | a held launch is decided (`HeldLaunchIsDecided`), a run that began ends, waits for the user at a step, or is lost, with the process or because its goal needs a clarification (`RunSettles`) |
| `worker_jobs` | 1 session, 2 steps, 2 recoveries, fairness | with crashes, recoveries, denials, failing calls, cancellations, the engine dying and handlers finishing in any order: only a plan whose steps all returned exactly once is recorded COMPLETED (`CompletedIsExact`), steps take effect in order (`StepsInOrder`), all repeats together are bounded by the recoveries (`RepeatsAreBounded`), whatever the engine does for a job lowers a natural number (`JobsWindDown`), engine and relay implement `PlanRun` (`ImplementsPlan`), and a job ends (`JobEnds`) |
| `worker_approval` | 1 session, 1 step | refutes the comment that an approval reaches the worker by a Redis key |
| `cancel_at_gate` | 1 client, 1 control | refutes the comment that cancel releases a held launch as a denial |
| `step_expiry` | 1 client, fairness | refutes the comment that a step's request denies by itself when it expires |
| `waiting_surfaced` | 2 clients | refutes the comment that WAITING_APPROVAL is surfaced until the user responds |
| `late_frame` | 1 client, 1 control | refutes the comments that a paused session's stream is stopped and that declaring RUNNING is idempotent on later frames |
| `task_queue` | 2 POSTs, 1 key, 1 execute, 1 fault, fairness | with repeated, overtaken, stalled and failing jobs and calls: a task shown RUNNING has work or was given up (`RunningTaskHasWork`), one shown COMPLETED passed the critic (`CompletedTaskPassed`), a stored answer is replayed and not handled again (`StoredAnswerIsReplayed`), the breaker's counters agree with its state (`BreakerSound`), and an accepted task finishes or is given up (`AcceptedTaskFinishes`) |
| `idempotent_create` | 2 POSTs, 1 key, no faults | refutes the comment that duplicate requests in flight are rejected |
| `browser_manager` | 2 runs, 1 recovery, fairness | with Chromium dying at any moment, `close()` throwing and close events coming late: launches on the user's profile never overlap (`LaunchesAlone`), a living Chromium that the registry does not know was dropped by a `close()` that threw or by another's close event (`OrphansHaveACause`), the collector closes nothing a run works in or is about to (`CollectorSparesRuns`) and takes files from under a page only in such a forgotten Chromium (`SweepSparesRuns`), every step of a run lowers a natural number (`RunsWindDown`), and every call of `new_page` is served or fails (`EveryAskIsServed`) |

Why the bounds are enough for what the runs ask: a race needs two responders and
one timer per request; a cross-request mix-up needs two requests of a step; a
control that misbehaves needs another one before or after it. The theorems
below remove the bounds for the safety properties proved.

### What the refuted comments mean

* **`cancel_at_gate`.** `cancelExecution` looks the held launch up in a map of the
  engine; the pipeline's gate stage keeps its own map, and its
  `cancelPendingApproval` is never called. The session record, and with it the
  aborting flag, is deleted a moment later. When the user then approves, in
  another tab or from the still open dialog, the cancelled run is dispatched.
  Without an approval the request expires after five minutes and is denied.
* **`step_expiry`.** The timer of a step's request writes EXPIRED and broadcasts
  it, but does not emit to the listener the step loop awaits.
* **`waiting_surfaced`.** A response clears the gate of its session, whichever
  request it answered.
* **`worker_approval`.** `setApprovalDecision` writes with the relay's `subscriber`,
  the connection that has subscribed to the event channel. ioredis rejects
  ordinary commands on such a connection, so the key is never written; the engine
  polls it for two minutes and denies the step. The endpoints report an error,
  though the request is APPROVED in the database and the gate cleared. The
  verdicts of self-healing and the answers to clarifications are stored in
  the same way. In the model this is `SubscriberAccepts`: the branches that follow
  an approval or a healing stand in `PollDecision` and `Heal` as the code has them
  and are never taken.
* **`late_frame`.** The interval's callback looks whether the session is active, awaits
  the screenshot, and counts the frame afterwards. A pause in between stops the
  stream and deletes the counter, so the late frame counts as the first and
  declares RUNNING; the room and the row show a running session whose stream is
  stopped, until the user resumes or cancels.
* **`idempotent_create`.** `canActivate` removes the key from `inFlight` in a `finally`
  block, which runs when the guard has let the request through and the handler has
  not begun. A second request with the key is let through as well, as long as
  the first one's answer is not stored. The test that is to show the rejection
  blocks the lookup, which is inside the guard.

Two more comments hold only in part, and the passing runs state how far. "One browser per
user — no orphan Chromium processes" (`src/apps/browser-py/browser_manager.py:14`) and "On-disk GC over profiles
that are NOT currently open" (`:255`) hold up to a `close()` that throws (`:186-189`) or a close event
that comes after the next launch (`:119-123`), as `OrphansHaveACause` and `SweepSparesRuns` say. "Returns
refined goal or null on timeout" (`agent/runtime/clarification-gate.service.ts:28-29`) holds only where the
relay's subscription failed; otherwise the poll throws, the row stays WAITING_APPROVAL, and `RunSettles`
counts the run as lost.

The comments quoted for `step_expiry` and `waiting_surfaced` stand in the engine's
former copy of the step approval; the stage's copy of the code is the same.

### Fairness

`FairSpec` is `Spec` with `WF_vars(EventLoop)`: while some work the backend has
begun is pending (an awaited call, an armed timer, an unapplied update), the
event loop goes on with some of it. Node guarantees that, provided that awaited
calls return in the end. That they may also throw is not part of the fairness: the
steps in which they do (`Throws`), and the end of the process, may happen and never have to, so no property
relies on a failure to move a run on; the one exception is `PollThrows`, since a poll with a
subscribed connection always fails. One condition for
the whole loop is weaker than one per action: it does not say which work goes
first. It is enough since every stage, timer and update is used up by being
done. `WorkerJobs` does the same per session with `WF_vars(BegunWork(s))`: the
engine's own steps, the relay's handlers and the updates in flight. The pop is
not in it, nor are crashes and failing calls, and the engine may die at any
moment, which ends its jobs as "lost". `TaskQueue` and `BrowserManager` have
`WF_vars(Progress)`: continuations run, Bull hands out waiting jobs, calls of
Playwright return or throw and close events arrive. In `Progress` of the
browser manager a call that fails is one of the ways in which it returns; recoveries and
relaunches are counted, so failing for ever is not among its behaviours. Users, the
screenshot interval and the start of sessions have no fairness:
no property may depend on somebody responding.

## Proofs

tlapm checks these for every value of the constants (any sets of sessions,
clients, requests, keys and runs, any natural numbers for the bounds).

| Module | Theorems |
|---|---|
| `SessionAuthority_proofs` | of `AuthSpec`: `AuthTyping`, `AuthCurrent` (`EmittedIsCurrent`), `AuthFinality` (`TerminalBrowserIsFinal`) |
| `ExecutionPipeline_proofs` | `PipelineTyping` (`PipelineTypeOK`) |
| `ExecutionPipelineConsent_proofs` | `PipelineLaunchConsent` (`LaunchNeedsConsent`), `PipelineStepConsent` (`StepNeedsConsent`) |
| `ExecutionPipelineGate_proofs` | `PipelineImplementsGate` (`ImplementsLaunchGate`) |
| `ExecutionPipelineRelease_proofs` | `PipelineHeldGate` (`HeldGateHasWaiter`), `PipelineReleased` (`FinishedRunIsReleased`), `PipelineClosesBrowser` (`LoopClosesBrowser`), `PipelineEarns` (`CompletedIsEarned`), `PipelineCurrent` (`EmittedIsCurrent`), `PipelineFinality` (`TerminalBrowserIsFinal`), `PipelineLive` (`LiveNeedsLaunch`) |
| `TaskQueue_proofs` | `TypeCorrect` (`TypeOK`), `BreakerStaysSound` (`BreakerSound`), `StoredIsReplayed` (`StoredAnswerIsReplayed`), `CompletedWasPassed` (`CompletedTaskPassed`), `RunningHasWork` (`RunningTaskHasWork`) |
| `BrowserManager_proofs` | `TypeCorrect` (`TypeOK`), `Alone` (`LaunchesAlone`), `OrphansExplained` (`OrphansHaveACause`), `CollectorSpares` (`CollectorSparesRuns`), `SweepSpares` (`SweepSparesRuns`), `WindsDown` (`RunsWindDown`) |
| `WorkerJobs_proofs` | `WorkerTyping` (`WorkerTypeOK`), `WorkerStepsInOrder` (`StepsInOrder`), `WorkerRepeats` (`RepeatsAreBounded`), `WorkerCompleted` (`CompletedIsExact`), `WorkerWindsDown` (`JobsWindDown`), `WorkerImplementsPlan` (`ImplementsPlan`), `WorkerCurrent` (`EmittedIsCurrent`), `WorkerFinality` (`TerminalBrowserIsFinal`) |

Assumptions are named ASSUMEs, which the runs evaluate: `MaxInFlight`, `Steps`,
`MaxControls`, `MaxRecoveries`, `MaxStalls`, `MaxRequests` and `MaxFaults` are natural
numbers, `MaxAttempts`, `Concurrency` and the breaker's thresholds positive ones; there is
a POST; and names of different things differ.

* **Typing** is inductive as it stands. The lemmas `AuthStep` and `LocalStep` say
  once what a call of the authority and a change of the other variables keep.
* **Launch consent** is not inductive: a run past the gate must be known to have
  passed it. `LaunchInv` adds, for a run whose launch is required, that it is
  deciding, waiting, refused or over, or has its approval. It needs to know that
  a run is resumed only by a response that approved the launch request itself:
  `Resume` acts only when the run `Waits` for the request that was answered.
* **Step consent** needs more, for requests of a run's future must be untouched.
  `RequestInv` says that requests the run has not reached are NONE with their
  timer off, and that a response under way is for a request that was asked. So
  only asking takes a request from NONE (`OnlyAskCreates`), and consent only grows
  (`ConsentGrows`). `StepInv` follows the current step: which of its two requests
  may exist at which stage, and that a stage after an asked request has its
  approval.
* **The launch gate's refinement** maps `pc`, `chrome` and `exit` to a phase (`GatePhase`) and `granted`
  to consent. Each action is shown to map to an action of `LaunchGate` or a
  stutter; the only steps with consent are `ApplyReply`s, which map to `Approve` in
  one of its three forms; the end of the process maps to one `End` of all runs that
  have not launched. The proof uses the typing and the launch invariant and
  the lemma `LaunchIsLate` (a run with a browser is past the gate).

* **The worker's steps.** `JobInv` says of each session: steps the loop has not
  reached never returned; those it passed did; the number of results is at least
  that of the steps passed, and larger if one of them was repeated (every return
  leaves a result); and repeats are paid for by recoveries. Order and the bound on
  repeats follow. The typing of the position in the plan is inductive only
  together with `JobInv`, so the two are proved as one.
* **COMPLETED is exact.** The engine compares the number of results with the number
  of steps. By `JobInv` they are equal, for a job that passed all its steps, only if none
  was repeated. `SuccessInv` carries this from the end of the job to the relay: a
  success, in `working` or in the database, exists only for a job that has
  ended with each step returned once.
* **What a step does to a job.** `JobDoes` has the seven things that can happen to a
  job: nothing, a change of stage, the pop, a result that is a failure, a recovery, a
  return of an action, a condition that holds. `EveryStepDoes` shows, once, that every step
  of the specification does one of them to each job; the next three results
  only speak of these seven.
* **All repeats together.** `BoundedInv` bounds the number of results by the steps
  passed and the recoveries used up, and by one more for the failure that ends the
  loop. It is stronger than what `JobInv` says of each step, and inductive with it.
* **Winding down.** `Left` counts what the engine can still do for a job: six stages for
  each step and each recovery to come, and the stages of this round. Everything in
  `JobDoes` but "nothing" lowers it, and it is positive while the job is active. Together
  with the fairness under which TLC checks `JobEnds`, this is why jobs end; the part that
  needs no fairness is proved for all plans and budgets. `RunsWindDown` does the same for
  the calls of `new_page` and `recover` in the browser manager.
* **The plan's refinement.** `JobMapsToPlan` maps each of the seven to an action of `PlanRun`
  or a stutter; `Perform` is allowed because of `JobInv` (the order) and `BoundedInv` (the
  repeats). A handler or a user who writes a session's row maps to `Succeed` or `Overwrite`
  (`RowMapsToPlan`), the former by `SuccessInv`; the death of the engine closes all its
  jobs in one step. A success may be overwritten, since
  cancellations and late handlers do that; it is never recorded wrongly.
* **The record in the worker.** The relay's calls keep or follow a tracked session's record as the
  pipeline's do; what both need (`Follows`, `Kept` and the lemmas about calls of the
  authority) stands in `SessionAuthority_proofs`.

* **Released runs.** That a finished run's session is released is not inductive: a run
  that finds itself aborting ends without deleting anything. `ReleaseInv` adds that only a
  cancellation marks a session, and that a held gate of a session not so marked has
  a run that waits. `BrowserInv` adds the stages of the loop to
  `LoopClosesBrowser`: in the loop the browser has been launched, and who leaves it either
  begins to close it or finds the cancellation's close begun.
* **COMPLETED is earned.** `EarnedInv` follows the steps performed up to the current
  one while nothing has failed. A loop that is left for the abort keeps its success,
  so the invariant has the cancellation as the other way out, for which it needs
  `ReleaseInv`: only a cancellation marks a session aborting.
* **The record in the pipeline.** `Follows` relates two records of a session, of which
  the second results from calls of the authority; every step of the pipeline keeps
  or follows a tracked session's record (`KeepsStep`). With `Fresh` (a session is not
  tracked before its run begins) it gives `EmittedIsCurrent` and the finality of terminal
  states. `LiveNeedsLaunch` is inductive with the typing: `Tame` says that no write but those
  of the launch itself declares a browser live that was not. `AuthCurrent` and `AuthFinality` say the same of the authority alone under any
  calls of any owners; no run repeats them, nor `WorkerCurrent` and `WorkerFinality`.
* **The guard.** `GuardInv`: at most one request of a key is inside the guard, and for a
  request that arrived after the answer, the answer stays or the request is past it.
  It is the reason why the deletion of an expired answer, which follows its
  lookup in a second call, cannot take a fresh one away.
* **The queue.** `QueueInv` is the typing with, for each job, that every run so far has failed
  or stalled but for the active one (`Shape`), and the order in which things come to
  be (`Order`: a caller before its job, a job before its runs). A step changes a job only
  as `Moves` allows. `CompletedWasPassed` and `RunningHasWork` follow whoever is to
  bring a task to its verdict through these steps: a starter hands the task to its
  job, a job that fails for the last time gives it up, and the run that ends a job has
  written the verdict.
* **The breaker.** `BreakerIsSound` is inductive with the typing; the lemmas about
  `OnSuccess`, `OnFailure` and `Admit` are stated for every breaker.
* **The browser manager.** `LockInv` (who launches holds the lock, and nothing is
  registered meanwhile; the collector holds it while it closes) gives `LaunchesAlone`.
  `OneAlive` (a profile is open in one process at most) gives `OrphansHaveACause`: a Chromium
  that is open beside the registered one cannot exist, so an entry that is removed or replaced
  is that of a dead one, of one being closed, or of one that `forgotten` records. `OldIsUnasked`
  (nothing is old while somebody is inside `new_page`) is why the collector spares runs that
  have been given the context and have no page yet. `UseInv` (pages, and what is registered
  or handed out, are contexts whose launch is over, and nobody else knows a context before
  it is registered) gives `SweepSparesRuns` together with `OrphansHaveACause`: an open context the
  registry misses is forgotten or one being launched, which has no page. The typing needs the count of
  launches, at most two per call.

Every safety invariant and action property of the passing runs is proved. Only
model-checked are the liveness properties `HeldLaunchIsDecided`, `RunSettles`, `JobEnds`,
`AcceptedTaskFinishes` and `EveryAskIsServed` (liveness under fairness is out of the prover's
reach), and the refuted comments, each of which needs only its counterexample. The strengthened
invariants were checked by TLC on small instances before they were proved.

## Not modelled

* **Supervisor and message bus.** The request/reply bus has one end: nothing in the
  repository subscribes to `agent:task:*` or publishes `agent:result:*` and `agent:error:*`,
  so every delegated sub-goal times out. A model would have to invent the agents.
* **Code without callers**: the engine's former copy of the stages,
  `ConfirmationGateStage`, the approval service, the confirmation service (nothing creates
  pending actions), `TasksService.cancel`, `process-step` jobs, `PythonBridgeService.cancel`.
* **Models and measures**: planner, verifier, vision, reflection, confidence, drift, memory and
  learning. Their results are choices in the actions that use them.
* **Request/response CRUD** (auth, teams, vault, billing, email, calendar, food, voice, GDPR):
  no state shared between concurrent steps beyond the database's rows.
* **Scheduled tasks.** Overlapping ticks can start a schedule twice, a failed update fires it
  again, and a tick writes over the time of a schedule edited meanwhile; no comment or test
  says which of these is not meant.
* **Webhooks, cache, event bus, frontend**: fan-out and display of what the modelled parts
  produce. The client's reducer merges the emitted states by the order of messages, and would be a
  module of its own.
* **Files and pages**: the contents of profiles, DOM skills, screenshots; `close_all`, which
  runs when the engine ends. The registry by which stage 2 of `gc` tells open profiles also
  misses a Chromium that is starting or being closed, so its files can be removed
  under it; `SweepSparesRuns` says what holds all the same. A `close()` that never returns, which
  would keep the user's lock in `gc`, is not modelled.

## Plan

Done, in this order: `SessionAuthority`, `LaunchGate`, `ExecutionPipeline`, `WorkerJobs`,
`CircuitBreaker` and `TaskQueue`, `BrowserManager`, `PlanRun`, with their proofs.

What is left:

1. **Terminal statuses.** One status column, written by pipeline, relay, cancel, interrupts and
   unawaited updates: which terminal status survives. Needs a run over pipeline and relay
   together, and a decision of the code's authors about what is meant.
2. **Composition.** Dispatch with its ambiguous push over pipeline and worker: an abstract
   specification of a plan executed at most once, which the code does not promise today
   (`PlanRun` speaks of what the engine does with a job it was given).
3. **RUNNING without a browser** (resume during the launch, a recovered page after ERROR), as
   soon as it is said what the state is to show.
4. **The client's view** (`useAgentSession`) and **scheduled tasks**, as small modules.

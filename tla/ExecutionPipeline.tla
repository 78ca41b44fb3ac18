------------------------- MODULE ExecutionPipeline -------------------------
(***************************************************************************)
(* One execution of a goal, from ExecutionEngineService.startExecution to  *)
(* the end of ExecutionPipelineService.run, with everything that runs      *)
(* beside it in the backend's event loop: approval responses, the expiry   *)
(* timers of approval requests, pause, resume and cancel, the screenshot   *)
(* stream, and the status updates of the session authority.                *)
(*                                                                         *)
(* An action is the code between two awaits.  A database write and the     *)
(* code that follows it up to the next await are one action; a check and   *)
(* the write that depends on it (approval responses, timers) are two.      *)
(*                                                                         *)
(* The process may end at any await; the next one starts with empty maps   *)
(* and takes up no session.                                                *)
(*                                                                         *)
(* Not here: the Python engine after the job is dispatched.  Operators     *)
(* marked "a fault" are wrong versions of the definition that follows and  *)
(* are not part of the model.                                              *)
(***************************************************************************)
EXTENDS SessionAuthority

CONSTANTS
  Clients,      \* who may answer an approval request (REST and sockets)
  Steps,        \* bound: number of steps of the plan
  MaxControls,  \* bound: pause, resume, cancel and interrupt calls on a session
  RelaySubscribed  \* the relay's connection is in subscriber mode

ASSUME StepsAssumption == Steps \in Nat
ASSUME MaxControlsAssumption == MaxControls \in Nat
ASSUME RelayAssumption == RelaySubscribed \in BOOLEAN

VARIABLES
  pc,           \* where the run of each session is
  step,         \* the step of the plan the loop is at
  ok,           \* ctx.completedSuccessfully
  exit,         \* ctx.exitReason
  required,     \* gate.requiresApproval
  performed,    \* the steps that were completed
  request,      \* ApprovalRequest.status of each request
  timer,        \* the expiry timer of each request
  reply,        \* the response each client has checked and not yet written
  granted,      \* history: requests approved by a response found PENDING
  chrome,       \* the entry of BrowserAgentService.sessions
  streaming,    \* the streamer has an interval
  counted,      \* the streamer has counted a frame since it started
  frame,        \* a screenshot is being taken
  cancel,       \* the progress of cancelExecution
  controls      \* pause, resume, cancel and interrupt calls so far

runVars      == <<pc, step, ok, exit, required, performed>>
approvalVars == <<request, timer, reply, granted>>
streamVars   == <<streaming, counted, frame>>
controlVars  == <<cancel, controls>>
vars == <<authVars, runVars, approvalVars, chrome, streamVars, controlVars>>

\* The run may ask for approval of its launch and, for each step, because of
\* the policy before it and because of a blocker after it.
LaunchRequest == <<"launch", 0>>
Requests == {LaunchRequest} \cup ({"policy", "blocker"} \X (1..Steps))

RequestStatuses == {"NONE", "PENDING", "APPROVED", "REJECTED", "EXPIRED"}
TimerStates     == {"off", "armed", "checked"}
Verdicts        == {"APPROVED", "REJECTED"}
NoReply         == [session |-> "none"]

ExitReasons ==
  {"NONE", "POLICY_FAILED", "LAUNCH_DENIED", "SIMULATION_COMPLETED",
   "WORKER_DISPATCHED"}

\* Before the gate has decided.
Deciding ==
  {"new", "starting", "clarify_hold", "clarify_wait", "planning"}
\* The launch was cleared, the stages after the gate are under way.
Executing ==
  {"dispatch", "launching", "loop", "cognitive_pause", "ask_policy",
   "await_policy", "tool", "ask_blocker", "await_blocker", "progress",
   "replan", "closing", "verify"}
Stages == Deciding \cup Executing \cup
  {"launch_create", "await_launch", "deny_write", "policy_fail", "simulate",
   "error_write", "done", "lost"}

ChromeStates == {"none", "launching", "open", "closing", "closed"}
CancelStates == {"idle", "closing", "writing", "done", "failed"}

PipelineInit ==
  /\ tracked = {}
  /\ session = [s \in Sessions |-> NewSession]
  /\ inflight = [s \in Sessions |-> NoUpdates]
  /\ db = [s \in Sessions |-> "NONE"]
  /\ pc = [s \in Sessions |-> "new"]
  /\ step = [s \in Sessions |-> 1]
  /\ ok = [s \in Sessions |-> TRUE]
  /\ exit = [s \in Sessions |-> "NONE"]
  /\ required = [s \in Sessions |-> FALSE]
  /\ performed = [s \in Sessions |-> {}]
  /\ request = [s \in Sessions |-> [r \in Requests |-> "NONE"]]
  /\ timer = [s \in Sessions |-> [r \in Requests |-> "off"]]
  /\ reply = [c \in Clients |-> NoReply]
  /\ granted = {}
  /\ chrome = [s \in Sessions |-> "none"]
  /\ streaming = [s \in Sessions |-> FALSE]
  /\ counted = [s \in Sessions |-> FALSE]
  /\ frame = [s \in Sessions |-> FALSE]
  /\ cancel = [s \in Sessions |-> "idle"]
  /\ controls = [s \in Sessions |-> 0]

-----------------------------------------------------------------------------
(* Shared pieces of the handlers. *)

GoTo(s, stage) == pc' = [pc EXCEPT ![s] = stage]

Write(s, status) == db' = [db EXCEPT ![s] = status]

StartStreaming(s) ==
  /\ streaming' = [streaming EXCEPT ![s] = TRUE]
  /\ counted' = [counted EXCEPT ![s] = FALSE]
  /\ UNCHANGED frame

\* Clearing the interval forgets the frame count, not the frame being taken.
StopStreaming(s) ==
  /\ streaming' = [streaming EXCEPT ![s] = FALSE]
  /\ counted' = [counted EXCEPT ![s] = @ /\ ~streaming[s]]
  /\ UNCHANGED frame

HasEntry(s) == chrome[s] \in {"open", "closing"}

\* A fault: the browser of an aborting session is left to the cancellation.
LeaveLoopUnlessAborting(s) ==
  /\ StopStreaming(s)
  /\ chrome' = [chrome EXCEPT ![s] =
       IF HasEntry(s) /\ ~IsAborting(s) THEN "closing" ELSE @]
  /\ GoTo(s, IF HasEntry(s) /\ ~IsAborting(s) THEN "closing" ELSE "verify")

\* The end of the step loop: stop the stream, close the browser if there is
\* one, and go on to the verification.
LeaveLoop(s) ==
  /\ StopStreaming(s)
  /\ chrome' = [chrome EXCEPT ![s] = IF HasEntry(s) THEN "closing" ELSE @]
  /\ GoTo(s, IF HasEntry(s) THEN "closing" ELSE "verify")

\* The create of an approval request, the gate and the timer.
Ask(s, r) ==
  /\ HasRoom(s)
  /\ request' = [request EXCEPT ![s][r] = "PENDING"]
  /\ timer' = [timer EXCEPT ![s][r] = "armed"]
  /\ Put(s, WithGate(session[s], "WAITING_APPROVAL"))

\* A fault: responses are matched by session, not by request.
WaitsForAny(s, r) ==
  \/ pc[s] = "await_launch" /\ r = LaunchRequest
  \/ pc[s] \in {"await_policy", "await_blocker"} /\ r # LaunchRequest

\* The request the run is waiting for.
Waits(s, r) ==
  \/ pc[s] = "await_launch"  /\ r = LaunchRequest
  \/ pc[s] = "await_policy"  /\ r = <<"policy", step[s]>>
  \/ pc[s] = "await_blocker" /\ r = <<"blocker", step[s]>>

-----------------------------------------------------------------------------
(* The run, up to the gate. *)

Start(s) ==
  /\ pc[s] = "new"
  /\ Write(s, "PLANNING")
  /\ GoTo(s, "starting")
  /\ UNCHANGED <<tracked, session, inflight, step, ok, exit, required,
                 performed, approvalVars, chrome, streamVars, controlVars>>

\* The session enters the authority; an ambiguous goal is clarified first.
Register(s) ==
  /\ pc[s] = "starting"
  /\ Track(s)
  /\ \E stage \in {"clarify_hold", "planning"} : GoTo(s, stage)
  /\ UNCHANGED <<inflight, db, step, ok, exit, required, performed,
                 approvalVars, chrome, streamVars, controlVars>>

HoldForClarification(s) ==
  /\ pc[s] = "clarify_hold"
  /\ Write(s, "WAITING_APPROVAL")
  /\ GoTo(s, "clarify_wait")
  /\ UNCHANGED <<tracked, session, inflight, step, ok, exit, required,
                 performed, approvalVars, chrome, streamVars, controlVars>>

\* The process ends, and with it every run, timer, listener and browser; the
\* rows and the requests stay, and nothing takes the sessions up again.
BackendEnds ==
  /\ tracked' = {}
  /\ session' = [s \in Sessions |-> NewSession]
  /\ inflight' = [s \in Sessions |-> NoUpdates]
  /\ pc' = [s \in Sessions |->
       IF pc[s] \in {"new", "done"} THEN pc[s] ELSE "lost"]
  /\ timer' = [s \in Sessions |-> [r \in Requests |-> "off"]]
  /\ reply' = [c \in Clients |-> NoReply]
  /\ chrome' = [s \in Sessions |->
       IF chrome[s] = "none" THEN "none" ELSE "closed"]
  /\ streaming' = [s \in Sessions |-> FALSE]
  /\ counted' = [s \in Sessions |-> FALSE]
  /\ frame' = [s \in Sessions |-> FALSE]
  /\ cancel' = [s \in Sessions |->
       IF cancel[s] \in {"closing", "writing"} THEN "failed" ELSE cancel[s]]
  /\ UNCHANGED <<db, step, ok, exit, required, performed, request, granted,
                 controls>>

\* An answer refines the goal; five minutes without one fail the session.
Clarify(s) ==
  /\ pc[s] = "clarify_wait"
  /\ ~RelaySubscribed
  /\ \/ /\ Write(s, "PLANNING")
        /\ GoTo(s, "planning")
        /\ UNCHANGED <<tracked, session>>
     \/ /\ Write(s, "FAILED")
        /\ GoTo(s, "done")
        /\ Untrack(s)
  /\ UNCHANGED <<inflight, step, ok, exit, required, performed, approvalVars,
                 chrome, streamVars, controlVars>>

\* What the gate throws leaves a setImmediate callback that catches nothing.  Where
\* Sentry listens for unhandled rejections the process lives on, without the run:
\* the session is still tracked and its row as it was.
CallbackThrows(s) ==
  /\ pc[s] \in {"clarify_hold", "clarify_wait"}
  /\ GoTo(s, "lost")
  /\ UNCHANGED <<authVars, step, ok, exit, required, performed, approvalVars,
                 chrome, streamVars, controlVars>>

\* The answer is polled for with the connection the relay has subscribed with,
\* which takes no such command: the first poll throws, and where nobody listens for
\* unhandled rejections Node ends the process.
PollThrows(s) ==
  /\ pc[s] = "clarify_wait"
  /\ RelaySubscribed
  /\ CallbackThrows(s) \/ BackendEnds

PlanReady(s)   == WithGate(session[s], "PLAN_READY")
GateCleared(s) == WithGate(PlanReady(s), "CLEARED")

\* What the gate decides on the plan, the goal and the mode: the launch has to
\* be approved by the user, or it is cleared, in simulation mode or for real.
AutomationGate(s) ==
  \/ /\ Put(s, PlanReady(s))
     /\ required' = [required EXCEPT ![s] = TRUE]
     /\ GoTo(s, "launch_create")
  \/ /\ PutTwice(s, PlanReady(s), GateCleared(s))
     /\ \/ GoTo(s, "simulate")
        \/ GoTo(s, IF IsAborting(s) THEN "done" ELSE "dispatch")
     /\ UNCHANGED required

\* The plan is stored; the policy blocks one of its steps, or the gate decides.
Plan(s) ==
  /\ pc[s] = "planning"
  /\ HasRoom(s)
  /\ \/ /\ Put(s, PlanReady(s))
        /\ GoTo(s, "policy_fail")
        /\ UNCHANGED required
     \/ AutomationGate(s)
  /\ UNCHANGED <<tracked, db, step, ok, exit, performed, approvalVars,
                 chrome, streamVars, controlVars>>

\* The run returns and leaves the session in the authority.
FailPolicy(s) ==
  /\ pc[s] = "policy_fail"
  /\ Write(s, "FAILED")
  /\ ok' = [ok EXCEPT ![s] = FALSE]
  /\ exit' = [exit EXCEPT ![s] = "POLICY_FAILED"]
  /\ GoTo(s, "done")
  /\ UNCHANGED <<tracked, session, inflight, step, required, performed,
                 approvalVars, chrome, streamVars, controlVars>>

RequestLaunchApproval(s) ==
  /\ pc[s] = "launch_create"
  /\ Ask(s, LaunchRequest)
  /\ GoTo(s, "await_launch")
  /\ UNCHANGED <<tracked, db, step, ok, exit, required, performed, reply,
                 granted, chrome, streamVars, controlVars>>

\* A fault: the result of the launch request is not looked at.
ResumeAnyway(s, approved, rec) ==
  /\ Put(s, WithGate(rec, "CLEARED"))
  /\ GoTo(s, "dispatch")

\* A fault: a denied launch is stopped and its gate stays held.
ResumeHeld(s, approved, rec) ==
  \/ /\ IsAborting(s)
     /\ Put(s, rec)
     /\ GoTo(s, "done")
  \/ /\ ~IsAborting(s) /\ approved
     /\ Put(s, WithGate(rec, "CLEARED"))
     /\ GoTo(s, "dispatch")
  \/ /\ ~IsAborting(s) /\ ~approved
     /\ Put(s, WithBrowser(rec, "STOPPED"))
     /\ GoTo(s, "deny_write")

\* The awaited promise of the launch request resolves; rec is the session's
\* record when it does.  An aborting session ends as it is; a denied one is
\* cleared and stopped in the same turn.
ResumeLaunch(s, approved, rec) ==
  LET cleared == WithGate(rec, "CLEARED")
  IN  \/ /\ IsAborting(s)
         /\ Put(s, rec)
         /\ GoTo(s, "done")
      \/ /\ ~IsAborting(s) /\ approved
         /\ Put(s, cleared)
         /\ GoTo(s, "dispatch")
      \/ /\ ~IsAborting(s) /\ ~approved
         /\ PutTwice(s, cleared, WithBrowser(cleared, "STOPPED"))
         /\ GoTo(s, "deny_write")

\* A fault: no return after the denial.
DenyLaunchFallsThrough(s) ==
  /\ pc[s] = "deny_write"
  /\ Write(s, "CANCELLED")
  /\ GoTo(s, "dispatch")
  /\ UNCHANGED <<tracked, session, inflight, step, ok, exit, required,
                 performed, approvalVars, chrome, streamVars, controlVars>>

\* A fault: the denied session is not deleted.
DenyLaunchLeaks(s) ==
  /\ pc[s] = "deny_write"
  /\ Write(s, "CANCELLED")
  /\ exit' = [exit EXCEPT ![s] = "LAUNCH_DENIED"]
  /\ GoTo(s, "done")
  /\ UNCHANGED <<tracked, session, inflight, step, ok, required, performed,
                 approvalVars, chrome, streamVars, controlVars>>

DenyLaunch(s) ==
  /\ pc[s] = "deny_write"
  /\ Write(s, "CANCELLED")
  /\ Untrack(s)
  /\ exit' = [exit EXCEPT ![s] = "LAUNCH_DENIED"]
  /\ GoTo(s, "done")
  /\ UNCHANGED <<inflight, step, ok, required, performed, approvalVars,
                 chrome, streamVars, controlVars>>

Simulate(s) ==
  /\ pc[s] = "simulate"
  /\ \E status \in {"COMPLETED", "FAILED"} : Write(s, status)
  /\ Untrack(s)
  /\ exit' = [exit EXCEPT ![s] = "SIMULATION_COMPLETED"]
  /\ GoTo(s, "done")
  /\ UNCHANGED <<inflight, step, ok, required, performed, approvalVars,
                 chrome, streamVars, controlVars>>

\* An awaited call throws outside the step's try block.
StageThrows(s) ==
  /\ pc[s] \in {"planning", "policy_fail", "launch_create", "deny_write",
                "simulate", "dispatch", "launching", "loop",
                "cognitive_pause", "verify"}
  /\ GoTo(s, "error_write")
  /\ chrome' = [chrome EXCEPT ![s] = IF pc[s] = "launching" THEN "closed" ELSE @]
  /\ UNCHANGED <<authVars, step, ok, exit, required, performed,
                 approvalVars, streamVars, controlVars>>

\* A failure of this write is swallowed.
HandleError(s) ==
  /\ pc[s] = "error_write"
  /\ db' \in {db, [db EXCEPT ![s] = "FAILED"]}
  /\ Untrack(s)
  /\ GoTo(s, "done")
  /\ UNCHANGED <<inflight, step, ok, exit, required, performed,
                 approvalVars, chrome, streamVars, controlVars>>

-----------------------------------------------------------------------------
(* The run, after the gate. *)

\* The job goes to the Python engine; or it needs a skill only that engine
\* has and it is offline; or the run continues inline.
Dispatch(s) ==
  /\ pc[s] = "dispatch"
  /\ \/ /\ exit' = [exit EXCEPT ![s] = "WORKER_DISPATCHED"]
        /\ GoTo(s, "done")
        /\ UNCHANGED <<session, inflight, chrome>>
     \/ /\ GoTo(s, "error_write")
        /\ UNCHANGED <<session, inflight, exit, chrome>>
     \/ /\ IsAborting(s)
        /\ GoTo(s, "done")
        /\ UNCHANGED <<session, inflight, exit, chrome>>
     \/ /\ ~IsAborting(s)
        /\ HasRoom(s)
        /\ Put(s, WithBrowser(session[s], "INITIALIZING"))
        /\ chrome' = [chrome EXCEPT ![s] = "launching"]
        /\ GoTo(s, "launching")
        /\ UNCHANGED exit
  /\ UNCHANGED <<tracked, db, step, ok, required, performed, approvalVars,
                 streamVars, controlVars>>

ChromeUp(s) ==
  /\ pc[s] = "launching"
  /\ HasRoom(s)
  /\ Put(s, WithBrowser(session[s], "READY"))
  /\ chrome' = [chrome EXCEPT ![s] = "open"]
  /\ StartStreaming(s)
  /\ GoTo(s, "loop")
  /\ UNCHANGED <<tracked, db, step, ok, exit, required, performed,
                 approvalVars, controlVars>>

\* A fault: a step the policy blocks does not count against the run.
BeginStepForgiving(s) ==
  /\ \E stage \in {"replan", "ask_policy", "tool"} : GoTo(s, stage)
  /\ UNCHANGED ok

\* What a step may need first: the policy blocks it, asks, or lets it run.
BeginStep(s) ==
  \/ /\ GoTo(s, "replan")
     /\ ok' = [ok EXCEPT ![s] = FALSE]
  \/ /\ \E stage \in {"ask_policy", "tool"} : GoTo(s, stage)
     /\ UNCHANGED ok

\* What drift and confidence decide before a step: abort, pause, or begin.
CognitiveGate(s) ==
  \/ /\ LeaveLoop(s)
     /\ ok' = [ok EXCEPT ![s] = FALSE]
     /\ UNCHANGED db
  \/ /\ Write(s, "PAUSED")
     /\ GoTo(s, "cognitive_pause")
     /\ UNCHANGED <<ok, chrome, streamVars>>
  \/ /\ BeginStep(s)
     /\ UNCHANGED <<db, chrome, streamVars>>

\* The head of the loop: no step is left, the session is aborting, or the
\* gate decides on the next step.
Iterate(s) ==
  /\ pc[s] = "loop"
  /\ \/ /\ step[s] > Steps \/ IsAborting(s)
        /\ LeaveLoop(s)
        /\ UNCHANGED <<ok, db>>
     \/ /\ step[s] \in 1..Steps /\ ~IsAborting(s)
        /\ CognitiveGate(s)
  /\ UNCHANGED <<tracked, session, inflight, step, exit, required,
                 performed, approvalVars, controlVars>>

\* A fault: the pause has no time limit.
EndlessPause(s) ==
  /\ pc[s] = "cognitive_pause"
  /\ db[s] = "RUNNING"
  /\ BeginStep(s)
  /\ UNCHANGED <<authVars, step, exit, required, performed, approvalVars,
                 chrome, streamVars, controlVars>>

\* The pause polls the database, where RUNNING ends it first, a cancellation
\* second; after two minutes it ends anyway.  A run that has had a failure
\* stops however the pause ends.
CognitivePause(s) ==
  LET cancelled == db[s] # "RUNNING" /\ (db[s] = "CANCELLED" \/ IsAborting(s))
  IN  /\ pc[s] = "cognitive_pause"
      /\ \/ /\ ~cancelled /\ ok[s]
            /\ BeginStep(s)
            /\ UNCHANGED <<chrome, streamVars>>
         \/ /\ cancelled \/ ~ok[s]
            /\ LeaveLoop(s)
            /\ ok' = [ok EXCEPT ![s] = FALSE]
      /\ UNCHANGED <<authVars, step, exit, required, performed,
                     approvalVars, controlVars>>

AskForStep(s) ==
  \E kind \in {"policy", "blocker"} :
    LET next == IF kind = "policy" THEN "await_policy" ELSE "await_blocker"
        from == IF kind = "policy" THEN "ask_policy" ELSE "ask_blocker"
    IN  /\ pc[s] = from
        /\ Ask(s, <<kind, step[s]>>)
        /\ GoTo(s, next)
        /\ UNCHANGED <<tracked, db, step, ok, exit, required, performed,
                       reply, granted, chrome, streamVars, controlVars>>

\* The tool runs: it fails, something on the page blocks the run until the
\* user approves, or the step is complete.
RunTool(s) ==
  /\ pc[s] = "tool"
  /\ \/ /\ GoTo(s, "replan")
        /\ ok' = [ok EXCEPT ![s] = FALSE]
     \/ /\ \E stage \in {"ask_blocker", "progress"} : GoTo(s, stage)
        /\ UNCHANGED ok
  /\ UNCHANGED <<authVars, step, exit, required, performed, approvalVars,
                 chrome, streamVars, controlVars>>

\* A fault: the next step is recorded as performed.
ProgressAhead(s) ==
  /\ pc[s] = "progress"
  /\ performed' = [performed EXCEPT ![s] = @ \cup {step[s] + 1}]
  /\ step' = [step EXCEPT ![s] = @ + 1]
  /\ GoTo(s, "loop")
  /\ UNCHANGED <<authVars, ok, exit, required, approvalVars, chrome,
                 streamVars, controlVars>>

Progress(s) ==
  /\ pc[s] = "progress"
  /\ performed' = [performed EXCEPT ![s] = @ \cup {step[s]}]
  /\ step' = [step EXCEPT ![s] = @ + 1]
  /\ GoTo(s, "loop")
  /\ UNCHANGED <<authVars, ok, exit, required, approvalVars, chrome,
                 streamVars, controlVars>>

\* A replan is stored, but the loop goes on with the plan it began with.
Replan(s) ==
  /\ pc[s] = "replan"
  /\ \/ /\ step' = [step EXCEPT ![s] = @ + 1]
        /\ GoTo(s, "loop")
        /\ UNCHANGED <<chrome, streamVars>>
     \/ /\ LeaveLoop(s)
        /\ UNCHANGED step
  /\ UNCHANGED <<authVars, ok, exit, required, performed, approvalVars,
                 controlVars>>

\* An awaited call throws inside the step's try block.
StepThrows(s) ==
  /\ pc[s] \in {"ask_policy", "tool", "ask_blocker", "progress"}
  /\ LeaveLoop(s)
  /\ ok' = [ok EXCEPT ![s] = FALSE]
  /\ UNCHANGED <<authVars, step, exit, required, performed, approvalVars,
                 controlVars>>

\* closeSession swallows a failure and keeps its entry.
CloseEnds(s) ==
  /\ pc[s] = "closing"
  /\ HasRoom(s)
  /\ \/ /\ chrome' = [chrome EXCEPT ![s] = "closed"]
        /\ Put(s, WithBrowser(session[s], "STOPPED"))
     \/ UNCHANGED <<chrome, session, inflight>>
  /\ GoTo(s, "verify")
  /\ UNCHANGED <<tracked, db, step, ok, exit, required, performed,
                 approvalVars, streamVars, controlVars>>

\* The verifier may turn a success into a failure.
Verify(s) == ok' \in {ok, [ok EXCEPT ![s] = FALSE]}

\* The reflection stage records the result whatever the status is, and the
\* session is deleted.
VerifyAndReflect(s) ==
  /\ pc[s] = "verify"
  /\ Verify(s)
  /\ Write(s, IF ok'[s] THEN "COMPLETED" ELSE "FAILED")
  /\ Untrack(s)
  /\ GoTo(s, "done")
  /\ UNCHANGED <<inflight, step, exit, required, performed, approvalVars,
                 chrome, streamVars, controlVars>>

-----------------------------------------------------------------------------
(* Approval requests: responses and expiry. *)

\* What the awaiting run does when the listener of r fires.
Resume(s, r, approved, rec) ==
  \/ /\ Waits(s, r) /\ r = LaunchRequest
     /\ ResumeLaunch(s, approved, rec)
     /\ UNCHANGED ok
  \/ /\ Waits(s, r) /\ r # LaunchRequest
     /\ Put(s, rec)
     /\ GoTo(s, IF ~approved THEN "replan"
                ELSE IF pc[s] = "await_policy" THEN "tool" ELSE "progress")
     /\ ok' = [ok EXCEPT ![s] = @ /\ approved]
  \/ /\ ~Waits(s, r)
     /\ Put(s, rec)
     /\ UNCHANGED <<pc, ok>>

\* handleApprovalResponse finds the request pending.
CheckReply(c) ==
  /\ reply[c] = NoReply
  /\ \E s \in Sessions, r \in Requests, verdict \in Verdicts :
       /\ request[s][r] = "PENDING"
       /\ reply' = [reply EXCEPT
            ![c] = [session |-> s, request |-> r, verdict |-> verdict]]
  /\ UNCHANGED <<authVars, runVars, request, timer, granted, chrome,
                 streamVars, controlVars>>

\* It writes the verdict, clears the gate and emits to the listener of the
\* request, which clears the timer.
ApplyReply(c) ==
  /\ reply[c] # NoReply
  /\ LET s == reply[c].session
         r == reply[c].request
         approved == reply[c].verdict = "APPROVED"
     IN  /\ HasRoom(s)
         /\ request' = [request EXCEPT ![s][r] = reply[c].verdict]
         /\ granted' = granted \cup (IF approved THEN {<<s, r>>} ELSE {})
         /\ timer' = [timer EXCEPT
              ![s][r] = IF @ = "armed" /\ Waits(s, r) THEN "off" ELSE @]
         /\ Resume(s, r, approved, WithGate(session[s], "CLEARED"))
  /\ reply' = [reply EXCEPT ![c] = NoReply]
  /\ UNCHANGED <<tracked, db, step, exit, required, performed, chrome,
                 streamVars, controlVars>>

\* The timer's callback reads the request.
TimerFires(s, r) ==
  /\ timer[s][r] = "armed"
  /\ timer' = [timer EXCEPT
       ![s][r] = IF request[s][r] = "PENDING" THEN "checked" ELSE "off"]
  /\ UNCHANGED <<authVars, runVars, request, reply, granted, chrome,
                 streamVars, controlVars>>

\* A fault: the launch request's timer emits an approval.
ExpireApproves(s, r) ==
  /\ timer[s][r] = "checked"
  /\ HasRoom(s)
  /\ timer' = [timer EXCEPT ![s][r] = "off"]
  /\ request' = [request EXCEPT ![s][r] = "EXPIRED"]
  /\ IF r = LaunchRequest
       THEN Resume(s, r, TRUE, session[s])
       ELSE UNCHANGED <<session, inflight, pc, ok>>
  /\ UNCHANGED <<tracked, db, step, exit, required, performed, reply,
                 granted, chrome, streamVars, controlVars>>

\* A fault: the timer emits nothing.
ExpireSilently(s, r) ==
  /\ timer[s][r] = "checked"
  /\ timer' = [timer EXCEPT ![s][r] = "off"]
  /\ request' = [request EXCEPT ![s][r] = "EXPIRED"]
  /\ UNCHANGED <<authVars, runVars, reply, granted, chrome, streamVars,
                 controlVars>>

\* It expires the request; only the launch request's timer emits a denial.
Expire(s, r) ==
  /\ timer[s][r] = "checked"
  /\ HasRoom(s)
  /\ timer' = [timer EXCEPT ![s][r] = "off"]
  /\ request' = [request EXCEPT ![s][r] = "EXPIRED"]
  /\ IF r = LaunchRequest
       THEN Resume(s, r, FALSE, session[s])
       ELSE UNCHANGED <<session, inflight, pc, ok>>
  /\ UNCHANGED <<tracked, db, step, exit, required, performed, reply,
                 granted, chrome, streamVars, controlVars>>

-----------------------------------------------------------------------------
(* Pause, resume, cancel and interrupts, on any session that has a row. *)

Control(s) ==
  /\ db[s] # "NONE"
  /\ controls[s] < MaxControls
  /\ controls' = [controls EXCEPT ![s] = @ + 1]

Pause(s) ==
  /\ Control(s)
  /\ HasRoom(s)
  /\ StopStreaming(s)
  /\ Put(s, WithBrowser(session[s], "PAUSED"))
  /\ UNCHANGED <<tracked, db, runVars, approvalVars, chrome, cancel>>

ResumeExecution(s) ==
  /\ Control(s)
  /\ HasRoom(s)
  /\ StartStreaming(s)
  /\ Put(s, WithBrowser(session[s], "RUNNING"))
  /\ UNCHANGED <<tracked, db, runVars, approvalVars, chrome, cancel>>

\* Cancelling marks the session, stops the stream, and closes the browser if
\* it has an entry; pendingLaunchApprovals of the engine never has one, so
\* nothing is emitted to a held launch.
CancelBegins(s) ==
  LET aborting == [session[s] EXCEPT !.aborting = TRUE]
  IN  /\ cancel[s] = "idle"
      /\ Control(s)
      /\ HasRoom(s)
      /\ StopStreaming(s)
      /\ IF HasEntry(s)
           THEN /\ Put(s, aborting)
                /\ chrome' = [chrome EXCEPT ![s] = "closing"]
                /\ cancel' = [cancel EXCEPT ![s] = "closing"]
           ELSE /\ Put(s, WithBrowser(aborting, "STOPPED"))
                /\ cancel' = [cancel EXCEPT ![s] = "writing"]
                /\ UNCHANGED chrome
      /\ UNCHANGED <<tracked, db, runVars, approvalVars>>

CancelCloses(s) ==
  /\ cancel[s] = "closing"
  /\ HasRoom(s)
  /\ chrome' \in {chrome, [chrome EXCEPT ![s] = "closed"]}
  /\ Put(s, WithBrowser(session[s], "STOPPED"))
  /\ cancel' = [cancel EXCEPT ![s] = "writing"]
  /\ UNCHANGED <<tracked, db, runVars, approvalVars, streamVars, controls>>

\* When the write fails, the session stays in the authority.
CancelWrites(s) ==
  /\ cancel[s] = "writing"
  /\ \/ /\ Write(s, "CANCELLED")
        /\ Untrack(s)
        /\ cancel' = [cancel EXCEPT ![s] = "done"]
     \/ /\ cancel' = [cancel EXCEPT ![s] = "failed"]
        /\ UNCHANGED <<tracked, session, db>>
  /\ UNCHANGED <<inflight, runVars, approvalVars, chrome, streamVars,
                 controls>>

\* The status each parsed command writes; what it hands to the run through the
\* injected data and the emitted events, nothing in the run listens to.
InterruptStatuses == {"CANCELLED", "PAUSED", "RUNNING", "WAITING_APPROVAL"}

\* A natural-language command is parsed and its status is written to the row
\* alone: neither the run nor the authority is told.
Interrupt(s) ==
  /\ Control(s)
  /\ \E status \in InterruptStatuses : Write(s, status)
  /\ UNCHANGED <<tracked, session, inflight, runVars, approvalVars, chrome,
                 streamVars, cancel>>

-----------------------------------------------------------------------------
(* The screenshot stream; at most one screenshot is taken at a time. *)

TakeFrame(s) ==
  /\ streaming[s] /\ ~frame[s]
  /\ IF chrome[s] = "open"
       THEN /\ frame' = [frame EXCEPT ![s] = TRUE]
            /\ UNCHANGED <<streaming, counted>>
       ELSE StopStreaming(s)
  /\ UNCHANGED <<authVars, runVars, approvalVars, chrome, controlVars>>

\* The first counted frame declares the browser RUNNING; a screenshot that
\* failed counts for nothing.
FrameArrives(s) ==
  /\ frame[s]
  /\ HasRoom(s)
  /\ frame' = [frame EXCEPT ![s] = FALSE]
  /\ \/ /\ counted' = [counted EXCEPT ![s] = TRUE]
        /\ Put(s, IF counted[s] THEN session[s]
                  ELSE WithBrowser(session[s], "RUNNING"))
     \/ UNCHANGED <<counted, session, inflight>>
  /\ UNCHANGED <<tracked, db, runVars, approvalVars, chrome, streaming,
                 controlVars>>

-----------------------------------------------------------------------------

StatusLands(s) ==
  /\ \E status \in LiveStatuses : UpdateLands(s, status)
  /\ UNCHANGED <<runVars, approvalVars, chrome, streamVars, controlVars>>

\* The run's own steps.
Run(s) ==
  \/ Register(s) \/ HoldForClarification(s) \/ Clarify(s) \/ PollThrows(s)
  \/ Plan(s) \/ FailPolicy(s) \/ RequestLaunchApproval(s) \/ DenyLaunch(s)
  \/ Simulate(s) \/ HandleError(s) \/ Dispatch(s) \/ ChromeUp(s)
  \/ Iterate(s) \/ CognitivePause(s) \/ AskForStep(s) \/ RunTool(s)
  \/ Progress(s) \/ Replan(s) \/ CloseEnds(s) \/ VerifyAndReflect(s)

\* An awaited call of the run fails.
Throws(s) == StageThrows(s) \/ StepThrows(s) \/ CallbackThrows(s)

Expiry(s) == \E r \in Requests : TimerFires(s, r) \/ Expire(s, r)

Cancelling(s) == CancelCloses(s) \/ CancelWrites(s)

\* Work the backend has begun and that goes on without any user.
EventLoop ==
  \/ \E c \in Clients : ApplyReply(c)
  \/ \E s \in Sessions :
       StatusLands(s) \/ Cancelling(s) \/ Expiry(s) \/ Run(s)

\* What users, the screenshot interval, failing calls and the end of the process
\* do.
Outside ==
  \/ \E s \in Sessions :
       \/ Start(s) \/ Pause(s) \/ ResumeExecution(s) \/ CancelBegins(s)
       \/ Interrupt(s)
       \/ TakeFrame(s) \/ FrameArrives(s) \/ Throws(s)
  \/ \E c \in Clients : CheckReply(c)
  \/ BackendEnds

Next == EventLoop \/ Outside

Spec == PipelineInit /\ [][Next]_vars

\* While begun work is pending (an awaited call, a timer, an update), some of
\* it goes on.  No user ever has to start, respond, pause or cancel, and no
\* call has to fail.
Fairness == WF_vars(EventLoop)

FairSpec == Spec /\ Fairness

-----------------------------------------------------------------------------
(* Properties. *)

Replies == [session : Sessions, request : Requests, verdict : Verdicts]

PipelineTypeOK ==
  /\ AuthTypeOK
  /\ pc \in [Sessions -> Stages]
  /\ step \in [Sessions -> 1..(Steps + 1)]
  /\ ok \in [Sessions -> BOOLEAN]
  /\ exit \in [Sessions -> ExitReasons]
  /\ required \in [Sessions -> BOOLEAN]
  /\ performed \in [Sessions -> SUBSET (1..Steps)]
  /\ request \in [Sessions -> [Requests -> RequestStatuses]]
  /\ timer \in [Sessions -> [Requests -> TimerStates]]
  /\ reply \in [Clients -> Replies \cup {NoReply}]
  /\ granted \subseteq Sessions \X Requests
  /\ chrome \in [Sessions -> ChromeStates]
  /\ streaming \in [Sessions -> BOOLEAN]
  /\ counted \in [Sessions -> BOOLEAN]
  /\ frame \in [Sessions -> BOOLEAN]
  /\ cancel \in [Sessions -> CancelStates]
  /\ controls \in [Sessions -> 0..MaxControls]

\* Whether the run has a browser, in this process or in the Python engine.
Launched(s) == chrome[s] # "none" \/ exit[s] = "WORKER_DISPATCHED"

\* Racing responses, the expiry timer and a cancellation never open a browser
\* for a run the gate holds, unless some response that found the request
\* pending approved it.
LaunchNeedsConsent ==
  \A s \in Sessions :
    required[s] /\ Launched(s) => <<s, LaunchRequest>> \in granted

\* A step that asked for approval, before it or because of a blocker after
\* it, is completed only if that very request was approved.
StepNeedsConsent ==
  \A s \in Sessions, i \in 1..Steps, kind \in {"policy", "blocker"} :
    i \in performed[s] /\ request[s][<<kind, i>>] # "NONE" =>
      <<s, <<kind, i>>>> \in granted

\* A session that shows WAITING_APPROVAL has a run that waits: no response,
\* expiry or denial resumes the run and leaves the gate held behind it.
HeldGateHasWaiter ==
  \A s \in tracked :
    session[s].gate = "WAITING_APPROVAL" /\ ~session[s].aborting =>
      pc[s] \in {"await_launch", "await_policy", "await_blocker"}

\* The run and the cancellation share the deletion of the session: when both
\* are over, one of them has done it, except where the code leaves the
\* session on purpose (dispatched) or returns early (policy).
FinishedRunIsReleased ==
  \A s \in tracked :
    pc[s] = "done" =>
      \/ exit[s] \in {"WORKER_DISPATCHED", "POLICY_FAILED"}
      \/ cancel[s] \in {"closing", "writing", "failed"}

\* No run goes on to its verification with a browser that nobody has begun to
\* close, although the cancellation closes the same browser beside the loop, and
\* may have found none because Chromium was still starting.  (Errors outside the
\* step's try block do leave it open.)
LoopClosesBrowser ==
  \A s \in Sessions : pc[s] \in {"closing", "verify"} => chrome[s] # "open"

\* The status COMPLETED of a run that was not simulated means that every step of
\* the plan was performed, whatever was paused, replanned, interrupted or written
\* late; only a cancelled run is recorded so without them (the reflection stage
\* takes the loop that was left for the cancellation as a success).
CompletedIsEarned ==
  \A s \in Sessions :
    db[s] = "COMPLETED" /\ exit[s] # "SIMULATION_COMPLETED" =>
      performed[s] = 1..Steps \/ cancel[s] # "idle"

\* "Resuming a confirmed-alive browser": pause, resume and the stream they start or
\* stop are accepted at any time, also while the plan is made, held or denied, but
\* no call and no late frame shows a browser as live whose launch has not begun.
\* (That it is up is not so: a resume during the launch shows RUNNING.)
LiveNeedsLaunch ==
  \A s \in tracked :
    session[s].browser \in {"INITIALIZING", "READY", "RUNNING", "PAUSED"} =>
      chrome[s] # "none"

\* The gate's decision is what the abstract gate allows.
GatePhase(s) ==
  IF Launched(s) THEN "launched" ELSE
  CASE pc[s] \in Deciding \cup {"launch_create"} -> "deciding"
    [] pc[s] = "await_launch"                    -> "held"
    [] pc[s] \in {"dispatch", "simulate"}        -> "cleared"
    [] pc[s] = "deny_write"                      -> "refused"
    [] pc[s] = "done" /\ exit[s] = "LAUNCH_DENIED" -> "refused"
    [] OTHER                                     -> "ended"

Gate == INSTANCE LaunchGate WITH
  phase   <- [s \in Sessions |-> GatePhase(s)],
  consent <- {s \in Sessions : <<s, LaunchRequest>> \in granted}

\* Every behaviour of the pipeline is one of LaunchGate.
ImplementsLaunchGate == Gate!GateSpec

\* A launch that is held is decided in the end, by a response or by the timer
\* that denies it, even when the session was cancelled meanwhile, unless the
\* process ends first.
HeldLaunchIsDecided ==
  \A s \in Sessions : pc[s] = "await_launch" ~> pc[s] # "await_launch"

\* A run that began comes to an end, waits for the user at a step, or is lost: with
\* the process, or because its goal had to be clarified while the relay is
\* subscribed or the database failed, which leaves the row WAITING_APPROVAL.
RunSettles ==
  \A s \in Sessions :
    pc[s] = "starting" ~>
      pc[s] \in {"done", "await_policy", "await_blocker", "lost"}

-----------------------------------------------------------------------------
(* What the comments of the code say, and the code does not do. *)

\* Cancelling releases a launch that is still held as a denial, so that the
\* run never opens a browser (execution-engine.service.ts:799-800).
CancelledGateNeverLaunches ==
  [][\A s \in Sessions :
       cancel[s] = "done" /\ pc[s] = "await_launch" =>
         pc'[s] # "dispatch"]_vars

\* A step's approval request denies by itself when it expires
\* (execution-engine.service.ts:564).
ExpiredStepIsDenied ==
  \A s \in Sessions :
    pc[s] \in {"await_policy", "await_blocker"} ~>
      pc[s] \notin {"await_policy", "await_blocker"}

\* PAUSED is "user paused; browser alive, stream stopped", and declaring RUNNING
\* is "idempotent on every later frame": no frame takes a session out of the
\* pause (session-manager.service.ts:16, screenshot-streamer.service.ts:65).
FrameKeepsPause ==
  [][\A s \in Sessions :
       session[s].browser = "PAUSED" /\ frame[s] /\ ~frame'[s] =>
         session'[s].browser # "RUNNING"]_vars

\* The derived state surfaces WAITING_APPROVAL until the user responds
\* (execution-engine.service.ts:552-553).
WaitingIsSurfaced ==
  \A s \in tracked :
    pc[s] \in {"await_policy", "await_blocker"} /\ cancel[s] = "idle" =>
      session[s].lastExec = "WAITING_APPROVAL"

=============================================================================

--------------------- MODULE ExecutionPipeline_proofs ---------------------
(***************************************************************************)
(* Proofs about ExecutionPipeline for any sessions, clients, length of the *)
(* plan and bounds.                                                        *)
(***************************************************************************)
EXTENDS ExecutionPipeline, SessionAuthority_proofs

\* The stages in which the run is at a step of the plan.
InStep ==
  {"cognitive_pause", "ask_policy", "await_policy", "tool", "ask_blocker",
   "await_blocker", "progress", "replan"}

\* Typing is not inductive alone: the step counter stays in range because a
\* run inside the loop is at a step the plan has.
StepInRange == \A s \in Sessions : pc[s] \in InStep => step[s] \in 1..Steps

Typing == PipelineTypeOK /\ StepInRange

\* The same, for the variables other than the authority's.
LocalTypeOK ==
  /\ pc \in [Sessions -> Stages]
  /\ step \in [Sessions -> 1..(Steps + 1)]
  /\ ok \in [Sessions -> BOOLEAN]
  /\ exit \in [Sessions -> ExitReasons]
  /\ required \in [Sessions -> BOOLEAN]
  /\ performed \in [Sessions -> SUBSET (1..Steps)]
  /\ request \in [Sessions -> [Requests -> RequestStatuses]]
  /\ timer \in [Sessions -> [Requests -> TimerStates]]
  /\ reply \in [Clients -> Replies \cup {NoReply}]
  /\ granted \subseteq Sessions \X Requests
  /\ chrome \in [Sessions -> ChromeStates]
  /\ streaming \in [Sessions -> BOOLEAN]
  /\ counted \in [Sessions -> BOOLEAN]
  /\ frame \in [Sessions -> BOOLEAN]
  /\ cancel \in [Sessions -> CancelStates]
  /\ controls \in [Sessions -> 0..MaxControls]

LEMMA TypingSplit == Typing <=> AuthTypeOK /\ LocalTypeOK /\ StepInRange
BY DEF Typing, PipelineTypeOK, LocalTypeOK

\* Deleting and registering a session, and writing its row, keep the types.
LEMMA TrackType ==
  ASSUME AuthTypeOK, NEW s \in Sessions, Track(s) \/ Untrack(s)
  PROVE  /\ tracked' \subseteq Sessions
         /\ session' \in [Sessions -> SessionRecords]
BY NewSessionOK DEF AuthTypeOK, Track, Untrack

LEMMA WriteType ==
  ASSUME AuthTypeOK, NEW s \in Sessions, NEW status \in DbStatuses,
         Write(s, status)
  PROVE  db' \in [Sessions -> DbStatuses]
BY DEF AuthTypeOK, Write

-----------------------------------------------------------------------------
(* The authority's variables keep their types in every step. *)

\* What the calls into the authority preserve.
AuthWritten ==
  /\ session' \in [Sessions -> SessionRecords]
  /\ inflight' \in [Sessions -> [LiveStatuses -> Nat]]

LEMMA GatePut ==
  ASSUME AuthTypeOK, NEW s \in Sessions, NEW to \in GateStates,
         Put(s, WithGate(session[s], to))
  PROVE  AuthWritten
<1>1. session[s] \in SessionRecords
  BY DEF AuthTypeOK
<1> QED
  BY <1>1, WithGateOK, PutType DEF AuthWritten

LEMMA BrowserPut ==
  ASSUME AuthTypeOK, NEW s \in Sessions, NEW to \in BrowserStates,
         Put(s, WithBrowser(session[s], to))
  PROVE  AuthWritten
<1>1. session[s] \in SessionRecords
  BY DEF AuthTypeOK
<1> QED
  BY <1>1, WithBrowserOK, PutType DEF AuthWritten

LEMMA ResumeLaunchPut ==
  ASSUME AuthTypeOK, NEW s \in Sessions, NEW approved,
         NEW rec \in SessionRecords, ResumeLaunch(s, approved, rec)
  PROVE  AuthWritten
<1> DEFINE cleared == WithGate(rec, "CLEARED")
           stopped == WithBrowser(cleared, "STOPPED")
<1>1. cleared \in SessionRecords
  BY WithGateOK DEF GateStates
<1>2. stopped \in SessionRecords
  BY <1>1, WithBrowserOK DEF BrowserStates
<1>3. Put(s, rec) \/ Put(s, cleared) \/ PutTwice(s, cleared, stopped)
  BY DEF ResumeLaunch
<1> QED
  BY <1>1, <1>2, <1>3, PutType, PutTwiceType DEF AuthWritten

LEMMA ResumePut ==
  ASSUME AuthTypeOK, NEW s \in Sessions, NEW r, NEW approved,
         NEW rec \in SessionRecords, Resume(s, r, approved, rec)
  PROVE  AuthWritten
<1>1. ResumeLaunch(s, approved, rec) \/ Put(s, rec)
  BY DEF Resume
<1> QED
  BY <1>1, ResumeLaunchPut, PutType DEF AuthWritten

LEMMA PlanPut ==
  ASSUME AuthTypeOK, NEW s \in Sessions, Plan(s)
  PROVE  AuthWritten
<1>1. session[s] \in SessionRecords
  BY DEF AuthTypeOK
<1>2. PlanReady(s) \in SessionRecords
  BY <1>1, WithGateOK DEF PlanReady, GateStates
<1>3. GateCleared(s) \in SessionRecords
  BY <1>2, WithGateOK DEF GateCleared, GateStates
<1>4. Put(s, PlanReady(s)) \/ PutTwice(s, PlanReady(s), GateCleared(s))
  BY DEF Plan, AutomationGate
<1> QED
  BY <1>2, <1>3, <1>4, PutType, PutTwiceType DEF AuthWritten

LEMMA CancelPut ==
  ASSUME AuthTypeOK, NEW s \in Sessions, CancelBegins(s)
  PROVE  AuthWritten
<1> DEFINE aborting == [session[s] EXCEPT !.aborting = TRUE]
<1>1. session[s] \in SessionRecords
  BY DEF AuthTypeOK
<1>2. aborting \in SessionRecords
  BY <1>1 DEF SessionRecords
<1>3. Put(s, aborting) \/ Put(s, WithBrowser(aborting, "STOPPED"))
  BY DEF CancelBegins
<1> HIDE DEF aborting
<1>4. WithBrowser(aborting, "STOPPED") \in SessionRecords
  BY <1>2, WithBrowserOK DEF BrowserStates
<1> QED
  BY <1>2, <1>3, <1>4, PutType DEF AuthWritten

LEMMA ReplyPut ==
  ASSUME AuthTypeOK, LocalTypeOK, NEW c \in Clients, ApplyReply(c)
  PROVE  AuthWritten
<1> DEFINE s == reply[c].session
           r == reply[c].request
           approved == reply[c].verdict = "APPROVED"
           rec == WithGate(session[s], "CLEARED")
<1>1. s \in Sessions
  BY DEF ApplyReply, LocalTypeOK, Replies
<1>2. rec \in SessionRecords
  BY <1>1, WithGateOK DEF AuthTypeOK, GateStates
<1>3. Resume(s, r, approved, rec)
  BY DEF ApplyReply
<1> QED
  BY <1>1, <1>2, <1>3, ResumePut

LEMMA FramePut ==
  ASSUME AuthTypeOK, NEW s \in Sessions, FrameArrives(s)
  PROVE  AuthWritten
<1>1. session[s] \in SessionRecords
  BY DEF AuthTypeOK
<1>2. CASE UNCHANGED <<session, inflight>>
  BY <1>2 DEF AuthTypeOK, AuthWritten
<1>3. CASE Put(s, session[s]) \/ Put(s, WithBrowser(session[s], "RUNNING"))
  BY <1>1, <1>3, BrowserPut, PutType DEF AuthWritten, BrowserStates
<1> QED
  BY <1>2, <1>3 DEF FrameArrives

LEMMA AuthStep ==
  ASSUME AuthTypeOK, LocalTypeOK, [Next]_vars
  PROVE  AuthTypeOK'
<1>0. ASSUME UNCHANGED authVars PROVE AuthTypeOK'
  BY <1>0 DEF authVars, AuthTypeOK
<1>1. ASSUME NEW s \in Sessions,
             Start(s) \/ HoldForClarification(s) \/ FailPolicy(s)
      PROVE  AuthTypeOK'
  BY <1>1 DEF Start, HoldForClarification, FailPolicy, Write, AuthTypeOK,
              DbStatuses, LiveStatuses
<1>2. ASSUME NEW s \in Sessions,
             Register(s) \/ DenyLaunch(s) \/ Simulate(s) \/ HandleError(s)
               \/ VerifyAndReflect(s) \/ Clarify(s) \/ CancelWrites(s)
      PROVE  AuthTypeOK'
  <2>1. /\ tracked' \subseteq Sessions
        /\ session' \in [Sessions -> SessionRecords]
        /\ inflight' = inflight
    BY <1>2, TrackType
       DEF Register, DenyLaunch, Simulate, HandleError, VerifyAndReflect,
           Verify, Clarify, CancelWrites, AuthTypeOK
  <2>2. db' \in [Sessions -> DbStatuses]
    BY <1>2 DEF Register, DenyLaunch, Simulate, HandleError, VerifyAndReflect,
                Verify, Clarify, CancelWrites, Write, AuthTypeOK, DbStatuses,
                LiveStatuses
  <2> QED
    BY <2>1, <2>2 DEF AuthTypeOK
<1>3. ASSUME AuthWritten, UNCHANGED <<tracked, db>> PROVE AuthTypeOK'
  BY <1>3 DEF AuthTypeOK, AuthWritten
<1>4. ASSUME NEW s \in Sessions, RequestLaunchApproval(s) \/ AskForStep(s)
      PROVE  AuthTypeOK'
  <2>1. Put(s, WithGate(session[s], "WAITING_APPROVAL"))
        /\ UNCHANGED <<tracked, db>>
    BY <1>4 DEF RequestLaunchApproval, AskForStep, Ask
  <2> QED
    BY <2>1, <1>3, GatePut DEF GateStates
<1>5. ASSUME NEW s \in Sessions, Plan(s)
      PROVE  AuthTypeOK'
  BY <1>5, <1>3, PlanPut DEF Plan, AutomationGate
<1>6. ASSUME NEW s \in Sessions,
             Dispatch(s) \/ ChromeUp(s) \/ CloseEnds(s) \/ Pause(s)
               \/ ResumeExecution(s) \/ CancelCloses(s)
      PROVE  AuthTypeOK'
  <2>1. UNCHANGED <<tracked, db>>
    BY <1>6 DEF Dispatch, ChromeUp, CloseEnds, Pause, ResumeExecution,
                CancelCloses
  <2>2. \/ UNCHANGED <<session, inflight>>
        \/ \E to \in BrowserStates : Put(s, WithBrowser(session[s], to))
    BY <1>6 DEF Dispatch, ChromeUp, CloseEnds, Pause, ResumeExecution,
                CancelCloses, BrowserStates
  <2>3. CASE UNCHANGED <<session, inflight>>
    BY <2>1, <2>3, <1>0 DEF authVars
  <2> QED
    BY <2>1, <2>2, <2>3, <1>3, BrowserPut
<1>7. ASSUME NEW s \in Sessions, CancelBegins(s)
      PROVE  AuthTypeOK'
  BY <1>7, <1>3, CancelPut DEF CancelBegins
<1>8. ASSUME NEW c \in Clients, ApplyReply(c)
      PROVE  AuthTypeOK'
  BY <1>8, <1>3, ReplyPut DEF ApplyReply
<1>9. ASSUME NEW s \in Sessions, NEW r \in Requests, Expire(s, r)
      PROVE  AuthTypeOK'
  <2>1. session[s] \in SessionRecords
    BY DEF AuthTypeOK
  <2>2. UNCHANGED <<tracked, db>>
    BY <1>9 DEF Expire
  <2>3. CASE UNCHANGED <<session, inflight>>
    BY <2>2, <2>3, <1>0 DEF authVars
  <2>4. CASE Resume(s, r, FALSE, session[s])
    BY <2>1, <2>2, <2>4, <1>3, ResumePut
  <2> QED
    BY <1>9, <2>3, <2>4 DEF Expire
<1>10. ASSUME NEW s \in Sessions, FrameArrives(s)
       PROVE  AuthTypeOK'
  BY <1>10, <1>3, FramePut DEF FrameArrives
<1>11. ASSUME NEW s \in Sessions, StatusLands(s)
       PROVE  AuthTypeOK'
  BY <1>11, LandType DEF StatusLands
<1>12. ASSUME NEW s \in Sessions, Iterate(s) \/ Interrupt(s)
       PROVE  AuthTypeOK'
  BY <1>12 DEF Iterate, CognitiveGate, Interrupt, InterruptStatuses, Write,
     AuthTypeOK, DbStatuses, LiveStatuses
<1>13. ASSUME NEW s \in Sessions,
              StageThrows(s) \/ CallbackThrows(s) \/ CognitivePause(s) \/ RunTool(s)
                \/ Progress(s) \/ Replan(s) \/ StepThrows(s) \/ TakeFrame(s)
       PROVE  AuthTypeOK'
  BY <1>13, <1>0 DEF StageThrows, CallbackThrows, CognitivePause, RunTool, Progress, Replan,
                     StepThrows, TakeFrame
<1>14. ASSUME NEW s \in Sessions, NEW r \in Requests, TimerFires(s, r)
       PROVE  AuthTypeOK'
  BY <1>14, <1>0 DEF TimerFires
<1>15. ASSUME NEW c \in Clients, CheckReply(c)
       PROVE  AuthTypeOK'
  BY <1>15, <1>0 DEF CheckReply
<1>16. CASE UNCHANGED vars
  BY <1>16, <1>0 DEF vars
<1>e. CASE BackendEnds
  BY <1>e, NewSessionOK DEF BackendEnds, NoUpdates, AuthTypeOK
<1> QED
  BY <1>1, <1>2, <1>4, <1>5, <1>6, <1>7, <1>8, <1>9, <1>10, <1>11, <1>12,
     <1>13, <1>14, <1>15, <1>16, <1>e
     DEF Next, EventLoop, Outside, Run, Throws, Cancelling, Expiry,
         PollThrows

-----------------------------------------------------------------------------
(* The other variables, and the step counter, keep theirs. *)

Local == LocalTypeOK /\ StepInRange

\* The stages by name.
LEMMA StageNames ==
  /\ Deciding \subseteq Stages
  /\ Executing \subseteq Stages
  /\ InStep \subseteq Executing
  /\ {"launch_create", "await_launch", "deny_write", "policy_fail",
      "simulate", "error_write", "done"} \subseteq Stages
BY DEF Stages, Deciding, Executing, InStep

\* A stage outside the loop's step puts no condition on the step counter.
LEMMA GoToOutside ==
  ASSUME Local, NEW s \in Sessions, NEW stage \in Stages \ InStep,
         GoTo(s, stage), UNCHANGED step
  PROVE  pc' \in [Sessions -> Stages] /\ StepInRange'
BY DEF Local, LocalTypeOK, StepInRange, GoTo

LEMMA GoToInside ==
  ASSUME Local, NEW s \in Sessions, NEW stage \in InStep,
         step[s] \in 1..Steps, GoTo(s, stage), UNCHANGED step
  PROVE  pc' \in [Sessions -> Stages] /\ StepInRange'
BY StageNames DEF Local, LocalTypeOK, StepInRange, GoTo

LEMMA LeaveLoopType ==
  ASSUME Local, NEW s \in Sessions, LeaveLoop(s), UNCHANGED step
  PROVE  /\ pc' \in [Sessions -> Stages] /\ StepInRange'
         /\ chrome' \in [Sessions -> ChromeStates]
         /\ streaming' \in [Sessions -> BOOLEAN]
         /\ counted' \in [Sessions -> BOOLEAN]
         /\ frame' = frame
<1>1. {"closing", "verify"} \subseteq Stages \ InStep
  BY DEF Stages, Executing, InStep
<1>2. pc' \in [Sessions -> Stages] /\ StepInRange'
  BY <1>1, GoToOutside DEF LeaveLoop
<1>3. chrome' \in [Sessions -> ChromeStates]
  BY DEF LeaveLoop, Local, LocalTypeOK, ChromeStates
<1>4. /\ streaming' \in [Sessions -> BOOLEAN]
      /\ counted' \in [Sessions -> BOOLEAN]
      /\ frame' = frame
  BY DEF LeaveLoop, StopStreaming, Local, LocalTypeOK
<1> QED
  BY <1>2, <1>3, <1>4

LEMMA StreamType ==
  ASSUME Local, NEW s \in Sessions, StopStreaming(s) \/ StartStreaming(s)
  PROVE  /\ streaming' \in [Sessions -> BOOLEAN]
         /\ counted' \in [Sessions -> BOOLEAN]
         /\ frame' = frame
BY DEF StopStreaming, StartStreaming, Local, LocalTypeOK

LEMMA ResumeLocal ==
  ASSUME Local, NEW s \in Sessions, NEW r, NEW approved \in BOOLEAN, NEW rec,
         Resume(s, r, approved, rec), UNCHANGED step
  PROVE  /\ pc' \in [Sessions -> Stages] /\ StepInRange'
         /\ ok' \in [Sessions -> BOOLEAN]
<1>1. {"done", "dispatch", "deny_write"} \subseteq Stages \ InStep
  BY DEF Stages, Executing, InStep
<1>2. {"replan", "tool", "progress"} \subseteq InStep
  BY DEF InStep
<1>3. CASE ResumeLaunch(s, approved, rec) /\ UNCHANGED ok
  <2>1. \E stage \in Stages \ InStep : GoTo(s, stage)
    BY <1>1, <1>3 DEF ResumeLaunch
  <2> QED
    BY <1>3, <2>1, GoToOutside DEF Local, LocalTypeOK
<1>4. CASE /\ Waits(s, r) /\ r # LaunchRequest
           /\ GoTo(s, IF ~approved THEN "replan"
                      ELSE IF pc[s] = "await_policy" THEN "tool"
                      ELSE "progress")
           /\ ok' = [ok EXCEPT ![s] = @ /\ approved]
  <2>1. \E stage \in InStep : GoTo(s, stage)
    BY <1>2, <1>4
  <2>2. pc[s] \in InStep
    BY <1>4 DEF Waits, InStep
  <2>3. ok' \in [Sessions -> BOOLEAN]
    BY <1>4 DEF Local, LocalTypeOK
  <2> QED
    BY <2>1, <2>2, <2>3, GoToInside DEF Local, StepInRange
<1>5. CASE UNCHANGED <<pc, ok>>
  BY <1>5 DEF Local, LocalTypeOK, StepInRange
<1> QED
  BY <1>3, <1>4, <1>5 DEF Resume

LEMMA LocalStep ==
  ASSUME Local, [Next]_vars
  PROVE  Local'
<1>0. ASSUME UNCHANGED <<runVars, approvalVars, chrome, streamVars,
                         controlVars>>
      PROVE  Local'
  BY <1>0 DEF runVars, approvalVars, streamVars, controlVars, Local,
              LocalTypeOK, StepInRange
<1>1. ASSUME NEW s \in Sessions,
             Start(s) \/ Register(s) \/ HoldForClarification(s)
               \/ Clarify(s) \/ Plan(s) \/ RequestLaunchApproval(s)
               \/ FailPolicy(s) \/ DenyLaunch(s) \/ Simulate(s)
               \/ StageThrows(s) \/ CallbackThrows(s) \/ HandleError(s) \/ Dispatch(s)
               \/ ChromeUp(s) \/ CloseEnds(s) \/ VerifyAndReflect(s)
      PROVE  Local'
  <2>1. UNCHANGED step /\ \E stage \in Stages \ InStep : GoTo(s, stage)
    BY <1>1 DEF Start, Register, HoldForClarification, Clarify, Plan,
                AutomationGate, RequestLaunchApproval, FailPolicy, DenyLaunch,
                Simulate, StageThrows, CallbackThrows, HandleError, Dispatch, ChromeUp,
                CloseEnds, VerifyAndReflect, Verify, Stages, Deciding,
                Executing, InStep
  <2>2. pc' \in [Sessions -> Stages] /\ StepInRange' /\ UNCHANGED step
    BY <2>1, GoToOutside
  <2> USE <2>2 DEF Local, LocalTypeOK
  <2>3. CASE Start(s) \/ Register(s) \/ HoldForClarification(s)
               \/ Clarify(s) \/ HandleError(s)
    BY <2>3 DEF Start, Register, HoldForClarification, Clarify, HandleError,
                approvalVars, streamVars, controlVars
  <2>4. CASE Plan(s)
    BY <2>4 DEF Plan, AutomationGate, approvalVars, streamVars, controlVars
  <2>5. CASE RequestLaunchApproval(s)
    BY <2>5 DEF RequestLaunchApproval, Ask, RequestStatuses, TimerStates,
                streamVars, controlVars
  <2>6. CASE FailPolicy(s) \/ DenyLaunch(s) \/ Simulate(s)
    BY <2>6 DEF FailPolicy, DenyLaunch, Simulate, ExitReasons, approvalVars,
                streamVars, controlVars
  <2>7. CASE StageThrows(s) \/ CallbackThrows(s)
    BY <2>7 DEF StageThrows, CallbackThrows, ChromeStates, approvalVars, streamVars,
                controlVars
  <2>8. CASE Dispatch(s)
    BY <2>8 DEF Dispatch, ExitReasons, ChromeStates, approvalVars,
                streamVars, controlVars
  <2>9. CASE ChromeUp(s)
    BY <2>9, StreamType DEF ChromeUp, ChromeStates, approvalVars,
                            controlVars
  <2>10. CASE CloseEnds(s)
    BY <2>10 DEF CloseEnds, ChromeStates, approvalVars, streamVars,
                 controlVars
  <2>11. CASE VerifyAndReflect(s)
    BY <2>11 DEF VerifyAndReflect, Verify, approvalVars, streamVars,
       controlVars
  <2> QED
    BY <1>1, <2>3, <2>4, <2>5, <2>6, <2>7, <2>8, <2>9, <2>10, <2>11
<1>2. ASSUME NEW s \in Sessions, BeginStep(s), step[s] \in 1..Steps,
             UNCHANGED step
      PROVE  /\ pc' \in [Sessions -> Stages] /\ StepInRange'
             /\ ok' \in [Sessions -> BOOLEAN]
  <2>1. \E stage \in InStep : GoTo(s, stage)
    BY <1>2 DEF BeginStep, InStep
  <2> QED
    BY <1>2, <2>1, GoToInside DEF BeginStep, Local, LocalTypeOK
<1>3. ASSUME NEW s \in Sessions, Iterate(s)
      PROVE  Local'
  <2> USE DEF Iterate, CognitiveGate, approvalVars, controlVars, streamVars
  <2>1. CASE LeaveLoop(s)
    <3>1. ok' \in [Sessions -> BOOLEAN]
      BY <1>3 DEF BeginStep, Local, LocalTypeOK
    <3>2. UNCHANGED <<step, exit, required, performed, approvalVars,
                      controlVars>>
      BY <1>3
    <3>3. /\ pc' \in [Sessions -> Stages] /\ StepInRange'
          /\ chrome' \in [Sessions -> ChromeStates]
          /\ streaming' \in [Sessions -> BOOLEAN]
          /\ counted' \in [Sessions -> BOOLEAN]
          /\ frame' = frame
      BY <1>3, <2>1, LeaveLoopType
    <3> QED
      BY <3>1, <3>2, <3>3 DEF Local, LocalTypeOK
  <2>2. CASE GoTo(s, "cognitive_pause") /\ step[s] \in 1..Steps
               /\ UNCHANGED <<ok, chrome, streamVars>>
    BY <1>3, <2>2, GoToInside DEF Local, LocalTypeOK, InStep
  <2>3. CASE BeginStep(s) /\ step[s] \in 1..Steps
               /\ UNCHANGED <<chrome, streamVars>>
    BY <1>3, <2>3, <1>2 DEF Local, LocalTypeOK
  <2> QED
    BY <1>3, <2>1, <2>2, <2>3
<1>4. ASSUME NEW s \in Sessions, CognitivePause(s)
      PROVE  Local'
  <2> USE DEF CognitivePause, approvalVars, controlVars, streamVars
  <2>1. step[s] \in 1..Steps
    BY <1>4 DEF Local, StepInRange, InStep
  <2>2. CASE BeginStep(s) /\ UNCHANGED <<chrome, streamVars>>
    BY <1>4, <2>1, <2>2, <1>2 DEF Local, LocalTypeOK
  <2>3. CASE LeaveLoop(s)
    <3>1. ok' \in [Sessions -> BOOLEAN]
      BY <1>4 DEF BeginStep, Local, LocalTypeOK
    <3>2. UNCHANGED <<step, exit, required, performed, approvalVars,
                      controlVars>>
      BY <1>4
    <3>3. /\ pc' \in [Sessions -> Stages] /\ StepInRange'
          /\ chrome' \in [Sessions -> ChromeStates]
          /\ streaming' \in [Sessions -> BOOLEAN]
          /\ counted' \in [Sessions -> BOOLEAN]
          /\ frame' = frame
      BY <1>4, <2>3, LeaveLoopType
    <3> QED
      BY <3>1, <3>2, <3>3 DEF Local, LocalTypeOK
  <2> QED
    BY <1>4, <2>2, <2>3
<1>5. ASSUME NEW s \in Sessions, AskForStep(s)
      PROVE  Local'
  <2>1. \E stage \in InStep : GoTo(s, stage)
    BY <1>5 DEF AskForStep, InStep
  <2>2. step[s] \in 1..Steps
    BY <1>5 DEF AskForStep, Local, StepInRange, InStep
  <2>3. pc' \in [Sessions -> Stages] /\ StepInRange'
    BY <1>5, <2>1, <2>2, GoToInside DEF AskForStep
  <2>4. /\ request' \in [Sessions -> [Requests -> RequestStatuses]]
        /\ timer' \in [Sessions -> [Requests -> TimerStates]]
    <3>1. \E r : Ask(s, r)
      BY <1>5 DEF AskForStep
    <3>2. PICK r : Ask(s, r)
      BY <3>1
    <3> QED
      BY <3>2 DEF Ask, Local, LocalTypeOK, RequestStatuses, TimerStates
  <2> QED
    BY <1>5, <2>3, <2>4 DEF AskForStep, Local, LocalTypeOK, streamVars,
                            controlVars
<1>6. ASSUME NEW s \in Sessions, RunTool(s)
      PROVE  Local'
  <2>1. step[s] \in 1..Steps
    BY <1>6 DEF RunTool, Local, StepInRange, InStep
  <2>2. \E stage \in InStep : GoTo(s, stage)
    BY <1>6 DEF RunTool, InStep
  <2>3. pc' \in [Sessions -> Stages] /\ StepInRange'
    BY <1>6, <2>1, <2>2, GoToInside DEF RunTool
  <2> QED
    BY <1>6, <2>3 DEF RunTool, Local, LocalTypeOK, approvalVars, streamVars,
                      controlVars
<1>7. ASSUME NEW s \in Sessions,
             step' = [step EXCEPT ![s] = @ + 1], GoTo(s, "loop"),
             step[s] \in 1..Steps
      PROVE  /\ pc' \in [Sessions -> Stages] /\ StepInRange'
             /\ step' \in [Sessions -> 1..(Steps + 1)]
  <2>1. "loop" \in Stages /\ "loop" \notin InStep
    BY DEF Stages, Executing, InStep
  <2> QED
    BY <1>7, <2>1, StepsAssumption
       DEF GoTo, Local, LocalTypeOK, StepInRange
<1>8. ASSUME NEW s \in Sessions, Progress(s)
      PROVE  Local'
  <2>1. step[s] \in 1..Steps
    BY <1>8 DEF Progress, Local, StepInRange, InStep
  <2>2. performed' \in [Sessions -> SUBSET (1..Steps)]
    BY <1>8, <2>1 DEF Progress, Local, LocalTypeOK
  <2> QED
    BY <1>8, <2>1, <2>2, <1>7 DEF Progress, Local, LocalTypeOK,
       approvalVars, streamVars, controlVars
<1>9. ASSUME NEW s \in Sessions, Replan(s)
      PROVE  Local'
  <2> USE DEF Replan, approvalVars, controlVars, streamVars
  <2>1. step[s] \in 1..Steps
    BY <1>9 DEF Local, StepInRange, InStep
  <2>2. CASE LeaveLoop(s) /\ UNCHANGED step
    BY <1>9, <2>2, LeaveLoopType DEF Local, LocalTypeOK
  <2>3. CASE /\ step' = [step EXCEPT ![s] = @ + 1]
             /\ GoTo(s, "loop")
             /\ UNCHANGED <<chrome, streamVars>>
    BY <1>9, <2>1, <2>3, <1>7 DEF Local, LocalTypeOK
  <2> QED
    BY <1>9, <2>2, <2>3
<1>10. ASSUME NEW s \in Sessions, StepThrows(s)
       PROVE  Local'
  BY <1>10, LeaveLoopType DEF StepThrows, Local, LocalTypeOK, approvalVars,
                              controlVars
<1>11. ASSUME NEW c \in Clients, CheckReply(c)
       PROVE  Local'
  BY <1>11 DEF CheckReply, Local, LocalTypeOK, StepInRange, Replies,
               runVars, streamVars, controlVars
<1>12. ASSUME NEW c \in Clients, ApplyReply(c)
       PROVE  Local'
  <2> DEFINE s == reply[c].session
             r == reply[c].request
             approved == reply[c].verdict = "APPROVED"
             rec == WithGate(session[s], "CLEARED")
  <2>1. s \in Sessions /\ r \in Requests /\ reply[c].verdict \in Verdicts
    BY <1>12 DEF ApplyReply, Local, LocalTypeOK, Replies
  <2>2. Resume(s, r, approved, rec) /\ UNCHANGED step
    BY <1>12 DEF ApplyReply
  <2>3. approved \in BOOLEAN
    OBVIOUS
  <2>4. /\ pc' \in [Sessions -> Stages] /\ StepInRange'
        /\ ok' \in [Sessions -> BOOLEAN]
    BY <2>1, <2>2, <2>3, ResumeLocal
  <2>5. request' \in [Sessions -> [Requests -> RequestStatuses]]
    BY <1>12, <2>1 DEF ApplyReply, Local, LocalTypeOK, RequestStatuses,
                       Verdicts
  <2>6. timer' \in [Sessions -> [Requests -> TimerStates]]
    BY <1>12, <2>1 DEF ApplyReply, Local, LocalTypeOK, TimerStates
  <2>7. granted' \subseteq Sessions \X Requests
    BY <1>12, <2>1 DEF ApplyReply, Local, LocalTypeOK
  <2>8. reply' \in [Clients -> Replies \cup {NoReply}]
    BY <1>12 DEF ApplyReply, Local, LocalTypeOK
  <2> QED
    BY <1>12, <2>4, <2>5, <2>6, <2>7, <2>8
       DEF ApplyReply, Local, LocalTypeOK, streamVars, controlVars
<1>13. ASSUME NEW s \in Sessions, NEW r \in Requests, TimerFires(s, r)
       PROVE  Local'
  BY <1>13 DEF TimerFires, Local, LocalTypeOK, StepInRange, TimerStates,
               runVars, streamVars, controlVars
<1>14. ASSUME NEW s \in Sessions, NEW r \in Requests, Expire(s, r)
       PROVE  Local'
  <2>1. /\ pc' \in [Sessions -> Stages] /\ StepInRange'
        /\ ok' \in [Sessions -> BOOLEAN]
    <3>1. CASE UNCHANGED <<pc, ok>>
      BY <1>14, <3>1 DEF Expire, Local, LocalTypeOK, StepInRange
    <3>2. CASE Resume(s, r, FALSE, session[s])
      BY <1>14, <3>2, ResumeLocal DEF Expire
    <3> QED
      BY <1>14, <3>1, <3>2 DEF Expire
  <2>2. /\ request' \in [Sessions -> [Requests -> RequestStatuses]]
        /\ timer' \in [Sessions -> [Requests -> TimerStates]]
    BY <1>14 DEF Expire, Local, LocalTypeOK, RequestStatuses, TimerStates
  <2> QED
    BY <1>14, <2>1, <2>2 DEF Expire, Local, LocalTypeOK, streamVars,
                             controlVars
<1>15. ASSUME NEW s \in Sessions, Control(s)
       PROVE  controls' \in [Sessions -> 0..MaxControls]
  BY <1>15, MaxControlsAssumption DEF Control, Local, LocalTypeOK
<1>16. ASSUME NEW s \in Sessions, Pause(s) \/ ResumeExecution(s)
       PROVE  Local'
  BY <1>15, <1>16, StreamType DEF Pause, ResumeExecution, Local, LocalTypeOK,
                                  StepInRange, runVars, approvalVars
<1>17. ASSUME NEW s \in Sessions, CancelBegins(s)
       PROVE  Local'
  <2>1. /\ chrome' \in [Sessions -> ChromeStates]
        /\ cancel' \in [Sessions -> CancelStates]
    BY <1>17 DEF CancelBegins, Local, LocalTypeOK, ChromeStates,
                 CancelStates
  <2> QED
    BY <1>15, <1>17, <2>1, StreamType
       DEF CancelBegins, Local, LocalTypeOK, StepInRange, runVars,
           approvalVars
<1>18. ASSUME NEW s \in Sessions, CancelCloses(s) \/ CancelWrites(s)
       PROVE  Local'
  BY <1>18 DEF CancelCloses, CancelWrites, Local, LocalTypeOK, StepInRange,
               ChromeStates, CancelStates, runVars, approvalVars, streamVars
<1>19. ASSUME NEW s \in Sessions, TakeFrame(s) \/ FrameArrives(s)
       PROVE  Local'
  BY <1>19, StreamType
     DEF TakeFrame, FrameArrives, Local, LocalTypeOK, StepInRange, runVars,
         approvalVars, controlVars
<1>20. ASSUME NEW s \in Sessions, StatusLands(s)
       PROVE  Local'
  BY <1>20, <1>0 DEF StatusLands
<1>21. ASSUME NEW s \in Sessions, Interrupt(s)
       PROVE  Local'
  BY <1>15, <1>21 DEF Interrupt, Local, LocalTypeOK, StepInRange, runVars,
                      approvalVars, streamVars
<1>22. CASE UNCHANGED vars
  BY <1>22, <1>0 DEF vars
<1>e. CASE BackendEnds
  <2>1. pc' \in [Sessions -> Stages] /\ StepInRange'
    BY <1>e DEF BackendEnds, Local, LocalTypeOK, StepInRange, Stages, InStep
  <2>2. /\ timer' \in [Sessions -> [Requests -> TimerStates]]
        /\ reply' \in [Clients -> Replies \cup {NoReply}]
        /\ chrome' \in [Sessions -> ChromeStates]
        /\ cancel' \in [Sessions -> CancelStates]
    BY <1>e DEF BackendEnds, Local, LocalTypeOK, TimerStates, ChromeStates,
       CancelStates
  <2> QED
    BY <1>e, <2>1, <2>2 DEF BackendEnds, Local, LocalTypeOK
<1> QED
  BY <1>1, <1>3, <1>4, <1>5, <1>6, <1>8, <1>9, <1>10, <1>11, <1>12, <1>13,
     <1>14, <1>16, <1>17, <1>18, <1>19, <1>20, <1>21, <1>22, <1>e
     DEF Next, EventLoop, Outside, Run, Throws, Cancelling, Expiry,
         PollThrows

LEMMA TypingInit == PipelineInit => Typing
<1>1. PipelineInit => AuthTypeOK
  BY NewSessionOK DEF PipelineInit, AuthTypeOK, NoUpdates, DbStatuses
<1>2. PipelineInit => LocalTypeOK
  BY StepsAssumption, MaxControlsAssumption
     DEF PipelineInit, LocalTypeOK, Stages, Deciding, ExitReasons,
         RequestStatuses, TimerStates, ChromeStates, CancelStates
<1>3. PipelineInit => StepInRange
  BY DEF PipelineInit, StepInRange, InStep
<1> QED
  BY <1>1, <1>2, <1>3, TypingSplit

LEMMA TypingStep == Typing /\ [Next]_vars => Typing'
<1>1. Typing => AuthTypeOK /\ LocalTypeOK /\ Local
  BY TypingSplit DEF Local
<1>2. AuthTypeOK' /\ Local' => Typing'
  BY DEF Typing, PipelineTypeOK, Local, LocalTypeOK
<1> QED
  BY <1>1, <1>2, AuthStep, LocalStep

LEMMA TypingInvariant == Spec => []Typing
<1> QED
  BY TypingInit, TypingStep, PTL DEF Spec

\* Every variable of the pipeline keeps its type.
THEOREM PipelineTyping == Spec => []PipelineTypeOK
<1>1. Typing => PipelineTypeOK
  BY DEF Typing
<1> QED
  BY <1>1, TypingInvariant, PTL

=============================================================================

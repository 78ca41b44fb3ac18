------------------ MODULE ExecutionPipelineConsent_proofs ------------------
(***************************************************************************)
(* No launch and no completed step without the consent it asked for, for   *)
(* any sessions, clients, length of the plan and bounds.                   *)
(***************************************************************************)
EXTENDS ExecutionPipeline_proofs

\* The stages of a run that has no browser yet.
Unlaunched ==
  Deciding \cup {"launch_create", "await_launch", "deny_write", "policy_fail",
                 "simulate", "dispatch"}

\* LaunchNeedsConsent is not inductive: it says nothing of a run that is
\* about to launch, or of one whose browser is being closed by a
\* cancellation.  The last conjunct carries the consent from the gate to the
\* browser; the others say that what comes after cannot take a launch back
\* to a stage before the gate.
LaunchShape(s) ==
  /\ pc[s] \in Unlaunched => chrome[s] = "none"
  /\ pc[s] \in Executing \ {"dispatch"} => chrome[s] # "none"
  /\ cancel[s] = "closing" => chrome[s] # "none"
  /\ exit[s] \in {"WORKER_DISPATCHED", "LAUNCH_DENIED"} => pc[s] = "done"
  /\ pc[s] \in Deciding => ~required[s]
  /\ required[s] /\ (pc[s] \in Executing \/ Launched(s)) =>
       <<s, LaunchRequest>> \in granted

LaunchInv == \A s \in Sessions : LaunchShape(s)

LEMMA LaunchInit == PipelineInit => LaunchInv
<1>1. ASSUME PipelineInit, NEW s \in Sessions
      PROVE  /\ pc[s] = "new" /\ chrome[s] = "none" /\ cancel[s] = "idle"
             /\ exit[s] = "NONE" /\ required[s] = FALSE
  BY <1>1 DEF PipelineInit
<1> QED
  BY <1>1 DEF LaunchInv, LaunchShape, Launched, Unlaunched, Deciding, Executing

\* The variables LaunchShape speaks of.
launchVars == <<pc, chrome, exit, required, granted, cancel>>

LEMMA LaunchStep ==
  ASSUME Typing, LaunchInv, [Next]_vars
  PROVE  LaunchInv'
<1> SUFFICES ASSUME NEW t \in Sessions PROVE LaunchShape(t)'
  BY DEF LaunchInv
<1> USE DEF LaunchShape, Launched, Typing, PipelineTypeOK
<1>t. LaunchShape(t)
  BY DEF LaunchInv
<1>0. ASSUME UNCHANGED launchVars PROVE LaunchShape(t)'
  BY <1>0, <1>t DEF launchVars
<1>1. ASSUME NEW s \in Sessions,
             Start(s) \/ Register(s) \/ HoldForClarification(s) \/ Clarify(s)
      PROVE  LaunchShape(t)'
  BY <1>1, <1>t DEF Start, Register, HoldForClarification, Clarify, GoTo,
     approvalVars, controlVars, Unlaunched, Deciding, Executing
<1>2. ASSUME NEW s \in Sessions, Plan(s)
      PROVE  LaunchShape(t)'
  BY <1>2, <1>t DEF Plan, AutomationGate, GoTo, approvalVars, controlVars,
     Unlaunched, Deciding, Executing
<1>3. ASSUME NEW s \in Sessions,
             FailPolicy(s) \/ RequestLaunchApproval(s) \/ DenyLaunch(s)
               \/ Simulate(s)
      PROVE  LaunchShape(t)'
  BY <1>3, <1>t DEF FailPolicy, RequestLaunchApproval, DenyLaunch, Simulate,
     GoTo, approvalVars, controlVars, Unlaunched, Deciding, Executing
<1>4. ASSUME NEW s \in Sessions, StageThrows(s) \/ CallbackThrows(s) \/ HandleError(s)
      PROVE  LaunchShape(t)'
  BY <1>4, <1>t DEF StageThrows, CallbackThrows, HandleError, GoTo, approvalVars,
     controlVars, Unlaunched, Deciding, Executing
<1>5. ASSUME NEW s \in Sessions, Dispatch(s)
      PROVE  LaunchShape(t)'
  BY <1>5, <1>t DEF Dispatch, GoTo, approvalVars, controlVars, Unlaunched,
     Deciding, Executing
<1>6. ASSUME NEW s \in Sessions, ChromeUp(s) \/ CloseEnds(s)
      PROVE  LaunchShape(t)'
  BY <1>6, <1>t DEF ChromeUp, CloseEnds, GoTo, approvalVars, controlVars,
     Unlaunched, Deciding, Executing
<1>7. ASSUME NEW s \in Sessions, VerifyAndReflect(s)
      PROVE  LaunchShape(t)'
  BY <1>7, <1>t DEF VerifyAndReflect, Verify, GoTo, approvalVars, controlVars,
     Unlaunched, Deciding, Executing
\* Inside the loop the run keeps its browser, or begins to close it.
<1>8. ASSUME NEW s \in Sessions, pc[s] \in Executing \ {"dispatch"},
             \E stage \in Executing \ {"dispatch"} : GoTo(s, stage),
             \/ UNCHANGED chrome
             \/ chrome' = [chrome EXCEPT ![s] = IF HasEntry(s) THEN "closing" ELSE @],
             UNCHANGED <<exit, required, granted, cancel>>
      PROVE  LaunchShape(t)'
  BY <1>8, <1>t DEF GoTo, HasEntry, Unlaunched, Deciding, Executing
<1>9. ASSUME NEW s \in Sessions,
             Iterate(s) \/ CognitivePause(s) \/ AskForStep(s) \/ RunTool(s)
               \/ Progress(s) \/ Replan(s) \/ StepThrows(s)
      PROVE  LaunchShape(t)'
  <2>1. pc[s] \in Executing \ {"dispatch"}
    BY <1>9 DEF Iterate, CognitiveGate, CognitivePause, AskForStep, RunTool,
       Progress, Replan, StepThrows, Executing
  <2>2. /\ \E stage \in Executing \ {"dispatch"} : GoTo(s, stage)
        /\ \/ UNCHANGED chrome
           \/ chrome' = [chrome EXCEPT ![s] = IF HasEntry(s) THEN "closing" ELSE @]
    BY <1>9 DEF Iterate, CognitiveGate, CognitivePause, AskForStep, RunTool,
       Progress, Replan, StepThrows, BeginStep, LeaveLoop, Executing
  <2>3. UNCHANGED <<exit, required, granted, cancel>>
    BY <1>9 DEF Iterate, CognitiveGate, CognitivePause, AskForStep, RunTool,
       Progress, Replan, StepThrows, approvalVars, controlVars
  <2> QED
    BY <2>1, <2>2, <2>3, <1>8
<1>10. ASSUME NEW c \in Clients, ApplyReply(c)
       PROVE  LaunchShape(t)'
  <2> DEFINE s == reply[c].session
             r == reply[c].request
             approved == reply[c].verdict = "APPROVED"
             rec == WithGate(session[s], "CLEARED")
  <2>1. s \in Sessions /\ r \in Requests
    BY <1>10 DEF ApplyReply, Replies
  <2>2. /\ UNCHANGED <<chrome, exit, required, cancel>>
        /\ granted' = granted \cup (IF approved THEN {<<s, r>>} ELSE {})
        /\ Resume(s, r, approved, rec)
    BY <1>10 DEF ApplyReply, controlVars
  <2> HIDE DEF s, r, approved, rec
  <2>3. CASE Waits(s, r) /\ r = LaunchRequest /\ ResumeLaunch(s, approved, rec)
    <3>1. /\ pc[s] = "await_launch"
          /\ \/ approved /\ GoTo(s, "dispatch")
             \/ GoTo(s, "done") \/ GoTo(s, "deny_write")
      BY <2>3 DEF Waits, ResumeLaunch, LaunchRequest
    <3>2. chrome[s] = "none" /\ exit[s] # "WORKER_DISPATCHED"
      BY <2>1, <3>1 DEF LaunchInv, Unlaunched
    <3>3. approved => <<s, LaunchRequest>> \in granted'
      BY <2>2, <2>3
    <3>4. CASE s = t
      <4>1. /\ pc'[t] \in {"dispatch", "done", "deny_write"}
            /\ pc'[t] = "dispatch" => approved
        BY <3>1, <3>4 DEF GoTo
      <4>2. chrome'[t] = "none" /\ UNCHANGED <<exit, required, cancel>>
        BY <2>2, <3>2, <3>4
      <4>3. exit[t] # "LAUNCH_DENIED"
        BY <3>1, <3>4, <1>t
      <4> QED
        BY <4>1, <4>2, <4>3, <3>2, <3>3, <3>4, <1>t
           DEF Unlaunched, Deciding, Executing
    <3>5. CASE s # t
      <4>1. UNCHANGED <<chrome, exit, required, cancel>> /\ pc'[t] = pc[t]
        BY <2>1, <2>2, <3>1, <3>5 DEF GoTo
      <4>2. granted \subseteq granted'
        BY <2>2
      <4> QED
        BY <4>1, <4>2, <1>t
    <3> QED
      BY <3>4, <3>5
  <2>4. CASE /\ Waits(s, r) /\ r # LaunchRequest
             /\ GoTo(s, IF ~approved THEN "replan"
                        ELSE IF pc[s] = "await_policy" THEN "tool"
                        ELSE "progress")
    BY <2>1, <2>2, <2>4, <1>t DEF Waits, GoTo, Unlaunched, Deciding,
       Executing
  <2>5. CASE UNCHANGED pc
    BY <2>1, <2>2, <2>5, <1>t
  <2> QED
    BY <2>2, <2>3, <2>4, <2>5 DEF Resume
<1>11. ASSUME NEW s \in Sessions, NEW r \in Requests, Expire(s, r)
       PROVE  LaunchShape(t)'
  <2>1. UNCHANGED <<chrome, exit, required, granted, cancel>>
    BY <1>11 DEF Expire, controlVars
  <2>2. CASE UNCHANGED pc
    BY <2>1, <2>2, <1>0 DEF launchVars
  <2>3. CASE pc[s] = "await_launch" /\ ResumeLaunch(s, FALSE, session[s])
    <3>1. GoTo(s, "done") \/ GoTo(s, "deny_write")
      BY <2>3 DEF ResumeLaunch
    <3>2. chrome[s] = "none" /\ exit[s] # "WORKER_DISPATCHED"
      BY <2>3 DEF LaunchInv, Unlaunched
    <3> QED
      BY <2>1, <2>3, <3>1, <3>2, <1>t
         DEF GoTo, Unlaunched, Deciding, Executing
  <2>4. CASE r # LaunchRequest
    BY <1>11, <2>2, <2>4 DEF Expire
  <2>5. CASE r = LaunchRequest
    <3>1. Resume(s, r, FALSE, session[s])
      BY <1>11, <2>5 DEF Expire
    <3>2. Waits(s, r) => pc[s] = "await_launch"
      BY <2>5 DEF Waits, LaunchRequest
    <3> QED
      BY <2>2, <2>3, <2>5, <3>1, <3>2 DEF Resume
  <2> QED
    BY <2>4, <2>5
<1>12. ASSUME NEW s \in Sessions, CancelBegins(s)
       PROVE  LaunchShape(t)'
  BY <1>12, <1>t DEF CancelBegins, HasEntry, runVars, approvalVars
<1>13. ASSUME NEW s \in Sessions, CancelCloses(s) \/ CancelWrites(s)
       PROVE  LaunchShape(t)'
  BY <1>13, <1>t DEF CancelCloses, CancelWrites, runVars, approvalVars,
     Unlaunched, Deciding, Executing
<1>14. ASSUME NEW s \in Sessions,
              \/ Pause(s) \/ ResumeExecution(s) \/ TakeFrame(s)
              \/ FrameArrives(s) \/ StatusLands(s) \/ Interrupt(s)
       PROVE  LaunchShape(t)'
  BY <1>14, <1>0 DEF Pause, ResumeExecution, TakeFrame, FrameArrives,
     StatusLands, Interrupt, runVars, approvalVars, controlVars, launchVars
<1>15. ASSUME NEW s \in Sessions, NEW r \in Requests, TimerFires(s, r)
       PROVE  LaunchShape(t)'
  BY <1>15, <1>0 DEF TimerFires, runVars, controlVars, launchVars
<1>16. ASSUME NEW c \in Clients, CheckReply(c)
       PROVE  LaunchShape(t)'
  BY <1>16, <1>0 DEF CheckReply, runVars, controlVars, launchVars
<1>17. CASE UNCHANGED vars
  BY <1>17, <1>0 DEF vars, runVars, approvalVars, controlVars, launchVars
<1>e. CASE BackendEnds
  <2>1. /\ UNCHANGED <<exit, required, granted>> /\ cancel'[t] # "closing"
        /\ chrome'[t] = "none" <=> chrome[t] = "none"
        /\ pc'[t] = IF pc[t] \in {"new", "done"} THEN pc[t] ELSE "lost"
    BY <1>e DEF BackendEnds
  <2> QED
    BY <2>1, <1>t DEF Unlaunched, Deciding, Executing
<1> QED
  BY <1>1, <1>2, <1>3, <1>4, <1>5, <1>6, <1>7, <1>9, <1>10, <1>11, <1>12,
     <1>13, <1>14, <1>15, <1>16, <1>17, <1>e
     DEF Next, EventLoop, Outside, Run, Throws, Cancelling, Expiry,
         PollThrows

\* A run the gate holds opens a browser, or goes to the Python engine, only
\* after some response that found its launch request pending approved it.
THEOREM PipelineLaunchConsent == Spec => []LaunchNeedsConsent
<1>1. PipelineInit => LaunchInv
  BY LaunchInit
<1>2. Typing /\ LaunchInv /\ [Next]_vars => LaunchInv'
  BY LaunchStep
<1>3. LaunchInv => LaunchNeedsConsent
  BY DEF LaunchInv, LaunchShape, LaunchNeedsConsent
<1> QED
  BY <1>1, <1>2, <1>3, TypingInvariant, PTL DEF Spec

-----------------------------------------------------------------------------
(* Requests: what was never created has no timer, no response on its way   *)
(* and no consent.                                                         *)

UnaskedIsIdle ==
  \A s \in Sessions, r \in Requests :
    request[s][r] = "NONE" => timer[s][r] = "off" /\ <<s, r>> \notin granted

RepliesAnswerRequests ==
  \A c \in Clients :
    reply[c] # NoReply => request[reply[c].session][reply[c].request] # "NONE"

RequestInv == UnaskedIsIdle /\ RepliesAnswerRequests

LEMMA LaunchIsRequest == LaunchRequest \in Requests
BY DEF Requests

LEMMA StepIsRequest ==
  ASSUME NEW kind \in {"policy", "blocker"}, NEW i \in 1..Steps
  PROVE  /\ <<kind, i>> \in Requests
         /\ <<kind, i>> # LaunchRequest
BY DEF Requests, LaunchRequest

\* Creating a request keeps the three facts, and so does writing a verdict
\* on one that exists.
LEMMA AskKeepsRequestInv ==
  ASSUME Typing, RequestInv, NEW s \in Sessions, NEW r \in Requests,
         Ask(s, r), UNCHANGED <<reply, granted>>
  PROVE  RequestInv'
<1> USE DEF Typing, PipelineTypeOK
<1>1. ASSUME NEW t \in Sessions, NEW q \in Requests
      PROVE  /\ request'[t][q] = IF t = s /\ q = r THEN "PENDING"
                                 ELSE request[t][q]
             /\ timer'[t][q] = IF t = s /\ q = r THEN "armed"
                               ELSE timer[t][q]
  BY DEF Ask
<1>2. ASSUME NEW c \in Clients, reply[c] # NoReply
      PROVE  reply[c].session \in Sessions /\ reply[c].request \in Requests
  BY <1>2 DEF Replies
<1>3. UnaskedIsIdle'
  <2> SUFFICES ASSUME NEW t \in Sessions, NEW q \in Requests,
                      request'[t][q] = "NONE"
               PROVE  timer'[t][q] = "off" /\ <<t, q>> \notin granted'
    BY DEF UnaskedIsIdle
  <2>1. ~(t = s /\ q = r)
    BY <1>1
  <2>2. request[t][q] = "NONE" /\ timer'[t][q] = timer[t][q]
    BY <2>1, <1>1
  <2> QED
    BY <2>2 DEF RequestInv, UnaskedIsIdle
<1>4. RepliesAnswerRequests'
  BY <1>1, <1>2 DEF RequestInv, RepliesAnswerRequests
<1> QED
  BY <1>3, <1>4 DEF RequestInv

LEMMA RequestStep ==
  ASSUME Typing, RequestInv, [Next]_vars
  PROVE  RequestInv'
<1> USE DEF Typing, PipelineTypeOK
<1>r. ASSUME NEW c \in Clients, reply[c] # NoReply
      PROVE  reply[c].session \in Sessions /\ reply[c].request \in Requests
  BY <1>r DEF Replies
<1>0. ASSUME UNCHANGED approvalVars PROVE RequestInv'
  BY <1>0 DEF approvalVars, RequestInv, UnaskedIsIdle, RepliesAnswerRequests
<1>1. ASSUME NEW s \in Sessions, RequestLaunchApproval(s)
      PROVE  RequestInv'
  BY <1>1, LaunchIsRequest, AskKeepsRequestInv DEF RequestLaunchApproval
<1>2. ASSUME NEW s \in Sessions, AskForStep(s)
      PROVE  RequestInv'
  <2>1. step[s] \in 1..Steps
    BY <1>2 DEF AskForStep, StepInRange, InStep
  <2>2. PICK kind \in {"policy", "blocker"} :
          Ask(s, <<kind, step[s]>>) /\ UNCHANGED <<reply, granted>>
    BY <1>2 DEF AskForStep
  <2> QED
    BY <2>1, <2>2, StepIsRequest, AskKeepsRequestInv
<1>3. ASSUME NEW c \in Clients, CheckReply(c)
      PROVE  RequestInv'
  <2>1. PICK s \in Sessions, r \in Requests, verdict \in Verdicts :
          /\ request[s][r] = "PENDING"
          /\ reply' = [reply EXCEPT
               ![c] = [session |-> s, request |-> r, verdict |-> verdict]]
    BY <1>3 DEF CheckReply
  <2>2. UNCHANGED <<request, timer, granted>>
    BY <1>3 DEF CheckReply
  <2> QED
    BY <2>1, <2>2 DEF RequestInv, UnaskedIsIdle, RepliesAnswerRequests
<1>4. ASSUME NEW c \in Clients, ApplyReply(c)
      PROVE  RequestInv'
  <2> DEFINE s == reply[c].session
             r == reply[c].request
             approved == reply[c].verdict = "APPROVED"
  <2>1. s \in Sessions /\ r \in Requests /\ reply[c].verdict \in Verdicts
    BY <1>4 DEF ApplyReply, Replies
  <2>2. /\ request' = [request EXCEPT ![s][r] = reply[c].verdict]
        /\ granted' = granted \cup (IF approved THEN {<<s, r>>} ELSE {})
        /\ timer' = [timer EXCEPT
             ![s][r] = IF @ = "armed" /\ Waits(s, r) THEN "off" ELSE @]
        /\ reply' = [reply EXCEPT ![c] = NoReply]
    BY <1>4 DEF ApplyReply
  <2>3. reply[c].verdict # "NONE"
    BY <2>1 DEF Verdicts
  <2> HIDE DEF s, r, approved
  <2>4. ASSUME NEW t \in Sessions, NEW q \in Requests
        PROVE  /\ t = s /\ q = r => request'[t][q] # "NONE"
               /\ ~(t = s /\ q = r) =>
                    /\ request'[t][q] = request[t][q]
                    /\ timer'[t][q] = timer[t][q]
                    /\ <<t, q>> \in granted' => <<t, q>> \in granted
    BY <2>1, <2>2, <2>3
  <2>5. ASSUME NEW d \in Clients, reply'[d] # NoReply
        PROVE  d # c /\ reply'[d] = reply[d]
    BY <2>2, <2>5
  <2>6. UnaskedIsIdle'
    <3> SUFFICES ASSUME NEW t \in Sessions, NEW q \in Requests,
                        request'[t][q] = "NONE"
                 PROVE  timer'[t][q] = "off" /\ <<t, q>> \notin granted'
      BY DEF UnaskedIsIdle
    <3>1. /\ request[t][q] = "NONE" /\ timer'[t][q] = timer[t][q]
          /\ <<t, q>> \in granted' => <<t, q>> \in granted
      BY <2>4
    <3> QED
      BY <3>1 DEF RequestInv, UnaskedIsIdle
  <2>7. RepliesAnswerRequests'
    <3> SUFFICES ASSUME NEW d \in Clients, reply'[d] # NoReply
                 PROVE  request'[reply'[d].session][reply'[d].request] # "NONE"
      BY DEF RepliesAnswerRequests
    <3> DEFINE t == reply[d].session
               q == reply[d].request
    <3>1. reply'[d] = reply[d] /\ t \in Sessions /\ q \in Requests
      BY <2>5, <1>r
    <3>2. request[t][q] # "NONE"
      BY <3>1 DEF RequestInv, RepliesAnswerRequests
    <3>3. request'[t][q] # "NONE"
      BY <3>1, <3>2, <2>4
    <3> QED
      BY <3>1, <3>3
  <2> QED
    BY <2>6, <2>7 DEF RequestInv
<1>5. ASSUME NEW s \in Sessions, NEW r \in Requests,
             TimerFires(s, r) \/ Expire(s, r)
      PROVE  RequestInv'
  <2>1. timer[s][r] # "off" /\ UNCHANGED <<reply, granted>>
    BY <1>5 DEF TimerFires, Expire
  <2>2. request[s][r] # "NONE"
    BY <2>1 DEF RequestInv, UnaskedIsIdle
  <2>3. ASSUME NEW t \in Sessions, NEW q \in Requests
        PROVE  IF t = s /\ q = r
                 THEN request'[t][q] # "NONE"
                 ELSE /\ request'[t][q] = request[t][q]
                      /\ timer'[t][q] = timer[t][q]
    <3>1. CASE TimerFires(s, r)
      BY <2>2, <3>1 DEF TimerFires
    <3>2. CASE Expire(s, r)
      BY <3>2 DEF Expire
    <3> QED
      BY <1>5, <3>1, <3>2
  <2>4. UnaskedIsIdle'
    BY <2>1, <2>3 DEF RequestInv, UnaskedIsIdle
  <2>5. RepliesAnswerRequests'
    BY <2>1, <2>3, <1>r DEF RequestInv, RepliesAnswerRequests
  <2> QED
    BY <2>4, <2>5 DEF RequestInv
<1>6. ASSUME NEW s \in Sessions,
             \/ Start(s) \/ Register(s) \/ HoldForClarification(s)
             \/ Clarify(s) \/ Plan(s) \/ FailPolicy(s) \/ DenyLaunch(s)
             \/ Simulate(s) \/ StageThrows(s) \/ CallbackThrows(s) \/ HandleError(s)
             \/ Dispatch(s) \/ ChromeUp(s) \/ Iterate(s)
             \/ CognitivePause(s) \/ RunTool(s) \/ Progress(s) \/ Replan(s)
             \/ StepThrows(s) \/ CloseEnds(s) \/ VerifyAndReflect(s)
      PROVE  RequestInv'
  BY <1>6, <1>0 DEF Start, Register, HoldForClarification, Clarify, Plan,
     AutomationGate, FailPolicy, DenyLaunch, Simulate, StageThrows, CallbackThrows,
     HandleError, Dispatch, ChromeUp, Iterate, CognitiveGate, CognitivePause,
     RunTool, Progress, Replan, StepThrows, CloseEnds, VerifyAndReflect,
     Verify
<1>7. ASSUME NEW s \in Sessions,
             \/ Pause(s) \/ ResumeExecution(s) \/ CancelBegins(s)
             \/ CancelCloses(s) \/ CancelWrites(s) \/ TakeFrame(s)
             \/ FrameArrives(s) \/ StatusLands(s) \/ Interrupt(s)
      PROVE  RequestInv'
  BY <1>7, <1>0 DEF Pause, ResumeExecution, CancelBegins, CancelCloses,
     CancelWrites, TakeFrame, FrameArrives, StatusLands, Interrupt
<1>8. CASE UNCHANGED vars
  BY <1>8, <1>0 DEF vars
<1>e. CASE BackendEnds
  BY <1>e DEF BackendEnds, RequestInv, UnaskedIsIdle, RepliesAnswerRequests
<1> QED
  BY <1>1, <1>2, <1>3, <1>4, <1>5, <1>6, <1>7, <1>8, <1>e
     DEF Next, EventLoop, Outside, Run, Throws, Cancelling, Expiry,
         PollThrows

LEMMA RequestInit == PipelineInit => RequestInv
BY DEF PipelineInit, RequestInv, UnaskedIsIdle, RepliesAnswerRequests

\* A request comes into being only where the run asks for it, at the step it
\* is at, and a consent is never withdrawn.
LEMMA OnlyAskCreates ==
  ASSUME Typing, RequestInv, [Next]_vars, NEW s \in Sessions,
         NEW r \in Requests, request[s][r] = "NONE", request'[s][r] # "NONE"
  PROVE  \/ RequestLaunchApproval(s) /\ r = LaunchRequest
         \/ /\ AskForStep(s)
            /\ \E kind \in {"policy", "blocker"} :
                 /\ r = <<kind, step[s]>>
                 /\ pc'[s] = IF kind = "policy" THEN "await_policy"
                             ELSE "await_blocker"
<1> USE DEF Typing, PipelineTypeOK
<1>0. request' # request
  OBVIOUS
<1>1. ASSUME NEW t \in Sessions, NEW q \in Requests, Ask(t, q)
      PROVE  t = s /\ q = r
  BY <1>1 DEF Ask
<1>2. ASSUME NEW t \in Sessions, RequestLaunchApproval(t)
      PROVE  RequestLaunchApproval(s) /\ r = LaunchRequest
  <2>1. Ask(t, LaunchRequest)
    BY <1>2 DEF RequestLaunchApproval
  <2> QED
    BY <1>1, <1>2, <2>1, LaunchIsRequest
<1>3. ASSUME NEW t \in Sessions, AskForStep(t)
      PROVE  /\ AskForStep(s)
             /\ \E kind \in {"policy", "blocker"} :
                  /\ r = <<kind, step[s]>>
                  /\ pc'[s] = IF kind = "policy" THEN "await_policy"
                              ELSE "await_blocker"
  <2>1. PICK kind \in {"policy", "blocker"} :
          /\ Ask(t, <<kind, step[t]>>)
          /\ GoTo(t, IF kind = "policy" THEN "await_policy"
                     ELSE "await_blocker")
    BY <1>3 DEF AskForStep
  <2>2. step[t] \in 1..Steps
    BY <1>3 DEF AskForStep, StepInRange, InStep
  <2>3. t = s /\ r = <<kind, step[s]>>
    BY <2>1, <2>2, <1>1, StepIsRequest
  <2> QED
    BY <1>3, <2>1, <2>3 DEF GoTo
<1>4. ASSUME NEW c \in Clients, ApplyReply(c)
      PROVE  FALSE
  <2>1. request' = [request EXCEPT
          ![reply[c].session][reply[c].request] = reply[c].verdict]
    BY <1>4 DEF ApplyReply
  <2>2. /\ reply[c].session \in Sessions /\ reply[c].request \in Requests
        /\ request[reply[c].session][reply[c].request] # "NONE"
    BY <1>4 DEF ApplyReply, RequestInv, RepliesAnswerRequests, Replies
  <2> QED
    BY <2>1, <2>2
<1>5. ASSUME NEW t \in Sessions, NEW q \in Requests,
             TimerFires(t, q) \/ Expire(t, q)
      PROVE  FALSE
  <2>1. request[t][q] # "NONE"
    BY <1>5 DEF TimerFires, Expire, RequestInv, UnaskedIsIdle
  <2>2. CASE TimerFires(t, q)
    BY <1>0, <2>2 DEF TimerFires
  <2>3. CASE Expire(t, q)
    <3>1. request' = [request EXCEPT ![t][q] = "EXPIRED"]
      BY <2>3 DEF Expire
    <3> QED
      BY <2>1, <3>1
  <2> QED
    BY <1>5, <2>2, <2>3
<1>6. ASSUME NEW t \in Sessions,
             \/ Start(t) \/ Register(t) \/ HoldForClarification(t)
             \/ Clarify(t) \/ Plan(t) \/ FailPolicy(t) \/ DenyLaunch(t)
             \/ Simulate(t) \/ StageThrows(t) \/ CallbackThrows(t) \/ HandleError(t)
             \/ Dispatch(t) \/ ChromeUp(t) \/ Iterate(t)
             \/ CognitivePause(t) \/ RunTool(t) \/ Progress(t) \/ Replan(t)
             \/ StepThrows(t) \/ CloseEnds(t) \/ VerifyAndReflect(t)
      PROVE  FALSE
  BY <1>0, <1>6 DEF Start, Register, HoldForClarification, Clarify, Plan,
     AutomationGate, FailPolicy, DenyLaunch, Simulate, StageThrows, CallbackThrows,
     HandleError, Dispatch, ChromeUp, Iterate, CognitiveGate, CognitivePause,
     RunTool, Progress, Replan, StepThrows, CloseEnds, VerifyAndReflect,
     Verify, approvalVars
<1>7. ASSUME NEW t \in Sessions,
             \/ Pause(t) \/ ResumeExecution(t) \/ CancelBegins(t)
             \/ CancelCloses(t) \/ CancelWrites(t) \/ TakeFrame(t)
             \/ FrameArrives(t) \/ StatusLands(t) \/ Interrupt(t)
      PROVE  FALSE
  BY <1>0, <1>7 DEF Pause, ResumeExecution, CancelBegins, CancelCloses,
     CancelWrites, TakeFrame, FrameArrives, StatusLands, Interrupt, approvalVars
<1>8. ASSUME NEW c \in Clients, CheckReply(c)
      PROVE  FALSE
  BY <1>0, <1>8 DEF CheckReply
<1>9. CASE UNCHANGED vars
  BY <1>0, <1>9 DEF vars, approvalVars
<1>e. CASE BackendEnds
  BY <1>0, <1>e DEF BackendEnds
<1> QED
  BY <1>2, <1>3, <1>4, <1>5, <1>6, <1>7, <1>8, <1>9, <1>e
     DEF Next, EventLoop, Outside, Run, Throws, Cancelling, Expiry,
         PollThrows

LEMMA ConsentGrows ==
  ASSUME [Next]_vars
  PROVE  granted \subseteq granted'
<1>1. ASSUME NEW c \in Clients, ApplyReply(c)
      PROVE  granted \subseteq granted'
  BY <1>1 DEF ApplyReply
<1>2. ASSUME NEW c \in Clients, CheckReply(c)
      PROVE  granted \subseteq granted'
  BY <1>2 DEF CheckReply
<1>3. ASSUME NEW s \in Sessions, NEW r \in Requests,
             TimerFires(s, r) \/ Expire(s, r)
      PROVE  granted \subseteq granted'
  BY <1>3 DEF TimerFires, Expire
<1>4. ASSUME NEW s \in Sessions, Run(s) \/ Throws(s) \/ Start(s)
      PROVE  granted \subseteq granted'
  BY <1>4 DEF Run, Throws, Start, Register, HoldForClarification, Clarify,
     PollThrows, BackendEnds, Plan, AutomationGate, FailPolicy, RequestLaunchApproval, DenyLaunch,
     Simulate, StageThrows, CallbackThrows, HandleError, Dispatch, ChromeUp, Iterate,
     CognitiveGate, CognitivePause, AskForStep, RunTool, Progress, Replan,
     StepThrows, CloseEnds, VerifyAndReflect, Verify, approvalVars
<1>5. ASSUME NEW s \in Sessions,
             \/ Pause(s) \/ ResumeExecution(s) \/ CancelBegins(s)
             \/ CancelCloses(s) \/ CancelWrites(s) \/ TakeFrame(s)
             \/ FrameArrives(s) \/ StatusLands(s) \/ Interrupt(s)
      PROVE  granted \subseteq granted'
  BY <1>5 DEF Pause, ResumeExecution, CancelBegins, CancelCloses,
     CancelWrites, TakeFrame, FrameArrives, StatusLands, Interrupt, approvalVars
<1>6. CASE UNCHANGED vars
  BY <1>6 DEF vars, approvalVars
<1>e. CASE BackendEnds
  BY <1>e DEF BackendEnds
<1> QED
  BY <1>1, <1>2, <1>3, <1>4, <1>5, <1>6, <1>e
     DEF Next, EventLoop, Outside, Cancelling, Expiry, PollThrows

-----------------------------------------------------------------------------
(* No step is completed without the consent it asked for. *)

Asked(s, kind, i) == request[s][<<kind, i>>] # "NONE"
Given(s, kind, i) == <<s, <<kind, i>>>> \in granted

\* StepNeedsConsent is not inductive: requests of the steps ahead do not
\* exist yet, those of the step at hand exist from the stage that asks on,
\* and have been granted at the stages behind the wait.
StepShape(s) ==
  /\ \A i \in performed[s] : i < step[s]
  /\ \A kind \in {"policy", "blocker"}, i \in 1..Steps :
       Asked(s, kind, i) =>
         i <= step[s] /\ pc[s] \notin Unlaunched \cup {"launching"}
  /\ \A i \in 1..Steps : i = step[s] =>
       /\ pc[s] \in {"loop", "cognitive_pause", "ask_policy"} =>
            ~Asked(s, "policy", i)
       /\ pc[s] \in {"loop", "cognitive_pause", "ask_policy",
                     "await_policy", "tool", "ask_blocker"} =>
            ~Asked(s, "blocker", i)
       /\ pc[s] \in {"tool", "ask_blocker", "await_blocker", "progress"}
            /\ Asked(s, "policy", i) => Given(s, "policy", i)
       /\ pc[s] = "progress" /\ Asked(s, "blocker", i) =>
            Given(s, "blocker", i)
  /\ \A i \in performed[s], kind \in {"policy", "blocker"} :
       Asked(s, kind, i) => Given(s, kind, i)

StepInv == \A s \in Sessions : StepShape(s)

LEMMA StepInit == PipelineInit => StepInv
<1> SUFFICES ASSUME PipelineInit, NEW s \in Sessions PROVE StepShape(s)
  BY DEF StepInv
<1>1. /\ performed[s] = {} /\ pc[s] = "new"
      /\ \A r \in Requests : request[s][r] = "NONE"
  BY DEF PipelineInit
<1>2. \A kind \in {"policy", "blocker"}, i \in 1..Steps : ~Asked(s, kind, i)
  BY <1>1, StepIsRequest DEF Asked
<1> QED
  BY <1>1, <1>2 DEF StepShape

\* What a step may do to the requests of s.
LEMMA StepFacts ==
  ASSUME Typing, RequestInv, [Next]_vars, NEW s \in Sessions
  PROVE  \A kind \in {"policy", "blocker"}, i \in 1..Steps :
           /\ Given(s, kind, i) => Given(s, kind, i)'
           /\ Asked(s, kind, i)' =>
                \/ Asked(s, kind, i)
                \/ /\ i = step[s]
                   /\ \/ /\ kind = "policy" /\ pc[s] = "ask_policy"
                         /\ pc'[s] = "await_policy"
                      \/ /\ kind = "blocker" /\ pc[s] = "ask_blocker"
                         /\ pc'[s] = "await_blocker"
<1> SUFFICES ASSUME NEW kind \in {"policy", "blocker"}, NEW i \in 1..Steps
             PROVE  /\ Given(s, kind, i) => Given(s, kind, i)'
                    /\ Asked(s, kind, i)' =>
                         \/ Asked(s, kind, i)
                         \/ /\ i = step[s]
                            /\ \/ /\ kind = "policy" /\ pc[s] = "ask_policy"
                                  /\ pc'[s] = "await_policy"
                               \/ /\ kind = "blocker" /\ pc[s] = "ask_blocker"
                                  /\ pc'[s] = "await_blocker"
  OBVIOUS
<1>1. Given(s, kind, i) => Given(s, kind, i)'
  BY ConsentGrows DEF Given
<1>2. ASSUME Asked(s, kind, i)', ~Asked(s, kind, i)
      PROVE  /\ i = step[s]
             /\ \/ /\ kind = "policy" /\ pc[s] = "ask_policy"
                   /\ pc'[s] = "await_policy"
                \/ /\ kind = "blocker" /\ pc[s] = "ask_blocker"
                   /\ pc'[s] = "await_blocker"
  <2>1. <<kind, i>> \in Requests /\ <<kind, i>> # LaunchRequest
    BY StepIsRequest
  <2>2. PICK k \in {"policy", "blocker"} :
          /\ AskForStep(s) /\ <<kind, i>> = <<k, step[s]>>
          /\ pc'[s] = IF k = "policy" THEN "await_policy"
                      ELSE "await_blocker"
    BY <2>1, <1>2, OnlyAskCreates DEF Asked
  <2>3. kind = k /\ i = step[s]
    BY <2>2
  <2>4. \/ pc[s] = "ask_policy" /\ pc'[s] = "await_policy"
        \/ pc[s] = "ask_blocker" /\ pc'[s] = "await_blocker"
    BY <2>2 DEF AskForStep, GoTo, Typing, PipelineTypeOK
  <2> QED
    BY <2>2, <2>3, <2>4
<1> QED
  BY <1>1, <1>2

\* The run of s stays where it is.
LEMMA StepFrame ==
  ASSUME Typing, RequestInv, [Next]_vars, NEW s \in Sessions, StepShape(s),
         pc'[s] = pc[s], step'[s] = step[s], performed'[s] = performed[s]
  PROVE  StepShape(s)'
<1>1. \A kind \in {"policy", "blocker"}, i \in 1..Steps :
        Given(s, kind, i) => Given(s, kind, i)'
  BY StepFacts
<1>2. \A kind \in {"policy", "blocker"}, i \in 1..Steps :
        Asked(s, kind, i)' => Asked(s, kind, i)
  BY StepFacts
<1>3. performed[s] \subseteq 1..Steps
  BY DEF Typing, PipelineTypeOK
<1> QED
  BY <1>1, <1>2, <1>3 DEF StepShape

LEMMA StepStep ==
  ASSUME Typing, RequestInv, StepInv, [Next]_vars
  PROVE  StepInv'
<1> SUFFICES ASSUME NEW t \in Sessions PROVE StepShape(t)'
  BY DEF StepInv
<1>t. StepShape(t)
  BY DEF StepInv
<1> USE DEF Typing, PipelineTypeOK
<1>g. \A kind \in {"policy", "blocker"}, i \in 1..Steps :
        Given(t, kind, i) => Given(t, kind, i)'
  BY StepFacts
<1>a. \A kind \in {"policy", "blocker"}, i \in 1..Steps :
        Asked(t, kind, i)' =>
          \/ Asked(t, kind, i)
          \/ /\ i = step[t]
             /\ \/ /\ kind = "policy" /\ pc[t] = "ask_policy"
                   /\ pc'[t] = "await_policy"
                \/ /\ kind = "blocker" /\ pc[t] = "ask_blocker"
                   /\ pc'[t] = "await_blocker"
  BY StepFacts
<1>p. performed[t] \subseteq 1..Steps
  OBVIOUS
<1> HIDE DEF Asked, Given
<1>0. ASSUME pc'[t] = pc[t], UNCHANGED <<step, performed>>
      PROVE  StepShape(t)'
  BY <1>0, <1>t, StepFrame
<1>1. ASSUME NEW s \in Sessions, s # t,
             step' = [step EXCEPT ![s] = @ + 1] \/ UNCHANGED step,
             \/ performed' = [performed EXCEPT ![s] = @ \cup {step[s]}]
             \/ UNCHANGED performed,
             UNCHANGED pc \/ \E stage \in Stages : GoTo(s, stage)
      PROVE  StepShape(t)'
  BY <1>1, <1>t, StepFrame DEF GoTo
\* The stages outside the loop leave the step and what was performed alone.
<1>2. ASSUME NEW s \in Sessions,
             \/ Start(s) \/ Register(s) \/ HoldForClarification(s)
             \/ Clarify(s) \/ Plan(s) \/ FailPolicy(s)
             \/ RequestLaunchApproval(s) \/ DenyLaunch(s) \/ Simulate(s)
             \/ StageThrows(s) \/ CallbackThrows(s) \/ HandleError(s) \/ Dispatch(s)
             \/ ChromeUp(s) \/ CloseEnds(s) \/ VerifyAndReflect(s)
      PROVE  StepShape(t)'
  <2>1. UNCHANGED <<step, performed>>
    BY <1>2 DEF Start, Register, HoldForClarification, Clarify, Plan,
       AutomationGate, FailPolicy, RequestLaunchApproval, DenyLaunch,
       Simulate, StageThrows, CallbackThrows, HandleError, Dispatch, ChromeUp, CloseEnds,
       VerifyAndReflect, Verify
  <2>2. \E stage \in Stages : GoTo(s, stage)
    BY <1>2 DEF Start, Register, HoldForClarification, Clarify, Plan,
       AutomationGate, FailPolicy, RequestLaunchApproval, DenyLaunch,
       Simulate, StageThrows, CallbackThrows, HandleError, Dispatch, ChromeUp, CloseEnds,
       VerifyAndReflect, Verify, Stages, Deciding, Executing
  <2>3. CASE s = t
    <3>1. \/ pc'[t] \in Unlaunched \cup {"launching"}
             /\ pc[t] \in Unlaunched
          \/ pc[t] = "launching" /\ pc'[t] = "loop"
          \/ pc'[t] \in {"done", "error_write", "verify", "lost"}
      BY <1>2, <2>3 DEF Start, Register, HoldForClarification, Clarify, Plan,
         AutomationGate, FailPolicy, RequestLaunchApproval, DenyLaunch,
         Simulate, StageThrows, CallbackThrows, HandleError, Dispatch, ChromeUp, CloseEnds,
         VerifyAndReflect, Verify, GoTo, Unlaunched, Deciding
    <3> QED
      BY <2>1, <3>1, <1>t, <1>g, <1>a, <1>p
         DEF StepShape, Unlaunched, Deciding
  <2> QED
    BY <2>1, <2>2, <2>3, <1>1
<1>3. ASSUME NEW s \in Sessions,
             Iterate(s) \/ CognitivePause(s) \/ StepThrows(s) \/ RunTool(s)
      PROVE  StepShape(t)'
  <2>1. UNCHANGED <<step, performed>>
    BY <1>3 DEF Iterate, CognitiveGate, CognitivePause, StepThrows, RunTool
  <2>2. \E stage \in Stages : GoTo(s, stage)
    BY <1>3 DEF Iterate, CognitiveGate, CognitivePause, StepThrows, RunTool,
       BeginStep, LeaveLoop, Stages, Executing
  <2>3. CASE s = t
    <3>1. \/ /\ pc[t] \in {"loop", "cognitive_pause"}
             /\ pc'[t] \in {"cognitive_pause", "ask_policy", "tool"}
          \/ pc[t] = "tool" /\ pc'[t] \in {"ask_blocker", "progress"}
          \/ pc'[t] \in {"replan", "closing", "verify"}
      BY <1>3, <2>3 DEF Iterate, CognitiveGate, CognitivePause, StepThrows,
         RunTool, BeginStep, LeaveLoop, GoTo
    <3>2. pc[t] \notin Unlaunched \cup {"launching"}
      BY <1>3, <2>3 DEF Iterate, CognitiveGate, CognitivePause, StepThrows,
         RunTool, Unlaunched, Deciding
    <3> QED
      BY <2>1, <3>1, <3>2, <1>t, <1>g, <1>a, <1>p
         DEF StepShape, Unlaunched, Deciding
  <2> QED
    BY <2>1, <2>2, <2>3, <1>1
<1>4. ASSUME NEW s \in Sessions, AskForStep(s)
      PROVE  StepShape(t)'
  <2>1. UNCHANGED <<step, performed>>
    BY <1>4 DEF AskForStep
  <2>2. \E stage \in Stages : GoTo(s, stage)
    BY <1>4 DEF AskForStep, Stages, Executing
  <2>3. CASE s = t
    <3>1. \/ pc[t] = "ask_policy" /\ pc'[t] = "await_policy"
          \/ pc[t] = "ask_blocker" /\ pc'[t] = "await_blocker"
      BY <1>4, <2>3 DEF AskForStep, GoTo
    <3>2. step[t] \in 1..Steps
      BY <3>1 DEF StepInRange, InStep
    <3> QED
      BY <2>1, <3>1, <3>2, <1>t, <1>g, <1>a, <1>p
         DEF StepShape, Unlaunched, Deciding
  <2> QED
    BY <2>1, <2>2, <2>3, <1>1
<1>5. ASSUME NEW s \in Sessions, Progress(s) \/ Replan(s)
      PROVE  StepShape(t)'
  <2>1. /\ step' = [step EXCEPT ![s] = @ + 1] \/ UNCHANGED step
        /\ \/ performed' = [performed EXCEPT ![s] = @ \cup {step[s]}]
           \/ UNCHANGED performed
        /\ \E stage \in Stages : GoTo(s, stage)
    BY <1>5 DEF Progress, Replan, LeaveLoop, Stages, Executing
  <2>2. CASE s = t
    <3>1. pc[t] \in {"progress", "replan"} /\ step[t] \in 1..Steps
      BY <1>5, <2>2 DEF Progress, Replan, StepInRange, InStep
    <3>2. \/ /\ pc[t] = "progress" /\ pc'[t] = "loop"
             /\ step'[t] = step[t] + 1
             /\ performed'[t] = performed[t] \cup {step[t]}
          \/ /\ pc'[t] = "loop" /\ step'[t] = step[t] + 1
             /\ performed'[t] = performed[t]
          \/ /\ pc'[t] \in {"closing", "verify"}
             /\ step'[t] = step[t] /\ performed'[t] = performed[t]
      BY <1>5, <2>2 DEF Progress, Replan, LeaveLoop, GoTo
    <3>3. \A kind \in {"policy", "blocker"}, i \in 1..Steps :
            Asked(t, kind, i)' => Asked(t, kind, i)
      BY <1>a, <3>1
    <3>4. ASSUME NEW i \in performed'[t], NEW kind \in {"policy", "blocker"},
                 Asked(t, kind, i)'
          PROVE  Given(t, kind, i)'
      <4>1. i \in performed[t] \/ (i = step[t] /\ pc[t] = "progress")
        BY <3>2
      <4>2. i \in 1..Steps
        BY <4>1, <3>1, <1>p
      <4>3. Given(t, kind, i)
        BY <3>3, <3>4, <4>1, <4>2, <1>t DEF StepShape
      <4> QED
        BY <4>2, <4>3, <1>g
    <3>5. \A i \in performed'[t] : i < step'[t]
      <4>1. \A i \in performed[t] : i \in Nat /\ i < step[t]
        BY <1>t, <1>p DEF StepShape
      <4>2. step[t] \in Nat
        BY <3>1
      <4>3. ASSUME NEW i \in performed'[t] PROVE i < step'[t]
        <5>1. CASE i \in performed[t]
          <6>1. step'[t] = step[t] \/ step'[t] = step[t] + 1
            BY <3>2
          <6> QED
            BY <4>1, <4>2, <5>1, <6>1
        <5>2. CASE i \notin performed[t]
          <6>1. i = step[t] /\ step'[t] = step[t] + 1
            BY <3>2, <4>3, <5>2
          <6> QED
            BY <4>2, <6>1
        <5> QED
          BY <5>1, <5>2
      <4> QED
        BY <4>3
    <3>6. \A kind \in {"policy", "blocker"}, i \in 1..Steps :
            Asked(t, kind, i)' => i <= step[t]
      BY <3>3, <1>t DEF StepShape
    <3>7. step[t] \in Nat /\ step'[t] \in {step[t], step[t] + 1}
      <4>1. step[t] \in Nat
        BY <3>1
      <4> QED
        BY <4>1, <3>2
    <3> QED
      BY <3>2, <3>4, <3>5, <3>6, <3>7 DEF StepShape, Unlaunched, Deciding
  <2> QED
    BY <2>1, <2>2, <1>1
<1>6. ASSUME NEW c \in Clients, ApplyReply(c)
      PROVE  StepShape(t)'
  <2> DEFINE s == reply[c].session
             r == reply[c].request
             approved == reply[c].verdict = "APPROVED"
             rec == WithGate(session[s], "CLEARED")
  <2>1. s \in Sessions /\ r \in Requests
    BY <1>6 DEF ApplyReply, Replies
  <2>2. /\ UNCHANGED <<step, performed>>
        /\ granted' = granted \cup (IF approved THEN {<<s, r>>} ELSE {})
        /\ Resume(s, r, approved, rec)
    BY <1>6 DEF ApplyReply
  <2> HIDE DEF s, r, approved, rec
  <2>3. CASE UNCHANGED pc
    BY <2>2, <2>3, <1>0
  <2>4. CASE Waits(s, r) /\ r = LaunchRequest /\ ResumeLaunch(s, approved, rec)
    <3>1. /\ pc[s] = "await_launch"
          /\ \E stage \in {"dispatch", "done", "deny_write"} : GoTo(s, stage)
      BY <2>4 DEF Waits, ResumeLaunch, LaunchRequest
    <3>2. pc'[s] \in {"dispatch", "done", "deny_write"}
      BY <2>1, <3>1 DEF GoTo
    <3>3. CASE s = t
      BY <2>2, <3>1, <3>2, <3>3, <1>t, <1>g, <1>a, <1>p
         DEF StepShape, Unlaunched, Deciding
    <3>4. CASE s # t
      <4>1. pc'[t] = pc[t]
        BY <3>1, <3>4 DEF GoTo
      <4> QED
        BY <2>2, <4>1, <1>0
    <3> QED
      BY <3>3, <3>4
  <2>5. CASE /\ Waits(s, r) /\ r # LaunchRequest
             /\ GoTo(s, IF ~approved THEN "replan"
                        ELSE IF pc[s] = "await_policy" THEN "tool"
                        ELSE "progress")
    <3>1. \/ pc[s] = "await_policy" /\ r = <<"policy", step[s]>>
          \/ pc[s] = "await_blocker" /\ r = <<"blocker", step[s]>>
      BY <2>5 DEF Waits
    <3>2. CASE s # t
      <4>1. pc'[t] = pc[t]
        BY <2>5, <3>2 DEF GoTo
      <4> QED
        BY <2>2, <4>1, <1>0
    <3>3. CASE s = t
      <4>1. step[t] \in 1..Steps
        BY <3>1, <3>3 DEF StepInRange, InStep
      <4>2. \/ pc'[t] = "replan"
            \/ approved /\ pc[t] = "await_policy" /\ pc'[t] = "tool"
            \/ approved /\ pc[t] = "await_blocker" /\ pc'[t] = "progress"
        BY <2>1, <2>5, <3>1, <3>3 DEF GoTo
      <4>3. approved => <<s, r>> \in granted'
        BY <2>2
      <4>4. /\ pc'[t] = "tool" => Given(t, "policy", step[t])'
            /\ pc'[t] = "progress" => Given(t, "blocker", step[t])'
        BY <2>2, <3>1, <3>3, <4>2, <4>3 DEF Given
      <4> QED
        BY <2>2, <4>1, <4>2, <4>4, <3>1, <3>3, <1>t, <1>g, <1>a, <1>p
           DEF StepShape, Unlaunched, Deciding
    <3> QED
      BY <3>2, <3>3
  <2> QED
    BY <2>2, <2>3, <2>4, <2>5 DEF Resume
<1>7. ASSUME NEW s \in Sessions, NEW r \in Requests, Expire(s, r)
      PROVE  StepShape(t)'
  <2>1. UNCHANGED <<step, performed>>
    BY <1>7 DEF Expire
  <2>2. CASE UNCHANGED pc
    BY <2>1, <2>2, <1>0
  <2>3. CASE pc[s] = "await_launch" /\ ResumeLaunch(s, FALSE, session[s])
    <3>1. GoTo(s, "done") \/ GoTo(s, "deny_write")
      BY <2>3 DEF ResumeLaunch
    <3>2. CASE s # t
      <4>1. pc'[t] = pc[t]
        BY <3>1, <3>2 DEF GoTo
      <4> QED
        BY <2>1, <4>1, <1>0
    <3>3. CASE s = t
      <4>1. pc'[t] \in {"done", "deny_write"}
        BY <3>1, <3>3 DEF GoTo
      <4> QED
        BY <2>1, <2>3, <3>3, <4>1, <1>t, <1>g, <1>a, <1>p
           DEF StepShape, Unlaunched, Deciding
    <3> QED
      BY <3>2, <3>3
  <2>4. CASE r = LaunchRequest
    <3>1. Resume(s, r, FALSE, session[s])
      BY <1>7, <2>4 DEF Expire
    <3>2. Waits(s, r) => pc[s] = "await_launch"
      BY <2>4 DEF Waits, LaunchRequest
    <3> QED
      BY <2>2, <2>3, <2>4, <3>1, <3>2 DEF Resume
  <2> QED
    BY <1>7, <2>2, <2>4 DEF Expire
<1>8. ASSUME NEW s \in Sessions,
             \/ Pause(s) \/ ResumeExecution(s) \/ CancelBegins(s)
             \/ CancelCloses(s) \/ CancelWrites(s) \/ TakeFrame(s)
             \/ FrameArrives(s) \/ StatusLands(s) \/ Interrupt(s)
      PROVE  StepShape(t)'
  <2>1. UNCHANGED <<pc, step, performed>>
    BY <1>8 DEF Pause, ResumeExecution, CancelBegins, CancelCloses,
       CancelWrites, TakeFrame, FrameArrives, StatusLands, Interrupt, runVars
  <2> QED
    BY <2>1, <1>0
<1>9. ASSUME \/ \E c \in Clients : CheckReply(c)
             \/ \E s \in Sessions, r \in Requests : TimerFires(s, r)
             \/ UNCHANGED vars
      PROVE  StepShape(t)'
  <2>1. UNCHANGED <<pc, step, performed>>
    BY <1>9 DEF CheckReply, TimerFires, vars, runVars
  <2> QED
    BY <2>1, <1>0
<1>e. CASE BackendEnds
  <2>1. /\ UNCHANGED <<step, performed>>
        /\ pc'[t] = IF pc[t] \in {"new", "done"} THEN pc[t] ELSE "lost"
    BY <1>e DEF BackendEnds
  <2> QED
    BY <2>1, <1>t, <1>g, <1>a, <1>p DEF StepShape, Unlaunched, Deciding
<1> QED
  BY <1>2, <1>3, <1>4, <1>5, <1>6, <1>7, <1>8, <1>9, <1>e
     DEF Next, EventLoop, Outside, Run, Throws, Cancelling, Expiry,
         PollThrows

LEMMA RequestInvariant == Spec => []RequestInv
<1> QED
  BY RequestInit, RequestStep, TypingInvariant, PTL DEF Spec

\* A step that asked for approval, before it ran or because of a blocker
\* after it, is completed only when that very request was approved.
THEOREM PipelineStepConsent == Spec => []StepNeedsConsent
<1>1. StepInv => StepNeedsConsent
  BY DEF StepInv, StepShape, StepNeedsConsent, Asked, Given
<1>2. Typing /\ RequestInv /\ StepInv /\ [Next]_vars => StepInv'
  BY StepStep
<1> QED
  BY <1>1, <1>2, StepInit, TypingInvariant, RequestInvariant, PTL DEF Spec

=============================================================================

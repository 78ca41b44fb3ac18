-------------------- MODULE ExecutionPipelineGate_proofs --------------------
(***************************************************************************)
(* The pipeline implements LaunchGate: every step of it is a step of the   *)
(* abstract gate, or leaves the gate as it is.                             *)
(***************************************************************************)
EXTENDS ExecutionPipelineConsent_proofs

\* The launch request does not exist before the stage that creates it.
LaunchIsLate ==
  \A s \in Sessions :
    pc[s] \in Deciding \cup {"launch_create"} =>
      request[s][LaunchRequest] = "NONE"

LEMMA LateInit == PipelineInit => LaunchIsLate
BY LaunchIsRequest DEF PipelineInit, LaunchIsLate

-----------------------------------------------------------------------------
(* The steps of the abstract gate, from what happens to the phase of one   *)
(* session.                                                                *)

OthersKeepPhase(s) ==
  \A t \in Sessions \ {s} : GatePhase(t)' = GatePhase(t)

AllKeepPhase == \A t \in Sessions : GatePhase(t)' = GatePhase(t)

Consented(s) == <<s, LaunchRequest>> \in granted

KeepConsent == \A t \in Sessions : Consented(t)' <=> Consented(t)

LEMMA GateMove ==
  ASSUME NEW s \in Sessions, NEW from, NEW to, OthersKeepPhase(s),
         GatePhase(s) \in from, GatePhase(s)' = to
  PROVE  Gate!Move(s, from, to)
BY DEF Gate!Move, OthersKeepPhase

LEMMA GateSamePhase ==
  ASSUME AllKeepPhase
  PROVE  [s \in Sessions |-> GatePhase(s)]' = [s \in Sessions |-> GatePhase(s)]
BY DEF AllKeepPhase

LEMMA GateSameConsent ==
  ASSUME KeepConsent
  PROVE  {s \in Sessions : <<s, LaunchRequest>> \in granted}'
           = {s \in Sessions : <<s, LaunchRequest>> \in granted}
BY DEF KeepConsent, Consented

LEMMA GateStutter ==
  ASSUME AllKeepPhase, KeepConsent
  PROVE  UNCHANGED Gate!gateVars
BY GateSamePhase, GateSameConsent DEF Gate!gateVars

\* What the abstract gate lets happen to a run when no consent is given.
LegalMove(from, to) ==
  \/ from = "deciding" /\ to \in {"held", "cleared", "ended"}
  \/ from = "held" /\ to \in {"refused", "ended"}
  \/ from = "cleared" /\ to \in {"launched", "ended"}
  \/ from = "refused" /\ to = "ended"

LEMMA GateStep ==
  ASSUME NEW s \in Sessions, OthersKeepPhase(s), KeepConsent,
         GatePhase(s)' = GatePhase(s) \/ LegalMove(GatePhase(s), GatePhase(s)')
  PROVE  [Gate!GateNext]_(Gate!gateVars)
<1>1. CASE GatePhase(s)' = GatePhase(s)
  <2>1. AllKeepPhase
    BY <1>1 DEF OthersKeepPhase, AllKeepPhase
  <2> QED
    BY <2>1, GateStutter
<1> DEFINE Same == {t \in Sessions : <<t, LaunchRequest>> \in granted}'
                     = {t \in Sessions : <<t, LaunchRequest>> \in granted}
<1>2. Same
  BY GateSameConsent
<1>3. CASE GatePhase(s) = "deciding" /\ GatePhase(s)' = "held"
  <2>1. Gate!Move(s, {"deciding"}, "held")
    BY <1>3, GateMove
  <2>2. Gate!Hold(s)
    BY <1>2, <2>1 DEF Gate!Hold
  <2> QED
    BY <2>2 DEF Gate!GateNext
<1>4. CASE GatePhase(s) = "deciding" /\ GatePhase(s)' = "cleared"
  <2>1. Gate!Move(s, {"deciding"}, "cleared")
    BY <1>4, GateMove
  <2>2. Gate!Clear(s)
    BY <1>2, <2>1 DEF Gate!Clear
  <2> QED
    BY <2>2 DEF Gate!GateNext
<1>5. CASE GatePhase(s) = "held" /\ GatePhase(s)' = "refused"
  <2>1. Gate!Move(s, {"held"}, "refused")
    BY <1>5, GateMove
  <2>2. Gate!Refuse(s)
    BY <1>2, <2>1 DEF Gate!Refuse
  <2> QED
    BY <2>2 DEF Gate!GateNext
<1>6. CASE GatePhase(s) = "cleared" /\ GatePhase(s)' = "launched"
  <2>1. Gate!Move(s, {"cleared"}, "launched")
    BY <1>6, GateMove
  <2>2. Gate!Launch(s)
    BY <1>2, <2>1 DEF Gate!Launch
  <2> QED
    BY <2>2 DEF Gate!GateNext
<1>7. CASE /\ GatePhase(s) \in {"deciding", "held", "cleared", "refused"}
           /\ GatePhase(s)' = "ended"
  <2>1. Gate!Move(s, {"deciding", "held", "cleared", "refused"}, "ended")
    BY <1>7, GateMove
  <2>2. Gate!End({s})
    BY <1>2, <1>7, <2>1 DEF Gate!End, Gate!Move
  <2> QED
    BY <2>2 DEF Gate!GateNext
<1> QED
  BY <1>1, <1>3, <1>4, <1>5, <1>6, <1>7 DEF LegalMove

\* An approval of a held run, or one that comes too late.
LEMMA GateApprove ==
  ASSUME NEW s \in Sessions, OthersKeepPhase(s),
         \A t \in Sessions : Consented(t)' <=> Consented(t) \/ t = s,
         \/ GatePhase(s) = "held" /\ GatePhase(s)' \in {"cleared", "ended"}
         \/ /\ GatePhase(s) \notin {"deciding", "held"}
            /\ GatePhase(s)' = GatePhase(s)
  PROVE  [Gate!GateNext]_(Gate!gateVars)
<1>1. {t \in Sessions : <<t, LaunchRequest>> \in granted}'
        = {t \in Sessions : <<t, LaunchRequest>> \in granted} \cup {s}
  BY DEF Consented
<1>2. CASE GatePhase(s) = "held" /\ GatePhase(s)' = "cleared"
  <2>1. Gate!Move(s, {"held"}, "cleared")
    BY <1>2, GateMove
  <2>2. Gate!Approve(s)
    BY <1>1, <2>1 DEF Gate!Approve
  <2> QED
    BY <2>2 DEF Gate!GateNext
<1>3. CASE GatePhase(s) = "held" /\ GatePhase(s)' = "ended"
  <2>1. Gate!Move(s, {"held"}, "ended")
    BY <1>3, GateMove
  <2>2. Gate!Approve(s)
    BY <1>1, <2>1 DEF Gate!Approve
  <2> QED
    BY <2>2 DEF Gate!GateNext
<1>4. CASE /\ GatePhase(s) \notin {"deciding", "held"}
           /\ GatePhase(s)' = GatePhase(s)
  <2>1. AllKeepPhase
    BY <1>4 DEF OthersKeepPhase, AllKeepPhase
  <2>2. [t \in Sessions |-> GatePhase(t)]' = [t \in Sessions |-> GatePhase(t)]
    BY <2>1, GateSamePhase
  <2>3. Gate!Approve(s)
    BY <1>1, <1>4, <2>2 DEF Gate!Approve
  <2> QED
    BY <2>3 DEF Gate!GateNext
<1> QED
  BY <1>2, <1>3, <1>4

-----------------------------------------------------------------------------
(* The steps of the pipeline. *)

Early == Deciding \cup {"launch_create"}

\* No run comes back to the stages before its launch request.
LEMMA EarlyStep ==
  ASSUME Typing, [Next]_vars, NEW t \in Sessions, pc'[t] \in Early
  PROVE  pc[t] \in Early
<1> USE DEF Typing, PipelineTypeOK, Early, Deciding
<1>1. ASSUME NEW s \in Sessions,
             \/ Start(s) \/ Register(s) \/ HoldForClarification(s)
             \/ Clarify(s) \/ Plan(s) \/ FailPolicy(s)
             \/ RequestLaunchApproval(s) \/ DenyLaunch(s) \/ Simulate(s)
             \/ StageThrows(s) \/ CallbackThrows(s) \/ HandleError(s) \/ Dispatch(s)
             \/ ChromeUp(s) \/ CloseEnds(s) \/ VerifyAndReflect(s)
      PROVE  pc[t] \in Early
  BY <1>1 DEF Start, Register, HoldForClarification, Clarify, Plan,
     AutomationGate, FailPolicy, RequestLaunchApproval, DenyLaunch, Simulate,
     StageThrows, CallbackThrows, HandleError, Dispatch, ChromeUp, CloseEnds,
     VerifyAndReflect, Verify, GoTo
<1>2. ASSUME NEW s \in Sessions,
             Iterate(s) \/ CognitivePause(s) \/ AskForStep(s) \/ RunTool(s)
               \/ Progress(s) \/ Replan(s) \/ StepThrows(s)
      PROVE  pc[t] \in Early
  BY <1>2 DEF Iterate, CognitiveGate, CognitivePause, AskForStep, RunTool,
     Progress, Replan, StepThrows, BeginStep, LeaveLoop, GoTo
<1>3. ASSUME NEW s, NEW r, NEW approved, NEW rec, Resume(s, r, approved, rec)
      PROVE  pc[t] \in Early
  BY <1>3 DEF Resume, ResumeLaunch, GoTo
<1>4. ASSUME NEW c \in Clients, ApplyReply(c)
      PROVE  pc[t] \in Early
  <2>1. \E s, r, approved, rec : Resume(s, r, approved, rec)
    BY <1>4 DEF ApplyReply
  <2> QED
    BY <2>1, <1>3
<1>5. ASSUME NEW s \in Sessions, NEW r \in Requests, Expire(s, r)
      PROVE  pc[t] \in Early
  BY <1>5, <1>3 DEF Expire
<1>6. CASE UNCHANGED pc
  BY <1>6
<1>7. ASSUME \/ \E c \in Clients : CheckReply(c)
             \/ \E s \in Sessions, r \in Requests : TimerFires(s, r)
             \/ \E s \in Sessions :
                  \/ Pause(s) \/ ResumeExecution(s) \/ CancelBegins(s)
                  \/ CancelCloses(s) \/ CancelWrites(s) \/ TakeFrame(s)
                  \/ FrameArrives(s) \/ StatusLands(s) \/ Interrupt(s)
             \/ UNCHANGED vars
      PROVE  UNCHANGED pc
  BY <1>7 DEF CheckReply, TimerFires, Pause, ResumeExecution, CancelBegins,
     CancelCloses, CancelWrites, TakeFrame, FrameArrives, StatusLands, Interrupt, vars,
     runVars
<1>e. CASE BackendEnds
  BY <1>e DEF BackendEnds
<1> QED
  BY <1>1, <1>2, <1>4, <1>5, <1>6, <1>7, <1>e
     DEF Next, EventLoop, Outside, Run, Throws, Cancelling, Expiry,
         PollThrows

LEMMA LateStep ==
  ASSUME Typing, RequestInv, LaunchIsLate, [Next]_vars
  PROVE  LaunchIsLate'
<1> SUFFICES ASSUME NEW t \in Sessions, pc'[t] \in Early,
                    request'[t][LaunchRequest] # "NONE"
             PROVE  FALSE
  BY DEF LaunchIsLate, Early
<1>1. pc[t] \in Early /\ request[t][LaunchRequest] = "NONE"
  BY EarlyStep DEF LaunchIsLate, Early
<1>2. CASE RequestLaunchApproval(t)
  <2>1. pc'[t] = "await_launch"
    BY <1>2 DEF RequestLaunchApproval, GoTo, Typing, PipelineTypeOK
  <2> QED
    BY <2>1 DEF Early, Deciding
<1>3. CASE AskForStep(t)
  BY <1>1, <1>3 DEF AskForStep, Early, Deciding
<1> QED
  BY <1>1, <1>2, <1>3, LaunchIsRequest, OnlyAskCreates

LEMMA PhaseFrame ==
  ASSUME NEW s \in Sessions,
         \A t \in Sessions \ {s} :
           pc'[t] = pc[t] /\ chrome'[t] = chrome[t] /\ exit'[t] = exit[t]
  PROVE  OthersKeepPhase(s)
BY DEF OthersKeepPhase, GatePhase, Launched

LEMMA SamePhase ==
  ASSUME UNCHANGED <<pc, chrome, exit>>
  PROVE  AllKeepPhase
BY DEF AllKeepPhase, GatePhase, Launched

LEMMA SameConsent ==
  ASSUME UNCHANGED granted
  PROVE  KeepConsent
BY DEF KeepConsent, Consented

\* A step of the run of s that writes no consent.
LEMMA RunMapsToGate ==
  ASSUME Typing, NEW s \in Sessions, LaunchShape(s), LaunchShape(s)',
         Run(s) \/ Throws(s) \/ Start(s), ~BackendEnds
  PROVE  [Gate!GateNext]_(Gate!gateVars)
<1> USE DEF Typing, PipelineTypeOK
<1>1. KeepConsent
  <2>1. UNCHANGED granted
    BY DEF Run, Throws, PollThrows, Start, Register, HoldForClarification, Clarify, Plan,
       AutomationGate, FailPolicy, RequestLaunchApproval, DenyLaunch,
       Simulate, StageThrows, CallbackThrows, HandleError, Dispatch, ChromeUp, Iterate,
       CognitiveGate, CognitivePause, AskForStep, RunTool, Progress, Replan,
       StepThrows, CloseEnds, VerifyAndReflect, Verify, approvalVars
  <2> QED
    BY <2>1, SameConsent
<1>2. ASSUME \/ Start(s) \/ Register(s) \/ HoldForClarification(s)
             \/ Clarify(s) \/ Plan(s) \/ FailPolicy(s)
             \/ RequestLaunchApproval(s) \/ DenyLaunch(s) \/ Simulate(s)
             \/ StageThrows(s) \/ CallbackThrows(s) \/ HandleError(s) \/ Dispatch(s)
             \/ ChromeUp(s) \/ CloseEnds(s) \/ VerifyAndReflect(s)
      PROVE  OthersKeepPhase(s)
  <2>1. \A t \in Sessions \ {s} :
          pc'[t] = pc[t] /\ chrome'[t] = chrome[t] /\ exit'[t] = exit[t]
    BY <1>2 DEF Start, Register, HoldForClarification, Clarify, Plan,
       AutomationGate, FailPolicy, RequestLaunchApproval, DenyLaunch,
       Simulate, StageThrows, CallbackThrows, HandleError, Dispatch, ChromeUp, CloseEnds,
       VerifyAndReflect, Verify, GoTo
  <2> QED
    BY <2>1, PhaseFrame
<1>3. ASSUME Iterate(s) \/ CognitivePause(s) \/ AskForStep(s) \/ RunTool(s)
               \/ Progress(s) \/ Replan(s) \/ StepThrows(s)
      PROVE  OthersKeepPhase(s) /\ GatePhase(s)' = GatePhase(s)
  <2>1. \A t \in Sessions \ {s} :
          pc'[t] = pc[t] /\ chrome'[t] = chrome[t] /\ exit'[t] = exit[t]
    BY <1>3 DEF Iterate, CognitiveGate, CognitivePause, AskForStep, RunTool,
       Progress, Replan, StepThrows, BeginStep, LeaveLoop, GoTo
  <2>2. /\ pc[s] \in Executing \ {"dispatch"}
        /\ pc'[s] \in Executing \ {"dispatch"}
    BY <1>3 DEF Iterate, CognitiveGate, CognitivePause, AskForStep, RunTool,
       Progress, Replan, StepThrows, BeginStep, LeaveLoop, GoTo, Executing
  <2>3. chrome[s] # "none" /\ chrome'[s] # "none"
    BY <2>2 DEF LaunchShape
  <2>4. OthersKeepPhase(s)
    BY <2>1, PhaseFrame
  <2>5. GatePhase(s) = "launched" /\ GatePhase(s)' = "launched"
    BY <2>3 DEF GatePhase, Launched
  <2> QED
    BY <2>4, <2>5
<1> USE DEF GatePhase, Launched, LaunchShape, Unlaunched, Deciding,
            LegalMove, GoTo
<1>4. CASE \/ Start(s) \/ Register(s) \/ HoldForClarification(s)
           \/ Clarify(s)
  <2>1. GatePhase(s)' = GatePhase(s) \/ LegalMove(GatePhase(s), GatePhase(s)')
    BY <1>4 DEF Start, Register, HoldForClarification, Clarify
  <2> QED
    BY <1>1, <1>2, <1>4, <2>1, GateStep
<1>5. CASE Plan(s) \/ RequestLaunchApproval(s)
  <2>1. GatePhase(s)' = GatePhase(s) \/ LegalMove(GatePhase(s), GatePhase(s)')
    BY <1>5 DEF Plan, AutomationGate, RequestLaunchApproval
  <2> QED
    BY <1>1, <1>2, <1>5, <2>1, GateStep
<1>6. CASE FailPolicy(s) \/ DenyLaunch(s) \/ Simulate(s)
  <2>1. GatePhase(s)' = GatePhase(s) \/ LegalMove(GatePhase(s), GatePhase(s)')
    BY <1>6 DEF FailPolicy, DenyLaunch, Simulate
  <2> QED
    BY <1>1, <1>2, <1>6, <2>1, GateStep
<1>7. CASE StageThrows(s) \/ CallbackThrows(s)
  <2>1. GatePhase(s)' = GatePhase(s) \/ LegalMove(GatePhase(s), GatePhase(s)')
    BY <1>7 DEF StageThrows, CallbackThrows, Executing
  <2> QED
    BY <1>1, <1>2, <1>7, <2>1, GateStep
<1>8. CASE HandleError(s) \/ VerifyAndReflect(s)
  <2>1. GatePhase(s)' = GatePhase(s) \/ LegalMove(GatePhase(s), GatePhase(s)')
    BY <1>8 DEF HandleError, VerifyAndReflect, Verify
  <2> QED
    BY <1>1, <1>2, <1>8, <2>1, GateStep
<1>9. CASE Dispatch(s)
  <2>1. GatePhase(s)' = GatePhase(s) \/ LegalMove(GatePhase(s), GatePhase(s)')
    BY <1>9 DEF Dispatch
  <2> QED
    BY <1>1, <1>2, <1>9, <2>1, GateStep
<1>10. CASE ChromeUp(s) \/ CloseEnds(s)
  <2>1. GatePhase(s)' = GatePhase(s) \/ LegalMove(GatePhase(s), GatePhase(s)')
    BY <1>10 DEF ChromeUp, CloseEnds, Executing
  <2> QED
    BY <1>1, <1>2, <1>10, <2>1, GateStep
<1>11. CASE Iterate(s) \/ CognitivePause(s) \/ AskForStep(s) \/ RunTool(s)
              \/ Progress(s) \/ Replan(s) \/ StepThrows(s)
  BY <1>1, <1>3, <1>11, GateStep
<1> QED
  BY <1>4, <1>5, <1>6, <1>7, <1>8, <1>9, <1>10, <1>11 DEF Run, Throws, PollThrows

\* The launch of a held run is decided, with or without consent.
LEMMA ResumeMapsToPhase ==
  ASSUME Typing, NEW s \in Sessions, LaunchShape(s), NEW approved, NEW rec,
         Waits(s, LaunchRequest), ResumeLaunch(s, approved, rec),
         UNCHANGED <<chrome, exit>>
  PROVE  /\ OthersKeepPhase(s)
         /\ GatePhase(s) = "held"
         /\ GatePhase(s)' \in {"ended", "refused", "cleared"}
         /\ GatePhase(s)' = "cleared" => approved
         /\ GatePhase(s)' = "refused" => ~approved
<1> USE DEF Typing, PipelineTypeOK
<1>1. pc[s] = "await_launch"
  BY DEF Waits, LaunchRequest
<1>2. /\ \/ pc'[s] = "done" 
         \/ pc'[s] = "dispatch" /\ approved
         \/ pc'[s] = "deny_write" /\ ~approved
      /\ \A t \in Sessions \ {s} : pc'[t] = pc[t]
  BY DEF ResumeLaunch, GoTo
<1>3. chrome[s] = "none" /\ exit[s] \notin {"WORKER_DISPATCHED", "LAUNCH_DENIED"}
  BY <1>1 DEF LaunchShape, Unlaunched
<1>4. OthersKeepPhase(s)
  BY <1>2, PhaseFrame
<1> QED
  BY <1>1, <1>2, <1>3, <1>4 DEF GatePhase, Launched, Deciding

LEMMA ReplyMapsToGate ==
  ASSUME Typing, LaunchInv, RequestInv, LaunchIsLate, NEW c \in Clients,
         ApplyReply(c)
  PROVE  [Gate!GateNext]_(Gate!gateVars)
<1>1. PICK s, r, approved, rec :
        /\ s \in Sessions /\ r \in Requests /\ approved \in BOOLEAN
        /\ request[s][r] # "NONE"
        /\ UNCHANGED <<chrome, exit>>
        /\ granted' = granted \cup (IF approved THEN {<<s, r>>} ELSE {})
        /\ Resume(s, r, approved, rec)
  <2>1. /\ reply[c].session \in Sessions /\ reply[c].request \in Requests
        /\ request[reply[c].session][reply[c].request] # "NONE"
    BY DEF ApplyReply, Replies, Typing, PipelineTypeOK, RequestInv,
           RepliesAnswerRequests
  <2> QED
    BY <2>1 DEF ApplyReply
<1>2. UNCHANGED <<chrome, exit>>
  BY <1>1
<1>3. LaunchShape(s)
  BY <1>1 DEF LaunchInv
<1>4. CASE r # LaunchRequest
  <2>1. KeepConsent
    BY <1>1, <1>4 DEF KeepConsent, Consented
  <2>2. CASE Waits(s, r)
    <3>1. pc[s] \in {"await_policy", "await_blocker"}
      BY <1>4, <2>2 DEF Waits
    <3>2. OthersKeepPhase(s)
      <4>1. \A t \in Sessions \ {s} : pc'[t] = pc[t]
        BY <1>1, <1>4, <2>2 DEF Resume, GoTo, Typing, PipelineTypeOK
      <4> QED
        BY <1>1, <1>2, <4>1, PhaseFrame
    <3>3. pc'[s] \in {"replan", "tool", "progress"}
      BY <1>1, <1>4, <2>2 DEF Resume, GoTo, Typing, PipelineTypeOK
    <3>4. GatePhase(s) = "launched" /\ GatePhase(s)' = "launched"
      <4>1. chrome[s] # "none" /\ chrome'[s] # "none"
        BY <1>2, <1>3, <3>1 DEF LaunchShape, Executing
      <4> QED
        BY <4>1 DEF GatePhase, Launched
    <3> QED
      BY <1>1, <2>1, <3>2, <3>4, GateStep
  <2>3. CASE ~Waits(s, r)
    <3>1. UNCHANGED <<pc, chrome, exit>>
      BY <1>1, <2>3, <1>2 DEF Resume
    <3> QED
      BY <2>1, <3>1, SamePhase, GateStutter
  <2> QED
    BY <2>2, <2>3
<1>5. CASE r = LaunchRequest
  <2>1. pc[s] \notin Early
    BY <1>1, <1>5 DEF LaunchIsLate, Early
  <2>2. approved => \A t \in Sessions : Consented(t)' <=> Consented(t) \/ t = s
    BY <1>1, <1>5 DEF Consented
  <2>3. ~approved => KeepConsent
    BY <1>1 DEF KeepConsent, Consented
  <2>4. CASE Waits(s, r)
    <3>1. ResumeLaunch(s, approved, rec)
      BY <1>1, <1>5, <2>4 DEF Resume
    <3>2. /\ OthersKeepPhase(s)
          /\ GatePhase(s) = "held"
          /\ GatePhase(s)' \in {"ended", "refused", "cleared"}
          /\ GatePhase(s)' = "cleared" => approved
          /\ GatePhase(s)' = "refused" => ~approved
      BY <1>1, <1>2, <1>3, <1>5, <2>4, <3>1, ResumeMapsToPhase
    <3>3. CASE approved
      BY <1>1, <2>2, <3>2, <3>3, GateApprove
    <3>4. CASE ~approved
      BY <1>1, <2>3, <3>2, <3>4, GateStep DEF LegalMove
    <3> QED
      BY <3>3, <3>4
  <2>5. CASE ~Waits(s, r)
    <3>1. UNCHANGED <<pc, chrome, exit>>
      BY <1>1, <1>2, <2>5 DEF Resume
    <3>2. AllKeepPhase
      BY <3>1, SamePhase
    <3>3. pc[s] # "await_launch"
      BY <1>5, <2>5 DEF Waits
    <3>4. GatePhase(s) \notin {"deciding", "held"}
      BY <2>1, <3>3 DEF GatePhase, Early
    <3>5. OthersKeepPhase(s) /\ GatePhase(s)' = GatePhase(s)
      BY <1>1, <3>2 DEF AllKeepPhase, OthersKeepPhase
    <3>6. CASE approved
      BY <1>1, <2>2, <3>4, <3>5, <3>6, GateApprove
    <3>7. CASE ~approved
      BY <2>3, <3>2, <3>7, GateStutter
    <3> QED
      BY <3>6, <3>7
  <2> QED
    BY <2>4, <2>5
<1> QED
  BY <1>4, <1>5

LEMMA ExpireMapsToGate ==
  ASSUME Typing, LaunchInv, NEW s \in Sessions, NEW r \in Requests,
         Expire(s, r)
  PROVE  [Gate!GateNext]_(Gate!gateVars)
<1>1. KeepConsent /\ UNCHANGED <<chrome, exit>>
  BY SameConsent DEF Expire
<1>2. CASE UNCHANGED pc
  BY <1>1, <1>2, SamePhase, GateStutter
<1>3. CASE r = LaunchRequest /\ Waits(s, r)
  <2>1. ResumeLaunch(s, FALSE, session[s])
    BY <1>3 DEF Expire, Resume
  <2>2. LaunchShape(s)
    BY DEF LaunchInv
  <2>3. /\ OthersKeepPhase(s)
        /\ GatePhase(s) = "held"
        /\ GatePhase(s)' \in {"ended", "refused"}
    BY <1>1, <1>3, <2>1, <2>2, ResumeMapsToPhase
  <2> QED
    BY <1>1, <2>3, GateStep DEF LegalMove
<1> QED
  BY <1>2, <1>3 DEF Expire, Resume

\* What runs beside the run changes neither its stage nor its launch.
LEMMA OutsideMapsToGate ==
  ASSUME Typing, LaunchInv, NEW s \in Sessions,
         \/ Pause(s) \/ ResumeExecution(s) \/ CancelBegins(s)
         \/ CancelCloses(s) \/ CancelWrites(s) \/ TakeFrame(s)
         \/ FrameArrives(s) \/ StatusLands(s) \/ Interrupt(s)
  PROVE  [Gate!GateNext]_(Gate!gateVars)
<1>1. KeepConsent /\ UNCHANGED <<pc, exit>>
  BY SameConsent DEF Pause, ResumeExecution, CancelBegins, CancelCloses,
     CancelWrites, TakeFrame, FrameArrives, StatusLands, Interrupt, runVars,
     approvalVars
<1>2. \A t \in Sessions : chrome'[t] = "none" <=> chrome[t] = "none"
  <2>1. LaunchShape(s)
    BY DEF LaunchInv
  <2> QED
    BY <2>1 DEF Pause, ResumeExecution, CancelBegins, CancelCloses,
       CancelWrites, TakeFrame, FrameArrives, StatusLands, Interrupt, HasEntry,
       LaunchShape, Typing, PipelineTypeOK
<1>3. AllKeepPhase
  BY <1>1, <1>2 DEF AllKeepPhase, GatePhase, Launched
<1> QED
  BY <1>1, <1>3, GateStutter

\* When the process ends, the runs that have not launched end together.
LEMMA EndMapsToGate ==
  ASSUME Typing, BackendEnds
  PROVE  [Gate!GateNext]_(Gate!gateVars)
<1> USE DEF Typing, PipelineTypeOK
<1> DEFINE Open == {"deciding", "held", "cleared", "refused"}
           runs == {s \in Sessions :
                      pc[s] \notin {"new", "done"} /\ GatePhase(s) \in Open}
<1>1. /\ UNCHANGED <<exit, granted>>
      /\ \A s \in Sessions :
           /\ chrome'[s] = "none" <=> chrome[s] = "none"
           /\ pc'[s] = IF pc[s] \in {"new", "done"} THEN pc[s] ELSE "lost"
  BY DEF BackendEnds
<1>2. ASSUME NEW s \in Sessions
      PROVE  GatePhase(s)' = IF s \in runs THEN "ended" ELSE GatePhase(s)
  <2>1. Launched(s)' <=> Launched(s)
    BY <1>1 DEF Launched
  <2>2. CASE Launched(s)
    BY <2>1, <2>2 DEF GatePhase
  <2>3. CASE ~Launched(s) /\ pc[s] \in {"new", "done"}
    BY <1>1, <2>1, <2>3 DEF GatePhase
  <2>4. CASE ~Launched(s) /\ pc[s] \notin {"new", "done"}
    <3>1. GatePhase(s)' = "ended"
      BY <1>1, <2>1, <2>4 DEF GatePhase, Deciding
    <3>2. GatePhase(s) \in Open \cup {"ended"}
      BY <2>4 DEF GatePhase
    <3> QED
      BY <2>4, <3>1, <3>2
  <2> QED
    BY <2>2, <2>3, <2>4
<1>3. {s \in Sessions : <<s, LaunchRequest>> \in granted}'
        = {s \in Sessions : <<s, LaunchRequest>> \in granted}
  BY <1>1
<1> HIDE DEF runs
<1>4. Gate!End(runs)
  <2>1. \A s \in runs : s \in Sessions /\ GatePhase(s) \in Open
    BY DEF runs
  <2> QED
    BY <1>2, <1>3, <2>1 DEF Gate!End
<1>5. runs \in SUBSET Sessions
  BY DEF runs
<1> QED
  BY <1>4, <1>5 DEF Gate!GateNext

LEMMA StepMapsToGate ==
  ASSUME Typing, LaunchInv, LaunchInv', RequestInv, LaunchIsLate,
         [Next]_vars
  PROVE  [Gate!GateNext]_(Gate!gateVars)
<1>e. CASE BackendEnds
  BY <1>e, EndMapsToGate
<1>1. ASSUME NEW s \in Sessions, Run(s) \/ Throws(s) \/ Start(s)
      PROVE  [Gate!GateNext]_(Gate!gateVars)
  <2>1. LaunchShape(s) /\ LaunchShape(s)'
    BY DEF LaunchInv
  <2> QED
    BY <1>1, <1>e, <2>1, RunMapsToGate
<1>2. ASSUME \/ \E c \in Clients : CheckReply(c)
             \/ \E s \in Sessions, r \in Requests : TimerFires(s, r)
             \/ UNCHANGED vars
      PROVE  [Gate!GateNext]_(Gate!gateVars)
  <2>1. UNCHANGED <<pc, chrome, exit, granted>>
    BY <1>2 DEF CheckReply, TimerFires, vars, runVars, approvalVars
  <2> QED
    BY <2>1, SamePhase, SameConsent, GateStutter
<1> QED
  BY <1>1, <1>2, ReplyMapsToGate, ExpireMapsToGate, OutsideMapsToGate, <1>e
     DEF Next, EventLoop, Outside, Cancelling, Expiry

LEMMA InitMapsToGate == PipelineInit => Gate!GateInit
<1> SUFFICES ASSUME PipelineInit PROVE Gate!GateInit
  OBVIOUS
<1>1. \A s \in Sessions : GatePhase(s) = "deciding"
  BY DEF PipelineInit, GatePhase, Launched, Deciding
<1>2. {s \in Sessions : <<s, LaunchRequest>> \in granted} = {}
  BY DEF PipelineInit
<1> QED
  BY <1>1, <1>2 DEF Gate!GateInit

\* The pipeline, with its requests, timers, racing responses, cancellations
\* and browsers, implements the abstract gate: it launches only a run the
\* gate cleared, once, and never one it refused.
THEOREM PipelineImplementsGate == Spec => ImplementsLaunchGate
<1>1. Spec => [](Typing /\ LaunchInv /\ RequestInv /\ LaunchIsLate)
  <2>1. PipelineInit => Typing /\ LaunchInv /\ RequestInv /\ LaunchIsLate
    BY TypingInit, LaunchInit, RequestInit, LateInit
  <2>2. /\ Typing /\ LaunchInv /\ RequestInv /\ LaunchIsLate
        /\ [Next]_vars
        => (Typing /\ LaunchInv /\ RequestInv /\ LaunchIsLate)'
    BY TypingStep, LaunchStep, RequestStep, LateStep
  <2> QED
    BY <2>1, <2>2, PTL DEF Spec
<1>2. /\ Typing /\ LaunchInv /\ RequestInv /\ LaunchIsLate
      /\ LaunchInv'
      /\ [Next]_vars
      => [Gate!GateNext]_(Gate!gateVars)
  BY StepMapsToGate
<1> QED
  BY <1>1, <1>2, InitMapsToGate, PTL DEF Spec, ImplementsLaunchGate,
     Gate!GateSpec

=============================================================================

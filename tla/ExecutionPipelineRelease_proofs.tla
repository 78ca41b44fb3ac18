------------------ MODULE ExecutionPipelineRelease_proofs ------------------
(***************************************************************************)
(* What a run leaves behind, for any sessions, clients, length of the plan *)
(* and bounds: a held gate has a run that waits, a finished run's session  *)
(* is deleted or left on purpose, no run is verified with a browser nobody *)
(* has begun to close, and COMPLETED is recorded for performed plans only. *)
(* The last part follows the authority's record through the pipeline: what *)
(* was last emitted is current and terminal browser states are final.      *)
(***************************************************************************)
EXTENDS ExecutionPipeline_proofs

Awaiting == {"await_launch", "await_policy", "await_blocker"}

\* A cancellation is under way, or its write failed and it left the session.
Cancels(s) == cancel[s] \in {"closing", "writing", "failed"}

\* FinishedRunIsReleased is not inductive: a run ends early because its session
\* is marked aborting, so it has to be known that only a cancellation marks one,
\* and that it deletes the session when it is done.
ReleaseShape(s) ==
  s \in tracked =>
    /\ session[s].gate = "WAITING_APPROVAL" /\ ~session[s].aborting =>
         pc[s] \in Awaiting
    /\ session[s].aborting => Cancels(s)
    /\ pc[s] = "done" =>
         exit[s] \in {"WORKER_DISPATCHED", "POLICY_FAILED"} \/ Cancels(s)

ReleaseInv == \A s \in Sessions : ReleaseShape(s)

\* The step tracks no session anew, holds no gate, and marks nothing aborting.
Calm(s) ==
  s \in tracked' =>
    /\ s \in tracked
    /\ session'[s].gate = "WAITING_APPROVAL" =>
         session[s].gate = "WAITING_APPROVAL"
    /\ session'[s].aborting = session[s].aborting

LEMMA CalmKeeps ==
  ASSUME NEW s \in Sessions, ReleaseShape(s), Calm(s),
         pc'[s] = pc[s], exit'[s] = exit[s], cancel'[s] = cancel[s]
  PROVE  ReleaseShape(s)'
BY DEF ReleaseShape, Calm, Cancels

\* A run that waits for nothing goes on and is not done.
LEMMA CalmMoves ==
  ASSUME Typing, NEW s \in Sessions, NEW t \in Sessions, ReleaseShape(t), Calm(t),
         pc[s] \notin Awaiting, NEW stage, stage # "done", GoTo(s, stage),
         UNCHANGED <<exit, cancel>>
  PROVE  ReleaseShape(t)'
<1>1. pc'[t] = IF t = s THEN stage ELSE pc[t]
  BY DEF Typing, PipelineTypeOK, GoTo
<1> QED
  BY <1>1 DEF ReleaseShape, Calm, Cancels

\* Calls into the authority that change neither its map nor, for the worse, the
\* gate or the abort mark.
LEMMA PutIsCalm ==
  ASSUME Typing, NEW s \in Sessions, NEW t \in Sessions, NEW mid, NEW new,
         UNCHANGED tracked, Put(s, new) \/ PutTwice(s, mid, new),
         new.gate = "WAITING_APPROVAL" => session[s].gate = "WAITING_APPROVAL",
         new.aborting = session[s].aborting
  PROVE  Calm(t)
BY DEF Typing, PipelineTypeOK, AuthTypeOK, Put, PutTwice, Calm

LEMMA WithBrowserIsCalm ==
  ASSUME Typing, NEW s \in Sessions, NEW t \in Sessions, NEW to \in BrowserStates,
         UNCHANGED tracked, Put(s, WithBrowser(session[s], to))
  PROVE  Calm(t)
<1>1. session[s] \in SessionRecords
  BY DEF Typing, PipelineTypeOK, AuthTypeOK
<1>2. /\ WithBrowser(session[s], to).gate = session[s].gate
      /\ WithBrowser(session[s], to).aborting = session[s].aborting
  BY <1>1, WithBrowserOK
<1> QED
  BY <1>2, PutIsCalm

LEMMA SameIsCalm ==
  ASSUME NEW t \in Sessions, UNCHANGED <<tracked, session>>
  PROVE  Calm(t)
BY DEF Calm

\* Deleting one session is calm for all.
LEMMA UntrackIsCalm ==
  ASSUME Typing, NEW s \in Sessions, NEW t \in Sessions, Untrack(s)
  PROVE  Calm(t) /\ s \notin tracked'
BY DEF Typing, PipelineTypeOK, AuthTypeOK, Untrack, Calm

\* A step that ends a run and deletes its session.
LEMMA UntrackMoves ==
  ASSUME Typing, NEW s \in Sessions, NEW t \in Sessions, ReleaseShape(t),
         Untrack(s), \A u \in Sessions \ {s} :
                       pc'[u] = pc[u] /\ exit'[u] = exit[u] /\ cancel'[u] = cancel[u]
  PROVE  ReleaseShape(t)'
<1>1. CASE t = s
  BY <1>1, UntrackIsCalm DEF ReleaseShape
<1>2. CASE t # s
  BY <1>2, UntrackIsCalm, CalmKeeps
<1> QED
  BY <1>1, <1>2

\* What the listener of a launch request does: the gate is left cleared, or the
\* run ends because its session is aborting.
LEMMA ResumeLaunchReleases ==
  ASSUME Typing, NEW s \in Sessions, NEW t \in Sessions, ReleaseShape(t),
         NEW approved, NEW rec \in SessionRecords,
         rec.gate = "WAITING_APPROVAL" => session[s].gate = "WAITING_APPROVAL",
         rec.aborting = session[s].aborting,
         ResumeLaunch(s, approved, rec), UNCHANGED <<tracked, exit, cancel>>
  PROVE  ReleaseShape(t)'
<1> DEFINE cleared == WithGate(rec, "CLEARED")
           stopped == WithBrowser(cleared, "STOPPED")
<1>1. /\ cleared \in SessionRecords
      /\ cleared.gate = "CLEARED" /\ cleared.aborting = rec.aborting
  BY WithGateOK DEF GateStates
<1>2. stopped.gate = "CLEARED" /\ stopped.aborting = rec.aborting
  BY <1>1, WithBrowserOK DEF BrowserStates
<1>3. \E stage \in {"done", "dispatch", "deny_write"} :
        /\ GoTo(s, stage)
        /\ stage = "done" <=> IsAborting(s)
  BY DEF ResumeLaunch
<1>4. pc'[t] = pc[t] \/ t = s
  BY <1>3 DEF GoTo, Typing, PipelineTypeOK
<1>5. Calm(t)
  <2>1. CASE Put(s, rec)
    BY <2>1, PutIsCalm
  <2>2. CASE Put(s, cleared)
    BY <1>1, <2>2, PutIsCalm
  <2>3. CASE PutTwice(s, cleared, stopped)
    BY <1>2, <2>3, PutIsCalm
  <2> QED
    BY <2>1, <2>2, <2>3 DEF ResumeLaunch
<1>6. CASE t # s
  BY <1>4, <1>5, <1>6, CalmKeeps
<1>7. CASE t = s /\ IsAborting(s)
  BY <1>5, <1>7 DEF IsAborting, ReleaseShape, Calm, Cancels
<1>8. CASE t = s /\ ~IsAborting(s)
  <2>1. pc'[s] # "done"
    BY <1>3, <1>8 DEF GoTo, Typing, PipelineTypeOK
  <2>2. s \in tracked => session'[s].gate = "CLEARED" /\ ~session'[s].aborting
    BY <1>1, <1>2, <1>8
       DEF ResumeLaunch, Put, PutTwice, IsAborting, Typing, PipelineTypeOK,
           AuthTypeOK
  <2> QED
    BY <1>8, <2>1, <2>2 DEF ReleaseShape
<1> QED
  BY <1>6, <1>7, <1>8

LEMMA ResumeReleases ==
  ASSUME Typing, NEW s \in Sessions, NEW t \in Sessions, ReleaseShape(t),
         NEW r, NEW approved, NEW rec \in SessionRecords,
         rec.gate = "WAITING_APPROVAL" => session[s].gate = "WAITING_APPROVAL",
         rec.aborting = session[s].aborting,
         r # LaunchRequest => rec.gate = "CLEARED",
         Resume(s, r, approved, rec), UNCHANGED <<tracked, exit, cancel>>
  PROVE  ReleaseShape(t)'
<1>1. CASE ResumeLaunch(s, approved, rec)
  BY <1>1, ResumeLaunchReleases
<1>2. CASE Put(s, rec) /\ UNCHANGED pc
  BY <1>2, PutIsCalm, CalmKeeps
<1>3. CASE /\ r # LaunchRequest
           /\ Put(s, rec)
           /\ GoTo(s, IF ~approved THEN "replan"
                      ELSE IF pc[s] = "await_policy" THEN "tool" ELSE "progress")
  <2>1. Calm(t)
    BY <1>3, PutIsCalm
  <2>2. CASE t # s
    <3>1. pc'[t] = pc[t]
      BY <1>3, <2>2 DEF GoTo, Typing, PipelineTypeOK
    <3> QED
      BY <2>1, <3>1, CalmKeeps
  <2>3. CASE t = s
    <3>1. pc'[s] # "done"
      BY <1>3 DEF GoTo, Typing, PipelineTypeOK
    <3>2. s \in tracked => session'[s].gate = "CLEARED"
      BY <1>3 DEF Put, Typing, PipelineTypeOK, AuthTypeOK
    <3> QED
      BY <2>1, <2>3, <3>1, <3>2 DEF ReleaseShape, Calm, Cancels
  <2> QED
    BY <2>2, <2>3
<1> QED
  BY <1>1, <1>2, <1>3 DEF Resume

-----------------------------------------------------------------------------

LEMMA ReleaseStep ==
  ASSUME Typing, ReleaseInv, [Next]_vars
  PROVE  ReleaseInv'
<1> SUFFICES ASSUME NEW t \in Sessions PROVE ReleaseShape(t)'
  BY DEF ReleaseInv
<1> USE DEF authVars, runVars, approvalVars, controlVars, streamVars
<1>t. ReleaseShape(t)
  BY DEF ReleaseInv
<1>p. /\ \A u \in Sessions : session[u] \in SessionRecords
      /\ session \in [Sessions -> SessionRecords] /\ tracked \subseteq Sessions
      /\ pc \in [Sessions -> Stages] /\ exit \in [Sessions -> ExitReasons]
      /\ cancel \in [Sessions -> CancelStates]
  BY DEF Typing, PipelineTypeOK, AuthTypeOK
<1>0. ASSUME UNCHANGED <<tracked, session, pc, exit, cancel>> PROVE ReleaseShape(t)'
  BY <1>0, <1>t, SameIsCalm, CalmKeeps
<1>1. ASSUME NEW s \in Sessions,
             \/ Start(s) \/ HoldForClarification(s) \/ StageThrows(s) \/ CallbackThrows(s)
             \/ Iterate(s) \/ CognitivePause(s) \/ RunTool(s) \/ Progress(s)
             \/ Replan(s) \/ StepThrows(s)
      PROVE  ReleaseShape(t)'
  <2>1. UNCHANGED <<tracked, session, exit, cancel>>
    BY <1>1 DEF Start, HoldForClarification, StageThrows, CallbackThrows, Iterate,
       CognitivePause, RunTool, Progress, Replan, StepThrows
  <2>2. pc[s] \notin Awaiting /\ \E stage \in Stages \ {"done"} : GoTo(s, stage)
    BY <1>1 DEF Start, HoldForClarification, StageThrows, CallbackThrows, Iterate,
       CognitiveGate, CognitivePause, BeginStep, LeaveLoop, RunTool, Progress,
       Replan, StepThrows, Awaiting, Stages, Deciding, Executing
  <2> QED
    BY <2>1, <2>2, <1>t, SameIsCalm, CalmMoves
<1>2. ASSUME NEW s \in Sessions, Register(s) PROVE ReleaseShape(t)'
  BY <1>2, <1>t, <1>p DEF Register, Track, NewSession, GoTo, ReleaseShape, Cancels
<1>3. ASSUME NEW s \in Sessions, Clarify(s) PROVE ReleaseShape(t)'
  <2>1. UNCHANGED <<exit, cancel>> /\ pc[s] = "clarify_wait"
    BY <1>3 DEF Clarify
  <2>2. CASE GoTo(s, "planning") /\ UNCHANGED <<tracked, session>>
    BY <2>1, <2>2, <1>t, SameIsCalm, CalmMoves DEF Awaiting
  <2>3. CASE GoTo(s, "done") /\ Untrack(s)
    <3>1. \A u \in Sessions \ {s} : pc'[u] = pc[u]
      BY <1>p, <2>3 DEF GoTo
    <3> QED
      BY <2>1, <2>3, <3>1, <1>t, UntrackMoves
  <2> QED
    BY <1>3, <2>2, <2>3 DEF Clarify
<1>4. ASSUME NEW s \in Sessions,
             DenyLaunch(s) \/ Simulate(s) \/ HandleError(s) \/ VerifyAndReflect(s)
      PROVE  ReleaseShape(t)'
  <2>1. /\ Untrack(s) /\ UNCHANGED cancel
        /\ \A u \in Sessions \ {s} : pc'[u] = pc[u] /\ exit'[u] = exit[u]
    BY <1>4, <1>p
       DEF DenyLaunch, Simulate, HandleError, VerifyAndReflect, Verify, GoTo
  <2> QED
    BY <2>1, <1>t, UntrackMoves
<1>5. ASSUME NEW s \in Sessions, Plan(s) PROVE ReleaseShape(t)'
  <2> DEFINE ready == PlanReady(s)
             clear == GateCleared(s)
  <2>1. /\ ready \in SessionRecords /\ ready.gate = "PLAN_READY"
        /\ ready.aborting = session[s].aborting
    BY <1>p, WithGateOK DEF PlanReady, GateStates
  <2>2. clear.gate = "CLEARED" /\ clear.aborting = session[s].aborting
    BY <2>1, WithGateOK DEF GateCleared, GateStates
  <2>3. Calm(t)
    <3>1. UNCHANGED tracked /\ (Put(s, ready) \/ PutTwice(s, ready, clear))
      BY <1>5 DEF Plan, AutomationGate
    <3>2. CASE Put(s, ready)
      BY <2>1, <3>1, <3>2, PutIsCalm
    <3>3. CASE PutTwice(s, ready, clear)
      BY <2>2, <3>1, <3>3, PutIsCalm
    <3> QED
      BY <3>1, <3>2, <3>3
  <2>4. UNCHANGED <<exit, cancel>> /\ pc[s] = "planning"
    BY <1>5 DEF Plan
  <2>5. \/ \E stage \in {"policy_fail", "launch_create", "simulate", "dispatch"} :
             GoTo(s, stage)
        \/ GoTo(s, "done") /\ IsAborting(s)
    BY <1>5 DEF Plan, AutomationGate
  <2>6. CASE \E stage \in {"policy_fail", "launch_create", "simulate", "dispatch"} :
               GoTo(s, stage)
    BY <2>3, <2>4, <2>6, <1>t, CalmMoves DEF Awaiting
  <2>7. CASE GoTo(s, "done") /\ IsAborting(s)
    BY <1>p, <1>t, <2>3, <2>4, <2>7
       DEF GoTo, IsAborting, ReleaseShape, Calm, Cancels, Awaiting
  <2> QED
    BY <2>5, <2>6, <2>7
<1>6. ASSUME NEW s \in Sessions, FailPolicy(s) PROVE ReleaseShape(t)'
  BY <1>6, <1>t, <1>p DEF FailPolicy, GoTo, ReleaseShape, Cancels, Awaiting
<1>7. ASSUME NEW s \in Sessions, RequestLaunchApproval(s) \/ AskForStep(s)
      PROVE  ReleaseShape(t)'
  <2> DEFINE held == WithGate(session[s], "WAITING_APPROVAL")
  <2>1. held.aborting = session[s].aborting
    BY <1>p, WithGateOK DEF GateStates
  <2>2. /\ UNCHANGED <<tracked, exit, cancel>> /\ Put(s, held)
        /\ \E stage \in Awaiting : GoTo(s, stage)
    BY <1>7 DEF RequestLaunchApproval, AskForStep, Ask, Awaiting
  <2> HIDE DEF held
  <2> QED
    BY <2>1, <2>2, <1>t, <1>p DEF Put, GoTo, ReleaseShape, Cancels, Awaiting
<1>8. ASSUME NEW s \in Sessions, Dispatch(s) PROVE ReleaseShape(t)'
  <2>1. UNCHANGED <<tracked, cancel>> /\ pc[s] = "dispatch"
    BY <1>8 DEF Dispatch
  <2>2. Calm(t)
    <3>1. UNCHANGED session \/ Put(s, WithBrowser(session[s], "INITIALIZING"))
      BY <1>8 DEF Dispatch
    <3> QED
      BY <2>1, <3>1, SameIsCalm, WithBrowserIsCalm DEF BrowserStates
  <2>3. \/ exit' = [exit EXCEPT ![s] = "WORKER_DISPATCHED"] /\ GoTo(s, "done")
        \/ /\ \E stage \in {"error_write", "launching"} : GoTo(s, stage)
           /\ UNCHANGED exit
        \/ GoTo(s, "done") /\ IsAborting(s) /\ UNCHANGED exit
    BY <1>8 DEF Dispatch
  <2>4. CASE exit' = [exit EXCEPT ![s] = "WORKER_DISPATCHED"] /\ GoTo(s, "done")
    BY <1>p, <1>t, <2>1, <2>2, <2>4 DEF GoTo, ReleaseShape, Calm, Cancels, Awaiting
  <2>5. CASE /\ \E stage \in {"error_write", "launching"} : GoTo(s, stage)
             /\ UNCHANGED exit
    BY <2>1, <2>2, <2>5, <1>t, CalmMoves DEF Awaiting
  <2>6. CASE GoTo(s, "done") /\ IsAborting(s) /\ UNCHANGED exit
    BY <1>p, <1>t, <2>1, <2>2, <2>6
       DEF GoTo, IsAborting, ReleaseShape, Calm, Cancels, Awaiting
  <2> QED
    BY <2>3, <2>4, <2>5, <2>6
<1>9. ASSUME NEW s \in Sessions, ChromeUp(s) \/ CloseEnds(s) PROVE ReleaseShape(t)'
  <2>1. /\ UNCHANGED <<tracked, exit, cancel>> /\ pc[s] \notin Awaiting
        /\ GoTo(s, "loop") \/ GoTo(s, "verify")
    BY <1>9 DEF ChromeUp, CloseEnds, Awaiting
  <2>2. \/ UNCHANGED session
        \/ \E to \in BrowserStates : Put(s, WithBrowser(session[s], to))
    BY <1>9 DEF ChromeUp, CloseEnds, BrowserStates
  <2> QED
    BY <2>1, <2>2, <1>t, SameIsCalm, WithBrowserIsCalm, CalmMoves
<1>10. ASSUME NEW c \in Clients, ApplyReply(c) PROVE ReleaseShape(t)'
  <2> DEFINE s == reply[c].session
             r == reply[c].request
             approved == reply[c].verdict = "APPROVED"
             rec == WithGate(session[s], "CLEARED")
  <2>1. s \in Sessions
    BY <1>10 DEF ApplyReply, Typing, PipelineTypeOK, Replies
  <2>2. /\ rec \in SessionRecords /\ rec.gate = "CLEARED"
        /\ rec.aborting = session[s].aborting
    BY <1>p, <2>1, WithGateOK DEF GateStates
  <2>3. Resume(s, r, approved, rec) /\ UNCHANGED <<tracked, exit, cancel>>
    BY <1>10 DEF ApplyReply
  <2> HIDE DEF s, r, approved, rec
  <2> QED
    BY <2>1, <2>2, <2>3, <1>t, ResumeReleases
<1>11. ASSUME NEW s \in Sessions, NEW r \in Requests, Expire(s, r)
       PROVE  ReleaseShape(t)'
  <2>1. UNCHANGED <<tracked, exit, cancel>>
    BY <1>11 DEF Expire
  <2>2. CASE r = LaunchRequest
    <3>1. Resume(s, r, FALSE, session[s])
      BY <1>11, <2>2 DEF Expire
    <3> QED
      BY <2>1, <2>2, <3>1, <1>t, <1>p, ResumeReleases
  <2>3. CASE r # LaunchRequest
    BY <1>11, <2>1, <2>3, <1>0 DEF Expire
  <2> QED
    BY <2>2, <2>3
<1>12. ASSUME NEW s \in Sessions, CancelBegins(s) PROVE ReleaseShape(t)'
  <2> DEFINE aborting == [session[s] EXCEPT !.aborting = TRUE]
  <2>1. /\ aborting \in SessionRecords /\ aborting.gate = session[s].gate
        /\ aborting.aborting
    BY <1>p DEF SessionRecords
  <2>2. WithBrowser(aborting, "STOPPED").aborting
    BY <2>1, WithBrowserOK DEF BrowserStates
  <2>3. /\ UNCHANGED <<tracked, pc, exit>>
        /\ \/ Put(s, aborting) /\ cancel' = [cancel EXCEPT ![s] = "closing"]
           \/ /\ Put(s, WithBrowser(aborting, "STOPPED"))
              /\ cancel' = [cancel EXCEPT ![s] = "writing"]
    BY <1>12 DEF CancelBegins
  <2> HIDE DEF aborting
  <2> QED
    BY <2>2, <2>1, <2>3, <1>t, <1>p DEF Put, ReleaseShape, Cancels
<1>13. ASSUME NEW s \in Sessions, CancelCloses(s) PROVE ReleaseShape(t)'
  <2>1. /\ UNCHANGED <<tracked, pc, exit>> /\ cancel[s] = "closing"
        /\ cancel' = [cancel EXCEPT ![s] = "writing"]
        /\ Put(s, WithBrowser(session[s], "STOPPED"))
    BY <1>13 DEF CancelCloses
  <2>2. Calm(t)
    BY <2>1, WithBrowserIsCalm DEF BrowserStates
  <2> QED
    BY <2>1, <2>2, <1>t, <1>p DEF Calm, ReleaseShape, Cancels
<1>14. ASSUME NEW s \in Sessions, CancelWrites(s) PROVE ReleaseShape(t)'
  <2>1. CASE Untrack(s) /\ cancel' = [cancel EXCEPT ![s] = "done"]
    BY <1>14, <1>p, <1>t, <2>1, UntrackMoves DEF CancelWrites
  <2>2. CASE cancel' = [cancel EXCEPT ![s] = "failed"] /\ UNCHANGED <<tracked, session>>
    BY <1>14, <1>p, <1>t, <2>2 DEF CancelWrites, ReleaseShape, Cancels
  <2> QED
    BY <1>14, <2>1, <2>2 DEF CancelWrites
<1>15. ASSUME NEW s \in Sessions, Pause(s) \/ ResumeExecution(s) \/ FrameArrives(s)
       PROVE  ReleaseShape(t)'
  <2>1. UNCHANGED <<tracked, pc, exit, cancel>>
    BY <1>15 DEF Pause, ResumeExecution, FrameArrives
  <2>2. \/ UNCHANGED session \/ Put(s, session[s])
        \/ \E to \in BrowserStates : Put(s, WithBrowser(session[s], to))
    BY <1>15 DEF Pause, ResumeExecution, FrameArrives, BrowserStates
  <2>3. Calm(t)
    BY <2>1, <2>2, SameIsCalm, PutIsCalm, WithBrowserIsCalm
  <2> QED
    BY <2>1, <2>3, <1>t, CalmKeeps
<1>16. ASSUME NEW s \in Sessions, TakeFrame(s) \/ StatusLands(s) \/ Interrupt(s)
       PROVE  ReleaseShape(t)'
  BY <1>16, <1>0 DEF TakeFrame, StatusLands, UpdateLands, Interrupt
<1>17. ASSUME NEW s \in Sessions, NEW r \in Requests, TimerFires(s, r)
       PROVE  ReleaseShape(t)'
  BY <1>17, <1>0 DEF TimerFires
<1>18. ASSUME NEW c \in Clients, CheckReply(c) PROVE ReleaseShape(t)'
  BY <1>18, <1>0 DEF CheckReply
<1>19. CASE UNCHANGED vars
  BY <1>19, <1>0 DEF vars
<1>e. CASE BackendEnds
  BY <1>e DEF BackendEnds, ReleaseShape
<1> QED
  BY <1>1, <1>2, <1>3, <1>4, <1>5, <1>6, <1>7, <1>8, <1>9, <1>10, <1>11,
     <1>12, <1>13, <1>14, <1>15, <1>16, <1>17, <1>18, <1>19, <1>e
     DEF Next, EventLoop, Outside, Run, Throws, Cancelling, Expiry,
         PollThrows

LEMMA ReleaseInvariant == Spec => []ReleaseInv
<1>1. PipelineInit => ReleaseInv
  BY DEF PipelineInit, ReleaseInv, ReleaseShape
<1>2. Typing /\ ReleaseInv /\ [Next]_vars => ReleaseInv'
  BY ReleaseStep
<1> QED
  BY <1>1, <1>2, TypingInvariant, PTL DEF Spec

\* A session that shows WAITING_APPROVAL has a run that waits for it.
THEOREM PipelineHeldGate == Spec => []HeldGateHasWaiter
<1>1. Typing /\ ReleaseInv => HeldGateHasWaiter
  BY DEF Typing, PipelineTypeOK, AuthTypeOK, ReleaseInv, ReleaseShape, Awaiting,
         HeldGateHasWaiter
<1> QED
  BY <1>1, ReleaseInvariant, TypingInvariant, PTL

\* A finished run's session was deleted, by the run or by its cancellation, or is
\* one that the code leaves.
THEOREM PipelineReleased == Spec => []FinishedRunIsReleased
<1>1. Typing /\ ReleaseInv => FinishedRunIsReleased
  BY DEF Typing, PipelineTypeOK, AuthTypeOK, ReleaseInv, ReleaseShape, Cancels,
         FinishedRunIsReleased
<1> QED
  BY <1>1, ReleaseInvariant, TypingInvariant, PTL

-----------------------------------------------------------------------------
(* The browser of the step loop. *)

InLoop == InStep \cup {"loop"}

\* A run in its loop has launched; one that left it has begun to close.
BrowserShape(s) ==
  /\ pc[s] \in InLoop => chrome[s] \in {"open", "closing", "closed"}
  /\ pc[s] \in {"closing", "verify"} => chrome[s] \in {"closing", "closed"}

BrowserInv == \A s \in Sessions : BrowserShape(s)

LEMMA BrowserStays ==
  ASSUME NEW t \in Sessions, BrowserShape(t), pc'[t] = pc[t],
         chrome'[t] = chrome[t] \/ chrome'[t] \in {"closing", "closed"}
  PROVE  BrowserShape(t)'
BY DEF BrowserShape

\* Leaving the loop closes the browser, or finds it closed.
LEMMA LeaveLoopCloses ==
  ASSUME Typing, NEW s \in Sessions, NEW t \in Sessions, BrowserShape(t),
         pc[s] \in InLoop, LeaveLoop(s)
  PROVE  BrowserShape(t)'
BY DEF Typing, PipelineTypeOK, BrowserShape, LeaveLoop, HasEntry, GoTo, InLoop,
       InStep

\* A run that goes on inside the loop, or goes elsewhere than to its end.
LEMMA BrowserMoves ==
  ASSUME Typing, NEW s \in Sessions, NEW t \in Sessions, BrowserShape(t),
         NEW stage, GoTo(s, stage), stage \notin {"closing", "verify"},
         stage \in InLoop => pc[s] \in InLoop, UNCHANGED chrome
  PROVE  BrowserShape(t)'
BY DEF Typing, PipelineTypeOK, BrowserShape, GoTo, InLoop, InStep

LEMMA ResumeKeepsBrowser ==
  ASSUME Typing, NEW s \in Sessions, NEW t \in Sessions, BrowserShape(t),
         NEW r, NEW approved, NEW rec, Resume(s, r, approved, rec),
         UNCHANGED chrome
  PROVE  BrowserShape(t)'
<1>1. CASE UNCHANGED pc
  BY <1>1, BrowserStays
<1>2. CASE \E stage \in {"done", "dispatch", "deny_write"} : GoTo(s, stage)
  BY <1>2, BrowserMoves DEF InLoop, InStep
<1>3. CASE /\ pc[s] \in {"await_policy", "await_blocker"}
           /\ \E stage \in {"replan", "tool", "progress"} : GoTo(s, stage)
  BY <1>3, BrowserMoves DEF InLoop, InStep
<1> QED
  BY <1>1, <1>2, <1>3 DEF Resume, ResumeLaunch, Waits

LEMMA BrowserStep ==
  ASSUME Typing, BrowserInv, [Next]_vars
  PROVE  BrowserInv'
<1> SUFFICES ASSUME NEW t \in Sessions PROVE BrowserShape(t)'
  BY DEF BrowserInv
<1> USE DEF runVars, approvalVars, controlVars, streamVars
<1>t. BrowserShape(t)
  BY DEF BrowserInv
<1>p. pc \in [Sessions -> Stages] /\ chrome \in [Sessions -> ChromeStates]
  BY DEF Typing, PipelineTypeOK
<1>0. ASSUME UNCHANGED <<pc, chrome>> PROVE BrowserShape(t)'
  BY <1>0, <1>t, BrowserStays
<1>1. ASSUME NEW s \in Sessions,
             \/ Start(s) \/ Register(s) \/ HoldForClarification(s) \/ Clarify(s)
             \/ Plan(s) \/ FailPolicy(s) \/ RequestLaunchApproval(s)
             \/ DenyLaunch(s) \/ Simulate(s) \/ HandleError(s)
             \/ VerifyAndReflect(s)
      PROVE  BrowserShape(t)'
  <2>1. UNCHANGED chrome
    BY <1>1 DEF Start, Register, HoldForClarification, Clarify, Plan, FailPolicy,
       RequestLaunchApproval, DenyLaunch, Simulate, HandleError, VerifyAndReflect
  <2>2. \E stage \in {"starting", "clarify_hold", "clarify_wait", "planning",
                      "launch_create", "simulate", "done", "dispatch",
                      "policy_fail", "await_launch"} : GoTo(s, stage)
    BY <1>1 DEF Start, Register, HoldForClarification, Clarify, Plan,
       AutomationGate, FailPolicy, RequestLaunchApproval, DenyLaunch, Simulate,
       HandleError, VerifyAndReflect
  <2> QED
    BY <2>1, <2>2, <1>t, BrowserMoves DEF InLoop, InStep
<1>2. ASSUME NEW s \in Sessions, StageThrows(s) \/ CallbackThrows(s) \/ Dispatch(s)
      PROVE  BrowserShape(t)'
  BY <1>2, <1>t, <1>p DEF StageThrows, CallbackThrows, Dispatch, BrowserShape, GoTo, InLoop, InStep
<1>3. ASSUME NEW s \in Sessions, ChromeUp(s) \/ CloseEnds(s)
      PROVE  BrowserShape(t)'
  BY <1>3, <1>t, <1>p DEF ChromeUp, CloseEnds, BrowserShape, GoTo, InLoop, InStep
<1>4. ASSUME NEW s \in Sessions,
             Iterate(s) \/ CognitivePause(s) \/ Replan(s) \/ StepThrows(s)
      PROVE  BrowserShape(t)'
  <2>1. pc[s] \in InLoop
    BY <1>4 DEF Iterate, CognitivePause, Replan, StepThrows, InLoop, InStep
  <2>2. \/ LeaveLoop(s)
        \/ /\ UNCHANGED chrome
           /\ \E stage \in {"cognitive_pause", "replan", "ask_policy", "tool",
                            "loop"} : GoTo(s, stage)
    BY <1>4 DEF Iterate, CognitiveGate, CognitivePause, BeginStep, Replan,
       StepThrows
  <2> QED
    BY <2>1, <2>2, <1>t, LeaveLoopCloses, BrowserMoves
<1>5. ASSUME NEW s \in Sessions, AskForStep(s) \/ RunTool(s) \/ Progress(s)
      PROVE  BrowserShape(t)'
  <2>1. /\ UNCHANGED chrome /\ pc[s] \in InLoop
        /\ \E stage \in {"await_policy", "await_blocker", "replan",
                         "ask_blocker", "progress", "loop"} : GoTo(s, stage)
    BY <1>5 DEF AskForStep, RunTool, Progress, InLoop, InStep
  <2> QED
    BY <2>1, <1>t, BrowserMoves
<1>6. ASSUME NEW c \in Clients, ApplyReply(c) PROVE BrowserShape(t)'
  <2>1. reply[c].session \in Sessions
    BY <1>6 DEF ApplyReply, Typing, PipelineTypeOK, Replies
  <2> QED
    BY <1>6, <2>1, <1>t, ResumeKeepsBrowser DEF ApplyReply
<1>7. ASSUME NEW s \in Sessions, NEW r \in Requests, Expire(s, r)
      PROVE  BrowserShape(t)'
  BY <1>7, <1>0, <1>t, ResumeKeepsBrowser DEF Expire
<1>8. ASSUME NEW s \in Sessions, CancelBegins(s) \/ CancelCloses(s)
      PROVE  BrowserShape(t)'
  <2>1. UNCHANGED pc /\ chrome'[t] \in {chrome[t], "closing", "closed"}
    BY <1>8, <1>p DEF CancelBegins, CancelCloses
  <2> QED
    BY <2>1, <1>t, BrowserStays
<1>9. ASSUME NEW s \in Sessions,
             \/ CancelWrites(s) \/ Pause(s) \/ ResumeExecution(s) \/ Interrupt(s)
             \/ TakeFrame(s) \/ FrameArrives(s) \/ StatusLands(s)
             \/ \E r \in Requests : TimerFires(s, r)
      PROVE  BrowserShape(t)'
  BY <1>9, <1>0 DEF CancelWrites, Pause, ResumeExecution, Interrupt, TakeFrame,
     FrameArrives, StatusLands, TimerFires
<1>10. ASSUME NEW c \in Clients, CheckReply(c) PROVE BrowserShape(t)'
  BY <1>10, <1>0 DEF CheckReply
<1>11. CASE UNCHANGED vars
  BY <1>11, <1>0 DEF vars
<1>e. CASE BackendEnds
  BY <1>e, <1>t, <1>p DEF BackendEnds, BrowserShape, InLoop, InStep
<1>12. CASE EventLoop
  BY <1>12, <1>1, <1>2, <1>3, <1>4, <1>5, <1>6, <1>7, <1>8, <1>9, <1>e
     DEF EventLoop, Run, Cancelling, Expiry, PollThrows
<1>13. CASE Outside
  BY <1>13, <1>1, <1>2, <1>4, <1>8, <1>9, <1>10, <1>e DEF Outside, Throws
<1> QED
  BY <1>11, <1>12, <1>13 DEF Next

\* No run goes on to its verification with a browser nobody has begun to close,
\* however the cancellation closes beside the loop.
THEOREM PipelineClosesBrowser == Spec => []LoopClosesBrowser
<1>1. PipelineInit => BrowserInv
  <2>1. ASSUME PipelineInit, NEW s \in Sessions
        PROVE  pc[s] = "new" /\ chrome[s] = "none"
    BY <2>1 DEF PipelineInit
  <2> QED
    BY <2>1 DEF BrowserInv, BrowserShape, InLoop, InStep
<1>2. Typing /\ BrowserInv /\ [Next]_vars => BrowserInv'
  BY BrowserStep
<1>3. BrowserInv => LoopClosesBrowser
  BY DEF BrowserInv, BrowserShape, LoopClosesBrowser
<1> QED
  BY <1>1, <1>2, <1>3, TypingInvariant, PTL DEF Spec

-----------------------------------------------------------------------------
(* The status COMPLETED. *)

Ending == {"closing", "verify", "error_write", "done", "lost"}

\* What the run has done of its plan as long as nothing has failed; the rest says
\* why a record written once stays true.
EarnedShape(s) ==
  /\ pc[s] \notin InLoop \cup Ending => step[s] = 1
  /\ pc[s] = "replan" => ~ok[s]
  /\ pc[s] \in InLoop /\ ok[s] => 1..(step[s] - 1) \subseteq performed[s]
  /\ pc[s] \in {"closing", "verify"} /\ ok[s] =>
       performed[s] = 1..Steps \/ cancel[s] # "idle"
  /\ exit[s] = "SIMULATION_COMPLETED" => pc[s] = "done"
  /\ db[s] = "COMPLETED" /\ exit[s] # "SIMULATION_COMPLETED" =>
       performed[s] = 1..Steps \/ cancel[s] # "idle"

EarnedInv == \A s \in Sessions : EarnedShape(s)

EarnedTypes ==
  /\ pc \in [Sessions -> Stages] /\ step \in [Sessions -> 1..(Steps + 1)]
  /\ ok \in [Sessions -> BOOLEAN] /\ exit \in [Sessions -> ExitReasons]
  /\ performed \in [Sessions -> SUBSET (1..Steps)]
  /\ db \in [Sessions -> DbStatuses] /\ cancel \in [Sessions -> CancelStates]
  /\ StepInRange

LEMMA EarnedTyping == Typing => EarnedTypes
BY DEF Typing, PipelineTypeOK, AuthTypeOK, EarnedTypes

\* Nothing but the row and the cancellation of a session changes, and neither is
\* taken back.
LEMMA EarnedStays ==
  ASSUME NEW t \in Sessions, EarnedShape(t),
         UNCHANGED <<pc, step, ok, exit, performed>>,
         db'[t] = db[t] \/ db'[t] # "COMPLETED",
         cancel'[t] = cancel[t] \/ cancel'[t] # "idle"
  PROVE  EarnedShape(t)'
BY DEF EarnedShape

\* The run moves on without having done or failed anything.
LEMMA EarnedMoves ==
  ASSUME EarnedTypes, NEW s \in Sessions, NEW t \in Sessions, EarnedShape(t),
         NEW stage, GoTo(s, stage), UNCHANGED <<step, ok, performed, exit, cancel>>,
         db'[t] = db[t] \/ db'[t] # "COMPLETED",
         pc[s] # "done", stage \notin {"closing", "verify"},
         stage = "replan" => ~ok[s],
         stage \notin InLoop \cup Ending => pc[s] \notin InLoop \cup Ending,
         stage \in InLoop => pc[s] \in InLoop \/ pc[s] \notin Ending
  PROVE  EarnedShape(t)'
<1>1. pc'[t] = IF t = s THEN stage ELSE pc[t]
  BY DEF EarnedTypes, GoTo
<1>2. CASE t # s
  BY <1>1, <1>2 DEF EarnedShape
<1>3. CASE t = s /\ stage \notin InLoop
  BY <1>1, <1>3 DEF EarnedShape, InLoop, InStep
<1>4. CASE t = s /\ stage \in InLoop /\ pc[s] \in InLoop
  BY <1>1, <1>4 DEF EarnedShape, Ending, InLoop, InStep
<1>5. CASE t = s /\ stage \in InLoop /\ pc[s] \notin InLoop
  <2>1. 1..(step[s] - 1) = {}
    BY <1>5 DEF EarnedShape
  <2> QED
    BY <1>1, <1>5, <2>1 DEF EarnedShape, Ending, InLoop, InStep
<1> QED
  BY <1>2, <1>3, <1>4, <1>5

\* The run leaves the loop: something failed, all is done, or it was cancelled.
LEMMA EarnedLeaves ==
  ASSUME EarnedTypes, NEW s \in Sessions, NEW t \in Sessions, EarnedShape(t),
         pc[s] \in InLoop, LeaveLoop(s),
         UNCHANGED <<step, performed, exit, cancel, db>>,
         \A u \in Sessions \ {s} : ok'[u] = ok[u],
         ok'[s] => performed[s] = 1..Steps \/ cancel[s] # "idle"
  PROVE  EarnedShape(t)'
<1>1. /\ \A u \in Sessions \ {s} : pc'[u] = pc[u]
      /\ pc'[s] \in {"closing", "verify"}
  BY DEF EarnedTypes, LeaveLoop, GoTo
<1>2. CASE t # s
  BY <1>1, <1>2 DEF EarnedShape
<1>3. CASE t = s
  BY <1>1, <1>3 DEF EarnedShape, Ending, InLoop, InStep
<1> QED
  BY <1>2, <1>3

\* A step fails: the run replans, or goes to its end, with the failure noted.
LEMMA EarnedFails ==
  ASSUME EarnedTypes, NEW s \in Sessions, NEW t \in Sessions, EarnedShape(t),
         pc[s] \in InLoop, GoTo(s, "replan"), ok' = [ok EXCEPT ![s] = FALSE],
         UNCHANGED <<step, performed, exit, cancel, db>>
  PROVE  EarnedShape(t)'
BY DEF EarnedTypes, EarnedShape, GoTo, Ending, InLoop, InStep

LEMMA ResumeEarns ==
  ASSUME EarnedTypes, NEW s \in Sessions, NEW t \in Sessions, EarnedShape(t),
         NEW r, NEW approved \in BOOLEAN, NEW rec, Resume(s, r, approved, rec),
         UNCHANGED <<step, performed, exit, cancel, db>>
  PROVE  EarnedShape(t)'
<1>1. CASE UNCHANGED <<pc, ok>>
  BY <1>1, EarnedStays
<1>2. CASE /\ pc[s] = "await_launch" /\ UNCHANGED ok
           /\ \E stage \in {"done", "dispatch", "deny_write"} : GoTo(s, stage)
  BY <1>2, EarnedMoves DEF Ending, InLoop, InStep
<1>3. CASE /\ pc[s] \in {"await_policy", "await_blocker"}
           /\ GoTo(s, IF ~approved THEN "replan"
                      ELSE IF pc[s] = "await_policy" THEN "tool" ELSE "progress")
           /\ ok' = [ok EXCEPT ![s] = @ /\ approved]
  <2>1. pc[s] \in InLoop
    BY <1>3 DEF InLoop, InStep
  <2>2. CASE approved
    <3>1. UNCHANGED ok
      BY <1>3, <2>2 DEF EarnedTypes
    <3> QED
      BY <1>3, <2>1, <2>2, <3>1, EarnedMoves DEF Ending, InLoop, InStep
  <2>3. CASE ~approved
    <3>1. ok' = [ok EXCEPT ![s] = FALSE]
      BY <1>3, <2>3
    <3> QED
      BY <1>3, <2>1, <2>3, <3>1, EarnedFails
  <2> QED
    BY <2>2, <2>3
<1> QED
  BY <1>1, <1>2, <1>3 DEF Resume, ResumeLaunch, Waits, LaunchRequest

LEMMA EarnedStep ==
  ASSUME Typing, ReleaseInv, EarnedInv, [Next]_vars
  PROVE  EarnedInv'
<1> SUFFICES ASSUME NEW t \in Sessions PROVE EarnedShape(t)'
  BY DEF EarnedInv
<1> USE DEF runVars, approvalVars, controlVars, streamVars, authVars
<1>t. /\ EarnedShape(t) /\ EarnedTypes /\ \A s \in Sessions : EarnedShape(s)
      /\ "COMPLETED" \notin LiveStatuses
  BY EarnedTyping DEF EarnedInv, LiveStatuses
<1>a. ASSUME NEW s \in Sessions, IsAborting(s) PROVE cancel[s] # "idle"
  BY <1>a DEF IsAborting, ReleaseInv, ReleaseShape, Cancels
<1>0. ASSUME UNCHANGED <<pc, step, ok, exit, performed, db, cancel>>
      PROVE  EarnedShape(t)'
  BY <1>0, <1>t, EarnedStays
<1>1. ASSUME NEW s \in Sessions,
             \/ Start(s) \/ Register(s) \/ HoldForClarification(s) \/ Clarify(s)
             \/ Plan(s) \/ RequestLaunchApproval(s)
      PROVE  EarnedShape(t)'
  <2>1. /\ UNCHANGED <<step, ok, performed, exit, cancel>>
        /\ pc[s] \in {"new", "starting", "clarify_hold", "clarify_wait",
                      "planning", "launch_create"}
        /\ \E stage \in {"starting", "clarify_hold", "clarify_wait", "planning",
                         "policy_fail", "launch_create", "simulate", "done",
                         "dispatch", "await_launch"} : GoTo(s, stage)
        /\ db'[t] = db[t] \/ db'[t] # "COMPLETED"
    BY <1>1, <1>t
       DEF Start, Register, HoldForClarification, Clarify, Plan, AutomationGate,
           RequestLaunchApproval, Write, EarnedTypes
  <2> QED
    BY <2>1, <1>t, EarnedMoves DEF Ending, InLoop, InStep
<1>2. ASSUME NEW s \in Sessions, FailPolicy(s) \/ DenyLaunch(s) \/ Simulate(s)
      PROVE  EarnedShape(t)'
  BY <1>2, <1>t DEF FailPolicy, DenyLaunch, Simulate, Write, GoTo, EarnedTypes,
     EarnedShape, Ending, InLoop, InStep
<1>3. ASSUME NEW s \in Sessions, StageThrows(s) \/ CallbackThrows(s) \/ HandleError(s)
      PROVE  EarnedShape(t)'
  <2>1. /\ UNCHANGED <<step, ok, performed, exit, cancel>>
        /\ pc[s] # "done"
        /\ GoTo(s, "error_write") \/ GoTo(s, "done") \/ GoTo(s, "lost")
        /\ db'[t] = db[t] \/ db'[t] # "COMPLETED"
    BY <1>3, <1>t DEF StageThrows, CallbackThrows, HandleError, EarnedTypes
  <2> QED
    BY <2>1, <1>t, EarnedMoves DEF Ending, InLoop, InStep
<1>4. ASSUME NEW s \in Sessions, Dispatch(s) PROVE EarnedShape(t)'
  BY <1>4, <1>t DEF Dispatch, GoTo, EarnedTypes, EarnedShape, Ending, InLoop, InStep
<1>5. ASSUME NEW s \in Sessions, ChromeUp(s) \/ CloseEnds(s)
      PROVE  EarnedShape(t)'
  <2>1. CASE ChromeUp(s)
    <3>1. /\ UNCHANGED <<step, ok, performed, exit, cancel, db>>
          /\ pc[s] = "launching" /\ GoTo(s, "loop")
      BY <2>1 DEF ChromeUp
    <3> QED
      BY <3>1, <1>t, EarnedMoves DEF Ending, InLoop, InStep
  <2>2. CASE CloseEnds(s)
    BY <2>2, <1>t DEF CloseEnds, GoTo, EarnedTypes, EarnedShape, Ending, InLoop,
       InStep
  <2> QED
    BY <1>5, <2>1, <2>2
<1>6. ASSUME NEW s \in Sessions, Iterate(s) \/ CognitivePause(s)
      PROVE  EarnedShape(t)'
  <2>1. /\ UNCHANGED <<step, performed, exit, cancel>> /\ pc[s] \in InLoop
        /\ pc[s] # "done"
    BY <1>6 DEF Iterate, CognitivePause, InLoop, InStep
  <2>2. \/ BeginStep(s) /\ UNCHANGED db
        \/ Write(s, "PAUSED") /\ GoTo(s, "cognitive_pause") /\ UNCHANGED ok
        \/ LeaveLoop(s) /\ ok' = [ok EXCEPT ![s] = FALSE] /\ UNCHANGED db
        \/ /\ LeaveLoop(s) /\ UNCHANGED <<ok, db>> /\ pc[s] = "loop"
           /\ step[s] > Steps \/ IsAborting(s)
    BY <1>6 DEF Iterate, CognitiveGate, CognitivePause
  <2>3. CASE BeginStep(s) /\ UNCHANGED db
    BY <2>1, <2>3, <1>t, EarnedMoves, EarnedFails
       DEF BeginStep, Ending, InLoop, InStep
  <2>4. CASE Write(s, "PAUSED") /\ GoTo(s, "cognitive_pause") /\ UNCHANGED ok
    <3>1. db'[t] = db[t] \/ db'[t] # "COMPLETED"
      BY <2>4, <1>t DEF Write, EarnedTypes
    <3> QED
      BY <2>1, <2>4, <3>1, <1>t, EarnedMoves DEF Ending, InLoop, InStep
  <2>5. CASE LeaveLoop(s) /\ ok' = [ok EXCEPT ![s] = FALSE] /\ UNCHANGED db
    BY <2>1, <2>5, <1>t, EarnedLeaves DEF EarnedTypes
  <2>6. CASE /\ LeaveLoop(s) /\ UNCHANGED <<ok, db>> /\ pc[s] = "loop"
             /\ step[s] > Steps \/ IsAborting(s)
    <3>1. ok[s] => performed[s] = 1..Steps \/ cancel[s] # "idle"
      <4>1. CASE IsAborting(s)
        BY <4>1, <1>a
      <4>2. CASE step[s] > Steps /\ ok[s]
        <5>1. step[s] = Steps + 1
          BY <4>2, <1>t, StepsAssumption DEF EarnedTypes
        <5>2. step[s] - 1 = Steps
          BY <5>1, StepsAssumption
        <5>3. 1..Steps \subseteq performed[s]
          BY <4>2, <5>2, <2>1, <1>t DEF EarnedShape
        <5> QED
          BY <5>3, <1>t DEF EarnedTypes
      <4> QED
        BY <2>6, <4>1, <4>2
    <3> QED
      BY <2>1, <2>6, <3>1, <1>t, EarnedLeaves
  <2> QED
    BY <2>2, <2>3, <2>4, <2>5, <2>6
<1>7. ASSUME NEW s \in Sessions, AskForStep(s) PROVE EarnedShape(t)'
  <2>1. /\ UNCHANGED <<step, ok, performed, exit, cancel, db>>
        /\ pc[s] \in {"ask_policy", "ask_blocker"}
        /\ GoTo(s, "await_policy") \/ GoTo(s, "await_blocker")
    BY <1>7 DEF AskForStep
  <2> QED
    BY <2>1, <1>t, EarnedMoves DEF Ending, InLoop, InStep
<1>8. ASSUME NEW s \in Sessions, RunTool(s) PROVE EarnedShape(t)'
  <2>1. /\ UNCHANGED <<step, performed, exit, cancel, db>> /\ pc[s] = "tool"
        /\ \/ GoTo(s, "replan") /\ ok' = [ok EXCEPT ![s] = FALSE]
           \/ /\ GoTo(s, "ask_blocker") \/ GoTo(s, "progress")
              /\ UNCHANGED ok
    BY <1>8 DEF RunTool
  <2> QED
    BY <2>1, <1>t, EarnedMoves, EarnedFails DEF Ending, InLoop, InStep
<1>9. ASSUME NEW s \in Sessions, Progress(s) PROVE EarnedShape(t)'
  <2>1. step[s] \in 1..Steps
    BY <1>9, <1>t DEF Progress, EarnedTypes, StepInRange, InStep
  <2>2. CASE t # s
    BY <1>9, <2>2, <1>t DEF Progress, GoTo, EarnedTypes, EarnedShape
  <2>3. CASE t = s
    <3>1. /\ pc'[s] = "loop" /\ step'[s] = step[s] + 1
          /\ performed'[s] = performed[s] \cup {step[s]}
          /\ UNCHANGED <<ok, exit, db, cancel>> /\ pc[s] = "progress"
      BY <1>9, <1>t DEF Progress, GoTo, EarnedTypes
    <3>2. 1..(step'[s] - 1) = (1..(step[s] - 1)) \cup {step[s]}
      BY <2>1, <3>1, StepsAssumption
    <3>3. performed[s] = 1..Steps => performed'[s] = 1..Steps
      BY <2>1, <3>1
    <3> QED
      BY <2>3, <3>1, <3>2, <3>3, <1>t DEF EarnedShape, Ending, InLoop, InStep
  <2> QED
    BY <2>2, <2>3
<1>10. ASSUME NEW s \in Sessions, Replan(s) PROVE EarnedShape(t)'
  <2>1. /\ UNCHANGED <<ok, performed, exit, cancel, db>> /\ pc[s] = "replan"
        /\ ~ok[s]
    BY <1>10, <1>t DEF Replan, EarnedShape
  <2>2. CASE step' = [step EXCEPT ![s] = @ + 1] /\ GoTo(s, "loop")
    BY <2>1, <2>2, <1>t DEF GoTo, EarnedTypes, EarnedShape, Ending, InLoop, InStep
  <2>3. CASE LeaveLoop(s) /\ UNCHANGED step
    BY <2>1, <2>3, <1>t, EarnedLeaves DEF InLoop, InStep
  <2> QED
    BY <1>10, <2>2, <2>3 DEF Replan
<1>11. ASSUME NEW s \in Sessions, StepThrows(s) PROVE EarnedShape(t)'
  <2>1. /\ UNCHANGED <<step, performed, exit, cancel, db>>
        /\ LeaveLoop(s) /\ pc[s] \in InLoop /\ ok' = [ok EXCEPT ![s] = FALSE]
    BY <1>11 DEF StepThrows, InLoop, InStep
  <2> QED
    BY <2>1, <1>t, EarnedLeaves DEF EarnedTypes
<1>12. ASSUME NEW s \in Sessions, VerifyAndReflect(s) PROVE EarnedShape(t)'
  <2>1. /\ UNCHANGED <<step, performed, exit, cancel>> /\ pc[s] = "verify"
        /\ GoTo(s, "done")
        /\ ok' \in {ok, [ok EXCEPT ![s] = FALSE]}
        /\ Write(s, IF ok'[s] THEN "COMPLETED" ELSE "FAILED")
    BY <1>12 DEF VerifyAndReflect, Verify
  <2>2. CASE t # s
    BY <2>1, <2>2, <1>t DEF Write, GoTo, EarnedTypes, EarnedShape
  <2>3. CASE t = s
    <3>1. /\ pc'[s] = "done"
          /\ ok'[s] => ok[s]
          /\ db'[s] = "COMPLETED" => ok'[s]
      BY <2>1, <1>t DEF Write, GoTo, EarnedTypes
    <3> QED
      BY <2>1, <2>3, <3>1, <1>t DEF EarnedShape, Ending, InLoop, InStep
  <2> QED
    BY <2>2, <2>3
<1>13. ASSUME NEW c \in Clients, ApplyReply(c) PROVE EarnedShape(t)'
  <2>1. reply[c].session \in Sessions
    BY <1>13 DEF ApplyReply, Typing, PipelineTypeOK, Replies
  <2>2. (reply[c].verdict = "APPROVED") \in BOOLEAN
    OBVIOUS
  <2> QED
    BY <1>13, <2>1, <2>2, <1>t, ResumeEarns DEF ApplyReply
<1>14. ASSUME NEW s \in Sessions, NEW r \in Requests, Expire(s, r)
       PROVE  EarnedShape(t)'
  BY <1>14, <1>0, <1>t, ResumeEarns DEF Expire
<1>15. ASSUME NEW s \in Sessions,
              CancelBegins(s) \/ CancelCloses(s) \/ CancelWrites(s)
       PROVE  EarnedShape(t)'
  <2>1. /\ UNCHANGED <<pc, step, ok, exit, performed>>
        /\ db'[t] = db[t] \/ db'[t] # "COMPLETED"
        /\ cancel'[t] = cancel[t] \/ cancel'[t] # "idle"
    BY <1>15, <1>t DEF CancelBegins, CancelCloses, CancelWrites, Write, EarnedTypes
  <2> QED
    BY <2>1, <1>t, EarnedStays
<1>16. ASSUME NEW s \in Sessions, Interrupt(s) \/ StatusLands(s)
       PROVE  EarnedShape(t)'
  <2>1. /\ UNCHANGED <<pc, step, ok, exit, performed, cancel>>
        /\ db'[t] = db[t] \/ db'[t] # "COMPLETED"
    BY <1>16, <1>t DEF Interrupt, InterruptStatuses, StatusLands, UpdateLands,
       Write, EarnedTypes
  <2> QED
    BY <2>1, <1>t, EarnedStays
<1>17. ASSUME NEW s \in Sessions,
              \/ Pause(s) \/ ResumeExecution(s) \/ TakeFrame(s) \/ FrameArrives(s)
              \/ \E r \in Requests : TimerFires(s, r)
       PROVE  EarnedShape(t)'
  BY <1>17, <1>0 DEF Pause, ResumeExecution, TakeFrame, FrameArrives, TimerFires
<1>18. ASSUME NEW c \in Clients, CheckReply(c) PROVE EarnedShape(t)'
  BY <1>18, <1>0 DEF CheckReply
<1>19. CASE UNCHANGED vars
  BY <1>19, <1>0 DEF vars
<1>e. CASE BackendEnds
  <2>1. /\ UNCHANGED <<step, ok, exit, performed, db>>
        /\ pc'[t] = IF pc[t] \in {"new", "done"} THEN pc[t] ELSE "lost"
        /\ cancel[t] # "idle" => cancel'[t] # "idle"
    BY <1>e DEF BackendEnds
  <2> QED
    BY <2>1, <1>t DEF EarnedShape, Ending, InLoop, InStep
<1> QED
  BY <1>1, <1>2, <1>3, <1>4, <1>5, <1>6, <1>7, <1>8, <1>9, <1>10, <1>11, <1>12,
     <1>13, <1>14, <1>15, <1>16, <1>17, <1>18, <1>19, <1>e
     DEF Next, EventLoop, Outside, Run, Throws, Cancelling, Expiry,
         PollThrows

\* A session recorded COMPLETED by a run that was neither simulated nor cancelled
\* did every step of its plan.
THEOREM PipelineEarns == Spec => []CompletedIsEarned
<1>1. PipelineInit => EarnedInv
  <2> SUFFICES ASSUME PipelineInit, NEW s \in Sessions PROVE EarnedShape(s)
    BY DEF EarnedInv
  <2>1. pc[s] = "new" /\ step[s] = 1 /\ exit[s] = "NONE" /\ db[s] = "NONE"
    BY DEF PipelineInit
  <2> QED
    BY <2>1 DEF EarnedShape, InLoop, InStep
<1>2. Typing /\ ReleaseInv /\ EarnedInv /\ [Next]_vars => EarnedInv'
  BY EarnedStep
<1>3. EarnedInv => CompletedIsEarned
  BY DEF EarnedInv, EarnedShape, CompletedIsEarned
<1> QED
  BY <1>1, <1>2, <1>3, TypingInvariant, ReleaseInvariant, PTL DEF Spec

-----------------------------------------------------------------------------
(* The record of a session in the authority, which every owner writes. *)

LEMMA ResumeKeeps ==
  ASSUME Typing, NEW s \in Sessions, NEW t \in Sessions, NEW r, NEW approved,
         NEW rec \in SessionRecords, Follows(session[s], rec),
         Resume(s, r, approved, rec), UNCHANGED tracked
  PROVE  Kept(t)
<1> AuthTypeOK
  BY DEF Typing, PipelineTypeOK
<1> DEFINE cleared == WithGate(rec, "CLEARED")
           stopped == WithBrowser(cleared, "STOPPED")
<1>1. cleared \in SessionRecords /\ Follows(rec, cleared)
  BY WithGateOK, WritesFollow DEF GateStates
<1>2. Follows(cleared, stopped)
  BY <1>1, WritesFollow DEF BrowserStates
<1>3. Follows(session[s], cleared) /\ Follows(session[s], stopped)
  BY <1>1, <1>2, FollowsOn
<1>4. Put(s, rec) \/ Put(s, cleared) \/ PutTwice(s, cleared, stopped)
  BY DEF Resume, ResumeLaunch
<1> HIDE DEF cleared, stopped
<1> QED
  BY <1>3, <1>4, PutKeeps

LEMMA KeepsStep ==
  ASSUME Typing, [Next]_vars, NEW t \in Sessions,
         \A s \in Sessions : pc[s] = "starting" => s \notin tracked
  PROVE  Kept(t)
<1> USE DEF authVars, runVars, approvalVars, controlVars, streamVars
<1> AuthTypeOK
  BY DEF Typing, PipelineTypeOK
<1>p. \A s \in Sessions : session[s] \in SessionRecords
  BY DEF Typing, PipelineTypeOK, AuthTypeOK
<1>0. ASSUME UNCHANGED <<tracked, session>> PROVE Kept(t)
  BY <1>0, SameKeeps
<1>1. ASSUME NEW s \in Sessions,
             \/ Start(s) \/ HoldForClarification(s) \/ FailPolicy(s)
             \/ StageThrows(s) \/ CallbackThrows(s) \/ Iterate(s) \/ CognitivePause(s) \/ RunTool(s)
             \/ Progress(s) \/ Replan(s) \/ StepThrows(s) \/ Interrupt(s)
             \/ TakeFrame(s) \/ StatusLands(s)
             \/ \E r \in Requests : TimerFires(s, r)
      PROVE  Kept(t)
  BY <1>1, <1>0 DEF Start, HoldForClarification, FailPolicy, StageThrows, CallbackThrows, Iterate,
     CognitivePause, RunTool, Progress, Replan, StepThrows, Interrupt, TakeFrame,
     StatusLands, UpdateLands, TimerFires
<1>2. ASSUME NEW s \in Sessions, Register(s) PROVE Kept(t)
  BY <1>2, MapKeeps DEF Register
<1>3. ASSUME NEW s \in Sessions,
             \/ Clarify(s) \/ DenyLaunch(s) \/ Simulate(s) \/ HandleError(s)
             \/ VerifyAndReflect(s) \/ CancelWrites(s)
      PROVE  Kept(t)
  <2>1. Untrack(s) \/ UNCHANGED <<tracked, session>>
    BY <1>3 DEF Clarify, DenyLaunch, Simulate, HandleError, VerifyAndReflect,
       CancelWrites
  <2> QED
    BY <2>1, <1>0, MapKeeps
<1>4. ASSUME NEW s \in Sessions, Plan(s) PROVE Kept(t)
  <2> DEFINE ready == PlanReady(s)
             clear == GateCleared(s)
  <2>1. ready \in SessionRecords /\ Follows(session[s], ready)
    BY <1>p, WithGateOK, WritesFollow DEF PlanReady, GateStates
  <2>2. Follows(ready, clear)
    BY <2>1, WritesFollow DEF GateCleared, GateStates
  <2>3. UNCHANGED tracked /\ (Put(s, ready) \/ PutTwice(s, ready, clear))
    BY <1>4 DEF Plan, AutomationGate
  <2> HIDE DEF ready, clear
  <2> QED
    BY <2>1, <2>2, <2>3, FollowsOn, PutKeeps
<1>5. ASSUME NEW s \in Sessions, RequestLaunchApproval(s) \/ AskForStep(s)
      PROVE  Kept(t)
  <2>1. UNCHANGED tracked /\ Put(s, WithGate(session[s], "WAITING_APPROVAL"))
    BY <1>5 DEF RequestLaunchApproval, AskForStep, Ask
  <2> QED
    BY <2>1, PutGateKeeps DEF GateStates
<1>6. ASSUME NEW s \in Sessions,
             \/ Dispatch(s) \/ ChromeUp(s) \/ CloseEnds(s) \/ CancelCloses(s)
             \/ Pause(s) \/ ResumeExecution(s)
      PROVE  Kept(t)
  <2>1. /\ UNCHANGED tracked
        /\ \/ UNCHANGED session
           \/ \E to \in BrowserStates : Put(s, WithBrowser(session[s], to))
    BY <1>6 DEF Dispatch, ChromeUp, CloseEnds, CancelCloses, Pause,
       ResumeExecution, BrowserStates
  <2> QED
    BY <2>1, <1>0, PutBrowserKeeps
<1>7. ASSUME NEW s \in Sessions, FrameArrives(s) PROVE Kept(t)
  <2>1. /\ UNCHANGED tracked
        /\ \/ UNCHANGED session \/ Put(s, session[s])
           \/ Put(s, WithBrowser(session[s], "RUNNING"))
    BY <1>7 DEF FrameArrives
  <2> QED
    BY <2>1, <1>0, <1>p, PutKeeps, PutBrowserKeeps, WritesFollow DEF BrowserStates
<1>8. ASSUME NEW s \in Sessions, CancelBegins(s) PROVE Kept(t)
  <2> DEFINE aborting == [session[s] EXCEPT !.aborting = TRUE]
             stopped == WithBrowser(aborting, "STOPPED")
  <2>1. aborting \in SessionRecords /\ Follows(session[s], aborting)
    BY <1>p, WritesFollow DEF SessionRecords
  <2>2. UNCHANGED tracked /\ (Put(s, aborting) \/ Put(s, stopped))
    BY <1>8 DEF CancelBegins
  <2> HIDE DEF aborting
  <2>3. Follows(aborting, stopped)
    BY <2>1, WritesFollow DEF BrowserStates
  <2> HIDE DEF stopped
  <2> QED
    BY <2>1, <2>2, <2>3, FollowsOn, PutKeeps
<1>9. ASSUME NEW c \in Clients, ApplyReply(c) PROVE Kept(t)
  <2> DEFINE s == reply[c].session
             rec == WithGate(session[s], "CLEARED")
  <2>1. s \in Sessions
    BY <1>9 DEF ApplyReply, Typing, PipelineTypeOK, Replies
  <2>2. rec \in SessionRecords /\ Follows(session[s], rec)
    BY <1>p, <2>1, WithGateOK, WritesFollow DEF GateStates
  <2>3. /\ UNCHANGED tracked
        /\ Resume(s, reply[c].request, reply[c].verdict = "APPROVED", rec)
    BY <1>9 DEF ApplyReply
  <2> HIDE DEF s, rec
  <2> QED
    BY <2>1, <2>2, <2>3, ResumeKeeps
<1>10. ASSUME NEW s \in Sessions, NEW r \in Requests, Expire(s, r) PROVE Kept(t)
  BY <1>10, <1>0, <1>p, WritesFollow, ResumeKeeps DEF Expire
<1>11. ASSUME NEW c \in Clients, CheckReply(c) PROVE Kept(t)
  BY <1>11, <1>0 DEF CheckReply
<1>12. CASE UNCHANGED vars
  BY <1>12, <1>0 DEF vars
<1>e. CASE BackendEnds
  BY <1>e DEF BackendEnds, Kept
<1> QED
  BY <1>1, <1>2, <1>3, <1>4, <1>5, <1>6, <1>7, <1>8, <1>9, <1>10, <1>11, <1>12,
     <1>e
     DEF Next, EventLoop, Outside, Run, Throws, Cancelling, Expiry,
         PollThrows

\* A run that has not registered its session has none.
Fresh == \A s \in Sessions : pc[s] \in {"new", "starting"} => s \notin tracked

LEMMA FreshStep ==
  ASSUME Typing, Fresh, [Next]_vars
  PROVE  Fresh'
<1> SUFFICES ASSUME NEW t \in Sessions, pc'[t] \in {"new", "starting"}
             PROVE  t \notin tracked'
  BY DEF Fresh
<1> USE DEF authVars, runVars, approvalVars, controlVars, streamVars
<1>p. pc \in [Sessions -> Stages] /\ tracked \subseteq Sessions
  BY DEF Typing, PipelineTypeOK, AuthTypeOK
<1>0. ASSUME pc[t] \in {"new", "starting"}, tracked' \subseteq tracked
      PROVE  t \notin tracked'
  BY <1>0 DEF Fresh
<1>1. ASSUME NEW s \in Sessions,
             \/ Clarify(s) \/ Plan(s) \/ FailPolicy(s) \/ RequestLaunchApproval(s)
             \/ DenyLaunch(s) \/ Simulate(s) \/ HandleError(s) \/ Dispatch(s)
             \/ ChromeUp(s) \/ Iterate(s) \/ CognitivePause(s) \/ AskForStep(s)
             \/ RunTool(s) \/ Progress(s) \/ Replan(s) \/ CloseEnds(s)
             \/ VerifyAndReflect(s) \/ Throws(s) \/ HoldForClarification(s)
      PROVE  t \notin tracked'
  <2>1. \E stage \in Stages \ {"new", "starting"} : GoTo(s, stage)
    BY <1>1 DEF Clarify, Plan, AutomationGate, FailPolicy, RequestLaunchApproval,
       DenyLaunch, Simulate, HandleError, Dispatch, ChromeUp, Iterate,
       CognitiveGate, BeginStep, LeaveLoop, CognitivePause, AskForStep, RunTool,
       Progress, Replan, CloseEnds, VerifyAndReflect, Throws, StageThrows, CallbackThrows,
       StepThrows, HoldForClarification, Stages, Deciding, Executing
  <2>2. pc'[t] = pc[t]
    BY <2>1, <1>p DEF GoTo
  <2>3. tracked' \subseteq tracked
    BY <1>1 DEF Clarify, Plan, AutomationGate, FailPolicy, RequestLaunchApproval,
       DenyLaunch, Simulate, HandleError, Dispatch, ChromeUp, Iterate,
       CognitivePause, AskForStep, RunTool, Progress, Replan, CloseEnds,
       VerifyAndReflect, Throws, StageThrows, CallbackThrows, StepThrows, HoldForClarification,
       Untrack
  <2> QED
    BY <2>2, <2>3, <1>0
<1>2. ASSUME NEW s \in Sessions, Start(s) \/ Register(s) PROVE t \notin tracked'
  BY <1>2, <1>p DEF Start, Register, Track, GoTo, Fresh
<1>3. ASSUME NEW s \in Sessions, NEW r, NEW approved, NEW rec,
             Resume(s, r, approved, rec), UNCHANGED tracked
      PROVE  t \notin tracked'
  <2>1. \/ UNCHANGED pc
        \/ \E stage \in Stages \ {"new", "starting"} : GoTo(s, stage)
    BY <1>3 DEF Resume, ResumeLaunch, Stages, Deciding, Executing
  <2>2. pc'[t] = pc[t]
    BY <2>1, <1>p DEF GoTo
  <2> QED
    BY <1>3, <2>2, <1>0
<1>4. ASSUME NEW c \in Clients, ApplyReply(c) PROVE t \notin tracked'
  <2>1. reply[c].session \in Sessions
    BY <1>4 DEF ApplyReply, Typing, PipelineTypeOK, Replies
  <2> QED
    BY <1>4, <2>1, <1>3 DEF ApplyReply
<1>5. ASSUME NEW s \in Sessions, NEW r \in Requests, Expire(s, r)
      PROVE  t \notin tracked'
  BY <1>5, <1>3, <1>0 DEF Expire
<1>6. ASSUME NEW s \in Sessions,
             \/ CancelBegins(s) \/ CancelCloses(s) \/ CancelWrites(s)
             \/ Pause(s) \/ ResumeExecution(s) \/ Interrupt(s)
             \/ TakeFrame(s) \/ FrameArrives(s) \/ StatusLands(s)
             \/ \E r \in Requests : TimerFires(s, r)
      PROVE  t \notin tracked'
  BY <1>6, <1>0 DEF CancelBegins, CancelCloses, CancelWrites, Pause,
     ResumeExecution, Interrupt, TakeFrame, FrameArrives, StatusLands,
     UpdateLands, TimerFires, Untrack
<1>7. ASSUME NEW c \in Clients, CheckReply(c) PROVE t \notin tracked'
  BY <1>7, <1>0 DEF CheckReply
<1>8. CASE UNCHANGED vars
  BY <1>8, <1>0 DEF vars
<1>e. CASE BackendEnds
  BY <1>e DEF BackendEnds
<1> QED
  BY <1>1, <1>2, <1>4, <1>5, <1>6, <1>7, <1>8, <1>e
     DEF Next, EventLoop, Outside, Run, Throws, Cancelling, Expiry, PollThrows

LEMMA FreshInvariant == Spec => []Fresh
<1>1. PipelineInit => Fresh
  BY DEF PipelineInit, Fresh
<1>2. Typing /\ Fresh /\ [Next]_vars => Fresh'
  BY FreshStep
<1> QED
  BY <1>1, <1>2, TypingInvariant, PTL DEF Spec

\* What the room was last told is what the browser's and the gate's states derive
\* to, whoever writes them and in whatever order.
THEOREM PipelineCurrent == Spec => []EmittedIsCurrent
<1>1. PipelineInit => TrackedCurrent
  BY DEF PipelineInit, TrackedCurrent
<1>2. Typing /\ Fresh /\ TrackedCurrent /\ [Next]_vars => TrackedCurrent'
  <2> SUFFICES ASSUME Typing, Fresh, TrackedCurrent, [Next]_vars,
                      NEW t \in Sessions, t \in tracked'
               PROVE  Current(session'[t])
    BY DEF TrackedCurrent, Current
  <2>1. Kept(t)
    BY KeepsStep DEF Fresh
  <2> QED
    BY <2>1 DEF Kept, Follows, TrackedCurrent
<1>3. Typing /\ TrackedCurrent => EmittedIsCurrent
  BY DEF Typing, PipelineTypeOK, AuthTypeOK, TrackedCurrent, Current,
         EmittedIsCurrent
<1> QED
  BY <1>1, <1>2, <1>3, TypingInvariant, FreshInvariant, PTL DEF Spec

\* A browser state that is STOPPED or ERROR is left by nothing but the deletion of
\* the session: no late frame, resume or launch revives it.
THEOREM PipelineFinality == Spec => TerminalBrowserIsFinal
<1> DEFINE Final == \A s \in tracked :
      session[s].browser \in {"STOPPED", "ERROR"} =>
        s \notin tracked' \/ session'[s].browser = session[s].browser
<1>1. Typing /\ Fresh /\ [Next]_vars => [Final]_authVars
  <2> SUFFICES ASSUME Typing, Fresh, [Next]_vars, NEW t \in tracked,
                      session[t].browser \in {"STOPPED", "ERROR"}, t \in tracked'
               PROVE  session'[t].browser = session[t].browser
    OBVIOUS
  <2>1. Kept(t)
    BY KeepsStep DEF Fresh, Typing, PipelineTypeOK, AuthTypeOK
  <2> QED
    BY <2>1 DEF Kept, Follows
<1> QED
  BY <1>1, TypingInvariant, FreshInvariant, PTL DEF Spec, TerminalBrowserIsFinal

-----------------------------------------------------------------------------
(* A browser is shown as live only once its launch has begun. *)

Live == {"INITIALIZING", "READY", "RUNNING", "PAUSED"}

\* The writes of one turn declare no browser live that was not.
Tame(old, new) == new.browser \in Live => old.browser \in Live

LEMMA WritesAreTame ==
  ASSUME NEW rec \in SessionRecords
  PROVE  /\ Tame(rec, rec)
         /\ \A to \in GateStates : Tame(rec, WithGate(rec, to))
         /\ \A to \in {"RUNNING", "PAUSED", "STOPPED"} :
              Tame(rec, WithBrowser(rec, to))
         /\ Tame(rec, [rec EXCEPT !.aborting = TRUE])
<1>1. ASSUME NEW to \in GateStates PROVE Tame(rec, WithGate(rec, to))
  BY WithGateOK DEF Tame
<1>2. ASSUME NEW to \in {"RUNNING", "PAUSED", "STOPPED"}
      PROVE  Tame(rec, WithBrowser(rec, to))
  <2>1. to \in BrowserStates /\ rec.browser \in BrowserStates
    BY DEF SessionRecords, BrowserStates
  <2>2. WithBrowser(rec, to).browser =
          IF to \in AllowedTransitions[rec.browser] THEN to ELSE rec.browser
    BY <2>1, WithBrowserOK
  <2>3. to \in {"RUNNING", "PAUSED"} /\ to \in AllowedTransitions[rec.browser] =>
          rec.browser \in Live
    BY <2>1 DEF AllowedTransitions, BrowserStates, Live
  <2> QED
    BY <2>2, <2>3 DEF Tame, Live
<1>3. Tame(rec, [rec EXCEPT !.aborting = TRUE])
  BY DEF Tame, SessionRecords
<1> QED
  BY <1>1, <1>2, <1>3 DEF Tame

LEMMA TameOn ==
  ASSUME NEW a, NEW b, NEW c, Tame(a, b), Tame(b, c)
  PROVE  Tame(a, c)
BY DEF Tame

LiveShape(s) ==
  s \in tracked /\ session[s].browser \in Live => chrome[s] # "none"

LiveInv == \A s \in Sessions : LiveShape(s)

\* A browser once launched is never again one that was not.
Launches(s) == chrome[s] # "none" => chrome'[s] # "none"

LEMMA TamePut ==
  ASSUME Typing, NEW s \in Sessions, NEW t \in Sessions, NEW mid, NEW new,
         LiveShape(t), Launches(t),
         UNCHANGED tracked, Put(s, new) \/ PutTwice(s, mid, new),
         Tame(session[s], new)
  PROVE  LiveShape(t)'
BY DEF Typing, PipelineTypeOK, AuthTypeOK, Put, PutTwice, Tame, LiveShape, Launches

LEMMA TameSame ==
  ASSUME NEW t \in Sessions, LiveShape(t), Launches(t), UNCHANGED <<tracked, session>>
  PROVE  LiveShape(t)'
BY DEF LiveShape, Launches

\* A new session has no browser; one that is deleted shows none.
LEMMA TameMap ==
  ASSUME Typing, NEW s \in Sessions, NEW t \in Sessions, LiveShape(t), Launches(t),
         Untrack(s) \/ Track(s)
  PROVE  LiveShape(t)'
BY DEF Typing, PipelineTypeOK, AuthTypeOK, Track, Untrack, NewSession, Live,
       LiveShape, Launches

LEMMA TameResume ==
  ASSUME Typing, NEW s \in Sessions, NEW t \in Sessions, NEW r, NEW approved,
         NEW rec \in SessionRecords, Tame(session[s], rec),
         LiveShape(t), Launches(t),
         Resume(s, r, approved, rec), UNCHANGED tracked
  PROVE  LiveShape(t)'
<1> DEFINE cleared == WithGate(rec, "CLEARED")
           stopped == WithBrowser(cleared, "STOPPED")
<1>1. cleared \in SessionRecords /\ Tame(rec, cleared)
  BY WithGateOK, WritesAreTame DEF GateStates
<1>2. Tame(cleared, stopped)
  BY <1>1, WritesAreTame
<1>3. Tame(session[s], cleared) /\ Tame(session[s], stopped)
  BY <1>1, <1>2, TameOn
<1>4. Put(s, rec) \/ Put(s, cleared) \/ PutTwice(s, cleared, stopped)
  BY DEF Resume, ResumeLaunch
<1> HIDE DEF cleared, stopped
<1> QED
  BY <1>3, <1>4, TamePut

LEMMA LaunchesStay ==
  ASSUME Typing, [Next]_vars, NEW t \in Sessions
  PROVE  Launches(t)
<1> USE DEF runVars, approvalVars, controlVars, streamVars
<1>p. chrome \in [Sessions -> ChromeStates]
  BY DEF Typing, PipelineTypeOK
<1>0. ASSUME UNCHANGED chrome PROVE Launches(t)
  BY <1>0 DEF Launches
<1>1. ASSUME NEW s \in Sessions,
             \/ Start(s) \/ Register(s) \/ HoldForClarification(s) \/ Clarify(s)
             \/ Plan(s) \/ FailPolicy(s) \/ RequestLaunchApproval(s)
             \/ DenyLaunch(s) \/ Simulate(s) \/ HandleError(s)
             \/ AskForStep(s) \/ RunTool(s) \/ Progress(s) \/ VerifyAndReflect(s)
             \/ CancelWrites(s) \/ Pause(s) \/ ResumeExecution(s)
             \/ Interrupt(s) \/ TakeFrame(s) \/ FrameArrives(s) \/ StatusLands(s)
             \/ \E r \in Requests : TimerFires(s, r) \/ Expire(s, r)
      PROVE  Launches(t)
  BY <1>1, <1>0 DEF Start, Register, HoldForClarification, Clarify, Plan,
     FailPolicy, RequestLaunchApproval, DenyLaunch, Simulate, HandleError,
     AskForStep, RunTool, Progress, VerifyAndReflect, CancelWrites, Pause,
     ResumeExecution, Interrupt, TakeFrame, FrameArrives, StatusLands, TimerFires,
     Expire
<1>2. ASSUME NEW s \in Sessions,
             StageThrows(s) \/ CallbackThrows(s) \/ Dispatch(s) \/ ChromeUp(s) \/ CloseEnds(s)
      PROVE  Launches(t)
  BY <1>2, <1>p DEF StageThrows, CallbackThrows, Dispatch, ChromeUp, CloseEnds, Launches
<1>3. ASSUME NEW s \in Sessions,
             Iterate(s) \/ CognitivePause(s) \/ Replan(s) \/ StepThrows(s)
      PROVE  Launches(t)
  <2>1. UNCHANGED chrome \/ LeaveLoop(s)
    BY <1>3 DEF Iterate, CognitiveGate, CognitivePause, BeginStep, Replan,
       StepThrows
  <2> QED
    BY <2>1, <1>p DEF LeaveLoop, Launches
<1>4. ASSUME NEW s \in Sessions, CancelBegins(s) \/ CancelCloses(s)
      PROVE  Launches(t)
  BY <1>4, <1>p DEF CancelBegins, CancelCloses, Launches
<1>5. ASSUME NEW c \in Clients, CheckReply(c) \/ ApplyReply(c) PROVE Launches(t)
  BY <1>5, <1>0 DEF CheckReply, ApplyReply
<1>6. CASE UNCHANGED vars
  BY <1>6, <1>0 DEF vars
<1>e. CASE BackendEnds
  BY <1>e DEF BackendEnds, Launches
<1> QED
  BY <1>1, <1>2, <1>3, <1>4, <1>5, <1>6, <1>e
     DEF Next, EventLoop, Outside, Run, Throws, Cancelling, Expiry,
         PollThrows

LEMMA LiveStep ==
  ASSUME Typing, LiveInv, [Next]_vars
  PROVE  LiveInv'
<1> SUFFICES ASSUME NEW t \in Sessions PROVE LiveShape(t)'
  BY DEF LiveInv
<1> USE DEF authVars, runVars, approvalVars, controlVars, streamVars
<1>t. LiveShape(t) /\ Launches(t)
  BY LaunchesStay DEF LiveInv
<1>p. \A s \in Sessions : session[s] \in SessionRecords
  BY DEF Typing, PipelineTypeOK, AuthTypeOK
<1>0. ASSUME UNCHANGED <<tracked, session>> PROVE LiveShape(t)'
  BY <1>0, <1>t, TameSame
<1>1. ASSUME NEW s \in Sessions,
             \/ Start(s) \/ HoldForClarification(s) \/ FailPolicy(s)
             \/ StageThrows(s) \/ CallbackThrows(s) \/ Iterate(s) \/ CognitivePause(s) \/ RunTool(s)
             \/ Progress(s) \/ Replan(s) \/ StepThrows(s) \/ Interrupt(s)
             \/ TakeFrame(s) \/ StatusLands(s)
             \/ \E r \in Requests : TimerFires(s, r)
      PROVE  LiveShape(t)'
  BY <1>1, <1>0 DEF Start, HoldForClarification, FailPolicy, StageThrows, CallbackThrows, Iterate,
     CognitivePause, RunTool, Progress, Replan, StepThrows, Interrupt, TakeFrame,
     StatusLands, UpdateLands, TimerFires
<1>2. ASSUME NEW s \in Sessions,
             \/ Register(s) \/ Clarify(s) \/ DenyLaunch(s) \/ Simulate(s)
             \/ HandleError(s) \/ VerifyAndReflect(s) \/ CancelWrites(s)
      PROVE  LiveShape(t)'
  <2>1. Track(s) \/ Untrack(s) \/ UNCHANGED <<tracked, session>>
    BY <1>2 DEF Register, Clarify, DenyLaunch, Simulate, HandleError,
       VerifyAndReflect, CancelWrites
  <2> QED
    BY <2>1, <1>0, <1>t, TameMap
<1>3. ASSUME NEW s \in Sessions, Plan(s) PROVE LiveShape(t)'
  <2> DEFINE ready == PlanReady(s)
             clear == GateCleared(s)
  <2>1. ready \in SessionRecords /\ Tame(session[s], ready)
    BY <1>p, WithGateOK, WritesAreTame DEF PlanReady, GateStates
  <2>2. Tame(ready, clear)
    BY <2>1, WritesAreTame DEF GateCleared, GateStates
  <2>3. UNCHANGED tracked /\ (Put(s, ready) \/ PutTwice(s, ready, clear))
    BY <1>3 DEF Plan, AutomationGate
  <2> HIDE DEF ready, clear
  <2> QED
    BY <2>1, <2>2, <2>3, <1>t, TameOn, TamePut
<1>4. ASSUME NEW s \in Sessions, RequestLaunchApproval(s) \/ AskForStep(s)
      PROVE  LiveShape(t)'
  <2>1. UNCHANGED tracked /\ Put(s, WithGate(session[s], "WAITING_APPROVAL"))
    BY <1>4 DEF RequestLaunchApproval, AskForStep, Ask
  <2>2. Tame(session[s], WithGate(session[s], "WAITING_APPROVAL"))
    BY <1>p, WritesAreTame DEF GateStates
  <2> QED
    BY <2>1, <2>2, <1>t, TamePut
<1>5. ASSUME NEW s \in Sessions, Dispatch(s) \/ ChromeUp(s) PROVE LiveShape(t)'
  <2>1. CASE UNCHANGED <<tracked, session>>
    BY <2>1, <1>0
  <2>2. CASE /\ UNCHANGED tracked /\ chrome'[s] # "none"
             /\ \E to \in BrowserStates : Put(s, WithBrowser(session[s], to))
    BY <2>2, <1>t DEF Put, LiveShape, Launches, Typing, PipelineTypeOK, AuthTypeOK
  <2>3. chrome \in [Sessions -> ChromeStates]
    BY DEF Typing, PipelineTypeOK
  <2> QED
    BY <1>5, <2>1, <2>2, <2>3 DEF Dispatch, ChromeUp, BrowserStates
<1>6. ASSUME NEW s \in Sessions,
             \/ CloseEnds(s) \/ CancelCloses(s) \/ Pause(s) \/ ResumeExecution(s)
             \/ FrameArrives(s)
      PROVE  LiveShape(t)'
  <2>1. /\ UNCHANGED tracked
        /\ \/ UNCHANGED session \/ Put(s, session[s])
           \/ \E to \in {"RUNNING", "PAUSED", "STOPPED"} :
                Put(s, WithBrowser(session[s], to))
    BY <1>6 DEF CloseEnds, CancelCloses, Pause, ResumeExecution, FrameArrives
  <2> QED
    BY <2>1, <1>0, <1>p, <1>t, WritesAreTame, TamePut
<1>7. ASSUME NEW s \in Sessions, CancelBegins(s) PROVE LiveShape(t)'
  <2> DEFINE aborting == [session[s] EXCEPT !.aborting = TRUE]
             stopped == WithBrowser(aborting, "STOPPED")
  <2>1. aborting \in SessionRecords /\ Tame(session[s], aborting)
    BY <1>p, WritesAreTame DEF SessionRecords
  <2>2. UNCHANGED tracked /\ (Put(s, aborting) \/ Put(s, stopped))
    BY <1>7 DEF CancelBegins
  <2> HIDE DEF aborting
  <2>3. Tame(aborting, stopped)
    BY <2>1, WritesAreTame
  <2> HIDE DEF stopped
  <2> QED
    BY <2>1, <2>2, <2>3, <1>t, TameOn, TamePut
<1>8. ASSUME NEW c \in Clients, ApplyReply(c) PROVE LiveShape(t)'
  <2> DEFINE s == reply[c].session
             rec == WithGate(session[s], "CLEARED")
  <2>1. s \in Sessions
    BY <1>8 DEF ApplyReply, Typing, PipelineTypeOK, Replies
  <2>2. rec \in SessionRecords /\ Tame(session[s], rec)
    BY <1>p, <2>1, WithGateOK, WritesAreTame DEF GateStates
  <2>3. /\ UNCHANGED tracked
        /\ Resume(s, reply[c].request, reply[c].verdict = "APPROVED", rec)
    BY <1>8 DEF ApplyReply
  <2> HIDE DEF s, rec
  <2> QED
    BY <2>1, <2>2, <2>3, <1>t, TameResume
<1>9. ASSUME NEW s \in Sessions, NEW r \in Requests, Expire(s, r)
      PROVE  LiveShape(t)'
  BY <1>9, <1>0, <1>p, <1>t, WritesAreTame, TameResume DEF Expire
<1>10. ASSUME NEW c \in Clients, CheckReply(c) PROVE LiveShape(t)'
  BY <1>10, <1>0 DEF CheckReply
<1>11. CASE UNCHANGED vars
  BY <1>11, <1>0 DEF vars
<1>e. CASE BackendEnds
  BY <1>e DEF BackendEnds, LiveShape
<1> QED
  BY <1>1, <1>2, <1>3, <1>4, <1>5, <1>6, <1>7, <1>8, <1>9, <1>10, <1>11, <1>e
     DEF Next, EventLoop, Outside, Run, Throws, Cancelling, Expiry,
         PollThrows

\* A session shows a live browser only once its launch has begun, whatever is
\* paused, resumed or photographed when.
THEOREM PipelineLive == Spec => []LiveNeedsLaunch
<1>1. PipelineInit => LiveInv
  BY DEF PipelineInit, LiveInv, LiveShape
<1>2. Typing /\ LiveInv /\ [Next]_vars => LiveInv'
  BY LiveStep
<1>3. Typing /\ LiveInv => LiveNeedsLaunch
  BY DEF Typing, PipelineTypeOK, AuthTypeOK, LiveInv, LiveShape, Live,
         LiveNeedsLaunch
<1> QED
  BY <1>1, <1>2, <1>3, TypingInvariant, PTL DEF Spec

=============================================================================

----------------------------- MODULE WorkerJobs -----------------------------
(***************************************************************************)
(* A session that was handed to the Python engine (src/apps/browser-py):   *)
(* WorkerDispatcherService pushes a job on a Redis list, the engine pops   *)
(* and runs it, and what it publishes is relayed by WorkerEventRelayService*)
(* to the session authority and to the database.                           *)
(*                                                                         *)
(* The relay gets the events of a job in order.  It applies browser states *)
(* in the turn in which they arrive, so they are part of the step that     *)
(* publishes them; every other event starts a handler that awaits the      *)
(* database, and handlers that have begun finish in any order (working).   *)
(* Events that only change rows of steps, tasks, screenshots and           *)
(* trajectories are left out, and so is an event that is lost.  Handlers   *)
(* of equal events are one.                                                *)
(*                                                                         *)
(* Operators marked "a fault" are wrong versions of the definition that    *)
(* follows and are not part of the model.                                  *)
(***************************************************************************)
EXTENDS SessionAuthority

CONSTANTS
  Steps,         \* bound: number of steps of the plan
  MaxRecoveries  \* _MAX_RECOVERIES, relaunches of a page per job

ASSUME StepsAssumption == Steps \in Nat
ASSUME MaxRecoveriesAssumption == MaxRecoveries \in Nat

VARIABLES
  alive,       \* the engine's process runs
  heartbeat,   \* the key omnitask:py:alive exists
  dispatch,    \* the progress of WorkerDispatcherService.dispatch
  queued,      \* the sessions whose job is on the list omnitask:py:jobs
  skill,       \* the job names a domain skill instead of a step plan
  asks,        \* the job's steps with requiresApproval
  pc,          \* where the engine is with each job
  at,          \* the step the loop is at
  entries,     \* the number of results
  failed,      \* some result is not a success
  returned,    \* how often the action of each step returned
  recoveries,  \* _LiveSession.recoveries
  decision,    \* the key omnitask:approval:<session>:<step>
  row,         \* ApprovalRequest.status of each step's request
  working      \* the relay's handlers that have not finished

engineVars == <<alive, heartbeat>>
queueVars  == <<dispatch, queued, skill, asks>>
jobVars    == <<pc, at, entries, failed, returned, recoveries>>
relayVars  == <<decision, row, working>>
vars == <<authVars, engineVars, queueVars, jobVars, relayVars>>

Verdicts == {"APPROVED", "REJECTED"}

\* The stages in which the engine is busy with a job.
Active == {"opening", "step", "approval", "act", "wait", "heal", "finish",
           "skill"}

Handlers ==
  [event : {"approval", "hold", "step", "denied"}, step : 1..Steps]
    \cup [event : {"completed", "verdict"}, success : BOOLEAN]
    \cup [event : {"failed"}]

\* The session as the pipeline leaves it when its launch was cleared.
Cleared == WithGate(WithGate(NewSession, "PLAN_READY"), "CLEARED")

WorkerInit ==
  /\ tracked = Sessions
  /\ session = [s \in Sessions |-> Cleared]
  /\ inflight = [s \in Sessions |-> NoUpdates]
  /\ db = [s \in Sessions |-> "PLANNING"]
  /\ alive \in BOOLEAN
  /\ heartbeat = alive
  /\ dispatch = [s \in Sessions |-> "new"]
  /\ queued = {}
  /\ skill \in [Sessions -> BOOLEAN]
  /\ asks \in [Sessions -> SUBSET (1..Steps)]
  /\ pc = [s \in Sessions |-> "none"]
  /\ at = [s \in Sessions |-> 1]
  /\ entries = [s \in Sessions |-> 0]
  /\ failed = [s \in Sessions |-> FALSE]
  /\ returned = [s \in Sessions |-> [k \in 1..Steps |-> 0]]
  /\ recoveries = [s \in Sessions |-> 0]
  /\ decision = [s \in Sessions |-> [k \in 1..Steps |-> "NONE"]]
  /\ row = [s \in Sessions |-> [k \in 1..Steps |-> "NONE"]]
  /\ working = [s \in Sessions |-> {}]

GoTo(s, stage) == pc' = [pc EXCEPT ![s] = stage]

-----------------------------------------------------------------------------
(* The dispatcher and the life of the engine. *)

\* Without a heartbeat, or with the inline runtime, the session is executed in
\* the backend.
CheckAlive(s) ==
  /\ dispatch[s] = "new"
  /\ \/ /\ heartbeat
        /\ dispatch' = [dispatch EXCEPT ![s] = "pushing"]
     \/ dispatch' = [dispatch EXCEPT ![s] = "inline"]
  /\ UNCHANGED <<authVars, engineVars, queued, skill, asks, jobVars, relayVars>>

\* A push that fails falls back to the inline path, whether or not Redis had
\* applied it.
Push(s) ==
  /\ dispatch[s] = "pushing"
  /\ \/ /\ queued' = queued \cup {s}
        /\ dispatch' = [dispatch EXCEPT ![s] = "sent"]
     \/ /\ queued' \in {queued, queued \cup {s}}
        /\ dispatch' = [dispatch EXCEPT ![s] = "inline"]
  /\ UNCHANGED <<authVars, engineVars, skill, asks, jobVars, relayVars>>

\* The jobs the engine has popped live in its memory only.
EngineDies ==
  /\ alive
  /\ alive' = FALSE
  /\ pc' = [s \in Sessions |-> IF pc[s] \in Active THEN "lost" ELSE pc[s]]
  /\ UNCHANGED <<authVars, heartbeat, queueVars, at, entries, failed,
                 returned, recoveries, relayVars>>

HeartbeatExpires ==
  /\ ~alive /\ heartbeat
  /\ heartbeat' = FALSE
  /\ UNCHANGED <<authVars, alive, queueVars, jobVars, relayVars>>

EngineStarts ==
  /\ ~alive
  /\ alive' = TRUE
  /\ heartbeat' = TRUE
  /\ UNCHANGED <<authVars, queueVars, jobVars, relayVars>>

\* BRPOP takes the job off the list before anything is done with it, and when
\* its reply is lost, so is the job.
Pop(s) ==
  /\ alive
  /\ s \in queued
  /\ queued' = queued \ {s}
  /\ \/ /\ HasRoom(s)
        /\ Put(s, WithBrowser(session[s], "INITIALIZING"))
        /\ GoTo(s, "opening")
     \/ /\ GoTo(s, "lost")
        /\ UNCHANGED <<session, inflight>>
  /\ UNCHANGED <<tracked, db, engineVars, dispatch, skill, asks, at,
                 entries, failed, returned, recoveries, relayVars>>

-----------------------------------------------------------------------------
(* run_job and the step loop. *)

Handler(event, k) == [event |-> event, step |-> k]

Publish(s, handler) ==
  working' = [working EXCEPT ![s] = @ \cup {handler}]

\* execution:completed and then STOPPED.
PublishCompleted(s, success) ==
  /\ HasRoom(s)
  /\ Publish(s, [event |-> "completed", success |-> success])
  /\ Put(s, WithBrowser(session[s], "STOPPED"))
  /\ GoTo(s, "ended")

\* execution:failed and then ERROR.
PublishFailed(s) ==
  /\ HasRoom(s)
  /\ Publish(s, [event |-> "failed"])
  /\ Put(s, WithBrowser(session[s], "ERROR"))
  /\ GoTo(s, "ended")

BrowserOpens(s) ==
  /\ pc[s] = "opening"
  /\ HasRoom(s)
  /\ LET ready == WithBrowser(session[s], "READY")
     IN  PutTwice(s, ready, WithBrowser(ready, "RUNNING"))
  /\ GoTo(s, IF skill[s] THEN "skill" ELSE "step")
  /\ UNCHANGED <<tracked, db, engineVars, queueVars, at, entries, failed,
                 returned, recoveries, relayVars>>

BrowserFails(s) ==
  /\ pc[s] = "opening"
  /\ PublishFailed(s)
  /\ UNCHANGED <<tracked, db, engineVars, queueVars, at, entries, failed,
                 returned, recoveries, decision, row>>

\* What a domain skill does before it is over is not modelled.
SkillEnds(s) ==
  /\ pc[s] = "skill"
  /\ \E success \in BOOLEAN : PublishCompleted(s, success)
  /\ UNCHANGED <<tracked, db, engineVars, queueVars, at, entries, failed,
                 returned, recoveries, decision, row>>

SkillThrows(s) ==
  /\ pc[s] = "skill"
  /\ PublishFailed(s)
  /\ UNCHANGED <<tracked, db, engineVars, queueVars, at, entries, failed,
                 returned, recoveries, decision, row>>

BeginStep(s) ==
  /\ pc[s] = "step"
  /\ at[s] <= Steps
  /\ IF at[s] \in asks[s]
       THEN /\ Publish(s, Handler("approval", at[s]))
            /\ GoTo(s, "approval")
       ELSE /\ GoTo(s, "act")
            /\ UNCHANGED working
  /\ UNCHANGED <<authVars, engineVars, queueVars, at, entries, failed,
                 returned, recoveries, decision, row>>

NoDecision(s) == [decision EXCEPT ![s][at[s]] = "NONE"]

StepDenied(s) ==
  /\ entries' = [entries EXCEPT ![s] = @ + 1]
  /\ failed' = [failed EXCEPT ![s] = TRUE]
  /\ Publish(s, Handler("denied", at[s]))
  /\ GoTo(s, "finish")

\* A fault: the poll has no deadline.
PollForever(s) ==
  /\ pc[s] = "approval"
  /\ decision[s][at[s]] # "NONE"
  /\ decision' = NoDecision(s)
  /\ IF decision[s][at[s]] = "APPROVED"
       THEN GoTo(s, "act") /\ UNCHANGED <<entries, failed, working>>
       ELSE StepDenied(s)
  /\ UNCHANGED <<authVars, engineVars, queueVars, at, returned, recoveries,
                 row>>

\* The last look at the key within two minutes: without an approval the step
\* is denied and the loop is left.
PollDecision(s) ==
  /\ pc[s] = "approval"
  /\ decision' = NoDecision(s)
  /\ IF decision[s][at[s]] = "APPROVED"
       THEN GoTo(s, "act") /\ UNCHANGED <<entries, failed, working>>
       ELSE StepDenied(s)
  /\ UNCHANGED <<authVars, engineVars, queueVars, at, returned, recoveries,
                 row>>

\* The action of the step returned: its result is recorded and published.
StepSucceeds(s) ==
  /\ returned' = [returned EXCEPT ![s][at[s]] = @ + 1]
  /\ entries' = [entries EXCEPT ![s] = @ + 1]
  /\ Publish(s, Handler("step", at[s]))

NextStep(s) ==
  /\ at' = [at EXCEPT ![s] = @ + 1]
  /\ GoTo(s, "step")

\* With a wait condition, the result stands before the condition is awaited.
Act(s) ==
  /\ pc[s] = "act"
  /\ StepSucceeds(s)
  /\ \/ GoTo(s, "wait") /\ UNCHANGED at
     \/ NextStep(s)
  /\ UNCHANGED <<authVars, engineVars, queueVars, failed, recoveries,
                 decision, row>>

ConditionHolds(s) ==
  /\ pc[s] = "wait"
  /\ NextStep(s)
  /\ UNCHANGED <<authVars, engineVars, queueVars, entries, failed, returned,
                 recoveries, relayVars>>

-----------------------------------------------------------------------------
(* Errors of a step: recovery of the page, then healing. *)

Failing(s) == pc[s] \in {"act", "wait"}

StepThrows(s) ==
  /\ Failing(s)
  /\ GoTo(s, "heal")
  /\ UNCHANGED <<authVars, engineVars, queueVars, at, entries, failed,
                 returned, recoveries, relayVars>>

\* A fault: the budget is not looked at.
AlwaysRecoverable(s) == TRUE

MayRecover(s) == recoveries[s] < MaxRecoveries

\* A fault: the recovery is not counted.
RelaunchUncounted(s) == recoveries' = recoveries

Relaunch(s) == recoveries' = [recoveries EXCEPT ![s] = @ + 1]

\* A fault: the loop goes on with the step after the one that crashed.
RetryNext(s) == NextStep(s)

\* The same step again, on the recovered page.
Retry(s) ==
  /\ GoTo(s, "step")
  /\ UNCHANGED at

\* The page died under a step: it is relaunched and the step begun again, or
\* the relaunch fails and the step is healed like any other.
StepCrashes(s) ==
  /\ Failing(s)
  /\ MayRecover(s)
  /\ Relaunch(s)
  /\ \/ /\ HasRoom(s)
        /\ Put(s, WithBrowser(session[s], "RUNNING"))
        /\ Retry(s)
     \/ /\ GoTo(s, "heal")
        /\ UNCHANGED <<session, inflight, at>>
  /\ UNCHANGED <<tracked, db, engineVars, queueVars, entries, failed,
                 returned, relayVars>>

\* The crash callback of the job's first page: it publishes ERROR and, if the
\* budget allows, recovers beside the step loop, which may have recovered once
\* from the same crash before the callback gets the lock.
PageCrashes(s) ==
  /\ pc[s] \in Active \ {"opening"}
  /\ recoveries[s] <= 1
  /\ HasRoom(s)
  /\ LET crashed == WithBrowser(session[s], "ERROR")
     IN  IF MayRecover(s)
           THEN /\ Relaunch(s)
                /\ PutTwice(s, crashed, WithBrowser(crashed, "RUNNING"))
           ELSE /\ Put(s, crashed)
                /\ UNCHANGED recoveries
  /\ UNCHANGED <<tracked, db, engineVars, queueVars, pc, at, entries, failed,
                 returned, relayVars>>

\* What Redis lets the relay do on the connection it has subscribed with.
SubscriberAccepts(command) == command \in {"subscribe", "unsubscribe", "quit"}

\* The relay writes its verdict to a key with that connection.
HealingVerdicts == IF SubscriberAccepts("set") THEN BOOLEAN ELSE {FALSE}

\* The engine asks for a way to heal the step and polls for thirty seconds.
Heal(s) ==
  /\ pc[s] = "heal"
  /\ \E healed \in HealingVerdicts :
       IF healed
         THEN /\ StepSucceeds(s)
              /\ NextStep(s)
              /\ UNCHANGED failed
         ELSE /\ entries' = [entries EXCEPT ![s] = @ + 1]
              /\ failed' = [failed EXCEPT ![s] = TRUE]
              /\ GoTo(s, "finish")
              /\ UNCHANGED <<at, returned, working>>
  /\ UNCHANGED <<authVars, engineVars, queueVars, recoveries, decision, row>>

\* A fault: results are not counted.
AllPassedUncounted(s) == entries[s] > 0 /\ ~failed[s]

AllPassed(s) == entries[s] > 0 /\ ~failed[s] /\ entries[s] = Steps

Finish(s) ==
  /\ pc[s] = "finish" \/ (pc[s] = "step" /\ at[s] > Steps)
  /\ PublishCompleted(s, AllPassed(s))
  /\ UNCHANGED <<tracked, db, engineVars, queueVars, at, entries, failed,
                 returned, recoveries, decision, row>>

-----------------------------------------------------------------------------
(* The relay's handlers, between two awaits each. *)

Done(s, h)       == working' = [working EXCEPT ![s] = @ \ {h}]
Becomes(s, h, g) == working' = [working EXCEPT ![s] = (@ \ {h}) \cup {g}]

\* A write of the status whose failure the handler swallows.
TryWrite(s, status) == db' \in {db, [db EXCEPT ![s] = status]}

\* The pending request of the step is found, or one is created.
FindOrCreate(s, k) ==
  /\ Handler("approval", k) \in working[s]
  /\ \/ /\ row' = [row EXCEPT ![s][k] = "PENDING"]
        /\ Becomes(s, Handler("approval", k), Handler("hold", k))
     \/ /\ Done(s, Handler("approval", k))
        /\ UNCHANGED row
  /\ UNCHANGED <<authVars, engineVars, queueVars, jobVars, decision>>

HoldStatus(s, k) ==
  /\ Handler("hold", k) \in working[s]
  /\ TryWrite(s, "WAITING_APPROVAL")
  /\ Done(s, Handler("hold", k))
  /\ UNCHANGED <<tracked, session, inflight, engineVars, queueVars, jobVars,
                 decision, row>>

RejectPending(s, k) ==
  /\ Handler("denied", k) \in working[s]
  /\ row' = [row EXCEPT ![s][k] = IF @ = "PENDING" THEN "REJECTED" ELSE @]
  /\ Done(s, Handler("denied", k))
  /\ UNCHANGED <<authVars, engineVars, queueVars, jobVars, decision>>

RunningStatus(s, k) ==
  /\ Handler("step", k) \in working[s]
  /\ TryWrite(s, "RUNNING")
  /\ Done(s, Handler("step", k))
  /\ UNCHANGED <<tracked, session, inflight, engineVars, queueVars, jobVars,
                 decision, row>>

\* The status is read, and only then screenshots and a verification by a
\* language model are awaited.
ReadStatus(s, success) ==
  LET read    == [event |-> "completed", success |-> success]
      verdict == [event |-> "verdict", success |-> success]
  IN  /\ read \in working[s]
      /\ IF db[s] = "CANCELLED" THEN Done(s, read) ELSE Becomes(s, read, verdict)
      /\ UNCHANGED <<authVars, engineVars, queueVars, jobVars, decision, row>>

FinalStatus(success) == IF success THEN "COMPLETED" ELSE "FAILED"

WriteVerdict(s, success) ==
  /\ [event |-> "verdict", success |-> success] \in working[s]
  /\ TryWrite(s, FinalStatus(success))
  /\ Done(s, [event |-> "verdict", success |-> success])
  /\ UNCHANGED <<tracked, session, inflight, engineVars, queueVars, jobVars,
                 decision, row>>

WriteFailure(s) ==
  /\ [event |-> "failed"] \in working[s]
  /\ TryWrite(s, "FAILED")
  /\ Done(s, [event |-> "failed"])
  /\ UNCHANGED <<tracked, session, inflight, engineVars, queueVars, jobVars,
                 decision, row>>

Relay(s) ==
  \/ \E k \in 1..Steps :
       \/ FindOrCreate(s, k) \/ HoldStatus(s, k)
       \/ RejectPending(s, k) \/ RunningStatus(s, k)
  \/ \E success \in BOOLEAN : ReadStatus(s, success) \/ WriteVerdict(s, success)
  \/ WriteFailure(s)

-----------------------------------------------------------------------------
(* Users. *)

\* setApprovalDecision.
StoreDecision(s, k, verdict) ==
  decision' = IF SubscriberAccepts("set")
                THEN [decision EXCEPT ![s][k] = verdict]
                ELSE decision

\* A response to a pending request: first the row and the gate, then the key
\* the engine polls.
Respond(s, k, verdict) ==
  /\ row[s][k] = "PENDING"
  /\ HasRoom(s)
  /\ row' = [row EXCEPT ![s][k] = verdict]
  /\ Put(s, WithGate(session[s], "CLEARED"))
  /\ StoreDecision(s, k, verdict)
  /\ UNCHANGED <<tracked, db, engineVars, queueVars, jobVars, working>>

\* cancelExecution, for a session without a browser in the backend: nothing of
\* it reaches the engine.  When the write fails the session stays.
Cancel(s) ==
  /\ s \in tracked
  /\ \/ /\ db' = [db EXCEPT ![s] = "CANCELLED"]
        /\ Untrack(s)
        /\ UNCHANGED inflight
     \/ /\ HasRoom(s)
        /\ Put(s, WithBrowser([session[s] EXCEPT !.aborting = TRUE], "STOPPED"))
        /\ UNCHANGED <<tracked, db>>
  /\ UNCHANGED <<engineVars, queueVars, jobVars, relayVars>>

StatusLands(s) ==
  /\ \E status \in LiveStatuses : UpdateLands(s, status)
  /\ UNCHANGED <<engineVars, queueVars, jobVars, relayVars>>

-----------------------------------------------------------------------------

Dispatching(s) == CheckAlive(s) \/ Push(s)

\* The engine's own steps; a call that is awaited returns.
Engine(s) ==
  \/ BrowserOpens(s) \/ SkillEnds(s) \/ BeginStep(s) \/ PollDecision(s)
  \/ Act(s) \/ ConditionHolds(s) \/ Heal(s) \/ Finish(s)

\* A call fails, or the page dies.
Mishap(s) ==
  \/ BrowserFails(s) \/ SkillThrows(s)
  \/ StepThrows(s) \/ StepCrashes(s) \/ PageCrashes(s)

User(s) ==
  \/ \E k \in 1..Steps, verdict \in Verdicts : Respond(s, k, verdict)
  \/ Cancel(s)

BegunWork(s) == Engine(s) \/ Relay(s) \/ StatusLands(s)

Next ==
  \/ \E s \in Sessions :
       Dispatching(s) \/ Pop(s) \/ BegunWork(s) \/ Mishap(s) \/ User(s)
  \/ EngineDies \/ HeartbeatExpires \/ EngineStarts

Spec == WorkerInit /\ [][Next]_vars

\* The engine and the backend go on with the work they have begun.  Nobody has
\* to respond, nothing has to fail, and the engine may die.
FairSpec == Spec /\ \A s \in Sessions : WF_vars(BegunWork(s))

-----------------------------------------------------------------------------
(* Properties. *)

WorkerTypeOK ==
  /\ AuthTypeOK
  /\ alive \in BOOLEAN
  /\ heartbeat \in BOOLEAN
  /\ dispatch \in [Sessions -> {"new", "pushing", "sent", "inline"}]
  /\ queued \subseteq Sessions
  /\ skill \in [Sessions -> BOOLEAN]
  /\ asks \in [Sessions -> SUBSET (1..Steps)]
  /\ pc \in [Sessions -> Active \cup {"none", "ended", "lost"}]
  /\ at \in [Sessions -> 1..(Steps + 1)]
  /\ entries \in [Sessions -> Nat]
  /\ failed \in [Sessions -> BOOLEAN]
  /\ returned \in [Sessions -> [1..Steps -> Nat]]
  /\ recoveries \in [Sessions -> 0..MaxRecoveries]
  /\ decision \in [Sessions -> [1..Steps -> Verdicts \cup {"NONE"}]]
  /\ row \in [Sessions -> [1..Steps -> Verdicts \cup {"NONE", "PENDING"}]]
  /\ working \in [Sessions -> SUBSET Handlers]

\* A plan is recorded COMPLETED only if the action of every step returned, and
\* returned once: neither recoveries that repeat a step nor a late handler of
\* the relay let a partial or a repeated run pass for a success.
CompletedIsExact ==
  \A s \in Sessions :
    db[s] = "COMPLETED" /\ ~skill[s] =>
      \A k \in 1..Steps : returned[s][k] = 1

\* Steps take effect in the order of the plan: recovering from a crash never
\* goes past the step it interrupted.
StepsInOrder ==
  \A s \in Sessions, j, k \in 1..Steps :
    j < k /\ returned[s][k] > 0 => returned[s][j] > 0

\* The retries of a crashing page are bounded together: all repeats of all steps
\* need as many of the recoveries the budget allows, so that a job leaves at most
\* that many results more than its plan has steps, and one for its failure.
RepeatsAreBounded ==
  \A s \in Sessions :
    /\ entries[s] <= Steps + MaxRecoveries + (IF failed[s] THEN 1 ELSE 0)
    /\ \A k \in 1..Steps : returned[s][k] <= 1 + MaxRecoveries

\* The stages from the last to the first, within one round of the loop.
Rank(stage) ==
  CASE stage \in {"finish", "skill"} -> 1
    [] stage = "heal"     -> 2
    [] stage = "wait"     -> 3
    [] stage = "act"      -> 4
    [] stage = "approval" -> 5
    [] stage = "step"     -> 6
    [] stage = "opening"  -> 7
    [] OTHER              -> 0

\* An upper bound of what the engine still has to do for a job it works on.
Left(s) == 6 * ((Steps + 1 - at[s]) + (MaxRecoveries - recoveries[s])) + Rank(pc[s])

JobState(s) == <<pc[s], at[s], entries[s], failed[s], returned[s], recoveries[s]>>

\* Whatever the engine does for a job brings the job closer to its end, a step
\* that is repeated, denied, healed or given up and the recovery of a page
\* beside the loop included: no order of failures keeps a job going.
JobsWindDown ==
  [][\A s \in Sessions :
       pc[s] \in Active /\ JobState(s)' # JobState(s) =>
         pc'[s] \notin Active \/ (0 < Left(s)' /\ Left(s)' < Left(s))]_vars

PlanPhase(s) ==
  CASE pc[s] = "none"   -> "waiting"
    [] pc[s] \in Active -> "open"
    [] OTHER            -> "closed"

\* Every return of an action left a result; a failure leaves one more.
Performances(s) == entries[s] - (IF failed[s] THEN 1 ELSE 0)

\* The engine and the relay keep what PlanRun promises of the plan: its steps are
\* performed in order, repeated only against recoveries, never after the job has
\* ended, and a success is recorded only of a plan that was performed exactly.
Plan == INSTANCE PlanRun WITH
  Budget    <- MaxRecoveries,
  phase     <- [s \in Sessions |-> PlanPhase(s)],
  performed <- returned,
  total     <- [s \in Sessions |-> Performances(s)],
  spent     <- recoveries,
  succeeded <- {s \in Sessions : db[s] = "COMPLETED" /\ ~skill[s]}

ImplementsPlan == Plan!PlanSpec

\* A job the engine works on ends, or the engine dies under it; no approval,
\* healing or crash keeps it for ever.
JobEnds ==
  \A s \in Sessions : pc[s] \in Active ~> pc[s] \notin Active

-----------------------------------------------------------------------------
(* What the comments of the code say, and the code does not do. *)

\* The response to the request of a step that runs in the worker reaches it by
\* a Redis key (agent.gateway.ts:110-112, events.py:51).
ApprovalReachesEngine ==
  [][\A s \in Sessions :
       pc[s] = "approval" /\ row[s][at[s]] = "APPROVED" =>
         pc'[s] # "finish"]_vars

=============================================================================

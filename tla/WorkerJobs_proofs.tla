-------------------------- MODULE WorkerJobs_proofs --------------------------
(***************************************************************************)
(* Proofs about WorkerJobs for any sessions, plans of any length and any   *)
(* recovery budget.                                                        *)
(***************************************************************************)
EXTENDS WorkerJobs, SessionAuthority_proofs

\* The types of the variables that are not the authority's.
JobStages == Active \cup {"none", "ended", "lost"}

QueueTypeOK ==
  /\ alive \in BOOLEAN
  /\ heartbeat \in BOOLEAN
  /\ dispatch \in [Sessions -> {"new", "pushing", "sent", "inline"}]
  /\ queued \subseteq Sessions
  /\ skill \in [Sessions -> BOOLEAN]
  /\ asks \in [Sessions -> SUBSET (1..Steps)]

LoopTypeOK ==
  /\ pc \in [Sessions -> JobStages]
  /\ at \in [Sessions -> 1..(Steps + 1)]
  /\ entries \in [Sessions -> Nat]
  /\ failed \in [Sessions -> BOOLEAN]
  /\ returned \in [Sessions -> [1..Steps -> Nat]]
  /\ recoveries \in [Sessions -> 0..MaxRecoveries]

RelayTypeOK ==
  /\ decision \in [Sessions -> [1..Steps -> Verdicts \cup {"NONE"}]]
  /\ row \in [Sessions -> [1..Steps -> Verdicts \cup {"NONE", "PENDING"}]]
  /\ working \in [Sessions -> SUBSET Handlers]

JobTypeOK == QueueTypeOK /\ LoopTypeOK /\ RelayTypeOK

\* The stages in which the loop is inside a step of the plan.
InStep == {"approval", "act", "wait", "heal"}

\* How often the action of the step the loop is at has returned.
Here(s) == IF at[s] <= Steps THEN returned[s][at[s]] ELSE 0

\* A job is popped once, before anything else happens to it.
Fresh(s) ==
  /\ dispatch[s] \in {"new", "pushing"} => pc[s] = "none" /\ s \notin queued
  /\ s \in queued => pc[s] = "none"
  /\ pc[s] \in {"none", "opening"} =>
       /\ at[s] = 1 /\ entries[s] = 0 /\ ~failed[s]
       /\ \A k \in 1..Steps : returned[s][k] = 0

\* The steps before the current one returned, those after it did not, and a
\* step that is about to run again was paid for with a recovery.
Ordered(s) ==
  /\ pc[s] \in InStep => at[s] \in 1..Steps
  /\ pc[s] = "wait" => returned[s][at[s]] >= 1
  /\ \A k \in 1..Steps :
       /\ k < at[s] => returned[s][k] >= 1
       /\ k > at[s] => returned[s][k] = 0
       /\ returned[s][k] <= recoveries[s] + 1
  /\ pc[s] \in {"step", "approval", "act"} => Here(s) <= recoveries[s]

\* Every return has left a result, so that a plan in which some step returned
\* twice has more results than steps.
Counted(s) ==
  /\ pc[s] \in InStep \cup {"step"} =>
       /\ ~failed[s]
       /\ entries[s] >= at[s] - 1 + Here(s)
       /\ (\E k \in 1..Steps : k < at[s] /\ returned[s][k] > 1) =>
            entries[s] >= at[s] + Here(s)
  /\ pc[s] = "finish" => failed[s]

JobInv == \A s \in Sessions : Fresh(s) /\ Ordered(s) /\ Counted(s)

\* The handlers on their way to record a success.
Winners ==
  {[event |-> "completed", success |-> TRUE],
   [event |-> "verdict", success |-> TRUE]}

\* The row says COMPLETED, or a handler is about to.
Succeeds(s) ==
  db[s] = "COMPLETED" \/ \E h \in working[s] : h \in Winners

\* A success of a plan stands for a job that is over and in which every step
\* returned exactly once.
Earned(s) ==
  Succeeds(s) /\ ~skill[s] =>
    pc[s] = "ended" /\ \A k \in 1..Steps : returned[s][k] = 1

\* Only a job that names a skill runs one.
SuccessInv ==
  \A s \in Sessions : Earned(s) /\ (pc[s] = "skill" => skill[s])

-----------------------------------------------------------------------------
(* The variables that are not the authority's keep their types. *)

Jobs == JobTypeOK /\ JobInv

LEMMA StagesListed ==
  {"none", "opening", "step", "approval", "act", "wait", "heal", "finish",
   "skill", "ended", "lost"} \subseteq JobStages
BY DEF JobStages, Active

LEMMA HandlersListed ==
  /\ \A event \in {"approval", "hold", "step", "denied"}, k \in 1..Steps :
       Handler(event, k) \in Handlers
  /\ \A event \in {"completed", "verdict"}, success \in BOOLEAN :
       [event |-> event, success |-> success] \in Handlers
  /\ [event |-> "failed"] \in Handlers
BY DEF Handlers, Handler

LEMMA InStepRange ==
  ASSUME Jobs, NEW s \in Sessions, pc[s] \in InStep
  PROVE  at[s] \in 1..Steps
BY DEF Jobs, JobInv, Ordered

LEMMA QueueSame ==
  ASSUME QueueTypeOK, UNCHANGED <<engineVars, queueVars>>
  PROVE  QueueTypeOK'
BY DEF QueueTypeOK, engineVars, queueVars

LEMMA LoopSame ==
  ASSUME LoopTypeOK, UNCHANGED jobVars
  PROVE  LoopTypeOK'
BY DEF LoopTypeOK, jobVars

LEMMA RelaySame ==
  ASSUME RelayTypeOK, UNCHANGED relayVars
  PROVE  RelayTypeOK'
BY DEF RelayTypeOK, relayVars

\* A job goes to another stage, and nothing else of it changes.
LEMMA LoopGoes ==
  ASSUME LoopTypeOK, NEW s \in Sessions, NEW stage \in JobStages,
         GoTo(s, stage),
         UNCHANGED <<at, entries, failed, returned, recoveries>>
  PROVE  LoopTypeOK'
BY DEF LoopTypeOK, GoTo

\* The relay does not store a verdict for the engine.
LEMMA NothingStored ==
  ASSUME NEW s, NEW k, NEW verdict, StoreDecision(s, k, verdict)
  PROVE  decision' = decision
BY DEF StoreDecision, SubscriberAccepts

\* Nor can it answer a request for healing.
LEMMA NothingHeals == HealingVerdicts = {FALSE}
BY DEF HealingVerdicts, SubscriberAccepts

\* An event the engine publishes starts a handler of the relay.
LEMMA RelayPublishes ==
  ASSUME RelayTypeOK, NEW s \in Sessions, NEW h \in Handlers, Publish(s, h),
         UNCHANGED <<decision, row>>
  PROVE  RelayTypeOK'
BY DEF RelayTypeOK, Publish

\* A handler ends or goes on as another one.
LEMMA RelayWorks ==
  ASSUME RelayTypeOK, NEW s \in Sessions, NEW h, NEW g \in Handlers,
         Done(s, h) \/ Becomes(s, h, g), UNCHANGED <<decision, row>>
  PROVE  RelayTypeOK'
BY DEF RelayTypeOK, Done, Becomes

LEMMA OneMore ==
  ASSUME NEW count \in [1..Steps -> Nat], NEW k \in 1..Steps
  PROVE  [count EXCEPT ![k] = @ + 1] \in [1..Steps -> Nat]
OBVIOUS

\* The action of a step returns.
LEMMA StepSucceedsType ==
  ASSUME Jobs, NEW s \in Sessions, pc[s] \in InStep, StepSucceeds(s)
  PROVE  /\ returned' \in [Sessions -> [1..Steps -> Nat]]
         /\ entries' \in [Sessions -> Nat]
         /\ \E h \in Handlers : Publish(s, h)
<1>1. at[s] \in 1..Steps
  BY InStepRange
<1>2. LoopTypeOK
  BY DEF Jobs, JobTypeOK
<1>3. Handler("step", at[s]) \in Handlers
  BY <1>1, HandlersListed
<1>4. returned[s] \in [1..Steps -> Nat] /\ entries[s] \in Nat
  BY <1>2 DEF LoopTypeOK
<1>5. [returned[s] EXCEPT ![at[s]] = @ + 1] \in [1..Steps -> Nat]
  BY <1>1, <1>4, OneMore
<1>6. returned' = [returned EXCEPT ![s] = [returned[s] EXCEPT ![at[s]] = @ + 1]]
  BY <1>2 DEF StepSucceeds, LoopTypeOK
<1>7. returned' \in [Sessions -> [1..Steps -> Nat]]
  BY <1>2, <1>5, <1>6 DEF LoopTypeOK
<1>8. entries' \in [Sessions -> Nat]
  BY <1>2, <1>4 DEF StepSucceeds, LoopTypeOK
<1> QED
  BY <1>3, <1>7, <1>8 DEF StepSucceeds

\* The loop goes on with the next step.
LEMMA NextStepType ==
  ASSUME Jobs, NEW s \in Sessions, pc[s] \in InStep, NextStep(s)
  PROVE  /\ at' \in [Sessions -> 1..(Steps + 1)]
         /\ pc' \in [Sessions -> JobStages]
<1>1. at[s] \in 1..Steps
  BY InStepRange
<1>2. at[s] + 1 \in 1..(Steps + 1)
  BY <1>1, StepsAssumption
<1> QED
  BY <1>2, StagesListed DEF NextStep, GoTo, Jobs, JobTypeOK, LoopTypeOK

LEMMA DispatchTypes ==
  ASSUME Jobs, NEW s \in Sessions, Dispatching(s) \/ Pop(s)
  PROVE  JobTypeOK'
<1> QueueTypeOK /\ LoopTypeOK /\ RelayTypeOK
  BY DEF Jobs, JobTypeOK
<1>1. QueueTypeOK'
  BY DEF Dispatching, CheckAlive, Push, Pop, QueueTypeOK, engineVars
<1>2. LoopTypeOK'
  BY LoopSame, LoopGoes, StagesListed DEF Dispatching, CheckAlive, Push, Pop
<1>3. RelayTypeOK'
  BY RelaySame DEF Dispatching, CheckAlive, Push, Pop
<1> QED
  BY <1>1, <1>2, <1>3 DEF JobTypeOK

LEMMA EngineLifeTypes ==
  ASSUME Jobs, EngineDies \/ HeartbeatExpires \/ EngineStarts
  PROVE  JobTypeOK'
<1> QueueTypeOK /\ LoopTypeOK /\ RelayTypeOK
  BY DEF Jobs, JobTypeOK
<1>1. QueueTypeOK'
  BY DEF EngineDies, HeartbeatExpires, EngineStarts, QueueTypeOK, queueVars
<1>2. LoopTypeOK'
  <2>1. CASE EngineDies
    BY <2>1, StagesListed DEF EngineDies, LoopTypeOK
  <2> QED
    BY <2>1, LoopSame DEF HeartbeatExpires, EngineStarts
<1>3. RelayTypeOK'
  BY RelaySame DEF EngineDies, HeartbeatExpires, EngineStarts
<1> QED
  BY <1>1, <1>2, <1>3 DEF JobTypeOK

LEMMA EngineTypes ==
  ASSUME Jobs, NEW s \in Sessions, Engine(s)
  PROVE  JobTypeOK'
<1> QueueTypeOK /\ LoopTypeOK /\ RelayTypeOK
  BY DEF Jobs, JobTypeOK
<1>1. QueueTypeOK'
  BY QueueSame
     DEF Engine, BrowserOpens, SkillEnds, BeginStep, PollDecision, Act,
         ConditionHolds, Heal, Finish
<1>2. CASE BrowserOpens(s)
  BY <1>1, <1>2, LoopGoes, RelaySame, StagesListed DEF BrowserOpens, JobTypeOK
<1>3. ASSUME NEW success \in BOOLEAN, PublishCompleted(s, success),
             UNCHANGED <<at, entries, failed, returned, recoveries, decision, row>>
      PROVE  JobTypeOK'
  <2>1. [event |-> "completed", success |-> success] \in Handlers
    BY HandlersListed
  <2> QED
    BY <1>1, <1>3, <2>1, LoopGoes, RelayPublishes, StagesListed
       DEF PublishCompleted, JobTypeOK
<1>4. CASE SkillEnds(s)
  BY <1>3, <1>4 DEF SkillEnds
<1>5. CASE BeginStep(s)
  <2>1. at[s] \in 1..Steps
    BY <1>5, StepsAssumption DEF BeginStep, LoopTypeOK
  <2>2. Handler("approval", at[s]) \in Handlers
    BY <2>1, HandlersListed
  <2>3. LoopTypeOK'
    BY <1>5, LoopGoes, StagesListed DEF BeginStep
  <2>4. RelayTypeOK'
    BY <1>5, <2>2, RelayPublishes, RelaySame DEF BeginStep, relayVars
  <2> QED
    BY <1>1, <2>3, <2>4 DEF JobTypeOK
<1>6. CASE PollDecision(s)
  <2>1. at[s] \in 1..Steps
    BY <1>6, InStepRange DEF PollDecision, InStep
  <2>2. Handler("denied", at[s]) \in Handlers
    BY <2>1, HandlersListed
  <2>a. UNCHANGED <<at, returned, recoveries>>
    BY <1>6 DEF PollDecision
  <2>b. pc' \in [Sessions -> JobStages]
    BY <1>6, StagesListed DEF PollDecision, StepDenied, GoTo, LoopTypeOK
  <2>c. entries' \in [Sessions -> Nat]
    <3>1. entries' = entries \/ entries' = [entries EXCEPT ![s] = @ + 1]
      BY <1>6 DEF PollDecision, StepDenied
    <3> QED
      BY <3>1 DEF LoopTypeOK
  <2>d. failed' \in [Sessions -> BOOLEAN]
    BY <1>6 DEF PollDecision, StepDenied, LoopTypeOK
  <2>3. LoopTypeOK'
    BY <2>a, <2>b, <2>c, <2>d DEF LoopTypeOK
  <2>4. decision' \in [Sessions -> [1..Steps -> Verdicts \cup {"NONE"}]]
    BY <1>6, <2>1 DEF PollDecision, NoDecision, RelayTypeOK
  <2>5. working' \in [Sessions -> SUBSET Handlers]
    BY <1>6, <2>2 DEF PollDecision, StepDenied, Publish, RelayTypeOK
  <2>6. RelayTypeOK'
    BY <1>6, <2>4, <2>5 DEF PollDecision, RelayTypeOK
  <2> QED
    BY <1>1, <2>3, <2>6 DEF JobTypeOK
<1>7. CASE Act(s)
  <2>1. pc[s] \in InStep /\ StepSucceeds(s)
    BY <1>7 DEF Act, InStep
  <2>2. /\ at' \in [Sessions -> 1..(Steps + 1)]
        /\ pc' \in [Sessions -> JobStages]
    BY <1>7, <2>1, NextStepType, StagesListed DEF Act, GoTo, LoopTypeOK
  <2>3. LoopTypeOK'
    BY <1>7, <2>1, <2>2, StepSucceedsType DEF Act, LoopTypeOK
  <2>4. RelayTypeOK'
    BY <1>7, <2>1, StepSucceedsType, RelayPublishes DEF Act
  <2> QED
    BY <1>1, <2>3, <2>4 DEF JobTypeOK
<1>8. CASE ConditionHolds(s)
  <2>1. pc[s] \in InStep /\ NextStep(s)
    BY <1>8 DEF ConditionHolds, InStep
  <2>2. LoopTypeOK'
    BY <1>8, <2>1, NextStepType DEF ConditionHolds, LoopTypeOK
  <2> QED
    BY <1>1, <1>8, <2>2, RelaySame DEF ConditionHolds, JobTypeOK
<1>9. CASE Heal(s)
  <2>a. /\ entries' = [entries EXCEPT ![s] = @ + 1]
        /\ failed' = [failed EXCEPT ![s] = TRUE]
        /\ GoTo(s, "finish")
        /\ UNCHANGED <<at, returned, recoveries, relayVars>>
    BY <1>9, NothingHeals DEF Heal, relayVars
  <2>b. entries' \in [Sessions -> Nat]
    BY <2>a DEF LoopTypeOK
  <2>c. failed' \in [Sessions -> BOOLEAN]
    BY <2>a DEF LoopTypeOK
  <2>d. pc' \in [Sessions -> JobStages]
    BY <2>a, StagesListed DEF GoTo, LoopTypeOK
  <2>1. LoopTypeOK'
    BY <2>a, <2>b, <2>c, <2>d DEF LoopTypeOK
  <2>2. RelayTypeOK'
    BY <2>a, RelaySame
  <2> QED
    BY <1>1, <2>1, <2>2 DEF JobTypeOK
<1>10. CASE Finish(s)
  <2>1. AllPassed(s) \in BOOLEAN
    BY DEF AllPassed
  <2> QED
    BY <1>3, <1>10, <2>1 DEF Finish
<1> QED
  BY <1>2, <1>4, <1>5, <1>6, <1>7, <1>8, <1>9, <1>10 DEF Engine

LEMMA MishapTypes ==
  ASSUME Jobs, NEW s \in Sessions, Mishap(s)
  PROVE  JobTypeOK'
<1> QueueTypeOK /\ LoopTypeOK /\ RelayTypeOK
  BY DEF Jobs, JobTypeOK
<1>1. QueueTypeOK'
  BY QueueSame
     DEF Mishap, BrowserFails, SkillThrows, StepThrows, StepCrashes, PageCrashes
<1>2. CASE BrowserFails(s) \/ SkillThrows(s)
  BY <1>1, <1>2, LoopGoes, RelayPublishes, HandlersListed, StagesListed
     DEF BrowserFails, SkillThrows, PublishFailed, JobTypeOK
<1>3. CASE StepThrows(s)
  BY <1>1, <1>3, LoopGoes, RelaySame, StagesListed DEF StepThrows, JobTypeOK
<1>4. ASSUME MayRecover(s), Relaunch(s)
      PROVE  recoveries' \in [Sessions -> 0..MaxRecoveries]
  <2>1. recoveries[s] \in 0..MaxRecoveries /\ recoveries[s] < MaxRecoveries
    BY <1>4 DEF MayRecover, LoopTypeOK
  <2>2. recoveries[s] + 1 \in 0..MaxRecoveries
    BY <2>1, MaxRecoveriesAssumption
  <2> QED
    BY <1>4, <2>2 DEF Relaunch, LoopTypeOK
<1>5. CASE StepCrashes(s)
  <2>1. LoopTypeOK'
    BY <1>4, <1>5, StagesListed DEF StepCrashes, Retry, GoTo, LoopTypeOK
  <2> QED
    BY <1>1, <1>5, <2>1, RelaySame DEF StepCrashes, JobTypeOK
<1>6. CASE PageCrashes(s)
  <2>1. LoopTypeOK'
    BY <1>4, <1>6 DEF PageCrashes, LoopTypeOK
  <2> QED
    BY <1>1, <1>6, <2>1, RelaySame DEF PageCrashes, JobTypeOK
<1> QED
  BY <1>2, <1>3, <1>5, <1>6 DEF Mishap

\* A request is answered.
LEMMA RowType ==
  ASSUME RelayTypeOK, NEW s \in Sessions, NEW k \in 1..Steps,
         NEW new \in Verdicts \cup {"NONE", "PENDING"},
         row' = row \/ row' = [row EXCEPT ![s][k] = new]
  PROVE  row' \in [Sessions -> [1..Steps -> Verdicts \cup {"NONE", "PENDING"}]]
<1>1. [row[s] EXCEPT ![k] = new] \in [1..Steps -> Verdicts \cup {"NONE", "PENDING"}]
  BY DEF RelayTypeOK
<1> QED
  BY <1>1 DEF RelayTypeOK

LEMMA RelayTypes ==
  ASSUME Jobs, NEW s \in Sessions, Relay(s)
  PROVE  JobTypeOK'
<1> QueueTypeOK /\ LoopTypeOK /\ RelayTypeOK
  BY DEF Jobs, JobTypeOK
<1>1. UNCHANGED <<engineVars, queueVars, jobVars>>
  BY DEF Relay, FindOrCreate, HoldStatus, RejectPending, RunningStatus,
         ReadStatus, WriteVerdict, WriteFailure
<1>2. QueueTypeOK' /\ LoopTypeOK'
  BY <1>1, QueueSame, LoopSame
<1>3. ASSUME NEW k \in 1..Steps, FindOrCreate(s, k) \/ RejectPending(s, k)
      PROVE  RelayTypeOK'
  <2>a. PICK new \in Verdicts \cup {"NONE", "PENDING"} :
          row' = row \/ row' = [row EXCEPT ![s][k] = new]
    <3>1. CASE FindOrCreate(s, k)
      BY <3>1 DEF FindOrCreate
    <3>2. CASE RejectPending(s, k)
      <4> DEFINE verdict == IF row[s][k] = "PENDING" THEN "REJECTED" ELSE row[s][k]
      <4>1. row' = [row EXCEPT ![s][k] = verdict]
        BY <3>2 DEF RejectPending
      <4>2. verdict \in Verdicts \cup {"NONE", "PENDING"}
        BY DEF Verdicts, RelayTypeOK
      <4> QED
        BY <4>1, <4>2
    <3> QED
      BY <1>3, <3>1, <3>2
  <2>1. row' \in [Sessions -> [1..Steps -> Verdicts \cup {"NONE", "PENDING"}]]
    BY <2>a, RowType
  <2>2. working' \in [Sessions -> SUBSET Handlers]
    BY <1>3, HandlersListed
       DEF FindOrCreate, RejectPending, Done, Becomes, RelayTypeOK
  <2> QED
    BY <1>3, <2>1, <2>2 DEF FindOrCreate, RejectPending, RelayTypeOK
<1>4. ASSUME NEW k \in 1..Steps, HoldStatus(s, k) \/ RunningStatus(s, k)
      PROVE  RelayTypeOK'
  BY <1>4, RelayWorks, HandlersListed DEF HoldStatus, RunningStatus
<1>5. ASSUME NEW success \in BOOLEAN,
             ReadStatus(s, success) \/ WriteVerdict(s, success)
      PROVE  RelayTypeOK'
  <2> DEFINE read    == [event |-> "completed", success |-> success]
             verdict == [event |-> "verdict", success |-> success]
  <2>1. read \in Handlers /\ verdict \in Handlers
    BY HandlersListed
  <2>2. CASE ReadStatus(s, success)
    <3>1. Done(s, read) \/ Becomes(s, read, verdict)
      BY <2>2 DEF ReadStatus
    <3>2. UNCHANGED <<decision, row>>
      BY <2>2 DEF ReadStatus
    <3> HIDE DEF read, verdict
    <3> QED
      BY <2>1, <3>1, <3>2, RelayWorks
  <2>3. CASE WriteVerdict(s, success)
    <3>1. Done(s, verdict) /\ UNCHANGED <<decision, row>>
      BY <2>3 DEF WriteVerdict
    <3> HIDE DEF read, verdict
    <3> QED
      BY <2>1, <3>1, RelayWorks
  <2> QED
    BY <1>5, <2>2, <2>3
<1>6. ASSUME WriteFailure(s) PROVE RelayTypeOK'
  <2> DEFINE failure == [event |-> "failed"]
  <2>1. Done(s, failure) /\ UNCHANGED <<decision, row>>
    BY <1>6 DEF WriteFailure
  <2>2. failure \in Handlers
    BY HandlersListed
  <2> HIDE DEF failure
  <2> QED
    BY <2>1, <2>2, RelayWorks
<1>7. RelayTypeOK'
  BY <1>3, <1>4, <1>5, <1>6 DEF Relay
<1> QED
  BY <1>2, <1>7 DEF JobTypeOK

LEMMA UserTypes ==
  ASSUME Jobs, NEW s \in Sessions, User(s) \/ StatusLands(s)
  PROVE  JobTypeOK'
<1> QueueTypeOK /\ LoopTypeOK /\ RelayTypeOK
  BY DEF Jobs, JobTypeOK
<1>1. UNCHANGED <<engineVars, queueVars, jobVars>>
  BY DEF User, Respond, Cancel, StatusLands
<1>2. QueueTypeOK' /\ LoopTypeOK'
  BY <1>1, QueueSame, LoopSame
<1>3. ASSUME NEW k \in 1..Steps, NEW verdict \in Verdicts,
             Respond(s, k, verdict)
      PROVE  RelayTypeOK'
  <2>1. UNCHANGED <<decision, working>>
    BY <1>3, NothingStored DEF Respond
  <2>2. row' \in [Sessions -> [1..Steps -> Verdicts \cup {"NONE", "PENDING"}]]
    BY <1>3, RowType DEF Respond
  <2> QED
    BY <2>1, <2>2 DEF RelayTypeOK
<1>4. ASSUME Cancel(s) \/ StatusLands(s) PROVE RelayTypeOK'
  <2>1. UNCHANGED relayVars
    BY <1>4 DEF Cancel, StatusLands
  <2> QED
    BY <2>1, RelaySame
<1>5. RelayTypeOK'
  BY <1>3, <1>4 DEF User
<1> QED
  BY <1>2, <1>5 DEF JobTypeOK

-----------------------------------------------------------------------------
(* The authority's variables keep their types. *)

LEMMA AuthSame ==
  ASSUME AuthTypeOK, UNCHANGED authVars
  PROVE  AuthTypeOK'
BY DEF AuthTypeOK, authVars

LEMMA RecordWritten ==
  ASSUME AuthTypeOK, NEW s \in Sessions, NEW new \in SessionRecords,
         Put(s, new), UNCHANGED <<tracked, db>>
  PROVE  AuthTypeOK'
BY PutType DEF AuthTypeOK

LEMMA BrowserWritten ==
  ASSUME AuthTypeOK, NEW s \in Sessions, NEW to \in BrowserStates,
         Put(s, WithBrowser(session[s], to)), UNCHANGED <<tracked, db>>
  PROVE  AuthTypeOK'
<1>1. session[s] \in SessionRecords
  BY DEF AuthTypeOK
<1> QED
  BY <1>1, WithBrowserOK, RecordWritten

LEMMA BrowserWrittenTwice ==
  ASSUME AuthTypeOK, NEW s \in Sessions,
         NEW first \in BrowserStates, NEW second \in BrowserStates,
         PutTwice(s, WithBrowser(session[s], first),
                  WithBrowser(WithBrowser(session[s], first), second)),
         UNCHANGED <<tracked, db>>
  PROVE  AuthTypeOK'
<1>1. session[s] \in SessionRecords
  BY DEF AuthTypeOK
<1>2. WithBrowser(session[s], first) \in SessionRecords
  BY <1>1, WithBrowserOK
<1>3. WithBrowser(WithBrowser(session[s], first), second) \in SessionRecords
  BY <1>2, WithBrowserOK
<1> QED
  BY <1>3, PutTwiceType DEF AuthTypeOK

LEMMA StatusWritten ==
  ASSUME AuthTypeOK, NEW s \in Sessions, NEW status \in DbStatuses,
         TryWrite(s, status), UNCHANGED <<tracked, session, inflight>>
  PROVE  AuthTypeOK'
BY DEF AuthTypeOK, TryWrite

LEMMA EngineAuth ==
  ASSUME AuthTypeOK, NEW s \in Sessions,
         Dispatching(s) \/ Pop(s) \/ Engine(s) \/ Mishap(s)
  PROVE  AuthTypeOK'
<1> {"INITIALIZING", "READY", "RUNNING", "STOPPED", "ERROR"} \subseteq BrowserStates
  BY DEF BrowserStates
<1>1. CASE Dispatching(s)
  BY <1>1, AuthSame DEF Dispatching, CheckAlive, Push
<1>2. CASE Pop(s)
  <2>1. \/ Put(s, WithBrowser(session[s], "INITIALIZING"))
        \/ UNCHANGED <<session, inflight>>
    BY <1>2 DEF Pop
  <2>2. UNCHANGED <<tracked, db>>
    BY <1>2 DEF Pop
  <2> QED
    BY <2>1, <2>2, BrowserWritten, AuthSame DEF authVars
<1>3. ASSUME BeginStep(s) \/ PollDecision(s) \/ Act(s) \/ ConditionHolds(s)
               \/ Heal(s) \/ StepThrows(s)
      PROVE  AuthTypeOK'
  <2>1. UNCHANGED authVars
    BY <1>3 DEF BeginStep, PollDecision, Act, ConditionHolds, Heal, StepThrows
  <2> QED
    BY <2>1, AuthSame
<1>4. ASSUME SkillEnds(s) \/ Finish(s)
      PROVE  AuthTypeOK'
  <2>1. Put(s, WithBrowser(session[s], "STOPPED")) /\ UNCHANGED <<tracked, db>>
    BY <1>4 DEF SkillEnds, Finish, PublishCompleted
  <2> QED
    BY <2>1, BrowserWritten
<1>5. ASSUME BrowserFails(s) \/ SkillThrows(s)
      PROVE  AuthTypeOK'
  <2>1. Put(s, WithBrowser(session[s], "ERROR")) /\ UNCHANGED <<tracked, db>>
    BY <1>5 DEF BrowserFails, SkillThrows, PublishFailed
  <2> QED
    BY <2>1, BrowserWritten
<1>6. CASE BrowserOpens(s)
  BY <1>6, BrowserWrittenTwice DEF BrowserOpens
<1>7. CASE StepCrashes(s)
  <2>1. \/ Put(s, WithBrowser(session[s], "RUNNING"))
        \/ UNCHANGED <<session, inflight>>
    BY <1>7 DEF StepCrashes
  <2>2. UNCHANGED <<tracked, db>>
    BY <1>7 DEF StepCrashes
  <2> QED
    BY <2>1, <2>2, BrowserWritten, AuthSame DEF authVars
<1>8. CASE PageCrashes(s)
  BY <1>8, BrowserWritten, BrowserWrittenTwice DEF PageCrashes
<1> QED
  BY <1>1, <1>2, <1>3, <1>4, <1>5, <1>6, <1>7, <1>8 DEF Engine, Mishap

LEMMA BackendAuth ==
  ASSUME AuthTypeOK, NEW s \in Sessions, Relay(s) \/ User(s) \/ StatusLands(s)
  PROVE  AuthTypeOK'
<1>1. ASSUME NEW k \in 1..Steps, FindOrCreate(s, k) \/ RejectPending(s, k)
      PROVE  AuthTypeOK'
  BY <1>1, AuthSame DEF FindOrCreate, RejectPending
<1>2. ASSUME NEW k \in 1..Steps, HoldStatus(s, k) \/ RunningStatus(s, k)
      PROVE  AuthTypeOK'
  BY <1>2, StatusWritten
     DEF HoldStatus, RunningStatus, DbStatuses, LiveStatuses
<1>3. ASSUME NEW success \in BOOLEAN, ReadStatus(s, success)
      PROVE  AuthTypeOK'
  BY <1>3, AuthSame DEF ReadStatus
<1>4. ASSUME NEW success \in BOOLEAN, WriteVerdict(s, success)
      PROVE  AuthTypeOK'
  BY <1>4, StatusWritten DEF WriteVerdict, FinalStatus, DbStatuses
<1>5. ASSUME WriteFailure(s) PROVE AuthTypeOK'
  BY <1>5, StatusWritten DEF WriteFailure, DbStatuses
<1>6. ASSUME NEW k \in 1..Steps, NEW verdict \in Verdicts,
             Respond(s, k, verdict)
      PROVE  AuthTypeOK'
  <2>1. session[s] \in SessionRecords
    BY DEF AuthTypeOK
  <2>2. WithGate(session[s], "CLEARED") \in SessionRecords
    BY <2>1, WithGateOK DEF GateStates
  <2> QED
    BY <1>6, <2>2, RecordWritten DEF Respond
<1>7. ASSUME Cancel(s) PROVE AuthTypeOK'
  <2> DEFINE aborting == [session[s] EXCEPT !.aborting = TRUE]
  <2>1. aborting \in SessionRecords
    BY DEF AuthTypeOK, SessionRecords
  <2> HIDE DEF aborting
  <2>2. WithBrowser(aborting, "STOPPED") \in SessionRecords
    BY <2>1, WithBrowserOK DEF BrowserStates
  <2>3. \/ /\ db' = [db EXCEPT ![s] = "CANCELLED"]
           /\ Untrack(s)
           /\ UNCHANGED inflight
        \/ /\ Put(s, WithBrowser(aborting, "STOPPED"))
           /\ UNCHANGED <<tracked, db>>
    BY <1>7 DEF Cancel, aborting
  <2>4. ASSUME db' = [db EXCEPT ![s] = "CANCELLED"], Untrack(s),
               UNCHANGED inflight
        PROVE  AuthTypeOK'
    BY <2>4, NewSessionOK DEF Untrack, AuthTypeOK, DbStatuses
  <2> QED
    BY <2>2, <2>3, <2>4, RecordWritten
<1>8. ASSUME StatusLands(s) PROVE AuthTypeOK'
  BY <1>8, LandType DEF StatusLands
<1> QED
  BY <1>1, <1>2, <1>3, <1>4, <1>5, <1>6, <1>7, <1>8 DEF Relay, User

-----------------------------------------------------------------------------
(* What is known of each job. *)

Job(s) == Fresh(s) /\ Ordered(s) /\ Counted(s)

\* A step that leaves the job of s where it is, but for its stage.
SameCounts(s) ==
  /\ at'[s] = at[s]
  /\ entries'[s] = entries[s]
  /\ failed'[s] = failed[s]
  /\ returned'[s] = returned[s]
  /\ recoveries'[s] = recoveries[s]

SamePlace(s) ==
  /\ dispatch'[s] = dispatch[s]
  /\ s \in queued' <=> s \in queued

LEMMA JobSame ==
  ASSUME NEW s \in Sessions, Job(s), SamePlace(s), SameCounts(s),
         pc'[s] = pc[s]
  PROVE  Job(s)'
BY DEF Job, Fresh, Ordered, Counted, Here, SamePlace, SameCounts

\* The types of one job.
LEMMA JobTypes ==
  ASSUME JobTypeOK, NEW s \in Sessions
  PROVE  /\ pc[s] \in JobStages
         /\ at[s] \in Nat /\ 1 <= at[s] /\ at[s] <= Steps + 1
         /\ entries[s] \in Nat
         /\ failed[s] \in BOOLEAN
         /\ returned[s] \in [1..Steps -> Nat]
         /\ recoveries[s] \in Nat
         /\ recoveries[s] <= MaxRecoveries
         /\ Here(s) \in Nat
<1>1. at[s] \in 1..(Steps + 1) /\ recoveries[s] \in 0..MaxRecoveries
  BY DEF JobTypeOK, LoopTypeOK
<1>2. returned[s] \in [1..Steps -> Nat]
  BY DEF JobTypeOK, LoopTypeOK
<1>3. at[s] \in Nat /\ 1 <= at[s] /\ at[s] <= Steps + 1
  BY <1>1, StepsAssumption
<1>4. Here(s) \in Nat
  BY <1>2, <1>3, StepsAssumption DEF Here
<1>5. recoveries[s] \in Nat /\ recoveries[s] <= MaxRecoveries
  BY <1>1, MaxRecoveriesAssumption
<1> QED
  BY <1>2, <1>3, <1>4, <1>5 DEF JobTypeOK, LoopTypeOK

\* The moves between stages in which no action of a step returns.
Moves(s, stage) ==
  \/ pc[s] = "opening" /\ stage \in {"step", "skill"}
  \/ pc[s] = "step" /\ at[s] <= Steps /\ stage \in {"approval", "act"}
  \/ pc[s] = "approval" /\ stage = "act"
  \/ pc[s] \in {"act", "wait"} /\ stage = "heal"
  \/ pc[s] \in Active /\ stage \in {"ended", "lost"}

LEMMA JobMoves ==
  ASSUME JobTypeOK, NEW s \in Sessions, Job(s), SamePlace(s), SameCounts(s),
         NEW stage, Moves(s, stage), pc'[s] = stage
  PROVE  Job(s)'
<1>1. /\ at[s] \in Nat /\ 1 <= at[s] /\ at[s] <= Steps + 1
      /\ entries[s] \in Nat /\ recoveries[s] \in Nat /\ Here(s) \in Nat
  BY JobTypes
<1>2. Here(s)' = Here(s)
  BY DEF Here, SameCounts
<1>3. pc[s] \in Active /\ pc[s] # "none"
  BY DEF Moves, Active
<1>4. Fresh(s)'
  BY <1>3 DEF Job, Fresh, Moves, SamePlace
<1>5. CASE pc[s] = "opening"
  <2>1. at[s] = 1 /\ entries[s] = 0 /\ ~failed[s] /\ Here(s) = 0
    BY <1>5 DEF Job, Fresh, Here
  <2>2. Ordered(s)'
    BY <1>1, <1>2, <1>5, <2>1
       DEF Job, Fresh, Ordered, Moves, SameCounts, InStep, Active
  <2>3. Counted(s)'
    BY <1>1, <1>2, <1>5, <2>1
       DEF Job, Fresh, Counted, Moves, SameCounts, InStep, Active
  <2> QED
    BY <1>4, <2>2, <2>3 DEF Job
<1>6. CASE pc[s] # "opening"
  <2>1. Ordered(s)'
    BY <1>1, <1>2, <1>6, StepsAssumption
       DEF Job, Ordered, Moves, SameCounts, InStep, Active
  <2>2. Counted(s)'
    BY <1>1, <1>2, <1>6
       DEF Job, Counted, Moves, SameCounts, InStep, Active
  <2> QED
    BY <1>4, <2>1, <2>2 DEF Job
<1> QED
  BY <1>5, <1>6

\* A step of the plan is given up: it was denied, or it could not be healed.
LEMMA JobFails ==
  ASSUME JobTypeOK, NEW s \in Sessions, Job(s), SamePlace(s),
         pc[s] \in {"approval", "heal"}, pc'[s] = "finish", failed'[s] = TRUE,
         at'[s] = at[s], returned'[s] = returned[s],
         recoveries'[s] = recoveries[s]
  PROVE  Job(s)'
<1>1. Fresh(s)'
  BY DEF Job, Fresh, SamePlace
<1>2. Ordered(s)'
  BY DEF Job, Ordered, InStep
<1>3. Counted(s)'
  BY DEF Counted, InStep
<1> QED
  BY <1>1, <1>2, <1>3 DEF Job

\* Recovering costs one of the recoveries the next run of the step needs.
LEMMA JobRecovers ==
  ASSUME JobTypeOK, NEW s \in Sessions, Job(s), SamePlace(s),
         recoveries'[s] = recoveries[s] + 1,
         at'[s] = at[s], entries'[s] = entries[s], failed'[s] = failed[s],
         returned'[s] = returned[s],
         \/ pc[s] \in {"act", "wait"} /\ pc'[s] \in {"step", "heal"}
         \/ pc[s] \in Active \ {"opening"} /\ pc'[s] = pc[s]
  PROVE  Job(s)'
<1>1. /\ at[s] \in Nat /\ 1 <= at[s] /\ at[s] <= Steps + 1
      /\ entries[s] \in Nat /\ recoveries[s] \in Nat /\ Here(s) \in Nat
      /\ returned[s] \in [1..Steps -> Nat]
  BY JobTypes
<1>2. Here(s)' = Here(s)
  BY DEF Here
<1>3. pc[s] \notin {"none", "opening"} /\ pc'[s] \notin {"none", "opening"}
  BY DEF Active
<1>4. Fresh(s)'
  BY <1>3 DEF Job, Fresh, SamePlace
<1>5. Here(s) <= recoveries[s] + 1
  BY <1>1, StepsAssumption DEF Job, Ordered, Here
<1>6. Ordered(s)'
  <2>1. pc'[s] \in InStep => at[s] \in 1..Steps
    BY DEF Job, Ordered, InStep
  <2>2. pc'[s] = "wait" => pc[s] = "wait"
    OBVIOUS
  <2>3. \A k \in 1..Steps :
          /\ k < at[s] => returned[s][k] >= 1
          /\ k > at[s] => returned[s][k] = 0
          /\ returned[s][k] <= recoveries[s] + 1 + 1
    <3>1. ASSUME NEW k \in 1..Steps
          PROVE  /\ k < at[s] => returned[s][k] >= 1
                 /\ k > at[s] => returned[s][k] = 0
                 /\ returned[s][k] <= recoveries[s] + 1
      BY DEF Job, Ordered
    <3>2. ASSUME NEW k \in 1..Steps PROVE returned[s][k] \in Nat
      BY <1>1
    <3> QED
      BY <1>1, <3>1, <3>2
  <2>4. Here(s)' <= recoveries'[s]
    BY <1>2, <1>5
  <2> QED
    BY <2>1, <2>2, <2>3, <2>4 DEF Job, Ordered
<1>7. Counted(s)'
  BY <1>1, <1>2, <1>3 DEF Job, Counted, InStep
<1> QED
  BY <1>4, <1>6, <1>7 DEF Job

\* The counts of a loop that is at step n, with c results and r recoveries.
CountsOf(n, count, c, r) ==
  /\ c >= n - 1 + count[n]
  /\ (\E k \in 1..Steps : k < n /\ count[k] > 1) => c >= n + count[n]
  /\ \A k \in 1..Steps :
       /\ k < n => count[k] >= 1
       /\ k > n => count[k] = 0
       /\ count[k] <= r + 1

\* The same when the loop has gone on behind step n.
CountsAfter(n, count, c, r) ==
  /\ c >= n
  /\ (\E k \in 1..Steps : k <= n /\ count[k] > 1) => c >= n + 1
  /\ \A k \in 1..Steps :
       /\ k <= n => count[k] >= 1
       /\ k > n => count[k] = 0
       /\ count[k] <= r + 1

LEMMA CountsReturn ==
  ASSUME NEW n \in 1..Steps, NEW count \in [1..Steps -> Nat], NEW c \in Nat,
         NEW r \in Nat, CountsOf(n, count, c, r), count[n] <= r
  PROVE  CountsOf(n, [count EXCEPT ![n] = @ + 1], c + 1, r)
<1> DEFINE again == [count EXCEPT ![n] = @ + 1]
<1>1. again[n] = count[n] + 1 /\ \A k \in 1..Steps : k # n => again[k] = count[k]
  OBVIOUS
<1>2. n \in Nat /\ count[n] \in Nat
  BY StepsAssumption
<1> HIDE DEF again
<1>3. c + 1 >= n - 1 + again[n]
  BY <1>1, <1>2 DEF CountsOf
<1>4. ASSUME NEW k \in 1..Steps, k < n, again[k] > 1
      PROVE  c + 1 >= n + again[n]
  <2>1. count[k] > 1
    BY <1>1, <1>2, <1>4
  <2>2. c >= n + count[n]
    BY <1>4, <2>1 DEF CountsOf
  <2> QED
    BY <1>1, <1>2, <2>2
<1>5. ASSUME NEW k \in 1..Steps
      PROVE  /\ k < n => again[k] >= 1
             /\ k > n => again[k] = 0
             /\ again[k] <= r + 1
  <2>1. CASE k = n
    BY <1>1, <1>2, <2>1
  <2>2. CASE k # n
    BY <1>1, <2>2 DEF CountsOf
  <2> QED
    BY <2>1, <2>2
<1>6. CountsOf(n, again, c + 1, r)
  BY <1>3, <1>4, <1>5 DEF CountsOf
<1> QED
  BY <1>6 DEF again

LEMMA CountsGoOn ==
  ASSUME NEW n \in 1..Steps, NEW count \in [1..Steps -> Nat], NEW c \in Nat,
         NEW r \in Nat, CountsOf(n, count, c, r), count[n] >= 1
  PROVE  CountsAfter(n, count, c, r)
<1>1. n \in Nat /\ count[n] \in Nat
  BY StepsAssumption
<1>2. c >= n
  BY <1>1 DEF CountsOf
<1>3. ASSUME NEW k \in 1..Steps, k <= n, count[k] > 1
      PROVE  c >= n + 1
  <2>1. CASE k = n
    BY <1>1, <1>3, <2>1 DEF CountsOf
  <2>2. CASE k # n
    <3>1. k < n
      BY <1>1, <1>3, <2>2
    <3>2. c >= n + count[n]
      BY <1>3, <3>1 DEF CountsOf
    <3> QED
      BY <1>1, <3>2
  <2> QED
    BY <2>1, <2>2
<1>4. ASSUME NEW k \in 1..Steps
      PROVE  /\ k <= n => count[k] >= 1
             /\ k > n => count[k] = 0
             /\ count[k] <= r + 1
  <2>1. CASE k = n
    BY <1>1, <2>1 DEF CountsOf
  <2>2. CASE k # n
    BY <1>1, <2>2 DEF CountsOf
  <2> QED
    BY <2>1, <2>2
<1> QED
  BY <1>2, <1>3, <1>4 DEF CountsAfter

\* What JobInv says inside a step, in these terms.
LEMMA JobCounts ==
  ASSUME JobTypeOK, NEW s \in Sessions, Job(s), pc[s] \in InStep
  PROVE  /\ at[s] \in 1..Steps
         /\ entries[s] \in Nat /\ recoveries[s] \in Nat
         /\ returned[s] \in [1..Steps -> Nat]
         /\ Here(s) = returned[s][at[s]]
         /\ ~failed[s]
         /\ CountsOf(at[s], returned[s], entries[s], recoveries[s])
<1>1. at[s] \in 1..Steps
  BY DEF Job, Ordered
<1>2. Here(s) = returned[s][at[s]]
  BY <1>1, StepsAssumption DEF Here
<1>3. CountsOf(at[s], returned[s], entries[s], recoveries[s])
  BY <1>2 DEF Job, Ordered, Counted, CountsOf
<1> QED
  BY <1>1, <1>2, <1>3, JobTypes DEF Job, Counted

\* The loop goes on behind the step it is at.
LEMMA JobGoesOn ==
  ASSUME NEW s \in Sessions, Job(s), SamePlace(s), at[s] \in 1..Steps,
         pc[s] # "none", pc'[s] = "step", at'[s] = at[s] + 1,
         failed'[s] = FALSE, recoveries'[s] = recoveries[s],
         recoveries[s] \in Nat, entries'[s] \in Nat,
         CountsAfter(at[s], returned'[s], entries'[s], recoveries[s])
  PROVE  Job(s)'
<1> DEFINE n == at[s]  again == returned'[s]  c == entries'[s]
<1>1. Fresh(s)'
  BY DEF Job, Fresh, SamePlace
<1>2. n \in Nat
  BY StepsAssumption
<1>3. Here(s)' = 0
  <2>1. CASE n + 1 <= Steps
    <3>1. n + 1 \in 1..Steps /\ n + 1 > n
      BY <1>2, <2>1, StepsAssumption
    <3>2. again[n + 1] = 0
      BY <3>1 DEF CountsAfter
    <3> QED
      BY <2>1, <3>2 DEF Here
  <2>2. CASE ~(n + 1 <= Steps)
    BY <2>2 DEF Here
  <2> QED
    BY <2>1, <2>2
<1>4. Ordered(s)'
  <2>1. ASSUME NEW k \in 1..Steps
        PROVE  /\ k < n + 1 => again[k] >= 1
               /\ k > n + 1 => again[k] = 0
               /\ again[k] <= recoveries[s] + 1
    BY <1>2 DEF CountsAfter
  <2> HIDE DEF n, again
  <2>2. at'[s] = n + 1 /\ returned'[s] = again
    BY DEF n, again
  <2> QED
    BY <1>3, <2>1, <2>2 DEF Ordered, InStep
<1>5. Counted(s)'
  <2>1. c >= (n + 1) - 1 + 0
    BY <1>2 DEF CountsAfter
  <2>2. ASSUME NEW k \in 1..Steps, k < n + 1, again[k] > 1
        PROVE  c >= (n + 1) + 0
    <3>1. k <= n
      BY <1>2, <2>2
    <3> QED
      BY <1>2, <2>2, <3>1 DEF CountsAfter
  <2> HIDE DEF n, again, c
  <2>3. at'[s] = n + 1 /\ returned'[s] = again /\ entries'[s] = c
    BY DEF n, again, c
  <2> QED
    BY <1>3, <2>1, <2>2, <2>3 DEF Counted, InStep
<1> QED
  BY <1>1, <1>4, <1>5 DEF Job

\* The action of a step has returned and its condition is awaited.
LEMMA JobWaits ==
  ASSUME NEW s \in Sessions, Job(s), SamePlace(s), at[s] \in 1..Steps,
         pc[s] # "none", pc'[s] = "wait", at'[s] = at[s],
         failed'[s] = FALSE, recoveries'[s] = recoveries[s],
         returned'[s][at[s]] >= 1,
         CountsOf(at[s], returned'[s], entries'[s], recoveries[s])
  PROVE  Job(s)'
<1>1. Fresh(s)'
  BY DEF Job, Fresh, SamePlace
<1>2. Here(s)' = returned'[s][at[s]]
  BY StepsAssumption DEF Here
<1>3. Ordered(s)'
  BY DEF Ordered, InStep, CountsOf
<1>4. Counted(s)'
  BY <1>2 DEF Counted, InStep, CountsOf
<1> QED
  BY <1>1, <1>3, <1>4 DEF Job

-----------------------------------------------------------------------------
(* Each step keeps what is known of each job. *)

\* A step of one session leaves the jobs of the others alone.
Untouched(t) == SamePlace(t) /\ SameCounts(t) /\ pc'[t] = pc[t]

LEMMA OnlyThisJob ==
  ASSUME JobInv, NEW s \in Sessions, Job(s)',
         \A t \in Sessions \ {s} : Untouched(t)
  PROVE  JobInv'
<1> SUFFICES ASSUME NEW t \in Sessions PROVE Job(t)'
  BY DEF JobInv, Job
<1>1. CASE t # s
  BY <1>1, JobSame DEF JobInv, Job, Untouched
<1> QED
  BY <1>1

LEMMA QueueUntouched ==
  ASSUME JobTypeOK, NEW s \in Sessions, Dispatching(s) \/ Pop(s),
         NEW t \in Sessions, t # s
  PROVE  Untouched(t)
BY DEF Dispatching, CheckAlive, Push, Pop, GoTo, Untouched, SamePlace,
       SameCounts, JobTypeOK, QueueTypeOK, LoopTypeOK, jobVars

LEMMA EngineUntouched ==
  ASSUME JobTypeOK, NEW s \in Sessions, Engine(s) \/ Mishap(s),
         NEW t \in Sessions, t # s
  PROVE  Untouched(t)
<1> LoopTypeOK
  BY DEF JobTypeOK
<1>1. SamePlace(t)
  BY DEF Engine, BrowserOpens, SkillEnds, BeginStep, PollDecision, Act,
         ConditionHolds, Heal, Finish, Mishap, BrowserFails, SkillThrows,
         StepThrows, StepCrashes, PageCrashes, SamePlace, queueVars
<1>2. ASSUME BrowserOpens(s) \/ SkillEnds(s) \/ BeginStep(s)
               \/ Finish(s) \/ BrowserFails(s) \/ SkillThrows(s)
               \/ StepThrows(s)
      PROVE  Untouched(t)
  <2>1. UNCHANGED <<at, entries, failed, returned, recoveries>>
    BY <1>2 DEF BrowserOpens, SkillEnds, BeginStep, Finish, BrowserFails,
                SkillThrows, StepThrows
  <2>2. \E stage : GoTo(s, stage)
    BY <1>2 DEF BrowserOpens, SkillEnds, BeginStep, Finish, BrowserFails,
                SkillThrows, StepThrows, PublishCompleted, PublishFailed
  <2>3. pc'[t] = pc[t]
    BY <2>2 DEF GoTo, LoopTypeOK
  <2> QED
    BY <1>1, <2>1, <2>3 DEF Untouched, SameCounts
<1>3. ASSUME PollDecision(s) \/ Heal(s) PROVE Untouched(t)
  <2>1. UNCHANGED <<at, returned, recoveries>>
    BY <1>3, NothingHeals DEF PollDecision, Heal
  <2>2. \E stage : GoTo(s, stage)
    BY <1>3, NothingHeals DEF PollDecision, StepDenied, Heal
  <2>3. pc'[t] = pc[t]
    BY <2>2 DEF GoTo, LoopTypeOK
  <2>4. /\ entries' = entries \/ entries' = [entries EXCEPT ![s] = @ + 1]
        /\ failed' = failed \/ failed' = [failed EXCEPT ![s] = TRUE]
    BY <1>3, NothingHeals DEF PollDecision, StepDenied, Heal
  <2>5. entries'[t] = entries[t] /\ failed'[t] = failed[t]
    BY <2>4 DEF LoopTypeOK
  <2> QED
    BY <1>1, <2>1, <2>3, <2>5 DEF Untouched, SameCounts
<1>4. ASSUME Act(s) \/ ConditionHolds(s) PROVE Untouched(t)
  <2>1. UNCHANGED <<failed, recoveries>>
    BY <1>4 DEF Act, ConditionHolds
  <2>2. /\ \E stage : GoTo(s, stage)
        /\ at' = at \/ at' = [at EXCEPT ![s] = @ + 1]
    BY <1>4 DEF Act, ConditionHolds, NextStep
  <2>3. pc'[t] = pc[t] /\ at'[t] = at[t]
    BY <2>2 DEF GoTo, LoopTypeOK
  <2>4. /\ entries' = entries \/ entries' = [entries EXCEPT ![s] = @ + 1]
        /\ returned' = returned
             \/ returned' = [returned EXCEPT ![s][at[s]] = @ + 1]
    BY <1>4 DEF Act, ConditionHolds, StepSucceeds
  <2>5. entries'[t] = entries[t] /\ returned'[t] = returned[t]
    BY <2>4 DEF LoopTypeOK
  <2> QED
    BY <1>1, <2>1, <2>3, <2>5 DEF Untouched, SameCounts
<1>5. ASSUME StepCrashes(s) \/ PageCrashes(s) PROVE Untouched(t)
  <2>1. UNCHANGED <<at, entries, failed, returned>>
    BY <1>5 DEF StepCrashes, PageCrashes, Retry
  <2>2. /\ recoveries' = recoveries
             \/ recoveries' = [recoveries EXCEPT ![s] = @ + 1]
        /\ pc' = pc \/ \E stage : GoTo(s, stage)
    BY <1>5 DEF StepCrashes, PageCrashes, Retry, Relaunch
  <2>3. pc'[t] = pc[t] /\ recoveries'[t] = recoveries[t]
    BY <2>2 DEF GoTo, LoopTypeOK
  <2> QED
    BY <1>1, <2>1, <2>3 DEF Untouched, SameCounts
<1> QED
  BY <1>2, <1>3, <1>4, <1>5 DEF Engine, Mishap

LEMMA QueueJob ==
  ASSUME JobTypeOK, NEW s \in Sessions, Job(s), Dispatching(s) \/ Pop(s)
  PROVE  Job(s)'
<1> LoopTypeOK /\ QueueTypeOK
  BY DEF JobTypeOK
<1>1. CASE Dispatching(s)
  <2>1. pc'[s] = pc[s] /\ SameCounts(s)
    BY <1>1 DEF Dispatching, CheckAlive, Push, SameCounts, jobVars
  <2>2. /\ dispatch[s] \in {"new", "pushing"}
        /\ s \in queued' => s \in queued \/ dispatch[s] = "pushing"
        /\ dispatch'[s] \in {"pushing", "sent", "inline"}
        /\ dispatch'[s] = "pushing" => s \notin queued'
    BY <1>1 DEF Dispatching, CheckAlive, Push, QueueTypeOK, Job, Fresh
  <2>3. Fresh(s)'
    BY <2>1, <2>2 DEF Job, Fresh, SameCounts
  <2>4. Ordered(s)' /\ Counted(s)'
    BY <2>1 DEF Job, Ordered, Counted, Here, SameCounts
  <2> QED
    BY <2>3, <2>4 DEF Job
<1>2. CASE Pop(s)
  <2>1. /\ s \in queued /\ s \notin queued' /\ pc[s] = "none"
        /\ dispatch[s] \notin {"new", "pushing"} /\ dispatch'[s] = dispatch[s]
        /\ SameCounts(s)
    BY <1>2 DEF Pop, SameCounts, Job, Fresh
  <2>2. pc'[s] \in {"opening", "lost"}
    BY <1>2 DEF Pop, GoTo, LoopTypeOK
  <2>3. Fresh(s)'
    BY <2>1, <2>2 DEF Job, Fresh, SameCounts
  <2>4. Ordered(s)' /\ Counted(s)'
    BY <2>1, <2>2 DEF Job, Ordered, Counted, Here, SameCounts, InStep
  <2> QED
    BY <2>3, <2>4 DEF Job
<1> QED
  BY <1>1, <1>2

LEMMA EngineJob ==
  ASSUME JobTypeOK, NEW s \in Sessions, Job(s), Engine(s)
  PROVE  Job(s)'
<1> LoopTypeOK
  BY DEF JobTypeOK
<1>1. SamePlace(s)
  BY DEF Engine, BrowserOpens, SkillEnds, BeginStep, PollDecision, Act,
         ConditionHolds, Heal, Finish, SamePlace, queueVars
<1>2. ASSUME UNCHANGED <<at, entries, failed, returned, recoveries>>,
             NEW stage, GoTo(s, stage), Moves(s, stage)
      PROVE  Job(s)'
  <2>1. SameCounts(s) /\ pc'[s] = stage
    BY <1>2 DEF SameCounts, GoTo, LoopTypeOK
  <2> QED
    BY <1>1, <1>2, <2>1, JobMoves
<1>3. CASE BrowserOpens(s)
  <2> DEFINE stage == IF skill[s] THEN "skill" ELSE "step"
  <2>1. GoTo(s, stage) /\ Moves(s, stage)
    BY <1>3 DEF BrowserOpens, Moves
  <2> QED
    BY <1>2, <1>3, <2>1 DEF BrowserOpens
<1>4. CASE SkillEnds(s) \/ Finish(s)
  <2>1. GoTo(s, "ended") /\ Moves(s, "ended")
    BY <1>4 DEF SkillEnds, Finish, PublishCompleted, Moves, Active
  <2> QED
    BY <1>2, <1>4, <2>1 DEF SkillEnds, Finish
<1>5. CASE BeginStep(s)
  <2>1. PICK stage \in {"approval", "act"} : GoTo(s, stage)
    BY <1>5 DEF BeginStep
  <2>2. Moves(s, stage)
    BY <1>5, <2>1 DEF BeginStep, Moves
  <2> QED
    BY <1>2, <1>5, <2>1, <2>2 DEF BeginStep
<1>6. ASSUME GoTo(s, "finish"), failed' = [failed EXCEPT ![s] = TRUE],
             UNCHANGED <<at, returned, recoveries>>,
             pc[s] \in {"approval", "heal"}
      PROVE  Job(s)'
  <2>1. pc'[s] = "finish" /\ failed'[s] = TRUE
    BY <1>6 DEF GoTo, LoopTypeOK
  <2> QED
    BY <1>1, <1>6, <2>1, JobFails
<1>7. CASE PollDecision(s)
  <2>1. CASE decision[s][at[s]] = "APPROVED"
    <3>1. GoTo(s, "act") /\ Moves(s, "act")
      BY <1>7, <2>1 DEF PollDecision, Moves
    <3> QED
      BY <1>2, <1>7, <2>1, <3>1 DEF PollDecision
  <2>2. CASE decision[s][at[s]] # "APPROVED"
    BY <1>6, <1>7, <2>2 DEF PollDecision, StepDenied
  <2> QED
    BY <2>1, <2>2
<1>8. CASE Heal(s)
  BY <1>6, <1>8, NothingHeals DEF Heal
<1>9. CASE Act(s)
  <2> DEFINE n == at[s]  again == [returned[s] EXCEPT ![n] = @ + 1]
  <2>1. pc[s] \in InStep /\ pc[s] # "none"
    BY <1>9 DEF Act, InStep
  <2>2. /\ n \in 1..Steps
        /\ entries[s] \in Nat /\ recoveries[s] \in Nat
        /\ returned[s] \in [1..Steps -> Nat]
        /\ failed[s] = FALSE
        /\ CountsOf(n, returned[s], entries[s], recoveries[s])
    BY <2>1, JobCounts DEF LoopTypeOK
  <2>3. returned[s][n] <= recoveries[s]
    BY <1>9, <2>1, JobCounts DEF Act, Job, Ordered
  <2>4. CountsOf(n, again, entries[s] + 1, recoveries[s])
    BY <2>2, <2>3, CountsReturn
  <2>5. returned'[s] = again /\ entries'[s] = entries[s] + 1
    <3>1. /\ returned' = [returned EXCEPT ![s] = again]
          /\ entries' = [entries EXCEPT ![s] = @ + 1]
      BY <1>9 DEF Act, StepSucceeds, LoopTypeOK
    <3>2. entries'[s] = entries[s] + 1
      BY <3>1 DEF LoopTypeOK
    <3> HIDE DEF again
    <3>3. returned'[s] = again
      BY <3>1 DEF LoopTypeOK
    <3> QED
      BY <3>2, <3>3
  <2>6. failed'[s] = FALSE /\ recoveries'[s] = recoveries[s]
    <3>1. UNCHANGED <<failed, recoveries>>
      BY <1>9 DEF Act
    <3> QED
      BY <2>2, <3>1
  <2>7. again[n] >= 1 /\ again \in [1..Steps -> Nat]
    <3>1. again[n] = returned[s][n] + 1 /\ returned[s][n] \in Nat
      BY <2>2
    <3>2. again \in [1..Steps -> Nat]
      BY <2>2, OneMore
    <3> HIDE DEF again
    <3> QED
      BY <3>1, <3>2
  <2>8. CASE GoTo(s, "wait") /\ UNCHANGED at
    <3>1. pc'[s] = "wait" /\ at'[s] = at[s]
      BY <2>8 DEF GoTo, LoopTypeOK
    <3> HIDE DEF again
    <3> QED
      BY <1>1, <2>1, <2>2, <2>4, <2>5, <2>6, <2>7, <3>1, JobWaits
  <2>9. CASE NextStep(s)
    <3>1. pc'[s] = "step" /\ at'[s] = at[s] + 1
      BY <2>9 DEF NextStep, GoTo, LoopTypeOK
    <3>2. entries[s] + 1 \in Nat
      BY <2>2
    <3> HIDE DEF again
    <3>3. CountsAfter(n, again, entries[s] + 1, recoveries[s])
      BY <2>2, <2>4, <2>7, <3>2, CountsGoOn
    <3> QED
      BY <1>1, <2>1, <2>2, <2>5, <2>6, <3>1, <3>2, <3>3, JobGoesOn
  <2> QED
    BY <1>9, <2>8, <2>9 DEF Act
<1>10. CASE ConditionHolds(s)
  <2>1. pc[s] \in InStep /\ pc[s] # "none"
    BY <1>10 DEF ConditionHolds, InStep
  <2>2. returned[s][at[s]] >= 1
    BY <1>10 DEF ConditionHolds, Job, Ordered
  <2>3. /\ at[s] \in 1..Steps
        /\ entries[s] \in Nat /\ recoveries[s] \in Nat
        /\ failed[s] = FALSE
        /\ CountsAfter(at[s], returned[s], entries[s], recoveries[s])
    BY <2>1, <2>2, JobCounts, CountsGoOn DEF LoopTypeOK
  <2>4. pc'[s] = "step" /\ at'[s] = at[s] + 1
    BY <1>10 DEF ConditionHolds, NextStep, GoTo, LoopTypeOK
  <2>5. UNCHANGED <<entries, failed, returned, recoveries>>
    BY <1>10 DEF ConditionHolds
  <2> QED
    BY <1>1, <2>1, <2>3, <2>4, <2>5, JobGoesOn
<1> QED
  BY <1>3, <1>4, <1>5, <1>7, <1>8, <1>9, <1>10 DEF Engine

LEMMA MishapJob ==
  ASSUME JobTypeOK, NEW s \in Sessions, Job(s), Mishap(s)
  PROVE  Job(s)'
<1> LoopTypeOK
  BY DEF JobTypeOK
<1>1. SamePlace(s)
  BY DEF Mishap, BrowserFails, SkillThrows, StepThrows, StepCrashes,
         PageCrashes, SamePlace, queueVars
<1>2. ASSUME BrowserFails(s) \/ SkillThrows(s) \/ StepThrows(s) PROVE Job(s)'
  <2>1. PICK stage \in {"ended", "heal"} : GoTo(s, stage) /\ Moves(s, stage)
    BY <1>2 DEF BrowserFails, SkillThrows, StepThrows, PublishFailed, Moves,
                Failing, Active
  <2>2. SameCounts(s) /\ pc'[s] = stage
    BY <1>2, <2>1 DEF BrowserFails, SkillThrows, StepThrows, SameCounts, GoTo,
                      LoopTypeOK
  <2> QED
    BY <1>1, <2>1, <2>2, JobMoves
<1>3. CASE StepCrashes(s)
  <2>1. pc[s] \in {"act", "wait"} /\ pc'[s] \in {"step", "heal"}
    BY <1>3 DEF StepCrashes, Failing, Retry, GoTo, LoopTypeOK
  <2>2. /\ recoveries'[s] = recoveries[s] + 1
        /\ UNCHANGED <<at, entries, failed, returned>>
    BY <1>3 DEF StepCrashes, Retry, Relaunch, LoopTypeOK
  <2> QED
    BY <1>1, <2>1, <2>2, JobRecovers
<1>4. CASE PageCrashes(s)
  <2>1. pc[s] \in Active \ {"opening"}
        /\ UNCHANGED <<pc, at, entries, failed, returned>>
    BY <1>4 DEF PageCrashes
  <2>2. recoveries'[s] \in {recoveries[s], recoveries[s] + 1}
    BY <1>4 DEF PageCrashes, Relaunch, LoopTypeOK
  <2>3. CASE recoveries'[s] = recoveries[s]
    BY <1>1, <2>1, <2>3, JobSame DEF SameCounts
  <2>4. CASE recoveries'[s] = recoveries[s] + 1
    BY <1>1, <2>1, <2>4, JobRecovers
  <2> QED
    BY <2>2, <2>3, <2>4
<1> QED
  BY <1>2, <1>3, <1>4 DEF Mishap

LEMMA JobStep ==
  ASSUME JobTypeOK, JobInv, [Next]_vars
  PROVE  JobInv'
<1>1. ASSUME \A t \in Sessions : Untouched(t) PROVE JobInv'
  BY <1>1, JobSame DEF JobInv, Job, Untouched
<1>2. CASE UNCHANGED vars
  BY <1>1, <1>2 DEF vars, queueVars, jobVars, Untouched, SamePlace, SameCounts
<1>3. ASSUME NEW s \in Sessions, Relay(s) \/ User(s) \/ StatusLands(s)
      PROVE  JobInv'
  <2>1. UNCHANGED <<queueVars, jobVars>>
    BY <1>3 DEF Relay, FindOrCreate, HoldStatus, RejectPending, RunningStatus,
                ReadStatus, WriteVerdict, WriteFailure, User, Respond, Cancel,
                StatusLands
  <2> QED
    BY <1>1, <2>1 DEF queueVars, jobVars, Untouched, SamePlace, SameCounts
<1>4. ASSUME NEW s \in Sessions,
             Dispatching(s) \/ Pop(s) \/ Engine(s) \/ Mishap(s)
      PROVE  JobInv'
  <2>1. Job(s)
    BY DEF JobInv, Job
  <2>2. Job(s)'
    BY <1>4, <2>1, QueueJob, EngineJob, MishapJob
  <2>3. \A t \in Sessions \ {s} : Untouched(t)
    BY <1>4, QueueUntouched, EngineUntouched
  <2> QED
    BY <2>2, <2>3, OnlyThisJob
<1>5. CASE HeartbeatExpires \/ EngineStarts
  BY <1>1, <1>5 DEF HeartbeatExpires, EngineStarts, queueVars, jobVars,
                    Untouched, SamePlace, SameCounts
<1>6. CASE EngineDies
  <2> SUFFICES ASSUME NEW t \in Sessions PROVE Job(t)'
    BY DEF JobInv, Job
  <2>1. SamePlace(t) /\ SameCounts(t) /\ Job(t)
    BY <1>6 DEF EngineDies, queueVars, SamePlace, SameCounts, JobInv, Job
  <2>2. CASE pc[t] \in Active
    <3>1. pc'[t] = "lost" /\ Moves(t, "lost")
      BY <1>6, <2>2 DEF EngineDies, Moves
    <3> QED
      BY <2>1, <3>1, JobMoves
  <2>3. CASE pc[t] \notin Active
    BY <1>6, <2>1, <2>3, JobSame DEF EngineDies
  <2> QED
    BY <2>2, <2>3
<1> QED
  BY <1>2, <1>3, <1>4, <1>5, <1>6 DEF Next, BegunWork

LEMMA TypeStep ==
  ASSUME AuthTypeOK, JobTypeOK, JobInv, [Next]_vars
  PROVE  AuthTypeOK' /\ JobTypeOK'
<1> Jobs
  BY DEF Jobs
<1>1. CASE UNCHANGED vars
  BY <1>1, AuthSame, QueueSame, LoopSame, RelaySame DEF vars, JobTypeOK
<1>2. CASE EngineDies \/ HeartbeatExpires \/ EngineStarts
  BY <1>2, AuthSame, EngineLifeTypes
     DEF EngineDies, HeartbeatExpires, EngineStarts
<1>3. ASSUME NEW s \in Sessions,
             Dispatching(s) \/ Pop(s) \/ Engine(s) \/ Mishap(s)
      PROVE  AuthTypeOK' /\ JobTypeOK'
  BY <1>3, EngineAuth, DispatchTypes, EngineTypes, MishapTypes
<1>4. ASSUME NEW s \in Sessions, Relay(s) \/ User(s) \/ StatusLands(s)
      PROVE  AuthTypeOK' /\ JobTypeOK'
  BY <1>4, BackendAuth, RelayTypes, UserTypes
<1> QED
  BY <1>1, <1>2, <1>3, <1>4 DEF Next, BegunWork

LEMMA ClearedOK == Cleared \in SessionRecords
<1>1. WithGate(NewSession, "PLAN_READY") \in SessionRecords
  BY NewSessionOK, WithGateOK DEF GateStates
<1> QED
  BY <1>1, WithGateOK DEF Cleared, GateStates

LEMMA InitJobs == WorkerInit => AuthTypeOK /\ JobTypeOK /\ JobInv
<1> SUFFICES ASSUME WorkerInit PROVE AuthTypeOK /\ JobTypeOK /\ JobInv
  OBVIOUS
<1>1. AuthTypeOK
  BY ClearedOK
     DEF WorkerInit, AuthTypeOK, NoUpdates, DbStatuses, LiveStatuses
<1>2. QueueTypeOK
  BY DEF WorkerInit, QueueTypeOK
<1>3. LoopTypeOK
  BY StagesListed, StepsAssumption, MaxRecoveriesAssumption
     DEF WorkerInit, LoopTypeOK
<1>4. RelayTypeOK
  <2> DEFINE none == [k \in 1..Steps |-> "NONE"]
  <2>1. none \in [1..Steps -> Verdicts \cup {"NONE"}]
        /\ none \in [1..Steps -> Verdicts \cup {"NONE", "PENDING"}]
    OBVIOUS
  <2>2. /\ decision = [s \in Sessions |-> none]
        /\ row = [s \in Sessions |-> none]
        /\ working = [s \in Sessions |-> {}]
    BY DEF WorkerInit
  <2> HIDE DEF none
  <2> QED
    BY <2>1, <2>2 DEF RelayTypeOK
<1>5. JobInv
  <2> SUFFICES ASSUME NEW s \in Sessions
               PROVE  Fresh(s) /\ Ordered(s) /\ Counted(s)
    BY DEF JobInv
  <2>1. /\ pc[s] = "none" /\ at[s] = 1 /\ entries[s] = 0 /\ failed[s] = FALSE
        /\ recoveries[s] = 0 /\ queued = {}
        /\ \A k \in 1..Steps : returned[s][k] = 0
    BY DEF WorkerInit
  <2> QED
    BY <2>1 DEF Fresh, Ordered, Counted, InStep
<1> QED
  BY <1>1, <1>2, <1>3, <1>4, <1>5 DEF JobTypeOK

\* Typing and the knowledge of the jobs are inductive only together: the index
\* of the loop stays in range because a job inside a step is at one of them.
THEOREM WorkerJobInv == Spec => [](AuthTypeOK /\ JobTypeOK /\ JobInv)
<1> DEFINE IInv == AuthTypeOK /\ JobTypeOK /\ JobInv
<1>1. WorkerInit => IInv
  BY InitJobs
<1>2. IInv /\ [Next]_vars => IInv'
  BY TypeStep, JobStep
<1> QED
  BY <1>1, <1>2, PTL DEF Spec

\* Every variable keeps the shape the code gives it.
THEOREM WorkerTyping == Spec => []WorkerTypeOK
<1>1. AuthTypeOK /\ JobTypeOK => WorkerTypeOK
  BY DEF WorkerTypeOK, JobTypeOK, QueueTypeOK, LoopTypeOK, RelayTypeOK, JobStages
<1> QED
  BY <1>1, WorkerJobInv, PTL

\* Whatever crashes, recovers or is retried, steps take effect in the order of
\* the plan.
THEOREM WorkerStepsInOrder == Spec => []StepsInOrder
<1>1. JobTypeOK /\ JobInv => StepsInOrder
  <2> SUFFICES ASSUME JobTypeOK, NEW s \in Sessions, Job(s),
                      NEW j \in 1..Steps, NEW k \in 1..Steps, j < k,
                      returned[s][k] > 0
               PROVE  returned[s][j] > 0
    BY DEF StepsInOrder, JobInv, Job
  <2>1. at[s] \in Nat /\ returned[s][j] \in Nat
    BY JobTypes
  <2>2. ~(k > at[s])
    <3>1. k > at[s] => returned[s][k] = 0
      BY DEF Job, Ordered
    <3> QED
      BY <3>1
  <2>3. j < at[s]
    BY <2>1, <2>2, StepsAssumption
  <2>4. returned[s][j] >= 1
    BY <2>3 DEF Job, Ordered
  <2> QED
    BY <2>1, <2>4
<1> QED
  BY <1>1, WorkerJobInv, PTL

-----------------------------------------------------------------------------
(* Recorded successes. *)

\* No other handler is a winner.
LEMMA Losers ==
  /\ \A event \in {"approval", "hold", "step", "denied"} : \A k :
       Handler(event, k) \notin Winners
  /\ [event |-> "failed"] \notin Winners
  /\ \A event : [event |-> event, success |-> FALSE] \notin Winners
<1>1. \A h \in Winners : h.event \in {"completed", "verdict"} /\ h.success = TRUE
  BY DEF Winners
<1>2. \A event, k : Handler(event, k).event = event
  BY DEF Handler
<1>3. [event |-> "failed"].event = "failed"
  OBVIOUS
<1>4. \A event : [event |-> event, success |-> FALSE].success = FALSE
  OBVIOUS
<1> QED
  BY <1>1, <1>2, <1>3, <1>4

\* A step that lets no new success begin.
NothingWon(t) == Succeeds(t)' => Succeeds(t)

LEMMA EarnedStays ==
  ASSUME NEW t \in Sessions, Earned(t), NothingWon(t), skill' = skill,
         pc[t] = "ended" => pc'[t] = "ended" /\ returned'[t] = returned[t]
  PROVE  Earned(t)'
BY DEF Earned, NothingWon

\* A plan that passed ran every step once.
LEMMA PassedIsExact ==
  ASSUME JobTypeOK, NEW s \in Sessions, Job(s), AllPassed(s),
         pc[s] = "finish" \/ (pc[s] = "step" /\ at[s] > Steps),
         NEW k \in 1..Steps
  PROVE  returned[s][k] = 1
<1>1. /\ at[s] \in Nat /\ at[s] <= Steps + 1 /\ Here(s) \in Nat
      /\ returned[s][k] \in Nat /\ entries[s] \in Nat
  BY JobTypes
<1>2. pc[s] = "step" /\ at[s] > Steps
  BY DEF AllPassed, Job, Counted
<1>3. k < at[s]
  BY <1>1, <1>2, StepsAssumption
<1>4. returned[s][k] >= 1
  BY <1>3 DEF Job, Ordered
<1>5. ASSUME returned[s][k] > 1 PROVE FALSE
  <2>1. entries[s] >= at[s] + Here(s)
    BY <1>2, <1>3, <1>5 DEF Job, Counted
  <2>2. entries[s] = Steps
    BY DEF AllPassed
  <2> QED
    BY <1>1, <1>2, <2>1, <2>2, StepsAssumption
<1> QED
  BY <1>1, <1>4, <1>5

\* The engine publishes a success only when a plan has passed.
LEMMA EngineWins ==
  ASSUME AuthTypeOK, JobTypeOK, NEW s \in Sessions, Job(s),
         Engine(s) \/ Mishap(s),
         ~(SkillEnds(s) \/ Finish(s)),
         NEW t \in Sessions
  PROVE  NothingWon(t)
<1>1. db' = db
  BY DEF Engine, BrowserOpens, BeginStep, PollDecision, Act, ConditionHolds,
         Heal, Mishap, BrowserFails, SkillThrows, StepThrows, StepCrashes,
         PageCrashes, authVars
<1>2. \/ working' = working
      \/ \E event \in {"approval", "step", "denied"} :
           Publish(s, Handler(event, at[s]))
      \/ Publish(s, [event |-> "failed"])
  <2>1. CASE BeginStep(s) \/ PollDecision(s) \/ Act(s)
    BY <2>1 DEF BeginStep, PollDecision, StepDenied, Act, StepSucceeds
  <2>2. CASE BrowserFails(s) \/ SkillThrows(s)
    BY <2>2 DEF BrowserFails, SkillThrows, PublishFailed
  <2>3. CASE BrowserOpens(s) \/ ConditionHolds(s) \/ Heal(s) \/ StepThrows(s)
               \/ StepCrashes(s) \/ PageCrashes(s)
    BY <2>3, NothingHeals
       DEF BrowserOpens, ConditionHolds, Heal, StepThrows, StepCrashes,
           PageCrashes, relayVars
  <2> QED
    BY <2>1, <2>2, <2>3 DEF Engine, Mishap
<1>3. PICK h : h \notin Winners /\ (working' = working \/ Publish(s, h))
  BY <1>2, Losers
<1>4. working'[t] \subseteq working[t] \cup {h}
  BY <1>3 DEF Publish, JobTypeOK, RelayTypeOK
<1> QED
  BY <1>1, <1>3, <1>4 DEF NothingWon, Succeeds

\* The relay's handlers win only what a winner before them had won.
LEMMA RelayWins ==
  ASSUME AuthTypeOK, JobTypeOK, NEW s \in Sessions, Relay(s),
         NEW t \in Sessions
  PROVE  NothingWon(t)
<1> RelayTypeOK
  BY DEF JobTypeOK
<1>1. ASSUME NEW h, NEW g, Done(s, h) \/ Becomes(s, h, g)
      PROVE  working'[t] \subseteq working[t] \cup {g}
  BY <1>1 DEF Done, Becomes, RelayTypeOK
<1>2. ASSUME NEW status, status # "COMPLETED", TryWrite(s, status)
      PROVE  db'[t] = "COMPLETED" => db[t] = "COMPLETED"
  BY <1>2 DEF TryWrite, AuthTypeOK
<1>3. ASSUME NEW k \in 1..Steps, FindOrCreate(s, k) \/ RejectPending(s, k)
      PROVE  NothingWon(t)
  <2>1. working'[t] \subseteq working[t] \cup {Handler("hold", k)}
    BY <1>1, <1>3 DEF FindOrCreate, RejectPending
  <2>2. db' = db
    BY <1>3 DEF FindOrCreate, RejectPending, authVars
  <2> QED
    BY <2>1, <2>2, Losers DEF NothingWon, Succeeds
<1>4. ASSUME NEW k \in 1..Steps, HoldStatus(s, k) \/ RunningStatus(s, k)
      PROVE  NothingWon(t)
  <2>1. working'[t] \subseteq working[t] \cup {Handler("hold", k)}
    BY <1>1, <1>4 DEF HoldStatus, RunningStatus
  <2>2. db'[t] = "COMPLETED" => db[t] = "COMPLETED"
    BY <1>2, <1>4 DEF HoldStatus, RunningStatus
  <2> QED
    BY <2>1, <2>2, Losers DEF NothingWon, Succeeds
<1>5. ASSUME WriteFailure(s) PROVE NothingWon(t)
  <2>1. working'[t] \subseteq working[t] \cup {[event |-> "failed"]}
    BY <1>1, <1>5 DEF WriteFailure
  <2>2. db'[t] = "COMPLETED" => db[t] = "COMPLETED"
    BY <1>2, <1>5 DEF WriteFailure
  <2> QED
    BY <2>1, <2>2, Losers DEF NothingWon, Succeeds
<1>6. ASSUME NEW success \in BOOLEAN, ReadStatus(s, success)
      PROVE  NothingWon(t)
  <2> DEFINE read    == [event |-> "completed", success |-> success]
             verdict == [event |-> "verdict", success |-> success]
  <2>1. read \in working[s] /\ db' = db
    BY <1>6 DEF ReadStatus, authVars
  <2>2. working'[t] = working[t] \/ (t = s /\ working'[t] \subseteq working[t] \cup {verdict})
    BY <1>6 DEF ReadStatus, Done, Becomes, RelayTypeOK
  <2>3. CASE success = TRUE
    <3>1. read \in Winners
      BY <2>3 DEF Winners
    <3> HIDE DEF read, verdict
    <3> QED
      BY <2>1, <2>2, <3>1 DEF NothingWon, Succeeds
  <2>4. CASE success = FALSE
    <3>1. verdict \notin Winners
      BY <2>4, Losers
    <3> HIDE DEF read, verdict
    <3> QED
      BY <2>1, <2>2, <3>1 DEF NothingWon, Succeeds
  <2> QED
    BY <2>3, <2>4
<1>7. ASSUME NEW success \in BOOLEAN, WriteVerdict(s, success)
      PROVE  NothingWon(t)
  <2> DEFINE verdict == [event |-> "verdict", success |-> success]
  <2>1. verdict \in working[s] /\ working'[t] \subseteq working[t]
    BY <1>7 DEF WriteVerdict, Done, RelayTypeOK
  <2>2. TryWrite(s, FinalStatus(success))
    BY <1>7 DEF WriteVerdict
  <2>3. CASE success = TRUE
    <3>1. verdict \in Winners
      BY <2>3 DEF Winners
    <3>2. t # s => db'[t] = db[t]
      BY <2>2 DEF TryWrite, AuthTypeOK
    <3> HIDE DEF verdict
    <3> QED
      BY <2>1, <3>1, <3>2 DEF NothingWon, Succeeds
  <2>4. CASE success = FALSE
    <3>1. db'[t] = "COMPLETED" => db[t] = "COMPLETED"
      BY <1>2, <2>2, <2>4 DEF FinalStatus
    <3> HIDE DEF verdict
    <3> QED
      BY <2>1, <3>1 DEF NothingWon, Succeeds
  <2> QED
    BY <2>3, <2>4
<1> QED
  BY <1>3, <1>4, <1>5, <1>6, <1>7 DEF Relay

\* Users and the authority's own updates record no success.
LEMMA UserWins ==
  ASSUME AuthTypeOK, NEW s \in Sessions, User(s) \/ StatusLands(s),
         NEW t \in Sessions
  PROVE  NothingWon(t)
<1>1. working' = working
  BY DEF User, Respond, Cancel, StatusLands, relayVars
<1>2. \/ db' = db
      \/ \E status \in LiveStatuses \cup {"CANCELLED"} :
           db' = [db EXCEPT ![s] = status]
  BY DEF User, Respond, Cancel, StatusLands, UpdateLands
<1>3. db'[t] = "COMPLETED" => db[t] = "COMPLETED"
  BY <1>2 DEF LiveStatuses, AuthTypeOK
<1> QED
  BY <1>1, <1>3 DEF NothingWon, Succeeds

\* A job that is over stays as it is.
LEMMA EndedStays ==
  ASSUME JobTypeOK, JobInv, [Next]_vars, NEW t \in Sessions, pc[t] = "ended"
  PROVE  pc'[t] = "ended" /\ returned'[t] = returned[t]
<1> LoopTypeOK
  BY DEF JobTypeOK
<1>1. CASE UNCHANGED <<pc, returned>>
  BY <1>1
<1>2. ASSUME NEW s \in Sessions, Dispatching(s) \/ Relay(s) \/ User(s)
                                   \/ StatusLands(s)
      PROVE  UNCHANGED <<pc, returned>>
  BY <1>2 DEF Dispatching, CheckAlive, Push, Relay, FindOrCreate, HoldStatus,
              RejectPending, RunningStatus, ReadStatus, WriteVerdict,
              WriteFailure, User, Respond, Cancel, StatusLands, jobVars
<1>3. ASSUME NEW s \in Sessions, Pop(s)
      PROVE  pc'[t] = "ended" /\ returned'[t] = returned[t]
  <2>1. t # s
    BY <1>3 DEF Pop, JobInv, Fresh
  <2> QED
    BY <1>3, <2>1, QueueUntouched DEF Untouched, SameCounts
<1>4. ASSUME NEW s \in Sessions, Engine(s) \/ Mishap(s)
      PROVE  pc'[t] = "ended" /\ returned'[t] = returned[t]
  <2>1. pc[s] # "ended"
    BY <1>4 DEF Engine, BrowserOpens, SkillEnds, BeginStep, PollDecision, Act,
                ConditionHolds, Heal, Finish, Mishap, BrowserFails,
                SkillThrows, StepThrows, StepCrashes, PageCrashes, Failing,
                Active
  <2> QED
    BY <1>4, <2>1, EngineUntouched DEF Untouched, SameCounts
<1>5. CASE EngineDies \/ HeartbeatExpires \/ EngineStarts
  BY <1>5 DEF EngineDies, HeartbeatExpires, EngineStarts, Active, jobVars,
              LoopTypeOK
<1>6. CASE UNCHANGED vars
  BY <1>6, <1>1 DEF vars, jobVars
<1> QED
  BY <1>1, <1>2, <1>3, <1>4, <1>5, <1>6 DEF Next, BegunWork

\* The steps that publish the end of a job.
LEMMA EndingEarned ==
  ASSUME AuthTypeOK, JobTypeOK, JobInv, SuccessInv,
         NEW s \in Sessions, SkillEnds(s) \/ Finish(s), NEW t \in Sessions
  PROVE  Earned(t)'
<1>1. skill' = skill /\ db' = db /\ returned' = returned
  BY DEF SkillEnds, Finish, queueVars
<1>2. PICK success \in BOOLEAN : PublishCompleted(s, success)
  BY DEF SkillEnds, Finish, AllPassed
<1>3. CASE t # s
  <2>1. working'[t] = working[t] /\ pc'[t] = pc[t]
    BY <1>2, <1>3
       DEF PublishCompleted, Publish, GoTo, JobTypeOK, RelayTypeOK, LoopTypeOK
  <2> QED
    BY <1>1, <2>1, EarnedStays DEF NothingWon, Succeeds, SuccessInv
<1>4. CASE t = s /\ SkillEnds(s)
  BY <1>1, <1>4 DEF SkillEnds, SuccessInv, Earned
<1>5. CASE t = s /\ Finish(s)
  <2>1. /\ pc'[s] = "ended"
        /\ working'[s] = working[s] \cup
             {[event |-> "completed", success |-> AllPassed(s)]}
    BY <1>5 DEF Finish, PublishCompleted, Publish, GoTo, JobTypeOK,
                RelayTypeOK, LoopTypeOK
  <2>2. CASE AllPassed(s)
    <3>1. \A k \in 1..Steps : returned[s][k] = 1
      BY <1>5, <2>2, PassedIsExact DEF Finish, JobInv, Job
    <3> QED
      BY <1>1, <1>5, <2>1, <3>1 DEF Earned
  <2>3. CASE ~AllPassed(s)
    <3>1. AllPassed(s) = FALSE
      BY <2>3 DEF AllPassed
    <3>2. [event |-> "completed", success |-> AllPassed(s)] \notin Winners
      BY <3>1, Losers
    <3>3. NothingWon(s)
      BY <1>1, <2>1, <3>2 DEF NothingWon, Succeeds
    <3>4. pc[s] # "ended"
      BY <1>5 DEF Finish
    <3> QED
      BY <1>1, <1>5, <3>3, <3>4, EarnedStays DEF SuccessInv
  <2> QED
    BY <2>2, <2>3
<1> QED
  BY <1>3, <1>4, <1>5

LEMMA SuccessStep ==
  ASSUME AuthTypeOK, JobTypeOK, JobInv, SuccessInv, [Next]_vars
  PROVE  SuccessInv'
<1> SUFFICES ASSUME NEW t \in Sessions
             PROVE  Earned(t)' /\ (pc'[t] = "skill" => skill'[t])
  BY DEF SuccessInv
<1>1. skill' = skill
  <2>1. ASSUME NEW s \in Sessions, Dispatching(s) \/ Pop(s)
        PROVE  skill' = skill
    BY <2>1 DEF Dispatching, CheckAlive, Push, Pop
  <2>2. ASSUME NEW s \in Sessions, Engine(s) \/ Mishap(s)
        PROVE  skill' = skill
    BY <2>2 DEF Engine, BrowserOpens, SkillEnds, BeginStep, PollDecision, Act,
                ConditionHolds, Heal, Finish, Mishap, BrowserFails,
                SkillThrows, StepThrows, StepCrashes, PageCrashes, queueVars
  <2>3. ASSUME NEW s \in Sessions, Relay(s) \/ User(s) \/ StatusLands(s)
        PROVE  skill' = skill
    BY <2>3 DEF Relay, FindOrCreate, HoldStatus, RejectPending, RunningStatus,
                ReadStatus, WriteVerdict, WriteFailure, User, Respond, Cancel,
                StatusLands, queueVars
  <2>4. CASE UNCHANGED vars \/ EngineDies \/ HeartbeatExpires \/ EngineStarts
    BY <2>4 DEF vars, EngineDies, HeartbeatExpires, EngineStarts, queueVars
  <2> QED
    BY <2>1, <2>2, <2>3, <2>4 DEF Next, BegunWork
<1>2. ASSUME NothingWon(t) PROVE Earned(t)'
  BY <1>1, <1>2, EarnedStays, EndedStays DEF SuccessInv
<1>3. ASSUME UNCHANGED <<db, working>> PROVE Earned(t)'
  BY <1>2, <1>3 DEF NothingWon, Succeeds
<1>4. Earned(t)'
  <2>1. CASE UNCHANGED vars
    BY <1>3, <2>1 DEF vars, authVars, relayVars
  <2>2. CASE EngineDies \/ HeartbeatExpires \/ EngineStarts
    BY <1>3, <2>2 DEF EngineDies, HeartbeatExpires, EngineStarts, authVars,
                      relayVars
  <2>3. ASSUME NEW s \in Sessions, Dispatching(s) \/ Pop(s)
        PROVE  Earned(t)'
    BY <1>3, <2>3 DEF Dispatching, CheckAlive, Push, Pop, authVars, relayVars
  <2>4. ASSUME NEW s \in Sessions, Engine(s) \/ Mishap(s)
        PROVE  Earned(t)'
    <3>1. Job(s)
      BY DEF JobInv, Job
    <3> QED
      BY <1>2, <2>4, <3>1, EngineWins, EndingEarned
  <2>5. ASSUME NEW s \in Sessions, Relay(s) \/ User(s) \/ StatusLands(s)
        PROVE  Earned(t)'
    BY <1>2, <2>5, RelayWins, UserWins
  <2> QED
    BY <2>1, <2>2, <2>3, <2>4, <2>5 DEF Next, BegunWork
<1>5. pc'[t] = "skill" => skill[t]
  <2> LoopTypeOK
    BY DEF JobTypeOK
  <2>1. ASSUME NEW s \in Sessions, BrowserOpens(s)
        PROVE  pc'[t] = "skill" => skill[t]
    BY <2>1 DEF BrowserOpens, GoTo, LoopTypeOK, SuccessInv
  <2>2. ASSUME NEW s \in Sessions, NEW stage, stage # "skill", GoTo(s, stage)
        PROVE  pc'[t] = "skill" => pc[t] = "skill"
    BY <2>2 DEF GoTo, LoopTypeOK
  <2>3. CASE UNCHANGED pc
    BY <2>3 DEF SuccessInv
  <2>4. CASE EngineDies
    BY <2>4 DEF EngineDies, LoopTypeOK, SuccessInv
  <2>5. \/ UNCHANGED pc
        \/ EngineDies
        \/ \E s \in Sessions : BrowserOpens(s)
        \/ \E s \in Sessions, stage \in JobStages \ {"skill"} : GoTo(s, stage)
    <3>1. CASE UNCHANGED vars \/ EngineDies \/ HeartbeatExpires \/ EngineStarts
      BY <3>1 DEF vars, HeartbeatExpires, EngineStarts, jobVars
    <3>2. ASSUME NEW s \in Sessions,
                 Dispatching(s) \/ Relay(s) \/ User(s) \/ StatusLands(s)
                   \/ PageCrashes(s)
          PROVE  UNCHANGED pc
      BY <3>2 DEF Dispatching, CheckAlive, Push, Relay, FindOrCreate,
                  HoldStatus, RejectPending, RunningStatus, ReadStatus,
                  WriteVerdict, WriteFailure, User, Respond, Cancel,
                  StatusLands, PageCrashes, jobVars
    <3>3. ASSUME NEW s \in Sessions,
                 Pop(s) \/ (Engine(s) /\ ~BrowserOpens(s))
                   \/ (Mishap(s) /\ ~PageCrashes(s))
          PROVE  \E stage \in JobStages \ {"skill"} : GoTo(s, stage)
      BY <3>3, StagesListed, NothingHeals
         DEF Pop, Engine, SkillEnds, BeginStep, PollDecision, StepDenied, Act,
             NextStep, ConditionHolds, Heal, Finish, Mishap, BrowserFails,
             SkillThrows, StepThrows, StepCrashes, Retry, PublishCompleted,
             PublishFailed
    <3> QED
      BY <3>1, <3>2, <3>3 DEF Next, BegunWork
  <2> QED
    BY <2>1, <2>2, <2>3, <2>4, <2>5 DEF SuccessInv
<1> QED
  BY <1>1, <1>4, <1>5

LEMMA SuccessInvariant == Spec => []SuccessInv
<1>1. WorkerInit => SuccessInv
  BY DEF WorkerInit, SuccessInv, Earned, Succeeds
<1>2. AuthTypeOK /\ JobTypeOK /\ JobInv /\ SuccessInv /\ [Next]_vars
        => SuccessInv'
  BY SuccessStep
<1> QED
  BY <1>1, <1>2, WorkerJobInv, PTL DEF Spec

\* No recovery, retry or late handler of the relay lets a partial or repeated
\* run of a plan be recorded as a success.
THEOREM WorkerCompleted == Spec => []CompletedIsExact
<1>1. SuccessInv => CompletedIsExact
  BY DEF SuccessInv, Earned, Succeeds, CompletedIsExact
<1> QED
  BY <1>1, SuccessInvariant, PTL

-----------------------------------------------------------------------------
(* The record of a session in the authority, which the relay writes. *)

LEMMA TwoBrowsersKeep ==
  ASSUME AuthTypeOK, NEW s \in Sessions, NEW t \in Sessions,
         NEW first \in BrowserStates, NEW second \in BrowserStates,
         UNCHANGED tracked,
         PutTwice(s, WithBrowser(session[s], first),
                  WithBrowser(WithBrowser(session[s], first), second))
  PROVE  Kept(t)
<1> DEFINE mid == WithBrowser(session[s], first)
           new == WithBrowser(mid, second)
<1>1. session[s] \in SessionRecords
  BY DEF AuthTypeOK
<1>2. mid \in SessionRecords /\ Follows(session[s], mid)
  BY <1>1, WithBrowserOK, WritesFollow
<1>3. PutTwice(s, mid, new)
  OBVIOUS
<1> HIDE DEF mid
<1>4. Follows(mid, new)
  BY <1>2, WritesFollow
<1> HIDE DEF new
<1> QED
  BY <1>2, <1>3, <1>4, FollowsOn, PutKeeps

LEMMA CancelKeeps ==
  ASSUME AuthTypeOK, NEW s \in Sessions, NEW t \in Sessions, Cancel(s)
  PROVE  Kept(t)
<1> DEFINE aborting == [session[s] EXCEPT !.aborting = TRUE]
           stopped == WithBrowser(aborting, "STOPPED")
<1>1. session[s] \in SessionRecords
  BY DEF AuthTypeOK
<1>2. aborting \in SessionRecords /\ Follows(session[s], aborting)
  BY <1>1, WritesFollow DEF SessionRecords
<1>3. Untrack(s) \/ (UNCHANGED tracked /\ Put(s, stopped))
  BY DEF Cancel
<1> HIDE DEF aborting
<1>4. Follows(aborting, stopped)
  BY <1>2, WritesFollow DEF BrowserStates
<1> HIDE DEF stopped
<1> QED
  BY <1>2, <1>3, <1>4, FollowsOn, PutKeeps, MapKeeps

\* Whatever the engine publishes and users do, a session's record is written by
\* the authority's calls only.
LEMMA WorkerKeeps ==
  ASSUME AuthTypeOK, [Next]_vars, NEW t \in Sessions
  PROVE  Kept(t)
<1> USE DEF authVars
<1> {"INITIALIZING", "READY", "RUNNING", "STOPPED", "ERROR"} \subseteq BrowserStates
  BY DEF BrowserStates
<1>0. ASSUME UNCHANGED <<tracked, session>> PROVE Kept(t)
  BY <1>0, SameKeeps
<1>1. CASE UNCHANGED vars \/ EngineDies \/ HeartbeatExpires \/ EngineStarts
  BY <1>0, <1>1 DEF vars, EngineDies, HeartbeatExpires, EngineStarts
<1>2. ASSUME NEW s \in Sessions, Dispatching(s) PROVE Kept(t)
  BY <1>0, <1>2 DEF Dispatching, CheckAlive, Push
<1>3. ASSUME NEW s \in Sessions,
             \/ BeginStep(s) \/ PollDecision(s) \/ Act(s) \/ ConditionHolds(s)
             \/ Heal(s) \/ StepThrows(s) \/ StatusLands(s)
      PROVE  Kept(t)
  BY <1>0, <1>3 DEF BeginStep, PollDecision, Act, ConditionHolds, Heal,
     StepThrows, StatusLands, UpdateLands
<1>4. ASSUME NEW s \in Sessions, Relay(s) PROVE Kept(t)
  BY <1>0, <1>4 DEF Relay, FindOrCreate, HoldStatus, RejectPending,
     RunningStatus, ReadStatus, WriteVerdict, WriteFailure
<1>5. ASSUME NEW s \in Sessions,
             \/ Pop(s) \/ SkillEnds(s) \/ Finish(s) \/ BrowserFails(s)
             \/ SkillThrows(s) \/ StepCrashes(s)
      PROVE  Kept(t)
  <2>1. UNCHANGED tracked
    BY <1>5 DEF Pop, SkillEnds, Finish, BrowserFails, SkillThrows, StepCrashes
  <2>2. \/ UNCHANGED session
        \/ \E to \in BrowserStates : Put(s, WithBrowser(session[s], to))
    BY <1>5 DEF Pop, SkillEnds, Finish, BrowserFails, SkillThrows, StepCrashes,
       PublishCompleted, PublishFailed
  <2> QED
    BY <2>1, <2>2, <1>0, PutBrowserKeeps
<1>6. ASSUME NEW s \in Sessions, BrowserOpens(s) PROVE Kept(t)
  BY <1>6, TwoBrowsersKeep DEF BrowserOpens
<1>7. ASSUME NEW s \in Sessions, PageCrashes(s) PROVE Kept(t)
  BY <1>7, TwoBrowsersKeep, PutBrowserKeeps DEF PageCrashes
<1>8. ASSUME NEW s \in Sessions, NEW k \in 1..Steps, NEW verdict \in Verdicts,
             Respond(s, k, verdict)
      PROVE  Kept(t)
  BY <1>8, PutGateKeeps DEF Respond, GateStates
<1> QED
  BY <1>1, <1>2, <1>3, <1>4, <1>5, <1>6, <1>7, <1>8, CancelKeeps
     DEF Next, BegunWork, Engine, Mishap, User

\* A session in the engine's hands shows what the browser's and the gate's
\* states derive to, in whatever order events, responses and cancellations come.
THEOREM WorkerCurrent == Spec => []EmittedIsCurrent
<1>1. WorkerInit => TrackedCurrent
  <2> SUFFICES ASSUME WorkerInit, NEW s \in Sessions PROVE Current(Cleared)
    BY DEF WorkerInit, TrackedCurrent
  <2> DEFINE ready == WithGate(NewSession, "PLAN_READY")
  <2>1. ready \in SessionRecords /\ Current(ready)
    BY NewSessionOK, WithGateOK DEF GateStates
  <2> HIDE DEF ready
  <2>2. Current(WithGate(ready, "CLEARED"))
    BY <2>1, WithGateOK DEF GateStates
  <2> QED
    BY <2>2 DEF Cleared, ready
<1>2. AuthTypeOK /\ TrackedCurrent /\ [Next]_vars => TrackedCurrent'
  <2> SUFFICES ASSUME AuthTypeOK, TrackedCurrent, [Next]_vars,
                      NEW t \in Sessions, t \in tracked'
               PROVE  Current(session'[t])
    BY DEF TrackedCurrent, Current
  <2>1. Kept(t)
    BY WorkerKeeps
  <2> QED
    BY <2>1 DEF Kept, Follows, TrackedCurrent
<1>3. AuthTypeOK /\ TrackedCurrent => EmittedIsCurrent
  BY DEF AuthTypeOK, TrackedCurrent, Current, EmittedIsCurrent
<1> QED
  BY <1>1, <1>2, <1>3, WorkerJobInv, PTL DEF Spec

\* A session shown as stopped or failed stays so: no recovery of a page and no
\* event that comes late revives it.
THEOREM WorkerFinality == Spec => TerminalBrowserIsFinal
<1> DEFINE Final == \A s \in tracked :
      session[s].browser \in {"STOPPED", "ERROR"} =>
        s \notin tracked' \/ session'[s].browser = session[s].browser
<1>1. AuthTypeOK /\ [Next]_vars => [Final]_authVars
  <2> SUFFICES ASSUME AuthTypeOK, [Next]_vars, NEW t \in tracked,
                      session[t].browser \in {"STOPPED", "ERROR"}, t \in tracked'
               PROVE  session'[t].browser = session[t].browser
    OBVIOUS
  <2>1. Kept(t)
    BY WorkerKeeps DEF AuthTypeOK
  <2> QED
    BY <2>1 DEF Kept, Follows
<1> QED
  BY <1>1, WorkerJobInv, PTL DEF Spec, TerminalBrowserIsFinal

-----------------------------------------------------------------------------
(* What any step of the specification does to a job. *)

Rests(t)   == JobState(t)' = JobState(t)
MovesOn(t) == SameCounts(t) /\ Moves(t, pc'[t])
Popped(t)  == SameCounts(t) /\ pc[t] = "none" /\ pc'[t] \in {"opening", "lost"}

GivesUp(t) ==
  /\ pc[t] \in {"approval", "heal"} /\ pc'[t] = "finish"
  /\ failed'[t] = TRUE /\ entries'[t] = entries[t] + 1
  /\ at'[t] = at[t] /\ returned'[t] = returned[t] /\ recoveries'[t] = recoveries[t]

Recovers(t) ==
  /\ \/ pc[t] \in {"act", "wait"} /\ pc'[t] \in {"step", "heal"}
     \/ pc[t] \in Active \ {"opening"} /\ pc'[t] = pc[t]
  /\ recoveries[t] < MaxRecoveries /\ recoveries'[t] = recoveries[t] + 1
  /\ at'[t] = at[t] /\ entries'[t] = entries[t] /\ failed'[t] = failed[t]
  /\ returned'[t] = returned[t]

Returns(t) ==
  /\ pc[t] = "act"
  /\ \/ pc'[t] = "wait" /\ at'[t] = at[t]
     \/ pc'[t] = "step" /\ at'[t] = at[t] + 1
  /\ returned'[t] = [returned[t] EXCEPT ![at[t]] = @ + 1]
  /\ entries'[t] = entries[t] + 1
  /\ failed'[t] = failed[t] /\ recoveries'[t] = recoveries[t]

GoesOn(t) ==
  /\ pc[t] = "wait" /\ pc'[t] = "step" /\ at'[t] = at[t] + 1
  /\ entries'[t] = entries[t] /\ failed'[t] = failed[t]
  /\ returned'[t] = returned[t] /\ recoveries'[t] = recoveries[t]

JobDoes(t) ==
  \/ Rests(t) \/ MovesOn(t) \/ Popped(t) \/ GivesUp(t)
  \/ Recovers(t) \/ Returns(t) \/ GoesOn(t)

LEMMA UntouchedRests ==
  ASSUME NEW t \in Sessions, Untouched(t)
  PROVE  Rests(t)
BY DEF Untouched, SameCounts, Rests, JobState

LEMMA EngineDoes ==
  ASSUME JobTypeOK, JobInv, NEW s \in Sessions, Engine(s)
  PROVE  JobDoes(s)
<1> LoopTypeOK
  BY DEF JobTypeOK
<1>1. ASSUME UNCHANGED <<at, entries, failed, returned, recoveries>>,
             NEW stage, GoTo(s, stage), Moves(s, stage)
      PROVE  JobDoes(s)
  BY <1>1 DEF SameCounts, GoTo, LoopTypeOK, JobDoes, MovesOn
<1>2. CASE BrowserOpens(s)
  <2>1. PICK stage \in {"skill", "step"} : GoTo(s, stage)
    BY <1>2 DEF BrowserOpens
  <2> QED
    BY <1>1, <1>2, <2>1 DEF BrowserOpens, Moves
<1>3. CASE SkillEnds(s) \/ Finish(s)
  <2>1. GoTo(s, "ended") /\ Moves(s, "ended")
    BY <1>3 DEF SkillEnds, Finish, PublishCompleted, Moves, Active
  <2> QED
    BY <1>1, <1>3, <2>1 DEF SkillEnds, Finish
<1>4. CASE BeginStep(s)
  <2>1. PICK stage \in {"approval", "act"} : GoTo(s, stage)
    BY <1>4 DEF BeginStep
  <2> QED
    BY <1>1, <1>4, <2>1 DEF BeginStep, Moves
<1>5. ASSUME pc[s] \in {"approval", "heal"}, GoTo(s, "finish"),
             entries' = [entries EXCEPT ![s] = @ + 1],
             failed' = [failed EXCEPT ![s] = TRUE],
             UNCHANGED <<at, returned, recoveries>>
      PROVE  JobDoes(s)
  BY <1>5 DEF GoTo, LoopTypeOK, JobDoes, GivesUp
<1>6. CASE PollDecision(s)
  <2>1. CASE decision[s][at[s]] = "APPROVED"
    BY <1>1, <1>6, <2>1 DEF PollDecision, Moves
  <2>2. CASE decision[s][at[s]] # "APPROVED"
    BY <1>5, <1>6, <2>2 DEF PollDecision, StepDenied
  <2> QED
    BY <2>1, <2>2
<1>7. CASE Heal(s)
  BY <1>5, <1>7, NothingHeals DEF Heal
<1>8. CASE Act(s)
  <2>1. \/ pc'[s] = "wait" /\ at'[s] = at[s]
        \/ pc'[s] = "step" /\ at'[s] = at[s] + 1
    BY <1>8 DEF Act, NextStep, GoTo, LoopTypeOK
  <2>2. /\ returned'[s] = [returned[s] EXCEPT ![at[s]] = @ + 1]
        /\ entries'[s] = entries[s] + 1
    BY <1>8 DEF Act, StepSucceeds, LoopTypeOK
  <2> QED
    BY <1>8, <2>1, <2>2 DEF Act, JobDoes, Returns
<1>9. CASE ConditionHolds(s)
  BY <1>9 DEF ConditionHolds, NextStep, GoTo, LoopTypeOK, JobDoes, GoesOn
<1> QED
  BY <1>2, <1>3, <1>4, <1>6, <1>7, <1>8, <1>9 DEF Engine

LEMMA MishapDoes ==
  ASSUME JobTypeOK, NEW s \in Sessions, Mishap(s)
  PROVE  JobDoes(s)
<1> LoopTypeOK
  BY DEF JobTypeOK
<1>1. CASE BrowserFails(s) \/ SkillThrows(s) \/ StepThrows(s)
  <2>1. PICK stage \in {"ended", "heal"} : GoTo(s, stage) /\ Moves(s, stage)
    BY <1>1 DEF BrowserFails, SkillThrows, StepThrows, PublishFailed, Moves,
                Failing, Active
  <2>2. UNCHANGED <<at, entries, failed, returned, recoveries>>
    BY <1>1 DEF BrowserFails, SkillThrows, StepThrows
  <2> QED
    BY <2>1, <2>2 DEF SameCounts, GoTo, LoopTypeOK, JobDoes, MovesOn
<1>2. CASE StepCrashes(s)
  <2>1. pc[s] \in {"act", "wait"} /\ pc'[s] \in {"step", "heal"}
    BY <1>2 DEF StepCrashes, Failing, Retry, GoTo, LoopTypeOK
  <2>2. /\ recoveries[s] < MaxRecoveries
        /\ recoveries'[s] = recoveries[s] + 1
        /\ UNCHANGED <<at, entries, failed, returned>>
    BY <1>2 DEF StepCrashes, Retry, Relaunch, MayRecover, LoopTypeOK
  <2> QED
    BY <2>1, <2>2 DEF JobDoes, Recovers
<1>3. CASE PageCrashes(s)
  <2>1. /\ pc[s] \in Active \ {"opening"}
        /\ UNCHANGED <<pc, at, entries, failed, returned>>
    BY <1>3 DEF PageCrashes
  <2>2. \/ recoveries'[s] = recoveries[s]
        \/ /\ recoveries[s] < MaxRecoveries
           /\ recoveries'[s] = recoveries[s] + 1
    BY <1>3 DEF PageCrashes, Relaunch, MayRecover, LoopTypeOK
  <2> QED
    BY <2>1, <2>2 DEF JobDoes, Recovers, Rests, JobState
<1> QED
  BY <1>1, <1>2, <1>3 DEF Mishap

\* Jobs are touched by the engine only, and by nothing in any other way.
LEMMA EveryStepDoes ==
  ASSUME JobTypeOK, JobInv, [Next]_vars, NEW t \in Sessions
  PROVE  JobDoes(t)
<1> LoopTypeOK
  BY DEF JobTypeOK
<1>1. ASSUME UNCHANGED jobVars PROVE JobDoes(t)
  BY <1>1 DEF jobVars, JobDoes, Rests, JobState
<1>2. CASE UNCHANGED vars \/ HeartbeatExpires \/ EngineStarts
  BY <1>1, <1>2 DEF vars, HeartbeatExpires, EngineStarts
<1>3. ASSUME NEW s \in Sessions,
             Dispatching(s) \/ Relay(s) \/ User(s) \/ StatusLands(s)
      PROVE  JobDoes(t)
  BY <1>1, <1>3 DEF Dispatching, CheckAlive, Push, Relay, FindOrCreate,
     HoldStatus, RejectPending, RunningStatus, ReadStatus, WriteVerdict,
     WriteFailure, User, Respond, Cancel, StatusLands
<1>4. CASE EngineDies
  <2>1. /\ SameCounts(t)
        /\ pc'[t] = IF pc[t] \in Active THEN "lost" ELSE pc[t]
    BY <1>4 DEF EngineDies, SameCounts
  <2> QED
    BY <2>1 DEF JobDoes, Rests, JobState, MovesOn, Moves, SameCounts
<1>5. ASSUME NEW s \in Sessions, Pop(s) PROVE JobDoes(t)
  <2>1. CASE t = s
    <3>1. SameCounts(s) /\ pc[s] = "none"
      BY <1>5 DEF Pop, SameCounts, JobInv, Fresh
    <3>2. pc'[s] \in {"opening", "lost"}
      BY <1>5 DEF Pop, GoTo, LoopTypeOK
    <3> QED
      BY <2>1, <3>1, <3>2 DEF JobDoes, Popped
  <2> QED
    BY <1>5, <2>1, QueueUntouched, UntouchedRests DEF JobDoes
<1>6. ASSUME NEW s \in Sessions, Engine(s) \/ Mishap(s) PROVE JobDoes(t)
  BY <1>6, EngineDoes, MishapDoes, EngineUntouched, UntouchedRests DEF JobDoes
<1> QED
  BY <1>2, <1>3, <1>4, <1>5, <1>6 DEF Next, BegunWork

-----------------------------------------------------------------------------
(* How much is done for a job in all. *)

\* The results of a job: one for each step that is over, one for each repeat.
Bounded(s) ==
  /\ pc[s] \in {"step", "approval", "act"} =>
       entries[s] <= (at[s] - 1) + recoveries[s]
  /\ pc[s] \in {"wait", "heal"} => entries[s] <= at[s] + recoveries[s]
  /\ entries[s] <= Steps + recoveries[s] + (IF failed[s] THEN 1 ELSE 0)

BoundedInv == \A s \in Sessions : Bounded(s)

LEMMA BoundedStep ==
  ASSUME JobTypeOK, JobInv, BoundedInv, [Next]_vars
  PROVE  BoundedInv'
<1> SUFFICES ASSUME NEW s \in Sessions PROVE Bounded(s)'
  BY DEF BoundedInv
<1>1. /\ at[s] \in Nat /\ 1 <= at[s] /\ at[s] <= Steps + 1
      /\ entries[s] \in Nat /\ recoveries[s] \in Nat
      /\ failed[s] \in BOOLEAN /\ Steps \in Nat
  BY JobTypes, StepsAssumption
<1>2. Bounded(s) /\ Fresh(s) /\ Ordered(s) /\ Counted(s)
  BY DEF BoundedInv, JobInv
<1>3. CASE Rests(s)
  BY <1>2, <1>3 DEF Rests, JobState, Bounded
<1>4. CASE Popped(s)
  BY <1>2, <1>4 DEF Popped, SameCounts, Bounded
<1>5. CASE MovesOn(s)
  <2>1. CASE pc[s] = "opening"
    BY <1>1, <1>2, <1>5, <2>1 DEF MovesOn, Moves, SameCounts, Fresh, Bounded
  <2>2. CASE pc[s] # "opening"
    BY <1>1, <1>2, <1>5, <2>2 DEF MovesOn, Moves, SameCounts, Bounded
  <2> QED
    BY <2>1, <2>2
<1>6. ASSUME pc[s] \in InStep PROVE at[s] <= Steps /\ ~failed[s]
  BY <1>1, <1>2, <1>6 DEF Ordered, Counted
<1>7. CASE GivesUp(s)
  BY <1>1, <1>2, <1>6, <1>7 DEF GivesUp, InStep, Bounded
<1>8. CASE Recovers(s)
  BY <1>1, <1>2, <1>8 DEF Recovers, Bounded
<1>9. CASE Returns(s)
  BY <1>1, <1>2, <1>6, <1>9 DEF Returns, InStep, Bounded
<1>10. CASE GoesOn(s)
  BY <1>1, <1>2, <1>10 DEF GoesOn, Bounded
<1> QED
  BY <1>3, <1>4, <1>5, <1>7, <1>8, <1>9, <1>10, EveryStepDoes DEF JobDoes

THEOREM WorkerBounded == Spec => []BoundedInv
<1>1. WorkerInit => BoundedInv
  <2> SUFFICES ASSUME WorkerInit, NEW s \in Sessions PROVE Bounded(s)
    BY DEF BoundedInv
  <2>1. pc[s] = "none" /\ entries[s] = 0 /\ failed[s] = FALSE /\ recoveries[s] = 0
    BY DEF WorkerInit
  <2> QED
    BY <2>1, StepsAssumption DEF Bounded
<1>2. JobTypeOK /\ JobInv /\ BoundedInv /\ [Next]_vars => BoundedInv'
  BY BoundedStep
<1> QED
  BY <1>1, <1>2, WorkerJobInv, PTL DEF Spec

\* No number of crashes repeats actions more often than the recovery budget
\* allows, neither one of them nor all together.
THEOREM WorkerRepeats == Spec => []RepeatsAreBounded
<1>1. JobTypeOK /\ JobInv /\ BoundedInv => RepeatsAreBounded
  <2> SUFFICES ASSUME JobTypeOK, JobInv, BoundedInv, NEW s \in Sessions
               PROVE  /\ entries[s] <= Steps + MaxRecoveries
                                         + (IF failed[s] THEN 1 ELSE 0)
                      /\ \A k \in 1..Steps : returned[s][k] <= 1 + MaxRecoveries
    BY DEF RepeatsAreBounded
  <2>1. /\ recoveries[s] \in Nat /\ recoveries[s] <= MaxRecoveries
        /\ returned[s] \in [1..Steps -> Nat] /\ entries[s] \in Nat
        /\ Steps \in Nat /\ MaxRecoveries \in Nat
    BY JobTypes, StepsAssumption, MaxRecoveriesAssumption
  <2>2. ASSUME NEW k \in 1..Steps PROVE returned[s][k] <= 1 + MaxRecoveries
    <3>1. returned[s][k] <= recoveries[s] + 1 /\ returned[s][k] \in Nat
      BY <2>1 DEF JobInv, Ordered
    <3> QED
      BY <2>1, <3>1
  <2>3. entries[s] <= Steps + recoveries[s] + (IF failed[s] THEN 1 ELSE 0)
    BY DEF BoundedInv, Bounded
  <2> QED
    BY <2>1, <2>2, <2>3
<1> QED
  BY <1>1, WorkerJobInv, WorkerBounded, PTL

-----------------------------------------------------------------------------
(* Every step the engine makes for a job brings its end closer. *)

LEMMA Ranks ==
  /\ Rank("finish") = 1 /\ Rank("skill") = 1 /\ Rank("heal") = 2
  /\ Rank("wait") = 3 /\ Rank("act") = 4 /\ Rank("approval") = 5
  /\ Rank("step") = 6 /\ Rank("opening") = 7
  /\ \A stage \in Active : Rank(stage) \in 1..7
BY DEF Rank, Active

\* The loop's position and the recoveries left never go back, and when they
\* stay, the stage is a later one.
LEMMA WindsDown ==
  ASSUME JobTypeOK, JobInv, NEW s \in Sessions, pc[s] \in Active, JobDoes(s),
         ~Rests(s), pc'[s] \in Active
  PROVE  Left(s)' < Left(s)
<1>1. /\ at[s] \in Nat /\ recoveries[s] \in Nat
      /\ Steps \in Nat /\ MaxRecoveries \in Nat
  BY JobTypes, StepsAssumption, MaxRecoveriesAssumption
<1>2. Rank(pc[s]) \in 1..7 /\ Rank(pc'[s]) \in 1..7
  BY Ranks
<1>3. /\ Left(s) = 6 * ((Steps + 1 - at[s]) + (MaxRecoveries - recoveries[s]))
                     + Rank(pc[s])
      /\ Left(s)' = 6 * ((Steps + 1 - at'[s]) + (MaxRecoveries - recoveries'[s]))
                      + Rank(pc'[s])
  BY DEF Left
<1>4. CASE MovesOn(s)
  <2>1. at'[s] = at[s] /\ recoveries'[s] = recoveries[s]
    BY <1>4 DEF MovesOn, SameCounts
  <2>2. Rank(pc'[s]) < Rank(pc[s])
    BY <1>4, Ranks DEF MovesOn, Moves, Active
  <2> QED
    BY <1>1, <1>2, <1>3, <2>1, <2>2
<1>5. CASE GivesUp(s)
  <2>1. at'[s] = at[s] /\ recoveries'[s] = recoveries[s]
    BY <1>5 DEF GivesUp
  <2>2. Rank(pc'[s]) < Rank(pc[s])
    BY <1>5, Ranks DEF GivesUp
  <2> QED
    BY <1>1, <1>2, <1>3, <2>1, <2>2
<1>6. CASE Recovers(s)
  <2>1. at'[s] = at[s] /\ recoveries'[s] = recoveries[s] + 1
    BY <1>6 DEF Recovers
  <2>2. Rank(pc'[s]) <= Rank(pc[s]) + 3
    BY <1>2, <1>6, Ranks DEF Recovers
  <2> QED
    BY <1>1, <1>2, <1>3, <2>1, <2>2
<1>7. CASE Returns(s) \/ GoesOn(s)
  <2>1. /\ recoveries'[s] = recoveries[s]
        /\ \/ pc[s] = "act" /\ pc'[s] = "wait" /\ at'[s] = at[s]
           \/ pc[s] \in {"act", "wait"} /\ pc'[s] = "step" /\ at'[s] = at[s] + 1
    BY <1>7 DEF Returns, GoesOn
  <2> QED
    BY <1>1, <1>2, <1>3, <2>1, Ranks
<1>8. ~Popped(s)
  BY DEF Popped, Active
<1> QED
  BY <1>4, <1>5, <1>6, <1>7, <1>8 DEF JobDoes

LEMMA SomethingLeft ==
  ASSUME JobTypeOK, NEW s \in Sessions, pc[s] \in Active
  PROVE  0 < Left(s)
<1>1. /\ at[s] \in Nat /\ at[s] <= Steps + 1
      /\ recoveries[s] \in Nat /\ recoveries[s] <= MaxRecoveries
      /\ Steps \in Nat /\ MaxRecoveries \in Nat
  BY JobTypes, StepsAssumption, MaxRecoveriesAssumption
<1>2. Rank(pc[s]) \in 1..7
  BY Ranks
<1> QED
  BY <1>1, <1>2 DEF Left

\* No order of crashes, denials, failing actions and recoveries keeps a job
\* going: with JobEnds, which needs that the engine takes steps at all, this is
\* why jobs end.
THEOREM WorkerWindsDown == Spec => JobsWindDown
<1> DEFINE Down == \A s \in Sessions :
      pc[s] \in Active /\ JobState(s)' # JobState(s) =>
        pc'[s] \notin Active \/ (0 < Left(s)' /\ Left(s)' < Left(s))
<1>1. JobTypeOK /\ JobInv /\ JobTypeOK' /\ [Next]_vars => [Down]_vars
  <2> SUFFICES ASSUME JobTypeOK, JobInv, JobTypeOK', [Next]_vars,
                      NEW s \in Sessions,
                      pc[s] \in Active, JobState(s)' # JobState(s),
                      pc'[s] \in Active
               PROVE  0 < Left(s)' /\ Left(s)' < Left(s)
    OBVIOUS
  <2>1. Left(s)' < Left(s)
    BY EveryStepDoes, WindsDown DEF Rests
  <2>2. (JobTypeOK /\ pc[s] \in Active => 0 < Left(s))'
    BY SomethingLeft, PTL
  <2> QED
    BY <2>1, <2>2
<1> QED
  BY <1>1, WorkerJobInv, PTL DEF Spec, JobsWindDown

-----------------------------------------------------------------------------
(* The engine and the relay implement PlanRun. *)

Won == {s \in Sessions : db[s] = "COMPLETED" /\ ~skill[s]}

LEMMA OneDiffers ==
  ASSUME NEW S, NEW T, NEW f \in [S -> T], NEW U, NEW g \in [S -> U],
         NEW s \in S, \A t \in S \ {s} : g[t] = f[t]
  PROVE  g = [f EXCEPT ![s] = g[s]]
OBVIOUS

\* A step in which one job alone does something, in terms of the plan's state.
LEMMA PlanOfOthers ==
  ASSUME JobTypeOK, JobTypeOK', NEW s \in Sessions,
         \A t \in Sessions \ {s} : Untouched(t)
  PROVE  /\ returned' = [returned EXCEPT ![s] = returned'[s]]
         /\ recoveries' = [recoveries EXCEPT ![s] = recoveries'[s]]
         /\ [t \in Sessions |-> PlanPhase(t)]' =
              [[t \in Sessions |-> PlanPhase(t)] EXCEPT ![s] = PlanPhase(s)']
         /\ [t \in Sessions |-> Performances(t)]' =
              [[t \in Sessions |-> Performances(t)] EXCEPT ![s] = Performances(s)']
<1>1. \A t \in Sessions \ {s} :
        /\ returned'[t] = returned[t] /\ recoveries'[t] = recoveries[t]
        /\ PlanPhase(t)' = PlanPhase(t) /\ Performances(t)' = Performances(t)
  BY DEF Untouched, SameCounts, PlanPhase, Performances
<1>2. /\ returned \in [Sessions -> [1..Steps -> Nat]]
      /\ returned' \in [Sessions -> [1..Steps -> Nat]]
      /\ recoveries \in [Sessions -> 0..MaxRecoveries]
      /\ recoveries' \in [Sessions -> 0..MaxRecoveries]
  BY DEF JobTypeOK, LoopTypeOK
<1>3. returned' = [returned EXCEPT ![s] = returned'[s]]
  BY <1>1, <1>2, OneDiffers
<1>4. recoveries' = [recoveries EXCEPT ![s] = recoveries'[s]]
  BY <1>1, <1>2, OneDiffers
<1>5. [t \in Sessions |-> PlanPhase(t)]' =
        [[t \in Sessions |-> PlanPhase(t)] EXCEPT ![s] = PlanPhase(s)']
  BY <1>1
<1>6. [t \in Sessions |-> Performances(t)]' =
        [[t \in Sessions |-> Performances(t)] EXCEPT ![s] = Performances(s)']
  BY <1>1
<1> QED
  BY <1>3, <1>4, <1>5, <1>6

\* What a job that alone does something does to its plan.
LEMMA JobMapsToPlan ==
  ASSUME JobTypeOK, JobTypeOK', JobInv, BoundedInv, NEW s \in Sessions,
         JobDoes(s), \A t \in Sessions \ {s} : Untouched(t), Won' = Won
  PROVE  [Plan!PlanNext]_(Plan!planVars)
<1>1. /\ at[s] \in Nat /\ 1 <= at[s] /\ entries[s] \in Nat
      /\ recoveries[s] \in Nat /\ Steps \in Nat
      /\ returned[s] \in [1..Steps -> Nat]
      /\ failed[s] \in BOOLEAN
  BY JobTypes, StepsAssumption
<1>2. Fresh(s) /\ Ordered(s) /\ Counted(s) /\ Bounded(s)
  BY DEF JobInv, BoundedInv
<1> DEFINE phase == [t \in Sessions |-> PlanPhase(t)]
           total == [t \in Sessions |-> Performances(t)]
<1>3. /\ returned' = [returned EXCEPT ![s] = returned'[s]]
      /\ recoveries' = [recoveries EXCEPT ![s] = recoveries'[s]]
      /\ phase' = [phase EXCEPT ![s] = PlanPhase(s)']
      /\ total' = [total EXCEPT ![s] = Performances(s)']
  BY PlanOfOthers
<1>4. phase[s] = PlanPhase(s) /\ total[s] = Performances(s)
  OBVIOUS
<1>5. /\ returned \in [Sessions -> [1..Steps -> Nat]]
      /\ recoveries \in [Sessions -> 0..MaxRecoveries]
      /\ phase = [t \in Sessions |-> phase[t]]
      /\ phase = [phase EXCEPT ![s] = phase[s]]
      /\ total = [total EXCEPT ![s] = total[s]]
  BY DEF JobTypeOK, LoopTypeOK
<1> HIDE DEF phase, total
<1>6. ASSUME returned'[s] = returned[s], recoveries'[s] = recoveries[s],
             Performances(s)' = Performances(s)
      PROVE  UNCHANGED <<returned, recoveries, total>>
  BY <1>3, <1>4, <1>5, <1>6
<1>7. ASSUME PlanPhase(s)' = PlanPhase(s) PROVE UNCHANGED phase
  BY <1>3, <1>4, <1>5, <1>7
<1>8. ASSUME UNCHANGED <<returned, recoveries, total>>,
             PlanPhase(s) # "closed", PlanPhase(s)' = "closed"
      PROVE  Plan!PlanNext
  <2>1. phase' = [t \in Sessions |-> IF t \in {s} THEN "closed" ELSE phase[t]]
    BY <1>3, <1>5, <1>8
  <2>2. Plan!Close({s})
    BY <1>4, <1>8, <2>1 DEF Plan!Close, Won, phase, total
  <2> QED
    BY <2>2 DEF Plan!PlanNext
<1>9. ASSUME UNCHANGED <<returned, recoveries, total, phase>>
      PROVE  UNCHANGED Plan!planVars
  BY <1>9 DEF Plan!planVars, Won, phase, total
<1>10. CASE Rests(s)
  BY <1>6, <1>7, <1>9, <1>10 DEF Rests, JobState, PlanPhase, Performances
<1>11. ASSUME SameCounts(s) PROVE UNCHANGED <<returned, recoveries, total>>
  BY <1>6, <1>11 DEF SameCounts, Performances
<1>12. CASE MovesOn(s)
  <2>1. PlanPhase(s) = "open" /\ PlanPhase(s)' \in {"open", "closed"}
    BY <1>12 DEF MovesOn, Moves, PlanPhase, Active
  <2> QED
    BY <1>7, <1>8, <1>9, <1>11, <1>12, <2>1 DEF MovesOn
<1>13. CASE Popped(s)
  <2>1. PlanPhase(s) = "waiting"
    BY <1>13 DEF Popped, PlanPhase, Active
  <2>2. CASE pc'[s] = "opening"
    <3>1. PlanPhase(s)' = "open"
      BY <2>2 DEF PlanPhase, Active
    <3>2. Plan!Begin(s)
      BY <1>3, <1>4, <1>11, <1>13, <2>1, <3>1
         DEF Popped, Plan!Begin, Won, phase, total
    <3> QED
      BY <3>2 DEF Plan!PlanNext
  <2>3. CASE pc'[s] = "lost"
    BY <1>8, <1>11, <1>13, <2>1, <2>3 DEF Popped, PlanPhase, Active
  <2> QED
    BY <1>13, <2>2, <2>3 DEF Popped
<1>14. CASE GivesUp(s)
  <2>1. PlanPhase(s)' = PlanPhase(s)
    BY <1>14 DEF GivesUp, PlanPhase, Active
  <2>2. ~failed[s]
    BY <1>2, <1>14 DEF GivesUp, Counted, InStep
  <2>3. Performances(s)' = Performances(s)
    BY <1>1, <1>14, <2>2 DEF GivesUp, Performances
  <2> QED
    BY <1>6, <1>7, <1>9, <1>14, <2>1, <2>3 DEF GivesUp
<1>15. CASE GoesOn(s)
  <2>1. PlanPhase(s)' = PlanPhase(s) /\ Performances(s)' = Performances(s)
    BY <1>15 DEF GoesOn, PlanPhase, Performances, Active
  <2> QED
    BY <1>6, <1>7, <1>9, <1>15, <2>1 DEF GoesOn
<1>16. CASE Recovers(s)
  <2>1. PlanPhase(s)' = "open" /\ PlanPhase(s) = "open"
    BY <1>16 DEF Recovers, PlanPhase, Active
  <2>2. Performances(s)' = Performances(s)
    BY <1>16 DEF Recovers, Performances
  <2>3. UNCHANGED <<phase, total, returned>>
    <3>1. returned'[s] = returned[s]
      BY <1>16 DEF Recovers
    <3>2. UNCHANGED phase
      BY <1>7, <2>1
    <3>3. UNCHANGED returned
      BY <1>3, <1>5, <3>1
    <3>4. UNCHANGED total
      BY <1>3, <1>4, <1>5, <2>2
    <3> QED
      BY <3>2, <3>3, <3>4
  <2>4. recoveries' = [recoveries EXCEPT ![s] = @ + 1]
    BY <1>3, <1>5, <1>16 DEF Recovers
  <2>5. Plan!Recover(s)
    BY <1>4, <1>16, <2>1, <2>3, <2>4 DEF Recovers, Plan!Recover, Won, phase, total
  <2> QED
    BY <2>5 DEF Plan!PlanNext
<1>17. CASE Returns(s)
  <2> DEFINE k == at[s]
  <2>1. PlanPhase(s)' = "open" /\ PlanPhase(s) = "open"
    BY <1>17 DEF Returns, PlanPhase, Active
  <2>2. k \in 1..Steps /\ ~failed[s]
    BY <1>2, <1>17 DEF Returns, Ordered, Counted, InStep
  <2>3. /\ Performances(s) = entries[s]
        /\ Performances(s)' = Performances(s) + 1
    BY <1>1, <1>17, <2>2 DEF Returns, Performances
  <2>4. Performances(s) < k + recoveries[s]
    BY <1>1, <1>2, <1>17, <2>3 DEF Returns, Bounded
  <2>5. \A j \in 1..Steps : /\ j < k => returned[s][j] > 0
                            /\ j > k => returned[s][j] = 0
    BY <1>1, <1>2 DEF Ordered
  <2>6. UNCHANGED phase /\ UNCHANGED recoveries
    <3>1. recoveries'[s] = recoveries[s]
      BY <1>17 DEF Returns
    <3> QED
      BY <1>3, <1>5, <1>7, <2>1, <3>1
  <2>7. returned' = [returned EXCEPT ![s][k] = @ + 1]
    BY <1>3, <1>5, <1>17 DEF Returns
  <2>8. total' = [total EXCEPT ![s] = @ + 1]
    BY <1>3, <1>4, <2>3 DEF total
  <2>9. Plan!Perform(s, k)
    BY <1>4, <2>1, <2>4, <2>5, <2>6, <2>7, <2>8
       DEF Plan!Perform, Won, phase, total
  <2> QED
    BY <2>2, <2>9 DEF Plan!PlanNext
<1> QED
  BY <1>10, <1>12, <1>13, <1>14, <1>15, <1>16, <1>17 DEF JobDoes


\* A step that leaves the jobs alone and may write one session's row.
LEMMA RowMapsToPlan ==
  ASSUME AuthTypeOK, SuccessInv', UNCHANGED <<skill, jobVars>>,
         NEW s \in Sessions, NEW status,
         db' = db \/ db' = [db EXCEPT ![s] = status]
  PROVE  [Plan!PlanNext]_(Plan!planVars)
<1>1. UNCHANGED <<pc, entries, failed, returned, recoveries, skill>>
  BY DEF jobVars
<1> DEFINE phase == [t \in Sessions |-> PlanPhase(t)]
           total == [t \in Sessions |-> Performances(t)]
<1>2. UNCHANGED <<returned, recoveries, phase, total>>
  BY <1>1 DEF PlanPhase, Performances
<1> HIDE DEF phase, total
<1>3. CASE Won' = Won
  BY <1>2, <1>3 DEF Plan!planVars, Won, phase, total
<1>4. CASE Won' = Won \ {s}
  <2>1. Plan!Overwrite(s)
    BY <1>2, <1>4 DEF Plan!Overwrite, Won, phase, total
  <2> QED
    BY <2>1 DEF Plan!PlanNext
<1>5. CASE Won' = Won \cup {s} /\ db'[s] = "COMPLETED" /\ ~skill[s]
  <2>1. pc[s] = "ended" /\ \A k \in 1..Steps : returned[s][k] = 1
    BY <1>1, <1>5 DEF SuccessInv, Earned, Succeeds
  <2>2. phase[s] = "closed"
    BY <2>1 DEF phase, PlanPhase, Active
  <2>3. Plan!Succeed(s)
    BY <1>2, <1>5, <2>1, <2>2 DEF Plan!Succeed, Won, phase, total
  <2> QED
    BY <2>3 DEF Plan!PlanNext
<1>6. CASE db' = db
  BY <1>1, <1>3, <1>6 DEF Won
<1>7. CASE db' = [db EXCEPT ![s] = status]
  <2>1. db'[s] = status /\ \A t \in Sessions \ {s} : db'[t] = db[t]
    BY <1>7 DEF AuthTypeOK
  <2>2. CASE status = "COMPLETED" /\ ~skill[s]
    <3>1. Won' = Won \cup {s}
      BY <1>1, <2>1, <2>2 DEF Won
    <3> QED
      BY <1>5, <2>1, <2>2, <3>1
  <2>3. CASE ~(status = "COMPLETED" /\ ~skill[s])
    <3>1. Won' = Won \ {s}
      BY <1>1, <2>1, <2>3 DEF Won
    <3> QED
      BY <1>4, <3>1
  <2> QED
    BY <2>2, <2>3
<1> QED
  BY <1>6, <1>7

\* The jobs the engine had in its memory end with it.
LEMMA DeathMapsToPlan ==
  ASSUME JobTypeOK, EngineDies
  PROVE  [Plan!PlanNext]_(Plan!planVars)
<1> DEFINE phase == [t \in Sessions |-> PlanPhase(t)]
           total == [t \in Sessions |-> Performances(t)]
           jobs  == {t \in Sessions : pc[t] \in Active}
<1>1. /\ UNCHANGED <<entries, failed, returned, recoveries, skill, db>>
      /\ \A t \in Sessions :
           pc'[t] = IF pc[t] \in Active THEN "lost" ELSE pc[t]
  BY DEF EngineDies, queueVars, authVars
<1>2. UNCHANGED <<returned, recoveries, total>> /\ Won' = Won
  BY <1>1 DEF Performances, Won
<1>3. phase' = [t \in Sessions |-> IF t \in jobs THEN "closed" ELSE phase[t]]
  BY <1>1 DEF PlanPhase, Active
<1>4. \A t \in jobs : phase[t] # "closed"
  BY DEF PlanPhase, Active
<1>5. jobs \in SUBSET Sessions
  OBVIOUS
<1> HIDE DEF phase, total, jobs
<1>6. Plan!Close(jobs)
  BY <1>2, <1>3, <1>4 DEF Plan!Close, Won, phase, total
<1> QED
  BY <1>5, <1>6 DEF Plan!PlanNext

LEMMA StepMapsToPlan ==
  ASSUME AuthTypeOK, JobTypeOK, JobTypeOK', JobInv, BoundedInv, SuccessInv',
         [Next]_vars
  PROVE  [Plan!PlanNext]_(Plan!planVars)
<1>1. CASE UNCHANGED vars
  <2>1. UNCHANGED <<jobVars, skill, db>>
    BY <1>1 DEF vars, authVars, queueVars
  <2> QED
    BY <2>1 DEF jobVars, Plan!planVars, PlanPhase, Performances
<1>2. CASE HeartbeatExpires \/ EngineStarts
  <2>1. UNCHANGED <<jobVars, skill, db>>
    BY <1>2 DEF HeartbeatExpires, EngineStarts, authVars, queueVars
  <2> QED
    BY <2>1 DEF jobVars, Plan!planVars, PlanPhase, Performances
<1>3. ASSUME NEW s \in Sessions,
             Dispatching(s) \/ Relay(s) \/ User(s) \/ StatusLands(s)
      PROVE  [Plan!PlanNext]_(Plan!planVars)
  <2>1. UNCHANGED <<skill, jobVars>>
    BY <1>3 DEF Dispatching, CheckAlive, Push, Relay, FindOrCreate,
       HoldStatus, RejectPending, RunningStatus, ReadStatus, WriteVerdict,
       WriteFailure, User, Respond, Cancel, StatusLands, queueVars
  <2>2. \/ db' = db
        \/ \E status : db' = [db EXCEPT ![s] = status]
    BY <1>3 DEF Dispatching, CheckAlive, Push, Relay, FindOrCreate,
       HoldStatus, RejectPending, RunningStatus, ReadStatus, WriteVerdict,
       WriteFailure, TryWrite, User, Respond, Cancel, StatusLands,
       UpdateLands, authVars
  <2> QED
    BY <2>1, <2>2, RowMapsToPlan
<1>4. ASSUME NEW s \in Sessions, Pop(s) \/ Engine(s) \/ Mishap(s)
      PROVE  [Plan!PlanNext]_(Plan!planVars)
  <2>1. skill' = skill /\ db' = db
    BY <1>4 DEF Pop, Engine, BrowserOpens, SkillEnds, BeginStep,
       PollDecision, Act, ConditionHolds, Heal, Finish, Mishap, BrowserFails,
       SkillThrows, StepThrows, StepCrashes, PageCrashes, queueVars, authVars
  <2>2. Won' = Won
    BY <2>1 DEF Won
  <2>3. \A t \in Sessions \ {s} : Untouched(t)
    BY <1>4, QueueUntouched, EngineUntouched
  <2>4. JobDoes(s)
    BY EveryStepDoes
  <2> QED
    BY <2>2, <2>3, <2>4, JobMapsToPlan
<1> QED
  BY <1>1, <1>2, <1>3, <1>4, DeathMapsToPlan DEF Next, BegunWork

LEMMA InitMapsToPlan == WorkerInit => Plan!PlanInit
<1> SUFFICES ASSUME WorkerInit PROVE Plan!PlanInit
  OBVIOUS
<1>1. \A s \in Sessions : PlanPhase(s) = "waiting" /\ Performances(s) = 0
  <2> SUFFICES ASSUME NEW s \in Sessions
               PROVE  PlanPhase(s) = "waiting" /\ Performances(s) = 0
    OBVIOUS
  <2>1. pc[s] = "none" /\ entries[s] = 0 /\ failed[s] = FALSE
    BY DEF WorkerInit
  <2>2. PlanPhase(s) = "waiting"
    BY <2>1 DEF PlanPhase, Active
  <2>3. (IF failed[s] THEN 1 ELSE 0) = 0
    BY <2>1
  <2>4. Performances(s) = 0 - 0
    BY <2>1, <2>3, Zenon DEF Performances
  <2> QED
    BY <2>2, <2>4
<1>2. {s \in Sessions : db[s] = "COMPLETED" /\ ~skill[s]} = {}
  BY DEF WorkerInit
<1>3. /\ returned = [s \in Sessions |-> [k \in 1..Steps |-> 0]]
      /\ recoveries = [s \in Sessions |-> 0]
  BY DEF WorkerInit
<1> QED
  BY <1>1, <1>2, <1>3 DEF Plan!PlanInit

\* The engine, with its approvals, crashes, recoveries and its death, and the
\* relay, with handlers that finish in any order, implement the abstract run of
\* a plan: its steps in order, repeated only against recoveries, nothing after
\* the end, and a success recorded only of a plan performed exactly.
THEOREM WorkerImplementsPlan == Spec => ImplementsPlan
<1>1. /\ AuthTypeOK /\ JobTypeOK /\ JobTypeOK' /\ JobInv /\ BoundedInv
      /\ SuccessInv' /\ [Next]_vars
      => [Plan!PlanNext]_(Plan!planVars)
  BY StepMapsToPlan
<1> QED
  BY <1>1, WorkerJobInv, WorkerBounded, SuccessInvariant, InitMapsToPlan, PTL
     DEF Spec, ImplementsPlan, Plan!PlanSpec

=============================================================================

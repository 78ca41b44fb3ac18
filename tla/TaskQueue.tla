----------------------------- MODULE TaskQueue -----------------------------
(***************************************************************************)
(* A task from the POST that creates it to the verdict of its execution:   *)
(* the idempotency guard, TasksService.create with its planning, the Bull  *)
(* queue behind a circuit breaker, TasksProcessor, ExecutionService and    *)
(* ExecutionTaskWorker.                                                    *)
(*                                                                         *)
(* Every task is named after the POST that inserted it, every job after    *)
(* what enqueued it, and every execution after the handler that created    *)
(* it.  The requests of the model ask for the same plan (one planHash and  *)
(* one user), which is when they interact.  TasksService.cancel has no     *)
(* caller and is left out, and so are the reads' 30 s cache and the rows   *)
(* of an execution's steps.                                                *)
(*                                                                         *)
(* A fault of the environment is a failed call of the database or of       *)
(* Redis, a job that runs into its timeout, or the end of the process.     *)
(*                                                                         *)
(* Operators marked "a fault" are wrong versions of the definition that    *)
(* follows and are not part of the model.                                  *)
(***************************************************************************)
EXTENDS CircuitBreaker, FiniteSets

CONSTANTS
  Creates,      \* the requests POST /tasks
  Executes,     \* the requests POST /tasks/:id/execute
  Keys,         \* values of the header idempotency-key
  NoKey,        \* no such header
  MaxAttempts,  \* JobOptions.attempts
  MaxStalls,    \* Bull's maxStalledCount
  Concurrency,  \* the jobs of the queue that Bull runs at once
  MaxRequests,  \* bound: requests that arrive, of either kind
  MaxFaults     \* bound: faults of the environment

\* The runs of a job: at most MaxAttempts of them fail, and a run that
\* stalled with the process is repeated.
RunNumbers == 1..(MaxAttempts + MaxStalls)

\* What calls executeTask: the runs of a job execute-after-plan, named by the
\* job and the run, and the requests that ask for it.
Starters == (Creates \X RunNumbers) \cup Executes

\* The jobs: execute-after-plan, named after its POST, and process-task, named
\* after the caller of executeTask.
Jobs == Creates \cup Starters

\* The runs of the jobs process-task.
Workers == Starters \X RunNumbers

ASSUME BoundsAssumption ==
  /\ MaxAttempts \in Nat \ {0} /\ MaxStalls \in Nat
  /\ Concurrency \in Nat \ {0}
  /\ MaxRequests \in Nat /\ MaxFaults \in Nat
ASSUME NamesAssumption ==
  /\ Creates \cap Starters = {}
  /\ Executes \cap (Creates \X RunNumbers) = {}
  /\ Creates # {}
  /\ NoKey \notin Keys

VARIABLES
  request,    \* where each POST /tasks is
  key,        \* the key it carries
  taskOf,     \* the task it works for
  storing,    \* the requests whose answer is on its way to the database
  late,       \* the requests that arrived after an answer had been stored
  inFlight,   \* IdempotencyGuard.inFlight
  record,     \* the stored answer of each key
  status,     \* Task.status
  planned,    \* the tasks that have a Plan
  job,        \* the jobs in Redis
  starter,    \* where each caller of executeTask is
  target,     \* the task each POST execute is about
  worker,     \* where each run of a process-task job is
  passed,     \* the callers with an execution a cycle of which passed the critic
  breaker,    \* the breaker bull-tasks
  faults      \* the number of faults so far

guardVars == <<late, inFlight>>
storeVars == <<storing, record>>
taskVars  == <<status, planned>>
runVars   == <<starter, worker>>
vars == <<request, key, taskOf, storing, late, inFlight, record, status,
          planned, job, starter, target, worker, passed, breaker, faults>>

TaskStatuses == {"none", "PLANNING", "PLANNED", "RUNNING", "COMPLETED", "FAILED"}

Handling == {"find", "plan", "planned", "abort", "meta", "adding"}
Ended    == {"answered", "failed", "rejected", "replayed", "lost"}
InGuard  == {"lookup", "purge"}

\* A dropped run failed with nobody to retry it, an ended one is over otherwise.
Starting == {"mark", "create", "enqueue", "adding"}
Working  == {"cycle", "pass", "reject", "heal"}

JobRecords ==
  [state : {"none", "waiting", "active", "done", "failed"},
   run : 0..(MaxAttempts + MaxStalls),
   failures : 0..MaxAttempts,
   stalls : 0..(MaxStalls + 1)]

NoJob == [state |-> "none", run |-> 0, failures |-> 0, stalls |-> 0]

Init ==
  /\ request = [r \in Creates |-> "idle"]
  /\ key = [r \in Creates |-> NoKey]
  /\ taskOf = [r \in Creates |-> r]
  /\ storing = {}
  /\ late = {}
  /\ inFlight = {}
  /\ record = [k \in Keys |-> "none"]
  /\ status = [t \in Creates |-> "none"]
  /\ planned = {}
  /\ job = [j \in Jobs |-> NoJob]
  /\ starter = [s \in Starters |-> "idle"]
  /\ target = [x \in Executes |-> CHOOSE t \in Creates : TRUE]
  /\ worker = [w \in Workers |-> "idle"]
  /\ passed = {}
  /\ breaker = NewBreaker
  /\ faults = 0

TaskOfStarter(s) == IF s \in Executes THEN target[s] ELSE taskOf[s[1]]
TaskOfJob(j) == IF j \in Creates THEN taskOf[j] ELSE TaskOfStarter(j)

Arrived == {r \in Creates : request[r] # "idle"}
             \cup {x \in Executes : starter[x] # "idle"}
MayArrive == Cardinality(Arrived) < MaxRequests

Fault == faults < MaxFaults /\ faults' = faults + 1

(***************************************************************************)
(* Bull.  A job that runs into its timeout is failed although its handler  *)
(* goes on; what that run does in the end no longer concerns the job.      *)
(***************************************************************************)

Added(j) == [job EXCEPT ![j].state = "waiting"]

\* Run n of the job is the one Bull waits for.
Current(j, n) == job[j].state = "active" /\ job[j].run = n

\* The run ends well, or fails, in the queue q.
Done(q, j) == [q EXCEPT ![j].state = "done"]

\* A fault: the attempts are not counted.
FailedAgain(q, j) ==
  [q EXCEPT ![j].failures = @ + 1, ![j].state = "waiting"]

FailedOnce(q, j) ==
  [q EXCEPT ![j].failures = @ + 1,
            ![j].state = IF q[j].failures + 1 < MaxAttempts THEN "waiting"
                                                            ELSE "failed"]

\* The next run of a job waiting in the queue, or whose backoff is over.
Take(j) ==
  LET n == job[j].run + 1 IN
  /\ job[j].state = "waiting"
  /\ Cardinality({i \in Jobs : job[i].state = "active"}) < Concurrency
  /\ job' = [job EXCEPT ![j].state = "active", ![j].run = n]
  /\ IF j \in Creates THEN /\ starter' = [starter EXCEPT ![<<j, n>>] = "mark"]
                           /\ UNCHANGED worker
                      ELSE /\ worker' = [worker EXCEPT ![<<j, n>>] = "cycle"]
                           /\ UNCHANGED starter
  /\ UNCHANGED <<request, key, taskOf, storing, guardVars, record, taskVars, target,
                 passed, breaker, faults>>

Timeout(j) ==
  /\ job[j].state = "active"
  /\ Fault
  /\ job' = FailedOnce(job, j)
  /\ UNCHANGED <<request, key, taskOf, storing, guardVars, record, taskVars, runVars,
                 target, passed, breaker>>

\* tasksQueue.add comes back: the breaker learns the outcome, and a call that
\* failed may have reached Redis all the same.
AddSucceeds(j) ==
  /\ job' = Added(j)
  /\ breaker' = OnSuccess(breaker)

AddFails(j) ==
  /\ Fault
  /\ breaker' = OnFailure(breaker)
  /\ job' \in {job, Added(j)}

(***************************************************************************)
(* The idempotency guard.                                                  *)
(***************************************************************************)

Go(r, stage) == request' = [request EXCEPT ![r] = stage]

Arrive(r, k) ==
  /\ request[r] = "idle"
  /\ MayArrive
  /\ key' = [key EXCEPT ![r] = k]
  /\ \/ k = NoKey /\ Go(r, "find") /\ UNCHANGED guardVars
     \/ k \in inFlight /\ Go(r, "rejected") /\ UNCHANGED guardVars
     \/ /\ k \in Keys \ inFlight
        /\ Go(r, "lookup")
        /\ inFlight' = inFlight \cup {k}
        /\ late' = IF record[k] = "fresh" THEN late \cup {r} ELSE late
  /\ UNCHANGED <<taskOf, storing, record, taskVars, job, runVars, target,
                 passed, breaker, faults>>

\* A fault: the age of the record is not looked at the right way round.
FindsInverted(k) == record[k] = "expired"

\* getResponse finds an answer that is still valid.
Finds(k) == record[k] = "fresh"

Lookup(r) ==
  LET k == key[r] IN
  /\ request[r] = "lookup"
  /\ \/ Finds(k) /\ Go(r, "replayed") /\ UNCHANGED faults
     \/ record[k] = "none" /\ Go(r, "find") /\ UNCHANGED faults
     \/ record[k] # "none" /\ ~Finds(k) /\ Go(r, "purge") /\ UNCHANGED faults
     \/ Fault /\ Go(r, "failed")
  /\ inFlight' = IF request'[r] = "purge" THEN inFlight ELSE inFlight \ {k}
  /\ UNCHANGED <<key, taskOf, storing, late, record, taskVars, job, runVars, target,
                 passed, breaker>>

\* The record that had expired is deleted; the delete of a missing row throws.
Purge(r) ==
  LET k == key[r] IN
  /\ request[r] = "purge"
  /\ \/ record[k] # "none" /\ Go(r, "find") /\ UNCHANGED faults
     \/ record[k] = "none" /\ Go(r, "failed") /\ UNCHANGED faults
     \/ Fault /\ Go(r, "failed")
  /\ record' = IF request'[r] = "find" THEN [record EXCEPT ![k] = "none"]
                                       ELSE record
  /\ inFlight' = inFlight \ {k}
  /\ UNCHANGED <<key, taskOf, storing, late, taskVars, job, runVars, target, passed,
                 breaker>>

\* The handler answers, be it with an error: the patched json() stores it.
Answer(r, outcome) ==
  /\ Go(r, outcome)
  /\ storing' = IF key[r] = NoKey THEN storing ELSE storing \cup {r}

\* setResponse is not awaited, and its failure is ignored.
StoreResponse(r) ==
  /\ r \in storing
  /\ storing' = storing \ {r}
  /\ \/ record' = [record EXCEPT ![key[r]] = "fresh"] /\ UNCHANGED faults
     \/ Fault /\ UNCHANGED record
  /\ UNCHANGED <<request, key, taskOf, guardVars, taskVars, job, runVars, target,
                 passed, breaker>>

\* The time to live is a day, and nothing that has begun lasts as long.
Expire(k) ==
  /\ record[k] = "fresh"
  /\ storing = {}
  /\ \A r \in Creates : request[r] \in Ended \cup {"idle"}
  /\ \A j \in Jobs : job[j].state \notin {"waiting", "active"}
  /\ \A s \in Starters : starter[s] \notin Starting
  /\ \A w \in Workers : worker[w] \notin Working
  /\ record' = [record EXCEPT ![k] = "expired"]
  /\ UNCHANGED <<request, key, taskOf, storing, guardVars, taskVars, job, runVars,
                 target, passed, breaker, faults>>

\* The hourly cleanup.
Cleanup(k) ==
  /\ record[k] = "expired"
  /\ record' = [record EXCEPT ![k] = "none"]
  /\ UNCHANGED <<request, key, taskOf, storing, guardVars, taskVars, job, runVars,
                 target, passed, breaker, faults>>

(***************************************************************************)
(* TasksService.create with PlanningService.generatePlan.                  *)
(***************************************************************************)

HandlerUnchanged ==
  UNCHANGED <<key, guardVars, record, runVars, target, passed>>

\* One step of the handler, and the same step failing with an error answer.
Advance(r, next) == Go(r, next) /\ UNCHANGED <<storing, faults>>
Breaks(r) == Fault /\ Answer(r, "failed")

\* A task planned for the same prompt that was not started yet is reused.
Reusable == {t \in planned : status[t] = "PLANNED"}

\* Otherwise a task is inserted.  (Two requests that both look before either
\* inserts get a task each, as they do when the first is still being planned.)
FindOrInsert(r) ==
  /\ request[r] = "find"
  /\ \/ \E t \in Reusable : /\ taskOf' = [taskOf EXCEPT ![r] = t]
                            /\ Advance(r, "meta")
                            /\ UNCHANGED status
     \/ /\ Reusable = {}
        /\ status' = [status EXCEPT ![r] = "PLANNING"]
        /\ Advance(r, "plan")
        /\ UNCHANGED taskOf
     \/ Breaks(r) /\ UNCHANGED <<taskOf, status>>
  /\ UNCHANGED <<planned, job, breaker>>
  /\ HandlerUnchanged

\* The language model plans and the plan is stored, or the plan does not parse.
GeneratePlan(r) ==
  /\ request[r] = "plan"
  /\ \/ planned' = planned \cup {r} /\ Advance(r, "planned")
     \/ Advance(r, "abort") /\ UNCHANGED planned
  /\ UNCHANGED <<taskOf, status, job, breaker>>
  /\ HandlerUnchanged

\* The update is returned, not awaited: the catch clause does not see it fail.
MarkPlanned(r) ==
  /\ request[r] = "planned"
  /\ \/ status' = [status EXCEPT ![r] = "PLANNED"] /\ Advance(r, "meta")
     \/ Breaks(r) /\ UNCHANGED status
  /\ UNCHANGED <<taskOf, planned, job, breaker>>
  /\ HandlerUnchanged

PlanFailed(r) ==
  /\ request[r] = "abort"
  /\ \/ /\ status' = [status EXCEPT ![r] = "FAILED"]
        /\ Answer(r, "failed")
        /\ UNCHANGED faults
     \/ Breaks(r) /\ UNCHANGED status
  /\ UNCHANGED <<taskOf, planned, job, breaker>>
  /\ HandlerUnchanged

\* The task's other columns are updated, and in the turn in which that comes
\* back addTaskJob('execute-after-plan') asks the breaker ...
EnqueuePlan(r) ==
  /\ request[r] = "meta"
  /\ \/ \E cooled \in BOOLEAN :
          \/ /\ MayCall(breaker, cooled)
             /\ breaker' = Admit(breaker)
             /\ Advance(r, "adding")
          \/ /\ ~MayCall(breaker, cooled)
             /\ Answer(r, "failed")
             /\ UNCHANGED <<breaker, faults>>
     \/ Breaks(r) /\ UNCHANGED breaker
  /\ UNCHANGED <<taskOf, taskVars, job>>
  /\ HandlerUnchanged

\* ... and the job is added; then the task is read again for the answer.
PlanEnqueued(r) ==
  /\ request[r] = "adding"
  /\ \/ AddSucceeds(r) /\ Answer(r, "answered") /\ UNCHANGED faults
     \/ AddSucceeds(r) /\ Breaks(r)
     \/ AddFails(r) /\ Answer(r, "failed")
  /\ UNCHANGED <<taskOf, taskVars>>
  /\ HandlerUnchanged

(***************************************************************************)
(* TasksProcessor and ExecutionService.executeTask.  The plan executeTask  *)
(* looks for is there: whoever calls it has seen it.                       *)
(***************************************************************************)

StarterUnchanged ==
  UNCHANGED <<request, key, taskOf, storing, guardVars, record, planned, target,
              worker, passed>>

At(s, stage) == starter' = [starter EXCEPT ![s] = stage]

\* Bull waits for the end of this run.
Awaited(s) == s \notin Executes /\ Current(s[1], s[2])

StarterEnds(s, q) ==
  /\ At(s, "ended")
  /\ job' = IF Awaited(s) THEN Done(q, s[1]) ELSE q

\* A fault: the processor catches the error and only logs it.
StarterSwallows(s, q) == StarterEnds(s, q)

\* An error ends the run, and Bull repeats the job if it still waits for it.
StarterFails(s, q) ==
  /\ At(s, IF Awaited(s) THEN "ended" ELSE "dropped")
  /\ job' = IF Awaited(s) THEN FailedOnce(q, s[1]) ELSE q

StarterStep(s, next) == At(s, next) /\ UNCHANGED <<job, faults>>

\* POST /tasks/:id/execute
StartExecute(x, t) ==
  /\ starter[x] = "idle"
  /\ MayArrive
  /\ t \in planned
  /\ target' = [target EXCEPT ![x] = t]
  /\ StarterStep(x, "create")
  /\ UNCHANGED <<request, key, taskOf, storing, guardVars, record, taskVars,
                 worker, passed, breaker>>

\* handleExecuteAfterPlan
MarkRunning(s) ==
  /\ starter[s] = "mark"
  /\ \/ /\ status' = [status EXCEPT ![TaskOfStarter(s)] = "RUNNING"]
        /\ StarterStep(s, "create")
     \/ Fault /\ StarterFails(s, job) /\ UNCHANGED status
  /\ UNCHANGED breaker
  /\ StarterUnchanged

\* executeTask creates the execution and marks the task running.
RunTask(s) ==
  /\ starter[s] = "create"
  /\ \/ /\ status' = [status EXCEPT ![TaskOfStarter(s)] = "RUNNING"]
        /\ StarterStep(s, "enqueue")
     \/ Fault /\ StarterFails(s, job) /\ UNCHANGED status
  /\ UNCHANGED breaker
  /\ StarterUnchanged

EnqueueRun(s) ==
  /\ starter[s] = "enqueue"
  /\ \E cooled \in BOOLEAN :
       \/ /\ MayCall(breaker, cooled)
          /\ breaker' = Admit(breaker)
          /\ StarterStep(s, "adding")
       \/ /\ ~MayCall(breaker, cooled)
          /\ StarterFails(s, job)
          /\ UNCHANGED <<breaker, faults>>
  /\ UNCHANGED status
  /\ StarterUnchanged

RunEnqueued(s) ==
  /\ starter[s] = "adding"
  /\ \/ /\ breaker' = OnSuccess(breaker)
        /\ StarterEnds(s, Added(s))
        /\ UNCHANGED faults
     \/ /\ Fault
        /\ breaker' = OnFailure(breaker)
        /\ \E q \in {job, Added(s)} : StarterFails(s, q)
  /\ UNCHANGED status
  /\ StarterUnchanged

(***************************************************************************)
(* ExecutionTaskWorker.handleTask.  A worker <<s, n>> is the n-th run of   *)
(* the job that s enqueued.                                                *)
(***************************************************************************)

WorkerUnchanged ==
  UNCHANGED <<request, key, taskOf, storing, guardVars, record, planned, starter,
              target, breaker>>

WorkerAt(w, stage) == worker' = [worker EXCEPT ![w] = stage]

WorkerEnds(w) ==
  /\ WorkerAt(w, "ended")
  /\ job' = IF Current(w[1], w[2]) THEN Done(job, w[1]) ELSE job

WorkerFails(w) ==
  /\ WorkerAt(w, "ended")
  /\ job' = IF Current(w[1], w[2]) THEN FailedOnce(job, w[1]) ELSE job

\* runCycle: the critic passes or rejects the results, or the cycle throws.
RunCycle(w) ==
  /\ worker[w] = "cycle"
  /\ \/ WorkerAt(w, "pass") /\ passed' = passed \cup {w[1]}
     \/ WorkerAt(w, "reject") /\ UNCHANGED passed
     \/ WorkerAt(w, "heal") /\ UNCHANGED passed
  /\ UNCHANGED <<status, job, faults>>
  /\ WorkerUnchanged

\* A fault: the catch clause completes the execution with success.
VerdictHealed(stage) == IF stage = "reject" THEN "FAILED" ELSE "COMPLETED"

\* What completeExecution is told.
Verdict(stage) == IF stage = "pass" THEN "COMPLETED" ELSE "FAILED"

\* A fault: an execution that was healed leaves the task alone.
SetVerdictUnlessHealed(w) ==
  status' = IF worker[w] = "heal" THEN status
            ELSE [status EXCEPT ![TaskOfStarter(w[1])] = Verdict(worker[w])]

SetVerdict(w) ==
  status' = [status EXCEPT ![TaskOfStarter(w[1])] = Verdict(worker[w])]

\* When completeExecution throws in the try block, the catch clause calls
\* it again; when it throws there, the run has failed.
CompleteExecution(w) ==
  /\ worker[w] \in {"pass", "reject", "heal"}
  /\ \/ /\ SetVerdict(w)
        /\ WorkerEnds(w)
        /\ UNCHANGED faults
     \/ /\ worker[w] # "heal"
        /\ Fault
        /\ WorkerAt(w, "heal")
        /\ UNCHANGED <<status, job>>
     \/ /\ worker[w] = "heal"
        /\ Fault
        /\ WorkerFails(w)
        /\ UNCHANGED status
  /\ UNCHANGED passed
  /\ WorkerUnchanged

(***************************************************************************)
(* The process ends and is started again.  Bull notices the runs that died *)
(* with it and repeats their jobs, MaxStalls times.                        *)
(***************************************************************************)

Stalled(j) ==
  IF job[j].state = "active"
  THEN [job[j] EXCEPT !.stalls = @ + 1,
                      !.state = IF job[j].stalls < MaxStalls THEN "waiting" ELSE "failed"]
  ELSE job[j]

Restart ==
  /\ Fault
  /\ request' = [r \in Creates |-> IF request[r] \in InGuard \cup Handling
                                   THEN "lost" ELSE request[r]]
  /\ starter' = [s \in Starters |->
                   IF starter[s] \notin Starting THEN starter[s]
                   ELSE IF Awaited(s) THEN "ended" ELSE "dropped"]
  /\ worker' = [w \in Workers |-> IF worker[w] \in Working THEN "ended" ELSE worker[w]]
  /\ job' = [j \in Jobs |-> Stalled(j)]
  /\ storing' = {}
  /\ inFlight' = {}
  /\ breaker' = NewBreaker
  /\ UNCHANGED <<key, taskOf, late, record, taskVars, target, passed>>

-----------------------------------------------------------------------------

Handle(r) ==
  \/ Lookup(r) \/ Purge(r)
  \/ FindOrInsert(r) \/ GeneratePlan(r) \/ MarkPlanned(r) \/ PlanFailed(r)
  \/ EnqueuePlan(r) \/ PlanEnqueued(r)

ExecuteTask(s) ==
  \/ MarkRunning(s) \/ RunTask(s) \/ EnqueueRun(s) \/ RunEnqueued(s)

HandleTask(w) == RunCycle(w) \/ CompleteExecution(w)

\* What has begun and goes on.
Progress ==
  \/ \E r \in Creates : Handle(r) \/ StoreResponse(r)
  \/ \E j \in Jobs : Take(j)
  \/ \E s \in Starters : ExecuteTask(s)
  \/ \E w \in Workers : HandleTask(w)

\* What the clients, the clock and the environment do.
Environment ==
  \/ \E r \in Creates, k \in Keys \cup {NoKey} : Arrive(r, k)
  \/ \E x \in Executes, t \in Creates : StartExecute(x, t)
  \/ \E k \in Keys : Expire(k) \/ Cleanup(k)
  \/ \E j \in Jobs : Timeout(j)
  \/ Restart

Next == Progress \/ Environment

Spec == Init /\ [][Next]_vars

\* The event loop runs the continuation of every call that comes back, and Bull
\* hands out the jobs that wait: the process does not sit on work it has begun.
\* As each piece of work is finite, no more is needed.
FairSpec == Spec /\ WF_vars(Progress)

-----------------------------------------------------------------------------

TypeOK ==
  /\ request \in [Creates -> {"idle"} \cup InGuard \cup Handling \cup Ended]
  /\ key \in [Creates -> Keys \cup {NoKey}]
  /\ taskOf \in [Creates -> Creates]
  /\ storing \subseteq Creates
  /\ late \subseteq Creates
  /\ inFlight \subseteq Keys
  /\ record \in [Keys -> {"none", "fresh", "expired"}]
  /\ status \in [Creates -> TaskStatuses]
  /\ planned \subseteq Creates
  /\ job \in [Jobs -> JobRecords]
  /\ starter \in [Starters -> {"idle", "ended", "dropped"} \cup Starting]
  /\ target \in [Executes -> Creates]
  /\ worker \in [Workers -> {"idle", "ended"} \cup Working]
  /\ passed \subseteq Starters
  /\ breaker \in Breakers
  /\ faults \in 0..MaxFaults

\* Something is still to happen to the task.
HasWork(t) ==
  \/ \E s \in Starters : TaskOfStarter(s) = t /\ starter[s] \in Starting
  \/ \E j \in Jobs : TaskOfJob(j) = t /\ job[j].state \in {"waiting", "active"}

\* A job of the task has no attempts left, or a caller of executeTask whose
\* failure nobody retries has failed.
GivenUp(t) ==
  \/ \E s \in Starters : TaskOfStarter(s) = t /\ starter[s] = "dropped"
  \/ \E j \in Jobs : TaskOfJob(j) = t /\ job[j].state = "failed"

\* A task that shows RUNNING is not forgotten: a run of one of its jobs, a job
\* that waits, or a request is still to bring it to its verdict, unless its jobs
\* have used up their attempts or a caller failed whom nobody repeats
\* (executeTask marks the task before it enqueues, handleExecuteAfterPlan even
\* before that, and each of the calls in between may fail).
RunningTaskHasWork ==
  \A t \in Creates : status[t] = "RUNNING" => HasWork(t) \/ GivenUp(t)

\* However its jobs are repeated, overtaken by runs that had timed out, or
\* healed, a task shows COMPLETED only when the critic has passed the results of
\* some cycle of one of its executions (handleTask, completeExecution).
CompletedTaskPassed ==
  \A t \in Creates : status[t] = "COMPLETED" =>
    \E s \in passed : TaskOfStarter(s) = t

\* A request that arrives when an answer to its key is stored and valid never
\* reaches the handler, whatever other requests of the key are doing, the
\* expiry and the hourly cleanup included (IdempotencyGuard, getResponse).
StoredAnswerIsReplayed ==
  \A r \in late : request[r] \notin Handling /\ request[r] # "answered"

\* The breaker of the queue stays sound while handlers and jobs ask it, and
\* report to it, in any order, calls it admitted before it opened included.
BreakerSound == BreakerIsSound(breaker)

\* A task whose creation was answered with success gets a verdict, unless its
\* jobs have used up their attempts or a caller failed whom nobody repeats.
AcceptedTaskFinishes ==
  \A r \in Creates :
    request[r] = "answered" ~>
      status[taskOf[r]] \in {"COMPLETED", "FAILED"} \/ GivenUp(taskOf[r])

\* "Race-condition guard: reject duplicate in-flight requests with same key":
\* the handler never works for two requests of one key at the same time.
OneHandlerPerKey ==
  \A r, q \in Creates :
    r # q /\ key[r] = key[q] /\ key[r] \in Keys =>
      request[r] \notin Handling \/ request[q] \notin Handling

=============================================================================

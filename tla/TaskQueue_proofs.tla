-------------------------- MODULE TaskQueue_proofs --------------------------
(***************************************************************************)
(* Proofs about TaskQueue for any requests, keys, thresholds and bounds.   *)
(***************************************************************************)
EXTENDS TaskQueue, TLAPS

(***************************************************************************)
(* The breaker: each method of CircuitBreakerService keeps a sound breaker *)
(* sound.                                                                  *)
(***************************************************************************)

LEMMA NewBreakerSound == NewBreaker \in Breakers /\ BreakerIsSound(NewBreaker)
BY FailureThresholdAssumption, SuccessThresholdAssumption
   DEF NewBreaker, Breakers, Circuits, BreakerIsSound

LEMMA AdmitSound ==
  ASSUME NEW b \in Breakers, BreakerIsSound(b)
  PROVE  Admit(b) \in Breakers /\ BreakerIsSound(Admit(b))
<1>1. CASE b.state = "OPEN"
  <2>1. Admit(b) = [state |-> "HALF_OPEN", failureCount |-> b.failureCount,
                    successCount |-> 0]
    BY <1>1 DEF Admit, Breakers
  <2>0. 0 < SuccessThreshold
    BY SuccessThresholdAssumption
  <2>2. /\ Admit(b) \in Breakers
        /\ Admit(b).state = "HALF_OPEN" /\ Admit(b).successCount = 0
        /\ Admit(b).failureCount = b.failureCount
    BY <2>1 DEF Breakers, Circuits
  <2> QED
    BY <1>1, <2>0, <2>2 DEF BreakerIsSound
<1>2. CASE b.state # "OPEN"
  BY <1>2 DEF Admit
<1> QED
  BY <1>1, <1>2

LEMMA OnSuccessSound ==
  ASSUME NEW b \in Breakers, BreakerIsSound(b)
  PROVE  OnSuccess(b) \in Breakers /\ BreakerIsSound(OnSuccess(b))
<1>1. CASE b.state = "HALF_OPEN" /\ b.successCount + 1 >= SuccessThreshold
  <2>1. ~(b.successCount + 1 < SuccessThreshold) /\ b.state # "CLOSED"
    BY <1>1, SuccessThresholdAssumption DEF Breakers
  <2>2. OnSuccess(b) = NewBreaker
    BY <1>1, <2>1 DEF OnSuccess
  <2> QED
    BY <2>2, NewBreakerSound
<1>2. CASE b.state = "HALF_OPEN" /\ b.successCount + 1 < SuccessThreshold
  <2>1. ~(b.successCount + 1 >= SuccessThreshold)
    BY <1>2, SuccessThresholdAssumption DEF Breakers
  <2>2. OnSuccess(b) = [b EXCEPT !.successCount = @ + 1]
    BY <1>2, <2>1 DEF OnSuccess
  <2> QED
    BY <1>2, <2>2 DEF Breakers, Circuits, BreakerIsSound
<1>3. CASE b.state = "CLOSED"
  <2>1. OnSuccess(b) = [b EXCEPT !.failureCount = 0]
    BY <1>3 DEF OnSuccess
  <2> QED
    BY <1>3, <2>1, FailureThresholdAssumption DEF Breakers, Circuits, BreakerIsSound
<1>4. CASE b.state = "OPEN"
  BY <1>4 DEF OnSuccess
<1> QED
  BY <1>1, <1>2, <1>3, <1>4, SuccessThresholdAssumption DEF Breakers, Circuits

LEMMA OnFailureSound ==
  ASSUME NEW b \in Breakers, BreakerIsSound(b)
  PROVE  OnFailure(b) \in Breakers /\ BreakerIsSound(OnFailure(b))
<1> DEFINE next == IF Trips(b) THEN "OPEN" ELSE b.state
<1>0. OnFailure(b) = [state |-> next, failureCount |-> b.failureCount + 1,
                      successCount |-> b.successCount]
  <2>1. b = [state |-> b.state, failureCount |-> b.failureCount,
             successCount |-> b.successCount]
    BY DEF Breakers
  <2>2. OnFailure(b) = [b EXCEPT !.failureCount = b.failureCount + 1, !.state = next]
    BY DEF OnFailure
  <2> HIDE DEF next
  <2> QED
    BY <2>1, <2>2
<1>1. b.failureCount \in Nat /\ b.state \in Circuits /\ b.successCount \in Nat
  BY DEF Breakers
<1>2. OnFailure(b) \in Breakers
  BY <1>0, <1>1 DEF Breakers, Circuits
<1>3. (next = "CLOSED") = (b.failureCount + 1 < FailureThreshold)
  <2>1. CASE b.state = "CLOSED"
    BY <1>1, <2>1, FailureThresholdAssumption DEF Trips
  <2>2. CASE b.state # "CLOSED"
    <3>1. next # "CLOSED"
      BY <2>2
    <3>2. ~(b.failureCount < FailureThreshold)
      BY <2>2 DEF BreakerIsSound
    <3> QED
      BY <1>1, <3>1, <3>2, FailureThresholdAssumption
  <2> QED
    BY <2>1, <2>2
<1>4. next = "CLOSED" => b.state = "CLOSED"
  BY DEF Trips
<1> QED
  BY <1>0, <1>2, <1>3, <1>4 DEF BreakerIsSound

BreakerInv == breaker \in Breakers /\ BreakerIsSound(breaker)

LEMMA BreakerStep == BreakerInv /\ [Next]_vars => BreakerInv'
<1> SUFFICES ASSUME BreakerInv, [Next]_vars PROVE BreakerInv'
  OBVIOUS
<1>1. \/ UNCHANGED breaker
      \/ breaker' \in {Admit(breaker), OnSuccess(breaker), OnFailure(breaker),
                       NewBreaker}
  BY DEF Next, Progress, Environment, Handle, ExecuteTask, HandleTask, vars,
     guardVars, taskVars, runVars, Lookup, Purge, FindOrInsert, GeneratePlan,
     MarkPlanned, PlanFailed, EnqueuePlan, PlanEnqueued, AddSucceeds, AddFails,
     StoreResponse, Take, MarkRunning, RunTask, EnqueueRun, RunEnqueued,
     RunCycle, CompleteExecution, WorkerUnchanged, Arrive, StartExecute, Expire,
     Cleanup, Timeout, Restart
<1> QED
  BY <1>1, NewBreakerSound, AdmitSound, OnSuccessSound, OnFailureSound DEF BreakerInv

LEMMA BreakerInvariant == Spec => []BreakerInv
<1>1. Init => BreakerInv
  BY NewBreakerSound DEF Init, BreakerInv
<1> QED
  BY <1>1, BreakerStep, PTL DEF Spec

\* The breaker of the queue is never open without cause, nor closed in spite of
\* its count.
THEOREM BreakerStaysSound == Spec => []BreakerSound
<1>1. BreakerInv => BreakerSound
  BY DEF BreakerInv, BreakerSound
<1> QED
  BY <1>1, BreakerInvariant, PTL

-----------------------------------------------------------------------------
(***************************************************************************)
(* The idempotency guard.                                                  *)
(***************************************************************************)

\* Only one request of a key is in the guard at a time, and a request that came
\* when an answer was stored finds it: whatever would take it away waits.
GuardTypeOK ==
  /\ request \in [Creates -> {"idle"} \cup InGuard \cup Handling \cup Ended]
  /\ key \in [Creates -> Keys \cup {NoKey}]
  /\ late \subseteq Creates
  /\ inFlight \subseteq Keys
  /\ record \in [Keys -> {"none", "fresh", "expired"}]
  /\ storing \subseteq {r \in Creates : key[r] \in Keys /\ request[r] # "idle"}
  /\ \A r \in Creates : request[r] \in InGuard => key[r] \in inFlight
  /\ \A r \in late : key[r] \in Keys

OneInGuard ==
  \A r, q \in Creates :
    request[r] \in InGuard /\ request[q] \in InGuard /\ key[r] = key[q] => r = q

LateIsReplayed ==
  \A r \in late :
    \/ request[r] = "lookup" /\ record[key[r]] = "fresh"
    \/ request[r] \in {"replayed", "failed", "lost"}

GuardInv == GuardTypeOK /\ OneInGuard /\ LateIsReplayed

\* A step that leaves the guard alone, and moves requests only behind it.
LEMMA GuardKept ==
  ASSUME GuardInv, UNCHANGED <<key, late, inFlight, record>>,
         storing' \subseteq {r \in Creates : key[r] \in Keys /\ request[r] # "idle"},
         request' \in [Creates -> {"idle"} \cup InGuard \cup Handling \cup Ended],
         \A r \in Creates : \/ request'[r] = request[r]
                            \/ /\ request[r] \in Handling
                               /\ request'[r] \notin InGuard \cup {"idle"}
  PROVE  GuardInv'
BY DEF GuardInv, GuardTypeOK, OneInGuard, LateIsReplayed, Handling, InGuard

\* What a handler of TasksService.create does to requests.
LEMMA HandlerKeepsGuard ==
  ASSUME GuardInv, NEW r \in Creates, request[r] \in Handling,
         UNCHANGED <<key, late, inFlight, record>>,
         \/ \E stage \in Handling : Go(r, stage) /\ UNCHANGED storing
         \/ \E outcome \in {"answered", "failed"} : Answer(r, outcome)
  PROVE  GuardInv'
<1>1. storing' \subseteq {q \in Creates : key[q] \in Keys /\ request[q] # "idle"}
  BY DEF GuardInv, GuardTypeOK, Answer, Handling
<1>2. PICK stage \in Handling \cup {"answered", "failed"} :
        request' = [request EXCEPT ![r] = stage]
  BY DEF Go, Answer
<1>3. stage \notin InGuard \cup {"idle"} /\ stage \in Handling \cup Ended
  BY DEF Handling, Ended, InGuard
<1>4. request' \in [Creates -> {"idle"} \cup InGuard \cup Handling \cup Ended]
  BY <1>2, <1>3 DEF GuardInv, GuardTypeOK
<1>5. \A q \in Creates : \/ request'[q] = request[q]
                         \/ /\ request[q] \in Handling
                            /\ request'[q] \notin InGuard \cup {"idle"}
  BY <1>2, <1>3 DEF GuardInv, GuardTypeOK
<1> QED
  BY <1>1, <1>4, <1>5, GuardKept

LEMMA GuardStep == GuardInv /\ [Next]_vars => GuardInv'
<1> SUFFICES ASSUME GuardInv, [Next]_vars PROVE GuardInv'
  OBVIOUS
<1> USE DEF guardVars, taskVars, runVars
<1>0. GuardTypeOK /\ OneInGuard /\ LateIsReplayed
  BY DEF GuardInv
<1>1. CASE UNCHANGED <<request, key, storing, late, inFlight, record>>
  BY <1>0, <1>1, GuardKept DEF GuardTypeOK
<1>2. ASSUME NEW r \in Creates, NEW k \in Keys \cup {NoKey}, Arrive(r, k)
      PROVE  GuardInv'
  <2>0. /\ request[r] = "idle" /\ key' = [key EXCEPT ![r] = k]
        /\ UNCHANGED <<storing, record>>
    BY <1>2 DEF Arrive
  <2>1. r \notin storing /\ r \notin late
    BY <1>0, <2>0 DEF LateIsReplayed, GuardTypeOK
  <2>2. CASE /\ request' \in {[request EXCEPT ![r] = stage] : stage \in {"find", "rejected"}}
             /\ UNCHANGED <<late, inFlight>>
    <3>1. \A q \in Creates : request'[q] \in InGuard =>
             q # r /\ request[q] \in InGuard /\ key'[q] = key[q]
      BY <1>0, <2>0, <2>2 DEF GuardTypeOK, InGuard
    <3>2. GuardTypeOK'
      BY <1>0, <2>0, <2>1, <2>2, <3>1 DEF GuardTypeOK, Handling, Ended
    <3>3. OneInGuard'
      BY <1>0, <3>1 DEF OneInGuard
    <3>4. LateIsReplayed'
      BY <1>0, <2>0, <2>1, <2>2 DEF LateIsReplayed, GuardTypeOK
    <3> QED
      BY <3>2, <3>3, <3>4 DEF GuardInv
  <2>3. CASE /\ k \in Keys \ inFlight
             /\ request' = [request EXCEPT ![r] = "lookup"]
             /\ inFlight' = inFlight \cup {k}
             /\ late' = IF record[k] = "fresh" THEN late \cup {r} ELSE late
    <3>1. \A q \in Creates \ {r} : request[q] \in InGuard => key[q] # k
      BY <1>0, <2>3 DEF GuardTypeOK
    <3>2. GuardTypeOK'
      BY <1>0, <2>0, <2>1, <2>3 DEF GuardTypeOK, InGuard
    <3>3. OneInGuard'
      BY <1>0, <2>0, <2>3, <3>1 DEF OneInGuard, GuardTypeOK
    <3>4. LateIsReplayed'
      BY <1>0, <2>0, <2>1, <2>3 DEF LateIsReplayed, GuardTypeOK
    <3> QED
      BY <3>2, <3>3, <3>4 DEF GuardInv
  <2> QED
    BY <1>2, <2>2, <2>3 DEF Arrive, Go
\* Whoever leaves the guard takes its key out of it, and nobody else is there
\* with that key.
<1>3. ASSUME NEW r \in Creates, Lookup(r) PROVE GuardInv'
  <2>1. PICK stage \in {"replayed", "find", "purge", "failed"} :
          /\ request' = [request EXCEPT ![r] = stage]
          /\ record[key[r]] = "fresh" => stage \in {"replayed", "failed"}
    BY <1>3 DEF Lookup, Finds, Go
  <2>2. /\ request[r] = "lookup" /\ UNCHANGED <<key, storing, late, record>>
        /\ inFlight' = IF stage = "purge" THEN inFlight ELSE inFlight \ {key[r]}
    <3>1. request'[r] = stage
      BY <1>0, <2>1 DEF GuardTypeOK
    <3> QED
      BY <1>3, <3>1 DEF Lookup
  <2>3. GuardTypeOK'
    <3>1. request' \in [Creates -> {"idle"} \cup InGuard \cup Handling \cup Ended]
      BY <1>0, <2>1 DEF GuardTypeOK, InGuard, Handling, Ended
    <3>2. ASSUME NEW q \in Creates, request'[q] \in InGuard
          PROVE  key'[q] \in inFlight'
      <4>1. request[q] \in InGuard /\ (q = r => stage = "purge")
        BY <1>0, <2>1, <2>2, <3>2 DEF GuardTypeOK, InGuard
      <4>2. key[q] \in inFlight /\ (key[q] = key[r] => q = r)
        BY <1>0, <2>2, <4>1 DEF GuardTypeOK, OneInGuard, InGuard
      <4> QED
        BY <2>2, <4>1, <4>2
    <3>3. \A q \in storing' : key'[q] \in Keys /\ request'[q] # "idle"
      BY <1>0, <2>1, <2>2 DEF GuardTypeOK
    <3> QED
      BY <1>0, <2>2, <3>1, <3>2, <3>3 DEF GuardTypeOK
  <2>4. OneInGuard'
    BY <1>0, <2>1, <2>2 DEF OneInGuard, GuardTypeOK, InGuard
  <2>5. LateIsReplayed'
    BY <1>0, <2>1, <2>2 DEF LateIsReplayed, GuardTypeOK
  <2> QED
    BY <2>3, <2>4, <2>5 DEF GuardInv
<1>4. ASSUME NEW r \in Creates, Purge(r) PROVE GuardInv'
  <2>1. PICK stage \in {"find", "failed"} :
          request' = [request EXCEPT ![r] = stage]
    BY <1>4 DEF Purge, Go
  <2>2. /\ request[r] = "purge" /\ UNCHANGED <<key, storing, late>>
        /\ record' \in {record, [record EXCEPT ![key[r]] = "none"]}
        /\ inFlight' = inFlight \ {key[r]}
    BY <1>4 DEF Purge
  <2>3. \A q \in Creates \ {r} : request[q] \in InGuard => key[q] # key[r]
    BY <1>0, <2>2 DEF OneInGuard, InGuard
  <2>4. GuardTypeOK'
    <3>1. request' \in [Creates -> {"idle"} \cup InGuard \cup Handling \cup Ended]
      BY <1>0, <2>1 DEF GuardTypeOK, Handling, Ended
    <3>2. \A q \in Creates : request'[q] \in InGuard =>
             q # r /\ request[q] \in InGuard
      BY <1>0, <2>1 DEF GuardTypeOK, InGuard
    <3>3. \A q \in storing' : key'[q] \in Keys /\ request'[q] # "idle"
      BY <1>0, <2>1, <2>2 DEF GuardTypeOK
    <3> QED
      BY <1>0, <2>2, <2>3, <3>1, <3>2, <3>3 DEF GuardTypeOK
  <2>5. OneInGuard'
    BY <1>0, <2>1, <2>2 DEF OneInGuard, GuardTypeOK, InGuard
  <2>6. LateIsReplayed'
    BY <1>0, <2>1, <2>2, <2>3 DEF LateIsReplayed, GuardTypeOK, InGuard
  <2> QED
    BY <2>4, <2>5, <2>6 DEF GuardInv
<1>5. ASSUME NEW r \in Creates,
             \/ FindOrInsert(r) \/ GeneratePlan(r) \/ MarkPlanned(r)
             \/ PlanFailed(r) \/ EnqueuePlan(r) \/ PlanEnqueued(r)
      PROVE  GuardInv'
  <2>1. request[r] \in Handling /\ UNCHANGED <<key, late, inFlight, record>>
    BY <1>5 DEF FindOrInsert, GeneratePlan, MarkPlanned, PlanFailed, EnqueuePlan,
       PlanEnqueued, HandlerUnchanged, Handling
  <2>2. \/ \E stage \in Handling : Go(r, stage) /\ UNCHANGED storing
        \/ \E outcome \in {"answered", "failed"} : Answer(r, outcome)
    BY <1>5 DEF FindOrInsert, GeneratePlan, MarkPlanned, PlanFailed, EnqueuePlan,
       PlanEnqueued, Advance, Breaks, Handling
  <2> QED
    BY <2>1, <2>2, HandlerKeepsGuard
<1>6. ASSUME NEW r \in Creates, StoreResponse(r) PROVE GuardInv'
  <2>1. /\ storing' = storing \ {r}
        /\ UNCHANGED <<request, key, late, inFlight>>
        /\ record' \in {record, [record EXCEPT ![key[r]] = "fresh"]}
    BY <1>6 DEF StoreResponse
  <2> QED
    BY <1>0, <2>1 DEF GuardInv, GuardTypeOK, OneInGuard, LateIsReplayed
<1>7. ASSUME NEW k \in Keys, Expire(k) PROVE GuardInv'
  <2>1. /\ record' = [record EXCEPT ![k] = "expired"]
        /\ UNCHANGED <<request, key, storing, late, inFlight>>
        /\ \A r \in Creates : request[r] # "lookup"
    BY <1>7 DEF Expire, Ended
  <2> QED
    BY <1>0, <2>1 DEF GuardInv, GuardTypeOK, OneInGuard, LateIsReplayed
<1>8. ASSUME NEW k \in Keys, Cleanup(k) PROVE GuardInv'
  <2>1. /\ record[k] = "expired" /\ record' = [record EXCEPT ![k] = "none"]
        /\ UNCHANGED <<request, key, storing, late, inFlight>>
    BY <1>8 DEF Cleanup
  <2> QED
    BY <1>0, <2>1 DEF GuardInv, GuardTypeOK, OneInGuard, LateIsReplayed
<1>9. CASE Restart
  <2>1. /\ storing' = {} /\ inFlight' = {} /\ UNCHANGED <<key, late, record>>
        /\ request' = [r \in Creates |-> IF request[r] \in InGuard \cup Handling
                                         THEN "lost" ELSE request[r]]
    BY <1>9 DEF Restart
  <2>2. "lost" \in Ended
    BY DEF Ended
  <2>3. \A r \in Creates : request'[r] \notin InGuard
    BY <2>1 DEF InGuard
  <2>4. GuardTypeOK'
    BY <1>0, <2>1, <2>2, <2>3 DEF GuardTypeOK
  <2>5. LateIsReplayed'
    BY <1>0, <2>1 DEF LateIsReplayed, GuardTypeOK, InGuard
  <2> QED
    BY <2>3, <2>4, <2>5 DEF GuardInv, OneInGuard
<1>10. ASSUME NEW j \in Jobs, Take(j) \/ Timeout(j) PROVE GuardInv'
  BY <1>1, <1>10 DEF Take, Timeout
<1>11. ASSUME NEW s \in Starters, ExecuteTask(s) PROVE GuardInv'
  BY <1>1, <1>11
     DEF ExecuteTask, MarkRunning, RunTask, EnqueueRun, RunEnqueued, StarterUnchanged
<1>12. ASSUME NEW w \in Workers, HandleTask(w) PROVE GuardInv'
  BY <1>1, <1>12 DEF HandleTask, RunCycle, CompleteExecution, WorkerUnchanged
<1>13. ASSUME NEW x \in Executes, NEW t \in Creates, StartExecute(x, t)
       PROVE  GuardInv'
  BY <1>1, <1>13 DEF StartExecute
<1>14. CASE UNCHANGED vars
  BY <1>1, <1>14 DEF vars
<1> QED
  BY <1>2, <1>3, <1>4, <1>5, <1>6, <1>7, <1>8, <1>9, <1>10, <1>11, <1>12, <1>13,
     <1>14 DEF Next, Progress, Environment, Handle

\* A request that comes when a valid answer to its key is stored never reaches
\* the handler.
THEOREM StoredIsReplayed == Spec => []StoredAnswerIsReplayed
<1>1. Init => GuardInv
  BY DEF Init, GuardInv, GuardTypeOK, OneInGuard, LateIsReplayed, InGuard
<1>2. GuardInv => StoredAnswerIsReplayed
  BY DEF GuardInv, GuardTypeOK, LateIsReplayed, StoredAnswerIsReplayed, Handling
<1> QED
  BY <1>1, <1>2, GuardStep, PTL DEF Spec

-----------------------------------------------------------------------------
(***************************************************************************)
(* The jobs of the queue.                                                  *)
(***************************************************************************)

\* A record's numbers agree: each run so far has failed or stalled, but for the
\* one that is active.
Shape(rec) ==
  /\ rec \in JobRecords
  /\ rec.state = "none" => rec = NoJob
  /\ rec.state \in {"waiting", "active"} =>
       rec.failures < MaxAttempts /\ rec.stalls <= MaxStalls
  /\ rec.state = "waiting" => rec.run = rec.failures + rec.stalls
  /\ rec.state = "active" => rec.run = rec.failures + rec.stalls + 1

\* What may become of a job: it is never forgotten, its runs are never counted
\* back, and a failed one stays failed.
Moves(a, b) ==
  /\ Shape(b)
  /\ a.state # "none" => b.state # "none"
  /\ a.state = "failed" => b.state = "failed"
  /\ b.run >= a.run

Queues == {q \in [Jobs -> JobRecords] : \A j \in Jobs : Shape(q[j])}

QueueMoves(p, q) == q \in Queues /\ \A j \in Jobs : Moves(p[j], q[j])

\* A record is what its fields say.
LEMMA RecordFields ==
  ASSUME NEW rec \in JobRecords
  PROVE  /\ rec = [state |-> rec.state, run |-> rec.run,
                   failures |-> rec.failures, stalls |-> rec.stalls]
         /\ rec.state \in {"none", "waiting", "active", "done", "failed"}
         /\ rec.run \in 0..(MaxAttempts + MaxStalls)
         /\ rec.failures \in 0..MaxAttempts
         /\ rec.stalls \in 0..(MaxStalls + 1)
BY DEF JobRecords

LEMMA MakeRecord ==
  ASSUME NEW st \in {"none", "waiting", "active", "done", "failed"},
         NEW n \in 0..(MaxAttempts + MaxStalls), NEW f \in 0..MaxAttempts,
         NEW l \in 0..(MaxStalls + 1)
  PROVE  [state |-> st, run |-> n, failures |-> f, stalls |-> l] \in JobRecords
BY DEF JobRecords

LEMMA Revised ==
  ASSUME NEW rec \in JobRecords, NEW st, NEW n
  PROVE  /\ [rec EXCEPT !.state = st] =
              [state |-> st, run |-> rec.run, failures |-> rec.failures,
               stalls |-> rec.stalls]
         /\ [rec EXCEPT !.state = st, !.run = n] =
              [state |-> st, run |-> n, failures |-> rec.failures,
               stalls |-> rec.stalls]
         /\ [rec EXCEPT !.failures = n, !.state = st] =
              [state |-> st, run |-> rec.run, failures |-> n, stalls |-> rec.stalls]
<1>1. [rec EXCEPT !.state = st] =
        [state |-> st, run |-> rec.run, failures |-> rec.failures,
         stalls |-> rec.stalls]
  BY DEF JobRecords
<1>2. [rec EXCEPT !.state = st, !.run = n] =
        [state |-> st, run |-> n, failures |-> rec.failures, stalls |-> rec.stalls]
  <2> DEFINE mid == [rec EXCEPT !.state = st]
  <2>1. [rec EXCEPT !.state = st, !.run = n] = [mid EXCEPT !.run = n]
    OBVIOUS
  <2>2. mid = [state |-> st, run |-> rec.run, failures |-> rec.failures,
               stalls |-> rec.stalls]
    BY <1>1
  <2> HIDE DEF mid
  <2> QED
    BY <2>1, <2>2
<1>3. [rec EXCEPT !.failures = n, !.state = st] =
        [state |-> st, run |-> rec.run, failures |-> n, stalls |-> rec.stalls]
  <2> DEFINE mid == [rec EXCEPT !.failures = n]
  <2>1. [rec EXCEPT !.failures = n, !.state = st] = [mid EXCEPT !.state = st]
    OBVIOUS
  <2>2. mid = [state |-> rec.state, run |-> rec.run, failures |-> n,
               stalls |-> rec.stalls]
    BY DEF JobRecords
  <2> HIDE DEF mid
  <2> QED
    BY <2>1, <2>2
<1> QED
  BY <1>1, <1>2, <1>3

LEMMA RevisedStalls ==
  ASSUME NEW rec \in JobRecords, NEW st, NEW n
  PROVE  [rec EXCEPT !.stalls = n, !.state = st] =
           [state |-> st, run |-> rec.run, failures |-> rec.failures, stalls |-> n]
<1> DEFINE mid == [rec EXCEPT !.stalls = n]
<1>1. [rec EXCEPT !.stalls = n, !.state = st] = [mid EXCEPT !.state = st]
  OBVIOUS
<1>2. mid = [state |-> rec.state, run |-> rec.run, failures |-> rec.failures,
               stalls |-> n]
  BY DEF JobRecords
<1> HIDE DEF mid
<1> QED
  BY <1>1, <1>2

LEMMA MovesStay ==
  ASSUME NEW rec, Shape(rec)
  PROVE  Moves(rec, rec)
BY RecordFields, BoundsAssumption DEF Moves, Shape

LEMMA MovesOn ==
  ASSUME NEW a \in JobRecords, NEW b \in JobRecords, NEW c \in JobRecords,
         Moves(a, b), Moves(b, c)
  PROVE  Moves(a, c)
BY RecordFields, BoundsAssumption DEF Moves

LEMMA QueueStays ==
  ASSUME NEW q \in Queues
  PROVE  QueueMoves(q, q)
BY MovesStay DEF Queues, QueueMoves

LEMMA QueueMovesOn ==
  ASSUME NEW p \in Queues, NEW q \in Queues, NEW o,
         QueueMoves(p, q), QueueMoves(q, o)
  PROVE  QueueMoves(p, o)
BY MovesOn DEF Queues, QueueMoves

\* One job moves, the others stay.
LEMMA OneMoves ==
  ASSUME NEW q \in Queues, NEW j \in Jobs, NEW rec, Moves(q[j], rec)
  PROVE  /\ [q EXCEPT ![j] = rec][j] = rec
         /\ \A i \in Jobs \ {j} : [q EXCEPT ![j] = rec][i] = q[i]
         /\ QueueMoves(q, [q EXCEPT ![j] = rec])
<1> DEFINE o == [q EXCEPT ![j] = rec]
<1>1. rec \in JobRecords /\ Shape(rec)
  BY DEF Moves, Shape
<1>2. o \in [Jobs -> JobRecords]
  BY <1>1 DEF Queues
<1>3. ASSUME NEW i \in Jobs PROVE Moves(q[i], o[i]) /\ Shape(o[i])
  BY <1>1, MovesStay DEF Queues
<1> QED
  BY <1>2, <1>3 DEF Queues, QueueMoves

\* A job comes into being.
LEMMA AddedMoves ==
  ASSUME job \in Queues, NEW j \in Jobs, job[j].state = "none"
  PROVE  /\ Added(j) = [job EXCEPT ![j] = [NoJob EXCEPT !.state = "waiting"]]
         /\ Added(j)[j].state = "waiting"
         /\ QueueMoves(job, Added(j))
<1> DEFINE new == [NoJob EXCEPT !.state = "waiting"]
<1>1. job[j] = NoJob
  BY DEF Queues, Shape
<1>2. Added(j) = [job EXCEPT ![j] = new]
  BY <1>1 DEF Added, Queues
<1>3. new = [state |-> "waiting", run |-> 0, failures |-> 0, stalls |-> 0]
  BY DEF NoJob
<1>4. Shape(new)
  BY <1>3, BoundsAssumption DEF Shape, JobRecords
<1>5. Moves(job[j], new) /\ new.state = "waiting"
  BY <1>1, <1>3, <1>4 DEF Moves, NoJob
<1> HIDE DEF new
<1>6. QueueMoves(job, [job EXCEPT ![j] = new]) /\ [job EXCEPT ![j] = new][j] = new
  <2>1. Moves(job[j], new)
    BY <1>5
  <2>2. \A rec : Moves(job[j], rec) =>
                  /\ QueueMoves(job, [job EXCEPT ![j] = rec])
                  /\ [job EXCEPT ![j] = rec][j] = rec
    BY OneMoves
  <2> QED
    BY <2>1, <2>2
<1>7. QueueMoves(job, Added(j)) /\ Added(j)[j] = new
  BY <1>2, <1>6
<1> QED
  BY <1>2, <1>5, <1>7 DEF new

\* A run ends well.
LEMMA DoneMoves ==
  ASSUME NEW q \in Queues, NEW j \in Jobs, q[j].state = "active"
  PROVE  /\ Done(q, j)[j].state = "done"
         /\ \A i \in Jobs \ {j} : Done(q, j)[i] = q[i]
         /\ QueueMoves(q, Done(q, j))
<1> DEFINE rec == q[j]
           new == [state |-> "done", run |-> rec.run, failures |-> rec.failures,
                   stalls |-> rec.stalls]
<1>1. rec \in JobRecords
  BY DEF Queues
<1>2. Done(q, j) = [q EXCEPT ![j] = new]
  <2>1. Done(q, j) = [q EXCEPT ![j] = [rec EXCEPT !.state = "done"]]
    BY DEF Done, Queues
  <2>2. [rec EXCEPT !.state = "done"] = new
    BY <1>1, Revised
  <2> QED
    BY <2>1, <2>2
<1>3. Moves(rec, new) /\ new.state = "done"
  BY <1>1, RecordFields, MakeRecord, BoundsAssumption DEF Moves, Shape
<1> HIDE DEF new
<1>4. QueueMoves(q, Done(q, j))
  <2>1. Moves(q[j], new)
    BY <1>3
  <2>2. QueueMoves(q, [q EXCEPT ![j] = new])
    BY <2>1, OneMoves
  <2> QED
    BY <1>2, <2>2
<1>5. Done(q, j)[j] = new /\ \A i \in Jobs \ {j} : Done(q, j)[i] = q[i]
  BY <1>2 DEF Queues
<1> QED
  BY <1>3, <1>4, <1>5

\* A run fails: the job is repeated or fails.
LEMMA FailedMoves ==
  ASSUME NEW q \in Queues, NEW j \in Jobs, q[j].state = "active"
  PROVE  /\ FailedOnce(q, j)[j].state \in {"waiting", "failed"}
         /\ \A i \in Jobs \ {j} : FailedOnce(q, j)[i] = q[i]
         /\ QueueMoves(q, FailedOnce(q, j))
<1> DEFINE rec == q[j]
           next == IF rec.failures + 1 < MaxAttempts THEN "waiting" ELSE "failed"
           new == [state |-> next, run |-> rec.run, failures |-> rec.failures + 1,
                   stalls |-> rec.stalls]
<1>1. rec \in JobRecords
  BY DEF Queues
<1>2. FailedOnce(q, j) = [q EXCEPT ![j] = new]
  <2>1. FailedOnce(q, j) =
          [q EXCEPT ![j] = [rec EXCEPT !.failures = rec.failures + 1, !.state = next]]
    BY DEF FailedOnce, Queues
  <2> HIDE DEF rec, next
  <2>2. [rec EXCEPT !.failures = rec.failures + 1, !.state = next] = new
    BY <1>1, Revised
  <2> QED
    BY <2>1, <2>2
<1>3. /\ rec.failures < MaxAttempts /\ rec.stalls <= MaxStalls
      /\ rec.run = rec.failures + rec.stalls + 1
  BY DEF Queues, Shape
<1>4. new \in JobRecords
  <2>1. /\ next \in {"waiting", "failed"} /\ rec.failures + 1 \in 0..MaxAttempts
        /\ rec.run \in 0..(MaxAttempts + MaxStalls) /\ rec.stalls \in 0..(MaxStalls + 1)
    BY <1>1, <1>3, RecordFields, BoundsAssumption
  <2> HIDE DEF rec, next
  <2> QED
    BY <2>1, MakeRecord
<1>5. Moves(rec, new) /\ new.state \in {"waiting", "failed"}
  BY <1>1, <1>3, <1>4, RecordFields, BoundsAssumption DEF Moves, Shape
<1> HIDE DEF new
<1>6. QueueMoves(q, FailedOnce(q, j))
  <2>1. Moves(q[j], new)
    BY <1>5
  <2>2. QueueMoves(q, [q EXCEPT ![j] = new])
    BY <2>1, OneMoves
  <2> QED
    BY <1>2, <2>2
<1>7. /\ FailedOnce(q, j)[j] = new
      /\ \A i \in Jobs \ {j} : FailedOnce(q, j)[i] = q[i]
  BY <1>2 DEF Queues
<1> QED
  BY <1>5, <1>6, <1>7

\* The next run begins; its number is one of the model's and was not used.
LEMMA TakeMoves ==
  ASSUME NEW q \in Queues, NEW j \in Jobs, q[j].state = "waiting"
  PROVE  LET n == q[j].run + 1
             o == [q EXCEPT ![j].state = "active", ![j].run = n]
         IN  /\ n \in RunNumbers
             /\ o[j].state = "active" /\ o[j].run = n
             /\ \A i \in Jobs \ {j} : o[i] = q[i]
             /\ QueueMoves(q, o)
<1> DEFINE rec == q[j]
           n == rec.run + 1
           o == [q EXCEPT ![j].state = "active", ![j].run = n]
           new == [state |-> "active", run |-> n, failures |-> rec.failures,
                   stalls |-> rec.stalls]
<1>1. rec \in JobRecords
  BY DEF Queues
<1>2. o = [q EXCEPT ![j] = new]
  <2>1. o = [q EXCEPT ![j] = [rec EXCEPT !.state = "active", !.run = n]]
    BY DEF Queues
  <2> HIDE DEF rec, n
  <2>2. [rec EXCEPT !.state = "active", !.run = n] = new
    BY <1>1, Revised
  <2> QED
    BY <2>1, <2>2
<1>3. /\ rec.failures < MaxAttempts /\ rec.stalls <= MaxStalls
      /\ rec.run = rec.failures + rec.stalls
  BY DEF Queues, Shape
<1>4. n \in RunNumbers /\ n \in 0..(MaxAttempts + MaxStalls)
  BY <1>1, <1>3, RecordFields, BoundsAssumption DEF RunNumbers
<1>5. new \in JobRecords
  BY <1>1, <1>4, RecordFields, MakeRecord
<1>6. Moves(rec, new) /\ new.state = "active" /\ new.run = n
  BY <1>1, <1>3, <1>5, RecordFields, BoundsAssumption DEF Moves, Shape
<1> HIDE DEF new, o
<1>7. QueueMoves(q, o)
  BY <1>2, <1>6, OneMoves
<1>8. o[j] = new /\ \A i \in Jobs \ {j} : o[i] = q[i]
  BY <1>2 DEF Queues
<1> QED
  BY <1>4, <1>6, <1>7, <1>8 DEF o

\* A job whose run died with the process is repeated or fails.
LEMMA StalledMoves ==
  ASSUME job \in Queues
  PROVE  /\ QueueMoves(job, [j \in Jobs |-> Stalled(j)])
         /\ \A j \in Jobs : job[j].state = "active" =>
              Stalled(j).state \in {"waiting", "failed"}
         /\ \A j \in Jobs : job[j].state # "active" => Stalled(j) = job[j]
<1>1. ASSUME NEW j \in Jobs, job[j].state = "active"
      PROVE  Moves(job[j], Stalled(j)) /\ Stalled(j).state \in {"waiting", "failed"}
  <2> DEFINE rec == job[j]
             next == IF rec.stalls < MaxStalls THEN "waiting" ELSE "failed"
             new == [state |-> next, run |-> rec.run, failures |-> rec.failures,
                     stalls |-> rec.stalls + 1]
  <2>1. rec \in JobRecords
    BY DEF Queues
  <2>2. Stalled(j) = new
    <3>1. Stalled(j) = [rec EXCEPT !.stalls = rec.stalls + 1, !.state = next]
      BY <1>1 DEF Stalled
    <3> HIDE DEF rec, next
    <3>2. [rec EXCEPT !.stalls = rec.stalls + 1, !.state = next] = new
      BY <2>1, RevisedStalls
    <3> QED
      BY <3>1, <3>2
  <2>3. /\ rec.failures < MaxAttempts /\ rec.stalls <= MaxStalls
        /\ rec.run = rec.failures + rec.stalls + 1
    BY <1>1 DEF Queues, Shape
  <2>4. new \in JobRecords
    BY <2>1, <2>3, RecordFields, MakeRecord, BoundsAssumption
  <2>5. Moves(rec, new)
    BY <1>1, <2>1, <2>3, <2>4, RecordFields, BoundsAssumption DEF Moves, Shape
  <2> QED
    BY <2>2, <2>5
<1>2. ASSUME NEW j \in Jobs, job[j].state # "active"
      PROVE  Moves(job[j], Stalled(j)) /\ Stalled(j) = job[j]
  BY <1>2, MovesStay DEF Stalled, Queues
<1>3. \A j \in Jobs : Moves(job[j], Stalled(j)) /\ Stalled(j) \in JobRecords
  BY <1>1, <1>2 DEF Moves, Shape
<1>4. \A j \in Jobs : Shape(Stalled(j))
  BY <1>3 DEF Moves
<1> QED
  BY <1>1, <1>2, <1>3, <1>4 DEF QueueMoves, Queues

-----------------------------------------------------------------------------
(***************************************************************************)
(* Requests, callers of executeTask and runs agree with the queue.         *)
(***************************************************************************)

RestTypeOK ==
  /\ taskOf \in [Creates -> Creates]
  /\ status \in [Creates -> TaskStatuses]
  /\ planned \subseteq Creates
  /\ job \in Queues
  /\ starter \in [Starters -> {"idle", "ended", "dropped"} \cup Starting]
  /\ target \in [Executes -> Creates]
  /\ worker \in [Workers -> {"idle", "ended"} \cup Working]
  /\ passed \subseteq Starters
  /\ faults \in 0..MaxFaults

\* A request that is not over has no job yet, and neither has a caller of
\* executeTask; a run of a job has a number the job has reached; what a job runs,
\* or has run, comes after the job.
Unborn == {"idle"} \cup InGuard \cup Handling
Ready == {"idle"} \cup Starting

Order ==
  /\ \A r \in Creates : request[r] \in Unborn => job[r].state = "none"
  /\ \A r \in Creates, n \in RunNumbers :
       starter[<<r, n>>] # "idle" => n <= job[r].run
  /\ \A s \in Starters : starter[s] \in Ready => job[s].state = "none"
  /\ \A s \in passed : job[s].state # "none"
  /\ \A w \in Workers : worker[w] # "idle" => job[w[1]].state # "none"
  /\ \A w \in Workers : worker[w] = "pass" => w[1] \in passed

QueueInv == RestTypeOK /\ Order

LEMMA Names ==
  /\ Jobs = Creates \cup Starters
  /\ \A s \in Starters \ Executes : s[1] \in Creates /\ s[2] \in RunNumbers
                                    /\ s = <<s[1], s[2]>>
  /\ \A r \in Creates, n \in RunNumbers : <<r, n>> \in Starters \ Executes
  /\ \A j \in Jobs : j \in Creates <=> j \notin Starters
  /\ \A w \in Workers : w[1] \in Starters /\ w[2] \in RunNumbers /\ w = <<w[1], w[2]>>
  /\ \A s \in Starters, n \in RunNumbers : <<s, n>> \in Workers
  /\ RunNumbers \subseteq Nat
BY NamesAssumption, BoundsAssumption DEF Jobs, Starters, Workers, RunNumbers

\* A step under which the queue moves and nothing gets ahead of it.
LEMMA OrderKept ==
  ASSUME QueueInv, QueueMoves(job, job'),
         \A r \in Creates : request'[r] \in Unborn =>
           request[r] \in Unborn /\ (job[r].state = "none" => job'[r].state = "none"),
         \A r \in Creates, n \in RunNumbers : starter'[<<r, n>>] # "idle" =>
           starter[<<r, n>>] # "idle" \/ n <= job'[r].run,
         \A s \in Starters : starter'[s] \in Ready =>
           starter[s] \in Ready /\ (job[s].state = "none" => job'[s].state = "none"),
         \A s \in passed' : s \in passed \/ (s \in Starters /\ job[s].state # "none"),
         \A w \in Workers : worker'[w] # "idle" =>
           worker[w] # "idle" \/ job'[w[1]].state # "none",
         \A w \in Workers : worker'[w] = "pass" => w[1] \in passed'
  PROVE  Order'
<1>1. \A j \in Jobs : /\ job[j].state # "none" => job'[j].state # "none"
                      /\ job'[j].run >= job[j].run
                      /\ job[j].run \in Nat /\ job'[j].run \in Nat
  BY RecordFields, BoundsAssumption DEF QueueMoves, Moves, Queues, QueueInv, RestTypeOK
<1>2. \A r \in Creates : request'[r] \in Unborn => job'[r].state = "none"
  BY DEF QueueInv, Order
<1>3. \A r \in Creates, n \in RunNumbers :
        starter'[<<r, n>>] # "idle" => n <= job'[r].run
  BY <1>1, Names DEF QueueInv, Order
<1>4. \A s \in Starters : starter'[s] \in Ready => job'[s].state = "none"
  BY DEF QueueInv, Order
<1>5. \A s \in passed' : job'[s].state # "none"
  BY <1>1, Names DEF QueueInv, Order, RestTypeOK
<1>6. \A w \in Workers : worker'[w] # "idle" => job'[w[1]].state # "none"
  BY <1>1, Names DEF QueueInv, Order
<1> QED
  BY <1>2, <1>3, <1>4, <1>5, <1>6 DEF Order

\* A caller of executeTask ends or fails, having enqueued a job or not.
LEMMA StarterOver ==
  ASSUME QueueInv, NEW s \in Starters, starter[s] \in Starting,
         NEW q \in {job, Added(s)}, StarterEnds(s, q) \/ StarterFails(s, q)
  PROVE  /\ \E stage \in {"ended", "dropped"} :
              /\ starter' = [starter EXCEPT ![s] = stage]
              /\ Awaited(s) => stage = "ended"
              /\ StarterFails(s, q) /\ stage = "ended" =>
                   Awaited(s) /\ job'[s[1]].state \in {"waiting", "failed"}
         /\ QueueMoves(job, job')
         /\ \A i \in Jobs \ {s} :
              i # s[1] \/ ~Awaited(s) => job'[i] = job[i]
         /\ job'[s] = q[s]
         /\ \A i \in Jobs \ {s} : job[i].state = "none" => job'[i].state = "none"
         /\ q # job => q[s].state = "waiting"
<1>0. job[s].state = "none" /\ job \in Queues
  BY DEF QueueInv, Order, Ready, RestTypeOK
<1>1. /\ q \in Queues /\ QueueMoves(job, q)
      /\ \A i \in Jobs \ {s} : q[i] = job[i]
      /\ q # job => q[s].state = "waiting"
  <2>1. CASE q = job
    BY <1>0, <2>1, QueueStays
  <2>2. CASE q = Added(s)
    <3>1. s \in Jobs
      BY Names
    <3>2. QueueMoves(job, q) /\ q[s].state = "waiting"
      BY <1>0, <2>2, <3>1, AddedMoves
    <3>3. \A i \in Jobs \ {s} : q[i] = job[i]
      BY <1>0, <2>2 DEF Added, Queues
    <3> QED
      BY <3>2, <3>3 DEF QueueMoves
  <2> QED
    BY <2>1, <2>2
<1>2. CASE ~Awaited(s)
  <2>1. job' = q /\ starter' \in {[starter EXCEPT ![s] = stage] : stage \in {"ended", "dropped"}}
    BY <1>2 DEF StarterEnds, StarterFails, At
  <2>2. StarterFails(s, q) => starter' = [starter EXCEPT ![s] = "dropped"]
    BY <1>2 DEF StarterFails, At
  <2>3. \E stage \in {"ended", "dropped"} :
              /\ starter' = [starter EXCEPT ![s] = stage]
              /\ Awaited(s) => stage = "ended"
              /\ ~(StarterFails(s, q) /\ stage = "ended")
    <3>1. CASE StarterFails(s, q)
      BY <1>2, <2>2, <3>1
    <3>2. CASE ~StarterFails(s, q)
      BY <1>2, <2>1, <3>2
    <3> QED
      BY <3>1, <3>2
  <2> QED
    BY <1>1, <2>1, <2>3
<1>3. CASE Awaited(s)
  <2>1. s[1] \in Creates /\ s[1] \in Jobs /\ s[1] # s
    BY <1>3, Names DEF Awaited
  <2>2. q[s[1]].state = "active"
    BY <1>1, <1>3, <2>1 DEF Awaited, Current
  <2>3. starter' = [starter EXCEPT ![s] = "ended"]
    BY <1>3 DEF StarterEnds, StarterFails, At
  <2>4. job' \in {Done(q, s[1]), FailedOnce(q, s[1])}
    BY <1>3 DEF StarterEnds, StarterFails
  <2>5. /\ QueueMoves(q, job')
        /\ \A i \in Jobs \ {s[1]} : job'[i] = q[i]
    BY <1>1, <2>1, <2>2, <2>4, DoneMoves, FailedMoves
  <2>6. StarterFails(s, q) => job'[s[1]].state \in {"waiting", "failed"}
    <3> SUFFICES ASSUME StarterFails(s, q) PROVE job'[s[1]].state \in {"waiting", "failed"}
      OBVIOUS
    <3>1. job' = FailedOnce(q, s[1])
      BY <1>3 DEF StarterFails
    <3> QED
      BY <1>1, <2>1, <2>2, <3>1, FailedMoves
  <2>7. QueueMoves(job, job')
    BY <1>0, <1>1, <2>5, QueueMovesOn
  <2>8. job'[s] = q[s] /\ job[s[1]].state # "none"
    BY <1>1, <2>1, <2>2, <2>5, Names
  <2> QED
    BY <1>1, <1>3, <2>1, <2>3, <2>5, <2>6, <2>7, <2>8
<1> QED
  BY <1>2, <1>3

\* The same for a run of a job process-task.
LEMMA WorkerOver ==
  ASSUME QueueInv, NEW w \in Workers, WorkerEnds(w) \/ WorkerFails(w)
  PROVE  /\ worker' = [worker EXCEPT ![w] = "ended"]
         /\ QueueMoves(job, job')
         /\ \A i \in Jobs \ {w[1]} : job'[i] = job[i]
         /\ WorkerFails(w) => \/ job'[w[1]] = job[w[1]]
                              \/ job'[w[1]].state \in {"waiting", "failed"}
<1>0. job \in Queues /\ w[1] \in Jobs
  BY Names DEF QueueInv, RestTypeOK
<1>1. worker' = [worker EXCEPT ![w] = "ended"]
  BY DEF WorkerEnds, WorkerFails, WorkerAt
<1>2. CASE ~Current(w[1], w[2])
  <2>1. job' = job
    BY <1>2 DEF WorkerEnds, WorkerFails
  <2> QED
    BY <1>0, <1>1, <2>1, QueueStays
<1>3. CASE Current(w[1], w[2])
  <2>1. job[w[1]].state = "active"
    BY <1>3 DEF Current
  <2>2. CASE job' = Done(job, w[1]) /\ WorkerEnds(w)
    <3>1. QueueMoves(job, job') /\ \A i \in Jobs \ {w[1]} : job'[i] = job[i]
      BY <1>0, <2>1, <2>2, DoneMoves
    <3>2. WorkerFails(w) => job'[w[1]].state \in {"waiting", "failed"}
      <4> SUFFICES ASSUME WorkerFails(w) PROVE job'[w[1]].state \in {"waiting", "failed"}
        OBVIOUS
      <4>1. job' = FailedOnce(job, w[1])
        BY <1>3 DEF WorkerFails
      <4> QED
        BY <1>0, <2>1, <4>1, FailedMoves
    <3> QED
      BY <1>1, <3>1, <3>2
  <2>3. CASE job' = FailedOnce(job, w[1])
    BY <1>0, <1>1, <2>1, <2>3, FailedMoves
  <2> QED
    BY <1>3, <2>2, <2>3 DEF WorkerEnds, WorkerFails
<1> QED
  BY <1>2, <1>3

\* A step of a request, up to the queue.
LEMMA RequestsKeepOrder ==
  ASSUME QueueInv, RestTypeOK', UNCHANGED <<job, starter, worker, passed>>,
         \A r \in Creates : request'[r] \in Unborn => request[r] \in Unborn
  PROVE  QueueInv'
<1>1. QueueMoves(job, job')
  BY QueueStays DEF QueueInv, RestTypeOK
<1> QED
  BY <1>1, OrderKept DEF QueueInv, Order

LEMMA QueueStep ==
  ASSUME GuardInv, QueueInv, [Next]_vars
  PROVE  QueueInv' /\ QueueMoves(job, job')
<1> USE DEF guardVars, storeVars, taskVars, runVars
<1>0. /\ RestTypeOK /\ Order /\ job \in Queues
      /\ request \in [Creates -> {"idle"} \cup InGuard \cup Handling \cup Ended]
  BY DEF QueueInv, RestTypeOK, GuardInv, GuardTypeOK
<1>00. QueueMoves(job, job)
  BY <1>0, QueueStays
<1>1. ASSUME NEW r \in Creates, NEW k \in Keys \cup {NoKey}, Arrive(r, k)
      PROVE  QueueInv' /\ QueueMoves(job, job')
  <2>1. /\ request[r] = "idle"
        /\ UNCHANGED <<taskOf, status, planned, job, starter, worker, target, passed, faults>>
        /\ \E stage \in {"find", "rejected", "lookup"} :
              request' = [request EXCEPT ![r] = stage]
    BY <1>1 DEF Arrive, Go
  <2> QED
    BY <1>0, <1>00, <2>1, RequestsKeepOrder DEF RestTypeOK, Unborn
<1>2. ASSUME NEW r \in Creates, Lookup(r) \/ Purge(r)
      PROVE  QueueInv' /\ QueueMoves(job, job')
  <2>1. /\ request[r] \in InGuard
        /\ UNCHANGED <<taskOf, status, planned, job, starter, worker, target, passed>>
        /\ \E stage \in {"replayed", "find", "purge", "failed"} :
              request' = [request EXCEPT ![r] = stage]
        /\ faults' = faults \/ Fault
    BY <1>2 DEF Lookup, Purge, Go, InGuard
  <2>2. RestTypeOK'
    BY <1>0, <2>1, BoundsAssumption DEF RestTypeOK, Fault
  <2> QED
    BY <1>0, <1>00, <2>1, <2>2, RequestsKeepOrder DEF Unborn
<1>3. ASSUME NEW r \in Creates,
             \/ FindOrInsert(r) \/ GeneratePlan(r) \/ MarkPlanned(r)
             \/ PlanFailed(r) \/ EnqueuePlan(r)
      PROVE  QueueInv' /\ QueueMoves(job, job')
  <2>1. /\ request[r] \in Handling
        /\ UNCHANGED <<job, starter, worker, target, passed>>
        /\ \E stage \in Handling \cup {"failed"} :
              request' = [request EXCEPT ![r] = stage]
        /\ faults' = faults \/ Fault
    BY <1>3 DEF FindOrInsert, GeneratePlan, MarkPlanned, PlanFailed, EnqueuePlan,
       HandlerUnchanged, Advance, Breaks, Answer, Go, Handling
  <2>2. /\ \/ UNCHANGED taskOf
           \/ \E t \in Reusable : taskOf' = [taskOf EXCEPT ![r] = t]
        /\ \/ UNCHANGED status
           \/ \E st \in {"PLANNING", "PLANNED", "FAILED"} :
                status' = [status EXCEPT ![r] = st]
        /\ planned' \in {planned, planned \cup {r}}
    BY <1>3 DEF FindOrInsert, GeneratePlan, MarkPlanned, PlanFailed, EnqueuePlan
  <2>3. Reusable \subseteq Creates
    BY <1>0 DEF Reusable, RestTypeOK
  <2>4. RestTypeOK'
    BY <1>0, <2>1, <2>2, <2>3, BoundsAssumption DEF RestTypeOK, Fault, TaskStatuses
  <2> QED
    BY <1>0, <1>00, <2>1, <2>4, RequestsKeepOrder DEF Unborn
<1>4. ASSUME NEW r \in Creates, PlanEnqueued(r)
      PROVE  QueueInv' /\ QueueMoves(job, job')
  <2>1. /\ request[r] = "adding" /\ job' \in {job, Added(r)}
        /\ UNCHANGED <<taskOf, status, planned, starter, worker, target, passed>>
        /\ \E stage \in {"answered", "failed"} :
              request' = [request EXCEPT ![r] = stage]
        /\ faults' = faults \/ Fault
    BY <1>4 DEF PlanEnqueued, HandlerUnchanged, Breaks, Answer, AddSucceeds, AddFails, Go
  <2>2. job[r].state = "none" /\ r \in Jobs
    BY <1>0, <2>1, Names DEF Order, Unborn, Handling
  <2>3. QueueMoves(job, job')
    BY <1>0, <1>00, <2>1, <2>2, AddedMoves
  <2>4. \A i \in Jobs \ {r} : job'[i] = job[i]
    BY <1>0, <2>1 DEF Added, Queues
  <2>5. \A q \in Creates : request'[q] \in Unborn => q # r /\ request[q] \in Unborn
    BY <1>0, <2>1 DEF Unborn, InGuard, Handling
  <2>6. RestTypeOK'
    BY <1>0, <2>1, <2>3, BoundsAssumption DEF RestTypeOK, Fault, QueueMoves
  <2>7. \A s \in Starters : s # r /\ s \in Jobs
    BY Names
  <2>8. Order'
    BY <1>0, <2>1, <2>3, <2>4, <2>5, <2>7, OrderKept, Names DEF Order
  <2> QED
    BY <2>3, <2>6, <2>8 DEF QueueInv
<1>5. ASSUME NEW j \in Jobs, Take(j)
      PROVE  QueueInv' /\ QueueMoves(job, job')
  <2> DEFINE n == job[j].run + 1
  <2>1. /\ job[j].state = "waiting"
        /\ job' = [job EXCEPT ![j].state = "active", ![j].run = n]
        /\ IF j \in Creates
           THEN starter' = [starter EXCEPT ![<<j, n>>] = "mark"] /\ UNCHANGED worker
           ELSE worker' = [worker EXCEPT ![<<j, n>>] = "cycle"] /\ UNCHANGED starter
        /\ UNCHANGED <<request, taskOf, status, planned, target, passed, faults>>
    BY <1>5 DEF Take
  <2>2. /\ n \in RunNumbers /\ job'[j].state = "active" /\ job'[j].run = n
        /\ \A i \in Jobs \ {j} : job'[i] = job[i]
        /\ QueueMoves(job, job')
    <3> DEFINE o == [job EXCEPT ![j].state = "active", ![j].run = n]
    <3>1. /\ n \in RunNumbers /\ o[j].state = "active" /\ o[j].run = n
          /\ \A i \in Jobs \ {j} : o[i] = job[i]
          /\ QueueMoves(job, o)
      BY <1>0, <2>1, TakeMoves
    <3>2. job' = o
      BY <2>1
    <3> QED
      BY <3>1, <3>2
  <2> HIDE DEF n
  <2>3. CASE j \in Creates
    <3> DEFINE p == <<j, n>>
    <3>1. /\ p \in Starters \ Executes /\ p # j
          /\ starter' = [starter EXCEPT ![p] = "mark"]
          /\ \A r \in Creates, m \in RunNumbers : <<r, m>> = p => r = j /\ m = n
      BY <2>1, <2>2, <2>3, Names
    <3>2. RestTypeOK'
      BY <1>0, <2>1, <2>2, <2>3 DEF RestTypeOK, Starting, QueueMoves
    <3>3. starter[p] = "idle"
      <4>1. ~(n <= job[j].run)
        BY <1>0, <2>1, RecordFields, BoundsAssumption DEF n, Queues
      <4> QED
        BY <1>0, <2>2, <2>3, <4>1 DEF Order
    <3> HIDE DEF p
    <3>41. \A s \in Starters : /\ starter'[s] \in Ready => starter[s] \in Ready
                               /\ starter'[s] # "idle" => starter[s] # "idle" \/ s = p
      BY <1>0, <3>1, <3>3 DEF RestTypeOK, Ready
    <3>4. \A s \in Starters : /\ starter'[s] \in Ready => starter[s] \in Ready
                              /\ s # j /\ s \in Jobs
      BY <2>3, <3>41, Names
    <3>51. n <= job'[j].run
      BY <2>2, Names
    <3>5. \A r \in Creates, m \in RunNumbers : starter'[<<r, m>>] # "idle" =>
            starter[<<r, m>>] # "idle" \/ m <= job'[r].run
      BY <3>1, <3>41, <3>51, Names
    <3>6. \A r \in Creates : r # j => job'[r] = job[r]
      BY <2>2, Names
    <3>7. Order'
      BY <1>0, <2>1, <2>2, <2>3, <3>4, <3>5, <3>6, OrderKept DEF Order
    <3> QED
      BY <2>2, <3>2, <3>7 DEF QueueInv
  <2>4. CASE j \notin Creates
    <3>1. j \in Starters /\ <<j, n>> \in Workers
      BY <2>2, <2>4, Names
    <3>2. RestTypeOK'
      BY <1>0, <2>1, <2>2, <2>4 DEF RestTypeOK, Working, QueueMoves
    <3>3. \A s \in Creates \cup Starters : job[s].state = "none" => job'[s].state = "none"
      BY <2>1, <2>2, Names
    <3> DEFINE v == <<j, n>>
    <3>41. v[1] = j /\ v \in Workers /\ worker' = [worker EXCEPT ![v] = "cycle"]
      BY <2>1, <2>4, <3>1
    <3> HIDE DEF v
    <3>42. job'[v[1]].state # "none"
      BY <2>2, <3>41
    <3>4. \A w \in Workers :
            /\ worker'[w] # "idle" => worker[w] # "idle" \/ job'[w[1]].state # "none"
            /\ worker'[w] = "pass" => worker[w] = "pass"
      BY <1>0, <3>41, <3>42 DEF RestTypeOK
    <3>5. Order'
      BY <1>0, <2>1, <2>2, <2>4, <3>3, <3>4, OrderKept DEF Order
    <3> QED
      BY <2>2, <3>2, <3>5 DEF QueueInv
  <2> QED
    BY <2>3, <2>4
<1>6. ASSUME NEW j \in Jobs, Timeout(j)
      PROVE  QueueInv' /\ QueueMoves(job, job')
  <2>1. /\ job[j].state = "active" /\ job' = FailedOnce(job, j) /\ Fault
        /\ UNCHANGED <<request, taskOf, status, planned, starter, worker, target, passed>>
    BY <1>6 DEF Timeout
  <2>2. /\ QueueMoves(job, job')
        /\ \A i \in Jobs : job[i].state = "none" => job'[i].state = "none"
    BY <1>0, <2>1, FailedMoves
  <2>3. RestTypeOK'
    BY <1>0, <2>1, <2>2, BoundsAssumption DEF RestTypeOK, Fault, QueueMoves
  <2>4. Order'
    BY <1>0, <2>1, <2>2, OrderKept, Names DEF Order
  <2> QED
    BY <2>2, <2>3, <2>4 DEF QueueInv
<1>7. ASSUME NEW x \in Executes, NEW t \in Creates, StartExecute(x, t)
      PROVE  QueueInv' /\ QueueMoves(job, job')
  <2>1. /\ starter[x] = "idle" /\ starter' = [starter EXCEPT ![x] = "create"]
        /\ target' = [target EXCEPT ![x] = t]
        /\ UNCHANGED <<request, taskOf, status, planned, job, worker, passed, faults>>
    BY <1>7 DEF StartExecute, StarterStep, At
  <2>2. x \in Starters /\ \A r \in Creates, n \in RunNumbers : <<r, n>> # x
    BY Names DEF Starters
  <2>3. RestTypeOK'
    BY <1>0, <2>1, <2>2 DEF RestTypeOK, Starting
  <2>4. \A s \in Starters : /\ starter'[s] \in Ready => starter[s] \in Ready
                            /\ starter'[s] # "idle" => starter[s] # "idle" \/ s = x
    BY <1>0, <2>1, <2>2 DEF RestTypeOK, Ready
  <2>5. Order'
    BY <1>0, <1>00, <2>1, <2>2, <2>4, OrderKept, Names DEF Order
  <2> QED
    BY <1>00, <2>1, <2>3, <2>5 DEF QueueInv
<1>8. ASSUME NEW s \in Starters, ExecuteTask(s)
      PROVE  QueueInv' /\ QueueMoves(job, job')
  <2>1. /\ starter[s] \in Starting
        /\ UNCHANGED <<request, taskOf, planned, target, worker, passed>>
        /\ \/ UNCHANGED status
           \/ status' = [status EXCEPT ![TaskOfStarter(s)] = "RUNNING"]
        /\ faults' = faults \/ Fault
    BY <1>8 DEF ExecuteTask, MarkRunning, RunTask, EnqueueRun, RunEnqueued,
       StarterUnchanged, StarterStep, Starting
  <2>2. \/ \E stage \in Starting : starter' = [starter EXCEPT ![s] = stage] /\ UNCHANGED job
        \/ \E q \in {job, Added(s)} : StarterEnds(s, q) \/ StarterFails(s, q)
    BY <1>8 DEF ExecuteTask, MarkRunning, RunTask, EnqueueRun, RunEnqueued,
       StarterStep, At, Starting
  <2>3. status' \in [Creates -> TaskStatuses] /\ faults' \in 0..MaxFaults
    BY <1>0, <2>1, BoundsAssumption DEF RestTypeOK, Fault, TaskStatuses
  <2>4. CASE \E stage \in Starting :
               starter' = [starter EXCEPT ![s] = stage] /\ UNCHANGED job
    <3>1. \A p \in Starters : /\ starter'[p] \in Ready => starter[p] \in Ready
                              /\ starter'[p] # "idle" => starter[p] # "idle"
      BY <1>0, <2>1, <2>4 DEF RestTypeOK, Ready, Starting
    <3>2. Order'
      BY <1>0, <1>00, <2>1, <2>4, <3>1, OrderKept, Names DEF Order
    <3>3. RestTypeOK'
      BY <1>0, <2>1, <2>3, <2>4 DEF RestTypeOK
    <3> QED
      BY <1>00, <2>4, <3>2, <3>3 DEF QueueInv
  <2>5. CASE \E q \in {job, Added(s)} : StarterEnds(s, q) \/ StarterFails(s, q)
    <3>1. PICK q \in {job, Added(s)} : StarterEnds(s, q) \/ StarterFails(s, q)
      BY <2>5
    <3>2. PICK stage \in {"ended", "dropped"} : starter' = [starter EXCEPT ![s] = stage]
      BY <2>1, <3>1, StarterOver
    <3>3. /\ QueueMoves(job, job')
          /\ \A i \in Jobs \ {s} : job[i].state = "none" => job'[i].state = "none"
      BY <2>1, <3>1, StarterOver
    <3>4. \A p \in Starters :
            /\ starter'[p] \in Ready => starter[p] \in Ready /\ p # s
            /\ starter'[p] # "idle" => starter[p] # "idle"
      BY <1>0, <2>1, <3>2 DEF RestTypeOK, Ready, Starting
    <3>5. \A r \in Creates : r # s
      BY Names
    <3>6. Order'
      BY <1>0, <2>1, <3>3, <3>4, <3>5, OrderKept, Names DEF Order
    <3>7. RestTypeOK'
      BY <1>0, <2>1, <2>3, <3>2, <3>3 DEF RestTypeOK, QueueMoves
    <3> QED
      BY <3>3, <3>6, <3>7 DEF QueueInv
  <2> QED
    BY <2>2, <2>4, <2>5
<1>9. ASSUME NEW w \in Workers, RunCycle(w)
      PROVE  QueueInv' /\ QueueMoves(job, job')
  <2>1. /\ worker[w] = "cycle"
        /\ UNCHANGED <<request, taskOf, status, planned, job, starter, target, faults>>
        /\ \E stage \in {"pass", "reject", "heal"} :
             /\ worker' = [worker EXCEPT ![w] = stage]
             /\ passed' = IF stage = "pass" THEN passed \cup {w[1]} ELSE passed
    BY <1>9 DEF RunCycle, WorkerUnchanged, WorkerAt
  <2>2. RestTypeOK'
    BY <1>0, <2>1, Names DEF RestTypeOK, Working
  <2>3. \A v \in Workers : /\ worker'[v] # "idle" => worker[v] # "idle"
                           /\ worker'[v] = "pass" => v[1] \in passed'
    BY <1>0, <2>1 DEF RestTypeOK, Order
  <2>4. \A s \in passed' : s \in passed \/ (s \in Starters /\ job[s].state # "none")
    BY <1>0, <2>1, Names DEF Order
  <2>5. Order'
    BY <1>0, <1>00, <2>1, <2>3, <2>4, OrderKept DEF Order
  <2> QED
    BY <1>00, <2>1, <2>2, <2>5 DEF QueueInv
<1>10. ASSUME NEW w \in Workers, CompleteExecution(w)
       PROVE  QueueInv' /\ QueueMoves(job, job')
  <2>1. /\ worker[w] # "idle"
        /\ UNCHANGED <<request, taskOf, planned, starter, target, passed>>
        /\ \/ UNCHANGED status \/ SetVerdict(w)
        /\ faults' = faults \/ Fault
        /\ \/ worker' = [worker EXCEPT ![w] = "heal"] /\ UNCHANGED job
           \/ WorkerEnds(w) \/ WorkerFails(w)
    BY <1>10 DEF CompleteExecution, WorkerUnchanged, WorkerAt
  <2>2. PICK stage \in {"heal", "ended"} : worker' = [worker EXCEPT ![w] = stage]
    BY <2>1, WorkerOver
  <2>3. /\ QueueMoves(job, job')
        /\ \A i \in Jobs \ {w[1]} : job'[i] = job[i]
    BY <1>00, <2>1, WorkerOver
  <2>4. status' \in [Creates -> TaskStatuses] /\ faults' \in 0..MaxFaults
    BY <1>0, <2>1, BoundsAssumption DEF RestTypeOK, Fault, TaskStatuses, SetVerdict, Verdict
  <2>5. RestTypeOK'
    BY <1>0, <2>1, <2>2, <2>3, <2>4 DEF RestTypeOK, Working, QueueMoves
  <2>6. job[w[1]].state # "none"
    BY <1>0, <2>1 DEF Order
  <2>7. \A v \in Workers : /\ worker'[v] # "idle" => worker[v] # "idle"
                           /\ worker'[v] = "pass" => worker[v] = "pass"
    BY <1>0, <2>1, <2>2 DEF RestTypeOK
  <2>8. \A i \in Jobs : job[i].state = "none" => job'[i].state = "none"
    BY <2>3, <2>6
  <2>9. Order'
    BY <1>0, <2>1, <2>3, <2>7, <2>8, OrderKept, Names DEF Order
  <2> QED
    BY <2>3, <2>5, <2>9 DEF QueueInv
<1>11. CASE Restart
  <2>1. /\ request' = [r \in Creates |-> IF request[r] \in InGuard \cup Handling
                                         THEN "lost" ELSE request[r]]
        /\ starter' = [s \in Starters |->
                         IF starter[s] \notin Starting THEN starter[s]
                         ELSE IF Awaited(s) THEN "ended" ELSE "dropped"]
        /\ worker' = [w \in Workers |-> IF worker[w] \in Working THEN "ended" ELSE worker[w]]
        /\ job' = [j \in Jobs |-> Stalled(j)]
        /\ UNCHANGED <<taskOf, status, planned, target, passed>> /\ Fault
    BY <1>11 DEF Restart
  <2>2. QueueMoves(job, job')
    BY <1>0, <2>1, StalledMoves
  <2>3. RestTypeOK'
    BY <1>0, <2>1, <2>2, BoundsAssumption DEF RestTypeOK, QueueMoves, Fault
  <2>4. \A j \in Jobs : job[j].state = "none" => job'[j].state = "none"
    BY <2>1 DEF Stalled
  <2>5. \A r \in Creates : request'[r] \in Unborn => request[r] \in Unborn
    BY <2>1 DEF Unborn
  <2>6. \A s \in Starters : /\ starter'[s] \in Ready => starter[s] \in Ready
                            /\ starter'[s] # "idle" => starter[s] # "idle"
    BY <2>1 DEF Ready, Starting
  <2>7. \A w \in Workers : /\ worker'[w] # "idle" => worker[w] # "idle"
                           /\ worker'[w] = "pass" => worker[w] = "pass"
    BY <2>1 DEF Working
  <2>8. Order'
    BY <1>0, <2>1, <2>2, <2>4, <2>5, <2>6, <2>7, OrderKept, Names DEF Order
  <2> QED
    BY <2>2, <2>3, <2>8 DEF QueueInv
<1>12. ASSUME UNCHANGED <<request, taskOf, status, planned, job, starter, target,
                          worker, passed>>, UNCHANGED faults \/ Fault
       PROVE  QueueInv' /\ QueueMoves(job, job')
  <2>1. RestTypeOK'
    BY <1>0, <1>12, BoundsAssumption DEF RestTypeOK, Fault
  <2> QED
    BY <1>00, <1>12, <2>1, RequestsKeepOrder
<1>13. ASSUME NEW r \in Creates, StoreResponse(r)
       PROVE  QueueInv' /\ QueueMoves(job, job')
  BY <1>12, <1>13 DEF StoreResponse
<1>14. ASSUME NEW k \in Keys, Expire(k) \/ Cleanup(k)
       PROVE  QueueInv' /\ QueueMoves(job, job')
  BY <1>12, <1>14 DEF Expire, Cleanup
<1>15. CASE UNCHANGED vars
  BY <1>12, <1>15 DEF vars
<1> QED
  BY <1>1, <1>2, <1>3, <1>4, <1>5, <1>6, <1>7, <1>8, <1>9, <1>10, <1>11, <1>13,
     <1>14, <1>15 DEF Next, Progress, Environment, Handle, HandleTask

LEMMA QueueInit == Init => QueueInv
<1> SUFFICES ASSUME Init PROVE QueueInv
  OBVIOUS
<1>1. NoJob \in JobRecords /\ Shape(NoJob)
  BY BoundsAssumption DEF NoJob, JobRecords, Shape
<1>2. job \in Queues
  BY <1>1 DEF Init, Queues
<1>3. target \in [Executes -> Creates]
  BY NamesAssumption DEF Init
<1>4. RestTypeOK
  BY <1>2, <1>3, BoundsAssumption DEF Init, RestTypeOK, TaskStatuses
<1>5. Order
  BY Names DEF Init, Order, NoJob
<1> QED
  BY <1>4, <1>5 DEF QueueInv

LEMMA QueueInvariant == Spec => [](GuardInv /\ BreakerInv /\ QueueInv)
<1>1. Init => GuardInv /\ BreakerInv /\ QueueInv
  BY QueueInit, NewBreakerSound
     DEF Init, GuardInv, GuardTypeOK, OneInGuard, LateIsReplayed, InGuard, BreakerInv
<1>2. GuardInv /\ BreakerInv /\ QueueInv /\ [Next]_vars =>
        GuardInv' /\ BreakerInv' /\ QueueInv'
  BY GuardStep, BreakerStep, QueueStep
<1> QED
  BY <1>1, <1>2, PTL DEF Spec

\* The variables keep their types, the counts of every job's failures, stalls and
\* runs included.
THEOREM TypeCorrect == Spec => []TypeOK
<1>1. GuardInv /\ BreakerInv /\ QueueInv => TypeOK
  BY DEF GuardInv, GuardTypeOK, BreakerInv, QueueInv, RestTypeOK, Queues, TypeOK
<1> QED
  BY <1>1, QueueInvariant, PTL

-----------------------------------------------------------------------------
(***************************************************************************)
(* What becomes of a task.                                                 *)
(***************************************************************************)

\* Once a caller of executeTask has begun, or a job is there, it is for one task.
LEMMA TasksStay ==
  ASSUME GuardInv, QueueInv, [Next]_vars
  PROVE  /\ \A s \in Starters : starter[s] # "idle" =>
              TaskOfStarter(s)' = TaskOfStarter(s)
         /\ \A j \in Jobs : job[j].state # "none" => TaskOfJob(j)' = TaskOfJob(j)
         /\ \A s \in passed : TaskOfStarter(s)' = TaskOfStarter(s)
<1> USE DEF guardVars, storeVars, taskVars, runVars
<1>0. RestTypeOK /\ Order
  BY DEF QueueInv
<1>1. \/ UNCHANGED taskOf
      \/ \E r \in Creates : /\ request[r] = "find"
                            /\ \A q \in Creates \ {r} : taskOf'[q] = taskOf[q]
  <2>1. ASSUME NEW r \in Creates, FindOrInsert(r)
        PROVE  UNCHANGED taskOf \/ \E t \in Creates : taskOf' = [taskOf EXCEPT ![r] = t]
    BY <1>0, <2>1 DEF FindOrInsert, Reusable, RestTypeOK
  <2>2. ASSUME NEW r \in Creates, FindOrInsert(r)
        PROVE  /\ request[r] = "find"
               /\ \A q \in Creates \ {r} : taskOf'[q] = taskOf[q]
    <3>1. request[r] = "find"
      BY <2>2 DEF FindOrInsert
    <3> QED
      BY <1>0, <2>1, <2>2, <3>1 DEF RestTypeOK
  <2> QED
    BY <2>2 DEF Next, Progress, Environment, Handle, ExecuteTask, HandleTask, vars,
       Lookup, Purge, GeneratePlan, MarkPlanned, PlanFailed, EnqueuePlan,
       PlanEnqueued, StoreResponse, Take, MarkRunning, RunTask, EnqueueRun,
       RunEnqueued, StarterUnchanged, RunCycle, CompleteExecution, WorkerUnchanged,
       Arrive, StartExecute, Expire, Cleanup, Timeout, Restart
<1>2. \A x \in Executes : starter[x] # "idle" => target'[x] = target[x]
  <2>1. ASSUME NEW x \in Executes, NEW t \in Creates, StartExecute(x, t)
        PROVE  \A y \in Executes : starter[y] # "idle" => target'[y] = target[y]
    BY <1>0, <2>1 DEF StartExecute, RestTypeOK
  <2> QED
    BY <2>1 DEF Next, Progress, Environment, Handle, ExecuteTask, HandleTask, vars,
       Lookup, Purge, FindOrInsert, GeneratePlan, MarkPlanned, PlanFailed,
       EnqueuePlan, PlanEnqueued, HandlerUnchanged, StoreResponse, Take, MarkRunning,
       RunTask, EnqueueRun, RunEnqueued, StarterUnchanged, RunCycle,
       CompleteExecution, WorkerUnchanged, Arrive, Expire, Cleanup, Timeout, Restart
\* The task of a request changes only before its job is there.
<1>3. ASSUME NEW r \in Creates, job[r].state # "none"
      PROVE  taskOf'[r] = taskOf[r]
  BY <1>0, <1>1, <1>3 DEF Order, Unborn, Handling
<1>4. ASSUME NEW s \in Starters, starter[s] # "idle"
      PROVE  TaskOfStarter(s)' = TaskOfStarter(s)
  <2>1. CASE s \in Executes
    BY <1>2, <1>4, <2>1 DEF TaskOfStarter
  <2>2. CASE s \notin Executes
    <3>1. s[1] \in Creates /\ s[2] \in RunNumbers /\ s = <<s[1], s[2]>> /\ s[1] \in Jobs
      BY <2>2, Names
    <3>2. s[2] <= job[s[1]].run
      BY <1>0, <1>4, <3>1 DEF Order
    <3>3. job[s[1]].state # "none"
      <4>1. s[2] >= 1
        BY <3>1, BoundsAssumption DEF RunNumbers
      <4>2. job[s[1]].state = "none" => job[s[1]].run = 0
        BY <1>0, <3>1 DEF RestTypeOK, Queues, Shape, NoJob
      <4>3. s[2] \in Nat
        BY <3>1, Names
      <4> QED
        BY <3>2, <4>1, <4>2, <4>3
    <3> QED
      BY <1>3, <2>2, <3>1, <3>3 DEF TaskOfStarter
  <2> QED
    BY <2>1, <2>2
<1>5. ASSUME NEW s \in Starters, job[s].state # "none"
      PROVE  TaskOfStarter(s)' = TaskOfStarter(s)
  BY <1>0, <1>4, <1>5 DEF Order, Ready
<1>6. ASSUME NEW j \in Jobs, job[j].state # "none"
      PROVE  TaskOfJob(j)' = TaskOfJob(j)
  BY <1>3, <1>5, <1>6, Names DEF TaskOfJob
<1>7. \A s \in passed : s \in Starters /\ job[s].state # "none"
  BY <1>0 DEF Order, RestTypeOK
<1> QED
  BY <1>4, <1>5, <1>6, <1>7

\* The critic passes before a task is completed, and its verdict stays on record.
LEMMA PassedStep ==
  ASSUME GuardInv, QueueInv, CompletedTaskPassed, [Next]_vars
  PROVE  CompletedTaskPassed'
<1> USE DEF guardVars, storeVars, taskVars, runVars
<1>0. RestTypeOK /\ Order
  BY DEF QueueInv
<1>1. passed \subseteq passed' /\ \A s \in passed : TaskOfStarter(s)' = TaskOfStarter(s)
  <2>1. passed \subseteq passed'
    BY DEF Next, Progress, Environment, Handle, ExecuteTask, HandleTask, vars,
       Lookup, Purge, FindOrInsert, GeneratePlan, MarkPlanned, PlanFailed,
       EnqueuePlan, PlanEnqueued, HandlerUnchanged, StoreResponse, Take, MarkRunning,
       RunTask, EnqueueRun, RunEnqueued, StarterUnchanged, RunCycle,
       CompleteExecution, WorkerUnchanged, Arrive, StartExecute, Expire, Cleanup,
       Timeout, Restart
  <2> QED
    BY <2>1, TasksStay
<1>2. ASSUME NEW t \in Creates, status'[t] = "COMPLETED", status[t] # "COMPLETED"
      PROVE  \E s \in passed : TaskOfStarter(s) = t
  <2>1. PICK w \in Workers : CompleteExecution(w) /\ SetVerdict(w)
    <3>1. ASSUME NEW o \in Creates, NEW st \in TaskStatuses \ {"COMPLETED"},
                 status' = [status EXCEPT ![o] = st]
          PROVE  FALSE
      BY <1>0, <1>2, <3>1 DEF RestTypeOK
    <3>2. ASSUME UNCHANGED status PROVE FALSE
      BY <1>2, <3>2
    <3>3. ASSUME NEW r \in Creates,
                 FindOrInsert(r) \/ MarkPlanned(r) \/ PlanFailed(r)
          PROVE  FALSE
      BY <3>1, <3>2, <3>3 DEF FindOrInsert, MarkPlanned, PlanFailed, TaskStatuses
    <3>4. ASSUME NEW s \in Starters, MarkRunning(s) \/ RunTask(s)
          PROVE  FALSE
      <4>1. TaskOfStarter(s) \in Creates
        BY <1>0, Names DEF TaskOfStarter, RestTypeOK
      <4> QED
        BY <3>1, <3>2, <3>4, <4>1 DEF MarkRunning, RunTask, TaskStatuses
    <3> QED
      BY <3>2, <3>3, <3>4
         DEF Next, Progress, Environment, Handle, ExecuteTask, HandleTask, vars,
         Lookup, Purge, GeneratePlan, EnqueuePlan, PlanEnqueued, HandlerUnchanged,
         StoreResponse, Take, EnqueueRun, RunEnqueued, StarterUnchanged, RunCycle,
         CompleteExecution, Arrive, StartExecute, Expire, Cleanup, Timeout, Restart
  <2>2. TaskOfStarter(w[1]) = t /\ Verdict(worker[w]) = "COMPLETED"
    BY <1>0, <1>2, <2>1 DEF SetVerdict, RestTypeOK
  <2>3. worker[w] = "pass"
    BY <2>2 DEF Verdict
  <2> QED
    BY <1>0, <2>2, <2>3 DEF Order
<1>3. ASSUME NEW t \in Creates, status'[t] = "COMPLETED"
      PROVE  \E s \in passed : TaskOfStarter(s) = t
  BY <1>2, <1>3 DEF CompletedTaskPassed
<1>4. ASSUME NEW t \in Creates, status'[t] = "COMPLETED"
      PROVE  \E s \in passed' : TaskOfStarter(s)' = t
  BY <1>1, <1>3, <1>4
<1> QED
  BY <1>4 DEF CompletedTaskPassed

\* A task shows COMPLETED only when the critic has passed some cycle of it.
THEOREM CompletedWasPassed == Spec => []CompletedTaskPassed
<1>1. Init => CompletedTaskPassed
  BY DEF Init, CompletedTaskPassed
<1>2. GuardInv /\ QueueInv /\ CompletedTaskPassed /\ [Next]_vars => CompletedTaskPassed'
  BY PassedStep
<1> QED
  BY <1>1, <1>2, QueueInvariant, PTL DEF Spec

Live == {"waiting", "active"}

\* Whoever was to bring a task to its verdict still is, or has handed the task on,
\* or has given it up, or the task no longer shows RUNNING.
LEMMA WorkKept ==
  ASSUME GuardInv, QueueInv, RunningTaskHasWork, [Next]_vars,
         \A s \in Starters : starter[s] \in Starting =>
           \/ starter'[s] \in Starting \cup {"dropped"}
           \/ job'[s].state = "waiting"
           \/ s \notin Executes /\ job[s[1]].state # "none"
              /\ job'[s[1]].state \in {"waiting", "failed"},
         \A s \in Starters : starter[s] = "dropped" => starter'[s] = "dropped",
         \A j \in Jobs : job[j].state \in Live =>
           \/ job'[j].state \in Live \cup {"failed"}
           \/ status'[TaskOfJob(j)] # "RUNNING"
           \/ \E s \in Starters \ Executes :
                s[1] = j /\ starter[s] \in Starting /\ job'[s].state = "waiting",
         \A t \in Creates : status'[t] = "RUNNING" =>
           \/ status[t] = "RUNNING"
           \/ \E s \in Starters : starter[s] \in Starting /\ starter'[s] \in Starting
                                  /\ TaskOfStarter(s) = t
  PROVE  RunningTaskHasWork'
<1>0. RestTypeOK /\ Order /\ QueueMoves(job, job')
  BY QueueStep DEF QueueInv
<1>1. /\ \A s \in Starters : starter[s] # "idle" => TaskOfStarter(s)' = TaskOfStarter(s)
      /\ \A j \in Jobs : job[j].state # "none" => TaskOfJob(j)' = TaskOfJob(j)
  BY TasksStay
<1>2. \A s \in Starters \ Executes : /\ s[1] \in Jobs
                                     /\ TaskOfJob(s[1]) = TaskOfStarter(s)
  BY Names DEF TaskOfJob, TaskOfStarter
<1>3. \A s \in Starters : s \in Jobs /\ TaskOfJob(s)' = TaskOfStarter(s)'
  BY Names DEF TaskOfJob
<1>4. ASSUME NEW t \in Creates, NEW s \in Starters, starter[s] \in Starting,
             TaskOfStarter(s) = t
      PROVE  HasWork(t)' \/ GivenUp(t)'
  <2>1. TaskOfStarter(s)' = t
    BY <1>1, <1>4 DEF Starting
  <2>2. CASE starter'[s] \in Starting
    BY <2>1, <2>2 DEF HasWork
  <2>3. CASE starter'[s] = "dropped"
    BY <2>1, <2>3 DEF GivenUp
  <2>4. CASE job'[s].state = "waiting"
    BY <1>3, <2>1, <2>4 DEF HasWork
  <2>5. CASE s \notin Executes /\ job[s[1]].state # "none"
             /\ job'[s[1]].state \in {"waiting", "failed"}
    <3>1. s[1] \in Jobs /\ TaskOfJob(s[1])' = t
      BY <1>1, <1>2, <1>4, <2>5
    <3> QED
      BY <2>5, <3>1 DEF HasWork, GivenUp
  <2> QED
    BY <1>4, <2>2, <2>3, <2>4, <2>5
<1>5. ASSUME NEW t \in Creates, NEW s \in Starters, starter[s] = "dropped",
             TaskOfStarter(s) = t
      PROVE  GivenUp(t)'
  BY <1>1, <1>5 DEF GivenUp
<1>6. ASSUME NEW t \in Creates, NEW j \in Jobs, job[j].state \in Live,
             TaskOfJob(j) = t, status'[t] = "RUNNING"
      PROVE  HasWork(t)' \/ GivenUp(t)'
  <2>1. TaskOfJob(j)' = t
    BY <1>1, <1>6 DEF Live
  <2>2. CASE job'[j].state \in Live \cup {"failed"}
    BY <2>1, <2>2 DEF HasWork, GivenUp, Live
  <2>3. ASSUME NEW s \in Starters \ Executes, s[1] = j, starter[s] \in Starting
        PROVE  HasWork(t)' \/ GivenUp(t)'
    BY <1>2, <1>4, <1>6, <2>3
  <2> QED
    BY <1>6, <2>2, <2>3
<1>7. ASSUME NEW t \in Creates, NEW j \in Jobs, job[j].state = "failed",
             TaskOfJob(j) = t
      PROVE  GivenUp(t)'
  <2>1. job'[j].state = "failed"
    BY <1>0, <1>7 DEF QueueMoves, Moves
  <2> QED
    BY <1>1, <1>7, <2>1 DEF GivenUp
<1>8. ASSUME NEW t \in Creates, status'[t] = "RUNNING"
      PROVE  HasWork(t)' \/ GivenUp(t)'
  <2>1. CASE HasWork(t) \/ GivenUp(t)
    BY <1>4, <1>5, <1>6, <1>7, <1>8, <2>1 DEF HasWork, GivenUp, Live
  <2>2. CASE ~(HasWork(t) \/ GivenUp(t))
    <3>1. PICK s \in Starters : starter[s] \in Starting /\ TaskOfStarter(s) = t
      BY <1>8, <2>2 DEF RunningTaskHasWork
    <3> QED
      BY <1>4, <3>1
  <2> QED
    BY <2>1, <2>2
<1> QED
  BY <1>8 DEF RunningTaskHasWork

\* A job that waits stays in the queue, and one that is active leaves it only by
\* the end of a run.
LEMMA WorkStep ==
  ASSUME GuardInv, QueueInv, RunningTaskHasWork, [Next]_vars
  PROVE  RunningTaskHasWork'
<1> USE DEF guardVars, storeVars, taskVars, runVars
<1>0. /\ RestTypeOK /\ Order /\ job \in Queues
      /\ \A s \in Starters : TaskOfStarter(s) \in Creates
      /\ \A j \in Jobs : TaskOfJob(j) \in Creates
  BY Names DEF QueueInv, RestTypeOK, TaskOfStarter, TaskOfJob
<1>1. ASSUME UNCHANGED starter,
             \A j \in Jobs : job[j].state \in Live => job'[j].state \in Live \cup {"failed"},
             \A t \in Creates : status'[t] = "RUNNING" => status[t] = "RUNNING"
      PROVE  RunningTaskHasWork'
  BY <1>1, WorkKept
<1>2. ASSUME NEW r \in Creates, NEW k \in Keys \cup {NoKey}, Arrive(r, k)
      PROVE  RunningTaskHasWork'
  BY <1>1, <1>2 DEF Arrive
<1>3. ASSUME NEW r \in Creates,
             Lookup(r) \/ Purge(r) \/ StoreResponse(r) \/ GeneratePlan(r) \/ EnqueuePlan(r)
      PROVE  RunningTaskHasWork'
  BY <1>1, <1>3 DEF Lookup, Purge, StoreResponse, GeneratePlan, EnqueuePlan,
     HandlerUnchanged
<1>4. ASSUME NEW r \in Creates, FindOrInsert(r) \/ MarkPlanned(r) \/ PlanFailed(r)
      PROVE  RunningTaskHasWork'
  <2>1. /\ UNCHANGED <<job, starter>>
        /\ \/ UNCHANGED status
           \/ \E st \in {"PLANNING", "PLANNED", "FAILED"} :
                status' = [status EXCEPT ![r] = st]
    BY <1>4 DEF FindOrInsert, MarkPlanned, PlanFailed, HandlerUnchanged
  <2> QED
    BY <1>0, <1>1, <2>1 DEF RestTypeOK
<1>5. ASSUME NEW r \in Creates, PlanEnqueued(r)
      PROVE  RunningTaskHasWork'
  <2>1. UNCHANGED <<status, starter>> /\ job' \in {job, Added(r)}
    BY <1>5 DEF PlanEnqueued, HandlerUnchanged, AddSucceeds, AddFails
  <2>2. \A j \in Jobs : job[j].state \in Live => job'[j].state \in Live
    BY <1>0, <2>1, RecordFields DEF Added, Queues, Live
  <2> QED
    BY <1>1, <2>1, <2>2
<1>6. ASSUME NEW j \in Jobs, Take(j)
      PROVE  RunningTaskHasWork'
  <2> DEFINE n == job[j].run + 1
             p == <<j, n>>
             o == [job EXCEPT ![j].state = "active", ![j].run = n]
  <2>1. /\ job[j].state = "waiting" /\ job' = o /\ UNCHANGED status
        /\ IF j \in Creates THEN starter' = [starter EXCEPT ![p] = "mark"]
                            ELSE UNCHANGED starter
    BY <1>6 DEF Take
  <2>2. /\ o[j].state = "active" /\ n \in RunNumbers
        /\ \A i \in Jobs \ {j} : o[i] = job[i]
    BY <1>0, <2>1, TakeMoves
  <2>3. \A i \in Jobs : job[i].state \in Live => job'[i].state \in Live
    BY <2>1, <2>2 DEF Live
  <2>4. CASE j \notin Creates
    BY <1>1, <2>1, <2>3, <2>4
  <2>5. CASE j \in Creates
    <3>1. p \in Starters
      BY <2>2, <2>5, Names
    <3>2. starter[p] = "idle"
      <4>1. ~(n <= job[j].run)
        BY <1>0, RecordFields, BoundsAssumption DEF Queues
      <4> QED
        BY <1>0, <2>2, <2>5, <4>1 DEF Order
    <3>3. starter' = [starter EXCEPT ![p] = "mark"]
      BY <2>1, <2>5
    <3> HIDE DEF p
    <3>4. \A s \in Starters : starter[s] # "idle" => starter'[s] = starter[s]
      BY <1>0, <3>2, <3>3 DEF RestTypeOK
    <3> QED
      BY <2>1, <2>3, <3>4, WorkKept DEF Starting
  <2> QED
    BY <2>4, <2>5
<1>7. ASSUME NEW j \in Jobs, Timeout(j)
      PROVE  RunningTaskHasWork'
  <2>1. /\ job[j].state = "active" /\ job' = FailedOnce(job, j)
        /\ UNCHANGED <<status, starter>>
    BY <1>7 DEF Timeout
  <2>2. \A i \in Jobs : job[i].state \in Live => job'[i].state \in Live \cup {"failed"}
    BY <1>0, <2>1, FailedMoves DEF Live
  <2> QED
    BY <1>1, <2>1, <2>2
<1>8. ASSUME NEW x \in Executes, NEW t \in Creates, StartExecute(x, t)
      PROVE  RunningTaskHasWork'
  <2>1. /\ starter[x] = "idle" /\ starter' = [starter EXCEPT ![x] = "create"]
        /\ UNCHANGED <<status, job>>
    BY <1>8 DEF StartExecute, StarterStep, At
  <2>2. \A s \in Starters : starter[s] # "idle" => starter'[s] = starter[s]
    BY <1>0, <2>1 DEF RestTypeOK
  <2> QED
    BY <2>1, <2>2, WorkKept DEF Starting, Live
<1>9. ASSUME NEW s \in Starters, ExecuteTask(s)
      PROVE  RunningTaskHasWork'
  <2>1. starter[s] \in Starting
    BY <1>9 DEF ExecuteTask, MarkRunning, RunTask, EnqueueRun, RunEnqueued, Starting
  <2> DEFINE Goes == \E stage \in Starting :
                       /\ starter' = [starter EXCEPT ![s] = stage]
                       /\ UNCHANGED job
                       /\ \/ UNCHANGED status
                          \/ status' = [status EXCEPT ![TaskOfStarter(s)] = "RUNNING"]
             Over(q) == StarterFails(s, q) \/ (StarterEnds(s, q) /\ q = Added(s))
  <2>2. Goes \/ (UNCHANGED status /\ (Over(job) \/ Over(Added(s))))
    <3>0. "create" \in Starting /\ "enqueue" \in Starting /\ "adding" \in Starting
      BY DEF Starting
    <3>1. CASE MarkRunning(s)
      BY <3>0, <3>1 DEF MarkRunning, StarterStep, At
    <3>2. CASE RunTask(s)
      BY <3>0, <3>2 DEF RunTask, StarterStep, At
    <3>3. CASE EnqueueRun(s)
      <4>1. \/ StarterFails(s, job) /\ UNCHANGED status
            \/ StarterStep(s, "adding") /\ UNCHANGED status
        BY <3>3 DEF EnqueueRun
      <4> QED
        BY <3>0, <4>1 DEF StarterStep, At
    <3>4. CASE RunEnqueued(s)
      BY <3>4 DEF RunEnqueued
    <3> QED
      BY <1>9, <3>1, <3>2, <3>3, <3>4 DEF ExecuteTask
  <2>3. CASE Goes
    <3>1. /\ starter'[s] \in Starting
          /\ \A p \in Starters \ {s} : starter'[p] = starter[p]
      BY <1>0, <2>3 DEF RestTypeOK
    <3>2. \A t \in Creates : status'[t] = "RUNNING" =>
            status[t] = "RUNNING" \/ TaskOfStarter(s) = t
      BY <1>0, <2>3 DEF RestTypeOK
    <3>3. starter[s] # "dropped"
      BY <2>1 DEF Starting
    <3> QED
      BY <2>1, <2>3, <3>1, <3>2, <3>3, WorkKept DEF Live
  <2>4. CASE UNCHANGED status /\ (Over(job) \/ Over(Added(s)))
    <3>1. /\ UNCHANGED status
          /\ \E q \in {job, Added(s)} :
               StarterFails(s, q) \/ (StarterEnds(s, q) /\ q = Added(s))
      BY <2>4 DEF StarterFails, StarterEnds
    <3> PICK q \in {job, Added(s)} :
               StarterFails(s, q) \/ (StarterEnds(s, q) /\ q = Added(s))
      BY <3>1
    <3>2. /\ \E stage \in {"ended", "dropped"} :
               /\ starter' = [starter EXCEPT ![s] = stage]
               /\ StarterFails(s, q) /\ stage = "ended" =>
                   Awaited(s) /\ job'[s[1]].state \in {"waiting", "failed"}
          /\ \A i \in Jobs \ {s} : i # s[1] \/ ~Awaited(s) => job'[i] = job[i]
          /\ job'[s] = q[s]
          /\ q # job => q[s].state = "waiting"
      BY <2>1, <3>1, StarterOver
    <3>3. \A p \in Starters \ {s} : starter'[p] = starter[p]
      BY <1>0, <3>2 DEF RestTypeOK
    <3>4. job[s].state = "none"
      BY <1>0, <2>1 DEF Order, Ready
    <3>5. q = Added(s) => job'[s].state = "waiting"
      <4>1. Added(s)[s].state = "waiting"
        BY <1>0, <3>4, AddedMoves, Names
      <4> QED
        BY <3>2, <4>1
    <3>6. Awaited(s) => s \notin Executes /\ job[s[1]].state = "active"
      BY DEF Awaited, Current
    <3>7. \/ starter'[s] = "dropped"
          \/ job'[s].state = "waiting"
          \/ s \notin Executes /\ job[s[1]].state # "none"
             /\ job'[s[1]].state \in {"waiting", "failed"}
      <4>1. CASE StarterFails(s, q)
        BY <1>0, <3>2, <3>6, <4>1 DEF RestTypeOK
      <4>2. CASE StarterEnds(s, q) /\ q = Added(s)
        BY <3>5, <4>2
      <4> QED
        BY <3>1, <4>1, <4>2
    <3>8. ASSUME NEW j \in Jobs, job[j].state \in Live
          PROVE  \/ job'[j].state \in Live \cup {"failed"}
                 \/ \E p \in Starters \ Executes :
                      p[1] = j /\ starter[p] \in Starting /\ job'[p].state = "waiting"
      <4>1. j # s
        BY <3>4, <3>8 DEF Live
      <4>2. CASE j # s[1] \/ ~Awaited(s)
        BY <3>2, <3>8, <4>1, <4>2
      <4>3. CASE j = s[1] /\ Awaited(s)
        <5>1. CASE q = Added(s)
          BY <2>1, <3>5, <3>6, <4>3, <5>1
        <5>2. CASE StarterFails(s, q)
          <6>1. starter'[s] = "ended"
            BY <1>0, <2>1, <3>1, <4>3, <5>2, StarterOver DEF RestTypeOK
          <6>2. job'[s[1]].state \in {"waiting", "failed"}
            BY <1>0, <3>2, <5>2, <6>1 DEF RestTypeOK
          <6> QED
            BY <4>3, <6>2 DEF Live
        <5> QED
          BY <3>1, <5>1, <5>2
      <4> QED
        BY <4>2, <4>3
    <3>9. starter[s] # "dropped"
      BY <2>1 DEF Starting
    <3> QED
      BY <3>1, <3>3, <3>7, <3>8, <3>9, WorkKept
  <2> QED
    BY <2>2, <2>3, <2>4
<1>10. ASSUME NEW w \in Workers, RunCycle(w)
       PROVE  RunningTaskHasWork'
  BY <1>1, <1>10 DEF RunCycle, WorkerUnchanged
\* The run that ends a job gives its task the verdict.
<1>11. ASSUME NEW w \in Workers, CompleteExecution(w)
       PROVE  RunningTaskHasWork'
  <2>1. /\ UNCHANGED starter
        /\ \/ SetVerdict(w) /\ WorkerEnds(w)
           \/ UNCHANGED <<status, job>>
           \/ WorkerFails(w) /\ UNCHANGED status
    BY <1>11 DEF CompleteExecution, WorkerUnchanged
  <2>2. CASE SetVerdict(w) /\ WorkerEnds(w)
    <3>1. TaskOfJob(w[1]) = TaskOfStarter(w[1]) /\ TaskOfStarter(w[1]) \in Creates
      BY <1>0, Names DEF TaskOfJob
    <3>2. Verdict(worker[w]) # "RUNNING"
      BY DEF Verdict
    <3>3. /\ status'[TaskOfJob(w[1])] # "RUNNING"
          /\ \A t \in Creates : status'[t] = "RUNNING" => status[t] = "RUNNING"
      BY <1>0, <2>2, <3>1, <3>2 DEF SetVerdict, RestTypeOK
    <3>4. \A i \in Jobs \ {w[1]} : job'[i] = job[i]
      BY <2>2, WorkerOver
    <3> QED
      BY <2>1, <3>3, <3>4, WorkKept
  <2>3. CASE UNCHANGED <<status, job>>
    BY <1>1, <2>1, <2>3
  <2>4. CASE WorkerFails(w) /\ UNCHANGED status
    <3>1. \A i \in Jobs : job[i].state \in Live => job'[i].state \in Live \cup {"failed"}
      BY <2>4, WorkerOver DEF Live
    <3> QED
      BY <1>1, <2>1, <2>4, <3>1
  <2> QED
    BY <2>1, <2>2, <2>3, <2>4
<1>12. CASE Restart
  <2>1. /\ starter' = [s \in Starters |->
                         IF starter[s] \notin Starting THEN starter[s]
                         ELSE IF Awaited(s) THEN "ended" ELSE "dropped"]
        /\ job' = [j \in Jobs |-> Stalled(j)] /\ UNCHANGED status
    BY <1>12 DEF Restart
  <2>2. \A j \in Jobs : /\ job[j].state = "active" => job'[j].state \in {"waiting", "failed"}
                        /\ job[j].state # "active" => job'[j] = job[j]
    BY <1>0, <2>1, StalledMoves
  <2>3. \A s \in Starters : starter[s] \in Starting =>
          \/ starter'[s] = "dropped"
          \/ s \notin Executes /\ job[s[1]].state = "active" /\ s[1] \in Jobs
    BY <2>1, Names DEF Awaited, Current
  <2>4. \A s \in Starters : starter[s] = "dropped" => starter'[s] = "dropped"
    BY <2>1 DEF Starting
  <2> QED
    BY <2>1, <2>2, <2>3, <2>4, WorkKept DEF Live
<1>13. ASSUME NEW k \in Keys, Expire(k) \/ Cleanup(k)
       PROVE  RunningTaskHasWork'
  BY <1>1, <1>13 DEF Expire, Cleanup
<1>14. CASE UNCHANGED vars
  BY <1>1, <1>14 DEF vars
<1> QED
  BY <1>2, <1>3, <1>4, <1>5, <1>6, <1>7, <1>8, <1>9, <1>10, <1>11, <1>12, <1>13,
     <1>14 DEF Next, Progress, Environment, Handle, HandleTask

\* A task that shows RUNNING still has work, or somebody gave it up.
THEOREM RunningHasWork == Spec => []RunningTaskHasWork
<1>1. Init => RunningTaskHasWork
  BY DEF Init, RunningTaskHasWork
<1>2. GuardInv /\ QueueInv /\ RunningTaskHasWork /\ [Next]_vars => RunningTaskHasWork'
  BY WorkStep
<1> QED
  BY <1>1, <1>2, QueueInvariant, PTL DEF Spec

=============================================================================

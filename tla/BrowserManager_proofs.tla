----------------------- MODULE BrowserManager_proofs -----------------------
(***************************************************************************)
(* Proofs about BrowserManager for any set of runs and any number of       *)
(* recoveries.                                                             *)
(***************************************************************************)
EXTENDS BrowserManager, TLAPS

\* The launches of a job so far: one per call of new_page, and one more when
\* the call is in its second round.
Budget(j) ==
  2 * recoveries[j] + (IF j \in retried THEN 1 ELSE 0)
                    + (IF pc[j] \in {"want", "closing"} THEN 0 ELSE 1)

LaunchCount ==
  \A j \in Jobs :
    /\ pc[j] = "idle" => launches[j] = 0
    /\ pc[j] = "closing" => j \in retried
    /\ launches[j] <= Budget(j)

\* The variables that the jobs' places in new_page decide.
Inv == TypeOK /\ LaunchCount

\* The collector holds the lock while it closes a context.
CollectorHoldsLock == dropping[Collector] # NoContext => lock = Collector

\* A profile is open in one process at most.
OneAlive == \A c, d \in Contexts : Alive(c) /\ Alive(d) => c = d

\* A context becomes old only when no call of new_page is in progress.
OldIsUnasked ==
  lastUsed = "old" => \A j \in Jobs : pc[j] \notin {"launch", "script", "page"}

LockInv == LaunchesAlone /\ CollectorHoldsLock

\* What a job does, and what the browser and the collector do.
JobNext(j) ==
  \/ Ask(j) \/ Recover(j) \/ GetWarm(j) \/ GetCold(j)
  \/ Launched(j) \/ LaunchFails(j) \/ Register(j)
  \/ OpenPage(j) \/ PageFails(j) \/ PageFailsAgain(j) \/ Dropped(j)
  \/ RunEnds(j) \/ SetupFails(j)

OtherNext ==
  \/ \E c \in Contexts : Dies(c)
  \/ CloseEvent
  \/ TimePasses \/ Collect \/ Collected \/ Sweep

LEMMA NextSplits == Next => (\E j \in Jobs : JobNext(j)) \/ OtherNext
BY DEF Next, Progress, Environment, JobNext, OtherNext

\* The context of a launch that the budget allows is one of the model's.
LEMMA LaunchFits ==
  ASSUME Inv, NEW j \in Jobs, pc[j] = "want"
  PROVE  /\ launches[j] + 1 \in 1..MaxLaunches
         /\ <<j, launches[j] + 1>> \in Contexts
<1>1. launches[j] \in Nat /\ recoveries[j] \in Nat /\ recoveries[j] <= MaxRecoveries
  BY RecoveriesAssumption DEF Inv, TypeOK, MaxLaunches
<1>2. launches[j] <= 2 * recoveries[j] + 1
  BY <1>1 DEF Inv, LaunchCount, Budget
<1>3. launches[j] + 1 \in 1..MaxLaunches
  BY <1>1, <1>2, RecoveriesAssumption DEF MaxLaunches
<1> QED
  BY <1>3 DEF Contexts

-----------------------------------------------------------------------------

\* A close_user, and the return of close(), keep the types.
LEMMA CloseUserType ==
  ASSUME TypeOK, NEW o \in Owners, CloseUser(o)
  PROVE  /\ registry' \in Contexts \cup {NoContext}
         /\ lastUsed' \in {"none", "fresh", "old"}
         /\ chrome' \in [Contexts -> {"none", "starting", "open", "closing", "closed"}]
         /\ dropping' \in [Owners -> Contexts \cup {NoContext}]
BY DEF CloseUser, TypeOK

LEMMA ClosedType ==
  ASSUME TypeOK, NEW o \in Owners, Closed(o)
  PROVE  /\ registry' \in Contexts \cup {NoContext}
         /\ lastUsed' \in {"none", "fresh", "old"}
         /\ chrome' \in [Contexts -> {"none", "starting", "open", "closing", "closed"}]
         /\ dropping' \in [Owners -> Contexts \cup {NoContext}]
         /\ handled' \subseteq Contexts
         /\ forgotten' \subseteq Contexts
         /\ page' \in [Jobs -> Contexts \cup {NoContext}]
BY DEF Closed, PagesEnd, TypeOK

LEMMA GiveUpType ==
  ASSUME TypeOK, NEW j \in Jobs, GiveUp(j)
  PROVE  /\ pc' \in [Jobs -> Stages]
         /\ ctx' \in [Jobs -> Contexts \cup {NoContext}]
BY DEF GiveUp, At, TypeOK, Stages

\* No step takes a variable out of its type.
LEMMA TypeStep == Inv /\ [Next]_vars => TypeOK'
<1> SUFFICES ASSUME Inv, [Next]_vars PROVE TypeOK'
  OBVIOUS
<1> TypeOK
  BY DEF Inv
<1> USE DEF jobVars, managerVars, chromeVars
<1>0. CASE UNCHANGED vars
  BY <1>0 DEF vars, TypeOK
<1>1. ASSUME NEW j \in Jobs, JobNext(j) PROVE TypeOK'
  <2> j \in Owners
    BY DEF Owners
  <2>1. CASE Ask(j)
    BY <2>1 DEF Ask, At, TypeOK, Stages
  <2>2. CASE Recover(j)
    <3>1. recoveries[j] + 1 \in 0..MaxRecoveries
      BY <2>2, RecoveriesAssumption DEF Recover, TypeOK
    <3> QED
      BY <2>2, <3>1 DEF Recover, At, TypeOK, Stages
  <2>3. CASE GetWarm(j)
    BY <2>3 DEF GetWarm, At, TypeOK, Stages
  <2>4. CASE GetCold(j)
    <3> DEFINE c == <<j, launches[j] + 1>>
    <3>1. c \in Contexts /\ launches[j] + 1 \in 0..MaxLaunches
      BY <2>4, LaunchFits, RecoveriesAssumption DEF GetCold, MaxLaunches
    <3>2. /\ lock' = j /\ lastUsed' = "fresh"
          /\ launches' = [launches EXCEPT ![j] = launches[j] + 1]
          /\ ctx' = [ctx EXCEPT ![j] = c]
          /\ chrome' = [chrome EXCEPT ![c] = "starting"]
          /\ pc' = [pc EXCEPT ![j] = "launch"]
          /\ UNCHANGED <<page, retried, recoveries, registry, dropping,
                         forgotten, handled, events, profile>>
      BY <2>4 DEF GetCold, At
    <3> HIDE DEF c
    <3> QED
      BY <3>1, <3>2 DEF TypeOK, Stages
  <2>5. CASE Launched(j)
    BY <2>5 DEF Launched, At, TypeOK, Stages
  <2>6. CASE LaunchFails(j)
    BY <2>6, GiveUpType DEF LaunchFails, TypeOK
  <2>7. CASE Register(j)
    BY <2>7 DEF Register, At, TypeOK, Stages
  <2>8. CASE OpenPage(j)
    BY <2>8 DEF OpenPage, At, TypeOK, Stages
  <2>9. CASE PageFails(j)
    BY <2>9, CloseUserType DEF PageFails, At, TypeOK, Stages
  <2>10. CASE PageFailsAgain(j)
    BY <2>10, GiveUpType DEF PageFailsAgain, TypeOK
  <2>11. CASE Dropped(j)
    BY <2>11, ClosedType DEF Dropped, At, TypeOK, Stages
  <2>12. CASE RunEnds(j)
    BY <2>12 DEF RunEnds, At, TypeOK, Stages
  <2>13. CASE SetupFails(j)
    BY <2>13 DEF SetupFails, At, TypeOK, Stages
  <2> QED
    BY <1>1, <2>1, <2>2, <2>3, <2>4, <2>5, <2>6, <2>7, <2>8, <2>9, <2>10,
       <2>11, <2>12, <2>13 DEF JobNext
<1>2. ASSUME OtherNext PROVE TypeOK'
  <2> Collector \in Owners
    BY DEF Owners
  <2>1. ASSUME NEW c \in Contexts, Dies(c) PROVE TypeOK'
    BY <2>1 DEF Dies, PagesEnd, TypeOK
  <2>2. CASE CloseEvent
    BY <2>2 DEF CloseEvent, TypeOK
  <2>3. CASE TimePasses
    BY <2>3 DEF TimePasses, TypeOK
  <2>4. CASE Collect
    BY <2>4, CloseUserType DEF Collect, TypeOK
  <2>5. CASE Collected
    BY <2>5, ClosedType DEF Collected, TypeOK
  <2>6. CASE Sweep
    BY <2>6 DEF Sweep, TypeOK
  <2> QED
    BY <1>2, <2>1, <2>2, <2>3, <2>4, <2>5, <2>6 DEF OtherNext
<1> QED
  BY <1>0, <1>1, <1>2, NextSplits

\* A step that counts no launch and gives the job's call nothing more keeps the
\* count.
LEMMA CountKept ==
  ASSUME Inv, NEW j \in Jobs, NEW stage \in Stages \ {"idle", "want", "closing"},
         pc' = [pc EXCEPT ![j] = stage],
         UNCHANGED <<retried, recoveries, launches>>
  PROVE  LaunchCount'
<1> SUFFICES ASSUME NEW i \in Jobs
             PROVE  /\ pc'[i] = "idle" => launches[i] = 0
                    /\ pc'[i] = "closing" => i \in retried
                    /\ launches[i] <= Budget(i)'
  BY DEF LaunchCount
<1>1. /\ launches[i] \in Nat /\ recoveries[i] \in Nat
      /\ pc \in [Jobs -> Stages]
  BY RecoveriesAssumption DEF Inv, TypeOK, MaxLaunches
<1>2. /\ pc[i] = "idle" => launches[i] = 0
      /\ pc[i] = "closing" => i \in retried
      /\ launches[i] <= Budget(i)
  BY DEF Inv, LaunchCount
<1> QED
  BY <1>1, <1>2 DEF Budget

LEMMA CountStep == Inv /\ [Next]_vars => LaunchCount'
<1> SUFFICES ASSUME Inv, [Next]_vars PROVE LaunchCount'
  OBVIOUS
<1> USE DEF jobVars
<1>0. CASE UNCHANGED <<pc, retried, recoveries, launches>>
  BY <1>0 DEF Inv, LaunchCount, Budget
<1>1. ASSUME NEW j \in Jobs, JobNext(j) PROVE LaunchCount'
  <2>0. /\ pc \in [Jobs -> Stages]
        /\ \A i \in Jobs : launches[i] \in Nat /\ recoveries[i] \in Nat
        /\ launches \in [Jobs -> 0..MaxLaunches]
        /\ recoveries \in [Jobs -> 0..MaxRecoveries]
    BY RecoveriesAssumption DEF Inv, TypeOK, MaxLaunches
  <2>00. LaunchCount
    BY DEF Inv
  <2>1. CASE Ask(j)
    BY <2>1, <2>0, <2>00 DEF Ask, At, LaunchCount, Budget
  <2>2. CASE Recover(j)
    BY <2>2, <2>0, <2>00 DEF Recover, At, LaunchCount, Budget
  <2>3. CASE GetCold(j)
    BY <2>3, <2>0, <2>00 DEF GetCold, At, LaunchCount, Budget
  <2>4. CASE PageFails(j)
    BY <2>4, <2>0, <2>00 DEF PageFails, MayRetry, At, LaunchCount, Budget
  <2>5. CASE Dropped(j)
    BY <2>5, <2>0, <2>00 DEF Dropped, At, LaunchCount, Budget
  <2>6. CASE \/ GetWarm(j) \/ Launched(j) \/ Register(j) \/ OpenPage(j)
             \/ LaunchFails(j) \/ PageFailsAgain(j) \/ RunEnds(j) \/ SetupFails(j)
    <3>1. /\ \E stage \in Stages \ {"idle", "want", "closing"} :
                pc' = [pc EXCEPT ![j] = stage]
          /\ UNCHANGED <<retried, recoveries, launches>>
      BY <2>6 DEF GetWarm, Launched, Register, OpenPage, LaunchFails,
                  PageFailsAgain, RunEnds, SetupFails, GiveUp, At, Stages
    <3> QED
      BY <3>1, CountKept
  <2> QED
    BY <1>1, <2>1, <2>2, <2>3, <2>4, <2>5, <2>6 DEF JobNext
<1>2. CASE UNCHANGED vars
  BY <1>0, <1>2 DEF vars
<1>3. CASE OtherNext
  BY <1>0, <1>3
     DEF OtherNext, Dies, CloseEvent, TimePasses, Collect, Collected, Sweep
<1> QED
  BY <1>1, <1>2, <1>3, NextSplits

LEMMA InvInit == Init => Inv
<1> SUFFICES ASSUME Init PROVE Inv
  OBVIOUS
<1>1. TypeOK
  BY RecoveriesAssumption DEF Init, TypeOK, Stages, MaxLaunches
<1>2. ASSUME NEW j \in Jobs
      PROVE  /\ pc[j] = "idle" /\ launches[j] = 0
             /\ recoveries[j] = 0 /\ j \notin retried
  BY DEF Init
<1>3. ASSUME NEW j \in Jobs PROVE Budget(j) = 1
  <2>1. 2 * recoveries[j] = 0
    BY <1>2
  <2> QED
    BY <1>2, <2>1 DEF Budget
<1>4. LaunchCount
  <2> SUFFICES ASSUME NEW j \in Jobs
               PROVE  /\ pc[j] = "idle" => launches[j] = 0
                      /\ pc[j] = "closing" => j \in retried
                      /\ launches[j] <= Budget(j)
    BY DEF LaunchCount
  <2>1. 0 <= Budget(j)
    BY <1>3
  <2> QED
    BY <1>2, <2>1
<1> QED
  BY <1>1, <1>4 DEF Inv

LEMMA SpecInv == Spec => []Inv
<1>1. Inv /\ [Next]_vars => Inv'
  BY TypeStep, CountStep DEF Inv
<1> QED
  BY <1>1, InvInit, PTL DEF Spec

\* Every variable keeps its type, and no job launches more often than its calls
\* of new_page allow.
THEOREM TypeCorrect == Spec => []TypeOK
<1>1. Inv => TypeOK
  BY DEF Inv
<1> QED
  BY <1>1, SpecInv, PTL

-----------------------------------------------------------------------------

\* A step that launches nothing and leaves the lock and the registry as they are
\* changes nothing about who launches.
LEMMA LockKept ==
  ASSUME LockInv, UNCHANGED <<lock, registry>>, dropping'[Collector] = dropping[Collector],
         \A i \in Jobs : Launching(i)' => Launching(i)
  PROVE  LockInv'
BY DEF LockInv, LaunchesAlone, CollectorHoldsLock

\* The holder of the lock is alone, and nothing is registered before it has
\* launched.
LEMMA LockStep == Inv /\ LockInv /\ [Next]_vars => LockInv'
<1> SUFFICES ASSUME Inv, LockInv, [Next]_vars PROVE LockInv'
  OBVIOUS
<1> USE DEF jobVars, managerVars, chromeVars
<1>0. /\ pc \in [Jobs -> Stages]
      /\ dropping \in [Owners -> Contexts \cup {NoContext}]
      /\ Collector \notin Jobs /\ Nobody \notin Jobs /\ Collector # Nobody
  BY NamesAssumption DEF Inv, TypeOK
<1>1. CASE UNCHANGED vars
  BY <1>1, LockKept DEF vars, Launching
<1>2. ASSUME NEW j \in Jobs, JobNext(j) PROVE LockInv'
  <2>1. CASE Ask(j) \/ Recover(j) \/ GetWarm(j)
    BY <1>0, <2>1, LockKept DEF Ask, Recover, GetWarm, At, Launching
  <2>2. CASE OpenPage(j) \/ RunEnds(j) \/ SetupFails(j)
    BY <1>0, <2>2, LockKept DEF OpenPage, RunEnds, SetupFails, At, Launching
  <2>3. CASE PageFailsAgain(j)
    BY <1>0, <2>3, LockKept DEF PageFailsAgain, GiveUp, At, Launching
  <2>4. CASE Launched(j)
    BY <1>0, <2>4, LockKept DEF Launched, At, Launching
  <2>5. CASE GetCold(j)
    BY <1>0, <2>5
       DEF GetCold, At, Launching, LockFree, LockInv, LaunchesAlone,
           CollectorHoldsLock
  <2>6. CASE LaunchFails(j)
    BY <1>0, <2>6
       DEF LaunchFails, GiveUp, At, Launching, LockInv, LaunchesAlone,
           CollectorHoldsLock
  <2>7. CASE Register(j)
    BY <1>0, <2>7
       DEF Register, At, Launching, LockInv, LaunchesAlone, CollectorHoldsLock
  <2>8. CASE PageFails(j)
    BY <1>0, <2>8
       DEF PageFails, CloseUser, At, Launching, LockInv, LaunchesAlone,
           CollectorHoldsLock
  <2>9. CASE Dropped(j)
    BY <1>0, <2>9
       DEF Dropped, Closed, At, Launching, LockInv, LaunchesAlone,
           CollectorHoldsLock
  <2> QED
    BY <1>2, <2>1, <2>2, <2>3, <2>4, <2>5, <2>6, <2>7, <2>8, <2>9 DEF JobNext
<1>3. CASE OtherNext
  <2>1. ASSUME NEW c \in Contexts, Dies(c) PROVE LockInv'
    BY <2>1, LockKept DEF Dies, Launching
  <2>2. CASE CloseEvent
    BY <2>2 DEF CloseEvent, Launching, LockInv, LaunchesAlone, CollectorHoldsLock
  <2>3. CASE TimePasses
    BY <2>3, LockKept DEF TimePasses, Launching
  <2>4. CASE Collect
    BY <1>0, <2>4
       DEF Collect, CloseUser, LockFree, Launching, LockInv, LaunchesAlone,
           CollectorHoldsLock
  <2>5. CASE Collected
    BY <1>0, <2>5
       DEF Collected, Closed, Owners, Launching, LockInv, LaunchesAlone,
           CollectorHoldsLock
  <2>6. CASE Sweep
    BY <2>6, LockKept DEF Sweep, Launching
  <2> QED
    BY <1>3, <2>1, <2>2, <2>3, <2>4, <2>5, <2>6 DEF OtherNext
<1> QED
  BY <1>1, <1>2, <1>3, NextSplits

\* Whoever launches is alone, holds the lock, and replaces no registered
\* context.
THEOREM Alone == Spec => []LaunchesAlone
<1>1. Init => LockInv
  BY DEF Init, LockInv, LaunchesAlone, Launching, CollectorHoldsLock, Owners
<1>2. LockInv => LaunchesAlone
  BY DEF LockInv
<1> QED
  BY <1>1, <1>2, SpecInv, LockStep, PTL DEF Spec

-----------------------------------------------------------------------------

\* A step that opens no profile leaves at most one open.
LEMMA AliveKept ==
  ASSUME OneAlive,
         \A c \in Contexts : Alive(c)' => Alive(c)
  PROVE  OneAlive'
BY DEF OneAlive

LEMMA AliveStep == Inv /\ OneAlive /\ [Next]_vars => OneAlive'
<1> SUFFICES ASSUME Inv, OneAlive, [Next]_vars PROVE OneAlive'
  OBVIOUS
<1> USE DEF jobVars, managerVars, chromeVars
<1>0. chrome \in [Contexts -> {"none", "starting", "open", "closing", "closed"}]
  BY DEF Inv, TypeOK
<1>1. CASE UNCHANGED chrome
  BY <1>1, AliveKept DEF Alive
<1>2. ASSUME NEW j \in Jobs, JobNext(j) PROVE OneAlive'
  <2>1. CASE \/ Ask(j) \/ Recover(j) \/ GetWarm(j) \/ OpenPage(j)
             \/ PageFailsAgain(j) \/ RunEnds(j) \/ SetupFails(j)
    BY <1>1, <2>1
       DEF Ask, Recover, GetWarm, OpenPage, PageFailsAgain, RunEnds, SetupFails
  <2>2. CASE GetCold(j)
    BY <1>0, <2>2, AliveKept DEF GetCold, Alive
  <2>3. CASE Launched(j)
    BY <1>0, <2>3 DEF Launched, Alive, OneAlive
  <2>4. CASE LaunchFails(j)
    BY <1>0, <2>4, AliveKept DEF LaunchFails, Alive
  <2>5. CASE Register(j)
    BY <2>5, AliveKept DEF Register, Alive
  <2>6. CASE PageFails(j)
    BY <1>0, <2>6, AliveKept DEF PageFails, CloseUser, Alive
  <2>7. CASE Dropped(j)
    BY <1>0, <2>7, AliveKept DEF Dropped, Closed, Alive
  <2> QED
    BY <1>2, <2>1, <2>2, <2>3, <2>4, <2>5, <2>6, <2>7 DEF JobNext
<1>3. CASE OtherNext
  <2>1. ASSUME NEW c \in Contexts, Dies(c) PROVE OneAlive'
    BY <1>0, <2>1 DEF Dies, Alive, OneAlive
  <2>2. CASE CloseEvent
    BY <2>2, AliveKept DEF CloseEvent, Alive
  <2>3. CASE TimePasses
    BY <1>1, <2>3 DEF TimePasses
  <2>4. CASE Collect
    BY <1>0, <2>4, AliveKept DEF Collect, CloseUser, Alive
  <2>5. CASE Collected
    BY <1>0, <2>5, AliveKept DEF Collected, Closed, Alive
  <2>6. CASE Sweep
    BY <1>1, <2>6 DEF Sweep
  <2> QED
    BY <1>3, <2>1, <2>2, <2>3, <2>4, <2>5, <2>6 DEF OtherNext
<1>4. CASE UNCHANGED vars
  BY <1>1, <1>4 DEF vars
<1> QED
  BY <1>2, <1>3, <1>4, NextSplits

\* A step that opens no profile and ends no launch makes no orphan as long as
\* it leaves the registry alone.
LEMMA OrphansKept ==
  ASSUME OrphansHaveACause, UNCHANGED registry,
         \A c \in Contexts : chrome'[c] = "open" =>
           chrome[c] = "open" /\ (c \in forgotten => c \in forgotten'),
         \A i \in Jobs : Launching(i) => Launching(i)' /\ ctx'[i] = ctx[i]
  PROVE  OrphansHaveACause'
BY DEF OrphansHaveACause

\* When nobody launches, only the registered context is open, or a forgotten
\* one; close_user closes the first.
LEMMA CloseUserOrphansNone ==
  ASSUME Inv, OrphansHaveACause, NEW o \in Owners, CloseUser(o),
         UNCHANGED forgotten,
         \A i \in Jobs : Launching(i) => Launching(i)' /\ ctx'[i] = ctx[i]
  PROVE  OrphansHaveACause'
<1> SUFFICES ASSUME NEW c \in Contexts, chrome'[c] = "open"
             PROVE  \/ \E j \in Jobs : Launching(j)' /\ ctx'[j] = c
                    \/ c \in forgotten'
  BY DEF OrphansHaveACause
<1>1. chrome[c] = "open" /\ registry # c
  BY DEF CloseUser, Inv, TypeOK
<1> QED
  BY <1>1 DEF OrphansHaveACause

\* While a context is closing no other is open, so its close event drops none
\* that is; and when close() throws, the context is forgotten.
LEMMA ClosedOrphans ==
  ASSUME Inv, OneAlive, OrphansHaveACause, NEW o \in Owners, Closed(o),
         \A i \in Jobs : Launching(i) => Launching(i)' /\ ctx'[i] = ctx[i]
  PROVE  OrphansHaveACause'
<1> DEFINE d == dropping[o]
<1>0. /\ chrome \in [Contexts -> {"none", "starting", "open", "closing", "closed"}]
      /\ d \in Contexts \cup {NoContext}
  BY DEF Inv, TypeOK
<1>1. CASE d # NoContext /\ chrome[d] = "closing"
  <2>1. d \in Contexts /\ Alive(d)
    BY <1>0, <1>1 DEF Alive
  <2>2. \A c \in Contexts : c # d => chrome[c] # "open"
    BY <2>1 DEF OneAlive, Alive
  <2>3. CASE chrome' = [chrome EXCEPT ![d] = "closed"]
    BY <1>0, <2>1, <2>2, <2>3 DEF OrphansHaveACause
  <2>4. CASE /\ chrome' = [chrome EXCEPT ![d] = "open"]
             /\ forgotten' = forgotten \cup {d}
    BY <1>0, <2>1, <2>2, <2>4 DEF OrphansHaveACause
  <2> QED
    BY <1>1, <2>3, <2>4 DEF Closed
<1>2. CASE ~(d # NoContext /\ chrome[d] = "closing")
  BY <1>2, OrphansKept DEF Closed
<1> QED
  BY <1>1, <1>2

LEMMA OrphanStep ==
  Inv /\ LockInv /\ OneAlive /\ OrphansHaveACause /\ [Next]_vars => OrphansHaveACause'
<1> SUFFICES ASSUME Inv, LockInv, OneAlive, OrphansHaveACause, [Next]_vars PROVE OrphansHaveACause'
  OBVIOUS
<1> USE DEF jobVars, managerVars, chromeVars
<1>0. /\ chrome \in [Contexts -> {"none", "starting", "open", "closing", "closed"}]
      /\ pc \in [Jobs -> Stages]
      /\ ctx \in [Jobs -> Contexts \cup {NoContext}]
      /\ NoContext \notin Contexts
  BY NamesAssumption DEF Inv, TypeOK
<1>1. CASE UNCHANGED vars
  BY <1>1, OrphansKept DEF vars, Launching
<1>2. ASSUME NEW j \in Jobs, JobNext(j) PROVE OrphansHaveACause'
  <2> j \in Owners
    BY DEF Owners
  <2>1. CASE Ask(j) \/ Recover(j) \/ OpenPage(j) \/ RunEnds(j) \/ SetupFails(j)
    BY <1>0, <2>1, OrphansKept
       DEF Ask, Recover, OpenPage, RunEnds, SetupFails, At, Launching
  <2>2. CASE PageFailsAgain(j)
    BY <1>0, <2>2, OrphansKept DEF PageFailsAgain, GiveUp, At, Launching
  <2>3. CASE GetWarm(j)
    BY <1>0, <2>3 DEF GetWarm, At, Launching, OrphansHaveACause
  <2>4. CASE GetCold(j)
    BY <1>0, <2>4 DEF GetCold, At, Launching, OrphansHaveACause
  <2>5. CASE Launched(j)
    BY <1>0, <2>5 DEF Launched, At, Launching, OrphansHaveACause
  <2>6. CASE LaunchFails(j)
    BY <1>0, <2>6
       DEF LaunchFails, GiveUp, At, Launching, OrphansHaveACause, LockInv, LaunchesAlone
  <2>7. CASE Register(j)
    BY <1>0, <2>7
       DEF Register, At, Launching, OrphansHaveACause, LockInv, LaunchesAlone
  <2>8. CASE PageFails(j)
    BY <1>0, <2>8, CloseUserOrphansNone DEF PageFails, At, Launching
  <2>9. CASE Dropped(j)
    BY <1>0, <2>9, ClosedOrphans DEF Dropped, At, Launching
  <2> QED
    BY <1>2, <2>1, <2>2, <2>3, <2>4, <2>5, <2>6, <2>7, <2>8, <2>9 DEF JobNext
<1>3. CASE OtherNext
  <2> Collector \in Owners
    BY DEF Owners
  <2>1. ASSUME NEW c \in Contexts, Dies(c) PROVE OrphansHaveACause'
    BY <1>0, <2>1, OrphansKept DEF Dies, Launching
  <2>2. CASE CloseEvent
    BY <2>2 DEF CloseEvent, Launching, OrphansHaveACause
  <2>3. CASE TimePasses
    BY <2>3, OrphansKept DEF TimePasses, Launching
  <2>4. CASE Collect
    BY <2>4, CloseUserOrphansNone DEF Collect, Launching
  <2>5. CASE Collected
    BY <2>5, ClosedOrphans DEF Collected, Launching
  <2>6. CASE Sweep
    BY <2>6, OrphansKept DEF Sweep, Launching
  <2> QED
    BY <1>3, <2>1, <2>2, <2>3, <2>4, <2>5, <2>6 DEF OtherNext
<1> QED
  BY <1>1, <1>2, <1>3, NextSplits

\* An open Chromium is registered or being launched, unless a close() that threw
\* or the late close event of another context dropped it.
THEOREM OrphansExplained == Spec => []OrphansHaveACause
<1>1. Init => LockInv /\ OneAlive /\ OrphansHaveACause
  BY DEF Init, LockInv, LaunchesAlone, Launching, CollectorHoldsLock, Owners,
         OneAlive, Alive, OrphansHaveACause
<1> QED
  BY <1>1, SpecInv, LockStep, AliveStep, OrphanStep, PTL DEF Spec

-----------------------------------------------------------------------------

\* A call of new_page makes the context fresh before it launches or opens a
\* page.
LEMMA OldStep == Inv /\ OldIsUnasked /\ [Next]_vars => OldIsUnasked'
<1> SUFFICES ASSUME Inv, OldIsUnasked, [Next]_vars PROVE OldIsUnasked'
  OBVIOUS
<1> USE DEF jobVars, managerVars, chromeVars
<1>0. pc \in [Jobs -> Stages]
  BY DEF Inv, TypeOK
<1>1. CASE UNCHANGED <<pc, lastUsed>>
  BY <1>1 DEF OldIsUnasked
<1>2. ASSUME NEW j \in Jobs, JobNext(j) PROVE OldIsUnasked'
  <2>1. CASE Ask(j) \/ Recover(j) \/ OpenPage(j) \/ RunEnds(j) \/ SetupFails(j)
    BY <1>0, <2>1 DEF Ask, Recover, OpenPage, RunEnds, SetupFails, At, OldIsUnasked
  <2>2. CASE GetWarm(j) \/ GetCold(j)
    BY <2>2 DEF GetWarm, GetCold, OldIsUnasked
  <2>3. CASE Launched(j) \/ Register(j)
    BY <1>0, <2>3 DEF Launched, Register, At, OldIsUnasked
  <2>4. CASE LaunchFails(j) \/ PageFailsAgain(j)
    BY <1>0, <2>4 DEF LaunchFails, PageFailsAgain, GiveUp, At, OldIsUnasked
  <2>5. CASE PageFails(j)
    BY <2>5 DEF PageFails, CloseUser, OldIsUnasked
  <2>6. CASE Dropped(j)
    BY <1>0, <2>6 DEF Dropped, Closed, At, OldIsUnasked
  <2> QED
    BY <1>2, <2>1, <2>2, <2>3, <2>4, <2>5, <2>6 DEF JobNext
<1>3. CASE OtherNext
  <2>1. ASSUME NEW c \in Contexts, Dies(c) PROVE OldIsUnasked'
    BY <1>1, <2>1 DEF Dies
  <2>2. CASE CloseEvent
    BY <2>2 DEF CloseEvent, OldIsUnasked
  <2>3. CASE TimePasses
    BY <2>3 DEF TimePasses, Asking, OldIsUnasked
  <2>4. CASE Collect
    BY <2>4 DEF Collect, CloseUser, OldIsUnasked
  <2>5. CASE Collected
    BY <2>5 DEF Collected, Closed, OldIsUnasked
  <2>6. CASE Sweep
    BY <1>1, <2>6 DEF Sweep
  <2> QED
    BY <1>3, <2>1, <2>2, <2>3, <2>4, <2>5, <2>6 DEF OtherNext
<1>4. CASE UNCHANGED vars
  BY <1>1, <1>4 DEF vars
<1> QED
  BY <1>2, <1>3, <1>4, NextSplits

\* The collector spares the browsers that are in use or about to be.
THEOREM CollectorSpares == Spec => CollectorSparesRuns
<1> DEFINE Spares == \A j \in Jobs :
      dropping[Collector] = NoContext /\ dropping'[Collector] # NoContext =>
        /\ page[j] = registry => chrome[registry] # "open"
        /\ pc[j] = "page" => ctx[j] # registry
<1>1. Inv /\ OldIsUnasked /\ [Next]_vars => [Spares]_vars
  <2> SUFFICES ASSUME Inv, OldIsUnasked, Next, NEW j \in Jobs,
                      dropping[Collector] = NoContext,
                      dropping'[Collector] # NoContext
               PROVE  /\ page[j] = registry => chrome[registry] # "open"
                      /\ pc[j] = "page" => ctx[j] # registry
    OBVIOUS
  <2> USE DEF jobVars, managerVars, chromeVars
  <2>0. /\ dropping \in [Owners -> Contexts \cup {NoContext}]
        /\ Collector \notin Jobs
    BY NamesAssumption DEF Inv, TypeOK
  <2>1. ASSUME NEW i \in Jobs, JobNext(i) PROVE FALSE
    <3>1. CASE PageFails(i) \/ Dropped(i)
      BY <2>0, <3>1 DEF PageFails, CloseUser, Dropped, Closed, Owners
    <3>2. CASE UNCHANGED dropping
      BY <3>2
    <3> QED
      BY <2>1, <3>1, <3>2
         DEF JobNext, Ask, Recover, GetWarm, GetCold, Launched, LaunchFails,
             Register, OpenPage, PageFailsAgain, RunEnds, SetupFails
  <2>2. CASE Collect
    <3>1. /\ lastUsed = "old"
          /\ ~(chrome[registry] = "open" /\ \E i \in Jobs : page[i] = registry)
      BY <2>2 DEF Collect, InUse
    <3>2. pc[j] # "page"
      BY <3>1 DEF OldIsUnasked
    <3> QED
      BY <3>1, <3>2
  <2>3. CASE OtherNext /\ ~Collect
    BY <2>0, <2>3 DEF OtherNext, Dies, CloseEvent, TimePasses, Collected, Closed, Sweep
  <2> QED
    BY <2>1, <2>2, <2>3, NextSplits
<1>2. Init => OldIsUnasked
  BY DEF Init, OldIsUnasked
<1> QED
  BY <1>1, <1>2, SpecInv, OldStep, PTL DEF Spec, CollectorSparesRuns

-----------------------------------------------------------------------------

\* A context is used once its launch has returned or failed.
Used(c) == chrome[c] \notin {"none", "starting"}

\* A page, and what a job was given or the registry holds, are contexts whose
\* launch is over.  Nobody but the job that launched a context knows it before it
\* is registered.
UseInv ==
  /\ registry # NoContext => Used(registry)
  /\ \A j \in Jobs :
       /\ page[j] # NoContext => Used(page[j])
       /\ pc[j] \in {"script", "page"} => ctx[j] \in Contexts /\ Used(ctx[j])
       /\ pc[j] = "launch" => ctx[j] \in Contexts /\ chrome[ctx[j]] = "starting"
       /\ \A n \in 1..MaxLaunches : n > launches[j] => chrome[<<j, n>>] = "none"
       /\ pc[j] = "script" =>
            \A i \in Jobs : /\ page[i] # ctx[j]
                            /\ pc[i] = "page" => ctx[i] # ctx[j]

LEMMA UseInit == Init => UseInv
BY DEF Init, UseInv, Contexts

\* A step that moves nobody nearer to a page, and makes no context new again.
LEMMA UseKept ==
  ASSUME Inv, UseInv,
         registry' \in {registry, NoContext}, UNCHANGED launches,
         \A c \in Contexts : chrome'[c] = chrome[c] \/ (Used(c) /\ Used(c)'),
         \A j \in Jobs : /\ page'[j] \in {page[j], NoContext}
                         /\ pc'[j] \in {"launch", "script", "page"} =>
                              pc'[j] = pc[j] /\ ctx'[j] = ctx[j]
  PROVE  UseInv'
<1>0. /\ registry \in Contexts \cup {NoContext}
      /\ page \in [Jobs -> Contexts \cup {NoContext}]
      /\ NoContext \notin Contexts
  BY NamesAssumption DEF Inv, TypeOK
<1>1. registry' # NoContext => Used(registry)'
  BY <1>0 DEF UseInv, Used
<1>2. ASSUME NEW j \in Jobs
      PROVE  /\ page'[j] # NoContext => Used(page[j])'
             /\ pc'[j] \in {"script", "page"} => ctx'[j] \in Contexts /\ Used(ctx[j])'
             /\ pc'[j] = "launch" => ctx'[j] \in Contexts /\ chrome'[ctx'[j]] = "starting"
  BY <1>0 DEF UseInv, Used
<1>3. ASSUME NEW j \in Jobs, NEW n \in 1..MaxLaunches, n > launches'[j]
      PROVE  chrome'[<<j, n>>] = "none"
  <2>1. <<j, n>> \in Contexts
    BY DEF Contexts
  <2> QED
    BY <1>3, <2>1 DEF UseInv, Used
<1>4. ASSUME NEW j \in Jobs, pc'[j] = "script", NEW i \in Jobs
      PROVE  /\ page'[i] # ctx'[j]
             /\ pc'[i] = "page" => ctx'[i] # ctx'[j]
  BY <1>0, <1>4 DEF UseInv
<1> QED
  BY <1>1, <1>2, <1>3, <1>4 DEF UseInv

LEMMA UseStep == Inv /\ LockInv /\ UseInv /\ [Next]_vars => UseInv'
<1> SUFFICES ASSUME Inv, LockInv, UseInv, [Next]_vars PROVE UseInv'
  OBVIOUS
<1> USE DEF jobVars, managerVars, chromeVars
<1>0. /\ chrome \in [Contexts -> {"none", "starting", "open", "closing", "closed"}]
      /\ pc \in [Jobs -> Stages]
      /\ ctx \in [Jobs -> Contexts \cup {NoContext}]
      /\ page \in [Jobs -> Contexts \cup {NoContext}]
      /\ registry \in Contexts \cup {NoContext}
      /\ dropping \in [Owners -> Contexts \cup {NoContext}]
      /\ NoContext \notin Contexts
  BY NamesAssumption DEF Inv, TypeOK
<1>1. CASE UNCHANGED vars
  BY <1>1, UseKept DEF vars
<1>2. ASSUME NEW j \in Jobs, JobNext(j) PROVE UseInv'
  <2> j \in Owners
    BY DEF Owners
  <2>1. CASE Ask(j) \/ Recover(j) \/ RunEnds(j) \/ SetupFails(j)
    BY <1>0, <2>1, UseKept DEF Ask, Recover, RunEnds, SetupFails, At
  <2>2. CASE PageFailsAgain(j)
    BY <1>0, <2>2, UseKept DEF PageFailsAgain, GiveUp, At
  <2>3. CASE PageFails(j)
    BY <1>0, <2>3, UseKept DEF PageFails, CloseUser, At, Used
  <2>4. CASE Dropped(j)
    BY <1>0, <2>4, UseKept DEF Dropped, Closed, PagesEnd, At, Used
  <2>5. CASE OpenPage(j)
    BY <1>0, <2>5 DEF OpenPage, At, UseInv, Used
  <2>6. CASE GetWarm(j)
    <3>1. \A i \in Jobs : pc[i] # "script"
      BY <2>6 DEF GetWarm, LockInv, LaunchesAlone, Launching
    <3> QED
      BY <1>0, <2>6, <3>1 DEF GetWarm, At, UseInv, Used
  <2>7. CASE GetCold(j)
    <3> DEFINE c == <<j, launches[j] + 1>>
    <3>1. /\ c \in Contexts /\ launches[j] + 1 \in 1..MaxLaunches
          /\ launches \in [Jobs -> 0..MaxLaunches]
      BY <2>7, LaunchFits DEF GetCold, Inv, TypeOK
    <3>2. chrome[c] = "none"
      BY <3>1 DEF UseInv
    <3>3. /\ chrome' = [chrome EXCEPT ![c] = "starting"]
          /\ ctx' = [ctx EXCEPT ![j] = c]
          /\ pc' = [pc EXCEPT ![j] = "launch"]
          /\ launches' = [launches EXCEPT ![j] = launches[j] + 1]
          /\ UNCHANGED <<page, registry>>
      BY <2>7 DEF GetCold, At
    <3>4. ASSUME NEW i \in Jobs, NEW n \in 1..MaxLaunches, n > launches'[i]
          PROVE  chrome'[<<i, n>>] = "none"
      <4>1. n > launches[i] /\ <<i, n>> # c
        BY <3>1, <3>3, <3>4
      <4>2. <<i, n>> \in Contexts /\ chrome[<<i, n>>] = "none"
        BY <4>1 DEF UseInv, Contexts
      <4> QED
        BY <1>0, <3>3, <4>1, <4>2
    <3>5. \A d \in Contexts : Used(d) => Used(d)'
      BY <1>0, <3>2, <3>3 DEF Used
    <3>6. \A i \in Jobs : pc[i] \notin {"launch", "script"}
      BY <2>7, NamesAssumption DEF GetCold, LockFree, LockInv, LaunchesAlone, Launching
    <3> HIDE DEF c
    <3> QED
      BY <1>0, <3>1, <3>3, <3>4, <3>5, <3>6 DEF UseInv
  <2>8. CASE Launched(j)
    <3>1. \A i \in Jobs \ {j} : pc[i] \notin {"launch", "script"}
      BY <2>8 DEF Launched, LockInv, LaunchesAlone, Launching
    <3>2. ctx[j] \in Contexts /\ chrome[ctx[j]] = "starting"
      BY <2>8 DEF Launched, UseInv
    <3>3. \A i \in Jobs : /\ page[i] # ctx[j]
                          /\ pc[i] = "page" => ctx[i] # ctx[j]
      BY <1>0, <3>2 DEF UseInv, Used
    <3>4. /\ chrome' = [chrome EXCEPT ![ctx[j]] = "open"]
          /\ pc' = [pc EXCEPT ![j] = "script"]
          /\ UNCHANGED <<ctx, page, launches, registry>>
      BY <2>8 DEF Launched, At
    <3>5. \A d \in Contexts : Used(d) => Used(d)'
      BY <1>0, <3>2, <3>4 DEF Used
    <3>6. Used(ctx[j])'
      BY <1>0, <3>2, <3>4 DEF Used
    <3>7. \A d \in Contexts : chrome[d] = "none" => chrome'[d] = "none"
      BY <1>0, <3>2, <3>4
    <3> QED
      BY <1>0, <3>1, <3>2, <3>3, <3>4, <3>5, <3>6, <3>7 DEF UseInv, Contexts
  <2>9. CASE LaunchFails(j)
    <3>1. ctx[j] \in Contexts /\ chrome[ctx[j]] = "starting"
      BY <2>9 DEF LaunchFails, UseInv
    <3>2. \A i \in Jobs \ {j} : pc[i] # "launch"
      BY <2>9 DEF LaunchFails, LockInv, LaunchesAlone, Launching
    <3>3. /\ chrome' = [chrome EXCEPT ![ctx[j]] = "closed"]
          /\ \E stage \in {"error", "running"} : pc' = [pc EXCEPT ![j] = stage]
          /\ ctx' = [ctx EXCEPT ![j] = NoContext]
          /\ UNCHANGED <<page, launches, registry>>
      BY <2>9 DEF LaunchFails, GiveUp, At
    <3>4. \A d \in Contexts : /\ Used(d) => Used(d)'
                              /\ chrome[d] = "none" => chrome'[d] = "none"
      BY <1>0, <3>1, <3>3 DEF Used
    <3> QED
      BY <1>0, <3>2, <3>3, <3>4 DEF UseInv, Contexts
  <2>10. CASE Register(j)
    <3>1. \A i \in Jobs \ {j} : pc[i] \notin {"launch", "script"}
      BY <2>10 DEF Register, LockInv, LaunchesAlone, Launching
    <3> QED
      BY <1>0, <2>10, <3>1 DEF Register, At, UseInv, Used
  <2> QED
    BY <1>2, <2>1, <2>2, <2>3, <2>4, <2>5, <2>6, <2>7, <2>8, <2>9, <2>10 DEF JobNext
<1>3. CASE OtherNext
  <2> Collector \in Owners
    BY DEF Owners
  <2>1. ASSUME NEW c \in Contexts, Dies(c) PROVE UseInv'
    BY <1>0, <2>1, UseKept DEF Dies, PagesEnd, Used
  <2>2. CASE Collect
    BY <1>0, <2>2, UseKept DEF Collect, CloseUser, Used
  <2>3. CASE Collected
    BY <1>0, <2>3, UseKept DEF Collected, Closed, PagesEnd, Used
  <2>4. CASE TimePasses \/ Sweep \/ CloseEvent
    BY <2>4, UseKept DEF TimePasses, Sweep, CloseEvent
  <2> QED
    BY <1>3, <2>1, <2>2, <2>3, <2>4 DEF OtherNext
<1> QED
  BY <1>1, <1>2, <1>3, NextSplits

\* The files of a profile are not taken from under an open page, unless its
\* context was forgotten: an open context that the registry misses otherwise is
\* one whose launch is not over, and in that nobody has a page.
THEOREM SweepSpares == Spec => SweepSparesRuns
<1> DEFINE Spares ==
      profile = "grown" /\ profile' = "small" =>
        \A j \in Jobs : page[j] # NoContext /\ chrome[page[j]] = "open" =>
          page[j] \in forgotten
<1>1. Inv /\ OrphansHaveACause /\ UseInv /\ [Next]_vars => [Spares]_vars
  <2> SUFFICES ASSUME Inv, OrphansHaveACause, UseInv, Next,
                      profile = "grown", profile' = "small",
                      NEW j \in Jobs, page[j] # NoContext, chrome[page[j]] = "open"
               PROVE  page[j] \in forgotten
    OBVIOUS
  <2> USE DEF jobVars, managerVars, chromeVars
  <2>1. Sweep
    <3>1. ASSUME NEW i \in Jobs, JobNext(i) PROVE FALSE
      BY <3>1 DEF JobNext, Ask, Recover, GetWarm, GetCold, Launched, LaunchFails,
                  Register, OpenPage, PageFails, PageFailsAgain, Dropped,
                  RunEnds, SetupFails
    <3> QED
      BY <3>1, NextSplits
         DEF OtherNext, Dies, CloseEvent, TimePasses, Collect, Collected
  <2>2. registry = NoContext /\ page[j] \in Contexts
    BY <2>1 DEF Sweep, IsNotOpen, Inv, TypeOK
  <2>3. ASSUME NEW i \in Jobs, Launching(i), ctx[i] = page[j]
        PROVE  FALSE
    BY <2>3 DEF Launching, UseInv
  <2> QED
    BY <2>2, <2>3, NamesAssumption DEF OrphansHaveACause
<1>2. Init => LockInv /\ OneAlive /\ OrphansHaveACause
  BY DEF Init, LockInv, LaunchesAlone, Launching, CollectorHoldsLock, Owners,
         OneAlive, Alive, OrphansHaveACause
<1> QED
  BY <1>1, <1>2, UseInit, SpecInv, LockStep, AliveStep, OrphanStep, UseStep, PTL
     DEF Spec, SweepSparesRuns


-----------------------------------------------------------------------------
(* No job goes round for ever. *)

\* The stages a job may go to from each stage, without and with a recovery.
Onward(from, to) ==
  \/ from = "idle" /\ to = "want"
  \/ from = "want" /\ to \in {"page", "launch"}
  \/ from = "launch" /\ to \in {"script", "error", "running"}
  \/ from = "script" /\ to = "page"
  \/ from = "page" /\ to \in {"running", "error"}
  \/ from = "closing" /\ to = "want"
  \/ from = "running" /\ to \in {"done", "error"}

\* What one step does to a job.
Steps(j) ==
  \/ pc'[j] = pc[j]
  \/ /\ Onward(pc[j], pc'[j])
     /\ recoveries'[j] = recoveries[j]
     /\ j \in retried' <=> (j \in retried /\ pc[j] # "idle")
  \/ /\ pc[j] = "page" /\ pc'[j] = "closing"
     /\ recoveries'[j] = recoveries[j]
     /\ j \notin retried /\ j \in retried'
  \/ /\ pc[j] = "running" /\ pc'[j] = "want"
     /\ recoveries[j] < MaxRecoveries /\ recoveries'[j] = recoveries[j] + 1

LEMMA EveryStepIsOne ==
  ASSUME TypeOK, [Next]_vars, NEW j \in Jobs
  PROVE  Steps(j)
<1> pc \in [Jobs -> Stages] /\ recoveries \in [Jobs -> 0..MaxRecoveries]
  BY DEF TypeOK
<1>1. ASSUME NEW i \in Jobs, NEW stage, i # j, At(i, stage)
      PROVE  Steps(j)
  BY <1>1 DEF At, Steps
<1>2. ASSUME NEW stage, At(j, stage), Onward(pc[j], stage),
             UNCHANGED recoveries,
             j \in retried' <=> (j \in retried /\ pc[j] # "idle")
      PROVE  Steps(j)
  BY <1>2 DEF At, Steps
<1>3. ASSUME UNCHANGED pc PROVE Steps(j)
  BY <1>3 DEF Steps
<1>4. ASSUME NEW i \in Jobs, JobNext(i) PROVE Steps(j)
  <2>1. \E stage : At(i, stage)
    BY <1>4 DEF JobNext, Ask, Recover, GetWarm, GetCold, Launched,
       LaunchFails, GiveUp, Register, OpenPage, PageFails, PageFailsAgain,
       Dropped, RunEnds, SetupFails
  <2>2. CASE i # j
    BY <1>1, <2>1, <2>2
  <2>3. CASE i = j
    <3>1. CASE Ask(j)
      BY <1>2, <3>1 DEF Ask, Onward
    <3>2. CASE Recover(j)
      BY <3>2 DEF Recover, At, Steps
    <3>3. CASE GetWarm(j)
      BY <1>2, <3>3 DEF GetWarm, Onward
    <3>4. CASE GetCold(j)
      BY <1>2, <3>4 DEF GetCold, Onward
    <3>5. CASE Launched(j)
      BY <1>2, <3>5 DEF Launched, Onward
    <3>6. CASE LaunchFails(j)
      <4>1. PICK stage \in {"error", "running"} : At(j, stage)
        BY <3>6 DEF LaunchFails, GiveUp
      <4> QED
        BY <1>2, <3>6, <4>1 DEF LaunchFails, Onward
    <3>7. CASE Register(j)
      BY <1>2, <3>7 DEF Register, Onward
    <3>8. CASE OpenPage(j)
      BY <1>2, <3>8 DEF OpenPage, Onward
    <3>9. CASE PageFails(j)
      BY <3>9 DEF PageFails, MayRetry, At, Steps
    <3>10. CASE PageFailsAgain(j)
      <4>1. PICK stage \in {"error", "running"} : At(j, stage)
        BY <3>10 DEF PageFailsAgain, GiveUp
      <4> QED
        BY <1>2, <3>10, <4>1 DEF PageFailsAgain, Onward
    <3>11. CASE Dropped(j)
      BY <1>2, <3>11 DEF Dropped, Onward
    <3>12. CASE RunEnds(j)
      BY <1>2, <3>12 DEF RunEnds, Onward
    <3>13. CASE SetupFails(j)
      BY <1>2, <3>13 DEF SetupFails, Onward
    <3> QED
      BY <1>4, <2>3, <3>1, <3>2, <3>3, <3>4, <3>5, <3>6, <3>7, <3>8, <3>9,
         <3>10, <3>11, <3>12, <3>13 DEF JobNext
  <2> QED
    BY <2>2, <2>3
<1>5. CASE OtherNext
  BY <1>3, <1>5 DEF OtherNext, CloseEvent, Collected, Dies, TimePasses,
     Collect, Sweep, jobVars
<1>6. CASE UNCHANGED vars
  BY <1>3, <1>6 DEF vars, jobVars
<1> QED
  BY <1>4, <1>5, <1>6, NextSplits

\* Pages that cannot be opened, launches that fail and crashes of the browser,
\* in any number and order, use up the job's second round and its recoveries.
THEOREM WindsDown == Spec => RunsWindDown
<1> DEFINE Down == \A j \in Jobs :
      pc'[j] # pc[j] => 0 <= Left(j)' /\ Left(j)' < Left(j)
<1>1. Inv /\ Inv' /\ [Next]_vars => [Down]_vars
  <2> SUFFICES ASSUME Inv, Inv', [Next]_vars, NEW j \in Jobs, pc'[j] # pc[j]
               PROVE  0 <= Left(j)' /\ Left(j)' < Left(j)
    OBVIOUS
  <2>1. /\ recoveries[j] \in Nat /\ recoveries[j] <= MaxRecoveries
        /\ recoveries'[j] \in Nat /\ recoveries'[j] <= MaxRecoveries
        /\ MaxRecoveries \in Nat
    BY RecoveriesAssumption DEF Inv, TypeOK
  <2>2. Steps(j)
    BY EveryStepIsOne DEF Inv
  <2>3. CASE /\ Onward(pc[j], pc'[j])
             /\ recoveries'[j] = recoveries[j]
             /\ j \in retried' <=> (j \in retried /\ pc[j] # "idle")
    <3>1. CASE j \in retried'
      BY <2>1, <2>3, <3>1 DEF Onward, Left, Rank, Asking
    <3>2. CASE j \notin retried'
      BY <2>1, <2>3, <3>2 DEF Onward, Left, Rank, Asking
    <3> QED
      BY <3>1, <3>2
  <2>4. CASE /\ pc[j] = "page" /\ pc'[j] = "closing"
             /\ recoveries'[j] = recoveries[j]
             /\ j \notin retried /\ j \in retried'
    BY <2>1, <2>4 DEF Left, Rank, Asking
  <2>5. CASE /\ pc[j] = "running" /\ pc'[j] = "want"
             /\ recoveries'[j] = recoveries[j] + 1
    BY <2>1, <2>5 DEF Left, Rank, Asking
  <2> QED
    BY <2>2, <2>3, <2>4, <2>5 DEF Steps
<1> QED
  BY <1>1, SpecInv, PTL DEF Spec, RunsWindDown

=============================================================================

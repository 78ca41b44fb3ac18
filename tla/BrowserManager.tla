--------------------------- MODULE BrowserManager ---------------------------
(***************************************************************************)
(* The persistent Chromium context of one user (BrowserManager in          *)
(* src/apps/browser-py): the jobs that ask it for a page, relaunch it and  *)
(* recover, the collector that closes it when it has been idle and trims   *)
(* the profile, and the browser that may end on its own.  Users share      *)
(* nothing but the collector's turn, so one of them is modelled.           *)
(*                                                                         *)
(* Assumed of Playwright and Chromium: a profile that is open in one       *)
(* process is refused to another, calls return or throw, and a close()     *)
(* that succeeds has delivered the close event.  A close() may throw with  *)
(* Chromium alive, and the event of a Chromium that died may come at any   *)
(* time, after the next launch too.  Not modelled: what is in the profile, *)
(* and close_all at the engine's end.                                      *)
(*                                                                         *)
(* Operators marked "a fault" are wrong versions of the definition that    *)
(* follows and are not part of the model.                                  *)
(***************************************************************************)
EXTENDS Naturals

CONSTANTS
  Jobs,           \* the runs of the user
  MaxRecoveries,  \* _MAX_RECOVERIES, pages a run may ask for again
  NoContext,
  Collector,      \* the collector as holder of the lock
  Nobody

\* Each call of new_page launches at most twice.
MaxLaunches == 2 * (MaxRecoveries + 1)

\* The context of a job's n-th launch.
Contexts == Jobs \X (1..MaxLaunches)

ASSUME RecoveriesAssumption == MaxRecoveries \in Nat
ASSUME NamesAssumption ==
  /\ NoContext \notin Contexts
  /\ Collector \notin Jobs /\ Nobody \notin Jobs /\ Collector # Nobody

VARIABLES
  pc,          \* where each job is
  ctx,         \* in new_page: the context it was given, or is launching
  page,        \* the context in which it has a page that is not closed
  retried,     \* the jobs whose call of new_page is in its second round
  recoveries,  \* _LiveSession.recoveries
  launches,    \* the number of launches by the job
  registry,    \* BrowserManager._contexts
  lastUsed,    \* BrowserManager._last_used
  lock,        \* the holder of the user's asyncio.Lock
  chrome,      \* the Chromium process of each context
  handled,     \* the contexts whose close handler has not fired
  events,      \* the number of close events on their way; the handler of each
               \* knows the user, not the context
  dropping,    \* the context whose close() a job, or the collector, awaits
  forgotten,   \* history: open contexts dropped by a close() that threw, or by
               \* the close event of another
  profile      \* the user's directory: grown when the collector has files to take

jobVars     == <<pc, ctx, page, retried, recoveries, launches>>
managerVars == <<registry, lastUsed, lock, dropping, forgotten>>
chromeVars  == <<chrome, handled, events, profile>>
vars == <<jobVars, managerVars, chromeVars>>

Stages == {"idle", "want", "launch", "script", "page", "closing", "running",
           "done", "error"}

\* The job is in a call of new_page, which takes minutes at most.
Asking == {"want", "launch", "script", "page", "closing"}

Owners == Jobs \cup {Collector}

Init ==
  /\ pc = [j \in Jobs |-> "idle"]
  /\ ctx = [j \in Jobs |-> NoContext]
  /\ page = [j \in Jobs |-> NoContext]
  /\ retried = {}
  /\ recoveries = [j \in Jobs |-> 0]
  /\ launches = [j \in Jobs |-> 0]
  /\ registry = NoContext
  /\ lastUsed = "none"
  /\ lock = Nobody
  /\ chrome = [c \in Contexts |-> "none"]
  /\ handled = {}
  /\ events = 0
  /\ dropping = [o \in Owners |-> NoContext]
  /\ forgotten = {}
  /\ profile = "small"

At(j, stage) == pc' = [pc EXCEPT ![j] = stage]

\* A fault: nobody waits for the lock.
LockIgnored == TRUE

LockFree == lock = Nobody

(***************************************************************************)
(* get_context                                                             *)
(***************************************************************************)

\* A job begins with new_page ...
Ask(j) ==
  /\ pc[j] = "idle"
  /\ At(j, "want")
  /\ retried' = retried \ {j}
  /\ UNCHANGED <<ctx, page, recoveries, launches, managerVars, chromeVars>>

\* ... and recover calls it again, up to _MAX_RECOVERIES times.
Recover(j) ==
  /\ pc[j] = "running"
  /\ recoveries[j] < MaxRecoveries
  /\ At(j, "want")
  /\ recoveries' = [recoveries EXCEPT ![j] = @ + 1]
  /\ retried' = retried \ {j}
  /\ UNCHANGED <<ctx, page, launches, managerVars, chromeVars>>

GetWarm(j) ==
  /\ pc[j] = "want"
  /\ LockFree
  /\ registry # NoContext
  /\ ctx' = [ctx EXCEPT ![j] = registry]
  /\ lastUsed' = "fresh"
  /\ At(j, "page")
  /\ UNCHANGED <<page, retried, recoveries, launches, registry, lock, dropping,
                 forgotten, chromeVars>>

GetCold(j) ==
  LET c == <<j, launches[j] + 1>> IN
  /\ pc[j] = "want"
  /\ LockFree
  /\ registry = NoContext
  /\ lock' = j
  /\ lastUsed' = "fresh"
  /\ launches' = [launches EXCEPT ![j] = @ + 1]
  /\ ctx' = [ctx EXCEPT ![j] = c]
  /\ chrome' = [chrome EXCEPT ![c] = "starting"]
  /\ At(j, "launch")
  /\ UNCHANGED <<page, retried, recoveries, registry, dropping, forgotten,
                 handled, events, profile>>

Alive(c) == chrome[c] \in {"open", "closing"}

\* launch_persistent_context returns; the script that hides the automation is
\* added next.
Launched(j) ==
  /\ pc[j] = "launch"
  /\ \A c \in Contexts : ~Alive(c)
  /\ chrome' = [chrome EXCEPT ![ctx[j]] = "open"]
  /\ At(j, "script")
  /\ UNCHANGED <<ctx, page, retried, recoveries, launches, managerVars, handled,
                 events, profile>>

\* new_page throws: the job ends, or, when it was called by recover, its run goes
\* on without a new page.
GiveUp(j) ==
  /\ At(j, IF recoveries[j] = 0 THEN "error" ELSE "running")
  /\ ctx' = [ctx EXCEPT ![j] = NoContext]

\* A fault: the lock stays taken when the launch throws.
LaunchFailsHolding(j) ==
  /\ pc[j] = "launch"
  /\ chrome' = [chrome EXCEPT ![ctx[j]] = "closed"]
  /\ GiveUp(j)
  /\ UNCHANGED <<page, retried, recoveries, launches, managerVars, handled,
                 events, profile>>

LaunchFails(j) ==
  /\ pc[j] = "launch"
  /\ chrome' = [chrome EXCEPT ![ctx[j]] = "closed"]
  /\ lock' = Nobody
  /\ GiveUp(j)
  /\ UNCHANGED <<page, retried, recoveries, launches, registry, lastUsed,
                 dropping, forgotten, handled, events, profile>>

\* The close handler is attached, too late for a context that has ended, and
\* get_context registers the context and returns it.
Register(j) ==
  /\ pc[j] = "script"
  /\ handled' = handled \cup ({ctx[j]} \cap {c \in Contexts : chrome[c] = "open"})
  /\ registry' = ctx[j]
  /\ lock' = Nobody
  /\ At(j, "page")
  /\ UNCHANGED <<ctx, page, retried, recoveries, launches, lastUsed, dropping,
                 forgotten, chrome, events, profile>>

(***************************************************************************)
(* Closing a context: close_user and what follows when close() returns.    *)
(***************************************************************************)

\* A fault: the context is forgotten, not closed.
ForgetUser(owner) ==
  /\ registry' = NoContext
  /\ lastUsed' = "none"
  /\ dropping' = [dropping EXCEPT ![owner] = registry]
  /\ UNCHANGED chrome

CloseUser(owner) ==
  /\ registry' = NoContext
  /\ lastUsed' = "none"
  /\ dropping' = [dropping EXCEPT ![owner] = registry]
  /\ chrome' = [c \in Contexts |-> IF c = registry /\ chrome[c] = "open"
                                   THEN "closing" ELSE chrome[c]]

\* The pages of a context end with it.
PagesEnd(c) ==
  page' = [j \in Jobs |-> IF page[j] = c THEN NoContext ELSE page[j]]

\* close() has returned, and before that the close event has reached its
\* handler; or it has thrown, and nobody is told that Chromium is still there.
Closed(owner) ==
  LET c == dropping[owner]
      pending == c # NoContext /\ chrome[c] = "closing"
  IN
  /\ dropping' = [dropping EXCEPT ![owner] = NoContext]
  /\ \/ /\ pending
        /\ chrome' = [chrome EXCEPT ![c] = "closed"]
        /\ registry' = IF c \in handled THEN NoContext ELSE registry
        /\ lastUsed' = IF c \in handled THEN "none" ELSE lastUsed
        /\ handled' = handled \ {c}
        /\ PagesEnd(c)
        /\ UNCHANGED forgotten
     \/ /\ pending
        /\ chrome' = [chrome EXCEPT ![c] = "open"]
        /\ forgotten' = forgotten \cup {c}
        /\ UNCHANGED <<registry, lastUsed, handled, page>>
     \/ /\ ~pending
        /\ UNCHANGED <<chrome, registry, lastUsed, handled, forgotten, page>>

\* Chromium ends on its own.
Dies(c) ==
  /\ chrome[c] = "open"
  /\ chrome' = [chrome EXCEPT ![c] = "closed"]
  /\ events' = IF c \in handled THEN events + 1 ELSE events
  /\ handled' = handled \ {c}
  /\ forgotten' = forgotten \ {c}
  /\ PagesEnd(c)
  /\ UNCHANGED <<pc, ctx, retried, recoveries, launches, registry, lastUsed,
                 lock, dropping, profile>>

\* _on_context_close forgets whatever is registered for the user, the context
\* that has ended or one launched since.
CloseEvent ==
  /\ events > 0
  /\ events' = events - 1
  /\ registry' = NoContext
  /\ lastUsed' = "none"
  /\ forgotten' = forgotten \cup {d \in Contexts : d = registry /\ chrome[d] = "open"}
  /\ UNCHANGED <<jobVars, lock, dropping, chrome, handled, profile>>

(***************************************************************************)
(* new_page after get_context, and the run                                 *)
(***************************************************************************)

\* The page of before a recovery is closed.  What the run loads into the new one
\* fills the profile.
OpenPage(j) ==
  /\ pc[j] = "page"
  /\ chrome[ctx[j]] = "open"
  /\ page' = [page EXCEPT ![j] = ctx[j]]
  /\ ctx' = [ctx EXCEPT ![j] = NoContext]
  /\ profile' = "grown"
  /\ At(j, "running")
  /\ UNCHANGED <<retried, recoveries, launches, managerVars, chrome, handled,
                 events>>

\* A fault: the relaunch is not limited to one.
AlwaysRetries(j) == TRUE

MayRetry(j) == j \notin retried

\* Any failure to open a page is taken for a dead context.
PageFails(j) ==
  /\ pc[j] = "page"
  /\ MayRetry(j)
  /\ CloseUser(j)
  /\ At(j, "closing")
  /\ ctx' = [ctx EXCEPT ![j] = NoContext]
  /\ retried' = retried \cup {j}
  /\ UNCHANGED <<page, recoveries, launches, lock, forgotten,
                 handled, events, profile>>

PageFailsAgain(j) ==
  /\ pc[j] = "page"
  /\ ~MayRetry(j)
  /\ GiveUp(j)
  /\ UNCHANGED <<page, retried, recoveries, launches, managerVars, chromeVars>>

Dropped(j) ==
  /\ pc[j] = "closing"
  /\ Closed(j)
  /\ At(j, "want")
  /\ UNCHANGED <<ctx, retried, recoveries, launches, lock, events, profile>>

\* The run ends and closes its page ...
RunEnds(j) ==
  /\ pc[j] = "running"
  /\ page' = [page EXCEPT ![j] = NoContext]
  /\ At(j, "done")
  /\ UNCHANGED <<ctx, retried, recoveries, launches, managerVars, chromeVars>>

\* ... which it does not when its stream or its input cannot be started.
SetupFails(j) ==
  /\ pc[j] = "running"
  /\ recoveries[j] = 0
  /\ At(j, "error")
  /\ UNCHANGED <<ctx, page, retried, recoveries, launches, managerVars, chromeVars>>

(***************************************************************************)
(* gc                                                                      *)
(***************************************************************************)

\* _CONTEXT_IDLE_S seconds pass, longer than any call of new_page.
TimePasses ==
  /\ lastUsed = "fresh"
  /\ \A j \in Jobs : pc[j] \notin Asking
  /\ lastUsed' = "old"
  /\ UNCHANGED <<jobVars, registry, lock, dropping, forgotten, chromeVars>>

\* A fault: one page more than the default one is not counted as a run.
InUseByTwo(c) ==
  \E i, j \in Jobs : i # j /\ page[i] = c /\ page[j] = c /\ chrome[c] = "open"

\* The context has a page besides the one it was launched with.
InUse(c) == chrome[c] = "open" /\ \E j \in Jobs : page[j] = c

Collect ==
  /\ registry # NoContext
  /\ lastUsed = "old"
  /\ LockFree
  /\ dropping[Collector] = NoContext
  /\ ~InUse(registry)
  /\ CloseUser(Collector)
  /\ lock' = Collector
  /\ UNCHANGED <<jobVars, forgotten, handled, events, profile>>

Collected ==
  /\ dropping[Collector] # NoContext
  /\ Closed(Collector)
  /\ lock' = Nobody
  /\ UNCHANGED <<pc, ctx, retried, recoveries, launches, events, profile>>

\* A fault: the directories of open contexts are not left out.
NoneIsOpen == TRUE

\* The profile is not among the open ones, as far as the registry goes.
IsNotOpen == registry = NoContext

\* Stage 2: a profile over the quota loses its caches, one over its age is deleted.
\* It follows on stage 1 without an await.
Sweep ==
  /\ dropping[Collector] = NoContext
  /\ IsNotOpen
  /\ profile = "grown"
  /\ profile' = "small"
  /\ UNCHANGED <<jobVars, managerVars, chrome, handled, events>>

-----------------------------------------------------------------------------

\* What the engine and Playwright go on with.
Progress ==
  \/ \E j \in Jobs : \/ GetWarm(j) \/ GetCold(j)
                     \/ Launched(j) \/ LaunchFails(j) \/ Register(j)
                     \/ OpenPage(j) \/ PageFails(j) \/ PageFailsAgain(j)
                     \/ Dropped(j)
  \/ CloseEvent \/ Collected

Environment ==
  \/ \E j \in Jobs : Ask(j) \/ Recover(j) \/ RunEnds(j) \/ SetupFails(j)
  \/ \E c \in Contexts : Dies(c)
  \/ TimePasses
  \/ Collect \/ Sweep

Next == Progress \/ Environment

Spec == Init /\ [][Next]_vars

\* The event loop runs what has become ready, and calls of Playwright return
\* or throw.  As a call of new_page has finitely many steps, no more is needed.
FairSpec == Spec /\ WF_vars(Progress)

-----------------------------------------------------------------------------

TypeOK ==
  /\ pc \in [Jobs -> Stages]
  /\ ctx \in [Jobs -> Contexts \cup {NoContext}]
  /\ page \in [Jobs -> Contexts \cup {NoContext}]
  /\ retried \subseteq Jobs
  /\ recoveries \in [Jobs -> 0..MaxRecoveries]
  /\ launches \in [Jobs -> 0..MaxLaunches]
  /\ registry \in Contexts \cup {NoContext}
  /\ lastUsed \in {"none", "fresh", "old"}
  /\ lock \in Jobs \cup {Collector, Nobody}
  /\ chrome \in [Contexts -> {"none", "starting", "open", "closing", "closed"}]
  /\ handled \subseteq Contexts
  /\ events \in Nat
  /\ dropping \in [Owners -> Contexts \cup {NoContext}]
  /\ forgotten \subseteq Contexts
  /\ profile \in {"small", "grown"}

Launching(j) == pc[j] \in {"launch", "script"}

\* "We keep exactly one context per user and guard creation with a per-user
\* asyncio lock": whoever launches is alone, holds the lock, and no context is
\* registered that the new one would replace (get_context, close_user, the close
\* handler and the collector all change the registry).
LaunchesAlone ==
  \A j \in Jobs : Launching(j) =>
    /\ lock = j
    /\ registry = NoContext
    /\ \A i \in Jobs \ {j} : ~Launching(i)

\* "One browser per user - no orphan Chromium processes" fails in two ways only:
\* close_user swallowed the exception of a close(), or the close event of an
\* earlier context came late and dropped its successor.  In every other order of
\* launches, deaths, drops and collections a Chromium that is open and that nobody
\* is closing is the registered one, or that of the job that still launches it.
OrphansHaveACause ==
  \A c \in Contexts : chrome[c] = "open" =>
    \/ registry = c
    \/ \E j \in Jobs : Launching(j) /\ ctx[j] = c
    \/ c \in forgotten

\* "Never touches a context that's in use": the collector closes no browser in
\* which a run has its page, or in which a job that was given it is about to open
\* one, although the idle time it goes by is that of the last call of get_context
\* and not of the page (gc).
CollectorSparesRuns ==
  [][\A j \in Jobs :
       dropping[Collector] = NoContext /\ dropping'[Collector] # NoContext =>
         /\ page[j] = registry => chrome[registry] # "open"
         /\ pc[j] = "page" => ctx[j] # registry]_vars

\* "On-disk GC over profiles that are NOT currently open": the collector goes by
\* the registry, which misses a context that is being launched or closed, and one
\* that was forgotten.  Files are taken from under a Chromium in which a run has
\* its page only in the last case: no run is at its page during a launch, and a
\* close that goes on is not a browser that goes on.
SweepSparesRuns ==
  [][profile = "grown" /\ profile' = "small" =>
       \A j \in Jobs : page[j] # NoContext /\ chrome[page[j]] = "open" =>
         page[j] \in forgotten]_vars

\* The stages from the last to the first, within one round of new_page.
Rank(stage) ==
  CASE stage = "running" -> 1
    [] stage = "page"    -> 2
    [] stage = "script"  -> 3
    [] stage = "launch"  -> 4
    [] stage = "want"    -> 5
    [] stage = "closing" -> 6
    [] stage = "idle"    -> 11
    [] OTHER             -> 0

\* An upper bound of the steps a job can still take: a second round of new_page
\* and the recoveries are to come.
Left(j) ==
  10 * (MaxRecoveries - recoveries[j])
    + (IF pc[j] \in Asking /\ j \notin retried THEN 5 ELSE 0) + Rank(pc[j])

\* Whatever happens to a job brings it closer to its end: browsers that die,
\* that other jobs drop or that the collector closes, before or after the job
\* was given them, do not make new_page and recover call each other for ever.
RunsWindDown ==
  [][\A j \in Jobs :
       pc'[j] # pc[j] => 0 <= Left(j)' /\ Left(j)' < Left(j)]_vars

\* A job that asks for a page gets one or learns that there is none, however
\* often the browser dies, is dropped by another job or is collected meanwhile.
EveryAskIsServed ==
  \A j \in Jobs : pc[j] = "want" ~> pc[j] \in {"running", "error"}

=============================================================================

------------------------- MODULE SessionAuthority -------------------------
(***************************************************************************)
(* SessionManagerService (agent/runtime/session-manager.service.ts): the   *)
(* in-memory map of live sessions.  Two owners write it.  The orchestrator *)
(* writes the gate, the browser runtime writes the browser state, and the  *)
(* authority derives the public execution state from the two, emits it on  *)
(* a change and persists it with an update nobody awaits.                  *)
(*                                                                         *)
(* A handler of the backend may write both states before it yields, so the *)
(* writes are operators on a session's record (WithGate, WithBrowser) that *)
(* other modules compose; the actions of this module let any owner call    *)
(* the authority at any moment.                                            *)
(***************************************************************************)
EXTENDS Naturals

CONSTANTS
  Sessions,     \* session ids
  MaxInFlight   \* bound: status updates of one session not yet applied

ASSUME MaxInFlightAssumption == MaxInFlight \in Nat

VARIABLES
  tracked,      \* the keys of the sessions map
  session,      \* the record of each tracked session
  inflight,     \* status updates issued by recompute and not yet applied
  db            \* ExecutionSession.status, "NONE" before the row exists

authVars == <<tracked, session, inflight, db>>

BrowserStates ==
  {"IDLE", "INITIALIZING", "READY", "RUNNING", "PAUSED", "STOPPED", "ERROR"}

GateStates == {"PLANNING", "PLAN_READY", "WAITING_APPROVAL", "CLEARED"}

ExecutionStates ==
  {"PLANNING", "PLAN_READY", "WAITING_APPROVAL", "BROWSER_INITIALIZING",
   "READY", "RUNNING", "PAUSED", "COMPLETED", "ERROR"}

\* The statuses the authority persists; the terminal ones are not its own.
LiveStatuses == {"PLANNING", "WAITING_APPROVAL", "RUNNING", "PAUSED"}
DbStatuses == LiveStatuses \cup {"NONE", "COMPLETED", "FAILED", "CANCELLED"}

\* A fault: an errored session may be revived.
RevivingTransitions ==
  [b \in BrowserStates |->
    IF b \in {"ERROR", "PAUSED"} THEN {"RUNNING"} ELSE BrowserStates]

\* A fault: a browser that was never launched may be declared live.
EagerTransitions ==
  [b \in BrowserStates |->
    IF b \in {"STOPPED", "ERROR"} THEN {} ELSE BrowserStates]

AllowedTransitions ==
  [b \in BrowserStates |->
    CASE b = "IDLE"         -> {"INITIALIZING", "READY", "STOPPED", "ERROR"}
      [] b = "INITIALIZING" -> {"READY", "RUNNING", "STOPPED", "ERROR"}
      [] b = "READY"        -> {"RUNNING", "PAUSED", "STOPPED", "ERROR"}
      [] b = "RUNNING"      -> {"PAUSED", "STOPPED", "ERROR"}
      [] b = "PAUSED"       -> {"RUNNING", "STOPPED", "ERROR"}
      [] OTHER              -> {}]

DeriveExecutionState(browser, gate) ==
  CASE gate = "WAITING_APPROVAL"  -> "WAITING_APPROVAL"
    [] browser = "INITIALIZING"   -> "BROWSER_INITIALIZING"
    [] browser = "STOPPED"        -> "COMPLETED"
    [] browser \in {"READY", "RUNNING", "PAUSED", "ERROR"} -> browser
    [] gate = "PLANNING"          -> "PLANNING"
    [] OTHER                      -> "PLAN_READY"

\* "NULL" for the states whose status the terminal writers own.
MapToDbStatus(exec) ==
  CASE exec \in {"WAITING_APPROVAL", "RUNNING", "PAUSED"} -> exec
    [] exec \in {"PLANNING", "PLAN_READY", "READY", "BROWSER_INITIALIZING"}
         -> "PLANNING"
    [] OTHER -> "NULL"

SessionRecords ==
  [browser     : BrowserStates,
   gate        : GateStates,
   aborting    : BOOLEAN,
   lastBrowser : BrowserStates \cup {"NONE"},
   lastExec    : ExecutionStates \cup {"NONE"}]

NewSession ==
  [browser |-> "IDLE", gate |-> "PLANNING", aborting |-> FALSE,
   lastBrowser |-> "NONE", lastExec |-> "NONE"]

-----------------------------------------------------------------------------
(* The writes, on one session's record.  An operator marked "a fault" is   *)
(* not part of the model: it is a wrong version of the one that follows.   *)

Recompute(rec) ==
  [rec EXCEPT !.lastBrowser = rec.browser,
              !.lastExec = DeriveExecutionState(rec.browser, rec.gate)]

\* A fault: the gate changes and nothing is derived.
SilentGate(rec, to) == [rec EXCEPT !.gate = to]

WithGate(rec, to) ==
  IF rec.gate = to THEN rec ELSE Recompute([rec EXCEPT !.gate = to])

WithBrowser(rec, to) ==
  IF to \in AllowedTransitions[rec.browser]
    THEN Recompute([rec EXCEPT !.browser = to])
    ELSE rec

\* The status update that the change from rec to new puts in flight.
Persist(pending, rec, new) ==
  LET status == MapToDbStatus(new.lastExec)
  IN  IF new.lastExec # rec.lastExec /\ new.lastExec # "NONE" /\ status # "NULL"
        THEN [pending EXCEPT ![status] = @ + 1]
        ELSE pending

\* One call on session s that leaves the record new: ignored when the map has
\* no such session.
Put(s, new) ==
  IF s \in tracked
    THEN /\ session' = [session EXCEPT ![s] = new]
         /\ inflight' = [inflight EXCEPT ![s] = Persist(@, session[s], new)]
    ELSE UNCHANGED <<session, inflight>>

\* Two calls in one turn of the event loop: first to mid, then to new.
PutTwice(s, mid, new) ==
  IF s \in tracked
    THEN /\ session' = [session EXCEPT ![s] = new]
         /\ inflight' = [inflight EXCEPT
              ![s] = Persist(Persist(@, session[s], mid), mid, new)]
    ELSE UNCHANGED <<session, inflight>>

Track(s) ==
  /\ tracked' = tracked \cup {s}
  /\ session' = [session EXCEPT ![s] = NewSession]

Untrack(s) ==
  /\ tracked' = tracked \ {s}
  /\ session' = [session EXCEPT ![s] = NewSession]

IsAborting(s) == s \in tracked /\ session[s].aborting

-----------------------------------------------------------------------------

NoUpdates == [status \in LiveStatuses |-> 0]

AuthInit ==
  /\ tracked = {}
  /\ session = [s \in Sessions |-> NewSession]
  /\ inflight = [s \in Sessions |-> NoUpdates]
  /\ db = [s \in Sessions |-> "PLANNING"]

Create(s) ==
  /\ s \notin tracked
  /\ Track(s)
  /\ UNCHANGED <<inflight, db>>

Delete(s) ==
  /\ s \in tracked
  /\ Untrack(s)
  /\ UNCHANGED <<inflight, db>>

SetAborting(s) ==
  /\ s \in tracked
  /\ session' = [session EXCEPT ![s].aborting = TRUE]
  /\ UNCHANGED <<tracked, inflight, db>>

SetGateState(s, to) ==
  /\ Put(s, WithGate(session[s], to))
  /\ UNCHANGED <<tracked, db>>

TransitionBrowserState(s, to) ==
  /\ Put(s, WithBrowser(session[s], to))
  /\ UNCHANGED <<tracked, db>>

\* An update reaches the database, in any order, or fails and is logged.
UpdateLands(s, status) ==
  /\ inflight[s][status] > 0
  /\ inflight' = [inflight EXCEPT ![s][status] = @ - 1]
  /\ db' \in {db, [db EXCEPT ![s] = status]}
  /\ UNCHANGED <<tracked, session>>

Pending(s) ==
  inflight[s]["PLANNING"] + inflight[s]["WAITING_APPROVAL"]
    + inflight[s]["RUNNING"] + inflight[s]["PAUSED"]

HasRoom(s) == Pending(s) < MaxInFlight

AuthNext ==
  \E s \in Sessions :
    \/ Create(s)
    \/ Delete(s)
    \/ SetAborting(s)
    \/ HasRoom(s) /\ \E to \in GateStates : SetGateState(s, to)
    \/ HasRoom(s) /\ \E to \in BrowserStates : TransitionBrowserState(s, to)
    \/ \E status \in LiveStatuses : UpdateLands(s, status)

AuthSpec == AuthInit /\ [][AuthNext]_authVars

-----------------------------------------------------------------------------
(* Properties. *)

\* Every variable has the shape the code gives it.
AuthTypeOK ==
  /\ tracked \subseteq Sessions
  /\ session \in [Sessions -> SessionRecords]
  /\ inflight \in [Sessions -> [LiveStatuses -> Nat]]
  /\ db \in [Sessions -> DbStatuses]

\* What a client was last told is what the two owners' states derive to:
\* no write of either owner can leave the room with a stale execution state.
EmittedIsCurrent ==
  \A s \in tracked :
    LET rec == session[s]
    IN  /\ rec.lastExec # "NONE" =>
             /\ rec.lastExec = DeriveExecutionState(rec.browser, rec.gate)
             /\ rec.lastBrowser = rec.browser
        /\ rec.lastExec = "NONE" => rec.browser = "IDLE" /\ rec.gate = "PLANNING"

\* STOPPED and ERROR are final: only deleting the session ends them.
TerminalBrowserIsFinal ==
  [][\A s \in tracked :
       session[s].browser \in {"STOPPED", "ERROR"} =>
         s \notin tracked' \/ session'[s].browser = session[s].browser]_authVars

=============================================================================

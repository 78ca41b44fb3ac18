---------------------- MODULE SessionAuthority_proofs ----------------------
(***************************************************************************)
(* Proofs about SessionAuthority for any set of sessions and any bound on  *)
(* the updates in flight.                                                  *)
(***************************************************************************)
EXTENDS SessionAuthority, TLAPS

\* What deriveExecutionState returns is an execution state.
LEMMA DeriveType ==
  ASSUME NEW browser \in BrowserStates, NEW gate \in GateStates
  PROVE  DeriveExecutionState(browser, gate) \in ExecutionStates
BY DEF DeriveExecutionState, BrowserStates, GateStates, ExecutionStates

\* mapToDbStatus yields a status of the authority's own, or nothing.
LEMMA MapType ==
  ASSUME NEW exec
  PROVE  MapToDbStatus(exec) \in LiveStatuses \cup {"NULL"}
BY DEF MapToDbStatus, LiveStatuses

\* What a client was last told agrees with a record's two states.
Current(rec) ==
  /\ rec.lastExec # "NONE" =>
       /\ rec.lastExec = DeriveExecutionState(rec.browser, rec.gate)
       /\ rec.lastBrowser = rec.browser
  /\ rec.lastExec = "NONE" => rec.browser = "IDLE" /\ rec.gate = "PLANNING"

\* A session starts well formed and current.
LEMMA NewSessionOK == NewSession \in SessionRecords /\ Current(NewSession)
BY DEF NewSession, SessionRecords, BrowserStates, GateStates, Current

\* recompute makes any record current.
LEMMA RecomputeOK ==
  ASSUME NEW rec \in SessionRecords
  PROVE  /\ Recompute(rec) \in SessionRecords
         /\ Recompute(rec).browser = rec.browser
         /\ Recompute(rec).gate = rec.gate
         /\ Recompute(rec).aborting = rec.aborting
         /\ Current(Recompute(rec))
<1>1. rec.browser \in BrowserStates /\ rec.gate \in GateStates
  BY DEF SessionRecords
<1>2. DeriveExecutionState(rec.browser, rec.gate) \in ExecutionStates
  BY <1>1, DeriveType
<1>3. "NONE" \notin ExecutionStates
  BY DEF ExecutionStates
<1> QED
  BY <1>1, <1>2, <1>3 DEF Recompute, SessionRecords, Current

\* A write of the gate keeps a record well formed and current, and leaves the
\* browser's state and the abort mark alone.
LEMMA WithGateOK ==
  ASSUME NEW rec \in SessionRecords, NEW to \in GateStates
  PROVE  /\ WithGate(rec, to) \in SessionRecords
         /\ WithGate(rec, to).browser = rec.browser
         /\ WithGate(rec, to).gate = to
         /\ WithGate(rec, to).aborting = rec.aborting
         /\ Current(rec) => Current(WithGate(rec, to))
<1>1. CASE rec.gate = to
  BY <1>1 DEF WithGate
<1>2. CASE rec.gate # to
  <2> DEFINE new == [rec EXCEPT !.gate = to]
  <2>1. /\ new \in SessionRecords
        /\ new.browser = rec.browser
        /\ new.gate = to
        /\ new.aborting = rec.aborting
    BY DEF SessionRecords
  <2>2. WithGate(rec, to) = Recompute(new)
    BY <1>2 DEF WithGate
  <2> HIDE DEF new
  <2> QED
    BY <2>1, <2>2, RecomputeOK
<1> QED
  BY <1>1, <1>2

\* A transition of the browser's state, accepted or not, keeps a record well
\* formed and current; it is refused when the table does not list it.
LEMMA WithBrowserOK ==
  ASSUME NEW rec \in SessionRecords, NEW to \in BrowserStates
  PROVE  /\ WithBrowser(rec, to) \in SessionRecords
         /\ WithBrowser(rec, to).browser =
              IF to \in AllowedTransitions[rec.browser] THEN to ELSE rec.browser
         /\ WithBrowser(rec, to).gate = rec.gate
         /\ WithBrowser(rec, to).aborting = rec.aborting
         /\ Current(rec) => Current(WithBrowser(rec, to))
<1>1. CASE to \notin AllowedTransitions[rec.browser]
  BY <1>1 DEF WithBrowser
<1>2. CASE to \in AllowedTransitions[rec.browser]
  <2> DEFINE new == [rec EXCEPT !.browser = to]
  <2>1. /\ new \in SessionRecords
        /\ new.browser = to
        /\ new.gate = rec.gate
        /\ new.aborting = rec.aborting
    BY DEF SessionRecords
  <2>2. WithBrowser(rec, to) = Recompute(new)
    BY <1>2 DEF WithBrowser
  <2> HIDE DEF new
  <2> QED
    BY <1>2, <2>1, <2>2, RecomputeOK
<1> QED
  BY <1>1, <1>2

\* At most one more update of one session is in flight.
LEMMA PersistOK ==
  ASSUME NEW pending \in [LiveStatuses -> Nat], NEW rec, NEW new
  PROVE  Persist(pending, rec, new) \in [LiveStatuses -> Nat]
BY MapType DEF Persist

-----------------------------------------------------------------------------

\* Each write of a session's record keeps the variables' types, whoever calls
\* the authority; the modules that compose these writes cite this.
LEMMA PutType ==
  ASSUME AuthTypeOK, NEW s \in Sessions, NEW new \in SessionRecords,
         Put(s, new)
  PROVE  /\ session' \in [Sessions -> SessionRecords]
         /\ inflight' \in [Sessions -> [LiveStatuses -> Nat]]
<1>1. Persist(inflight[s], session[s], new) \in [LiveStatuses -> Nat]
  BY PersistOK DEF AuthTypeOK
<1> QED
  BY <1>1 DEF AuthTypeOK, Put

LEMMA PutTwiceType ==
  ASSUME AuthTypeOK, NEW s \in Sessions, NEW mid, NEW new \in SessionRecords,
         PutTwice(s, mid, new)
  PROVE  /\ session' \in [Sessions -> SessionRecords]
         /\ inflight' \in [Sessions -> [LiveStatuses -> Nat]]
<1>1. Persist(inflight[s], session[s], mid) \in [LiveStatuses -> Nat]
  BY PersistOK DEF AuthTypeOK
<1>2. Persist(Persist(inflight[s], session[s], mid), mid, new)
        \in [LiveStatuses -> Nat]
  BY <1>1, PersistOK
<1> QED
  BY <1>2 DEF AuthTypeOK, PutTwice

\* So does an update that reaches the database or fails.
LEMMA LandType ==
  ASSUME AuthTypeOK, NEW s \in Sessions, NEW status \in LiveStatuses,
         UpdateLands(s, status)
  PROVE  AuthTypeOK'
<1>1. inflight[s][status] \in Nat /\ inflight[s][status] > 0
  BY DEF UpdateLands, AuthTypeOK
<1>2. inflight[s][status] - 1 \in Nat
  BY <1>1
<1>3. status \in DbStatuses
  BY DEF DbStatuses
<1>4. inflight' \in [Sessions -> [LiveStatuses -> Nat]]
  BY <1>2 DEF UpdateLands, AuthTypeOK
<1>5. db' \in [Sessions -> DbStatuses]
  BY <1>3 DEF UpdateLands, AuthTypeOK
<1> QED
  BY <1>4, <1>5 DEF UpdateLands, AuthTypeOK

-----------------------------------------------------------------------------

\* Every variable keeps the shape the code gives it.
THEOREM AuthTyping == AuthSpec => []AuthTypeOK
<1>1. AuthInit => AuthTypeOK
  BY NewSessionOK DEF AuthInit, AuthTypeOK, NoUpdates, DbStatuses, LiveStatuses
<1>2. AuthTypeOK /\ [AuthNext]_authVars => AuthTypeOK'
  <2> SUFFICES ASSUME AuthTypeOK, [AuthNext]_authVars PROVE AuthTypeOK'
    OBVIOUS
  <2>1. CASE UNCHANGED authVars
    BY <2>1 DEF authVars, AuthTypeOK
  <2>2. CASE AuthNext
    <3> PICK s \in Sessions :
          \/ Create(s)
          \/ Delete(s)
          \/ SetAborting(s)
          \/ HasRoom(s) /\ \E to \in GateStates : SetGateState(s, to)
          \/ HasRoom(s) /\ \E to \in BrowserStates :
                             TransitionBrowserState(s, to)
          \/ \E status \in LiveStatuses : UpdateLands(s, status)
      BY <2>2 DEF AuthNext
    <3> session[s] \in SessionRecords
      BY DEF AuthTypeOK
    <3>1. CASE Create(s)
      BY <3>1, NewSessionOK DEF Create, Track, AuthTypeOK
    <3>2. CASE Delete(s)
      BY <3>2, NewSessionOK DEF Delete, Untrack, AuthTypeOK
    <3>3. CASE SetAborting(s)
      <4>1. [session[s] EXCEPT !.aborting = TRUE] \in SessionRecords
        BY DEF SessionRecords
      <4>2. session' = [session EXCEPT
              ![s] = [session[s] EXCEPT !.aborting = TRUE]]
        BY <3>3 DEF SetAborting, AuthTypeOK
      <4> QED
        BY <3>3, <4>1, <4>2 DEF SetAborting, AuthTypeOK
    <3>4. ASSUME NEW to \in GateStates, SetGateState(s, to)
          PROVE  AuthTypeOK'
      <4>1. WithGate(session[s], to) \in SessionRecords
        BY WithGateOK
      <4>2. Put(s, WithGate(session[s], to))
        BY <3>4 DEF SetGateState
      <4> QED
        BY <3>4, <4>1, <4>2, PutType DEF SetGateState, AuthTypeOK
    <3>5. ASSUME NEW to \in BrowserStates, TransitionBrowserState(s, to)
          PROVE  AuthTypeOK'
      <4>1. WithBrowser(session[s], to) \in SessionRecords
        BY WithBrowserOK
      <4>2. Put(s, WithBrowser(session[s], to))
        BY <3>5 DEF TransitionBrowserState
      <4> QED
        BY <3>5, <4>1, <4>2, PutType DEF TransitionBrowserState, AuthTypeOK
    <3>6. ASSUME NEW status \in LiveStatuses, UpdateLands(s, status)
          PROVE  AuthTypeOK'
      BY <3>6, LandType
    <3> QED
      BY <3>1, <3>2, <3>3, <3>4, <3>5, <3>6
  <2> QED
    BY <2>1, <2>2
<1> QED
  BY <1>1, <1>2, PTL DEF AuthSpec

\* The inductive form of EmittedIsCurrent: it holds of every record, those of
\* deleted sessions included.
AllCurrent == \A s \in Sessions : Current(session[s])

\* Put replaces one record by a current one.
LEMMA PutCurrent ==
  ASSUME AuthTypeOK, AllCurrent, NEW s \in Sessions,
         NEW new \in SessionRecords, Current(new), Put(s, new)
  PROVE  AllCurrent'
<1> SUFFICES ASSUME NEW t \in Sessions PROVE Current(session'[t])
  BY DEF AllCurrent, Current
<1> QED
  BY DEF AllCurrent, Put, AuthTypeOK

\* No write of either owner leaves a client with a stale execution state.
THEOREM AuthCurrent == AuthSpec => []EmittedIsCurrent
<1>1. AuthInit => AllCurrent
  BY NewSessionOK DEF AuthInit, AllCurrent
<1>2. AuthTypeOK /\ AllCurrent /\ [AuthNext]_authVars => AllCurrent'
  <2> SUFFICES ASSUME AuthTypeOK, AllCurrent, [AuthNext]_authVars
               PROVE  AllCurrent'
    OBVIOUS
  <2>1. CASE UNCHANGED authVars
    BY <2>1 DEF authVars, AllCurrent, Current
  <2>2. ASSUME NEW s \in Sessions, Create(s) \/ Delete(s)
        PROVE  AllCurrent'
    <3> SUFFICES ASSUME NEW t \in Sessions PROVE Current(session'[t])
      BY DEF AllCurrent, Current
    <3> QED
      BY <2>2, NewSessionOK
         DEF Create, Delete, Track, Untrack, AllCurrent, AuthTypeOK
  <2>3. ASSUME NEW s \in Sessions, SetAborting(s)
        PROVE  AllCurrent'
    <3> SUFFICES ASSUME NEW t \in Sessions PROVE Current(session'[t])
      BY DEF AllCurrent, Current
    <3>1. session[t] \in SessionRecords /\ Current(session[t])
      BY DEF AuthTypeOK, AllCurrent
    <3>2. /\ session'[t].browser = session[t].browser
          /\ session'[t].gate = session[t].gate
          /\ session'[t].lastExec = session[t].lastExec
          /\ session'[t].lastBrowser = session[t].lastBrowser
      BY <2>3, <3>1 DEF SetAborting, AuthTypeOK, SessionRecords
    <3> QED
      BY <3>1, <3>2 DEF Current
  <2>4. ASSUME NEW s \in Sessions, NEW to \in GateStates, SetGateState(s, to)
        PROVE  AllCurrent'
    <3>1. session[s] \in SessionRecords /\ Current(session[s])
      BY DEF AuthTypeOK, AllCurrent
    <3> DEFINE new == WithGate(session[s], to)
    <3>2. new \in SessionRecords /\ Current(new)
      BY <3>1, WithGateOK
    <3>3. Put(s, new)
      BY <2>4 DEF SetGateState
    <3> QED
      BY <3>2, <3>3, PutCurrent
  <2>5. ASSUME NEW s \in Sessions, NEW to \in BrowserStates,
               TransitionBrowserState(s, to)
        PROVE  AllCurrent'
    <3>1. session[s] \in SessionRecords /\ Current(session[s])
      BY DEF AuthTypeOK, AllCurrent
    <3> DEFINE new == WithBrowser(session[s], to)
    <3>2. new \in SessionRecords /\ Current(new)
      BY <3>1, WithBrowserOK
    <3>3. Put(s, new)
      BY <2>5 DEF TransitionBrowserState
    <3> QED
      BY <3>2, <3>3, PutCurrent
  <2>6. ASSUME NEW s \in Sessions, NEW status \in LiveStatuses,
               UpdateLands(s, status)
        PROVE  AllCurrent'
    BY <2>6 DEF UpdateLands, AllCurrent, Current
  <2> QED
    BY <2>1, <2>2, <2>3, <2>4, <2>5, <2>6 DEF AuthNext
<1>3. AuthTypeOK /\ AllCurrent => EmittedIsCurrent
  BY DEF AuthTypeOK, AllCurrent, Current, EmittedIsCurrent
<1> QED
  BY <1>1, <1>2, <1>3, AuthTyping, PTL DEF AuthSpec

\* A write of a record whose browser is STOPPED or ERROR leaves it there.
LEMMA TerminalStays ==
  ASSUME NEW rec \in SessionRecords, rec.browser \in {"STOPPED", "ERROR"},
         NEW to \in BrowserStates
  PROVE  WithBrowser(rec, to).browser = rec.browser
<1>1. AllowedTransitions[rec.browser] = {}
  BY DEF AllowedTransitions, BrowserStates
<1> QED
  BY <1>1, WithBrowserOK

\* STOPPED and ERROR are final until the session is deleted.
THEOREM AuthFinality == AuthSpec => TerminalBrowserIsFinal
<1> DEFINE Final == \A s \in tracked :
      session[s].browser \in {"STOPPED", "ERROR"} =>
        s \notin tracked' \/ session'[s].browser = session[s].browser
<1>1. AuthTypeOK /\ [AuthNext]_authVars => [Final]_authVars
  <2> SUFFICES ASSUME AuthTypeOK, AuthNext,
                      NEW t \in tracked,
                      session[t].browser \in {"STOPPED", "ERROR"},
                      t \in tracked'
               PROVE  session'[t].browser = session[t].browser
    OBVIOUS
  <2>0. t \in Sessions /\ session[t] \in SessionRecords
    BY DEF AuthTypeOK
  <2>1. ASSUME NEW s \in Sessions,
               Create(s) \/ Delete(s) \/ SetAborting(s)
        PROVE  session'[t].browser = session[t].browser
    <3>1. CASE Create(s) \/ Delete(s)
      BY <2>0, <3>1 DEF Create, Delete, Track, Untrack, AuthTypeOK
    <3>2. CASE SetAborting(s)
      BY <2>0, <3>2 DEF SetAborting, AuthTypeOK, SessionRecords
    <3> QED
      BY <2>1, <3>1, <3>2
  <2>2. ASSUME NEW s \in Sessions, NEW to \in GateStates, SetGateState(s, to)
        PROVE  session'[t].browser = session[t].browser
    BY <2>0, <2>2, WithGateOK DEF SetGateState, Put, AuthTypeOK
  <2>3. ASSUME NEW s \in Sessions, NEW to \in BrowserStates,
               TransitionBrowserState(s, to)
        PROVE  session'[t].browser = session[t].browser
    BY <2>0, <2>3, TerminalStays DEF TransitionBrowserState, Put, AuthTypeOK
  <2>4. ASSUME NEW s \in Sessions, NEW status \in LiveStatuses,
               UpdateLands(s, status)
        PROVE  session'[t].browser = session[t].browser
    BY <2>4 DEF UpdateLands
  <2> QED
    BY <2>1, <2>2, <2>3, <2>4 DEF AuthNext
<1> QED
  BY <1>1, AuthTyping, PTL DEF AuthSpec, TerminalBrowserIsFinal

-----------------------------------------------------------------------------
(* What any owner's turn does to the record of a session; the modules that *)
(* compose the writes cite it. *)

\* The writes of one turn: what was emitted is what the new record derives to,
\* and a final state of the browser stays.
Follows(old, new) ==
  /\ Current(old) => Current(new)
  /\ old.browser \in {"STOPPED", "ERROR"} => new.browser = old.browser

LEMMA WritesFollow ==
  ASSUME NEW rec \in SessionRecords
  PROVE  /\ Follows(rec, rec)
         /\ \A to \in GateStates : Follows(rec, WithGate(rec, to))
         /\ \A to \in BrowserStates : Follows(rec, WithBrowser(rec, to))
         /\ Follows(rec, [rec EXCEPT !.aborting = TRUE])
<1>1. ASSUME NEW to \in GateStates PROVE Follows(rec, WithGate(rec, to))
  BY WithGateOK DEF Follows
<1>2. ASSUME NEW to \in BrowserStates PROVE Follows(rec, WithBrowser(rec, to))
  BY WithBrowserOK, TerminalStays DEF Follows
<1>3. Follows(rec, [rec EXCEPT !.aborting = TRUE])
  BY DEF Follows, Current, SessionRecords
<1> QED
  BY <1>1, <1>2, <1>3 DEF Follows

LEMMA FollowsOn ==
  ASSUME NEW a, NEW b, NEW c, Follows(a, b), Follows(b, c)
  PROVE  Follows(a, c)
BY DEF Follows

\* A session that stays in the map was written so; one that enters it is new.
Kept(s) ==
  s \in tracked' =>
    IF s \in tracked THEN Follows(session[s], session'[s])
    ELSE Current(session'[s])

LEMMA PutKeeps ==
  ASSUME AuthTypeOK, NEW s \in Sessions, NEW t \in Sessions, NEW mid, NEW new,
         UNCHANGED tracked, Put(s, new) \/ PutTwice(s, mid, new),
         Follows(session[s], new)
  PROVE  Kept(t)
BY WritesFollow DEF AuthTypeOK, Put, PutTwice, Kept

LEMMA PutGateKeeps ==
  ASSUME AuthTypeOK, NEW s \in Sessions, NEW t \in Sessions, NEW to \in GateStates,
         UNCHANGED tracked, Put(s, WithGate(session[s], to))
  PROVE  Kept(t)
BY WritesFollow, PutKeeps DEF AuthTypeOK

LEMMA PutBrowserKeeps ==
  ASSUME AuthTypeOK, NEW s \in Sessions, NEW t \in Sessions, NEW to \in BrowserStates,
         UNCHANGED tracked, Put(s, WithBrowser(session[s], to))
  PROVE  Kept(t)
BY WritesFollow, PutKeeps DEF AuthTypeOK

LEMMA SameKeeps ==
  ASSUME AuthTypeOK, NEW t \in Sessions, UNCHANGED <<tracked, session>>
  PROVE  Kept(t)
BY WritesFollow DEF AuthTypeOK, Kept

LEMMA MapKeeps ==
  ASSUME AuthTypeOK, NEW s \in Sessions, NEW t \in Sessions,
         Untrack(s) \/ (s \notin tracked /\ Track(s))
  PROVE  Kept(t)
<1>1. session \in [Sessions -> SessionRecords] /\ tracked \subseteq Sessions
  BY DEF AuthTypeOK
<1>2. CASE t = s
  <2>1. session'[s] = NewSession /\ (s \in tracked' => s \notin tracked)
    BY <1>1 DEF Track, Untrack
  <2> QED
    BY <1>2, <2>1, NewSessionOK DEF Kept
<1>3. CASE t # s
  <2>1. session'[t] = session[t] /\ (t \in tracked' <=> t \in tracked)
    BY <1>1, <1>3 DEF Track, Untrack
  <2>2. Follows(session[t], session[t])
    BY <1>1, WritesFollow
  <2> QED
    BY <2>1, <2>2 DEF Kept
<1> QED
  BY <1>2, <1>3

TrackedCurrent == \A s \in Sessions : s \in tracked => Current(session[s])

=============================================================================

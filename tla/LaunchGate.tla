---------------------------- MODULE LaunchGate ----------------------------
(***************************************************************************)
(* What the automation gate promises, without requests, timers or a        *)
(* browser: a run that is held launches only after the user consented, a   *)
(* run that is refused never launches, and a run launches at most once.    *)
(* ExecutionPipeline is shown to implement it.                             *)
(***************************************************************************)
CONSTANT Sessions

VARIABLES
  phase,     \* where each run stands with respect to its launch
  consent    \* the runs whose launch the user approved

gateVars == <<phase, consent>>

Phases == {"deciding", "held", "cleared", "refused", "launched", "ended"}

GateTypeOK ==
  /\ phase \in [Sessions -> Phases]
  /\ consent \subseteq Sessions

GateInit ==
  /\ phase = [s \in Sessions |-> "deciding"]
  /\ consent = {}

Move(s, from, to) ==
  /\ phase[s] \in from
  /\ phase' = [phase EXCEPT ![s] = to]

\* The gate holds the run, or clears it by itself.
Hold(s)  == Move(s, {"deciding"}, "held") /\ UNCHANGED consent
Clear(s) == Move(s, {"deciding"}, "cleared") /\ UNCHANGED consent

\* The user approves: the held run is cleared, or it ends because it was
\* cancelled meanwhile; an approval that comes too late changes nothing.
Approve(s) ==
  /\ consent' = consent \cup {s}
  /\ \/ Move(s, {"held"}, "cleared")
     \/ Move(s, {"held"}, "ended")
     \/ phase[s] \notin {"deciding", "held"} /\ UNCHANGED phase

\* The user denies or the request expires.
Refuse(s) == Move(s, {"held"}, "refused") /\ UNCHANGED consent

Launch(s) == Move(s, {"cleared"}, "launched") /\ UNCHANGED consent

\* Runs end without a launch: one that is blocked, simulated, cancelled or failed,
\* or any that are under way when the process ends.
End(runs) ==
  /\ \A s \in runs : phase[s] \in {"deciding", "held", "cleared", "refused"}
  /\ phase' = [s \in Sessions |-> IF s \in runs THEN "ended" ELSE phase[s]]
  /\ UNCHANGED consent

GateNext ==
  \/ \E s \in Sessions :
       Hold(s) \/ Clear(s) \/ Approve(s) \/ Refuse(s) \/ Launch(s)
  \/ \E runs \in SUBSET Sessions : End(runs)

GateSpec == GateInit /\ [][GateNext]_gateVars

=============================================================================

------------------------ MODULE MC_AutomatonRuntime ------------------------
(***************************************************************************)
(* The scheduler of an automaton, the inside of the turns it dispatches,   *)
(* and the strategy executions that turns begin and jobs reconcile.  What  *)
(* the three share, the lock of the turn and how turns and jobs overlap,   *)
(* each module keeps as it needs it; a behaviour exercises one of them,    *)
(* its scene, while the others stay in one initial state.                  *)
(***************************************************************************)
EXTENDS AutomatonRuntime, AgentTurn, StrategyExecution

VARIABLE scene

automatonVars == <<rtVars, agentVars, strategyVars, scene>>

MCLeaseTtl     == [k \in Kinds |-> IF k = "AgentTurn" THEN 2 ELSE 1]
MCCadence      == [t \in MortalityTiers |-> 1]
MCErrors       == {{"body too large"}}
MCObservations == {<<"Normal", "Active">>, <<"Critical", "Terminal">>}
MCCallCount    == [p \in {"enter", "exit"} |-> IF p = "enter" THEN 2 ELSE 1]

\* Where simulation is not required an execution is as one whose plan was simulated before, so
\* the policies that require it are enough.
AutomatonInit ==
  /\ scene \in {"scheduler", "turn", "strategy"}
  /\ RtInit
  /\ AgentInit /\ (scene = "turn" \/ provider = "direct")
  /\ StrategyInit /\ policy.simulate /\ (scene = "strategy" \/ policy.autonomous)

AutomatonNext ==
  /\ UNCHANGED scene
  /\ \/ scene = "scheduler" /\ RtNext /\ UNCHANGED <<agentVars, strategyVars>>
     \/ scene = "turn" /\ AgentNext /\ UNCHANGED <<rtVars, strategyVars>>
     \/ scene = "strategy" /\ StrategyNext /\ UNCHANGED <<rtVars, agentVars>>

AutomatonSpec == AutomatonInit /\ [][AutomatonNext]_automatonVars

\* The type invariant of the module in focus.  Of a turn it says too that a staged message
\* waits for callbacks a bounded number of turns: the wait is closed with a reply before the
\* count reaches its limit, whatever happened to the jobs it waited for.
AutomatonTypeOK ==
  /\ scene = "scheduler" => RtTypeOK
  /\ scene = "turn" => AgentTypeOK
  /\ scene = "strategy" => StrategyTypeOK

=============================================================================

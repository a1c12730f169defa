----------------------------- MODULE Mortality -----------------------------
(***************************************************************************)
(* The automaton's mortality: the tier of its resources with hysteresis,   *)
(* and the phases from Alive to Dead with one terminal turn in between     *)
(* (domain/mortality.rs and the mortality section of storage/stable.rs).   *)
(* An operator takes the mortality runtime m and returns the next one.     *)
(***************************************************************************)
EXTENDS Naturals

MortalityTiers  == {"Active", "Conserving", "Hibernating", "Terminal", "Dead"}

MortalityPhases == {"Alive", "TerminalPending", "TerminalInProgress", "Dead"}

MortalityRecoveryChecks == 3

Severity(tier) ==
  CASE tier = "Active" -> 0 [] tier = "Conserving" -> 1 [] tier = "Hibernating" -> 2
    [] tier = "Terminal" -> 3 [] tier = "Dead" -> 4

PhaseRank(phase) ==
  CASE phase = "Alive" -> 0 [] phase = "TerminalPending" -> 1
    [] phase = "TerminalInProgress" -> 2 [] phase = "Dead" -> 3

MortalityRuntime == [tier : MortalityTiers, phase : MortalityPhases,
                     candidate : MortalityTiers \cup {"None"},
                     checks : 0 .. MortalityRecoveryChecks - 1, turn : Nat]

Newborn == [tier |-> "Active", phase |-> "Alive", candidate |-> "None", checks |-> 0, turn |-> 0]

SettleTier(m, tier) == [m EXCEPT !.tier = tier, !.candidate = "None", !.checks = 0]

\* observe_tier: worse at once, better after three observations of the same tier in a row.
ObserveTier(m, observed) ==
  LET checks == IF m.candidate = observed THEN m.checks + 1 ELSE 1
  IN  IF m.phase # "Alive" \/ m.tier = "Dead" THEN m
      ELSE IF Severity(observed) >= Severity(m.tier) THEN SettleTier(m, observed)
      ELSE IF checks >= MortalityRecoveryChecks THEN SettleTier(m, observed)
      ELSE [m EXCEPT !.candidate = observed, !.checks = checks]

\* observe_mortality_resources, without the cadence it sets.
ObserveMortality(m, observed) ==
  LET seen == ObserveTier(m, observed)
  IN  IF m.phase = "Dead" THEN m
      ELSE IF seen.tier = "Terminal" /\ seen.phase = "Alive"
           THEN [seen EXCEPT !.phase = "TerminalPending"] ELSE seen

\* A mutant of BeginTerminalTurn: the automaton is dead when its last turn begins.
BeginTerminalTurnDead(m, turn) ==
  IF m.phase # "TerminalPending" THEN m
  ELSE [m EXCEPT !.phase = "Dead", !.turn = turn]

BeginTerminalTurn(m, turn) ==
  IF m.phase # "TerminalPending" THEN m
  ELSE [m EXCEPT !.phase = "TerminalInProgress", !.turn = turn]

\* The completion counts only for the turn that was begun as the terminal one.
CompletesTerminalTurn(m, turn) == m.phase = "TerminalInProgress" /\ m.turn = turn

CompleteTerminalTurn(m, turn) ==
  IF ~CompletesTerminalTurn(m, turn) THEN m
  ELSE [m EXCEPT !.phase = "Dead", !.tier = "Dead"]

=============================================================================

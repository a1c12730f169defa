------------------------- MODULE ConstitutionDrift -------------------------
(***************************************************************************)
(* validate_constitution_mutation of the spawn protocol: a child's         *)
(* constitution may differ from its parent's by at most a fixed share of   *)
(* the longer of the two.  The edit distance is computed row by row in a   *)
(* band around the diagonal, and the scan stops as soon as a whole row is  *)
(* over the threshold.                                                     *)
(***************************************************************************)
EXTENDS Naturals, Sequences, FiniteSetsExt

CONSTANTS
  Letters,     \* the characters of the texts tried
  MaxText,     \* bound: the longest text tried
  MaxEditBps   \* MAX_CONSTITUTION_EDIT_DISTANCE_BPS

ASSUME DriftAssumption == MaxText \in Nat /\ MaxEditBps \in 0..9999

\* The two texts, the row of the table reached, its cells, and the verdict.
VARIABLE drift

driftVars == <<drift>>

Texts == UNION {[1..n -> Letters] : n \in 0..MaxText}

\* The number of edits allowed between the two texts.
Threshold(parent, child) ==
  (Max({Len(parent), Len(child), 1}) * MaxEditBps) \div 10000

\* What a cell outside the band counts as: one edit too many.
Sentinel(parent, child) == Threshold(parent, child) + 1

FirstRow(parent, child) ==
  [column \in 0..Len(child) |->
     IF column <= Threshold(parent, child) THEN column ELSE Sentinel(parent, child)]

\* A mutant of Band: one column too narrow on the right.
NarrowBand(parent, child, row) ==
  LET reach == Threshold(parent, child)
      first == IF row > reach THEN Max({row - reach, 1}) ELSE 1
      last  == Min({Len(child), row + reach}) - 1
  IN  first..last

\* The columns of a row that an accepted edit path can pass through.
Band(parent, child, row) ==
  LET reach == Threshold(parent, child)
      first == IF row > reach THEN Max({row - reach, 1}) ELSE 1
      last  == Min({Len(child), row + reach})
  IN  first..last

Substitution(parent, child, row, column) ==
  IF parent[row] = child[column] THEN 0 ELSE 1

\* The row after previous.
NextRow(parent, child, row, previous) ==
  LET cell[column \in 0..Len(child)] ==
        CASE column = 0 /\ row <= Threshold(parent, child) -> row
          [] column \in Band(parent, child, row) ->
               Min({previous[column] + 1,
                    cell[column - 1] + 1,
                    previous[column - 1] + Substitution(parent, child, row, column)})
          [] OTHER -> Sentinel(parent, child)
  IN  cell

\* The smallest cell of the band; cells left of it do not count.
RowMin(parent, child, row, cells) ==
  Min({Sentinel(parent, child)} \cup {cells[c] : c \in Band(parent, child, row)})

Scanning(parent, child) ==
  drift = [parent |-> parent, child |-> child, row |-> 0,
           cells |-> FirstRow(parent, child), verdict |-> "scanning", distance |-> 0]

DriftInit == \E parent, child \in Texts : Scanning(parent, child)

LengthGap(parent, child) ==
  IF Len(parent) > Len(child) THEN Len(parent) - Len(child) ELSE Len(child) - Len(parent)

\* Lengths further apart than the threshold are refused unread.
TooFarApart ==
  /\ drift.verdict = "scanning" /\ drift.row = 0
  /\ LengthGap(drift.parent, drift.child) > Threshold(drift.parent, drift.child)
  /\ drift' = [drift EXCEPT !.verdict = "refused"]

\* One row of the table, refused when the whole band is over the threshold.
ScanRow ==
  LET row  == drift.row + 1
      next == NextRow(drift.parent, drift.child, row, drift.cells)
      over == RowMin(drift.parent, drift.child, row, next)
                > Threshold(drift.parent, drift.child)
  IN  /\ drift.verdict = "scanning"
      /\ LengthGap(drift.parent, drift.child) <= Threshold(drift.parent, drift.child)
      /\ row <= Len(drift.parent)
      /\ drift' = [drift EXCEPT !.row = row, !.cells = next,
                                !.verdict = IF over THEN "refused" ELSE @]

\* The last cell of the last row is the distance.
ReadDistance ==
  LET distance == drift.cells[Len(drift.child)]
      close    == distance <= Threshold(drift.parent, drift.child)
  IN  /\ drift.verdict = "scanning" /\ drift.row = Len(drift.parent)
      /\ LengthGap(drift.parent, drift.child) <= Threshold(drift.parent, drift.child)
      /\ drift' = [drift EXCEPT !.verdict = IF close THEN "accepted" ELSE "refused",
                                !.distance = IF close THEN distance ELSE @]

DriftNext == TooFarApart \/ ScanRow \/ ReadDistance

DriftSpec == DriftInit /\ [][DriftNext]_driftVars

DriftTypeOK ==
  /\ drift.parent \in Texts /\ drift.child \in Texts
  /\ drift.row \in 0..MaxText
  /\ drift.verdict \in {"scanning", "accepted", "refused"}
  /\ drift.distance \in 0..MaxText

\* The edit distances of the beginnings of two texts by their definition.
EditTable(parent, child) ==
  LET d[at \in (0..Len(parent)) \X (0..Len(child))] ==
        LET i == at[1]
            j == at[2]
        IN  CASE i = 0 -> j
              [] j = 0 -> i
              [] OTHER -> Min({d[<<i - 1, j>>] + 1, d[<<i, j - 1>>] + 1,
                               d[<<i - 1, j - 1>>] + IF parent[i] = child[j] THEN 0 ELSE 1})
  IN  d

EditDistance(parent, child) == EditTable(parent, child)[<<Len(parent), Len(child)>>]

\* The banded scan with its early exits accepts exactly the mutations whose true edit
\* distance is within the share allowed, and returns that distance: neither the cells
\* left out of the band nor the row-minimum test ever changes the answer
\* (validate_constitution_mutation; its own test compares a few pairs only).
BandIsExact ==
  LET distance == EditDistance(drift.parent, drift.child)
      allowed  == (Max({Len(drift.parent), Len(drift.child), 1}) * MaxEditBps) \div 10000
  IN  /\ drift.verdict = "accepted" => distance <= allowed /\ drift.distance = distance
      /\ drift.verdict = "refused" => distance > allowed

=============================================================================

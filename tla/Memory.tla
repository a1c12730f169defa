------------------------------- MODULE Memory -------------------------------
(***************************************************************************)
(* What an automaton remembers: facts, goals, plans, lessons from failed   *)
(* tools, a public journal, and the records of its work.  Every table is   *)
(* bounded, by evicting when something is added or by the retention pass,  *)
(* which prunes what is old in batches and sums up the turns it deletes.   *)
(* The steps of one turn and a retention pass never interleave: each is    *)
(* one message, so an action is a tool, an end of turn or a pass.          *)
(***************************************************************************)
EXTENDS Naturals, FiniteSets, FiniteSetsExt

CONSTANTS Stems,          \* the keys of facts up to the last segment; "config" is critical
          MaxFacts,       \* MAX_MEMORY_FACTS
          MaxGoals,       \* MAX_GOALS, and MAX_PLANS
          MaxLessons,     \* MAX_REFLECTION_MEMORY_RECORDS
          MaxJournal,     \* MAX_JOURNAL_ENTRIES
          MaxSteps,       \* bound: steps of a plan
          MaxAge,         \* the ages after which a record may be pruned
          PruneBatch,     \* maintenance_batch_size
          WindowLength,   \* SUMMARY_WINDOW_NS
          MaxMemoryTime,  \* bound: clock
          MaxMemoryOps    \* bound: tools called and turns recorded

ASSUME MemoryAssumption ==
  /\ MaxSteps \in Nat \ {0} /\ MaxJournal \in Nat \ {0}
  /\ MaxFacts \in Nat /\ MaxLessons \in Nat /\ MaxMemoryTime \in Nat

VARIABLES facts,      \* memory_facts
          goals,
          plans,
          lessons,    \* reflection_memory
          journal,    \* the ids of its entries
          records,    \* turns, jobs and inbox messages
          summaries,  \* turn_window_summaries: turns deleted, by window
          instant,    \* clock
          passed,     \* next_run_after_ns of the retention
          recorded,   \* history: turns recorded, by window
          published,  \* history: journal entries so far
          table,      \* bound: the table a behaviour writes
          ops         \* bound

memoryVars == <<facts, goals, plans, lessons, journal, records, summaries, instant, passed,
                recorded, published, table, ops>>

Instants == 0..MaxMemoryTime
Windows  == 0..(MaxMemoryTime \div WindowLength)

\* A key is a stem and a last segment, which may be a timestamp.
Keys == Stems \X {"plain", "latest"}

GoalIds      == {"g", "h"}
PlanStatuses == {"active", "paused", "completed", "abandoned"}
StepStatuses == {"pending", "in_progress", "completed", "failed", "skipped"}
Plan         == [id : GoalIds, status : PlanStatuses, step : 1..MaxSteps,
                 steps : [1..MaxSteps -> StepStatuses], at : Instants]

\* What a call was about: an endpoint, a host, a method or the prefix of a key.
Subjects == {"x", "y"}

MemoryTypeOK ==
  /\ facts \subseteq [key : Keys, at : Instants] /\ Cardinality(facts) <= MaxFacts
  /\ goals \subseteq [id : GoalIds, status : {"active", "completed", "abandoned"}, at : Instants]
  /\ plans \subseteq Plan
  /\ lessons \subseteq [subject : Subjects, failed : Instants, worked : BOOLEAN, at : Instants]
  /\ Cardinality(lessons) <= MaxLessons /\ Cardinality(journal) <= MaxJournal
  /\ summaries \in [Windows -> Nat] /\ recorded \in [Windows -> Nat]

MemoryInit ==
  /\ facts = {} /\ goals = {} /\ plans = {} /\ lessons = {} /\ journal = {} /\ records = {}
  /\ summaries = [w \in Windows |-> 0] /\ recorded = [w \in Windows |-> 0]
  /\ instant = 0 /\ passed = 0 /\ published = 0 /\ ops = 0
  /\ table \in {"facts", "goals", "plans", "lessons", "journal", "records"}

Uses(name) == table = name /\ ops < MaxMemoryOps /\ ops' = ops + 1 /\ UNCHANGED table

\* The selections of at most n of the oldest, ties broken either way.
OldestOf(rows, n) ==
  {T \in SUBSET rows : /\ Cardinality(T) = Min({n, Cardinality(rows)})
                       /\ \A t \in T, u \in rows \ T : t.at <= u.at}

(***************************************************************************)
(* Facts.                                                                  *)
(***************************************************************************)
\* A key that ends in a timestamp is the latest observation of its stem.
Canonical(stem, segment) == <<stem, IF segment = "timestamp" THEN "latest" ELSE segment>>

Critical(fact) == fact.key[1] = "config"

\* set_memory_fact makes room among the facts that are not critical.
Evictable(stored) == {f \in stored : ~Critical(f)}

\* remember: a known key is updated; a new one may evict the oldest fact, or is refused.
Remember(stem, segment) ==
  LET key == Canonical(stem, segment)
      old == {f \in facts : f.key = key}
      new == [key |-> key, at |-> instant]
  IN  /\ Uses("facts")
      /\ IF old # {} \/ Cardinality(facts) < MaxFacts
           THEN facts' = (facts \ old) \cup {new}
           ELSE IF Evictable(facts) = {} THEN UNCHANGED facts
           ELSE \E out \in OldestOf(Evictable(facts), 1) : facts' = (facts \ out) \cup {new}
      /\ UNCHANGED <<goals, plans, lessons, journal, records, summaries, instant, passed,
                     recorded, published>>

Forget(stem, segment) ==
  /\ Uses("facts") /\ facts' = {f \in facts : f.key # Canonical(stem, segment)}
  /\ UNCHANGED <<goals, plans, lessons, journal, records, summaries, instant, passed,
                 recorded, published>>

(***************************************************************************)
(* Goals and plans.                                                        *)
(***************************************************************************)
Finished(row) == row.status \in {"completed", "abandoned"}

Known(rows, row) == {r \in rows : r.id = row.id}

Upserted(rows, row) == (rows \ Known(rows, row)) \cup {row}

\* A new row at the limit replaces the oldest finished one; active ones are never evicted, so
\* the table grows past the limit when all are.
Stores(rows, row) ==
  IF Known(rows, row) # {} \/ Cardinality(rows) < MaxGoals THEN {Upserted(rows, row)}
  ELSE {Upserted(rows \ out, row) : out \in OldestOf({r \in rows : Finished(r)}, 1)}

SetGoal(id) ==
  /\ Uses("goals")
  /\ goals' \in Stores(goals, [id |-> id, status |-> "active", at |-> instant])
  /\ UNCHANGED <<facts, plans, lessons, journal, records, summaries, instant, passed, recorded,
                 published>>

\* update_goal ends a goal; set_goal is the way to take it up again.
UpdateGoal(goal, status) ==
  /\ Uses("goals") /\ goal \in goals /\ status # "active"
  /\ goals' \in Stores(goals, [goal EXCEPT !.status = status, !.at = instant])
  /\ UNCHANGED <<facts, plans, lessons, journal, records, summaries, instant, passed, recorded,
                 published>>

\* create_plan starts at the first step, also for a plan that is under way.
CreatePlan(id) ==
  /\ Uses("plans")
  /\ plans' \in Stores(plans, [id |-> id, status |-> "active", step |-> 1, at |-> instant,
                               steps |-> [s \in 1..MaxSteps |-> "pending"]])
  /\ UNCHANGED <<facts, goals, lessons, journal, records, summaries, instant, passed, recorded,
                 published>>

\* What lets a plan go on to its next step.
StepOver(status) == status \in {"completed", "skipped"}

\* The plan after its current step got a status: on to the next one, or at its end.
Advanced(plan, status) ==
  LET marked == [plan EXCEPT !.steps[plan.step] = status, !.at = instant]
  IN  CASE ~StepOver(status) -> marked
        [] StepOver(status) /\ plan.step = MaxSteps -> [marked EXCEPT !.status = "completed"]
        [] OTHER -> [marked EXCEPT !.step = @ + 1, !.steps[plan.step + 1] = "in_progress"]

\* advance_plan_step; a plan_status other than active replaces the one that follows.
AdvancePlan(plan, status, override) ==
  /\ Uses("plans") /\ plan \in plans /\ plan.status = "active"
  /\ LET next == Advanced(plan, status)
     IN  plans' \in Stores(plans, IF override = "active" THEN next
                                  ELSE [next EXCEPT !.status = override])
  /\ UNCHANGED <<facts, goals, lessons, journal, records, summaries, instant, passed, recorded,
                 published>>

(***************************************************************************)
(* Lessons and the journal.                                                *)
(***************************************************************************)
FreshLesson(lesson) == lesson.at + MaxAge >= instant

\* prune_reflection_memory: what is too old, then the oldest beyond the limit.
Pruned(rows) ==
  LET fresh == {l \in rows : FreshLesson(l)}
      excess == IF Cardinality(fresh) > MaxLessons THEN Cardinality(fresh) - MaxLessons ELSE 0
  IN  {fresh \ T : T \in OldestOf(fresh, excess)}

\* The lessons of the calls a turn made about a subject.
Lessons(subject) == {l \in lessons : l.subject = subject}

\* A degraded turn: what failed is noted, what worked before is kept.
LessonFailed(subject) ==
  LET old == Lessons(subject)
  IN  /\ Uses("lessons")
      /\ lessons' \in Pruned((lessons \ old) \cup
           {[subject |-> subject, failed |-> instant, at |-> instant,
             worked |-> \E l \in old : l.worked]})
      /\ UNCHANGED <<facts, goals, plans, journal, records, summaries, instant, passed, recorded,
                     published>>

\* A call that worked is noted with the lessons of its subject.
LessonWorked(subject) ==
  LET old == Lessons(subject)
  IN  /\ Uses("lessons") /\ old # {}
      /\ lessons' \in Pruned((lessons \ old) \cup
           {[l EXCEPT !.worked = TRUE, !.at = instant] : l \in old})
      /\ UNCHANGED <<facts, goals, plans, journal, records, summaries, instant, passed, recorded,
                     published>>

NextEntry(ids) == IF ids = {} THEN 1 ELSE Max(ids) + 1

\* A mutant of Kept: no entry is dropped.
KeptAll(ids) == ids

\* The newest entries are kept.
Kept(ids) == {i \in ids : Cardinality({j \in ids : j > i}) < MaxJournal}

AppendJournal ==
  /\ Uses("journal") /\ journal' = Kept(journal \cup {NextEntry(journal)})
  /\ published' = published + 1
  /\ UNCHANGED <<facts, goals, plans, lessons, records, summaries, instant, passed, recorded>>

(***************************************************************************)
(* Records and their retention.                                            *)
(***************************************************************************)
Window(at) == at \div WindowLength

\* The end of a turn, a job or a message; a job that runs and a message that waits are open.
Record(kind, open) ==
  /\ Uses("records") /\ (kind = "turn" => ~open)
  /\ records' = records \cup {[kind |-> kind, id |-> ops, at |-> instant, open |-> open]}
  /\ recorded' = IF kind = "turn" THEN [recorded EXCEPT ![Window(instant)] = @ + 1] ELSE recorded
  /\ UNCHANGED <<facts, goals, plans, lessons, journal, summaries, instant, passed, published>>

CloseRecord(r) ==
  /\ r \in records /\ r.open /\ records' = (records \ {r}) \cup {[r EXCEPT !.open = FALSE]}
  /\ UNCHANGED <<facts, goals, plans, lessons, journal, summaries, instant, passed, recorded,
                 published, table, ops>>

\* Older than the cutoff and done with.
Prunable(kind) == {r \in records : r.kind = kind /\ ~r.open /\ r.at + MaxAge < instant}

\* A mutant of Summaries: what a window held before is replaced.
SummariesAnew(turns) ==
  [w \in Windows |-> LET n == Cardinality({t \in turns : Window(t.at) = w})
                     IN  IF n > 0 THEN n ELSE summaries[w]]

\* The summary of a window counts the turns of this batch and of the earlier ones.
Summaries(turns) ==
  [w \in Windows |-> summaries[w] + Cardinality({t \in turns : Window(t.at) = w})]

\* Stale facts are pruned by age alone, critical or not.
StaleFacts == {f \in facts : f.at + MaxAge < instant}

\* run_retention_maintenance_if_due.
Retention ==
  /\ passed <= instant /\ passed' = instant + 1
  /\ \E turns \in OldestOf(Prunable("turn"), PruneBatch),
        jobs \in OldestOf(Prunable("job"), PruneBatch),
        inbox \in OldestOf(Prunable("inbox"), PruneBatch) :
       records' = records \ (turns \cup jobs \cup inbox) /\ summaries' = Summaries(turns)
  /\ \E stale \in OldestOf(StaleFacts, PruneBatch) : facts' = facts \ stale
  /\ lessons' \in Pruned(lessons)
  /\ UNCHANGED <<goals, plans, journal, instant, recorded, published, table, ops>>

MemoryTime ==
  /\ instant < MaxMemoryTime /\ instant' = instant + 1
  /\ UNCHANGED <<facts, goals, plans, lessons, journal, records, summaries, passed, recorded,
                 published, table, ops>>

MemoryNext ==
  \/ \E stem \in Stems, segment \in {"plain", "timestamp"} :
       Remember(stem, segment) \/ Forget(stem, segment)
  \/ \E id \in GoalIds : SetGoal(id) \/ CreatePlan(id)
  \/ \E goal \in goals, status \in {"completed", "abandoned"} : UpdateGoal(goal, status)
  \/ \E plan \in plans, status \in StepStatuses, override \in PlanStatuses :
       AdvancePlan(plan, status, override)
  \/ \E subject \in Subjects : LessonFailed(subject) \/ LessonWorked(subject)
  \/ \E kind \in {"turn", "job", "inbox"}, open \in BOOLEAN : Record(kind, open)
  \/ \E r \in records : CloseRecord(r)
  \/ AppendJournal \/ Retention \/ MemoryTime

MemorySpec == MemoryInit /\ [][MemoryNext]_memoryVars

(***************************************************************************)
(* Properties.                                                             *)
(***************************************************************************)
\* No turn is forgotten: of every window the turns still stored and the turns its summary
\* counts are the turns that were recorded, however the passes cut a window into batches.
\* The id of a journal entry is never given again, although old entries are dropped.  And a
\* plan is worked off in order: every step before the current one was completed or skipped,
\* and no step after it was touched.
MemoryAccounted ==
  /\ \A w \in Windows :
       recorded[w] = summaries[w]
                       + Cardinality({r \in records : r.kind = "turn" /\ Window(r.at) = w})
  /\ journal # {} => Max(journal) = published
  /\ \A plan \in plans : \A s \in 1..MaxSteps :
       /\ s < plan.step => plan.steps[s] \in {"completed", "skipped"}
       /\ s > plan.step => plan.steps[s] = "pending"

=============================================================================

--------------------------- MODULE FactoryBirths ---------------------------
(***************************************************************************)
(* The factory's registry of automatons and the sessions that lead to it:  *)
(* human spawn sessions, reproduction by a registered automaton (admitted  *)
(* after two RPC calls, in which anything else may happen), the strategy   *)
(* repository sessions choose from, the chain and pause settings, and the  *)
(* two ways a death is recorded.  Payment and spawn execution are one step *)
(* here; PaymentScan and SpawnExecution give their detail.                 *)
(***************************************************************************)
EXTENDS Naturals, Sequences, FiniteSets, FiniteSetsExt

CONSTANTS
  StrategyIds,      \* repository strategies
  ChainIds,         \* positive chain ids; 0 stands for an unset child chain
  MinAge,           \* REPRODUCTION_MIN_AGE_MS
  Cooldown,         \* REPRODUCTION_COOLDOWN_MS
  SessionTtl,       \* session_ttl_ms
  MinGross,         \* platform fee, creation cost and the least endowment
  Reserves,         \* what a parent must keep: terminal, inference and top-up reserves
  MaxAsking,        \* bound: reproduction calls under way
  MaxSessions,      \* bound: sessions
  MaxChanges,       \* bound: administrative adminCalls, retries and deaths
  MaxFactoryTime    \* bound: the clock

ASSUME BirthAssumption ==
  /\ MinAge \in Nat /\ Cooldown \in Nat /\ SessionTtl \in Nat /\ MaxFactoryTime \in Nat
  /\ ChainIds \subseteq Nat \ {0} /\ ChainIds # {}

VARIABLES
  repository,   \* status of each repository strategy
  settings,     \* child_runtime.evm_chain_id, release chain id, pause
  sessions,     \* spawn sessions; session i gives birth to automaton i
  registry,     \* registered automatons
  requests,       \* create_reproduction_session calls awaiting the RPC
  adminCalls,      \* counts administrative adminCalls, retries and deaths
  today         \* the clock

birthVars == <<repository, settings, sessions, registry, requests, adminCalls, today>>

\* A strategy's status in the repository; the founding session chose every seed.
Statuses == {"Absent", "Active", "Deprecated", "Revoked"}

Human == 0
NewSession(origin, generation, chosen, chain, at) ==
  [origin |-> origin, generation |-> generation, chosen |-> chosen, chain |-> chain,
   created |-> at, expires |-> at + SessionTtl, state |-> "AwaitingPayment"]

NewRecord(parent, generation, at) ==
  [parent |-> parent, generation |-> generation, created |-> at, children |-> {},
   death |-> "alive", incident |-> "none"]

\* apply_factory_init_args: one chain for children and releases, not paused.
InitialSettings == [child |-> Min(ChainIds), release |-> Min(ChainIds), pause |-> FALSE]

\* The founder: a completed human session and its registered automaton.
BirthInit ==
  /\ repository \in [StrategyIds -> {"Absent", "Active"}]
  /\ settings = InitialSettings
  /\ sessions = <<[NewSession(Human, 0, {}, Min(ChainIds), 0) EXCEPT !.state = "Complete"]>>
  /\ registry = [i \in {1} |-> NewRecord(Human, 0, 0)]
  /\ requests = {} /\ adminCalls = 0 /\ today = 0

-----------------------------------------------------------------------------
(* Administration. *)

Change == adminCalls < MaxChanges /\ adminCalls' = adminCalls + 1

\* The recipe must name the strategy it is filed under; so it is for protocol, primitive and
\* canonical chain, and an undecodable recipe names nothing.
RecipeMatches(id, recipe) == recipe = id

\* A new record is active; an existing id is refused.
AddRepositoryStrategy(id, recipe) ==
  /\ Change /\ repository[id] = "Absent" /\ RecipeMatches(id, recipe)
  /\ repository' = [repository EXCEPT ![id] = "Active"]
  /\ UNCHANGED <<settings, sessions, registry, requests, today>>

\* Only an active strategy is deprecated.
DeprecateRepositoryStrategy(id) ==
  /\ Change /\ repository[id] = "Active"
  /\ repository' = [repository EXCEPT ![id] = "Deprecated"]
  /\ UNCHANGED <<settings, sessions, registry, requests, today>>

RevokeRepositoryStrategy(id) ==
  /\ Change /\ repository[id] \in {"Active", "Deprecated"}
  /\ repository' = [repository EXCEPT ![id] = "Revoked"]
  /\ UNCHANGED <<settings, sessions, registry, requests, today>>

\* A release chain is mirrored to the children's chain when that one is set.
SetReleaseBroadcastConfig(chain) ==
  /\ Change
  /\ settings' = [settings EXCEPT !.release = chain,
                                  !.child = IF @ = 0 THEN 0 ELSE chain]
  /\ UNCHANGED <<repository, sessions, registry, requests, today>>

\* The children's chain, when set, is mirrored to the release chain.
SetChildRuntimeConfig(chain) ==
  /\ Change
  /\ settings' = [settings EXCEPT !.child = chain,
                                  !.release = IF chain = 0 THEN @ ELSE chain]
  /\ UNCHANGED <<repository, sessions, registry, requests, today>>

SetPause(paused) ==
  /\ Change /\ settings' = [settings EXCEPT !.pause = paused]
  /\ UNCHANGED <<repository, sessions, registry, requests, today>>

-----------------------------------------------------------------------------
(* Sessions. *)

\* canonical_deployment_chain_id refuses a child chain other than the release chain.
ChainAgreed == settings.child = 0 \/ settings.child = settings.release

\* Every chosen strategy must be active now; its chain is resolved now.
Selectable(chosen) == \A id \in chosen : repository[id] = "Active"

ResolvedChain == IF settings.child = 0 THEN Min(ChainIds) ELSE settings.child

CanCreate(chosen) == ~settings.pause /\ ChainAgreed /\ Selectable(chosen)

CreateSpawnSession(chosen) ==
  /\ Len(sessions) < MaxSessions /\ CanCreate(chosen)
  /\ sessions' = Append(sessions, NewSession(Human, 0, chosen, ResolvedChain, today))
  /\ UNCHANGED <<repository, settings, registry, requests, adminCalls, today>>

\* Payment, spawn and release: the child is registered and linked to its parent, once.
CompleteSession(i) ==
  /\ sessions[i].state = "AwaitingPayment"
  /\ sessions' = [sessions EXCEPT ![i].state = "Complete"]
  /\ LET parent == sessions[i].origin
         linked == IF parent \in DOMAIN registry
                     THEN [registry EXCEPT ![parent].children = @ \cup {i}]
                     ELSE registry
         born == NewRecord(parent, sessions[i].generation, today)
     IN  registry' = [j \in DOMAIN registry \cup {i} |-> IF j = i THEN born ELSE linked[j]]
  /\ UNCHANGED <<repository, settings, requests, adminCalls, today>>

\* A paid session whose spawn failed keeps its place.
FailSession(i) ==
  /\ sessions[i].state = "AwaitingPayment"
  /\ sessions' = [sessions EXCEPT ![i].state = "Failed"]
  /\ UNCHANGED <<repository, settings, registry, requests, adminCalls, today>>

\* A retry starts the expiry again.
RetryFailedSession(i) ==
  /\ Change /\ sessions[i].state = "Failed"
  /\ sessions' = [sessions EXCEPT ![i].state = "AwaitingPayment",
                                  ![i].expires = today + SessionTtl]
  /\ UNCHANGED <<repository, settings, registry, requests, today>>

ExpireSession(i) ==
  /\ sessions[i].state \notin {"Complete", "Expired"} /\ today > sessions[i].expires
  /\ sessions' = [sessions EXCEPT ![i].state = "Expired"]
  /\ UNCHANGED <<repository, settings, registry, requests, adminCalls, today>>

-----------------------------------------------------------------------------
(* Reproduction. *)

\* A mutant of Reproductions: births only are counted, not the sessions that lead to them.
ReproductionsBorn(parent) ==
  {i \in DOMAIN sessions : sessions[i].origin = parent /\ sessions[i].state = "Complete"}

\* The sessions the cooldown scan counts: every one not expired, whatever became of it.
Reproductions(parent) ==
  {i \in DOMAIN sessions : sessions[i].origin = parent /\ sessions[i].state # "Expired"}

Since(at, then) == IF at > then THEN at - then ELSE 0

OldEnough(parent, at) == Since(at, registry[parent].created) >= MinAge

\* Since the last of them, that is, since each of them.
CooledDown(parent, at) ==
  \A i \in Reproductions(parent) : Since(at, sessions[i].created) >= Cooldown

\* reproduction_eligibility, the query an automaton asks first.
Eligible(parent, at) ==
  /\ registry[parent].death = "alive" /\ OldEnough(parent, at) /\ CooledDown(parent, at)

\* The balance the factory read must leave the reserves after the payment.
Funded(gross, balance) == gross >= MinGross /\ balance >= gross + Reserves

\* The caller is looked up, then token and balance are read over RPC.
AskReproduction(parent) ==
  /\ Cardinality(requests) < MaxAsking
  /\ LET n == Min((1..MaxAsking) \ {r.n : r \in requests})
     IN  requests' = requests \cup {[n |-> n, parent |-> parent, at |-> today]}
  /\ UNCHANGED <<repository, settings, sessions, registry, adminCalls, today>>

\* The balance arrived.  Everything is checked against the state of this moment and the
\* time of the call; the child inherits its parent's configuration.
AdmitReproduction(r, gross, balance) ==
  LET chosen == sessions[r.parent].chosen
  IN  /\ r \in requests /\ Len(sessions) < MaxSessions
      /\ Eligible(r.parent, r.at) /\ Funded(gross, balance) /\ CanCreate(chosen)
      /\ sessions' = Append(sessions,
           NewSession(r.parent, registry[r.parent].generation + 1, chosen,
                      ResolvedChain, r.at))
      /\ requests' = requests \ {r}
      /\ UNCHANGED <<repository, settings, registry, adminCalls, today>>

RefuseReproduction(r) ==
  /\ r \in requests /\ requests' = requests \ {r}
  /\ UNCHANGED <<repository, settings, sessions, registry, adminCalls, today>>

-----------------------------------------------------------------------------
(* Deaths and time. *)

\* The automaton's own report; starvation replaces an infrastructure death.
ReportDeath(i) ==
  /\ Change /\ registry[i].death # "starved"
  /\ registry' = [registry EXCEPT ![i].death = "starved", ![i].incident = "none"]
  /\ UNCHANGED <<repository, settings, sessions, requests, today>>

\* The admin's report, with a public incident reference; the first one stays.
RecordInfrastructureDeath(i, incident) ==
  /\ Change /\ registry[i].death = "alive"
  /\ registry' = [registry EXCEPT ![i].death = "infrastructure", ![i].incident = incident]
  /\ UNCHANGED <<repository, settings, sessions, requests, today>>

BirthTick ==
  /\ today < MaxFactoryTime /\ today' = today + 1
  /\ UNCHANGED <<repository, settings, sessions, registry, requests, adminCalls>>

BirthNext ==
  \/ \E id \in StrategyIds :
        \/ \E recipe \in StrategyIds \cup {"undecodable"} : AddRepositoryStrategy(id, recipe)
        \/ DeprecateRepositoryStrategy(id)
        \/ RevokeRepositoryStrategy(id)
  \/ \E chain \in ChainIds : SetReleaseBroadcastConfig(chain)
  \/ \E chain \in ChainIds \cup {0} : SetChildRuntimeConfig(chain)
  \/ \E paused \in BOOLEAN : SetPause(paused)
  \/ \E chosen \in SUBSET StrategyIds : CreateSpawnSession(chosen)
  \/ \E i \in DOMAIN sessions :
        CompleteSession(i) \/ FailSession(i) \/ RetryFailedSession(i) \/ ExpireSession(i)
  \/ \E parent \in DOMAIN registry : AskReproduction(parent)
  \/ \E r \in requests :
        \/ \E gross \in {MinGross - 1, MinGross}, balance \in {MinGross, MinGross + Reserves} :
              AdmitReproduction(r, gross, balance)
        \/ RefuseReproduction(r)
  \/ \E i \in DOMAIN registry :
        ReportDeath(i) \/ RecordInfrastructureDeath(i, "https://incident")
  \/ BirthTick

BirthSpec == BirthInit /\ [][BirthNext]_birthVars

BirthTypeOK ==
  /\ repository \in [StrategyIds -> Statuses]
  /\ settings.child \in ChainIds \cup {0} /\ settings.release \in ChainIds
  /\ DOMAIN registry \subseteq DOMAIN sessions
  /\ \A r \in requests : r.parent \in DOMAIN registry /\ r.at <= today
  /\ today \in 0..MaxFactoryTime

\* Two sessions of one parent that are still good for a child were asked for at least
\* the cooldown apart, however many calls of the parent were waiting for the RPC at once
\* and whatever was paid, failed, retried or expired meanwhile; and a registered child
\* is one generation below its parent, which lists it (the comment in
\* create_reproduction_session_with_verified_balance: concurrent attempts see the
\* admitted session through the cooldown scan).
CooldownKept ==
  /\ \A i, j \in DOMAIN sessions :
       (i # j /\ sessions[i].origin = sessions[j].origin /\ sessions[i].origin # Human
          /\ sessions[i].state # "Expired" /\ sessions[j].state # "Expired"
          /\ sessions[i].created <= sessions[j].created)
         => sessions[j].created >= sessions[i].created + Cooldown
  /\ \A i \in DOMAIN registry :
       registry[i].parent # Human =>
         /\ i \in registry[registry[i].parent].children
         /\ registry[i].generation = registry[registry[i].parent].generation + 1

=============================================================================

---------------------------- MODULE AuthorityProofs ----------------------------
(***************************************************************************)
(* Theorems about what an automaton may be made to do: the revocation of a *)
(* strategy (StrategyRegistry), the answers of the discovery worker        *)
(* (StrategyDiscovery), the commands of the steward (Steward) and the      *)
(* calldata of a strategy action (AbiLayout), for any keys, functions,     *)
(* watchlists, identities, calls, types, values and bounds.  The last      *)
(* section puts them together with the subsystems of EffectsProofs and     *)
(* FactoryProofs: all that MC_AutomatonEffects composes.                   *)
(***************************************************************************)
EXTENDS MC_AutomatonEffects, EffectsProofs, FactoryProofs, TableLemmas, FiniteSetTheorems,
        TLAPS

(***************************************************************************)
(* Revocation.  Status and activation of a revoked template do change      *)
(* again; what stands is that its record stays behind.                     *)
(***************************************************************************)
RegistryInv == withdrawn \subseteq revoked

\* No registration, ingestion, activation or switch takes a revocation record away.
LEMMA RegistryStep == RegistryInv /\ [RegistryNext]_registryVars => RegistryInv'
<1> SUFFICES ASSUME RegistryInv, [RegistryNext]_registryVars PROVE RegistryInv'
  OBVIOUS
<1>1. ASSUME NEW k \in TemplateKeys, NEW functions, NEW content,
             Register(k, functions, content)
      PROVE  RegistryInv'
  BY <1>1 DEF RegistryInv, Register
<1>2. ASSUME NEW k \in TemplateKeys, NEW status, NEW content,
             IngestTemplate(k, status, content)
      PROVE  RegistryInv'
  BY <1>2 DEF RegistryInv, IngestTemplate
<1>3. ASSUME NEW functions, IngestAbi(functions) PROVE RegistryInv'
  BY <1>3 DEF RegistryInv, IngestAbi
<1>4. ASSUME NEW k \in TemplateKeys, Activate(k) \/ Deprecate(k) \/ KillSwitch(k)
      PROVE  RegistryInv'
  BY <1>4 DEF RegistryInv, Activate, Deprecate, KillSwitch
<1>5. ASSUME NEW k \in TemplateKeys, Revoke(k) PROVE RegistryInv'
  BY <1>5 DEF RegistryInv, Revoke
<1>6. CASE UNCHANGED registryVars
  BY <1>6 DEF RegistryInv, registryVars
<1> QED BY <1>1, <1>2, <1>3, <1>4, <1>5, <1>6 DEF RegistryNext

\* A revocation a controller or a steward was told of stands: no later registration of the
\* template from a recipe makes a plan of it executable again.
THEOREM RevocationStandsAlways == RegistrySpec => []RevocationStands
<1>1. RegistryInit => RegistryInv
  BY DEF RegistryInit, RegistryInv
<1>2. RegistryInv => RevocationStands
  BY DEF RegistryInv, RevocationStands, Executable
<1> QED BY <1>1, <1>2, RegistryStep, PTL DEF RegistrySpec

\* A template that is there has a status, its calls and whether it is sound.
TemplateRecords == [status : TemplateStatuses, calls : SUBSET Functions, sound : BOOLEAN]

RegistryFits ==
  /\ templates \in [TemplateKeys -> TemplateRecords] /\ abi \subseteq Functions
  /\ activation \in [TemplateKeys -> {"none", "on", "off"}]
  /\ revoked \subseteq TemplateKeys /\ killed \subseteq TemplateKeys
  /\ withdrawn \subseteq TemplateKeys /\ changes \in 0..MaxRegistrations

\* A template is stored with the calls of its content.
LEMMA StoredFits ==
  ASSUME NEW status \in TemplateStatuses, NEW content \in Contents
  PROVE  Stored(status, content) \in TemplateRecords
  BY DEF Stored, Contents, TemplateRecords

\* A change is counted up to the bound.
LEMMA ChangesCount ==
  ASSUME RegistryFits, Changes
  PROVE  changes' \in 0..MaxRegistrations
  BY RegistryAssumption DEF RegistryFits, Changes

\* A status is changed of a template there is.
LEMMA SetStatusFits ==
  ASSUME RegistryFits, NEW k \in TemplateKeys, NEW status \in TemplateStatuses, SetStatus(k, status)
  PROVE  templates' \in [TemplateKeys -> TemplateRecords]
<1>1. templates \in [TemplateKeys -> TemplateRecords] /\ templates[k] \in TemplateRecords
  BY DEF RegistryFits
<1> DEFINE t == [templates[k] EXCEPT !.status = status]
<1>2. t \in TemplateRecords
  BY <1>1 DEF TemplateRecords
<1>3. templates' = [templates EXCEPT ![k] = t]
  BY DEF SetStatus
<1> HIDE DEF t
<1> QED BY <1>1, <1>2, <1>3

\* Every template has one of the statuses and every activation is one of the three, for any
\* keys, functions and number of registrations (register_from_recipe, upsert_template_status).
THEOREM RegistryTyped == RegistrySpec => []RegistryTypeOK
<1>1. RegistryInit => RegistryFits
  BY RegistryAssumption DEF RegistryInit, RegistryFits, NoTemplate, TemplateRecords, TemplateStatuses
<1>2. ASSUME RegistryFits, [RegistryNext]_registryVars
      PROVE  RegistryFits'
  <2>1. ASSUME NEW k \in TemplateKeys, NEW functions \in SUBSET Functions, NEW content \in Contents,
               Register(k, functions, content)
        PROVE  RegistryFits'
    <3> DEFINE compiled == Compiles(content, functions)
               t == Stored(IF compiled THEN "Active" ELSE "Draft", content)
               a == IF compiled THEN "on" ELSE activation[k]
    <3>1. /\ changes' \in 0..MaxRegistrations /\ abi' = functions /\ UNCHANGED <<revoked, killed, withdrawn>>
          /\ \/ UNCHANGED <<templates, activation>>
             \/ templates' = [templates EXCEPT ![k] = t] /\ activation' = [activation EXCEPT ![k] = a]
      BY <1>2, <2>1, ChangesCount DEF Register
    <3> HIDE DEF compiled
    <3>2. t \in TemplateRecords /\ a \in {"none", "on", "off"}
      BY <1>2, StoredFits DEF TemplateStatuses, RegistryFits
    <3> HIDE DEF t, a
    <3>3. /\ templates' \in [TemplateKeys -> TemplateRecords]
          /\ activation' \in [TemplateKeys -> {"none", "on", "off"}]
      BY <1>2, <3>1, <3>2 DEF RegistryFits
    <3> QED BY <1>2, <3>1, <3>3 DEF RegistryFits
  <2>2. ASSUME NEW k \in TemplateKeys, NEW status \in TemplateStatuses \ {"none"},
               NEW content \in Contents, IngestTemplate(k, status, content)
        PROVE  RegistryFits'
    <3>1. /\ changes' \in 0..MaxRegistrations /\ UNCHANGED <<abi, activation, revoked, killed, withdrawn>>
          /\ templates' = [templates EXCEPT ![k] = Stored(status, content)]
      BY <1>2, <2>2, ChangesCount DEF IngestTemplate
    <3>2. templates' \in [TemplateKeys -> TemplateRecords]
      BY <1>2, <3>1, StoredFits DEF RegistryFits
    <3> QED BY <1>2, <3>1, <3>2 DEF RegistryFits
  <2>3. ASSUME NEW k \in TemplateKeys, Activate(k) \/ Deprecate(k) \/ Revoke(k)
        PROVE  RegistryFits'
    <3>1. templates' \in [TemplateKeys -> TemplateRecords]
      BY <1>2, <2>3, SetStatusFits DEF Activate, Deprecate, Revoke, TemplateStatuses
    <3>2. changes' \in 0..MaxRegistrations
      BY <1>2, <2>3, ChangesCount DEF Activate, Deprecate, Revoke
    <3>3. /\ UNCHANGED <<abi, killed>>
          /\ \E a \in {"on", "off", activation[k]} : activation' = [activation EXCEPT ![k] = a]
      BY <2>3 DEF Activate, Deprecate, Revoke
    <3>4. revoked' \subseteq revoked \cup {k} /\ withdrawn' \subseteq withdrawn \cup {k}
      BY <2>3 DEF Activate, Deprecate, Revoke
    <3>5. activation' \in [TemplateKeys -> {"none", "on", "off"}]
      BY <1>2, <3>3 DEF RegistryFits
    <3> QED BY <1>2, <3>1, <3>2, <3>3, <3>4, <3>5 DEF RegistryFits
  <2>4. ASSUME NEW k \in TemplateKeys, KillSwitch(k)
        PROVE  RegistryFits'
    <3>1. /\ changes' \in 0..MaxRegistrations /\ killed' \subseteq killed \cup {k}
          /\ UNCHANGED <<templates, abi, activation, revoked, withdrawn>>
      BY <1>2, <2>4, ChangesCount DEF KillSwitch
    <3> QED BY <1>2, <3>1 DEF RegistryFits
  <2>5. ASSUME NEW functions \in SUBSET Functions, IngestAbi(functions)
        PROVE  RegistryFits'
    <3>1. /\ changes' \in 0..MaxRegistrations /\ abi' = functions
          /\ UNCHANGED <<templates, activation, revoked, killed, withdrawn>>
      BY <1>2, <2>5, ChangesCount DEF IngestAbi
    <3> QED BY <1>2, <3>1 DEF RegistryFits
  <2>6. CASE UNCHANGED registryVars
    BY <1>2, <2>6 DEF registryVars, RegistryFits
  <2> QED BY <1>2, <2>1, <2>2, <2>3, <2>4, <2>5, <2>6 DEF RegistryNext
<1>3. RegistryFits => RegistryTypeOK
  <2> SUFFICES ASSUME RegistryFits PROVE RegistryTypeOK
    OBVIOUS
  <2>1. \A k \in TemplateKeys : templates[k].status \in TemplateStatuses
    BY DEF RegistryFits, TemplateRecords
  <2> QED BY <2>1 DEF RegistryFits, RegistryTypeOK
<1>4. RegistryFits /\ [RegistryNext]_registryVars => RegistryFits'
  BY <1>2
<1> QED BY <1>1, <1>3, <1>4, PTL DEF RegistrySpec

(***************************************************************************)
(* Discovery.  A job is pending only with the watchlist it was asked for,  *)
(* whatever the configuration is by now: that is what a callback is        *)
(* measured against.                                                       *)
(***************************************************************************)
Asking(made, job, watch) == \E s \in made : s.job = job /\ s.watch = watch /\ s.acked

DiscoveryInv ==
  /\ \A s \in submissions : {"job", "watch", "acked"} \subseteq DOMAIN s
  /\ \A job \in DOMAIN pendingJobs : Asking(submissions, job, pendingJobs[job].watch)
  /\ ValidatedWasAsked

\* An acknowledged submission stays one: the acknowledgement of another replaces only that.
LEMMA AckKeepsAsking ==
  ASSUME DiscoveryInv, NEW s \in submissions, SubmitAcked(s), NEW job, NEW watch,
         Asking(submissions, job, watch)
  PROVE  Asking(submissions', job, watch)
<1>1. PICK r \in submissions : r.job = job /\ r.watch = watch /\ r.acked
  BY DEF Asking
<1>2. r # s
  BY <1>1 DEF SubmitAcked
<1> QED BY <1>1, <1>2 DEF SubmitAcked, Asking

\* The submission that is acknowledged asks for its job from then on.
LEMMA AckAsks ==
  ASSUME DiscoveryInv, NEW s \in submissions, SubmitAcked(s)
  PROVE  Asking(submissions', s.job, s.watch)
<1> DEFINE t == [s EXCEPT !.acked = TRUE]
<1>1. t.job = s.job /\ t.watch = s.watch /\ t.acked
  BY DEF DiscoveryInv
<1> QED BY <1>1 DEF SubmitAcked, Asking

\* Every step keeps the submissions that pending jobs and validated results come from.
LEMMA DiscoveryStep == DiscoveryInv /\ [DiscoveryNext]_discoveryVars => DiscoveryInv'
<1> SUFFICES ASSUME DiscoveryInv, [DiscoveryNext]_discoveryVars PROVE DiscoveryInv'
  OBVIOUS
<1>1. CASE SetDiscoveryConfig \/ DiscoveryTime \/ UNCHANGED discoveryVars
  BY <1>1 DEF SetDiscoveryConfig, DiscoveryTime, discoveryVars, DiscoveryInv, Asking,
              ValidatedWasAsked
<1>2. CASE DiscoveryReconcile
  <2>1. submissions \subseteq submissions' /\ results' = results
    BY <1>2 DEF DiscoveryReconcile, Submitted
  <2>2. \A s \in submissions' : {"job", "watch", "acked"} \subseteq DOMAIN s
    BY <1>2 DEF DiscoveryReconcile, Submitted, DiscoveryInv
  <2>3. DOMAIN pendingJobs' = Unexpired
        /\ \A job \in Unexpired : job \in DOMAIN pendingJobs /\ pendingJobs'[job] = pendingJobs[job]
    BY <1>2 DEF DiscoveryReconcile, Unexpired
  <2> QED BY <2>1, <2>2, <2>3 DEF DiscoveryInv, Asking, ValidatedWasAsked
<1>3. ASSUME NEW watch \in Watchlists, DiscoveryEnqueue(watch) PROVE DiscoveryInv'
  BY <1>3 DEF DiscoveryEnqueue, Submitted, DiscoveryInv, Asking, ValidatedWasAsked
<1>4. ASSUME NEW s \in submissions, SubmitAcked(s) PROVE DiscoveryInv'
  <2>1. \A r \in submissions' : {"job", "watch", "acked"} \subseteq DOMAIN r
    BY <1>4 DEF SubmitAcked, DiscoveryInv
  <2>2. \A job \in DOMAIN pendingJobs' : Asking(submissions', job, pendingJobs'[job].watch)
    <3> TAKE job \in DOMAIN pendingJobs'
    <3>1. CASE UNCHANGED pendingJobs
      BY <1>4, <3>1, AckKeepsAsking DEF DiscoveryInv
    <3>2. CASE pendingJobs' = [j \in DOMAIN pendingJobs \cup {s.job} |->
                          IF j = s.job THEN [watch |-> s.watch, at |-> s.job] ELSE pendingJobs[j]]
      <4>1. CASE job = s.job
        BY <1>4, <3>2, <4>1, AckAsks
      <4>2. CASE job # s.job
        BY <1>4, <3>2, <4>2, AckKeepsAsking DEF DiscoveryInv
      <4> QED BY <4>1, <4>2
    <3> QED BY <1>4, <3>1, <3>2 DEF SubmitAcked
  <2>3. ValidatedWasAsked'
    <3> SUFFICES ASSUME NEW job \in DOMAIN results', results'[job].status = "Validated"
                 PROVE  Asking(submissions', job, results'[job].watch)
      BY DEF ValidatedWasAsked, Asking
    <3>1. results' = results
      BY <1>4 DEF SubmitAcked
    <3>2. Asking(submissions, job, results[job].watch)
      BY <3>1 DEF DiscoveryInv, ValidatedWasAsked, Asking
    <3> QED BY <1>4, <3>1, <3>2, AckKeepsAsking
  <2> QED BY <2>1, <2>2, <2>3 DEF DiscoveryInv
<1>5. ASSUME NEW job \in Jobs, NEW completed \in Jobs, NEW watch \in Watchlists,
             DiscoveryCallback(job, watch, completed)
      PROVE  DiscoveryInv'
  <2>1. submissions' = submissions
    BY <1>5 DEF DiscoveryCallback
  <2>2. \A j \in DOMAIN pendingJobs' : j \in DOMAIN pendingJobs /\ pendingJobs'[j] = pendingJobs[j]
    BY <1>5 DEF DiscoveryCallback
  <2>3. \A j \in DOMAIN results' : j # job => j \in DOMAIN results /\ results'[j] = results[j]
    BY <1>5 DEF DiscoveryCallback
  <2>4. results'[job].status = "Validated" => Asking(submissions, job, results'[job].watch)
    <3>1. results'[job].watch = watch
          /\ (results'[job].status = "Validated"
                => job \in DOMAIN pendingJobs /\ pendingJobs[job].watch = watch)
      BY <1>5 DEF DiscoveryCallback, ValidPayload
    <3> QED BY <3>1 DEF DiscoveryInv
  <2>5. ValidatedWasAsked'
    BY <2>1, <2>3, <2>4 DEF DiscoveryInv, ValidatedWasAsked, Asking
  <2> QED BY <2>1, <2>2, <2>5 DEF DiscoveryInv, Asking
<1> QED BY <1>1, <1>2, <1>3, <1>4, <1>5 DEF DiscoveryNext

\* A validated result answers a job this canister asked for, with the watchlist of the job,
\* however callbacks, acknowledgements, expiry and reconfiguration interleave.
THEOREM ValidatedWasAskedAlways == DiscoverySpec => []ValidatedWasAsked
<1>1. DiscoveryInit => DiscoveryInv
  BY DEF DiscoveryInit, DiscoveryInv, ValidatedWasAsked
<1>2. DiscoveryInv => ValidatedWasAsked
  BY DEF DiscoveryInv
<1> QED BY <1>1, <1>2, DiscoveryStep, PTL DEF DiscoverySpec

\* What is submitted is asked for with a watchlist and a time of the clock.
AskedRecords == [job : Jobs, watch : Watchlists, acked : BOOLEAN]

DiscoveryFits ==
  /\ discovery \in Watchlists \cup {"off"} /\ clock \in Jobs
  /\ submissions \subseteq AskedRecords
  /\ DOMAIN pendingJobs \subseteq Jobs /\ DOMAIN results \subseteq Jobs
  /\ \A job \in DOMAIN results : results[job] \in Results

\* Jobs, watchlists and results are what they are meant to be, for any watchlists and times: a
\* disabled worker is asked nothing, though it is a configuration like the others (reconcile,
\* submit_strategy_discovery_result).
THEOREM DiscoveryTyped == DiscoverySpec => []DiscoveryTypeOK
<1>1. DiscoveryInit => DiscoveryFits
  <2> SUFFICES ASSUME DiscoveryInit PROVE DiscoveryFits
    OBVIOUS
  <2>1. DOMAIN pendingJobs = {} /\ DOMAIN results = {}
    BY DEF DiscoveryInit
  <2>2. 0 \in Jobs
    BY DiscoveryAssumption DEF Jobs
  <2> QED BY <2>1, <2>2 DEF DiscoveryInit, DiscoveryFits
<1>2. ASSUME DiscoveryFits, [DiscoveryNext]_discoveryVars
      PROVE  DiscoveryFits'
  <2>1. ASSUME NEW watch \in Watchlists
        PROVE  Submitted(watch) \subseteq AskedRecords
    <3>1. clock \in Jobs /\ submissions \subseteq AskedRecords
      BY <1>2 DEF DiscoveryFits
    <3>2. [job |-> clock, watch |-> watch, acked |-> FALSE] \in AskedRecords
      BY <3>1 DEF AskedRecords
    <3> QED BY <3>1, <3>2 DEF Submitted
  <2>2. CASE SetDiscoveryConfig
    <3>1. discovery' \in Watchlists \cup {"off"}
      BY <2>2 DEF SetDiscoveryConfig
    <3>2. UNCHANGED <<submissions, pendingJobs, results, clock>>
      BY <2>2 DEF SetDiscoveryConfig
    <3> QED BY <1>2, <3>1, <3>2 DEF DiscoveryFits
  <2>3. CASE DiscoveryReconcile
    <3>1. UNCHANGED <<discovery, results, clock>> /\ DOMAIN pendingJobs' \subseteq DOMAIN pendingJobs
      BY <2>3 DEF DiscoveryReconcile, Unexpired
    <3>2. submissions' = submissions \/ (discovery \in Watchlists /\ submissions' = Submitted(discovery))
      <4>1. CASE discovery = "off"
        BY <2>3, <4>1 DEF DiscoveryReconcile
      <4>2. CASE discovery # "off"
        <5>1. discovery \in Watchlists
          BY <1>2, <4>2 DEF DiscoveryFits
        <5>2. submissions' = submissions \/ submissions' = Submitted(discovery)
          BY <2>3 DEF DiscoveryReconcile
        <5> QED BY <5>1, <5>2
      <4> QED BY <4>1, <4>2
    <3>3. submissions' \subseteq AskedRecords
      BY <1>2, <2>1, <3>2 DEF DiscoveryFits
    <3> QED BY <1>2, <3>1, <3>3 DEF DiscoveryFits
  <2>4. CASE DiscoveryTime
    <3>1. clock' \in Jobs /\ UNCHANGED <<discovery, submissions, pendingJobs, results>>
      BY <1>2, <2>4, DiscoveryAssumption DEF DiscoveryTime, DiscoveryFits, Jobs
    <3> QED BY <1>2, <3>1 DEF DiscoveryFits
  <2>5. ASSUME NEW watch \in Watchlists, DiscoveryEnqueue(watch) PROVE DiscoveryFits'
    <3>1. submissions' \subseteq AskedRecords /\ UNCHANGED <<discovery, pendingJobs, results, clock>>
      BY <2>1, <2>5 DEF DiscoveryEnqueue
    <3> QED BY <1>2, <3>1 DEF DiscoveryFits
  <2>6. ASSUME NEW s \in submissions, SubmitAcked(s) PROVE DiscoveryFits'
    <3>1. s \in AskedRecords /\ s.job \in Jobs /\ [s EXCEPT !.acked = TRUE] \in AskedRecords
      BY <1>2 DEF DiscoveryFits, AskedRecords
    <3>2. submissions' \subseteq AskedRecords
      BY <1>2, <2>6, <3>1 DEF SubmitAcked, DiscoveryFits
    <3>3. DOMAIN pendingJobs' \subseteq DOMAIN pendingJobs \cup {s.job}
      BY <2>6 DEF SubmitAcked
    <3>4. UNCHANGED <<discovery, results, clock>>
      BY <2>6 DEF SubmitAcked
    <3> QED BY <1>2, <3>1, <3>2, <3>3, <3>4 DEF DiscoveryFits
  <2>7. ASSUME NEW job \in Jobs, NEW completed \in Jobs, NEW watch \in Watchlists,
               DiscoveryCallback(job, watch, completed)
        PROVE  DiscoveryFits'
    <3>1. PICK status \in {"Validated", "Rejected"} :
            results' = [j \in DOMAIN results \cup {job} |->
                          IF j = job THEN [status |-> status, watch |-> watch, at |-> clock]
                                     ELSE results[j]]
      BY <2>7 DEF DiscoveryCallback
    <3>2. [status |-> status, watch |-> watch, at |-> clock] \in Results
      BY <1>2 DEF DiscoveryFits, Results
    <3>3. DOMAIN results' = DOMAIN results \cup {job} /\ \A j \in DOMAIN results' : results'[j] \in Results
      BY <1>2, <3>1, <3>2 DEF DiscoveryFits
    <3>4. DOMAIN pendingJobs' \subseteq DOMAIN pendingJobs /\ UNCHANGED <<discovery, submissions, clock>>
      BY <2>7 DEF DiscoveryCallback
    <3> QED BY <1>2, <3>3, <3>4 DEF DiscoveryFits
  <2>8. CASE UNCHANGED discoveryVars
    BY <1>2, <2>8 DEF discoveryVars, DiscoveryFits
  <2> QED BY <1>2, <2>2, <2>3, <2>4, <2>5, <2>6, <2>7, <2>8 DEF DiscoveryNext
<1>3. DiscoveryFits => DiscoveryTypeOK
  BY DEF DiscoveryFits, DiscoveryTypeOK, AskedRecords
<1>4. DiscoveryFits /\ [DiscoveryNext]_discoveryVars => DiscoveryFits'
  BY <1>2
<1> QED BY <1>1, <1>3, <1>4, PTL DEF DiscoverySpec

(***************************************************************************)
(* Steward commands.  The nonce alone repeats, after a rotation; what does *)
(* not is the pair of tenure and nonce: every execution is behind the      *)
(* present pair, so the one a proof is accepted for is new.                *)
(***************************************************************************)
Behind == \A e \in executions :
  /\ e.tenure \in Nat /\ e.nonce \in Nat
  /\ e.tenure <= tenure /\ (e.tenure = tenure => e.nonce < nonce)

SpentOnce == \A e, f \in executions : e.tenure = f.tenure /\ e.nonce = f.nonce => e = f

\* The inference settings are certified whenever they are stored.
CertifiedInference ==
  "inference" \in DOMAIN stored /\ certified.inference = stored.inference

StewardInv ==
  /\ nonce \in Nat /\ tenure \in Nat
  /\ \A p \in proofs : p.command \in Commands
  /\ \A c \in verifying : c.proof \in proofs
  /\ Behind /\ SpentOnce /\ CertifiedInference

\* The setters keep the certified inference settings those that are stored.
LEMMA SettersCertify ==
  ASSUME CertifiedInference, NEW value, SetInference(value) \/ SetEvm(value)
  PROVE  CertifiedInference'
<1>1. CASE SetInference(value)
  BY <1>1 DEF SetInference, Certified, Accepted, CertifiedInference
<1>2. CASE SetEvm(value)
  BY <1>2 DEF SetEvm, CertifiedInference
<1> QED BY <1>1, <1>2

\* A new identity starts at nonce 0 of the next tenure.
LEMMA SetStewardMoves ==
  ASSUME NEW id, NEW enabled, NEW next \in Nat, tenure \in Nat, SetSteward(id, enabled, next)
  PROVE  /\ nonce' \in Nat /\ tenure' \in Nat
         /\ (tenure' = tenure /\ nonce' = next) \/ tenure' = tenure + 1
  BY DEF SetSteward

\* Any command leaves either the nonce the authorisation left, or a new tenure.
LEMMA DispatchMoves ==
  ASSUME StewardInv, NEW command \in Commands, NEW next \in Nat, Dispatch(command, next)
  PROVE  /\ nonce' \in Nat /\ tenure' \in Nat
         /\ (tenure' = tenure /\ nonce' = next) \/ tenure' = tenure + 1
         /\ CertifiedInference'
<1>1. command.kind \in {"Inference", "Evm", "UpdateSteward", "SetPrincipal"}
  BY DEF Commands
<1>2. CASE command.kind = "Inference"
  <2>1. SetInference(command.to) /\ nonce' = next /\ UNCHANGED tenure
    BY <1>2 DEF Dispatch
  <2> QED BY <2>1, SettersCertify DEF StewardInv
<1>3. CASE command.kind = "Evm"
  <2>1. SetEvm(command.to) /\ nonce' = next /\ UNCHANGED tenure
    BY <1>3 DEF Dispatch
  <2> QED BY <2>1, SettersCertify DEF StewardInv
<1>4. CASE command.kind = "UpdateSteward"
  <2>1. SetSteward(command.to, TRUE, next) /\ UNCHANGED <<stored, certified>>
    BY <1>4 DEF Dispatch
  <2> QED BY <2>1, SetStewardMoves DEF StewardInv, CertifiedInference
<1>5. CASE command.kind = "SetPrincipal"
  <2>1. SetPrincipal(command.to, next) /\ UNCHANGED <<stored, certified>>
    BY <1>5 DEF Dispatch
  <2> QED BY <2>1 DEF SetPrincipal, StewardInv, CertifiedInference
<1> QED BY <1>1, <1>2, <1>3, <1>4, <1>5

\* The books of the executions, when a tenure or a nonce moves forward and none is added.
LEMMA ForwardKeepsBehind ==
  ASSUME StewardInv, nonce' \in Nat, tenure' \in Nat, executions' = executions,
         (tenure' = tenure /\ nonce' = nonce) \/ tenure' = tenure + 1
  PROVE  Behind' /\ SpentOnce'
  BY DEF StewardInv, Behind, SpentOnce

\* A proof is consumed at the present tenure and nonce only, which no execution has yet.
LEMMA ConsumeSpendsOnce ==
  ASSUME StewardInv, NEW proof \in proofs, NEW wanted, Consume(proof, wanted)
  PROVE  /\ nonce' \in Nat /\ tenure' \in Nat
         /\ Behind' /\ SpentOnce' /\ CertifiedInference'
<1>1. CASE ~Consumes(proof)
  BY <1>1 DEF Consume, StewardInv, Behind, SpentOnce, CertifiedInference
<1>2. CASE Consumes(proof)
  <2>1. proof.nonce = nonce /\ nonce \in Nat /\ tenure \in Nat
    BY <1>2 DEF Consumes, StewardInv
  <2>2. Dispatch(proof.command, nonce + 1)
        /\ executions' = executions \cup {[tenure |-> tenure, nonce |-> nonce, call |-> wanted]}
    BY <1>2, <2>1 DEF Consume
  <2>3. /\ nonce' \in Nat /\ tenure' \in Nat /\ CertifiedInference'
        /\ (tenure' = tenure /\ nonce' = nonce + 1) \/ tenure' = tenure + 1
    BY <2>1, <2>2, DispatchMoves DEF StewardInv
  <2>4. Behind'
    BY <2>1, <2>2, <2>3 DEF StewardInv, Behind
  <2>5. SpentOnce'
    BY <2>1, <2>2 DEF StewardInv, Behind, SpentOnce
  <2> QED BY <2>3, <2>4, <2>5
<1> QED BY <1>1, <1>2

\* Every step, a command, a change by a controller, an upgrade or time, keeps the invariant.
LEMMA StewardStep == StewardInv /\ [StewardNext]_stewardVars => StewardInv'
<1> SUFFICES ASSUME StewardInv, [StewardNext]_stewardVars PROVE StewardInv'
  OBVIOUS
<1>1. ASSUME NEW command \in Asked, Prepare(command) PROVE StewardInv'
  <2>1. command \in Commands
    BY AskedAssumption
  <2>2. UNCHANGED <<nonce, tenure, executions, stored, certified, verifying>>
    BY <1>1 DEF Prepare
  <2>3. (\A p \in proofs' : p.command \in Commands) /\ proofs \subseteq proofs'
    BY <1>1, <2>1 DEF Prepare, StewardInv
  <2> QED BY <2>2, <2>3 DEF StewardInv, Behind, SpentOnce, CertifiedInference
<1>2. ASSUME NEW command \in Asked, ExecuteIngress(command) PROVE StewardInv'
  <2>1. command \in Commands /\ Dispatch(command, nonce)
        /\ UNCHANGED <<proofs, verifying, executions>>
    BY <1>2, AskedAssumption DEF ExecuteIngress
  <2>2. /\ nonce' \in Nat /\ tenure' \in Nat /\ CertifiedInference'
        /\ (tenure' = tenure /\ nonce' = nonce) \/ tenure' = tenure + 1
    BY <2>1, DispatchMoves DEF StewardInv
  <2> QED BY <2>1, <2>2, ForwardKeepsBehind DEF StewardInv
<1>3. ASSUME NEW proof \in proofs, ExecuteSigned(proof) PROVE StewardInv'
  <2>1. Consume(proof, calls) /\ UNCHANGED <<proofs, verifying>>
    BY <1>3 DEF ExecuteSigned
  <2> QED BY <2>1, ConsumeSpendsOnce DEF StewardInv
<1>4. ASSUME NEW proof \in proofs, ExecuteByContract(proof) PROVE StewardInv'
  BY <1>4 DEF ExecuteByContract, StewardInv, Behind, SpentOnce, CertifiedInference
<1>5. ASSUME NEW c \in verifying, ContractAnswers(c) PROVE StewardInv'
  <2>1. c.proof \in proofs /\ verifying' \subseteq verifying /\ proofs' = proofs
    BY <1>5 DEF ContractAnswers, StewardInv
  <2>2. CASE Consume(c.proof, c.call)
    BY <2>1, <2>2, ConsumeSpendsOnce DEF StewardInv
  <2>3. CASE UNCHANGED <<steward, nonce, stored, certified, tenure, executions>>
    BY <2>1, <2>3 DEF StewardInv, Behind, SpentOnce, CertifiedInference
  <2> QED BY <1>5, <2>2, <2>3 DEF ContractAnswers
<1>6. ASSUME NEW id \in StewardIds, NEW enabled \in BOOLEAN, SetStewardAdmin(id, enabled)
      PROVE  StewardInv'
  <2>1. SetSteward(id, enabled, nonce)
        /\ UNCHANGED <<proofs, verifying, executions, stored, certified>>
    BY <1>6 DEF SetStewardAdmin
  <2>2. /\ nonce' \in Nat /\ tenure' \in Nat
        /\ (tenure' = tenure /\ nonce' = nonce) \/ tenure' = tenure + 1
    BY <2>1, SetStewardMoves DEF StewardInv
  <2> QED BY <2>1, <2>2, ForwardKeepsBehind DEF StewardInv, CertifiedInference
<1>7. ASSUME NEW value, SetByController(value) PROVE StewardInv'
  <2>1. CertifiedInference'
    BY <1>7, SettersCertify DEF SetByController, StewardInv
  <2> QED BY <1>7, <2>1 DEF SetByController, StewardInv, Behind, SpentOnce
<1>8. CASE Upgrade
  BY <1>8 DEF Upgrade, Certified, StewardInv, Behind, SpentOnce, CertifiedInference
<1>9. CASE CursorMoves
  BY <1>9 DEF CursorMoves, StewardInv, Behind, SpentOnce, CertifiedInference
<1>10. CASE StewardTime \/ UNCHANGED stewardVars
  BY <1>10 DEF StewardTime, stewardVars, StewardInv, Behind, SpentOnce, CertifiedInference
<1> QED BY <1>1, <1>2, <1>3, <1>4, <1>5, <1>6, <1>7, <1>8, <1>9, <1>10 DEF StewardNext

\* No nonce is spent twice in the tenure of a steward, however many calls wait for the
\* answers of contract wallets, and a query reads the inference settings an update would.
THEOREM CommandsSpentOnceAlways == StewardSpec => []CommandsSpentOnce
<1>1. StewardInit => StewardInv
  BY DEF StewardInit, StewardInv, Behind, SpentOnce, CertifiedInference
<1>2. StewardInv => CommandsSpentOnce
  BY DEF StewardInv, SpentOnce, CertifiedInference, CommandsSpentOnce, Served, ServedByUpdate
<1> QED BY <1>1, <1>2, StewardStep, PTL DEF StewardSpec

\* A nonce is behind the calls that were made, and so is the nonce of a proof that waits: each
\* call spends one at most, the calls that wait at once included.
StewardRecords == [id : StewardIds, enabled : BOOLEAN, principal : Principals]

StewardLimits ==
  /\ steward \in StewardRecords /\ proofs \subseteq Proofs
  /\ calls \in 0..MaxCalls /\ nonce \in 0..calls /\ moment \in 0..MaxStewardTime
  /\ \A c \in verifying : c.proof \in proofs /\ c.proof.nonce < calls
  /\ stored \in StoredSettings /\ certified \in StoredSettings

\* A setter stores one of the values, and certifies what is stored.
LEMMA SettersFit ==
  ASSUME stored \in StoredSettings, certified \in StoredSettings, NEW value \in {"a", "b", "malformed"},
         SetInference(value) \/ SetEvm(value)
  PROVE  stored' \in StoredSettings /\ certified' \in StoredSettings
<1>1. stored.cursor \in 0..1 /\ CursorAfter(value) \in 0..1
  BY DEF StoredSettings, CursorAfter
<1>2. CASE SetInference(value)
  <2>1. CASE value = "malformed"
    BY <1>2, <2>1 DEF SetInference, Accepted
  <2>2. CASE value # "malformed"
    <3>1. stored' = [stored EXCEPT !.inference = value] /\ certified' = stored'
      BY <1>2, <2>2 DEF SetInference, Accepted, Certified
    <3>2. stored' \in StoredSettings
      BY <2>2, <3>1 DEF StoredSettings
    <3> QED BY <3>1, <3>2
  <2> QED BY <2>1, <2>2
<1>3. CASE SetEvm(value)
  <2>1. CASE value = "malformed"
    BY <1>3, <2>1 DEF SetEvm, Accepted
  <2>2. CASE value # "malformed"
    <3>1. stored' = [stored EXCEPT !.evm = value, !.cursor = CursorAfter(value)] /\ certified' = certified
      BY <1>3, <2>2 DEF SetEvm, Accepted
    <3>2. stored' \in StoredSettings
      BY <1>1, <2>2, <3>1 DEF StoredSettings
    <3> QED BY <3>1, <3>2
  <2> QED BY <2>1, <2>2
<1> QED BY <1>2, <1>3

\* A steward is set to one of the identities.
LEMMA SetStewardFits ==
  ASSUME steward \in StewardRecords, NEW id \in StewardIds, NEW enabled \in BOOLEAN, NEW next,
         SetSteward(id, enabled, next)
  PROVE  steward' \in StewardRecords /\ (nonce' = 0 \/ nonce' = next)
  BY DEF SetSteward, StewardRecords, Principals

\* A command leaves the nonce of its authorisation, or a first one.
LEMMA DispatchedFits ==
  ASSUME steward \in StewardRecords, stored \in StoredSettings, certified \in StoredSettings,
         NEW command \in Commands, NEW next, Dispatch(command, next)
  PROVE  /\ steward' \in StewardRecords /\ (nonce' = 0 \/ nonce' = next)
         /\ stored' \in StoredSettings /\ certified' \in StoredSettings
<1>1. /\ command.kind \in {"Inference", "Evm", "UpdateSteward", "SetPrincipal"}
      /\ command.kind \in {"Inference", "Evm"} => command.to \in {"a", "b", "malformed"}
      /\ command.kind = "UpdateSteward" => command.to \in StewardIds
      /\ command.kind = "SetPrincipal" => command.to \in Principals
  BY DEF Commands, Principals
<1>2. CASE command.kind = "Inference"
  <2>1. SetInference(command.to) /\ nonce' = next /\ UNCHANGED steward
    BY <1>2 DEF Dispatch
  <2> QED BY <1>1, <1>2, <2>1, SettersFit
<1>3. CASE command.kind = "Evm"
  <2>1. SetEvm(command.to) /\ nonce' = next /\ UNCHANGED steward
    BY <1>3 DEF Dispatch
  <2> QED BY <1>1, <1>3, <2>1, SettersFit
<1>4. CASE command.kind = "UpdateSteward"
  <2>1. SetSteward(command.to, TRUE, next) /\ UNCHANGED <<stored, certified>>
    BY <1>4 DEF Dispatch
  <2> QED BY <1>1, <1>4, <2>1, SetStewardFits
<1>5. CASE command.kind = "SetPrincipal"
  <2>1. SetPrincipal(command.to, next) /\ UNCHANGED <<stored, certified>>
    BY <1>5 DEF Dispatch
  <2>2. steward' = [steward EXCEPT !.principal = command.to] /\ nonce' = next
    BY <2>1 DEF SetPrincipal
  <2>3. steward' \in StewardRecords
    BY <1>1, <1>5, <2>2 DEF StewardRecords
  <2> QED BY <2>1, <2>2, <2>3
<1> QED BY <1>1, <1>2, <1>3, <1>4, <1>5

\* What is executed on a proof, or not.
LEMMA ConsumeFits ==
  ASSUME StewardLimits, NEW proof \in Proofs, NEW wanted, Consume(proof, wanted)
  PROVE  /\ steward' \in StewardRecords /\ (nonce' = 0 \/ nonce' = nonce \/ nonce' = proof.nonce + 1)
         /\ stored' \in StoredSettings /\ certified' \in StoredSettings
<1>1. proof.command \in Commands
  BY DEF Proofs
<1>2. CASE Consumes(proof)
  <2>1. Dispatch(proof.command, proof.nonce + 1)
    BY <1>2 DEF Consume
  <2> QED BY <1>1, <2>1, DispatchedFits DEF StewardLimits
<1>3. CASE ~Consumes(proof)
  BY <1>3 DEF Consume, StewardLimits
<1> QED BY <1>2, <1>3

\* StewardLimits is inductive.
LEMMA StewardLimitsStep ==
  ASSUME StewardLimits, [StewardNext]_stewardVars
  PROVE  StewardLimits'
<1>1. /\ steward \in StewardRecords /\ proofs \subseteq Proofs /\ calls \in Nat /\ calls <= MaxCalls
      /\ nonce \in Nat /\ nonce <= calls /\ moment \in Nat /\ moment <= MaxStewardTime
      /\ \A c \in verifying : c.proof \in proofs /\ c.proof.nonce < calls
      /\ stored \in StoredSettings /\ certified \in StoredSettings
  BY DEF StewardLimits
<1>2. MaxCalls \in Nat /\ MaxStewardTime \in Nat /\ ProofTtl \in Nat
  BY StewardAssumption
<1>3. \A p \in Proofs : p.nonce \in Nat
  BY <1>2 DEF Proofs
<1>4. ASSUME NEW command \in Asked, Prepare(command) PROVE StewardLimits'
  <2> DEFINE p == [id |-> steward.id, command |-> command, nonce |-> nonce, expires |-> moment + ProofTtl]
  <2>1. /\ proofs' = proofs \cup {p}
        /\ UNCHANGED <<steward, nonce, verifying, stored, certified, moment, calls>>
    BY <1>4 DEF Prepare
  <2>2. /\ steward.id \in StewardIds /\ command \in Commands /\ nonce \in 0..MaxCalls
        /\ moment + ProofTtl \in 0..(MaxStewardTime + ProofTtl)
    BY <1>1, <1>2, AskedAssumption DEF StewardRecords
  <2>3. p \in Proofs
    BY <2>2 DEF Proofs
  <2> HIDE DEF p
  <2> QED BY <2>1, <2>3 DEF StewardLimits
<1>5. ASSUME NEW command \in Asked, ExecuteIngress(command) PROVE StewardLimits'
  <2>1. /\ calls < MaxCalls /\ calls' = calls + 1 /\ Dispatch(command, nonce)
        /\ UNCHANGED <<proofs, verifying, moment>>
    BY <1>5 DEF ExecuteIngress
  <2>2. /\ steward' \in StewardRecords /\ (nonce' = 0 \/ nonce' = nonce)
        /\ stored' \in StoredSettings /\ certified' \in StoredSettings
    BY <1>1, <2>1, AskedAssumption, DispatchedFits
  <2>3. calls' \in 0..MaxCalls /\ nonce' \in 0..calls'
    BY <1>1, <1>2, <2>1, <2>2
  <2>4. \A c \in verifying : c.proof \in proofs /\ c.proof.nonce < calls'
    BY <1>1, <1>3, <2>1
  <2> QED BY <1>1, <2>1, <2>2, <2>3, <2>4 DEF StewardLimits
<1>6. ASSUME NEW proof \in proofs, ExecuteSigned(proof) PROVE StewardLimits'
  <2>1. /\ calls < MaxCalls /\ calls' = calls + 1 /\ Consume(proof, calls) /\ proof.nonce = nonce
        /\ UNCHANGED <<proofs, verifying, moment>>
    BY <1>6 DEF ExecuteSigned, ProofFits
  <2>2. /\ steward' \in StewardRecords /\ (nonce' = 0 \/ nonce' = nonce \/ nonce' = nonce + 1)
        /\ stored' \in StoredSettings /\ certified' \in StoredSettings
    BY <1>1, <2>1, ConsumeFits
  <2>3. calls' \in 0..MaxCalls /\ nonce' \in 0..calls'
    BY <1>1, <1>2, <2>1, <2>2
  <2>4. \A c \in verifying : c.proof \in proofs /\ c.proof.nonce < calls'
    BY <1>1, <1>3, <2>1
  <2> QED BY <1>1, <2>1, <2>2, <2>3, <2>4 DEF StewardLimits
<1>7. ASSUME NEW proof \in proofs, ExecuteByContract(proof) PROVE StewardLimits'
  <2>1. /\ calls < MaxCalls /\ calls' = calls + 1 /\ proof.nonce = nonce
        /\ verifying' = verifying \cup {[proof |-> proof, call |-> calls]}
        /\ UNCHANGED <<steward, nonce, proofs, stored, certified, moment>>
    BY <1>7 DEF ExecuteByContract, ProofFits
  <2>2. calls' \in 0..MaxCalls /\ nonce' \in 0..calls' /\ proof.nonce < calls'
    BY <1>1, <1>2, <2>1
  <2>3. \A c \in verifying : c.proof \in proofs /\ c.proof.nonce < calls'
    BY <1>1, <1>3, <2>1
  <2>4. \A c \in verifying' : c.proof \in proofs /\ c.proof.nonce < calls'
    BY <2>1, <2>2, <2>3
  <2> QED BY <1>1, <2>1, <2>2, <2>4 DEF StewardLimits
<1>8. ASSUME NEW c \in verifying, ContractAnswers(c) PROVE StewardLimits'
  <2>1. /\ verifying' \subseteq verifying /\ UNCHANGED <<proofs, moment, calls>>
        /\ Consume(c.proof, c.call) \/ UNCHANGED <<steward, nonce, stored, certified>>
    BY <1>8 DEF ContractAnswers
  <2>2. c.proof \in Proofs /\ c.proof.nonce < calls /\ c.proof.nonce \in Nat
    BY <1>1, <1>3
  <2>3. /\ steward' \in StewardRecords /\ (nonce' = 0 \/ nonce' = nonce \/ nonce' = c.proof.nonce + 1)
        /\ stored' \in StoredSettings /\ certified' \in StoredSettings
    BY <1>1, <2>1, <2>2, ConsumeFits
  <2>4. nonce' \in 0..calls
    BY <1>1, <2>2, <2>3
  <2> QED BY <1>1, <2>1, <2>3, <2>4 DEF StewardLimits
<1>9. ASSUME NEW id \in StewardIds, NEW enabled \in BOOLEAN, SetStewardAdmin(id, enabled)
      PROVE  StewardLimits'
  <2>1. SetSteward(id, enabled, nonce) /\ UNCHANGED <<proofs, verifying, stored, certified, moment, calls>>
    BY <1>9 DEF SetStewardAdmin
  <2>2. steward' \in StewardRecords /\ nonce' \in 0..calls
    BY <1>1, <2>1, SetStewardFits
  <2> QED BY <2>1, <2>2 DEF StewardLimits
<1>10. ASSUME NEW value \in {"a", "b"}, SetByController(value) PROVE StewardLimits'
  <2>1. /\ SetInference(value) \/ SetEvm(value)
        /\ UNCHANGED <<steward, nonce, proofs, verifying, moment, calls>>
    BY <1>10 DEF SetByController
  <2>2. stored' \in StoredSettings /\ certified' \in StoredSettings
    BY <1>1, <2>1, SettersFit
  <2> QED BY <2>1, <2>2 DEF StewardLimits
<1>11. CASE Upgrade
  BY <1>11 DEF Upgrade, Certified, StewardLimits
<1>12. CASE CursorMoves
  <2>1. /\ stored' = [stored EXCEPT !.cursor = 1]
        /\ UNCHANGED <<steward, nonce, proofs, verifying, certified, moment, calls>>
    BY <1>12 DEF CursorMoves
  <2>2. stored' \in StoredSettings
    BY <1>1, <2>1 DEF StoredSettings
  <2> QED BY <2>1, <2>2 DEF StewardLimits
<1>13. CASE StewardTime
  <2>1. moment' \in 0..MaxStewardTime /\ UNCHANGED <<steward, nonce, proofs, verifying, stored, certified, calls>>
    BY <1>1, <1>2, <1>13 DEF StewardTime
  <2> QED BY <2>1 DEF StewardLimits
<1>14. CASE UNCHANGED stewardVars
  BY <1>14 DEF stewardVars, StewardLimits
<1> QED BY <1>4, <1>5, <1>6, <1>7, <1>8, <1>9, <1>10, <1>11, <1>12, <1>13, <1>14 DEF StewardNext

\* The nonce never runs ahead of the calls made, whatever waits for a contract wallet; a call
\* waits for a proof that was signed; and refused values are never stored or certified, for any
\* number of identities, proofs and calls (consume_steward_nonce_and_record_usage).
THEOREM StewardTyped == StewardSpec => []StewardTypeOK
<1>1. ASSUME StewardInit PROVE StewardLimits
  <2>1. steward \in StewardRecords
    BY <1>1 DEF StewardInit, StewardRecords, Principals
  <2>2. stored \in StoredSettings /\ certified = stored
    BY <1>1 DEF StewardInit, StoredSettings
  <2> QED BY <1>1, <2>1, <2>2, StewardAssumption DEF StewardInit, StewardLimits
<1>2. StewardLimits /\ [StewardNext]_stewardVars => StewardLimits'
  BY StewardLimitsStep
<1>3. ASSUME StewardLimits PROVE StewardTypeOK
  <2>1. nonce \in 0..MaxCalls
    BY <1>3, StewardAssumption DEF StewardLimits
  <2> QED BY <1>3, <2>1 DEF StewardLimits, StewardTypeOK, StewardRecords
<1> QED BY <1>1, <1>2, <1>3, PTL DEF StewardSpec

(***************************************************************************)
(* The calldata of a strategy action (AbiLayout): whatever is nested in    *)
(* what, a contract reads the arguments the agent meant.  The argument is  *)
(* about places: Lies(data, at, w) says that the words w are found in the  *)
(* data from a place on.  Heads and tails lie where the running sums of    *)
(* their lengths say (FlattenLies), so parameters are read as they were    *)
(* written if their parts are (ParamsRead); a codec whose parts are read   *)
(* back reads back what is nested one deeper (OverKeepsOk), and so does    *)
(* the codec of every depth (CodecsOk).                                    *)
(***************************************************************************)

\* The running sums are well defined.
LEMMA SumsDefined ==
  ASSUME NEW s, Len(s) \in Nat
  PROVE  /\ Sums(s)[0] = 0
         /\ \A n \in 1..Len(s) : Sums(s)[n] = Sums(s)[n - 1] + s[n]
<1> DEFINE L == Len(s)
           Step(f, n) == IF n = 0 THEN 0 ELSE f[n - 1] + s[n]
           Good(k, f) == f = [n \in 0..k |-> Step(f, n)]
           S == {k \in Nat : ~ \E f : Good(k, f)}
<1>1. S = {}
  <2> SUFFICES ASSUME S # {} PROVE FALSE
    OBVIOUS
  <2>1. PICK x \in S : \A y \in S : x <= y
    BY LeastNat
  <2>2. x \in Nat /\ ~ \E f : Good(x, f)
    BY <2>1
  <2>3. x # 0
    <3>1. Good(0, [n \in 0..0 |-> 0])
      OBVIOUS
    <3> QED BY <2>2, <3>1
  <2>4. x - 1 \in Nat /\ x - 1 \notin S
    <3>1. x - 1 \in Nat /\ ~ (x <= x - 1)
      BY <2>2, <2>3
    <3> HIDE DEF S
    <3> QED BY <2>1, <3>1
  <2>5. PICK f : Good(x - 1, f)
    BY <2>4
  <2> DEFINE g == [n \in 0..x |-> Step(f, n)]
  <2>6. \A n \in 0 .. x - 1 : g[n] = f[n]
    <3>1. \A n \in 0 .. x - 1 : f[n] = Step(f, n)
      BY <2>5
    <3>2. \A n \in 0 .. x - 1 : n \in 0..x
      BY <2>2
    <3> HIDE DEF Step
    <3> QED BY <3>1, <3>2
  <2>7. \A n \in 0..x : Step(g, n) = Step(f, n)
    <3>1. \A n \in 0..x : n # 0 => n - 1 \in 0 .. x - 1
      BY <2>2
    <3>2. \A n \in 0..x : n # 0 => g[n - 1] = f[n - 1]
      BY <2>6, <3>1
    <3> HIDE DEF g
    <3> QED BY <3>2
  <2>8. Good(x, g)
    <3> HIDE DEF Step
    <3> QED BY <2>7
  <2> QED BY <2>2, <2>8
<1>2. \E f : Good(L, f)
  BY <1>1
<1>3. Sums(s) = CHOOSE f : Good(L, f)
  BY DEF Sums
<1>4. Good(L, Sums(s))
  <2> HIDE DEF Good
  <2> QED BY <1>2, <1>3
<1> DEFINE h == Sums(s)
<1>5. \A n \in 0..L : h[n] = Step(h, n)
  <2> HIDE DEF h, Step
  <2> QED BY <1>4 DEF h
<1>6. 0 \in 0..L /\ \A n \in 1..L : n \in 0..L /\ n # 0
  OBVIOUS
<1> HIDE DEF h
<1> QED BY <1>5, <1>6 DEF h

\* The running sums of numbers are numbers that do not decrease.
LEMMA SumsGrow ==
  ASSUME NEW s \in Seq(Nat)
  PROVE  /\ \A n \in 0..Len(s) : Sums(s)[n] \in Nat /\ Sums(s)[n] <= Total(s)
         /\ Total(s) \in Nat
<1> DEFINE L == Len(s)
           P(n) == Sums(s)[n] \in Nat
           S == {n \in Nat : n <= L /\ ~ P(n)}
           Q(n) == Sums(s)[L - n] <= Total(s)
           R == {n \in Nat : n <= L /\ ~ Q(n)}
<1>1. L \in Nat /\ \A n \in 1..L : s[n] \in Nat
  BY LenProperties, ElementOfSeq
<1>2. Sums(s)[0] = 0 /\ \A n \in 1..L : Sums(s)[n] = Sums(s)[n - 1] + s[n]
  BY <1>1, SumsDefined
<1>3. S = {}
  <2> SUFFICES ASSUME S # {} PROVE FALSE
    OBVIOUS
  <2>1. PICK n \in S : \A k \in S : n <= k
    BY LeastNat
  <2>2. n \in Nat /\ n <= L /\ ~ P(n)
    BY <2>1
  <2>3. n # 0
    BY <1>2, <2>2
  <2>4. n \in 1..L /\ n - 1 \in Nat /\ n - 1 <= L /\ ~ (n <= n - 1)
    BY <1>1, <2>2, <2>3
  <2>5. P(n - 1)
    <3> HIDE DEF P
    <3> QED BY <2>1, <2>4
  <2>6. Sums(s)[n] = Sums(s)[n - 1] + s[n] /\ s[n] \in Nat
    BY <1>1, <1>2, <2>4
  <2>7. P(n)
    BY <2>5, <2>6
  <2> QED BY <2>2, <2>7
<1>4. \A n \in 0..L : P(n)
  <2> HIDE DEF P
  <2> QED BY <1>1, <1>3
<1>5. R = {}
  <2> SUFFICES ASSUME R # {} PROVE FALSE
    OBVIOUS
  <2>1. PICK n \in R : \A k \in R : n <= k
    BY LeastNat
  <2>2. n \in Nat /\ n <= L /\ ~ Q(n)
    BY <2>1
  <2>3. n # 0
    <3>1. L - 0 = L /\ L \in 0..L
      BY <1>1
    <3> QED BY <1>4, <2>2, <3>1 DEF Total
  <2>4. n - 1 \in Nat /\ n - 1 <= L /\ ~ (n <= n - 1) /\ L - (n - 1) \in 1..L
        /\ (L - (n - 1)) - 1 = L - n /\ L - n \in 0..L /\ L - (n - 1) \in 0..L /\ L \in 0..L
    BY <1>1, <2>2, <2>3
  <2>5. Q(n - 1)
    <3> HIDE DEF Q
    <3> QED BY <2>1, <2>4
  <2>6. Sums(s)[L - (n - 1)] = Sums(s)[L - n] + s[L - (n - 1)]
    BY <1>2, <2>4
  <2>7. s[L - (n - 1)] \in Nat /\ Sums(s)[L - n] \in Nat /\ Sums(s)[L - (n - 1)] \in Nat /\ Total(s) \in Nat
    BY <1>1, <1>4, <2>4 DEF Total
  <2> QED BY <2>2, <2>5, <2>6, <2>7
<1>6. ASSUME NEW n \in 0..L PROVE Sums(s)[n] <= Total(s)
  <2>1. L - n \in Nat /\ L - n <= L /\ L - (L - n) = n
    BY <1>1
  <2>2. Q(L - n)
    <3> HIDE DEF Q
    <3> QED BY <1>5, <2>1
  <2> QED BY <2>1, <2>2
<1>7. L \in 0..L
  BY <1>1
<1> QED BY <1>4, <1>6, <1>7 DEF Total

\* The words w lie in the data from a place on.
Lies(data, at, w) ==
  /\ at \in Nat /\ at >= 1 /\ at + Len(w) <= Len(data) + 1
  /\ \A i \in 1..Len(w) : data[at + i - 1] = w[i]

\* What lies in what lies in the data lies in the data.
LEMMA LiesWithin ==
  ASSUME NEW W, NEW data \in Seq(W), NEW w \in Seq(W), NEW u \in Seq(W), NEW at, NEW i,
         Lies(data, at, w), Lies(w, i, u)
  PROVE  Lies(data, at + i - 1, u)
<1>1. Len(data) \in Nat /\ Len(w) \in Nat /\ Len(u) \in Nat
  BY LenProperties
<1>2. at \in Nat /\ at >= 1 /\ at + Len(w) <= Len(data) + 1 /\ i \in Nat /\ i >= 1 /\ i + Len(u) <= Len(w) + 1
  BY DEF Lies
<1>3. at + i - 1 \in Nat /\ at + i - 1 >= 1 /\ (at + i - 1) + Len(u) <= Len(data) + 1
  BY <1>1, <1>2
<1>4. ASSUME NEW j \in 1..Len(u) PROVE data[(at + i - 1) + j - 1] = u[j]
  <2>1. i + j - 1 \in 1..Len(w) /\ at + (i + j - 1) - 1 = (at + i - 1) + j - 1
    BY <1>1, <1>2
  <2>2. w[i + j - 1] = u[j]
    BY DEF Lies
  <2>3. data[at + (i + j - 1) - 1] = w[i + j - 1]
    BY <2>1 DEF Lies
  <2> QED BY <2>1, <2>2, <2>3
<1> QED BY <1>3, <1>4 DEF Lies

\* Two sequences lie one behind the other in their concatenation.
LEMMA LiesInBoth ==
  ASSUME NEW W, NEW w \in Seq(W), NEW u \in Seq(W)
  PROVE  /\ w \o u \in Seq(W) /\ Len(w \o u) = Len(w) + Len(u)
         /\ Lies(w \o u, 1, w) /\ Lies(w \o u, Len(w) + 1, u)
<1>1. Len(w) \in Nat /\ Len(u) \in Nat
  BY LenProperties
<1>2. /\ w \o u \in Seq(W) /\ Len(w \o u) = Len(w) + Len(u)
      /\ \A i \in 1..Len(w) + Len(u) :
           (w \o u)[i] = IF i <= Len(w) THEN w[i] ELSE u[i - Len(w)]
  BY ConcatProperties
<1> DEFINE v == w \o u
<1> HIDE DEF v
<1>3. ASSUME NEW i \in 1..Len(w) PROVE v[1 + i - 1] = w[i]
  <2>1. i \in 1..Len(w) + Len(u) /\ 1 + i - 1 = i /\ i <= Len(w)
    BY <1>1
  <2> QED BY <1>2, <2>1 DEF v
<1>4. ASSUME NEW i \in 1..Len(u) PROVE v[(Len(w) + 1) + i - 1] = u[i]
  <2>1. Len(w) + i \in 1..Len(w) + Len(u) /\ (Len(w) + 1) + i - 1 = Len(w) + i
        /\ ~ (Len(w) + i <= Len(w)) /\ (Len(w) + i) - Len(w) = i
    BY <1>1
  <2> QED BY <1>2, <2>1 DEF v
<1>5. 1 + Len(w) <= (Len(w) + Len(u)) + 1 /\ (Len(w) + 1) + Len(u) <= (Len(w) + Len(u)) + 1
  BY <1>1
<1> QED BY <1>1, <1>2, <1>3, <1>4, <1>5 DEF Lies, v

Lens(seqs) == [k \in 1..Len(seqs) |-> Len(seqs[k])]

\* The lengths are a sequence of numbers.
LEMMA LensAreNumbers ==
  ASSUME NEW W, NEW seqs \in Seq(Seq(W))
  PROVE  Lens(seqs) \in Seq(Nat) /\ Len(Lens(seqs)) = Len(seqs) /\ Len(seqs) \in Nat
         /\ \A k \in 1..Len(seqs) : Lens(seqs)[k] = Len(seqs[k]) /\ seqs[k] \in Seq(W) /\ Len(seqs[k]) \in Nat
<1>1. Len(seqs) \in Nat /\ \A k \in 1..Len(seqs) : seqs[k] \in Seq(W)
  BY LenProperties, ElementOfSeq
<1>2. \A k \in 1..Len(seqs) : Len(seqs[k]) \in Nat
  BY <1>1, LenProperties
<1> DEFINE n == Len(seqs)
<1>3. Lens(seqs) \in [1..n -> Nat]
  BY <1>2 DEF Lens
<1>4. Lens(seqs) \in Seq(Nat)
  <2>1. n \in Nat
    BY <1>1
  <2> HIDE DEF n
  <2> QED BY <1>3, <2>1, SeqDef
<1>5. Len(Lens(seqs)) = n
  <2>1. DOMAIN Lens(seqs) = 1..n /\ DOMAIN Lens(seqs) = 1..Len(Lens(seqs)) /\ Len(Lens(seqs)) \in Nat
    BY <1>4, LenProperties DEF Lens
  <2> QED BY <1>1, <2>1
<1> QED BY <1>1, <1>2, <1>4, <1>5 DEF Lens

\* Joining sequences one after the other is well defined.
LEMMA FlattenDefined ==
  ASSUME NEW seqs, Len(seqs) \in Nat, Len(seqs) > 0
  PROVE  \E f : /\ FlattenSeq(seqs) = f[Len(seqs)] /\ f[1] = seqs[1]
                /\ \A n \in 2..Len(seqs) : f[n] = f[n - 1] \o seqs[n]
<1> DEFINE L == Len(seqs)
           Step(f, n) == IF n = 1 THEN seqs[n] ELSE f[n - 1] \o seqs[n]
           Good(k, f) == f = [n \in 1..k |-> Step(f, n)]
           S == {k \in Nat : ~ \E f : Good(k, f)}
<1>1. S = {}
  <2> SUFFICES ASSUME S # {} PROVE FALSE
    OBVIOUS
  <2>1. PICK x \in S : \A y \in S : x <= y
    BY LeastNat
  <2>2. x \in Nat /\ ~ \E f : Good(x, f)
    BY <2>1
  <2>3. x # 0
    <3>1. 1..0 = {}
      OBVIOUS
    <3>2. Good(0, [n \in {} |-> 0])
      <4> HIDE DEF Step
      <4> QED BY <3>1
    <3> QED BY <2>2, <3>2
  <2>4. x - 1 \in Nat /\ x - 1 \notin S
    <3>1. x - 1 \in Nat /\ ~ (x <= x - 1)
      BY <2>2, <2>3
    <3> HIDE DEF S
    <3> QED BY <2>1, <3>1
  <2>5. PICK f : Good(x - 1, f)
    BY <2>4
  <2> DEFINE g == [n \in 1..x |-> Step(f, n)]
  <2>6. \A n \in 1 .. x - 1 : g[n] = f[n]
    <3>1. \A n \in 1 .. x - 1 : f[n] = Step(f, n)
      <4> HIDE DEF Step
      <4> QED BY <2>5
    <3>2. \A n \in 1 .. x - 1 : n \in 1..x
      BY <2>2
    <3> HIDE DEF Step
    <3> QED BY <3>1, <3>2
  <2>7. \A n \in 1..x : Step(g, n) = Step(f, n)
    <3>1. \A n \in 1..x : n # 1 => n - 1 \in 1 .. x - 1
      BY <2>2
    <3>2. \A n \in 1..x : n # 1 => g[n - 1] = f[n - 1]
      BY <2>6, <3>1
    <3> HIDE DEF g
    <3> QED BY <3>2
  <2>8. Good(x, g)
    <3> HIDE DEF Step
    <3> QED BY <2>7
  <2> QED BY <2>2, <2>8
<1>2. \E f : Good(L, f)
  BY <1>1
<1> DEFINE h == CHOOSE f : Good(L, f)
<1>3. Good(L, h)
  <2> HIDE DEF Good
  <2> QED BY <1>2
<1>4. FlattenSeq(seqs) = h[L]
  BY DEF FlattenSeq
<1> HIDE DEF h
<1>5. \A n \in 1..L : h[n] = Step(h, n)
  <2> HIDE DEF Step
  <2> QED BY <1>3
<1>6. 1 \in 1..L /\ \A n \in 2..L : n \in 1..L /\ n # 1
  OBVIOUS
<1>7. h[1] = seqs[1] /\ \A n \in 2..L : h[n] = h[n - 1] \o seqs[n]
  BY <1>5, <1>6
<1> QED BY <1>4, <1>7

\* Sequences that are joined lie one behind the other, each where the lengths before it add up to.
LEMMA FlattenLies ==
  ASSUME NEW W, NEW seqs \in Seq(Seq(W))
  PROVE  /\ FlattenSeq(seqs) \in Seq(W) /\ Len(FlattenSeq(seqs)) = Total(Lens(seqs))
         /\ \A k \in 1..Len(seqs) : Lies(FlattenSeq(seqs), Sums(Lens(seqs))[k - 1] + 1, seqs[k])
<1> DEFINE L == Len(seqs)
           sum == Sums(Lens(seqs))
<1>1. /\ Lens(seqs) \in Seq(Nat) /\ Len(Lens(seqs)) = L /\ L \in Nat
      /\ \A k \in 1..L : Lens(seqs)[k] = Len(seqs[k]) /\ seqs[k] \in Seq(W) /\ Len(seqs[k]) \in Nat
  BY LensAreNumbers
<1>2. /\ sum[0] = 0 /\ \A n \in 1..L : sum[n] = sum[n - 1] + Len(seqs[n])
      /\ \A n \in 0..L : sum[n] \in Nat /\ Total(Lens(seqs)) = sum[L]
  BY <1>1, SumsDefined, SumsGrow DEF Total
<1> HIDE DEF sum
<1>3. CASE L = 0
  <2>1. FlattenSeq(seqs) = seqs /\ seqs = <<>>
    BY <1>3, EmptySeq DEF FlattenSeq
  <2> QED BY <1>2, <1>3, <2>1, EmptySeq DEF sum
<1>4. CASE L > 0
  <2>1. PICK f : /\ FlattenSeq(seqs) = f[L] /\ f[1] = seqs[1]
                 /\ \A n \in 2..L : f[n] = f[n - 1] \o seqs[n]
    BY <1>1, <1>4, FlattenDefined
  <2> DEFINE P(n) == /\ f[n] \in Seq(W) /\ Len(f[n]) = sum[n]
                     /\ \A k \in 1..n : Lies(f[n], sum[k - 1] + 1, seqs[k])
             S == {n \in Nat : n >= 1 /\ n <= L /\ ~ P(n)}
  <2>2. S = {}
    <3> SUFFICES ASSUME S # {} PROVE FALSE
      OBVIOUS
    <3>1. PICK n \in S : \A k \in S : n <= k
      BY LeastNat
    <3>2. n \in Nat /\ n >= 1 /\ n <= L /\ ~ P(n)
      BY <3>1
    <3>3. n # 1
      <4> SUFFICES P(1)
        BY <3>2
      <4>1. 1 \in 1..L /\ 1 - 1 = 0 /\ 1..1 = {1}
        BY <1>4, <1>1
      <4>2. f[1] \in Seq(W) /\ Len(f[1]) = sum[1] /\ Len(f[1]) \in Nat /\ f[1] = seqs[1]
        BY <1>1, <1>2, <2>1, <4>1
      <4>3. \A i \in 1..Len(f[1]) : 1 + i - 1 = i
        BY <4>2
      <4>4. 1 + Len(f[1]) <= Len(f[1]) + 1
        BY <4>2
      <4>5. Lies(f[1], 1, f[1])
        BY <4>3, <4>4 DEF Lies
      <4>6. sum[1 - 1] + 1 = 1
        BY <1>2, <4>1
      <4> QED BY <4>1, <4>2, <4>5, <4>6
    <3>4. n \in 2..L /\ n - 1 \in Nat /\ n - 1 >= 1 /\ n - 1 <= L /\ ~ (n <= n - 1) /\ n \in 1..L
      BY <1>1, <3>2, <3>3
    <3>5. P(n - 1)
      <4> HIDE DEF P
      <4> QED BY <3>1, <3>4
    <3>6. f[n] = f[n - 1] \o seqs[n] /\ seqs[n] \in Seq(W) /\ Len(seqs[n]) \in Nat
      BY <1>1, <2>1, <3>4
    <3> DEFINE a == f[n - 1]
               b == seqs[n]
    <3>7. a \in Seq(W) /\ b \in Seq(W) /\ Len(a) = sum[n - 1] /\ f[n] = a \o b
      BY <3>5, <3>6
    <3> HIDE DEF a, b
    <3>8. /\ f[n] \in Seq(W) /\ Len(f[n]) = Len(a) + Len(b)
          /\ Lies(f[n], 1, a) /\ Lies(f[n], Len(a) + 1, b)
      <4>1. /\ a \o b \in Seq(W) /\ Len(a \o b) = Len(a) + Len(b)
            /\ Lies(a \o b, 1, a) /\ Lies(a \o b, Len(a) + 1, b)
        BY <3>7, LiesInBoth
      <4> DEFINE v == a \o b
      <4>2. v = f[n]
        BY <3>7
      <4> HIDE DEF v
      <4> QED BY <4>1, <4>2 DEF v
    <3>9. Len(f[n]) = sum[n]
      BY <1>2, <3>4, <3>7, <3>8 DEF b
    <3>10. ASSUME NEW k \in 1..n PROVE Lies(f[n], sum[k - 1] + 1, seqs[k])
      <4>1. CASE k = n
        BY <3>7, <3>8, <4>1 DEF b
      <4>2. CASE k # n
        <5>1. k \in 1 .. n - 1 /\ k \in 1..L /\ k - 1 \in 0..L
          BY <3>4, <4>2
        <5>2. Lies(a, sum[k - 1] + 1, seqs[k])
          BY <3>5, <5>1 DEF a
        <5>3. sum[k - 1] \in Nat /\ seqs[k] \in Seq(W)
          BY <1>1, <1>2, <5>1
        <5>4. Lies(f[n], 1 + (sum[k - 1] + 1) - 1, seqs[k])
          BY <3>7, <3>8, <5>2, <5>3, LiesWithin
        <5>5. 1 + (sum[k - 1] + 1) - 1 = sum[k - 1] + 1
          BY <5>3
        <5> QED BY <5>4, <5>5
      <4> QED BY <4>1, <4>2
    <3>11. P(n)
      BY <3>8, <3>9, <3>10
    <3> QED BY <3>2, <3>11
  <2>3. P(L)
    <3> HIDE DEF P
    <3> QED BY <1>1, <1>4, <2>2
  <2> QED BY <1>2, <2>1, <2>3 DEF sum
<1> QED BY <1>1, <1>3, <1>4

\* Equal parts add up to a product.
LEMMA EqualSums ==
  ASSUME NEW n \in Nat, NEW w \in Nat, NEW s \in Seq(Nat), Len(s) = n, \A k \in 1..n : s[k] = w
  PROVE  Total(s) = w * n
<1> DEFINE P(k) == Sums(s)[k] = w * k
           S == {k \in Nat : k <= n /\ ~ P(k)}
<1>1. Sums(s)[0] = 0 /\ \A k \in 1..n : Sums(s)[k] = Sums(s)[k - 1] + w
  BY SumsDefined
<1>2. S = {}
  <2> SUFFICES ASSUME S # {} PROVE FALSE
    OBVIOUS
  <2>1. PICK k \in S : \A j \in S : k <= j
    BY LeastNat
  <2>2. k \in Nat /\ k <= n /\ ~ P(k)
    BY <2>1
  <2>3. k # 0
    <3>1. w * 0 = 0
      OBVIOUS
    <3> QED BY <1>1, <2>2, <3>1
  <2>4. k \in 1..n /\ k - 1 \in Nat /\ k - 1 <= n /\ ~ (k <= k - 1)
    BY <2>2, <2>3
  <2>5. P(k - 1)
    <3> HIDE DEF P
    <3> QED BY <2>1, <2>4
  <2>6. w * (k - 1) + w = w * k
    BY <2>2
  <2> QED BY <1>1, <2>2, <2>4, <2>5, <2>6
<1>3. P(n)
  <2> HIDE DEF P
  <2> QED BY <1>2
<1> QED BY <1>3 DEF Total

\* A word that holds a number.
LEMMA NumberIsWord == ASSUME NEW n \in Nat PROVE Number(n) \in AbiWords /\ Number(n).number = n
BY DEF Number, AbiWords

\* What is lowered is only lowered once.
Lowered(c) == {x \in c.fitting : c.lower[x] = x[2]}

CodecShaped(c) ==
  /\ c.fitting \subseteq c.types \X c.values
  /\ \A t \in c.types : c.words[t] \in Nat \cup {Dynamic}

CodecLowers(c) ==
  \A x \in c.fitting : <<x[1], c.lower[x]>> \in Lowered(c) /\ <<x[2], c.lower[x]>> \in c.says

CodecReads(c) ==
  \A x \in Lowered(c) :
    /\ c.encode[x] \in Seq(AbiWords)
    /\ c.words[x[1]] # Dynamic => Len(c.encode[x]) = c.words[x[1]]
    /\ \A data \in Seq(AbiWords), at \in Nat :
         Lies(data, at, c.encode[x]) => c.read[<<x[1], data, at>>] = x[2]

CodecOk(c) == CodecShaped(c) /\ CodecLowers(c) /\ CodecReads(c)

\* Values that are canonical for the types of their places.
ItemsFit(c, types, items) ==
  /\ types \in Seq(c.types) /\ items \in Seq(c.values) /\ Len(items) = Len(types)
  /\ \A k \in 1..Len(types) : <<types[k], items[k]>> \in Lowered(c)

\* The parts are sequences of words, those of known size of that size.
LEMMA PartsEncoded ==
  ASSUME NEW c, CodecOk(c), NEW types, NEW items, ItemsFit(c, types, items),
         NEW parts, parts = EncodedParts(c, types, items)
  PROVE      /\ Len(types) \in Nat /\ parts \in Seq(Seq(AbiWords)) /\ Len(parts) = Len(types)
             /\ HeadWords(c, types) \in Seq(Nat) /\ Len(HeadWords(c, types)) = Len(types)
             /\ \A k \in 1..Len(types) :
                  /\ types[k] \in c.types /\ parts[k] = c.encode[<<types[k], items[k]>>] /\ parts[k] \in Seq(AbiWords)
                  /\ HeadWords(c, types)[k] = IF IsDynamic(c, types[k]) THEN 1 ELSE Len(parts[k])
<1> DEFINE n == Len(types)
           hw == HeadWords(c, types)
<1>1. n \in Nat /\ Len(items) = n /\ \A k \in 1..n : types[k] \in c.types
  BY LenProperties, ElementOfSeq DEF ItemsFit
<1>2. ASSUME NEW k \in 1..n
      PROVE  /\ parts[k] = c.encode[<<types[k], items[k]>>] /\ parts[k] \in Seq(AbiWords)
             /\ c.words[types[k]] \in Nat \cup {Dynamic}
             /\ ~IsDynamic(c, types[k]) => Len(parts[k]) = c.words[types[k]]
  <2>1. <<types[k], items[k]>> \in Lowered(c)
    BY DEF ItemsFit
  <2>2. parts[k] = c.encode[<<types[k], items[k]>>]
    BY <1>1 DEF EncodedParts
  <2>3. c.words[types[k]] \in Nat \cup {Dynamic}
    BY <1>1 DEF CodecOk, CodecShaped
  <2> DEFINE x == <<types[k], items[k]>>
  <2>4. x[1] = types[k]
    OBVIOUS
  <2> HIDE DEF x
  <2>5. c.encode[x] \in Seq(AbiWords) /\ (c.words[x[1]] # Dynamic => Len(c.encode[x]) = c.words[x[1]])
    BY <2>1 DEF x, CodecOk, CodecReads
  <2> QED BY <2>2, <2>3, <2>4, <2>5 DEF x, IsDynamic
<1>3. parts \in [1..n -> Seq(AbiWords)]
  <2>1. parts = [k \in 1..n |-> c.encode[<<types[k], items[k]>>]]
    BY <1>1 DEF EncodedParts
  <2> QED BY <1>2, <2>1
<1>4. parts \in Seq(Seq(AbiWords)) /\ Len(parts) = n
  <2> HIDE DEF n
  <2> QED BY <1>1, <1>3, FunctionIsSeq
<1>5. \A k \in 1..n : hw[k] = IF IsDynamic(c, types[k]) THEN 1 ELSE Len(parts[k])
  BY <1>2 DEF HeadWords
<1>6. hw \in [1..n -> Nat]
  <2>1. \A k \in 1..n : Len(parts[k]) \in Nat
    BY <1>2, LenProperties
  <2>2. hw = [k \in 1..n |-> hw[k]]
    BY DEF HeadWords
  <2>3. \A k \in 1..n : hw[k] \in Nat
    BY <1>5, <2>1
  <2> HIDE DEF hw
  <2> QED BY <2>2, <2>3
<1>7. hw \in Seq(Nat) /\ Len(hw) = n
  <2> HIDE DEF hw, n
  <2> QED BY <1>1, <1>6, FunctionIsSeq
<1> QED BY <1>1, <1>2, <1>4, <1>5, <1>7

\* The heads have the sizes that are counted for them, and the tails follow.
LEMMA ParamsLaid ==
  ASSUME NEW c, CodecOk(c), NEW types, NEW items, ItemsFit(c, types, items),
         NEW parts, parts = EncodedParts(c, types, items),
         NEW heads, heads = Heads(c, types, parts), NEW tails, tails = Tails(c, types, parts)
  PROVE      /\ heads \in Seq(Seq(AbiWords)) /\ Len(heads) = Len(types) /\ Lens(heads) = HeadWords(c, types)
             /\ tails \in Seq(Seq(AbiWords)) /\ Len(tails) = Len(types)
             /\ \A k \in 1..Len(types) :
                  /\ Sums(Lens(tails))[k - 1] \in Nat
                  /\ Offset(c, types, parts, k) = Total(HeadWords(c, types)) + Sums(Lens(tails))[k - 1]
                  /\ Offset(c, types, parts, k) \in Nat
<1> DEFINE n == Len(types)
           hw == HeadWords(c, types)
           off(k) == Offset(c, types, parts, k)
<1>1. /\ n \in Nat /\ parts \in Seq(Seq(AbiWords)) /\ Len(parts) = n /\ hw \in Seq(Nat) /\ Len(hw) = n
      /\ \A k \in 1..n : /\ parts[k] \in Seq(AbiWords)
                         /\ hw[k] = IF IsDynamic(c, types[k]) THEN 1 ELSE Len(parts[k])
  <2> HIDE DEF n, hw
  <2>1. /\ Len(types) \in Nat /\ parts \in Seq(Seq(AbiWords)) /\ Len(parts) = Len(types)
        /\ HeadWords(c, types) \in Seq(Nat) /\ Len(HeadWords(c, types)) = Len(types)
        /\ \A k \in 1..Len(types) :
             /\ types[k] \in c.types /\ parts[k] = c.encode[<<types[k], items[k]>>] /\ parts[k] \in Seq(AbiWords)
             /\ HeadWords(c, types)[k] = IF IsDynamic(c, types[k]) THEN 1 ELSE Len(parts[k])
    BY PartsEncoded
  <2> QED BY <2>1 DEF n, hw
<1>2. \A k \in 1..n : tails[k] = IF IsDynamic(c, types[k]) THEN parts[k] ELSE <<>>
  BY DEF Tails
<1>3. tails \in [1..n -> Seq(AbiWords)]
  <2>1. tails = [k \in 1..n |-> tails[k]]
    BY DEF Tails
  <2>2. \A k \in 1..n : tails[k] \in Seq(AbiWords)
    BY <1>1, <1>2, EmptySeq
  <2> QED BY <2>1, <2>2
<1>4. tails \in Seq(Seq(AbiWords)) /\ Len(tails) = n
  <2> HIDE DEF n
  <2> QED BY <1>1, <1>3, FunctionIsSeq
<1>5. Lens(tails) \in Seq(Nat) /\ Len(Lens(tails)) = n /\ Lens(tails) = [j \in 1..n |-> Len(tails[j])]
  <2>1. Lens(tails) \in Seq(Nat) /\ Len(Lens(tails)) = n
    <3> QED BY <1>4, LensAreNumbers
  <2> QED BY <1>4, <2>1 DEF Lens
<1>6. Total(hw) \in Nat /\ \A k \in 0..n : Sums(Lens(tails))[k] \in Nat
  <2> HIDE DEF hw
  <2> QED BY <1>1, <1>5, SumsGrow
<1>7. ASSUME NEW k \in 1..n
      PROVE  /\ Sums(Lens(tails))[k - 1] \in Nat
             /\ off(k) = Total(hw) + Sums(Lens(tails))[k - 1] /\ off(k) \in Nat
  <2>1. off(k) = Total(hw) + Sums([j \in 1..n |-> Len(tails[j])])[k - 1]
    BY DEF Offset
  <2>2. k - 1 \in 0..n
    BY <1>1
  <2> HIDE DEF hw, off
  <2> QED BY <1>5, <1>6, <2>1, <2>2
<1>8. \A k \in 1..n : heads[k] = IF IsDynamic(c, types[k]) THEN <<Number(off(k))>> ELSE parts[k]
  BY DEF Heads
<1>9. \A k \in 1..n : heads[k] \in Seq(AbiWords) /\ Len(heads[k]) = hw[k]
  <2> HIDE DEF off, hw
  <2> TAKE k \in 1..n
  <2>1. Number(off(k)) \in AbiWords
    BY <1>7, NumberIsWord
  <2>2. <<Number(off(k))>> \in Seq(AbiWords) /\ Len(<<Number(off(k))>>) = 1
    BY <2>1
  <2> QED BY <1>1, <1>8, <2>2
<1>10. heads \in [1..n -> Seq(AbiWords)]
  <2>1. heads = [k \in 1..n |-> heads[k]]
    BY DEF Heads
  <2> QED BY <1>9, <2>1
<1>11. heads \in Seq(Seq(AbiWords)) /\ Len(heads) = n
  <2> HIDE DEF n
  <2> QED BY <1>1, <1>10, FunctionIsSeq
<1>12. Lens(heads) = hw
  <2>1. Lens(heads) = [k \in 1..n |-> Len(heads[k])]
    <3> QED BY <1>11 DEF Lens
  <2>2. hw = [k \in 1..n |-> hw[k]]
    BY DEF HeadWords
  <2> HIDE DEF hw
  <2> QED BY <1>9, <2>1, <2>2
<1> QED BY <1>4, <1>7, <1>11, <1>12

\* The parameters that lie in the data are read as they were written.
LEMMA ParamsRead ==
  ASSUME NEW c, CodecOk(c), NEW types, NEW items, ItemsFit(c, types, items),
         NEW words, words = EncodeParams(c, types, EncodedParts(c, types, items))
  PROVE      /\ words \in Seq(AbiWords)
             /\ \A data \in Seq(AbiWords), at \in Nat :
                  Lies(data, at, words) => ReadParams(c, types, data, at) = items
<1> DEFINE parts == EncodedParts(c, types, items)
           n == Len(types)
           hw == HeadWords(c, types)
           heads == Heads(c, types, parts)
           tails == Tails(c, types, parts)
           head == FlattenSeq(heads)
           tail == FlattenSeq(tails)
           H(k) == Sums(hw)[k - 1]
           T(k) == Sums(Lens(tails))[k - 1]
<1>1. /\ n \in Nat /\ hw \in Seq(Nat) /\ Len(hw) = n
      /\ \A k \in 1..n : parts[k] = c.encode[<<types[k], items[k]>>] /\ parts[k] \in Seq(AbiWords)
  BY PartsEncoded
<1>2. /\ heads \in Seq(Seq(AbiWords)) /\ Len(heads) = n /\ Lens(heads) = hw
      /\ tails \in Seq(Seq(AbiWords)) /\ Len(tails) = n
      /\ \A k \in 1..n : /\ T(k) \in Nat /\ Offset(c, types, parts, k) = Total(hw) + T(k)
                         /\ Offset(c, types, parts, k) \in Nat
  BY ParamsLaid
<1> HIDE DEF parts
<1>3. \A k \in 1..n : /\ heads[k] = IF IsDynamic(c, types[k]) THEN <<Number(Offset(c, types, parts, k))>> ELSE parts[k]
                      /\ IsDynamic(c, types[k]) => tails[k] = parts[k]
  BY DEF Heads, Tails
<1>4. words = head \o tail
  BY DEF EncodeParams, parts
<1> HIDE DEF heads, tails, hw
<1>5. /\ head \in Seq(AbiWords) /\ Len(head) = Total(hw)
      /\ \A k \in 1..n : Lies(head, H(k) + 1, heads[k])
  BY <1>2, FlattenLies
<1>6. tail \in Seq(AbiWords) /\ \A k \in 1..n : Lies(tail, T(k) + 1, tails[k])
  BY <1>2, FlattenLies
<1> HIDE DEF head, tail
<1>7. words \in Seq(AbiWords) /\ Lies(words, 1, head) /\ Lies(words, Len(head) + 1, tail)
  BY <1>4, <1>5, <1>6, LiesInBoth
<1>8. ASSUME NEW data \in Seq(AbiWords), NEW at \in Nat, Lies(data, at, words)
      PROVE  ReadParams(c, types, data, at) = items
  <2>0. Len(head) \in Nat /\ Total(hw) \in Nat /\ at \in Nat /\ at >= 1
    BY <1>5, <1>8, LenProperties DEF Lies
  <2>1. Lies(data, at, head) /\ Lies(data, at + Len(head), tail)
    <3>1. Lies(data, at + 1 - 1, head) /\ Lies(data, at + (Len(head) + 1) - 1, tail)
      BY <1>5, <1>6, <1>7, <1>8, LiesWithin
    <3>2. at + 1 - 1 = at /\ at + (Len(head) + 1) - 1 = at + Len(head)
      BY <2>0
    <3> QED BY <3>1, <3>2
  <2>2. ASSUME NEW k \in 1..n
        PROVE  c.read[<<types[k], data, IF IsDynamic(c, types[k]) THEN at + data[at + H(k)].number ELSE at + H(k)>>]
                 = items[k]
    <3> DEFINE x == <<types[k], items[k]>>
    <3>1. x \in Lowered(c) /\ x[1] = types[k] /\ x[2] = items[k] /\ parts[k] = c.encode[x]
      BY <1>1 DEF ItemsFit
    <3> HIDE DEF x
    <3>2. \A a \in Nat : Lies(data, a, parts[k]) => c.read[<<types[k], data, a>>] = items[k]
      BY <3>1 DEF CodecOk, CodecReads
    <3>3. H(k) \in Nat
      <4>1. k - 1 \in 0..n
        BY <1>1
      <4> QED BY <1>1, <4>1, SumsGrow
    <3> HIDE DEF H, T
    <3>4. Lies(data, at + H(k), heads[k])
      <4>1. heads[k] \in Seq(AbiWords)
        BY <1>2, ElementOfSeq
      <4>2. Lies(head, H(k) + 1, heads[k])
        BY <1>5
      <4>3. Lies(data, at + (H(k) + 1) - 1, heads[k])
        BY <1>5, <2>1, <4>1, <4>2, LiesWithin
      <4>4. at + (H(k) + 1) - 1 = at + H(k)
        BY <2>0, <3>3
      <4> QED BY <4>3, <4>4
    <3>5. CASE ~IsDynamic(c, types[k])
      <4>1. heads[k] = parts[k]
        BY <1>3, <3>5
      <4>2. at + H(k) \in Nat
        BY <2>0, <3>3
      <4> QED BY <3>2, <3>4, <3>5, <4>1, <4>2
    <3>6. CASE IsDynamic(c, types[k])
      <4> DEFINE o == Offset(c, types, parts, k)
      <4>1. heads[k] = <<Number(o)>> /\ o = Total(hw) + T(k) /\ o \in Nat /\ T(k) \in Nat /\ tails[k] = parts[k]
        BY <1>2, <1>3, <3>6 DEF T
      <4> HIDE DEF o
      <4>2. data[at + H(k)].number = o
        <5>1. Len(heads[k]) = 1 /\ heads[k][1] = Number(o)
          BY <4>1
        <5>2. 1 \in 1..Len(heads[k]) /\ (at + H(k)) + 1 - 1 = at + H(k)
          BY <2>0, <3>3, <5>1
        <5>3. data[(at + H(k)) + 1 - 1] = heads[k][1]
          BY <3>4, <5>2 DEF Lies
        <5> QED BY <4>1, <5>1, <5>2, <5>3, NumberIsWord
      <4>3. Lies(data, at + o, parts[k])
        <5>1. Lies(tail, T(k) + 1, parts[k])
          BY <1>6, <4>1 DEF T
        <5>2. Lies(data, (at + Len(head)) + (T(k) + 1) - 1, parts[k])
          BY <1>1, <1>6, <2>1, <5>1, LiesWithin
        <5>3. (at + Len(head)) + (T(k) + 1) - 1 = at + o
          BY <1>5, <2>0, <4>1
        <5> QED BY <5>2, <5>3
      <4>4. at + o \in Nat
        BY <2>0, <4>1
      <4> QED BY <3>2, <3>6, <4>2, <4>3, <4>4
    <3> QED BY <3>5, <3>6
  <2>3. ReadParams(c, types, data, at) = [k \in 1..n |-> items[k]]
    <3>1. ReadParams(c, types, data, at) =
            [k \in 1..n |-> c.read[<<types[k], data, IF IsDynamic(c, types[k]) THEN at + data[at + H(k)].number ELSE at + H(k)>>]]
      BY DEF ReadParams, hw
    <3> HIDE DEF H
    <3> QED BY <2>2, <3>1
  <2>4. items = [k \in 1..n |-> items[k]]
    BY LenProperties DEF ItemsFit
  <2> QED BY <2>3, <2>4
<1> QED BY <1>7, <1>8

\* Parameters that all have a known size are their parts, one behind the other.
LEMMA StaticParamsRead ==
  ASSUME NEW c, CodecOk(c), NEW types, NEW items, ItemsFit(c, types, items),
         \A k \in 1..Len(types) : ~IsDynamic(c, types[k]),
         NEW words, words = FlattenSeq(EncodedParts(c, types, items))
  PROVE      /\ words \in Seq(AbiWords) /\ Len(words) = Total(HeadWords(c, types))
             /\ HeadWords(c, types) \in Seq(Nat) /\ Len(HeadWords(c, types)) = Len(types) /\ Len(types) \in Nat
             /\ \A data \in Seq(AbiWords), at \in Nat :
                  Lies(data, at, words) => ReadParams(c, types, data, at) = items
<1> DEFINE parts == EncodedParts(c, types, items)
           n == Len(types)
           hw == HeadWords(c, types)
           H(k) == Sums(hw)[k - 1]
<1>1. /\ n \in Nat /\ hw \in Seq(Nat) /\ Len(hw) = n /\ parts \in Seq(Seq(AbiWords)) /\ Len(parts) = n
      /\ \A k \in 1..n : /\ parts[k] = c.encode[<<types[k], items[k]>>] /\ parts[k] \in Seq(AbiWords)
                         /\ hw[k] = IF IsDynamic(c, types[k]) THEN 1 ELSE Len(parts[k])
  BY PartsEncoded
<1>2. Lens(parts) = hw
  <2>1. hw = [k \in 1..n |-> hw[k]]
    BY DEF HeadWords
  <2>2. Lens(parts) = [k \in 1..n |-> Len(parts[k])]
    BY <1>1 DEF Lens
  <2> HIDE DEF hw, parts
  <2> QED BY <1>1, <2>1, <2>2
<1> HIDE DEF parts
<1>3. words \in Seq(AbiWords) /\ Len(words) = Total(hw) /\ \A k \in 1..n : Lies(words, H(k) + 1, parts[k])
  <2>1. words = FlattenSeq(parts)
    BY DEF parts
  <2> HIDE DEF hw
  <2> QED BY <1>1, <1>2, <2>1, FlattenLies
<1>4. ASSUME NEW data \in Seq(AbiWords), NEW at \in Nat, Lies(data, at, words)
      PROVE  ReadParams(c, types, data, at) = items
  <2>1. ASSUME NEW k \in 1..n PROVE c.read[<<types[k], data, at + H(k)>>] = items[k]
    <3> DEFINE x == <<types[k], items[k]>>
    <3>1. x \in Lowered(c) /\ x[1] = types[k] /\ x[2] = items[k] /\ parts[k] = c.encode[x]
      BY <1>1 DEF ItemsFit
    <3> HIDE DEF x
    <3>2. \A a \in Nat : Lies(data, a, parts[k]) => c.read[<<types[k], data, a>>] = items[k]
      BY <3>1 DEF CodecOk, CodecReads
    <3>3. H(k) \in Nat
      <4>1. k - 1 \in 0..n
        BY <1>1
      <4> HIDE DEF hw
      <4> QED BY <1>1, <4>1, SumsGrow
    <3>4. parts[k] \in Seq(AbiWords) /\ Lies(words, H(k) + 1, parts[k])
      BY <1>1, <1>3
    <3> HIDE DEF H
    <3>5. Lies(data, at + (H(k) + 1) - 1, parts[k])
      BY <1>3, <1>4, <3>4, LiesWithin
    <3>6. at + (H(k) + 1) - 1 = at + H(k) /\ at + H(k) \in Nat
      BY <3>3
    <3> QED BY <3>2, <3>5, <3>6
  <2>2. ReadParams(c, types, data, at) = [k \in 1..n |-> c.read[<<types[k], data, at + H(k)>>]]
    BY DEF ReadParams
  <2>3. items = [k \in 1..n |-> items[k]]
    BY LenProperties DEF ItemsFit
  <2> HIDE DEF H
  <2> QED BY <2>1, <2>2, <2>3
<1> QED BY <1>1, <1>3, <1>4 DEF parts

\* A text of any length is read back from its padded words.
LEMMA TextRead ==
  ASSUME NEW bytes \in Seq(0..255), NEW words, words = EncodeDynamicBytes(bytes)
  PROVE  /\ words \in Seq(AbiWords)
         /\ \A data \in Seq(AbiWords), at \in Nat : Lies(data, at, words) => ReadText(data, at) = Text(bytes)
<1> DEFINE L == Len(bytes)
           m == (L + 31) \div 32
           byte(k, i) == IF 32 * (k - 1) + i <= L THEN bytes[32 * (k - 1) + i] ELSE 0
           chunks == [k \in 1..m |-> Chunk([i \in 1..32 |-> byte(k, i)])]
           first == <<Number(L)>>
<1>1. L \in Nat /\ \A j \in 1..L : bytes[j] \in 0..255
  BY LenProperties, ElementOfSeq
<1>2. m \in Nat
  BY <1>1
<1>3. \A k \in 1..m, i \in 1..32 : byte(k, i) \in 0..255
  <2> TAKE k \in 1..m, i \in 1..32
  <2> DEFINE j == 32 * (k - 1) + i
  <2>1. j <= L => j \in 1..L
    BY <1>1, <1>2
  <2>2. 0 \in 0..255
    OBVIOUS
  <2>3. byte(k, i) = IF j <= L THEN bytes[j] ELSE 0
    OBVIOUS
  <2> DEFINE b == byte(k, i)
  <2>4. (j <= L => b = bytes[j]) /\ (~(j <= L) => b = 0)
    BY <2>3
  <2> HIDE DEF j, b, byte, L, m
  <2>5. j <= L => bytes[j] \in 0..255
    BY <1>1, <2>1, Zenon
  <2>6. b \in 0..255
    BY <2>2, <2>4, <2>5, Zenon
  <2> QED BY <2>6 DEF b
<1>4. \A k \in 1..m : Chunk([i \in 1..32 |-> byte(k, i)]) \in AbiWords
  <2> HIDE DEF byte, m
  <2> QED BY <1>3 DEF Chunk, AbiWords
<1>5. chunks \in Seq(AbiWords) /\ Len(chunks) = m
  <2>1. chunks \in [1..m -> AbiWords]
    <3> HIDE DEF byte, m
    <3> QED BY <1>4
  <2> HIDE DEF chunks, m
  <2> QED BY <1>2, <2>1, FunctionIsSeq
<1>6. first \in Seq(AbiWords) /\ Len(first) = 1 /\ first[1] = Number(L) /\ Number(L).number = L
  <2>1. Number(L) \in AbiWords /\ Number(L).number = L
    BY <1>1, NumberIsWord
  <2> QED BY <2>1
<1>7. words = first \o chunks
  BY DEF EncodeDynamicBytes
<1> HIDE DEF first
<1>8. words \in Seq(AbiWords) /\ Lies(words, 1, first) /\ Lies(words, Len(first) + 1, chunks)
  <2> HIDE DEF chunks
  <2> QED BY <1>5, <1>6, <1>7, LiesInBoth
<1>9. ASSUME NEW data \in Seq(AbiWords), NEW at \in Nat, Lies(data, at, words)
      PROVE  ReadText(data, at) = Text(bytes)
  <2>1. data[at].number = L
    <3>1. Lies(data, at + 1 - 1, first)
      BY <1>6, <1>8, <1>9, LiesWithin
    <3>2. 1 \in 1..Len(first) /\ at + 1 - 1 = at
      BY <1>6
    <3>3. data[at] = first[1]
      BY <3>1, <3>2 DEF Lies
    <3> QED BY <1>6, <3>3
  <2>2. Lies(data, at + 1, chunks)
    <3>1. Lies(data, at + (Len(first) + 1) - 1, chunks)
      <4> HIDE DEF chunks
      <4> QED BY <1>5, <1>8, <1>9, LiesWithin
    <3>2. at + (Len(first) + 1) - 1 = at + 1
      BY <1>6
    <3> QED BY <3>1, <3>2
  <2>3. ASSUME NEW i \in 1..L
        PROVE  data[at + 1 + ((i - 1) \div 32)].chunk[((i - 1) % 32) + 1] = bytes[i]
    <3> DEFINE q == (i - 1) \div 32
               r == (i - 1) % 32
    <3>1. q \in Nat /\ r \in 0..31 /\ 32 * q + r = i - 1
      <4>1. \A e \in Nat : e \div 32 \in Nat /\ e % 32 \in 0..31 /\ 32 * (e \div 32) + (e % 32) = e
        OBVIOUS
      <4>2. i - 1 \in Nat
        BY <1>1
      <4> QED BY <4>1, <4>2
    <3>2. q + 1 <= m
      BY <1>1
    <3> HIDE DEF q, r, m
    <3>3. q + 1 \in 1..m /\ r + 1 \in 1..32 /\ (at + 1) + (q + 1) - 1 = at + 1 + q
          /\ 32 * ((q + 1) - 1) + (r + 1) = i /\ i <= L
      BY <1>1, <1>2, <3>1, <3>2
    <3>4. data[at + 1 + q] = chunks[q + 1]
      <4>1. data[(at + 1) + (q + 1) - 1] = chunks[q + 1]
        <5> HIDE DEF chunks
        <5> QED BY <1>5, <2>2, <3>3 DEF Lies
      <4> QED BY <3>3, <4>1
    <3>5. chunks[q + 1] = Chunk([j \in 1..32 |-> byte(q + 1, j)])
      <4> HIDE DEF byte
      <4> QED BY <3>3
    <3>6. chunks[q + 1].chunk[r + 1] = byte(q + 1, r + 1)
      <4> HIDE DEF byte
      <4> QED BY <3>3, <3>5 DEF Chunk
    <3>7. byte(q + 1, r + 1) = bytes[i]
      BY <3>3
    <3> QED BY <3>4, <3>6, <3>7 DEF q, r
  <2>4. bytes = [i \in 1..L |-> bytes[i]]
    BY LenProperties
  <2>5. ReadText(data, at) = Text([i \in 1..L |-> data[at + 1 + ((i - 1) \div 32)].chunk[((i - 1) % 32) + 1]])
    BY <2>1 DEF ReadText
  <2> QED BY <2>3, <2>4, <2>5
<1> QED BY <1>8, <1>9

\* An object that has each of the names has each of them once.
LEMMA NamesDiffer ==
  ASSUME NEW names \in Seq(Nat), ToSet(names) = 1..Len(names)
  PROVE  \A i, j \in 1..Len(names) : names[i] = names[j] => i = j
<1> DEFINE N == 1..Len(names)
<1>1. Len(names) \in Nat /\ DOMAIN names = N /\ names = [i \in N |-> names[i]]
  BY LenProperties
<1>2. \A i \in N : names[i] \in N
  BY <1>1 DEF ToSet
<1>3. \A k \in N : \E i \in N : names[i] = k
  BY <1>1 DEF ToSet
<1>4. IsFiniteSet(N)
  <2> DEFINE a == 1
             b == Len(names)
  <2>1. a \in Int /\ b \in Int
    BY <1>1
  <2>2. IsFiniteSet(a..b)
    <3> HIDE DEF a, b
    <3> QED BY <2>1, FS_Interval
  <2> QED BY <2>2
<1> HIDE DEF N
<1>5. names \in [N -> N]
  BY <1>1, <1>2
<1>6. names \in Surjection(N, N)
  BY <1>3, <1>5 DEF Surjection
<1>7. names \in Injection(N, N)
  BY <1>4, <1>6, FS_SurjSameCardinalityImpliesInj
<1> QED BY <1>1, <1>7 DEF Injection, IsInjective, N

\* The field an object gives for a name.
LEMMA FieldNamed ==
  ASSUME NEW v, v.kind = "object", v.names \in Seq(Nat), Len(v.names) = Len(v.items),
         ToSet(v.names) = 1..Len(v.items), NEW k \in 1..Len(v.items)
  PROVE  /\ v.names[k] \in 1..Len(v.items) /\ Field(v, v.names[k]) = v.items[k]
         /\ \E j \in 1..Len(v.items) : Field(v, k) = v.items[j]
<1> DEFINE names == v.names
           n == Len(v.items)
<1> HIDE DEF names, n
<1>1. names \in Seq(Nat) /\ Len(names) = n /\ ToSet(names) = 1..n /\ k \in 1..n
  BY DEF names, n
<1>2. DOMAIN names = 1..n
  BY <1>1, LenProperties
<1>3. names[k] \in 1..n
  BY <1>1, <1>2 DEF ToSet
<1>4. \A i, j \in 1..n : names[i] = names[j] => i = j
  BY <1>1, NamesDiffer
<1>5. (CHOOSE j \in DOMAIN names : names[j] = names[k]) = k
  BY <1>1, <1>2, <1>4
<1>6. \E j \in DOMAIN names : names[j] = k
  BY <1>1 DEF ToSet
<1>7. (CHOOSE j \in DOMAIN names : names[j] = k) \in 1..n
  BY <1>2, <1>6
<1>8. Field(v, names[k]) = v.items[CHOOSE j \in DOMAIN names : names[j] = names[k]]
      /\ Field(v, k) = v.items[CHOOSE j \in DOMAIN names : names[j] = k]
  BY DEF Field, names
<1> QED BY <1>3, <1>5, <1>7, <1>8 DEF names, n

\* A type is of one of the four kinds.
LEMMA TypeKinds ==
  ASSUME NEW c, NEW t \in Types(c)
  PROVE  \/ t.kind = "word"
         \/ t.kind = "bytes"
         \/ t.kind = "tuple" /\ t.parts \in Seq(c.types)
         \/ t.kind = "array" /\ t.of \in c.types /\ t.len \in Nat \cup {Unsized}
BY DEF Types, Word, Bytes

\* A value is of one of the four kinds.
LEMMA ValueKinds ==
  ASSUME NEW c, NEW v \in Values(c)
  PROVE  \/ v.kind = "scalar" /\ v.number \in Nat /\ v = Scalar(v.number)
         \/ v.kind = "text" /\ v.bytes \in Seq(0..255) /\ v = Text(v.bytes)
         \/ v.kind = "list" /\ v.items \in Seq(c.values) /\ v = List(v.items)
         \/ v.kind = "object" /\ v.items \in Seq(c.values) /\ v.names \in Seq(Nat)
<1>1. CASE v \in [kind : {"scalar"}, number : Nat]
  BY <1>1 DEF Scalar
<1>2. CASE v \in [kind : {"text"}, bytes : Seq(0..255)]
  BY <1>2 DEF Text
<1>3. CASE v \in [kind : {"list"}, items : Seq(c.values)]
  BY <1>3 DEF List
<1>4. CASE v \in [kind : {"object"}, names : Seq(Nat), items : Seq(c.values)]
  BY <1>4
<1> QED BY <1>1, <1>2, <1>3, <1>4 DEF Values

\* A list of values is a value.
LEMMA ListIsValue ==
  ASSUME NEW c, NEW items \in Seq(c.values)
  PROVE  /\ List(items) \in Values(c) /\ List(items).kind = "list" /\ List(items).items = items
         /\ ~IsLeaf(List(items)) /\ \A k : Field(List(items), k) = items[k]
BY DEF List, Values, IsLeaf, Field

\* A value of many parts fits a type of many parts, part by part.
Parted(c, t, v) ==
  /\ t.kind \in {"tuple", "array"} /\ v.kind \in {"list", "object"} /\ ~IsLeaf(v)
  /\ v.items \in Seq(c.values) /\ Len(v.items) \in Nat
  /\ PartTypes(t, v) \in Seq(c.types) /\ Len(PartTypes(t, v)) = Len(v.items)
  /\ \A k \in 1..Len(v.items) : <<PartTypes(t, v)[k], Field(v, k)>> \in c.fitting

\* What is accepted for a word is a number, for bytes a text, and for the rest a value in parts.
LEMMA FittingKinds ==
  ASSUME NEW c, NEW t, NEW v, <<t, v>> \in Fitting(c)
  PROVE  /\ t \in Types(c) /\ v \in Values(c) /\ Shaped(t, v)
         /\ \/ t.kind = "word" /\ v.kind = "scalar" /\ v.number \in Nat /\ v = Scalar(v.number)
            \/ t.kind = "bytes" /\ v.kind = "text" /\ v.bytes \in Seq(0..255) /\ v = Text(v.bytes)
            \/ Parted(c, t, v)
<1>1. /\ t \in Types(c) /\ v \in Values(c) /\ Shaped(t, v)
      /\ ~IsLeaf(v) => \A k \in 1..Len(v.items) : <<PartTypes(t, v)[k], Field(v, k)>> \in c.fitting
  BY DEF Fitting
<1>2. CASE t.kind = "word"
  BY <1>1, <1>2, ValueKinds DEF Shaped
<1>3. CASE t.kind = "bytes"
  BY <1>1, <1>3, ValueKinds DEF Shaped
<1>4. CASE t.kind = "tuple"
  <2>1. v.kind \in {"list", "object"} /\ Len(v.items) = Len(t.parts)
    BY <1>1, <1>4 DEF Shaped
  <2>2. v.items \in Seq(c.values) /\ ~IsLeaf(v)
    BY <1>1, <2>1, ValueKinds DEF IsLeaf
  <2>3. t.parts \in Seq(c.types)
    BY <1>1, <1>4, TypeKinds
  <2>4. PartTypes(t, v) = t.parts
    BY <1>4 DEF PartTypes
  <2>5. Len(v.items) \in Nat
    BY <2>2, LenProperties
  <2>6. \A k \in 1..Len(v.items) : <<PartTypes(t, v)[k], Field(v, k)>> \in c.fitting
    BY <1>1, <2>2
  <2>7. Parted(c, t, v)
    BY <1>4, <2>1, <2>2, <2>3, <2>4, <2>5, <2>6 DEF Parted
  <2> QED BY <1>1, <2>7
<1>5. CASE t.kind = "array"
  <2>1. v.kind = "list"
    BY <1>1, <1>5 DEF Shaped
  <2>2. v.items \in Seq(c.values) /\ ~IsLeaf(v)
    BY <1>1, <2>1, ValueKinds DEF IsLeaf
  <2>3. t.of \in c.types
    BY <1>1, <1>5, TypeKinds
  <2> DEFINE pt == PartTypes(t, v)
             n == Len(v.items)
  <2>4. pt = [k \in 1..n |-> t.of]
    BY <1>5 DEF PartTypes, Repeat
  <2>5. n \in Nat
    BY <2>2, LenProperties
  <2>6. \A k \in 1..Len(v.items) : <<PartTypes(t, v)[k], Field(v, k)>> \in c.fitting
    BY <1>1, <2>2
  <2>7. pt \in Seq(c.types) /\ Len(pt) = n
    <3> HIDE DEF pt, n
    <3>1. pt \in [1..n -> c.types]
      BY <2>3, <2>4
    <3> QED BY <2>5, <3>1, FunctionIsSeq
  <2>8. Parted(c, t, v)
    BY <1>5, <2>1, <2>2, <2>5, <2>6, <2>7 DEF Parted
  <2> QED BY <1>1, <2>8
<1> QED BY <1>1, <1>2, <1>3, <1>4, <1>5, TypeKinds

\* A list that fits the type of a shaped value of that length fits it too.
LEMMA ListFits ==
  ASSUME NEW c, NEW t \in Types(c), NEW v, Shaped(t, v), Parted(c, t, v),
         NEW items \in Seq(c.values), Len(items) = Len(v.items),
         \A k \in 1..Len(v.items) : <<PartTypes(t, v)[k], items[k]>> \in c.fitting
  PROVE  /\ <<t, List(items)>> \in Fitting(c) /\ PartTypes(t, List(items)) = PartTypes(t, v)
         /\ Shaped(t, List(items))
<1> DEFINE l == List(items)
<1>1. l \in Values(c) /\ l.kind = "list" /\ l.items = items /\ \A k : Field(l, k) = items[k]
  BY ListIsValue
<1> HIDE DEF l
<1>2. t.kind \in {"tuple", "array"}
  BY DEF Parted
<1>3. PartTypes(t, l) = PartTypes(t, v)
  BY <1>1 DEF PartTypes
<1>4. Shaped(t, l)
  <2>1. CASE t.kind = "tuple"
    BY <1>1, <2>1 DEF Shaped
  <2>2. CASE t.kind = "array"
    BY <1>1, <2>2 DEF Shaped
  <2> QED BY <1>2, <2>1, <2>2
<1>5. \A k \in 1..Len(l.items) : <<PartTypes(t, l)[k], Field(l, k)>> \in c.fitting
  BY <1>1, <1>3
<1>6. <<t, l>> \in Fitting(c)
  BY <1>1, <1>4, <1>5 DEF Fitting
<1> QED BY <1>3, <1>4, <1>6 DEF l

\* The parts of a value, each lowered.
LoweredParts(c, t, v) == [k \in 1..Len(v.items) |-> c.lower[<<PartTypes(t, v)[k], Field(v, k)>>]]

\* What a value is lowered to.
LowersTo(c, t, v, l) == Lower(c)[<<t, v>>] = l

\* Lowering a value of many parts lowers its parts, into a list that needs no more lowering.
LEMMA PartsLowered ==
  ASSUME NEW c, CodecOk(c), NEW t, NEW v, <<t, v>> \in Fitting(c), Parted(c, t, v),
         NEW items, items = LoweredParts(c, t, v)
  PROVE  /\ ItemsFit(c, PartTypes(t, v), items) /\ Len(items) = Len(v.items)
         /\ LowersTo(c, t, v, List(items))
         /\ <<t, List(items)>> \in Fitting(c) /\ PartTypes(t, List(items)) = PartTypes(t, v)
         /\ LowersTo(c, t, List(items), List(items))
         /\ <<v, List(items)>> \in Says(c)
<1> DEFINE n == Len(v.items)
           pt == PartTypes(t, v)
           l == List(items)
<1>1. t \in Types(c) /\ v \in Values(c) /\ Shaped(t, v)
  BY FittingKinds
<1>2. /\ n \in Nat /\ v.items \in Seq(c.values) /\ ~IsLeaf(v) /\ v.kind \in {"list", "object"}
      /\ pt \in Seq(c.types) /\ Len(pt) = n
  BY DEF Parted
<1>3. ASSUME NEW k \in 1..n
      PROVE  /\ <<pt[k], Field(v, k)>> \in c.fitting
             /\ items[k] = c.lower[<<pt[k], Field(v, k)>>] /\ <<pt[k], items[k]>> \in Lowered(c)
             /\ <<Field(v, k), items[k]>> \in c.says
  <2> DEFINE x == <<pt[k], Field(v, k)>>
  <2>1. x \in c.fitting /\ x[1] = pt[k] /\ x[2] = Field(v, k)
    BY DEF Parted
  <2>2. items[k] = c.lower[x]
    BY DEF LoweredParts
  <2> HIDE DEF x
  <2>3. <<x[1], c.lower[x]>> \in Lowered(c) /\ <<x[2], c.lower[x]>> \in c.says
    BY <2>1 DEF CodecOk, CodecLowers
  <2> QED BY <2>1, <2>2, <2>3 DEF x
<1>4. ASSUME NEW k \in 1..n
      PROVE  /\ <<pt[k], items[k]>> \in c.fitting /\ c.lower[<<pt[k], items[k]>>] = items[k]
             /\ items[k] \in c.values
  <2> DEFINE x == <<pt[k], items[k]>>
  <2>1. x \in Lowered(c) /\ x[2] = items[k]
    BY <1>3
  <2> HIDE DEF x
  <2>2. x \in c.fitting /\ c.lower[x] = x[2]
    BY <2>1 DEF Lowered
  <2>3. x \in c.types \X c.values
    BY <2>2 DEF CodecOk, CodecShaped
  <2> QED BY <2>1, <2>2, <2>3 DEF x
<1>5. items \in Seq(c.values) /\ Len(items) = n
  <2>1. items \in [1..n -> c.values]
    BY <1>4 DEF LoweredParts
  <2> HIDE DEF n
  <2> QED BY <1>2, <2>1, FunctionIsSeq
<1>6. ItemsFit(c, pt, items)
  BY <1>2, <1>3, <1>5 DEF ItemsFit
<1>7. Lower(c)[<<t, v>>] = l
  BY <1>2 DEF Lower, LoweredParts
<1>8. <<t, l>> \in Fitting(c) /\ PartTypes(t, l) = pt
  BY <1>1, <1>4, <1>5, ListFits
<1>9. l \in Values(c) /\ l.kind = "list" /\ l.items = items /\ ~IsLeaf(l) /\ \A k : Field(l, k) = items[k]
  BY <1>5, ListIsValue
<1> HIDE DEF l
<1>10. Lower(c)[<<t, l>>] = l
  <2>1. Lower(c)[<<t, l>>] = List([k \in 1..Len(l.items) |-> c.lower[<<PartTypes(t, l)[k], Field(l, k)>>]])
    BY <1>8, <1>9 DEF Lower
  <2>2. Lower(c)[<<t, l>>] = List([k \in 1..n |-> c.lower[<<pt[k], items[k]>>]])
    <3> HIDE DEF pt, n
    <3> QED BY <1>5, <1>8, <1>9, <2>1
  <2>3. [k \in 1..n |-> c.lower[<<pt[k], items[k]>>]] = [k \in 1..n |-> items[k]]
    BY <1>4
  <2>4. [k \in 1..n |-> items[k]] = items
    BY DEF LoweredParts
  <2> QED BY <2>2, <2>3, <2>4 DEF l
<1>11. <<v, l>> \in Says(c)
  <2>1. <<v, l>> \in Values(c) \X Values(c)
    BY <1>1, <1>9
  <2>2. CASE v.kind = "list"
    <3>1. \A k \in 1..n : Field(v, k) = v.items[k]
      BY <2>2 DEF Field
    <3>2. \A k \in 1..n : <<v.items[k], l.items[k]>> \in c.says
      BY <1>3, <1>9, <3>1
    <3>3. Len(l.items) = Len(v.items)
      BY <1>5, <1>9
    <3> QED BY <1>9, <2>1, <2>2, <3>2, <3>3 DEF Says
  <2>3. CASE v.kind = "object"
    <3>1. t.kind = "tuple" /\ v.names \in Seq(Nat) /\ Len(v.names) = n /\ ToSet(v.names) = 1..n
      <4>1. t.kind = "tuple"
        BY <1>1, <2>3 DEF Shaped, Parted
      <4>2. v.names \in Seq(Nat)
        BY <1>1, <2>3, ValueKinds
      <4> QED BY <1>1, <2>3, <4>1, <4>2 DEF Shaped
    <3>2. ASSUME NEW k \in 1..n PROVE <<v.items[k], l.items[v.names[k]]>> \in c.says
      <4>1. v.names[k] \in 1..n /\ Field(v, v.names[k]) = v.items[k]
        BY <2>3, <3>1, FieldNamed
      <4> HIDE DEF n
      <4>2. <<Field(v, v.names[k]), items[v.names[k]]>> \in c.says
        BY <1>3, <4>1
      <4> QED BY <1>9, <4>1, <4>2
    <3>3. Len(l.items) = Len(v.items)
      BY <1>5, <1>9
    <3> QED BY <1>9, <2>1, <2>3, <3>2, <3>3 DEF Says
  <2> QED BY <1>2, <2>2, <2>3
<1> QED BY <1>5, <1>6, <1>7, <1>8, <1>10, <1>11 DEF l, LowersTo

\* The size of a type that has one, and that its parts have one then.
LEMMA SizeOfType ==
  ASSUME NEW c, CodecShaped(c), NEW t \in Types(c)
  PROVE  /\ StaticWords(c)[t] \in Nat \cup {Dynamic}
         /\ t.kind = "word" => StaticWords(c)[t] = 1
         /\ t.kind = "bytes" => StaticWords(c)[t] = Dynamic
         /\ (t.kind = "tuple" /\ StaticWords(c)[t] # Dynamic) =>
              /\ \A k \in 1..Len(t.parts) : ~IsDynamic(c, t.parts[k])
              /\ StaticWords(c)[t] = Total([k \in 1..Len(t.parts) |-> c.words[t.parts[k]]])
         /\ (t.kind = "array" /\ StaticWords(c)[t] # Dynamic) =>
              /\ t.len \in Nat /\ ~IsDynamic(c, t.of) /\ c.words[t.of] \in Nat
              /\ StaticWords(c)[t] = c.words[t.of] * t.len
<1> DEFINE w == StaticWords(c)[t]
<1>1. w = CASE t.kind = "word"  -> 1
       [] t.kind = "bytes" -> Dynamic
       [] t.kind = "tuple" ->
            IF \E k \in 1..Len(t.parts) : c.words[t.parts[k]] = Dynamic THEN Dynamic
            ELSE Total([k \in 1..Len(t.parts) |-> c.words[t.parts[k]]])
       [] t.kind = "array" ->
            IF t.len = Unsized \/ c.words[t.of] = Dynamic THEN Dynamic ELSE c.words[t.of] * t.len
  BY DEF StaticWords
<1> HIDE DEF w
<1>2. CASE t.kind = "word"
  <2>1. w = 1
    BY <1>1, <1>2
  <2> QED BY <1>2, <2>1 DEF w
<1>3. CASE t.kind = "bytes"
  <2>1. w = Dynamic
    BY <1>1, <1>3
  <2> QED BY <1>3, <2>1 DEF w
<1>4. CASE t.kind = "tuple"
  <2> DEFINE n == Len(t.parts)
             s == [k \in 1..n |-> c.words[t.parts[k]]]
  <2>1. w = IF \E k \in 1..n : c.words[t.parts[k]] = Dynamic THEN Dynamic ELSE Total(s)
    BY <1>1, <1>4
  <2>2. n \in Nat /\ \A k \in 1..n : t.parts[k] \in c.types
    BY <1>4, TypeKinds, LenProperties, ElementOfSeq
  <2>3. CASE \E k \in 1..n : c.words[t.parts[k]] = Dynamic
    <3>1. w = Dynamic
      BY <2>1, <2>3
    <3> QED BY <1>4, <3>1 DEF w
  <2>4. CASE ~ \E k \in 1..n : c.words[t.parts[k]] = Dynamic
    <3>1. w = Total(s)
      BY <2>1, <2>4
    <3>2. \A k \in 1..n : c.words[t.parts[k]] \in Nat
      BY <2>2, <2>4 DEF CodecShaped
    <3>3. s \in [1..n -> Nat]
      BY <3>2
    <3>4. Total(s) \in Nat
      <4> HIDE DEF s, n
      <4>1. s \in Seq(Nat)
        BY <2>2, <3>3, FunctionIsSeq
      <4> QED BY <4>1, SumsGrow
    <3>5. \A k \in 1..n : ~IsDynamic(c, t.parts[k])
      BY <2>4 DEF IsDynamic
    <3> HIDE DEF s
    <3> QED BY <1>4, <3>1, <3>4, <3>5 DEF w, s
  <2> QED BY <2>3, <2>4
<1>5. CASE t.kind = "array"
  <2>1. w = IF t.len = Unsized \/ c.words[t.of] = Dynamic THEN Dynamic ELSE c.words[t.of] * t.len
    BY <1>1, <1>5
  <2>2. t.of \in c.types /\ t.len \in Nat \cup {Unsized}
    BY <1>5, TypeKinds
  <2>3. CASE t.len = Unsized \/ c.words[t.of] = Dynamic
    <3>1. w = Dynamic
      BY <2>1, <2>3
    <3> QED BY <1>5, <3>1 DEF w
  <2>4. CASE ~(t.len = Unsized \/ c.words[t.of] = Dynamic)
    <3>1. w = c.words[t.of] * t.len /\ t.len \in Nat /\ ~IsDynamic(c, t.of)
      BY <2>1, <2>2, <2>4 DEF IsDynamic
    <3>2. c.words[t.of] \in Nat
      BY <2>2, <2>4 DEF CodecShaped
    <3>3. \A a, b \in Nat : a * b \in Nat
      OBVIOUS
    <3>4. w \in Nat
      BY <3>1, <3>2, <3>3
    <3> QED BY <1>5, <3>1, <3>2, <3>4 DEF w
  <2> QED BY <2>3, <2>4
<1> QED BY <1>2, <1>3, <1>4, <1>5, TypeKinds

\* What a value of many parts that needs no lowering is made of.
LEMMA CanonicalParts ==
  ASSUME NEW c, CodecOk(c), NEW t, NEW v, <<t, v>> \in Fitting(c), Parted(c, t, v), LowersTo(c, t, v, v)
  PROVE  /\ v = List(v.items) /\ v.kind = "list" /\ ItemsFit(c, PartTypes(t, v), v.items)
         /\ Len(v.items) \in Nat
         /\ t.kind = "tuple" => PartTypes(t, v) = t.parts
         /\ t.kind = "array" => /\ PartTypes(t, v) = Repeat(t.of, Len(v.items))
                                /\ t.len # Unsized => t.len = Len(v.items)
<1>0. PICK items : items = LoweredParts(c, t, v)
  OBVIOUS
<1>1. ItemsFit(c, PartTypes(t, v), items) /\ LowersTo(c, t, v, List(items))
  BY <1>0, PartsLowered
<1>2. v = List(items)
  BY <1>1 DEF LowersTo
<1>3. v.items = items /\ v.kind = "list"
  BY <1>2 DEF List
<1>4. t.kind = "array" => (t.len # Unsized => t.len = Len(v.items))
  <2>1. Shaped(t, v)
    BY FittingKinds
  <2> QED BY <2>1 DEF Shaped
<1>5. Len(v.items) \in Nat
  BY DEF Parted
<1>6. t.kind = "tuple" => PartTypes(t, v) = t.parts
  BY DEF PartTypes
<1>7. t.kind = "array" => PartTypes(t, v) = Repeat(t.of, Len(v.items))
  BY DEF PartTypes
<1> QED BY <1>1, <1>2, <1>3, <1>4, <1>5, <1>6, <1>7

\* What a value is encoded to.
EncodesTo(c, t, v, w) == Encode(c)[<<t, v>>] = w

\* How a value of many parts is encoded and read.
LEMMA PartedCodec ==
  ASSUME NEW c, CodecOk(c), NEW t, NEW v, <<t, v>> \in Fitting(c), Parted(c, t, v), LowersTo(c, t, v, v),
         NEW parts, parts = EncodedParts(c, PartTypes(t, v), v.items)
  PROVE  /\ StaticWords(c)[t] # Dynamic => EncodesTo(c, t, v, FlattenSeq(parts))
         /\ (StaticWords(c)[t] = Dynamic /\ t.kind = "array" /\ t.len = Unsized) =>
              EncodesTo(c, t, v, <<Number(Len(v.items))>> \o EncodeParams(c, PartTypes(t, v), parts))
         /\ (StaticWords(c)[t] = Dynamic /\ ~(t.kind = "array" /\ t.len = Unsized)) =>
              EncodesTo(c, t, v, <<>> \o EncodeParams(c, PartTypes(t, v), parts))
<1>1. v.kind = "list"
  BY CanonicalParts
<1>2. Encode(c)[<<t, v>>] =
        IF StaticWords(c)[t] # Dynamic THEN FlattenSeq(parts)
        ELSE (IF t.kind = "array" /\ t.len = Unsized THEN <<Number(Len(v.items))>> ELSE <<>>)
               \o EncodeParams(c, PartTypes(t, v), parts)
  BY <1>1 DEF Encode
<1> QED BY <1>2 DEF EncodesTo

\* How a contract reads each kind of type.
LEMMA PartedRead ==
  ASSUME NEW c, NEW t \in Types(c), NEW data \in Seq(AbiWords), NEW at \in Nat
  PROVE  /\ t.kind = "word" => Read(c)[<<t, data, at>>] = Scalar(data[at].number)
         /\ t.kind = "bytes" => Read(c)[<<t, data, at>>] = ReadText(data, at)
         /\ t.kind = "tuple" => Read(c)[<<t, data, at>>] = List(ReadParams(c, t.parts, data, at))
         /\ (t.kind = "array" /\ t.len = Unsized) =>
              Read(c)[<<t, data, at>>] = List(ReadParams(c, Repeat(t.of, data[at].number), data, at + 1))
         /\ (t.kind = "array" /\ t.len # Unsized) =>
              Read(c)[<<t, data, at>>] = List(ReadParams(c, Repeat(t.of, t.len), data, at))
<1> DEFINE r == Read(c)[<<t, data, at>>]
<1>1. r = CASE t.kind = "word"  -> Scalar(data[at].number)
           [] t.kind = "bytes" -> ReadText(data, at)
           [] t.kind = "tuple" -> List(ReadParams(c, t.parts, data, at))
           [] t.kind = "array" ->
                IF t.len = Unsized THEN List(ReadParams(c, Repeat(t.of, data[at].number), data, at + 1))
                ELSE List(ReadParams(c, Repeat(t.of, t.len), data, at))
  BY DEF Read
<1> HIDE DEF r
<1>2. t.kind = "word" => r = Scalar(data[at].number)
  BY <1>1
<1>3. t.kind = "bytes" => r = ReadText(data, at)
  BY <1>1
<1>4. t.kind = "tuple" => r = List(ReadParams(c, t.parts, data, at))
  BY <1>1
<1>5. (t.kind = "array" /\ t.len = Unsized) => r = List(ReadParams(c, Repeat(t.of, data[at].number), data, at + 1))
  BY <1>1
<1>6. (t.kind = "array" /\ t.len # Unsized) => r = List(ReadParams(c, Repeat(t.of, t.len), data, at))
  BY <1>1
<1> QED BY <1>2, <1>3, <1>4, <1>5, <1>6 DEF r

\* A value that needs no lowering is encoded in the size of its type, and read back.
ReadsBack(c, t, v) ==
  /\ Encode(c)[<<t, v>>] \in Seq(AbiWords)
  /\ StaticWords(c)[t] # Dynamic => Len(Encode(c)[<<t, v>>]) = StaticWords(c)[t]
  /\ \A data \in Seq(AbiWords), at \in Nat :
       Lies(data, at, Encode(c)[<<t, v>>]) => Read(c)[<<t, data, at>>] = v

\* A number is read back from its word.
LEMMA WordReadsBack ==
  ASSUME NEW c, CodecOk(c), NEW t, NEW v, <<t, v>> \in Fitting(c), t.kind = "word"
  PROVE  ReadsBack(c, t, v)
<1>1. t \in Types(c) /\ v.kind = "scalar" /\ v.number \in Nat /\ v = Scalar(v.number)
  BY FittingKinds DEF Parted
<1> DEFINE n == v.number
           w == Encode(c)[<<t, v>>]
<1>2. w = <<Number(n)>>
  BY <1>1 DEF Encode
<1>3. Number(n) \in AbiWords /\ Number(n).number = n
  BY <1>1, NumberIsWord
<1> HIDE DEF w, n
<1>4. w \in Seq(AbiWords) /\ Len(w) = 1 /\ w[1] = Number(n)
  BY <1>2, <1>3
<1>5. StaticWords(c)[t] = 1
  BY <1>1, SizeOfType DEF CodecOk
<1>6. ASSUME NEW data \in Seq(AbiWords), NEW at \in Nat, Lies(data, at, w)
      PROVE  Read(c)[<<t, data, at>>] = v
  <2>1. data[at] = Number(n)
    <3>1. 1 \in 1..Len(w) /\ at + 1 - 1 = at
      BY <1>4
    <3> QED BY <1>4, <1>6, <3>1 DEF Lies
  <2>2. Read(c)[<<t, data, at>>] = Scalar(data[at].number)
    BY <1>1, PartedRead
  <2> QED BY <1>1, <1>3, <2>1, <2>2 DEF n
<1> QED BY <1>4, <1>5, <1>6 DEF ReadsBack, w

\* A text is read back from its length and its padded words.
LEMMA TextReadsBack ==
  ASSUME NEW c, CodecOk(c), NEW t, NEW v, <<t, v>> \in Fitting(c), t.kind = "bytes"
  PROVE  ReadsBack(c, t, v)
<1>1. t \in Types(c) /\ v.kind = "text" /\ v.bytes \in Seq(0..255) /\ v = Text(v.bytes)
  BY FittingKinds DEF Parted
<1> DEFINE w == Encode(c)[<<t, v>>]
<1>2. w = EncodeDynamicBytes(v.bytes)
  BY <1>1 DEF Encode
<1> HIDE DEF w
<1>3. /\ w \in Seq(AbiWords)
      /\ \A data \in Seq(AbiWords), at \in Nat : Lies(data, at, w) => ReadText(data, at) = Text(v.bytes)
  BY <1>1, <1>2, TextRead
<1>4. StaticWords(c)[t] = Dynamic
  BY <1>1, SizeOfType DEF CodecOk
<1>5. \A data \in Seq(AbiWords), at \in Nat : Read(c)[<<t, data, at>>] = ReadText(data, at)
  BY <1>1, PartedRead
<1> QED BY <1>1, <1>3, <1>4, <1>5 DEF ReadsBack, w

\* Parts of fixed size are read back one behind the other.
LEMMA StaticReadsBack ==
  ASSUME NEW c, CodecOk(c), NEW t, NEW v, <<t, v>> \in Fitting(c), Parted(c, t, v), LowersTo(c, t, v, v),
         StaticWords(c)[t] # Dynamic
  PROVE  ReadsBack(c, t, v)
<1> DEFINE w == Encode(c)[<<t, v>>]
           n == Len(v.items)
           pt == PartTypes(t, v)
           hw == HeadWords(c, pt)
<1>1. /\ v = List(v.items) /\ ItemsFit(c, pt, v.items) /\ n \in Nat
      /\ t.kind = "tuple" => pt = t.parts
      /\ t.kind = "array" => pt = Repeat(t.of, n) /\ (t.len # Unsized => t.len = n)
  BY CanonicalParts
<1>2. t \in Types(c) /\ t.kind \in {"tuple", "array"} /\ Len(pt) = n
  BY FittingKinds DEF Parted
<1>3. w = FlattenSeq(EncodedParts(c, pt, v.items))
  <2>1. PICK parts : parts = EncodedParts(c, PartTypes(t, v), v.items)
    OBVIOUS
  <2>2. EncodesTo(c, t, v, FlattenSeq(parts))
    BY <2>1, PartedCodec
  <2> QED BY <2>1, <2>2 DEF EncodesTo
<1> HIDE DEF w
<1>4. /\ t.kind = "tuple" => /\ \A k \in 1..Len(t.parts) : ~IsDynamic(c, t.parts[k])
                             /\ StaticWords(c)[t] = Total([k \in 1..Len(t.parts) |-> c.words[t.parts[k]]])
      /\ t.kind = "array" => /\ t.len \in Nat /\ ~IsDynamic(c, t.of) /\ c.words[t.of] \in Nat
                             /\ StaticWords(c)[t] = c.words[t.of] * t.len
  BY <1>2, SizeOfType DEF CodecOk
<1>5. t.kind = "array" => t.len # Unsized
  BY <1>4 DEF Unsized
<1>6. \A k \in 1..n : ~IsDynamic(c, pt[k])
  <2>1. CASE t.kind = "tuple"
    BY <1>1, <1>2, <1>4, <2>1
  <2>2. CASE t.kind = "array"
    <3>1. \A k \in 1..n : pt[k] = t.of
      BY <1>1, <2>2 DEF Repeat
    <3> QED BY <1>4, <2>2, <3>1
  <2> QED BY <1>2, <2>1, <2>2
<1> HIDE DEF pt
<1>7. /\ w \in Seq(AbiWords) /\ Len(w) = Total(hw) /\ hw \in Seq(Nat) /\ Len(hw) = n
      /\ \A data \in Seq(AbiWords), at \in Nat : Lies(data, at, w) => ReadParams(c, pt, data, at) = v.items
  <2> HIDE DEF n, hw
  <2>1. \A k \in 1..Len(pt) : ~IsDynamic(c, pt[k])
    BY <1>2, <1>6
  <2>2. /\ w \in Seq(AbiWords) /\ Len(w) = Total(HeadWords(c, pt))
        /\ HeadWords(c, pt) \in Seq(Nat) /\ Len(HeadWords(c, pt)) = Len(pt)
        /\ \A data \in Seq(AbiWords), at \in Nat : Lies(data, at, w) => ReadParams(c, pt, data, at) = v.items
    BY <1>1, <1>3, <2>1, StaticParamsRead
  <2> QED BY <1>2, <2>2 DEF hw
<1>8. hw = [k \in 1..n |-> c.words[pt[k]]]
  BY <1>2, <1>6 DEF HeadWords
<1>9. Total(hw) = StaticWords(c)[t]
  <2>1. CASE t.kind = "tuple"
    <3>1. hw = [k \in 1..Len(t.parts) |-> c.words[t.parts[k]]]
      <4> HIDE DEF hw
      <4> QED BY <1>1, <1>2, <1>8, <2>1
    <3> HIDE DEF hw
    <3> QED BY <1>4, <2>1, <3>1
  <2>2. CASE t.kind = "array"
    <3> DEFINE x == c.words[t.of]
    <3>1. \A k \in 1..n : hw[k] = x
      <4>1. \A k \in 1..n : pt[k] = t.of
        BY <1>1, <2>2 DEF Repeat
      <4> HIDE DEF hw
      <4> QED BY <1>8, <4>1
    <3>2. x \in Nat /\ n \in Nat /\ StaticWords(c)[t] = x * n
      BY <1>1, <1>4, <1>5, <2>2
    <3> HIDE DEF hw, x, n
    <3>3. Total(hw) = x * n
      BY <1>7, <3>1, <3>2, EqualSums
    <3> QED BY <3>2, <3>3
  <2> QED BY <1>2, <2>1, <2>2
<1>10. ASSUME NEW data \in Seq(AbiWords), NEW at \in Nat, Lies(data, at, w)
       PROVE  Read(c)[<<t, data, at>>] = v
  <2>1. ReadParams(c, pt, data, at) = v.items
    BY <1>7, <1>10
  <2>2. Read(c)[<<t, data, at>>] = List(ReadParams(c, pt, data, at))
    <3>1. CASE t.kind = "tuple"
      BY <1>1, <1>2, <3>1, PartedRead
    <3>2. CASE t.kind = "array"
      BY <1>1, <1>2, <1>5, <3>2, PartedRead
    <3> QED BY <1>2, <3>1, <3>2
  <2> QED BY <1>1, <2>1, <2>2
<1> HIDE DEF hw
<1> QED BY <1>7, <1>9, <1>10 DEF ReadsBack, w

\* Parts of which some have no fixed size are read back through their offsets, and a list of
\* any length through its count.
LEMMA DynamicReadsBack ==
  ASSUME NEW c, CodecOk(c), NEW t, NEW v, <<t, v>> \in Fitting(c), Parted(c, t, v), LowersTo(c, t, v, v),
         StaticWords(c)[t] = Dynamic
  PROVE  ReadsBack(c, t, v)
<1> DEFINE w == Encode(c)[<<t, v>>]
           n == Len(v.items)
           pt == PartTypes(t, v)
           p == EncodeParams(c, pt, EncodedParts(c, pt, v.items))
<1>1. /\ v = List(v.items) /\ ItemsFit(c, pt, v.items) /\ n \in Nat
      /\ t.kind = "tuple" => pt = t.parts
      /\ t.kind = "array" => pt = Repeat(t.of, n) /\ (t.len # Unsized => t.len = n)
  BY CanonicalParts
<1>2. t \in Types(c) /\ t.kind \in {"tuple", "array"}
  BY FittingKinds DEF Parted
<1>3. /\ (t.kind = "array" /\ t.len = Unsized) => w = <<Number(n)>> \o p
      /\ ~(t.kind = "array" /\ t.len = Unsized) => w = <<>> \o p
  <2>1. PICK parts : parts = EncodedParts(c, PartTypes(t, v), v.items)
    OBVIOUS
  <2>2. /\ (t.kind = "array" /\ t.len = Unsized) =>
             EncodesTo(c, t, v, <<Number(Len(v.items))>> \o EncodeParams(c, PartTypes(t, v), parts))
        /\ ~(t.kind = "array" /\ t.len = Unsized) =>
             EncodesTo(c, t, v, <<>> \o EncodeParams(c, PartTypes(t, v), parts))
    BY <2>1, PartedCodec
  <2> QED BY <2>1, <2>2 DEF EncodesTo
<1> HIDE DEF w, pt
<1>4. /\ p \in Seq(AbiWords)
      /\ \A data \in Seq(AbiWords), at \in Nat : Lies(data, at, p) => ReadParams(c, pt, data, at) = v.items
  BY <1>1, ParamsRead
<1> HIDE DEF p
<1>5. CASE t.kind = "array" /\ t.len = Unsized
  <2> DEFINE first == <<Number(n)>>
  <2>1. first \in Seq(AbiWords) /\ Len(first) = 1 /\ first[1] = Number(n) /\ Number(n).number = n
    <3>1. Number(n) \in AbiWords /\ Number(n).number = n
      BY <1>1, NumberIsWord
    <3> QED BY <3>1
  <2>2. w = first \o p
    BY <1>3, <1>5
  <2> HIDE DEF first
  <2>3. w \in Seq(AbiWords) /\ Lies(w, 1, first) /\ Lies(w, Len(first) + 1, p)
    BY <1>4, <2>1, <2>2, LiesInBoth
  <2>4. ASSUME NEW data \in Seq(AbiWords), NEW at \in Nat, Lies(data, at, w)
        PROVE  Read(c)[<<t, data, at>>] = v
    <3>1. Lies(data, at + 1 - 1, first) /\ Lies(data, at + (Len(first) + 1) - 1, p)
      BY <1>4, <2>1, <2>3, <2>4, LiesWithin
    <3>2. 1 \in 1..Len(first) /\ at + 1 - 1 = at /\ at + (Len(first) + 1) - 1 = at + 1 /\ at + 1 \in Nat
      BY <2>1
    <3>3. data[at] = first[1]
      BY <3>1, <3>2 DEF Lies
    <3>4. data[at].number = n
      BY <2>1, <3>3
    <3>5. ReadParams(c, pt, data, at + 1) = v.items
      BY <1>4, <3>1, <3>2
    <3>6. Read(c)[<<t, data, at>>] = List(ReadParams(c, Repeat(t.of, data[at].number), data, at + 1))
      BY <1>2, <1>5, PartedRead
    <3> QED BY <1>1, <1>5, <3>4, <3>5, <3>6
  <2> QED BY <2>3, <2>4 DEF ReadsBack, w
<1>6. CASE ~(t.kind = "array" /\ t.len = Unsized)
  <2>1. w = p
    BY <1>3, <1>4, <1>6, ConcatEmptySeq
  <2>2. ASSUME NEW data \in Seq(AbiWords), NEW at \in Nat, Lies(data, at, w)
        PROVE  Read(c)[<<t, data, at>>] = v
    <3>1. ReadParams(c, pt, data, at) = v.items
      BY <1>4, <2>1, <2>2
    <3>2. Read(c)[<<t, data, at>>] = List(ReadParams(c, pt, data, at))
      <4>1. CASE t.kind = "tuple"
        BY <1>1, <1>2, <4>1, PartedRead
      <4>2. CASE t.kind = "array"
        BY <1>1, <1>2, <1>6, <4>2, PartedRead
      <4> QED BY <1>2, <4>1, <4>2
    <3> QED BY <1>1, <3>1, <3>2
  <2> QED BY <1>4, <2>1, <2>2 DEF ReadsBack, w
<1> QED BY <1>5, <1>6

\* What holds for types and values nested so deep holds for those nested one deeper.
LEMMA OverKeepsOk == ASSUME NEW c, CodecOk(c) PROVE CodecOk(Over(c))
<1> DEFINE o == Over(c)
<1>1. /\ o.types = Types(c) /\ o.values = Values(c) /\ o.words = StaticWords(c) /\ o.fitting = Fitting(c)
      /\ o.lower = Lower(c) /\ o.encode = Encode(c) /\ o.read = Read(c) /\ o.says = Says(c)
  BY DEF Over
<1> HIDE DEF o
<1>2. CodecShaped(o)
  <2>1. Fitting(c) \subseteq Types(c) \X Values(c)
    BY DEF Fitting
  <2>2. \A t \in Types(c) : StaticWords(c)[t] \in Nat \cup {Dynamic}
    BY SizeOfType DEF CodecOk
  <2> QED BY <1>1, <2>1, <2>2 DEF CodecShaped
<1>3. ASSUME NEW t, NEW v, <<t, v>> \in Fitting(c)
      PROVE  /\ <<t, Lower(c)[<<t, v>>]>> \in Fitting(c)
             /\ Lower(c)[<<t, Lower(c)[<<t, v>>]>>] = Lower(c)[<<t, v>>]
             /\ <<v, Lower(c)[<<t, v>>]>> \in Says(c)
  <2>1. CASE IsLeaf(v)
    <3>1. Lower(c)[<<t, v>>] = v
      BY <1>3, <2>1 DEF Lower
    <3>2. v \in Values(c)
      BY <1>3, FittingKinds
    <3>3. <<v, v>> \in Says(c)
      BY <2>1, <3>2 DEF Says
    <3> QED BY <1>3, <3>1, <3>3
  <2>2. CASE ~IsLeaf(v)
    <3>1. Parted(c, t, v)
      BY <1>3, <2>2, FittingKinds DEF IsLeaf
    <3>2. PICK items : items = LoweredParts(c, t, v)
      OBVIOUS
    <3>3. /\ LowersTo(c, t, v, List(items)) /\ <<t, List(items)>> \in Fitting(c)
          /\ LowersTo(c, t, List(items), List(items)) /\ <<v, List(items)>> \in Says(c)
      BY <1>3, <3>1, <3>2, PartsLowered
    <3> QED BY <3>3 DEF LowersTo
  <2> QED BY <2>1, <2>2
<1>4. \A x \in Fitting(c) : x = <<x[1], x[2]>>
  BY DEF Fitting
<1>5. CodecLowers(o)
  <2> SUFFICES ASSUME NEW x \in Fitting(c)
               PROVE  <<x[1], Lower(c)[x]>> \in Lowered(o) /\ <<x[2], Lower(c)[x]>> \in Says(c)
    BY <1>1 DEF CodecLowers
  <2> DEFINE t == x[1]
             v == x[2]
             l == Lower(c)[x]
  <2>1. x = <<t, v>>
    BY <1>4
  <2> HIDE DEF t, v
  <2>2. <<t, l>> \in Fitting(c) /\ Lower(c)[<<t, l>>] = l /\ <<v, l>> \in Says(c)
    BY <1>3, <2>1
  <2> HIDE DEF l
  <2> DEFINE y == <<t, l>>
  <2>3. y[2] = l
    OBVIOUS
  <2> HIDE DEF y
  <2>4. y \in Lowered(o)
    BY <1>1, <2>2, <2>3 DEF Lowered, y
  <2> QED BY <2>2, <2>4 DEF y, t, v, l
<1>6. CodecReads(o)
  <2> SUFFICES ASSUME NEW x \in Lowered(o)
               PROVE  /\ Encode(c)[x] \in Seq(AbiWords)
                      /\ StaticWords(c)[x[1]] # Dynamic => Len(Encode(c)[x]) = StaticWords(c)[x[1]]
                      /\ \A data \in Seq(AbiWords), at \in Nat :
                           Lies(data, at, Encode(c)[x]) => Read(c)[<<x[1], data, at>>] = x[2]
    BY <1>1 DEF CodecReads
  <2> DEFINE t == x[1]
             v == x[2]
  <2>1. x \in Fitting(c) /\ Lower(c)[x] = v
    BY <1>1 DEF Lowered
  <2>2. x = <<t, v>>
    BY <1>4, <2>1
  <2> HIDE DEF t, v
  <2>3. <<t, v>> \in Fitting(c) /\ LowersTo(c, t, v, v)
    BY <2>1, <2>2 DEF LowersTo
  <2>4. t.kind = "word" \/ t.kind = "bytes" \/ Parted(c, t, v)
    BY <2>3, FittingKinds
  <2>5. ReadsBack(c, t, v)
    BY <2>3, <2>4, WordReadsBack, TextReadsBack, StaticReadsBack, DynamicReadsBack
  <2> QED BY <2>2, <2>5 DEF ReadsBack, t, v
<1> QED BY <1>2, <1>5, <1>6 DEF CodecOk, o

\* The codecs of all depths are well defined.
LEMMA CodecDefined ==
  /\ Codec[0] = Over(NoCodec)
  /\ \A d \in 1..MaxDepth : Codec[d] = Over(Codec[d - 1])
<1> DEFINE Step(f, d) == Over(IF d = 0 THEN NoCodec ELSE f[d - 1])
           Good(k, f) == f = [d \in 0..k |-> Step(f, d)]
           S == {k \in Nat : ~ \E f : Good(k, f)}
<1>1. S = {}
  <2> SUFFICES ASSUME S # {} PROVE FALSE
    OBVIOUS
  <2>1. PICK x \in S : \A y \in S : x <= y
    BY LeastNat
  <2>2. x \in Nat /\ ~ \E f : Good(x, f)
    BY <2>1
  <2>3. x # 0
    <3>1. \A d \in 0..0 : d = 0
      OBVIOUS
    <3>2. Good(0, [d \in 0..0 |-> Over(NoCodec)])
      BY <3>1
    <3> QED BY <2>2, <3>2
  <2>4. x - 1 \in Nat /\ x - 1 \notin S
    <3>1. x - 1 \in Nat /\ ~ (x <= x - 1)
      BY <2>2, <2>3
    <3> HIDE DEF S
    <3> QED BY <2>1, <3>1
  <2>5. PICK f : Good(x - 1, f)
    BY <2>4
  <2> DEFINE g == [d \in 0..x |-> Step(f, d)]
  <2>6. \A d \in 0 .. x - 1 : g[d] = f[d]
    <3>1. \A d \in 0 .. x - 1 : f[d] = Step(f, d)
      <4> HIDE DEF Step
      <4> QED BY <2>5
    <3>2. \A d \in 0 .. x - 1 : d \in 0..x
      BY <2>2
    <3> HIDE DEF Step
    <3> QED BY <3>1, <3>2
  <2>7. \A d \in 0..x : Step(g, d) = Step(f, d)
    <3>1. \A d \in 0..x : d # 0 => d - 1 \in 0 .. x - 1
      BY <2>2
    <3>2. \A d \in 0..x : d # 0 => g[d - 1] = f[d - 1]
      BY <2>6, <3>1
    <3> HIDE DEF g
    <3> QED BY <3>2
  <2>8. Good(x, g)
    <3> HIDE DEF Step
    <3> QED BY <2>7
  <2> QED BY <2>2, <2>8
<1>2. \E f : Good(MaxDepth, f)
  BY <1>1, AbiAssumption
<1>3. Codec = CHOOSE f : Good(MaxDepth, f)
  BY DEF Codec
<1>4. Good(MaxDepth, Codec)
  <2> HIDE DEF Good
  <2> QED BY <1>2, <1>3
<1> DEFINE h == Codec
<1>5. \A d \in 0..MaxDepth : h[d] = Step(h, d)
  <2> HIDE DEF h, Step
  <2> QED BY <1>4 DEF h
<1>6. 0 \in 0..MaxDepth /\ \A d \in 1..MaxDepth : d \in 0..MaxDepth /\ d # 0
  BY AbiAssumption
<1> HIDE DEF h
<1> QED BY <1>5, <1>6 DEF h

\* Nothing is claimed of parts nested in a word.
LEMMA NoCodecOk == CodecOk(NoCodec)
<1>1. NoCodec.types = {} /\ NoCodec.fitting = {}
  BY DEF NoCodec
<1> QED BY <1>1 DEF CodecOk, CodecShaped, CodecLowers, CodecReads, Lowered

\* Whatever is read back at one depth of nesting is read back one deeper: there is no least
\* depth at which it is not.
LEMMA CodecsOk == \A d \in 0..MaxDepth : CodecOk(Codec[d])
<1> DEFINE S == {d \in Nat : d <= MaxDepth /\ ~CodecOk(Codec[d])}
<1>1. S = {}
  <2> SUFFICES ASSUME S # {} PROVE FALSE
    OBVIOUS
  <2>1. PICK d \in S : \A y \in S : d <= y
    BY LeastNat
  <2>2. d \in Nat /\ d <= MaxDepth /\ ~CodecOk(Codec[d])
    BY <2>1
  <2>3. d # 0
    BY <2>2, CodecDefined, NoCodecOk, OverKeepsOk
  <2>4. d \in 1..MaxDepth /\ d - 1 \in Nat /\ d - 1 <= MaxDepth /\ ~ (d <= d - 1)
    BY <2>2, <2>3, AbiAssumption
  <2>5. CodecOk(Codec[d - 1])
    BY <2>1, <2>4
  <2> QED BY <2>2, <2>4, <2>5, CodecDefined, OverKeepsOk
<1> QED BY <1>1, AbiAssumption

\* So it is for the arguments of a call.
LEMMA ArgCodecOk == CodecOk(ArgCodec)
<1>1. MaxDepth \in 0..MaxDepth
  BY AbiAssumption
<1> QED BY <1>1, CodecsOk DEF ArgCodec

\* What EncodeCall lays out for arguments it accepts is words that say what was asked.
LEMMA EncodedCallFits ==
  ASSUME NEW types \in Seq(ArgCodec.types), NEW args, <<Tuple(types), args>> \in Fitting(ArgCodec),
         NEW lowered, lowered = Lower(ArgCodec)[<<Tuple(types), args>>].items,
         NEW words, words = EncodeParams(ArgCodec, types, EncodedParts(ArgCodec, types, lowered))
  PROVE  /\ words \in Seq(AbiWords)
         /\ <<args, List(ReadParams(ArgCodec, types, words, 1))>> \in Says(ArgCodec)
<1> DEFINE t == Tuple(types)
           c == ArgCodec
<1>1. t.kind = "tuple" /\ t.parts = types
  BY DEF Tuple
<1> HIDE DEF t, c
<1>2. CodecOk(c) /\ <<t, args>> \in Fitting(c) /\ lowered = Lower(c)[<<t, args>>].items
  BY ArgCodecOk DEF c, t
<1>3. Parted(c, t, args)
  BY <1>1, <1>2, FittingKinds
<1>4. PICK items : items = LoweredParts(c, t, args)
  OBVIOUS
<1>5. ItemsFit(c, PartTypes(t, args), items) /\ LowersTo(c, t, args, List(items)) /\ <<args, List(items)>> \in Says(c)
  BY <1>2, <1>3, <1>4, PartsLowered
<1>6. PartTypes(t, args) = types
  BY <1>1 DEF PartTypes
<1>7. lowered = items
  BY <1>2, <1>5 DEF LowersTo, List
<1>8. /\ words \in Seq(AbiWords)
      /\ \A data \in Seq(AbiWords), at \in Nat : Lies(data, at, words) => ReadParams(c, types, data, at) = items
  <2>1. words = EncodeParams(c, types, EncodedParts(c, types, items))
    BY <1>7 DEF c
  <2>2. ItemsFit(c, types, items)
    BY <1>5, <1>6
  <2> QED BY <1>2, <2>1, <2>2, ParamsRead
<1>9. Lies(words, 1, words)
  <2>1. Len(words) \in Nat
    BY <1>8, LenProperties
  <2> QED BY <2>1 DEF Lies
<1>10. ReadParams(c, types, words, 1) = items
  BY <1>8, <1>9
<1> QED BY <1>5, <1>8, <1>10 DEF c

\* The arguments of a call stay those compile_intent was given, and what it encodes is words:
\* numbers, and 32 bytes of a text each.
THEOREM CalldataTyped == AbiSpec => []AbiTypeOK
<1>1. AbiInit => AbiTypeOK
  <2> SUFFICES ASSUME NEW n \in 0..MaxArgs, NEW types \in [1..n -> ArgTypes], NEW args \in ArgValues,
                      Planned(types, args)
               PROVE  AbiTypeOK
    BY DEF AbiInit
  <2>1. types \in [1..n -> ArgCodec.types] /\ n \in Nat /\ args \in Values(ArgCodec)
    BY AbiAssumption
  <2>2. types \in Seq(ArgCodec.types)
    BY <2>1, FunctionIsSeq
  <2>3. <<>> \in Seq(AbiWords)
    BY EmptySeq
  <2> QED BY <2>1, <2>2, <2>3 DEF Planned, AbiTypeOK
<1>2. AbiTypeOK /\ [AbiNext]_abiVars => AbiTypeOK'
  <2> SUFFICES ASSUME AbiTypeOK, [AbiNext]_abiVars PROVE AbiTypeOK'
    OBVIOUS
  <2>1. CASE EncodeCall
    <3> DEFINE typed == <<Tuple(call.types), call.args>>
               lowered == Lower(ArgCodec)[typed].items
               words == EncodeParams(ArgCodec, call.types, EncodedParts(ArgCodec, call.types, lowered))
    <3>1. CASE typed \in Fitting(ArgCodec)
      <4>1. words \in Seq(AbiWords)
        BY <3>1, EncodedCallFits DEF AbiTypeOK
      <4>2. calldata' = [state |-> "encoded", words |-> words] /\ call' = call
        BY <2>1, <3>1 DEF EncodeCall
      <4> HIDE DEF words
      <4> QED BY <4>1, <4>2 DEF AbiTypeOK
    <3>2. CASE typed \notin Fitting(ArgCodec)
      <4>1. calldata' = [calldata EXCEPT !.state = "rejected"] /\ call' = call /\ calldata.state = "typed"
        BY <2>1, <3>2 DEF EncodeCall
      <4> QED BY <4>1 DEF AbiTypeOK
    <3> QED BY <3>1, <3>2
  <2>2. CASE UNCHANGED abiVars
    BY <2>2 DEF abiVars, AbiTypeOK
  <2> QED BY <2>1, <2>2 DEF AbiNext
<1> QED BY <1>1, <1>2, PTL DEF AbiSpec

\* A contract reads back the arguments the agent meant: what compile_intent lays out with
\* lower_call_args and encode_abi_params says, to whoever follows the offsets, what the action
\* was asked to do, however deep the arguments nest and in whatever order fields were written.
THEOREM CalldataAlwaysReadsBack == AbiSpec => []CalldataReadsBack
<1>1. AbiInit => CalldataReadsBack
  BY DEF AbiInit, Planned, CalldataReadsBack
<1>2. AbiTypeOK /\ CalldataReadsBack /\ [AbiNext]_abiVars => CalldataReadsBack'
  <2> SUFFICES ASSUME AbiTypeOK, CalldataReadsBack, [AbiNext]_abiVars PROVE CalldataReadsBack'
    OBVIOUS
  <2>1. CASE EncodeCall
    <3> DEFINE typed == <<Tuple(call.types), call.args>>
               lowered == Lower(ArgCodec)[typed].items
               words == EncodeParams(ArgCodec, call.types, EncodedParts(ArgCodec, call.types, lowered))
    <3>1. CASE typed \in Fitting(ArgCodec)
      <4>1. <<call.args, List(ReadParams(ArgCodec, call.types, words, 1))>> \in Says(ArgCodec)
        BY <3>1, EncodedCallFits DEF AbiTypeOK
      <4>2. calldata'.words = words /\ call' = call
        BY <2>1, <3>1 DEF EncodeCall
      <4> HIDE DEF words
      <4> QED BY <4>1, <4>2 DEF CalldataReadsBack
    <3>2. CASE typed \notin Fitting(ArgCodec)
      <4>1. calldata' = [calldata EXCEPT !.state = "rejected"]
        BY <2>1, <3>2 DEF EncodeCall
      <4>2. calldata'.state # "encoded"
        BY <4>1 DEF AbiTypeOK
      <4> QED BY <4>2 DEF CalldataReadsBack
    <3> QED BY <3>1, <3>2
  <2>2. CASE UNCHANGED abiVars
    BY <2>2 DEF abiVars, CalldataReadsBack
  <2> QED BY <2>1, <2>2 DEF AbiNext
<1> QED BY <1>1, <1>2, CalldataTyped, PTL DEF AbiSpec

(***************************************************************************)
(* All subsystems together.  A step of the one in focus is a step of its   *)
(* own specification and leaves the others alone; the focus never changes. *)
(***************************************************************************)
\* A step is one of each subsystem, or leaves it alone.
LEMMA EffectsStep ==
  ASSUME [EffectsNext]_effectVars
  PROVE  /\ [TopUpNext]_topUpVars /\ [PollNext]_pollVars /\ [RoomNext]_roomVars
         /\ [ToolNext]_toolVars /\ [CounterpartyNext]_counterpartyVars /\ [AbiNext]_abiVars
         /\ [RegistryNext]_registryVars /\ [DiscoveryNext]_discoveryVars
         /\ [StewardNext]_stewardVars /\ [MemoryNext]_memoryVars /\ [DriftNext]_driftVars
         /\ [ArtifactNext]_artifactVars /\ [BirthNext]_birthVars /\ [OutcallNext]_outcallVars
         /\ UNCHANGED focus
  BY DEF EffectsNext, effectVars

\* Every subsystem starts as its own specification says: those that can start in several ways
\* do so when they are in focus.
LEMMA EffectsBegin ==
  ASSUME EffectsInit
  PROVE  /\ TopUpInit /\ PollInit /\ RoomInit /\ ToolInit /\ CounterpartyInit /\ RegistryInit
         /\ DiscoveryInit /\ StewardInit /\ MemoryInit /\ ArtifactInit /\ BirthInit /\ OutcallInit
         /\ focus = "calldata" => AbiInit
         /\ focus = "drift" => DriftInit
  BY DEF EffectsInit

\* Whatever subsystem a behaviour exercises, its state stays typed and within its limits: for
\* any sizes and bounds.
THEOREM EffectsTyped == EffectsSpec => []EffectsTypeOK
<1>1. EffectsSpec => /\ TopUpSpec /\ PollSpec /\ RoomSpec /\ ToolSpec /\ CounterpartySpec
  BY EffectsBegin, EffectsStep, PTL DEF EffectsSpec, TopUpSpec, PollSpec, RoomSpec, ToolSpec, CounterpartySpec
<1>2. EffectsSpec => /\ RegistrySpec /\ DiscoverySpec /\ StewardSpec /\ MemorySpec
  BY EffectsBegin, EffectsStep, PTL DEF EffectsSpec, RegistrySpec, DiscoverySpec, StewardSpec, MemorySpec
<1>3. EffectsSpec => ArtifactSpec /\ BirthSpec /\ OutcallSpec
  BY EffectsBegin, EffectsStep, PTL DEF EffectsSpec, ArtifactSpec, BirthSpec, OutcallSpec
<1>4. EffectsSpec => [](focus = "calldata" => AbiTypeOK)
  <2> DEFINE here == focus = "calldata"
  <2>1. ~here /\ [EffectsNext]_effectVars => ~here'
    BY EffectsStep
  <2>2. EffectsInit /\ here => AbiInit
    BY EffectsBegin
  <2>3. [EffectsNext]_effectVars => [AbiNext]_abiVars
    BY EffectsStep
  <2>4. EffectsSpec /\ here => []AbiTypeOK
    BY <2>2, <2>3, CalldataTyped, PTL DEF EffectsSpec, AbiSpec
  <2>5. EffectsSpec /\ ~here => []~here
    BY <2>1, PTL DEF EffectsSpec
  <2> QED BY <2>4, <2>5, PTL
<1>5. EffectsSpec => [](focus = "drift" => DriftTypeOK)
  <2> DEFINE here == focus = "drift"
  <2>1. ~here /\ [EffectsNext]_effectVars => ~here'
    BY EffectsStep
  <2>2. EffectsInit /\ here => DriftInit
    BY EffectsBegin
  <2>3. [EffectsNext]_effectVars => [DriftNext]_driftVars
    BY EffectsStep
  <2>4. EffectsSpec /\ here => []DriftTypeOK
    BY <2>2, <2>3, DriftTyped, PTL DEF EffectsSpec, DriftSpec
  <2>5. EffectsSpec /\ ~here => []~here
    BY <2>1, PTL DEF EffectsSpec
  <2> QED BY <2>4, <2>5, PTL
<1>6. ASSUME TopUpTypeOK, PollTypeOK, RoomTypeOK, ToolTypeOK, CounterpartyTypeOK, RegistryTypeOK,
             DiscoveryTypeOK, StewardTypeOK, MemoryTypeOK, ArtifactTypeOK, BirthTypeOK,
             OutcallTypeOK, focus = "calldata" => AbiTypeOK, focus = "drift" => DriftTypeOK
      PROVE  EffectsTypeOK
  BY <1>6 DEF EffectsTypeOK
<1> QED BY <1>1, <1>2, <1>3, <1>4, <1>5, <1>6, TopUpTyped, PollTyped, RoomTyped, ToolTyped,
           CounterpartyTyped, RegistryTyped, DiscoveryTyped, StewardTyped, MemoryTyped, ArtifactTyped,
           BirthTyped, OutcallTyped, PTL

=============================================================================

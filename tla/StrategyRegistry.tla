-------------------------- MODULE StrategyRegistry --------------------------
(***************************************************************************)
(* Which strategies an automaton may execute.  Templates are registered    *)
(* from recipes by the agent, by a steward or by a controller, or put in   *)
(* by hand; their calls are compiled against the ABI of a contract role,   *)
(* which all templates of a protocol share.  An ABI that discovery found   *)
(* may be promoted into the registry.                                      *)
(***************************************************************************)
EXTENDS Naturals

CONSTANTS TemplateKeys,      \* the templates of one protocol
          Functions,         \* functions a call of a template may use
          MaxRegistrations   \* bound: registrations, ingestions and steward decisions

ASSUME RegistryAssumption == MaxRegistrations \in Nat

VARIABLES templates,   \* a template per key, its status "none" if there is none
          abi,         \* the ABI artifact of the role: its functions, {} if there is none
          activation,  \* the activation record of a key, "none", "on" or "off"
          revoked,     \* keys with a revocation record
          killed,      \* keys whose kill switch is armed
          withdrawn,   \* history: keys whose revocation was answered with success
          changes      \* bound

registryVars == <<templates, abi, activation, revoked, killed, withdrawn, changes>>

TemplateStatuses == {"none", "Draft", "Active", "Deprecated", "Revoked"}

\* The calls of the first action, and whether its asset effects are bound to its calldata.
Contents == [calls : SUBSET Functions \ {{}}, sound : BOOLEAN]

NoTemplate == [status |-> "none", calls |-> {}, sound |-> FALSE]

RegistryTypeOK ==
  /\ \A k \in TemplateKeys : templates[k].status \in TemplateStatuses
  /\ abi \subseteq Functions /\ activation \in [TemplateKeys -> {"none", "on", "off"}]
  /\ revoked \subseteq TemplateKeys /\ killed \subseteq TemplateKeys
  /\ withdrawn \subseteq TemplateKeys /\ changes \in 0..MaxRegistrations

RegistryInit ==
  /\ templates = [k \in TemplateKeys |-> NoTemplate] /\ abi = {}
  /\ activation = [k \in TemplateKeys |-> "none"] /\ revoked = {} /\ killed = {}
  /\ withdrawn = {} /\ changes = 0

Changes == changes < MaxRegistrations /\ changes' = changes + 1

(***************************************************************************)
(* Compiling.                                                              *)
(***************************************************************************)
Stored(status, content) == [status |-> status, calls |-> content.calls, sound |-> content.sound]

\* Every call names a function of the stored ABI with the selector of its signature.
CallsResolve(template, functions) == template.calls # {} /\ template.calls \subseteq functions

\* compile_intent of a template, as dry_run_compile asks for with synthetic arguments.
Compiles(template, functions) == CallsResolve(template, functions) /\ template.sound

\* The plan of a template compiles and passes the validator.
Executable(k) ==
  /\ Compiles(templates[k], abi)
  /\ templates[k].status = "Active" /\ activation[k] = "on"
  /\ k \notin revoked /\ k \notin killed

(***************************************************************************)
(* Registration.                                                           *)
(***************************************************************************)
\* register_from_recipe: the ABI of the recipe replaces the stored one, also when a call does
\* not resolve; a template that does not compile stays a draft, its activation as it was.
Register(k, functions, content) ==
  /\ Changes /\ functions # {} /\ abi' = functions
  /\ IF ~CallsResolve(content, functions) THEN UNCHANGED <<templates, activation>>
     ELSE LET compiled == Compiles(content, functions)
          IN  /\ templates' = [templates EXCEPT
                                 ![k] = Stored(IF compiled THEN "Active" ELSE "Draft", content)]
              /\ activation' = [activation EXCEPT ![k] = IF compiled THEN "on" ELSE @]
  /\ UNCHANGED <<revoked, killed, withdrawn>>

\* A template put in by hand carries any status.
IngestTemplate(k, status, content) ==
  /\ Changes /\ templates' = [templates EXCEPT ![k] = Stored(status, content)]
  /\ UNCHANGED <<abi, activation, revoked, killed, withdrawn>>

\* By hand, or promoted from a validated result of discovery.
IngestAbi(functions) ==
  /\ Changes /\ functions # {} /\ abi' = functions
  /\ UNCHANGED <<templates, activation, revoked, killed, withdrawn>>

\* upsert_template_status: only of a template there is.
SetStatus(k, status) ==
  templates[k] # NoTemplate /\ templates' = [templates EXCEPT ![k].status = status]

\* The status is stored before the template is compiled.
Activate(k) ==
  /\ Changes /\ SetStatus(k, "Active")
  /\ activation' = [activation EXCEPT ![k] = IF Compiles(templates[k], abi) THEN "on" ELSE @]
  /\ UNCHANGED <<abi, revoked, killed, withdrawn>>

Deprecate(k) ==
  /\ Changes /\ SetStatus(k, "Deprecated") /\ activation' = [activation EXCEPT ![k] = "off"]
  /\ UNCHANGED <<abi, revoked, killed, withdrawn>>

\* A mutant of Revoke: the status and the activation only, which a registration sets again.
RevokeStatusOnly(k) ==
  /\ Changes /\ SetStatus(k, "Revoked") /\ activation' = [activation EXCEPT ![k] = "off"]
  /\ withdrawn' = withdrawn \cup {k}
  /\ UNCHANGED <<abi, revoked, killed>>

\* The revocation is a record of its own beside the status.
Revoke(k) ==
  /\ Changes /\ SetStatus(k, "Revoked") /\ activation' = [activation EXCEPT ![k] = "off"]
  /\ revoked' = revoked \cup {k} /\ withdrawn' = withdrawn \cup {k}
  /\ UNCHANGED <<abi, killed>>

KillSwitch(k) ==
  /\ Changes /\ killed' \in {killed \cup {k}, killed \ {k}} /\ killed' # killed
  /\ UNCHANGED <<templates, abi, activation, revoked, withdrawn>>

RegistryNext ==
  \/ \E k \in TemplateKeys :
       \/ \E functions \in SUBSET Functions, content \in Contents : Register(k, functions, content)
       \/ \E status \in TemplateStatuses \ {"none"}, content \in Contents :
            IngestTemplate(k, status, content)
       \/ Activate(k) \/ Deprecate(k) \/ Revoke(k) \/ KillSwitch(k)
  \/ \E functions \in SUBSET Functions : IngestAbi(functions)

RegistrySpec == RegistryInit /\ [][RegistryNext]_registryVars

(***************************************************************************)
(* Properties.                                                             *)
(***************************************************************************)
\* A revocation stands: once a controller or a steward was told that a template is revoked, no
\* plan of it is executable again, however often it is registered from a recipe (which makes
\* it active and enabled), ingested, activated or has its ABI replaced afterwards.
RevocationStands == \A k \in withdrawn : ~Executable(k)

=============================================================================

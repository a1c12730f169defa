------------------------------ MODULE Steward ------------------------------
(***************************************************************************)
(* The steward of an automaton and the settings it governs.  A command is  *)
(* authorised by a signed proof, which names the command, the steward, the *)
(* next nonce and an expiry, or by the principal the steward has set.  The *)
(* signature of a contract wallet is checked by an outcall, and any number *)
(* of calls may be waiting for one.  What the canister serves over http is *)
(* a certified copy of its settings.                                       *)
(***************************************************************************)
EXTENDS Naturals, FiniteSets

CONSTANTS StewardIds,      \* EVM identities, a chain and an address each
          ProofTtl,        \* STEWARD_DIRECT_MESSAGE_PROOF_TTL_NS
          Asked,           \* bound: the commands that are asked for
          MaxProofs,       \* bound: proofs signed
          MaxCalls,        \* bound: steward_execute calls
          MaxRotations,    \* bound: changes by a controller, upgrades included
          MaxStewardTime   \* bound: clock

VARIABLES steward,     \* active_steward
          nonce,       \* steward_nonce.next_nonce
          proofs,      \* proofs the stewards have signed
          verifying,   \* steward_execute calls that wait for isValidSignature
          stored,      \* the settings
          certified,   \* the settings as the http routes serve them
          moment,      \* clock
          tenure,      \* history: rotations of the steward
          executions,  \* history: commands executed on a proof
          calls,       \* bound: steward_execute calls so far
          rotations    \* bound: a controller's changes so far

stewardVars == <<steward, nonce, proofs, verifying, stored, certified, moment, tenure,
                 executions, calls, rotations>>

\* What a command does: change a setting, the steward or its principal.
Commands == [kind : {"Inference", "Evm"}, to : {"a", "b", "malformed"}]
              \cup [kind : {"UpdateSteward"}, to : StewardIds]
              \cup [kind : {"SetPrincipal"}, to : {"p", "none"}]

ASSUME AskedAssumption == Asked \subseteq Commands
ASSUME StewardAssumption == ProofTtl \in Nat /\ MaxCalls \in Nat /\ MaxStewardTime \in Nat

Principals == {"p", "none"}

\* EvmStewardProof.
Proofs == [id : StewardIds, command : Commands, nonce : 0..MaxCalls,
           expires : 0..(MaxStewardTime + ProofTtl)]

\* The settings of the inference, and those of the chain with the cursor of the inbox.
StoredSettings == [inference : {"a", "b"}, evm : {"a", "b"}, cursor : 0..1]

StewardTypeOK ==
  /\ steward \in [id : StewardIds, enabled : BOOLEAN, principal : Principals]
  /\ nonce \in 0..MaxCalls /\ proofs \subseteq Proofs
  /\ \A c \in verifying : c.proof \in proofs
  /\ stored \in StoredSettings /\ certified \in StoredSettings

\* apply_init_args and the spawn bootstrap: the steward that paid for the automaton, and the
\* settings of its spawn; the routes are certified last.
StewardInit ==
  /\ steward \in [id : StewardIds, enabled : {TRUE}, principal : {"none"}] /\ nonce = 0
  /\ stored = [inference |-> "a", evm |-> "a", cursor |-> 0] /\ certified = stored
  /\ proofs = {} /\ verifying = {} /\ moment = 0 /\ tenure = 0 /\ executions = {}
  /\ calls = 0 /\ rotations = 0

(***************************************************************************)
(* Settings.                                                               *)
(***************************************************************************)
\* init_certification: every route is built again from what is stored now.
Certified(settings) == certified' = settings

\* Urls, addresses, keys and limits are checked; what is refused changes nothing.
Accepted(value) == value # "malformed"

\* The setters of provider, model, key, base url, reasoning and proxy; each certifies.
SetInference(value) ==
  LET settings == IF Accepted(value) THEN [stored EXCEPT !.inference = value] ELSE stored
  IN  stored' = settings /\ IF Accepted(value) THEN Certified(settings) ELSE UNCHANGED certified

\* Another chain: the cursor of the inbox starts again.
CursorAfter(value) == IF value = stored.evm THEN stored.cursor ELSE 0

\* The setters of the chain, its endpoints and the inbox.  None of them certifies.
SetEvm(value) ==
  /\ stored' = IF Accepted(value)
                 THEN [stored EXCEPT !.evm = value, !.cursor = CursorAfter(value)] ELSE stored
  /\ UNCHANGED certified

\* What a query and what an update call reads of a setting.
Served(setting) == certified[setting]
ServedByUpdate(setting) == stored[setting]

\* set_active_steward_with_nonce_reset_on_rotation: a new identity starts at nonce 0 and has
\* no principal yet.
Rotated(id) == steward.id # id

SetSteward(id, enabled, next) ==
  /\ steward' = [id |-> id, enabled |-> enabled,
                 principal |-> IF Rotated(id) THEN "none" ELSE steward.principal]
  /\ nonce' = IF Rotated(id) THEN 0 ELSE next
  /\ tenure' = IF Rotated(id) THEN tenure + 1 ELSE tenure

SetPrincipal(principal, next) ==
  steward' = [steward EXCEPT !.principal = principal] /\ nonce' = next /\ UNCHANGED tenure

\* dispatch_steward_command, with the nonce the authorisation left: a command that fails has
\* spent its nonce.
Dispatch(command, next) ==
  CASE command.kind = "Inference" ->
         SetInference(command.to) /\ nonce' = next /\ UNCHANGED <<steward, tenure>>
    [] command.kind = "Evm" ->
         SetEvm(command.to) /\ nonce' = next /\ UNCHANGED <<steward, tenure>>
    [] command.kind = "UpdateSteward" ->
         SetSteward(command.to, TRUE, next) /\ UNCHANGED <<stored, certified>>
    [] command.kind = "SetPrincipal" ->
         SetPrincipal(command.to, next) /\ UNCHANGED <<stored, certified>>

(***************************************************************************)
(* Commands on a proof.                                                    *)
(***************************************************************************)
\* The http route that prepares a payload, and the wallet that signs it.
Prepare(command) ==
  /\ steward.enabled
  /\ proofs' = proofs \cup {[id |-> steward.id, command |-> command, nonce |-> nonce,
                             expires |-> moment + ProofTtl]}
  /\ Cardinality(proofs) < MaxProofs /\ proofs' # proofs
  /\ UNCHANGED <<steward, nonce, verifying, stored, certified, moment, tenure, executions,
                 calls, rotations>>

\* The address recovered from the signature over the canonical payload.
Signer(proof) == proof.id

\* prepare_steward_verification: the proof is of the active steward, for the next nonce, and
\* has not expired.
ProofFits(proof) ==
  steward.enabled /\ Signer(proof) = steward.id /\ proof.nonce = nonce /\ moment <= proof.expires

\* A mutant of Consumes: the nonce is not looked at.
ConsumesAnyNonce(proof) == steward.enabled /\ proof.id = steward.id

\* consume_steward_nonce_and_record_usage, after the wait: nonce and identity once more.
Consumes(proof) == proof.nonce = nonce /\ steward.enabled /\ proof.id = steward.id

\* The command of a verified proof is executed, or the call fails.
Consume(proof, call) ==
  IF ~Consumes(proof)
    THEN UNCHANGED <<steward, nonce, stored, certified, tenure, executions>>
    ELSE /\ Dispatch(proof.command, proof.nonce + 1)
         /\ executions' = executions \cup {[tenure |-> tenure, nonce |-> proof.nonce, call |-> call]}

\* steward_execute, by a call or a route, with the key of the address: verified at once.
ExecuteSigned(proof) ==
  /\ calls < MaxCalls /\ calls' = calls + 1
  /\ proof \in proofs /\ ProofFits(proof) /\ Consume(proof, calls)
  /\ UNCHANGED <<proofs, verifying, moment, rotations>>

\* steward_execute of a contract wallet: eth_getCode and isValidSignature are asked for.
ExecuteByContract(proof) ==
  /\ calls < MaxCalls /\ calls' = calls + 1
  /\ proof \in proofs /\ ProofFits(proof)
  /\ verifying' = verifying \cup {[proof |-> proof, call |-> calls]}
  /\ UNCHANGED <<steward, nonce, proofs, stored, certified, moment, tenure, executions, rotations>>

\* The contract's answer: the magic value, or another or none.
ContractAnswers(c) ==
  /\ c \in verifying /\ verifying' = verifying \ {c}
  /\ \/ Consume(c.proof, c.call)
     \/ UNCHANGED <<steward, nonce, stored, certified, tenure, executions>>
  /\ UNCHANGED <<proofs, moment, calls, rotations>>

\* The caller is the principal of an enabled steward.
IngressAuthorized == steward.enabled /\ steward.principal # "none"

\* steward_execute_ingress: by the steward's principal, no nonce needed.
ExecuteIngress(command) ==
  /\ calls < MaxCalls /\ calls' = calls + 1
  /\ IngressAuthorized /\ Dispatch(command, nonce)
  /\ UNCHANGED <<proofs, verifying, moment, executions, rotations>>

(***************************************************************************)
(* Controllers, upgrades, the inbox poller and time.                       *)
(***************************************************************************)
SetByController(value) ==
  /\ rotations < MaxRotations /\ rotations' = rotations + 1
  /\ SetInference(value) \/ SetEvm(value)
  /\ UNCHANGED <<steward, nonce, proofs, verifying, moment, tenure, executions, calls>>

SetStewardAdmin(id, enabled) ==
  /\ rotations < MaxRotations /\ rotations' = rotations + 1
  /\ SetSteward(id, enabled, nonce)
  /\ UNCHANGED <<proofs, verifying, stored, certified, moment, executions, calls>>

\* post_upgrade: the routes are certified again; a call that waits never returns.
Upgrade ==
  /\ rotations < MaxRotations /\ rotations' = rotations + 1
  /\ Certified(stored) /\ verifying' = {}
  /\ UNCHANGED <<steward, nonce, proofs, stored, moment, tenure, executions, calls>>

CursorMoves ==
  /\ stored.cursor = 0 /\ stored' = [stored EXCEPT !.cursor = 1]
  /\ UNCHANGED <<steward, nonce, proofs, verifying, certified, moment, tenure, executions,
                 calls, rotations>>

StewardTime ==
  /\ moment < MaxStewardTime /\ moment' = moment + 1
  /\ UNCHANGED <<steward, nonce, proofs, verifying, stored, certified, tenure, executions,
                 calls, rotations>>

StewardNext ==
  \/ \E command \in Asked : Prepare(command) \/ ExecuteIngress(command)
  \/ \E proof \in proofs : ExecuteSigned(proof) \/ ExecuteByContract(proof)
  \/ \E c \in verifying : ContractAnswers(c)
  \/ \E id \in StewardIds, enabled \in BOOLEAN : SetStewardAdmin(id, enabled)
  \/ \E value \in {"a", "b"} : SetByController(value)
  \/ Upgrade \/ CursorMoves \/ StewardTime

StewardSpec == StewardInit /\ [][StewardNext]_stewardVars

(***************************************************************************)
(* Properties.                                                             *)
(***************************************************************************)
\* A nonce is spent once: while an identity stays the steward, no two commands are executed on
\* proofs with the same nonce, also when several calls wait for the contract's answer at once,
\* the steward changes meanwhile or the answers come in another order.
\* And of the inference settings a query reads, certified, what an update call would, whoever
\* changed them last and whether the command succeeded.
CommandsSpentOnce ==
  /\ \A e, f \in executions : e.tenure = f.tenure /\ e.nonce = f.nonce => e = f
  /\ Served("inference") = ServedByUpdate("inference")

=============================================================================

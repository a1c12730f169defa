---------------------------- MODULE RefundCommand ----------------------------
(***************************************************************************)
(* The steward's refund command (authorize_and_consume and                 *)
(* execute_spawn_steward_command of api/public.rs,                         *)
(* claim_escrow_refund_inner of escrow.rs, the refund branch of            *)
(* broadcast_release_transaction in evm.rs), composed with the spawn       *)
(* executions: both pay out the same claim, share the nonce cursor and the *)
(* signing key, and suspend at every RPC call.                             *)
(*                                                                         *)
(* A command holds a lease with a generation.  A command that comes after  *)
(* the lease ran out takes it over with the next generation, and every     *)
(* write of a suspended command checks that its generation is current.     *)
(***************************************************************************)
EXTENDS SpawnExecution

CONSTANTS Calls,        \* bound: refund commands that can be under way at once
          RefundLease,  \* REFUND_COMMAND_LEASE_MS, in ticks
          MaxGeneration \* bound: generations of a lease

ASSUME RefundAssumption == RefundLease \in Nat /\ MaxGeneration \in Nat

VARIABLES call,   \* call[k]: a suspended refund command
          lease   \* lease[s]: steward_refund_leases, generation 0 for none

refundVars == <<call, lease>>
vars == <<spawnVars, refundVars>>

NoLease == [gen |-> 0, until |-> 0]

CallPcs == {"confirm", "nonce", "sign", "send", "sent"}

TypeOK ==
    /\ SpawnTypeOK
    /\ \A k \in Calls : call[k] = Idle \/ call[k].pc \in CallPcs
    /\ lease \in [Sessions -> [gen : 0 .. MaxGeneration, until : Times]]
    /\ ChainTypeOK([kind : {"release", "refund"}, session : Sessions,
                    nonce : Nonces, by : Canisters \cup Calls])

Init ==
    /\ SpawnInit
    /\ call = [k \in Calls |-> Idle]
    /\ lease = [s \in Sessions |-> NoLease]

-----------------------------------------------------------------------------
\* authorize_and_consume.

\* A claim that finds no command in flight expires the session first.
Claimed(s) ==
    IF lease[s].gen = 0 THEN Apply(sess[s], "SessionExpired", now) ELSE sess[s]

\* validate_escrow_refund_in_state.
MayRefund(r) ==
    r.state \in {"Expired", "Failed"} /\ r.refundable

InFlight(s) == lease[s].gen > 0 /\ now <= lease[s].until

\* The claim is refused; the expiry stays.
ClaimRefused(s) ==
    /\ ~ InFlight(s)
    /\ Claimed(s).pay # "Refunded"
    /\ ~ MayRefund(Claimed(s))
    /\ sess' = [sess EXCEPT ![s] = Claimed(s)]
    /\ UNCHANGED <<now, job, exec, nonceCursor, runtimes, registry, secrets,
                   live, payoutVars, refundVars>>

\* The claim is accepted, and the command runs up to its first await: it looks
\* for the receipt of a transaction a node acknowledged, sends a signed one
\* again, or makes one.
ClaimRefund(k, s) ==
    /\ call[k] = Idle
    /\ ~ InFlight(s)
    /\ lease[s].gen < MaxGeneration
    /\ Claimed(s).pay # "Refunded"
    /\ MayRefund(Claimed(s))
    /\ sess' = [sess EXCEPT ![s] = Claimed(s)]
    /\ lease' = [lease EXCEPT ![s] = [gen |-> @.gen + 1, until |-> Later(now, RefundLease)]]
    /\ LET rec == sess[s].refund
       IN call' = [call EXCEPT ![k] =
                     [pc |-> CASE rec.acked -> "confirm"
                               [] ~ rec.acked /\ rec.tx # NoTx -> "send"
                               [] OTHER -> "nonce",
                      session |-> s, gen |-> lease[s].gen + 1, rec |-> rec,
                      fresh |-> rec.tx = NoTx, at |-> now]]
    /\ UNCHANGED <<now, job, exec, nonceCursor, runtimes, registry, secrets, live, payoutVars>>

\* A session that was refunded answers at once, and clears a lease that was
\* left behind.
ClaimAgain(s) ==
    /\ ~ InFlight(s)
    /\ sess[s].pay = "Refunded"
    /\ lease' = [lease EXCEPT ![s] = NoLease]
    /\ UNCHANGED <<spawnVars, call>>

-----------------------------------------------------------------------------
\* claim_escrow_refund_authorized, between two awaits.

Current(x) == lease[x.session].gen = x.gen

\* The command ends, and clear_refund_in_flight removes its own lease only.
CallEnds(k) ==
    /\ call' = [call EXCEPT ![k] = Idle]
    /\ lease' = IF Current(call[k]) THEN [lease EXCEPT ![call[k].session] = NoLease]
                ELSE lease

CallWaits(k, x) ==
    /\ call' = [call EXCEPT ![k] = x]
    /\ UNCHANGED lease

\* "stale refund command continuation": nothing is written.
CallStale(k) ==
    /\ ~ Current(call[k])
    /\ CallEnds(k)
    /\ UNCHANGED <<sess, nonceCursor, secrets>>

SaveRefund(s, rec) == sess' = [sess EXCEPT ![s].refund = rec]

\* The command fails; a command that made its transaction saves the record.
CallFails(k) ==
    /\ Current(call[k])
    /\ IF call[k].fresh /\ call[k].pc # "nonce"
       THEN SaveRefund(call[k].session, call[k].rec)
       ELSE UNCHANGED sess
    /\ CallEnds(k)
    /\ UNCHANGED <<nonceCursor, secrets>>

\* The pending nonce arrives.  A draft that exists keeps its nonce.
RefundNonce(k) ==
    /\ call[k].pc = "nonce"
    /\ LET x == call[k]
           old == sess[x.session].refund
           nonce == ReservedNonce(PendingNonce)
       IN \/ CallStale(k)
          \/ /\ Current(x)
             /\ old # NoRecord
             /\ CallWaits(k, [x EXCEPT !.pc = "sign", !.rec = Record(old.nonce, NoTx, FALSE)])
             /\ UNCHANGED <<sess, nonceCursor, secrets>>
          \/ /\ Current(x)
             /\ old = NoRecord
             /\ nonce <= MaxNonce
             /\ nonceCursor' = nonce + 1
             /\ SaveRefund(x.session, Record(nonce, NoTx, FALSE))
             /\ CallWaits(k, [x EXCEPT !.pc = "sign", !.rec = Record(nonce, NoTx, FALSE)])
             /\ UNCHANGED secrets
    /\ UNCHANGED <<now, job, exec, runtimes, registry, live, payoutVars>>

\* The signed transaction is saved before it is sent.
RefundSigned(k) ==
    /\ call[k].pc = "sign"
    /\ LET x == call[k]
           rec == Record(x.rec.nonce, Tx("refund", x.session, x.rec.nonce, k), FALSE)
       IN \/ CallStale(k)
          \/ /\ Current(x)
             /\ SaveRefund(x.session, rec)
             /\ CallWaits(k, [x EXCEPT !.pc = "send", !.rec = rec])
             /\ UNCHANGED <<nonceCursor, secrets>>
    /\ UNCHANGED <<now, job, exec, runtimes, registry, live, payoutVars>>

\* A node accepts the transaction; the answer is still on its way.
RefundArrives(k) ==
    /\ call[k].pc = "send"
    /\ Accept(call[k].rec.tx)
    /\ CallWaits(k, [call[k] EXCEPT !.pc = "sent"])
    /\ UNCHANGED <<now, factoryVars, live>>

\* The hash is saved before the receipt is asked for.
RefundSent(k) ==
    /\ call[k].pc = "sent"
    /\ LET x == call[k]
           rec == [x.rec EXCEPT !.acked = TRUE]
       IN \/ CallStale(k)
          \/ /\ Current(x)
             /\ SaveRefund(x.session, rec)
             /\ CallWaits(k, [x EXCEPT !.pc = "confirm", !.rec = rec])
             /\ UNCHANGED <<nonceCursor, secrets>>
    /\ UNCHANGED <<now, job, exec, runtimes, registry, live, payoutVars>>

\* Any of the command's calls fails.  An answer that is lost after a node
\* accepted the transaction is a failure as well.
RefundFails(k) ==
    /\ call[k] # Idle
    /\ CallStale(k) \/ CallFails(k)
    /\ UNCHANGED <<now, job, exec, runtimes, registry, live, payoutVars>>

\* The transaction has no receipt or too few confirmations.
RefundPending(k) ==
    /\ call[k].pc = "confirm"
    /\ LET x == call[k]
       IN \/ CallStale(k)
          \/ /\ Current(x)
             /\ SaveRefund(x.session, x.rec)
             /\ CallEnds(k)
             /\ UNCHANGED <<nonceCursor, secrets>>
    /\ UNCHANGED <<now, job, exec, runtimes, registry, live, payoutVars>>

\* The refund is confirmed: finalize_escrow_refund_in_state, unless the
\* session may no longer be refunded.
RefundConfirmed(k) ==
    /\ call[k].pc = "confirm"
    /\ "confirmed" \in Receipts(call[k].rec.tx)
    /\ LET x == call[k]
           s == x.session
           r == [sess[s] EXCEPT !.refund = x.rec]
       IN \/ CallStale(k)
          \/ /\ Current(x)
             /\ sess' = [sess EXCEPT ![s] =
                          IF r.pay # "Refunded" /\ MayRefund(r)
                          THEN SyncFlags([r EXCEPT !.pay = "Refunded"], x.at) ELSE r]
             /\ secrets' = IF r.pay = "Refunded" \/ MayRefund(r)
                           THEN secrets \ {s} ELSE secrets
             /\ CallEnds(k)
             /\ UNCHANGED nonceCursor
    /\ UNCHANGED <<now, job, exec, runtimes, registry, live, payoutVars>>

\* A trap or an upgrade drops a suspended command; its lease stays.
LoseCall(k) ==
    /\ call[k] # Idle
    /\ call' = [call EXCEPT ![k] = Idle]
    /\ UNCHANGED <<spawnVars, lease>>

-----------------------------------------------------------------------------
RefundStep ==
    \/ \E s \in Sessions : ClaimRefused(s) \/ ClaimAgain(s)
    \/ \E k \in Calls :
          \/ \E s \in Sessions : ClaimRefund(k, s)
          \/ RefundNonce(k) \/ RefundSigned(k)
          \/ RefundArrives(k) \/ RefundSent(k)
          \/ RefundFails(k) \/ RefundPending(k) \/ RefundConfirmed(k)
          \/ LoseCall(k)

Next ==
    \/ (Tick \/ ChainStep \/ SpawnStep) /\ UNCHANGED refundVars
    \/ RefundStep

Spec == Init /\ [][Next]_vars

-----------------------------------------------------------------------------
\* Properties.

\* An automaton is registered, and its session is complete, only when the
\* escrow of the session was released for good, whatever was reorganised and
\* however many executions and refund commands worked on the session; and a
\* session is refunded only when the refund was executed for good: a release
\* that wins the race for the claim never leaves the books saying that the
\* payer got the money back.
BooksFollowTheChain ==
    /\ \A s \in Sessions : sess[s].state = "Complete" => SettledBy(s, "release")
    /\ \A entry \in registry : SettledBy(entry.session, "release")
    /\ \A s \in Sessions : sess[s].pay = "Refunded" => SettledBy(s, "refund")

\* A complete session's release record is the transaction that settled its
\* escrow.  A send whose answer is lost is followed by a second release, and
\* executions overlap: of the releases that were signed only one is executed,
\* and the session never takes the receipt of another one for it.
RecordedReleaseSettled ==
    \A s \in Sessions : sess[s].state = "Complete" =>
        \E i \in 1 .. final : mined[i] = sess[s].rel.tx /\ Succeeded(i)

\* Every signed transaction that exists somewhere.
Signatures ==
    mempool \cup Range(mined)
    \cup {exec[e].draft.tx : e \in {e \in Execs : exec[e] # Idle}}
    \cup {call[k].rec.tx : k \in {k \in Calls : call[k] # Idle}}
    \cup {sess[s].rel.tx : s \in Sessions} \cup {sess[s].refund.tx : s \in Sessions}

\* Two payouts never compete for one nonce: release and refund take their
\* nonces from one cursor, across suspended calls, retries and takeovers.
NonceUnique ==
    \A a, b \in Signatures \ {NoTx} :
        a.nonce = b.nonce => a.kind = b.kind /\ a.session = b.session

\* Once a session is complete or refunded, no execution and no refund command
\* that comes back late changes that.
SettledForGood ==
    \A s \in Sessions :
        /\ sess[s].state = "Complete" => sess'[s].state = "Complete" /\ sess'[s].pay = "Paid"
        /\ sess[s].pay = "Refunded" => sess'[s].pay = "Refunded" /\ sess'[s].state # "Complete"

LateStepsHarmless == [][SettledForGood]_vars

\* "its own operating funds - released to *it*": the escrow of a registered
\* automaton's session was released to the address of that automaton.
ReleasedToTheAutomaton ==
    \A entry \in registry :
        \E i \in 1 .. final :
            /\ mined[i] = Tx("release", entry.session, mined[i].nonce, entry.can)
            /\ Succeeded(i)

\* "stale nested RPC completion is fenced": of the commands under way for a
\* session at most one passes the generation check.
RefundFenced ==
    \A k, l \in Calls :
        (/\ k # l /\ call[k] # Idle /\ call[l] # Idle
         /\ call[k].session = call[l].session)
        => ~ (Current(call[k]) /\ Current(call[l]))

\* "Preserve secrets for retryable paid spawn failures until retry succeeds":
\* a failed session whose retry installs a new canister has its secrets.
SecretsKeptForRetry ==
    \A s \in Sessions : sess[s].retryable /\ ~ Installed(s) => s \in secrets

=============================================================================

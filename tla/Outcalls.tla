------------------------------ MODULE Outcalls ------------------------------
(***************************************************************************)
(* The tools that reach outside the canister: http_fetch and market_fetch  *)
(* (size retries, the domain allow-list, the handshake that remembers      *)
(* which extract works on a market endpoint), web_search (a budget per     *)
(* turn and a plan of smaller retries), the EVM RPC client (primary, then  *)
(* fallback), threshold signing and canister_call.  Every one of them pays *)
(* in cycles before it waits, and two turns can be waiting at once: one    *)
(* whose lease lapsed and its successor.                                   *)
(***************************************************************************)
EXTENDS Naturals, Sequences, FiniteSets, FiniteSetsExt

CONSTANTS
  Hosts,            \* hosts a fetch may name
  MarketHosts,      \* those of a known market provider
  Extracts,         \* extracts for the market endpoint, named by the coin they read
  FirstSize,        \* HTTP_FETCH_INITIAL_RESPONSE_BYTES, in units of cost
  LastSize,         \* HTTP_FETCH_MAX_RESPONSE_BYTES
  SearchCost,       \* cost of one search outcall (a fixed response size)
  RpcCost,          \* cost of one JSON-RPC outcall
  SignCost,         \* cost of a threshold signature
  FirstCycles,      \* the balance at the start
  ReserveFloor,     \* DEFAULT_RESERVE_FLOOR_CYCLES
  TerminalReserve,  \* terminal_budget_reserved_cycles
  SearchesPerTurn,  \* search max_per_turn
  UsageEntries,     \* MAX_SEARCH_TURN_USAGE_ENTRIES
  RetryResults,     \* WEB_SEARCH_RETRY_RESULTS
  StaleAfter,       \* MARKET_ENDPOINT_STALE_FAILURE_THRESHOLD
  MaxOutcallTurns,  \* bound: turns
  MaxOutcallEvents  \* bound: calls begun, settings changed and cycles burned

NoExtract == "none"

\* Three entries: the live turns and one more never fill the table (the code keeps 128).
ASSUME OutcallAssumption ==
  /\ FirstSize \in Nat /\ LastSize \in Nat /\ FirstSize <= LastSize
  /\ SearchCost \in Nat /\ RpcCost \in Nat
  /\ SignCost \in Nat /\ FirstCycles \in Nat /\ ReserveFloor \in Nat /\ TerminalReserve \in Nat
  /\ FirstCycles >= ReserveFloor /\ FirstCycles >= TerminalReserve
  /\ SearchesPerTurn \in Nat /\ UsageEntries \in Nat /\ UsageEntries >= 3
  /\ MaxOutcallTurns \in Nat \ {0}

VARIABLES
  cycles,     \* liquid cycle balance
  ledger,     \* history: cycles spent by checked fetches, by the rest, and unchecked
  allowed,    \* the domain allow-list: enforced or not, and its domains
  permitted,  \* the enabled skills grant the canister_call
  endpoint,   \* memory facts of the market endpoint: status, failure count, extract
  vouched,    \* history: extracts that worked, or that the agent wrote itself
  usage,      \* search reservations of recent turns, oldest first
  searched,   \* history: searches admitted for each turn
  waiting,    \* the call each turn is waiting for
  nowTurn,    \* the latest turn; its predecessor may still be waiting
  terminal,   \* the terminal turn is in progress
  outEvents   \* counts towards MaxOutcallEvents

outcallVars == <<cycles, ledger, allowed, permitted, endpoint, vouched, usage, searched,
                 waiting, nowTurn, terminal, outEvents>>

OutcallTurns == 1..MaxOutcallTurns
NoCall == [tool |-> "none", size |-> 0, left |-> 0, extract |-> NoExtract, stored |-> FALSE]

OutcallInit ==
  /\ cycles = FirstCycles
  /\ ledger = [fetched |-> 0, other |-> 0, unchecked |-> 0]
  /\ allowed = [enforced |-> FALSE, domains |-> {}]
  /\ permitted = TRUE
  /\ endpoint = [status |-> "unverified", failures |-> 0, extract |-> NoExtract]
  /\ vouched = {} /\ usage = <<>> /\ searched = [t \in OutcallTurns |-> 0]
  /\ waiting = [t \in OutcallTurns |-> NoCall]
  /\ nowTurn = 1 /\ terminal = FALSE /\ outEvents = 0

-----------------------------------------------------------------------------
(* Paying. *)

\* affordability_requirements with a safety margin of 2,500 basis points.
Required(cost, floor) == cost + (cost * 2500) \div 10000 + floor
CanAfford(cost, floor) == cycles >= Required(cost, floor)

\* Signing and RPC keep the terminal budget, except in the terminal turn itself.
OperationFloor == IF terminal THEN 0 ELSE TerminalReserve

Pay(cost, account) ==
  /\ cycles' = cycles - cost
  /\ ledger' = [ledger EXCEPT ![account] = @ + cost]

Live(t) == t \in {nowTurn - 1, nowTurn} /\ t >= 1
Event == outEvents < MaxOutcallEvents /\ outEvents' = outEvents + 1
Starts(t) == Live(t) /\ waiting[t] = NoCall /\ Event
Waits(t, call) == waiting' = [waiting EXCEPT ![t] = call]
Answered(t) == Waits(t, NoCall)
Settings == <<allowed, permitted, nowTurn, terminal>>

-----------------------------------------------------------------------------
(* http_fetch and market_fetch. *)

\* Until the list is first set every host is allowed; an empty list allows none.
HostAllowed(host) == ~allowed.enforced \/ host \in allowed.domains

\* A host of a known provider; its path must be one of the provider's API paths.
IsMarket(host) == host \in MarketHosts

\* A mutant of RetryAffordable: the check made for the first, smaller response is trusted.
RetryUnchecked(size) == cycles >= size

\* Each retry asks for twice the response and is checked again.
RetryAffordable(size) == CanAfford(size, ReserveFloor)

\* A host that is not allowed, or too few cycles: the tool fails before any outcall.
FetchRefused(host, size) == ~HostAllowed(host) \/ ~CanAfford(size, ReserveFloor)

StartFetch(t, host) ==
  /\ Starts(t) /\ ~IsMarket(host) /\ ~FetchRefused(host, FirstSize)
  /\ Pay(FirstSize, "fetched")
  /\ Waits(t, [NoCall EXCEPT !.tool = "http_fetch", !.size = FirstSize])
  /\ UNCHANGED <<endpoint, vouched, usage, searched, Settings>>

\* Success: origin and extract are kept, failures reset, the endpoint verified.
HandshakeSucceeds(extract) ==
  /\ endpoint' = [status |-> "verified", failures |-> 0, extract |-> extract]
  /\ vouched' = vouched \cup {extract}

\* Failure: counted on the facts as they are now; too many make the endpoint stale.
HandshakeFails ==
  /\ endpoint' = [endpoint EXCEPT !.failures = @ + 1,
                                  !.status = IF endpoint.failures + 1 >= StaleAfter
                                               THEN "stale" ELSE @]
  /\ UNCHANGED vouched

Verified == endpoint.status = "verified" /\ endpoint.extract # NoExtract

\* The caller's own extract, or the stored one of a verified endpoint.
ExtractFor(own) == IF own = NoExtract /\ Verified THEN endpoint.extract ELSE own

\* An extract must read one of the coins asked for.
InScope(extract, asked) == extract \in asked

\* A call to a market host, by either tool.  Without an extract the tool asks for
\* discovery, and one out of scope is refused: nothing is recorded then.
StartMarketFetch(t, host, own, asked) ==
  /\ Starts(t) /\ IsMarket(host)
  /\ ExtractFor(own) # NoExtract /\ InScope(ExtractFor(own), asked)
  /\ IF FetchRefused(host, FirstSize)
       THEN HandshakeFails /\ UNCHANGED <<cycles, ledger, waiting>>
       ELSE /\ Pay(FirstSize, "fetched")
            /\ Waits(t, [NoCall EXCEPT !.tool = "market_fetch", !.size = FirstSize,
                           !.extract = ExtractFor(own), !.stored = (own = NoExtract)])
            /\ UNCHANGED <<endpoint, vouched>>
  /\ UNCHANGED <<usage, searched, Settings>>

Fetching(t) == waiting[t].tool \in {"http_fetch", "market_fetch"}

Concludes(t, succeeded) ==
  IF waiting[t].tool = "market_fetch"
    THEN IF succeeded THEN HandshakeSucceeds(waiting[t].extract) ELSE HandshakeFails
    ELSE UNCHANGED <<endpoint, vouched>>

\* The body arrived; extracting from it (json_path with its fallbacks, or regex) may fail.
FetchReplies(t, extracted) ==
  /\ Fetching(t)
  /\ Answered(t) /\ Concludes(t, extracted)
  /\ UNCHANGED <<cycles, ledger, usage, searched, outEvents, Settings>>

\* An error other than an oversized body ends the fetch.
FetchFails(t) ==
  /\ Fetching(t)
  /\ Answered(t) /\ Concludes(t, FALSE)
  /\ UNCHANGED <<cycles, ledger, usage, searched, outEvents, Settings>>

\* The body was too large: retry with twice the limit, while there is a larger one and
\* it can be paid.
FetchTooLarge(t) ==
  LET larger == Min({2 * waiting[t].size, LastSize})
  IN  /\ Fetching(t)
      /\ IF waiting[t].size < LastSize /\ RetryAffordable(larger)
           THEN /\ Pay(larger, "fetched")
                /\ Waits(t, [waiting[t] EXCEPT !.size = larger])
                /\ UNCHANGED <<endpoint, vouched>>
           ELSE Answered(t) /\ Concludes(t, FALSE) /\ UNCHANGED <<cycles, ledger>>
      /\ UNCHANGED <<usage, searched, outEvents, Settings>>

\* The agent rewrites or forgets the facts of the endpoint with remember and forget.
AgentEditsFacts(status, extract) ==
  /\ Event
  /\ endpoint' = [endpoint EXCEPT !.status = status, !.extract = extract]
  /\ vouched' = IF extract = NoExtract THEN vouched ELSE vouched \cup {extract}
  /\ UNCHANGED <<cycles, ledger, usage, searched, waiting, Settings>>

-----------------------------------------------------------------------------
(* web_search. *)

Reserved(t) == LET mine == {i \in DOMAIN usage : usage[i].turn = t}
               IN  IF mine = {} THEN 0 ELSE usage[CHOOSE i \in mine : TRUE].count

\* One more reservation of t; the oldest entries beyond the limit are dropped.
WithReservation(t) ==
  IF Reserved(t) > 0
    THEN [i \in DOMAIN usage |->
            IF usage[i].turn = t THEN [usage[i] EXCEPT !.count = @ + 1] ELSE usage[i]]
    ELSE LET longer == Append(usage, [turn |-> t, count |-> 1])
         IN  IF Len(longer) > UsageEntries THEN Tail(longer) ELSE longer

\* The attempts after an oversized answer: fewer results, then one without domain filters.
RetryPlan(count, scoped) ==
  LET smaller == {<<c, scoped>> : c \in 1..Min({count, RetryResults})}
      bare    == IF scoped THEN {<<1, FALSE>>} ELSE {}
  IN  (smaller \cup bare) \ {<<count, scoped>>}

\* The budget is reserved first: a search without a key, or one the canister cannot pay,
\* has used it.
StartSearch(t, keyed, count, scoped) ==
  /\ Starts(t) /\ Reserved(t) < SearchesPerTurn
  /\ usage' = WithReservation(t)
  /\ searched' = [searched EXCEPT ![t] = @ + 1]
  /\ IF keyed /\ CanAfford(SearchCost, ReserveFloor)
       THEN /\ Pay(SearchCost, "fetched")
            /\ Waits(t, [NoCall EXCEPT !.tool = "web_search",
                           !.left = Cardinality(RetryPlan(count, scoped))])
       ELSE UNCHANGED <<cycles, ledger, waiting>>
  /\ UNCHANGED <<endpoint, vouched, Settings>>

SearchEnds(t) ==
  /\ waiting[t].tool = "web_search" /\ Answered(t)
  /\ UNCHANGED <<cycles, ledger, endpoint, vouched, usage, searched, outEvents, Settings>>

\* The next attempt of the plan, if there is one and it can be paid.
SearchTooLarge(t) ==
  /\ waiting[t].tool = "web_search" /\ waiting[t].left > 0
  /\ CanAfford(SearchCost, ReserveFloor)
  /\ Pay(SearchCost, "fetched")
  /\ Waits(t, [waiting[t] EXCEPT !.left = @ - 1])
  /\ UNCHANGED <<endpoint, vouched, usage, searched, outEvents, Settings>>

-----------------------------------------------------------------------------
(* EVM RPC, signing, canister calls. *)

StartRpc(t) ==
  /\ Starts(t) /\ CanAfford(RpcCost, OperationFloor)
  /\ Pay(RpcCost, "other")
  /\ Waits(t, [NoCall EXCEPT !.tool = "rpc", !.left = 1])
  /\ UNCHANGED <<endpoint, vouched, usage, searched, Settings>>

\* The fallback endpoint is called without a second check; the system alone refuses a
\* call the balance cannot pay.
RpcFallsBack(t) ==
  /\ waiting[t].tool = "rpc" /\ waiting[t].left > 0 /\ cycles >= RpcCost
  /\ Pay(RpcCost, "unchecked")
  /\ Waits(t, [waiting[t] EXCEPT !.left = 0])
  /\ UNCHANGED <<endpoint, vouched, usage, searched, outEvents, Settings>>

StartSign(t) ==
  /\ Starts(t) /\ CanAfford(SignCost, OperationFloor)
  /\ Pay(SignCost, "other")
  /\ Waits(t, [NoCall EXCEPT !.tool = "sign"])
  /\ UNCHANGED <<endpoint, vouched, usage, searched, Settings>>

\* Allowed by an enabled skill; its cost is small and mostly refunded.
StartCanisterCall(t) ==
  /\ Starts(t) /\ permitted
  /\ Waits(t, [NoCall EXCEPT !.tool = "canister_call"])
  /\ UNCHANGED <<cycles, ledger, endpoint, vouched, usage, searched, Settings>>

CallReplies(t) ==
  /\ waiting[t].tool \in {"rpc", "sign", "canister_call"} /\ Answered(t)
  /\ UNCHANGED <<cycles, ledger, endpoint, vouched, usage, searched, outEvents, Settings>>

-----------------------------------------------------------------------------
(* Everything else. *)

\* A trap while the answer is applied drops the call and what it would have recorded.
CallLapses(t) ==
  /\ waiting[t] # NoCall /\ Answered(t)
  /\ UNCHANGED <<cycles, ledger, endpoint, vouched, usage, searched, outEvents, Settings>>

\* The next turn begins; of the turns before, only the last may still be waiting.
NextOutcallTurn ==
  /\ nowTurn < MaxOutcallTurns /\ (nowTurn > 1 => waiting[nowTurn - 1] = NoCall)
  /\ nowTurn' = nowTurn + 1
  /\ UNCHANGED <<cycles, ledger, allowed, permitted, endpoint, vouched, usage, searched,
                 waiting, terminal, outEvents>>

\* The steward sets the allow-list, which is enforced from then on, or a skill.
SetAllowed(domains, grant) ==
  /\ Event
  /\ allowed' = [enforced |-> TRUE, domains |-> domains] /\ permitted' = grant
  /\ UNCHANGED <<cycles, ledger, endpoint, vouched, usage, searched, waiting, nowTurn, terminal>>

BeginTerminal ==
  /\ ~terminal /\ terminal' = TRUE
  /\ UNCHANGED <<cycles, ledger, allowed, permitted, endpoint, vouched, usage, searched,
                 waiting, nowTurn, outEvents>>

\* Computation and storage burn cycles all the time.
BurnCycles ==
  /\ Event /\ cycles > 0
  /\ Pay(1, "unchecked")
  /\ UNCHANGED <<endpoint, vouched, usage, searched, waiting, Settings>>

OutcallNext ==
  \/ \E t \in OutcallTurns :
       \/ \E host \in Hosts : \/ StartFetch(t, host)
                              \/ \E own \in Extracts \cup {NoExtract}, asked \in SUBSET Extracts :
                                    StartMarketFetch(t, host, own, asked)
       \/ \E extracted \in BOOLEAN : FetchReplies(t, extracted)
       \/ FetchFails(t) \/ FetchTooLarge(t)
       \/ \E keyed \in BOOLEAN, count \in 1..2, scoped \in BOOLEAN :
             StartSearch(t, keyed, count, scoped)
       \/ SearchEnds(t) \/ SearchTooLarge(t) \/ StartRpc(t) \/ RpcFallsBack(t)
       \/ StartSign(t) \/ StartCanisterCall(t) \/ CallReplies(t) \/ CallLapses(t)
  \/ \E status \in {"verified", "unverified"}, extract \in Extracts \cup {NoExtract} :
        AgentEditsFacts(status, extract)
  \/ \E domains \in SUBSET Hosts, grant \in BOOLEAN : SetAllowed(domains, grant)
  \/ NextOutcallTurn \/ BeginTerminal \/ BurnCycles

OutcallSpec == OutcallInit /\ [][OutcallNext]_outcallVars

OutcallTypeOK ==
  /\ cycles \in 0..FirstCycles
  /\ endpoint.status \in {"unverified", "verified", "stale"}
  /\ \A t \in OutcallTurns : waiting[t].size \in 0..LastSize
  /\ Len(usage) <= UsageEntries /\ nowTurn \in OutcallTurns

\* However fetches, searches, retries and fallbacks of two overlapping turns interleave:
\* fetches and searches alone never take the balance below the reserve floor, nor do
\* signatures and RPC calls take it below the terminal budget before the terminal turn
\* (what an unchecked RPC fallback and idle burning spend comes on top); no turn searches
\* more often than its budget; and an extract the runtime fills in by itself is one that
\* worked before or that the agent wrote (cycle_admission.rs on the reserve floor;
\* reserve_web_search_budget; prepare_market_fetch_handshake).
OutcallsPaidFor ==
  /\ cycles + ledger.other + ledger.unchecked >= ReserveFloor
  /\ terminal \/ cycles + ledger.fetched + ledger.unchecked >= TerminalReserve
  /\ \A t \in OutcallTurns : searched[t] <= SearchesPerTurn
  /\ \A t \in OutcallTurns : waiting[t].stored => waiting[t].extract \in vouched

=============================================================================

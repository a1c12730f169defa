------------------------ MODULE MC_AutomatonEffects ------------------------
(***************************************************************************)
(* The subsystems of an automaton and of the factory that keep books of    *)
(* their own.  They share no state, so a behaviour exercises one of them,  *)
(* its focus, while the others stay in one initial state.                  *)
(***************************************************************************)
EXTENDS CycleTopUp, InboxPoll, RoomPoll, ToolRounds, Counterparty, AbiLayout,
        StrategyRegistry, StrategyDiscovery, Steward, Memory, ConstitutionDrift,
        FactoryArtifact, FactoryBirths, Outcalls

VARIABLE focus

effectVars == <<topUpVars, pollVars, roomVars, toolVars, counterpartyVars, abiVars,
                registryVars, discoveryVars, stewardVars, memoryVars, driftVars,
                artifactVars, birthVars, outcallVars, focus>>

\* Of the tools: the calls of a plan, and the kinds of turn, as <<answers a message, periodic,
\* scope of its tools>>.
MCToolCalls == {<<"http_fetch", "a">>, <<"send_eth", "heir">>}
MCTurnKinds == {<<FALSE, TRUE, "Full">>, <<TRUE, TRUE, "Full">>, <<FALSE, FALSE, "Terminal">>}

MCArgTypes == {Word, Bytes, Tuple(<<Word, Bytes>>), Array(Word, Unsized), Array(Word, 0),
               Array(Bytes, 2), Array(Tuple(<<Word, Word>>), 2),
               Array(Tuple(<<Bytes, Word>>), Unsized)}

\* A value of a type nested d deep: a text shorter than a word, as long or longer, a tuple as a
\* list, as an object in the order of the ABI, or as one in the other order.
MCTextLengths == <<0, 31, 32, 33, 2>>

MCValue[d \in 0..MaxDepth + 1] ==
  [x \in Types(IF d = 0 THEN NoCodec ELSE Codec[d - 1]) \X Nat |->
     LET t == x[1]
         seed == x[2]
         Items(types) == [k \in 1..Len(types) |-> MCValue[d - 1][<<types[k], seed + k>>]]
     IN  CASE t.kind = "word"  -> Scalar(6 + seed)
           [] t.kind = "bytes" ->
                Text([k \in 1..MCTextLengths[1 + (seed % 5)] |-> (5 * k + seed) % 256])
           [] t.kind = "array" ->
                List(Items(Repeat(t.of, IF t.len = Unsized THEN seed % 3 ELSE t.len)))
           [] t.kind = "tuple" ->
                LET n == Len(t.parts)
                IN  CASE seed % 3 = 0 -> List(Items(t.parts))
                      [] seed % 3 = 1 -> Object([k \in 1..n |-> k], Items(t.parts))
                      [] OTHER -> Object([k \in 1..n |-> n + 1 - k], Reverse(Items(t.parts)))]

MCArgValues ==
  {MCValue[MaxDepth + 1][<<Tuple(types), seed>>] :
     types \in UNION {[1..n -> MCArgTypes] : n \in 0..MaxArgs}, seed \in 0..5}

MCAsked == {[kind |-> "Inference", to |-> "b"], [kind |-> "Evm", to |-> "b"],
            [kind |-> "Inference", to |-> "malformed"], [kind |-> "UpdateSteward", to |-> "t"],
            [kind |-> "SetPrincipal", to |-> "p"]}

Pinned(name, initial) == focus # name => initial

EffectsInit ==
  /\ focus \in {"top-up", "inbox", "room", "tools", "payments", "calldata", "registry",
               "discovery", "steward", "memory", "drift", "artifact", "births", "outcalls"}
  /\ TopUpInit
  /\ PollInit
  /\ RoomInit
  /\ ToolInit
  /\ CounterpartyInit
  /\ IF focus = "calldata" THEN AbiInit ELSE Planned(<<>>, List(<<>>))
  /\ RegistryInit
  /\ DiscoveryInit /\ Pinned("discovery", discovery = "v")
  /\ StewardInit /\ Pinned("steward", steward.id = "s")
  /\ MemoryInit /\ Pinned("memory", table = "facts")
  /\ IF focus = "drift" THEN DriftInit ELSE Scanning(<<>>, <<>>)
  /\ ArtifactInit /\ Pinned("artifact", artifact.bytes = <<>> /\ artifact.commit = "c")
  /\ BirthInit /\ Pinned("births", \A s \in StrategyIds : repository[s] = "Active")
  /\ OutcallInit

EffectsNext ==
  \/ /\ focus = "top-up" /\ TopUpNext
     /\ UNCHANGED <<focus, pollVars, roomVars, toolVars, counterpartyVars, abiVars, registryVars,
                    discoveryVars, stewardVars, memoryVars, driftVars, artifactVars,
                    birthVars, outcallVars>>
  \/ /\ focus = "inbox" /\ PollNext
     /\ UNCHANGED <<focus, topUpVars, roomVars, toolVars, counterpartyVars, abiVars, registryVars,
                    discoveryVars, stewardVars, memoryVars, driftVars, artifactVars,
                    birthVars, outcallVars>>
  \/ /\ focus = "room" /\ RoomNext
     /\ UNCHANGED <<focus, topUpVars, pollVars, toolVars, counterpartyVars, abiVars, registryVars,
                    discoveryVars, stewardVars, memoryVars, driftVars, artifactVars,
                    birthVars, outcallVars>>
  \/ /\ focus = "tools" /\ ToolNext
     /\ UNCHANGED <<focus, topUpVars, pollVars, roomVars, counterpartyVars, abiVars, registryVars,
                    discoveryVars, stewardVars, memoryVars, driftVars, artifactVars,
                    birthVars, outcallVars>>
  \/ /\ focus = "payments" /\ CounterpartyNext
     /\ UNCHANGED <<focus, topUpVars, pollVars, roomVars, toolVars, abiVars, registryVars,
                    discoveryVars, stewardVars, memoryVars, driftVars, artifactVars,
                    birthVars, outcallVars>>
  \/ /\ focus = "calldata" /\ AbiNext
     /\ UNCHANGED <<focus, topUpVars, pollVars, roomVars, toolVars, counterpartyVars,
                    registryVars, discoveryVars, stewardVars, memoryVars, driftVars,
                    artifactVars, birthVars, outcallVars>>
  \/ /\ focus = "registry" /\ RegistryNext
     /\ UNCHANGED <<focus, topUpVars, pollVars, roomVars, toolVars, counterpartyVars, abiVars,
                    discoveryVars, stewardVars, memoryVars, driftVars, artifactVars,
                    birthVars, outcallVars>>
  \/ /\ focus = "discovery" /\ DiscoveryNext
     /\ UNCHANGED <<focus, topUpVars, pollVars, roomVars, toolVars, counterpartyVars, abiVars,
                    registryVars, stewardVars, memoryVars, driftVars, artifactVars,
                    birthVars, outcallVars>>
  \/ /\ focus = "steward" /\ StewardNext
     /\ UNCHANGED <<focus, topUpVars, pollVars, roomVars, toolVars, counterpartyVars, abiVars,
                    registryVars, discoveryVars, memoryVars, driftVars, artifactVars,
                    birthVars, outcallVars>>
  \/ /\ focus = "memory" /\ MemoryNext
     /\ UNCHANGED <<focus, topUpVars, pollVars, roomVars, toolVars, counterpartyVars, abiVars,
                    registryVars, discoveryVars, stewardVars, driftVars, artifactVars,
                    birthVars, outcallVars>>
  \/ /\ focus = "drift" /\ DriftNext
     /\ UNCHANGED <<focus, topUpVars, pollVars, roomVars, toolVars, counterpartyVars, abiVars,
                    registryVars, discoveryVars, stewardVars, memoryVars, artifactVars,
                    birthVars, outcallVars>>
  \/ /\ focus = "artifact" /\ ArtifactNext
     /\ UNCHANGED <<focus, topUpVars, pollVars, roomVars, toolVars, counterpartyVars, abiVars,
                    registryVars, discoveryVars, stewardVars, memoryVars, driftVars,
                    birthVars, outcallVars>>
  \/ /\ focus = "births" /\ BirthNext
     /\ UNCHANGED <<focus, topUpVars, pollVars, roomVars, toolVars, counterpartyVars, abiVars,
                    registryVars, discoveryVars, stewardVars, memoryVars, driftVars,
                    artifactVars, outcallVars>>
  \/ /\ focus = "outcalls" /\ OutcallNext
     /\ UNCHANGED <<focus, topUpVars, pollVars, roomVars, toolVars, counterpartyVars, abiVars,
                    registryVars, discoveryVars, stewardVars, memoryVars, driftVars,
                    artifactVars, birthVars>>

EffectsSpec == EffectsInit /\ [][EffectsNext]_effectVars

\* The type invariant of the subsystem in focus; the others are in its initial state.
EffectsTypeOK ==
  /\ focus = "top-up" => TopUpTypeOK
  /\ focus = "inbox" => PollTypeOK
  /\ focus = "room" => RoomTypeOK
  /\ focus = "tools" => ToolTypeOK
  /\ focus = "payments" => CounterpartyTypeOK
  /\ focus = "calldata" => AbiTypeOK
  /\ focus = "registry" => RegistryTypeOK
  /\ focus = "discovery" => DiscoveryTypeOK
  /\ focus = "steward" => StewardTypeOK
  /\ focus = "memory" => MemoryTypeOK
  /\ focus = "drift" => DriftTypeOK
  /\ focus = "artifact" => ArtifactTypeOK
  /\ focus = "births" => BirthTypeOK
  /\ focus = "outcalls" => OutcallTypeOK

=============================================================================

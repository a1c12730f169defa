--------------------------- MODULE FactoryProofs ---------------------------
(***************************************************************************)
(* Theorems about the factory: the code a child runs (FactoryArtifact),    *)
(* the births it allows (FactoryBirths), its room (RoomPoll) and the       *)
(* constitutions of children (ConstitutionDrift).                          *)
(***************************************************************************)
EXTENDS FactoryArtifact, FactoryBirths, RoomPoll, ConstitutionDrift, TableLemmas,
        FiniteSetTheorems, TLAPS

(***************************************************************************)
(* The code a child runs is attested, for any contents, any number of      *)
(* pieces, uploads, executions and retries.  AttestedCode is not inductive *)
(* as it stands: the upload under way and the copy of the module that a    *)
(* suspended execution carries must be declared as well, and an execution  *)
(* that has passed the bootstrap verification must have a child.           *)
(***************************************************************************)
\* The records keep the fields that the actions assign.
ArtifactShape ==
  /\ {"sha", "commit", "bytes"} \subseteq DOMAIN upload
  /\ {"state", "run", "installed"} \subseteq DOMAIN birth
  /\ {"stage", "wasm", "commit"} \subseteq DOMAIN birth.run

UploadDeclared == upload # NoUpload => <<upload.sha, upload.commit>> \in declared

ExecutionDeclared ==
  birth.run.stage # None =>
    birth.run.wasm # <<>> /\ <<Digest(birth.run.wasm), birth.run.commit>> \in declared

VerifiedHasBody == birth.run.stage \in {"strategies", "handoff"} => body # NoBody

ArtifactInv ==
  ArtifactShape /\ UploadDeclared /\ ExecutionDeclared /\ VerifiedHasBody /\ AttestedCode

\* A new factory satisfies the inductive invariant.
LEMMA ArtifactInitially == ArtifactInit => ArtifactInv
  BY DEF ArtifactInit, ArtifactInv, ArtifactShape, UploadDeclared, ExecutionDeclared,
         VerifiedHasBody, AttestedCode, NoUpload, NoExecution, NoBody, None, Digest

\* What an admin does to the artifact and to the upload keeps the invariant.
LEMMA AdminKeepsInv ==
  ASSUME ArtifactInv,
         \/ \E bytes \in Modules, commit \in Commits : UpdateArtifact(bytes, commit)
         \/ \E bytes \in Modules, commit \in Commits, size \in 1..MaxArtifact :
               BeginArtifactUpload(Digest(bytes), commit, size)
         \/ \E piece \in Pieces : AppendArtifactChunk(piece)
         \/ CommitArtifactUpload
  PROVE  ArtifactInv'
<1> USE DEF ArtifactInv
<1>1. CASE \E bytes \in Modules, commit \in Commits : UpdateArtifact(bytes, commit)
  <2>1. PICK bytes \in Modules, commit \in Commits : UpdateArtifact(bytes, commit)
    BY <1>1
  <2>2. ArtifactShape'
    BY <2>1 DEF ArtifactShape, UpdateArtifact, StoreArtifact, NoUpload, Digest
  <2>3. UploadDeclared' /\ ExecutionDeclared' /\ VerifiedHasBody' /\ AttestedCode'
    BY <2>1 DEF UpdateArtifact, StoreArtifact, Declare, UploadDeclared, ExecutionDeclared,
                VerifiedHasBody, AttestedCode
  <2> QED BY <2>2, <2>3
<1>2. CASE \E bytes \in Modules, commit \in Commits, size \in 1..MaxArtifact :
               BeginArtifactUpload(Digest(bytes), commit, size)
  <2>1. PICK bytes \in Modules, commit \in Commits, size \in 1..MaxArtifact :
               BeginArtifactUpload(Digest(bytes), commit, size)
    BY <1>2
  <2>2. ArtifactShape'
    BY <2>1 DEF ArtifactShape, BeginArtifactUpload, Digest
  <2>3. UploadDeclared' /\ ExecutionDeclared' /\ VerifiedHasBody' /\ AttestedCode'
    BY <2>1 DEF BeginArtifactUpload, Declare, UploadDeclared, ExecutionDeclared,
                VerifiedHasBody, AttestedCode
  <2> QED BY <2>2, <2>3
<1>3. CASE \E piece \in Pieces : AppendArtifactChunk(piece)
  <2>1. PICK piece \in Pieces : AppendArtifactChunk(piece)
    BY <1>3
  <2>2. ArtifactShape'
    BY <2>1 DEF ArtifactShape, AppendArtifactChunk
  <2>3. UploadDeclared'
    BY <2>1 DEF AppendArtifactChunk, UploadDeclared, ArtifactShape
  <2>4. ExecutionDeclared' /\ VerifiedHasBody' /\ AttestedCode'
    BY <2>1 DEF AppendArtifactChunk, ExecutionDeclared, VerifiedHasBody, AttestedCode
  <2> QED BY <2>2, <2>3, <2>4
<1>4. CASE CommitArtifactUpload
  <2>1. ArtifactShape'
    BY <1>4 DEF CommitArtifactUpload, StoreArtifact, ArtifactShape, NoUpload, Digest
  <2>2. UploadDeclared' /\ ExecutionDeclared' /\ VerifiedHasBody'
    BY <1>4 DEF CommitArtifactUpload, StoreArtifact, UploadDeclared, ExecutionDeclared,
                VerifiedHasBody
  <2>3. AttestedCode'
    BY <1>4 DEF CommitArtifactUpload, UploadComplete, StoreArtifact, UploadDeclared, AttestedCode,
                ArtifactShape
  <2> QED BY <2>1, <2>2, <2>3
<1> QED BY <1>1, <1>2, <1>3, <1>4

\* A step of the execution changes neither the artifact nor the upload, and its own state as
\* FailWith or an EXCEPT says.
LEMMA ExecutionKeepsInv ==
  ASSUME ArtifactInv,
         \/ StartExecution \/ StartMisconfigured \/ UploadChunk \/ InstallCode \/ InstallFails
         \/ VerifyBootstrap \/ VerifyFails \/ InstallStrategies \/ StrategiesRefused
         \/ ControllersRefused \/ ReleasePending \/ ReleaseConfirmed \/ ResumeConfirms
         \/ ReceiptTerminal \/ RetryBirth
  PROVE  ArtifactInv'
<1> USE DEF ArtifactInv, Keeps, Running, None
<1>0. ASSUME Keeps
      PROVE  UploadDeclared' /\ (AttestedCode => (artifact.bytes # <<>> =>
               <<Digest(artifact.bytes), artifact.commit>> \in declared)')
  BY <1>0 DEF UploadDeclared, AttestedCode
<1>1. CASE StartExecution
  <2>1. ArtifactShape'
    BY <1>1 DEF StartExecution, ArtifactShape, NoExecution, NoBody
  <2>2. ExecutionDeclared' /\ VerifiedHasBody'
    BY <1>1 DEF StartExecution, ArtifactShape, ExecutionDeclared, VerifiedHasBody, AttestedCode,
                NoExecution, NoBody
  <2>3. AttestedCode'
    BY <1>1 DEF StartExecution, ArtifactShape, ExecutionDeclared, VerifiedHasBody, AttestedCode,
                NoExecution, NoBody
  <2> QED BY <1>1, <1>0, <2>1, <2>2, <2>3 DEF StartExecution
<1>2. CASE StartMisconfigured
  <2>1. ArtifactShape'
    BY <1>2 DEF StartMisconfigured, ArtifactShape, NoExecution, NoBody
  <2>2. ExecutionDeclared' /\ VerifiedHasBody'
    BY <1>2 DEF StartMisconfigured, ArtifactShape, ExecutionDeclared, VerifiedHasBody, AttestedCode,
                NoExecution, NoBody
  <2>3. AttestedCode'
    BY <1>2 DEF StartMisconfigured, ArtifactShape, ExecutionDeclared, VerifiedHasBody, AttestedCode,
                NoExecution, NoBody
  <2> QED BY <1>2, <1>0, <2>1, <2>2, <2>3 DEF StartMisconfigured
<1>3. CASE UploadChunk
  <2>1. ArtifactShape'
    BY <1>3 DEF UploadChunk, ArtifactShape, NoExecution, NoBody
  <2>2. ExecutionDeclared' /\ VerifiedHasBody'
    BY <1>3 DEF UploadChunk, ArtifactShape, ExecutionDeclared, VerifiedHasBody, AttestedCode,
                NoExecution, NoBody
  <2>3. AttestedCode'
    BY <1>3 DEF UploadChunk, ArtifactShape, ExecutionDeclared, VerifiedHasBody, AttestedCode,
                NoExecution, NoBody
  <2> QED BY <1>3, <1>0, <2>1, <2>2, <2>3 DEF UploadChunk
<1>4. CASE InstallCode
  <2>1. ArtifactShape'
    BY <1>4 DEF InstallCode, InstallArgs, ArtifactShape, NoExecution, NoBody
  <2>2. ExecutionDeclared' /\ VerifiedHasBody'
    BY <1>4 DEF InstallCode, InstallArgs, ArtifactShape, ExecutionDeclared, VerifiedHasBody, AttestedCode,
                NoExecution, NoBody
  <2>3. AttestedCode'
    BY <1>4 DEF InstallCode, InstallArgs, ArtifactShape, ExecutionDeclared, VerifiedHasBody, AttestedCode,
                NoExecution, NoBody
  <2> QED BY <1>4, <1>0, <2>1, <2>2, <2>3 DEF InstallCode
<1>5. CASE InstallFails
  <2>1. ArtifactShape'
    BY <1>5 DEF InstallFails, FailWith, ArtifactShape, NoExecution, NoBody
  <2>2. ExecutionDeclared' /\ VerifiedHasBody'
    BY <1>5 DEF InstallFails, FailWith, ArtifactShape, ExecutionDeclared, VerifiedHasBody, AttestedCode,
                NoExecution, NoBody
  <2>3. AttestedCode'
    BY <1>5 DEF InstallFails, FailWith, ArtifactShape, ExecutionDeclared, VerifiedHasBody, AttestedCode,
                NoExecution, NoBody
  <2> QED BY <1>5, <1>0, <2>1, <2>2, <2>3 DEF InstallFails
<1>6. CASE VerifyBootstrap
  <2>1. ArtifactShape'
    BY <1>6 DEF VerifyBootstrap, BootstrapPasses, ArtifactShape, NoExecution, NoBody
  <2>2. ExecutionDeclared' /\ VerifiedHasBody'
    BY <1>6 DEF VerifyBootstrap, BootstrapPasses, ArtifactShape, ExecutionDeclared, VerifiedHasBody, AttestedCode,
                NoExecution, NoBody
  <2>3. AttestedCode'
    BY <1>6 DEF VerifyBootstrap, BootstrapPasses, ArtifactShape, ExecutionDeclared, VerifiedHasBody, AttestedCode,
                NoExecution, NoBody
  <2> QED BY <1>6, <1>0, <2>1, <2>2, <2>3 DEF VerifyBootstrap
<1>7. CASE VerifyFails
  <2>1. ArtifactShape'
    BY <1>7 DEF VerifyFails, FailWith, ArtifactShape, NoExecution, NoBody
  <2>2. ExecutionDeclared' /\ VerifiedHasBody'
    BY <1>7 DEF VerifyFails, FailWith, ArtifactShape, ExecutionDeclared, VerifiedHasBody, AttestedCode,
                NoExecution, NoBody
  <2>3. AttestedCode'
    BY <1>7 DEF VerifyFails, FailWith, ArtifactShape, ExecutionDeclared, VerifiedHasBody, AttestedCode,
                NoExecution, NoBody
  <2> QED BY <1>7, <1>0, <2>1, <2>2, <2>3 DEF VerifyFails
<1>8. CASE InstallStrategies
  <2>1. ArtifactShape'
    BY <1>8 DEF InstallStrategies, ArtifactShape, NoExecution, NoBody
  <2>2. ExecutionDeclared' /\ VerifiedHasBody'
    BY <1>8 DEF InstallStrategies, ArtifactShape, ExecutionDeclared, VerifiedHasBody, AttestedCode,
                NoExecution, NoBody
  <2>3. AttestedCode'
    BY <1>8 DEF InstallStrategies, ArtifactShape, ExecutionDeclared, VerifiedHasBody, AttestedCode,
                NoExecution, NoBody
  <2> QED BY <1>8, <1>0, <2>1, <2>2, <2>3 DEF InstallStrategies
<1>9. CASE StrategiesRefused
  <2>1. ArtifactShape'
    BY <1>9 DEF StrategiesRefused, FailWith, ArtifactShape, NoExecution, NoBody
  <2>2. ExecutionDeclared' /\ VerifiedHasBody'
    BY <1>9 DEF StrategiesRefused, FailWith, ArtifactShape, ExecutionDeclared, VerifiedHasBody, AttestedCode,
                NoExecution, NoBody
  <2>3. AttestedCode'
    BY <1>9 DEF StrategiesRefused, FailWith, ArtifactShape, ExecutionDeclared, VerifiedHasBody, AttestedCode,
                NoExecution, NoBody
  <2> QED BY <1>9, <1>0, <2>1, <2>2, <2>3 DEF StrategiesRefused
<1>10. CASE ControllersRefused
  <2>1. ArtifactShape'
    BY <1>10 DEF ControllersRefused, FailWith, ArtifactShape, NoExecution, NoBody
  <2>2. ExecutionDeclared' /\ VerifiedHasBody'
    BY <1>10 DEF ControllersRefused, FailWith, ArtifactShape, ExecutionDeclared, VerifiedHasBody, AttestedCode,
                NoExecution, NoBody
  <2>3. AttestedCode'
    BY <1>10 DEF ControllersRefused, FailWith, ArtifactShape, ExecutionDeclared, VerifiedHasBody, AttestedCode,
                NoExecution, NoBody
  <2> QED BY <1>10, <1>0, <2>1, <2>2, <2>3 DEF ControllersRefused
<1>11. CASE ReleasePending
  <2>1. ArtifactShape'
    BY <1>11 DEF ReleasePending, ArtifactShape, NoExecution, NoBody
  <2>2. ExecutionDeclared' /\ VerifiedHasBody'
    BY <1>11 DEF ReleasePending, ArtifactShape, ExecutionDeclared, VerifiedHasBody, AttestedCode,
                NoExecution, NoBody
  <2>3. AttestedCode'
    BY <1>11 DEF ReleasePending, ArtifactShape, ExecutionDeclared, VerifiedHasBody, AttestedCode,
                NoExecution, NoBody
  <2> QED BY <1>11, <1>0, <2>1, <2>2, <2>3 DEF ReleasePending
<1>12. CASE ReleaseConfirmed
  <2>1. ArtifactShape'
    BY <1>12 DEF ReleaseConfirmed, ArtifactShape, NoExecution, NoBody
  <2>2. ExecutionDeclared' /\ VerifiedHasBody'
    BY <1>12 DEF ReleaseConfirmed, ArtifactShape, ExecutionDeclared, VerifiedHasBody, AttestedCode,
                NoExecution, NoBody
  <2>3. AttestedCode'
    BY <1>12 DEF ReleaseConfirmed, ArtifactShape, ExecutionDeclared, VerifiedHasBody, AttestedCode,
                NoExecution, NoBody
  <2> QED BY <1>12, <1>0, <2>1, <2>2, <2>3 DEF ReleaseConfirmed
<1>13. CASE ResumeConfirms
  <2>1. ArtifactShape'
    BY <1>13 DEF ResumeConfirms, Resumable, ArtifactShape, NoExecution, NoBody
  <2>2. ExecutionDeclared' /\ VerifiedHasBody'
    BY <1>13 DEF ResumeConfirms, Resumable, ArtifactShape, ExecutionDeclared, VerifiedHasBody, AttestedCode,
                NoExecution, NoBody
  <2>3. AttestedCode'
    BY <1>13 DEF ResumeConfirms, Resumable, ArtifactShape, ExecutionDeclared, VerifiedHasBody, AttestedCode,
                NoExecution, NoBody
  <2> QED BY <1>13, <1>0, <2>1, <2>2, <2>3 DEF ResumeConfirms
<1>14. CASE ReceiptTerminal
  <2>1. ArtifactShape'
    BY <1>14 DEF ReceiptTerminal, Resumable, FailWith, ArtifactShape, NoExecution, NoBody
  <2>2. ExecutionDeclared' /\ VerifiedHasBody'
    BY <1>14 DEF ReceiptTerminal, Resumable, FailWith, ArtifactShape, ExecutionDeclared, VerifiedHasBody, AttestedCode,
                NoExecution, NoBody
  <2>3. AttestedCode'
    BY <1>14 DEF ReceiptTerminal, Resumable, FailWith, ArtifactShape, ExecutionDeclared, VerifiedHasBody, AttestedCode,
                NoExecution, NoBody
  <2> QED BY <1>14, <1>0, <2>1, <2>2, <2>3 DEF ReceiptTerminal
<1>15. CASE RetryBirth
  <2>1. ArtifactShape'
    BY <1>15 DEF RetryBirth, ArtifactShape, NoExecution, NoBody
  <2>2. ExecutionDeclared' /\ VerifiedHasBody'
    BY <1>15 DEF RetryBirth, ArtifactShape, ExecutionDeclared, VerifiedHasBody, AttestedCode,
                NoExecution, NoBody
  <2>3. AttestedCode'
    BY <1>15 DEF RetryBirth, ArtifactShape, ExecutionDeclared, VerifiedHasBody, AttestedCode,
                NoExecution, NoBody
  <2> QED BY <1>15, <1>0, <2>1, <2>2, <2>3 DEF RetryBirth
<1> QED BY <1>1, <1>2, <1>3, <1>4, <1>5, <1>6, <1>7, <1>8, <1>9, <1>10, <1>11, <1>12, <1>13, <1>14, <1>15

\* The invariant holds in every reachable state.
THEOREM ArtifactInvariant == ArtifactSpec => []ArtifactInv
<1>1. ArtifactInv /\ [ArtifactNext]_artifactVars => ArtifactInv'
  <2> SUFFICES ASSUME ArtifactInv, [ArtifactNext]_artifactVars PROVE ArtifactInv'
    OBVIOUS
  <2>1. CASE ArtifactNext
    BY <2>1, AdminKeepsInv, ExecutionKeepsInv DEF ArtifactNext
  <2>2. CASE UNCHANGED artifactVars
    BY <2>2 DEF artifactVars, ArtifactInv, ArtifactShape, UploadDeclared, ExecutionDeclared,
                VerifiedHasBody, AttestedCode
  <2> QED BY <2>1, <2>2
<1> QED BY <1>1, ArtifactInitially, PTL DEF ArtifactSpec

\* Whatever an admin uploads, replaces or abandons while executions of the session are under
\* way: the module in store and the module of the child were declared by an admin together
\* with the commit they carry, and a session whose release was sent or confirmed has a child.
THEOREM AttestedCodeTheorem == ArtifactSpec => []AttestedCode
BY ArtifactInvariant, PTL DEF ArtifactInv

\* The modules in store, in an execution and in the child are whole modules; an upload has the
\* digest of one, so that what is committed is one too.
MaybeModule(bytes) == bytes \in Modules \cup {<<>>}

UploadFits ==
  upload # NoUpload =>
    /\ upload.sha \in {Digest(bytes) : bytes \in Modules} /\ upload.commit \in Commits
    /\ upload.size \in Nat /\ upload.bytes \in Seq(Pieces) /\ Len(upload.bytes) <= upload.size

BirthStates == {"PaymentDetected", "Spawning", "BroadcastingRelease", "Complete", "Failed"}

ArtifactLimits ==
  /\ MaybeModule(artifact.bytes) /\ artifact.commit \in Commits
  /\ {"sha", "commit", "size", "bytes"} \subseteq DOMAIN upload /\ UploadFits
  /\ birth.state \in BirthStates /\ MaybeModule(birth.run.wasm)
  /\ "sent" \in DOMAIN birth.run /\ birth.run.sent \in Nat /\ birth.run.sent <= Len(birth.run.wasm)
  /\ MaybeModule(body.bytes)

\* A module has at most the pieces the bound allows.
LEMMA ModuleLength ==
  ASSUME NEW bytes, MaybeModule(bytes)
  PROVE  Len(bytes) \in 0..MaxArtifact
<1>1. MaxArtifact \in Nat
  BY ArtifactAssumption
<1>2. CASE bytes = <<>>
  BY <1>1, <1>2
<1>3. CASE bytes \in Modules
  <2>1. PICK n \in 1..MaxArtifact : bytes \in [1..n -> Pieces]
    BY <1>3 DEF Modules
  <2>2. n \in Nat
    OBVIOUS
  <2>3. Len(bytes) = n
    BY <2>1, <2>2, FunctionIsSeq
  <2> QED BY <1>1, <2>3
<1> QED BY <1>2, <1>3 DEF MaybeModule

\* The admin's calls.
LEMMA AdminLimits ==
  ASSUME ArtifactLimits,
         \/ \E bytes \in Modules, commit \in Commits : UpdateArtifact(bytes, commit)
         \/ \E bytes \in Modules, commit \in Commits, size \in 1..MaxArtifact :
              BeginArtifactUpload(Digest(bytes), commit, size)
         \/ \E piece \in Pieces : AppendArtifactChunk(piece)
         \/ CommitArtifactUpload
  PROVE  ArtifactLimits'
<1> DEFINE Fields == {"sha", "commit", "size", "bytes"}
<1>1. UNCHANGED <<birth, body>>
  BY DEF UpdateArtifact, BeginArtifactUpload, AppendArtifactChunk, CommitArtifactUpload
<1>2. Fields \subseteq DOMAIN NoUpload
  BY DEF NoUpload
<1>3. ASSUME NEW bytes \in Modules, NEW commit \in Commits, UpdateArtifact(bytes, commit)
      PROVE  ArtifactLimits'
  <2>1. artifact'.bytes = bytes /\ artifact'.commit = commit /\ upload' = NoUpload
    BY <1>3 DEF UpdateArtifact, StoreArtifact
  <2> QED BY <1>1, <1>2, <2>1 DEF ArtifactLimits, UploadFits, MaybeModule
<1>4. ASSUME NEW bytes \in Modules, NEW commit \in Commits, NEW size \in 1..MaxArtifact,
             BeginArtifactUpload(Digest(bytes), commit, size)
      PROVE  ArtifactLimits'
  <2>1. /\ upload' = [sha |-> Digest(bytes), commit |-> commit, size |-> size, bytes |-> <<>>]
        /\ UNCHANGED artifact
    BY <1>4 DEF BeginArtifactUpload
  <2>2. /\ Fields \subseteq DOMAIN upload' /\ upload'.sha = Digest(bytes) /\ upload'.commit = commit
        /\ upload'.size = size /\ upload'.bytes = <<>>
    BY <2>1
  <2>3. size \in Nat /\ <<>> \in Seq(Pieces) /\ Len(<<>>) <= size
    OBVIOUS
  <2>4. UploadFits'
    BY <2>2, <2>3 DEF UploadFits
  <2> QED BY <1>1, <2>1, <2>2, <2>4 DEF ArtifactLimits
<1>5. ASSUME NEW piece \in Pieces, AppendArtifactChunk(piece)
      PROVE  ArtifactLimits'
  <2>1. /\ upload # NoUpload /\ Len(upload.bytes) + 1 <= upload.size
        /\ upload' = [upload EXCEPT !.bytes = Append(upload.bytes, piece)] /\ UNCHANGED artifact
    BY <1>5 DEF AppendArtifactChunk
  <2>2. UploadFits /\ Fields \subseteq DOMAIN upload
    BY DEF ArtifactLimits
  <2>3. /\ Fields \subseteq DOMAIN upload' /\ upload'.sha = upload.sha /\ upload'.commit = upload.commit
        /\ upload'.size = upload.size /\ upload'.bytes = Append(upload.bytes, piece)
    BY <2>1, <2>2
  <2>4. upload.bytes \in Seq(Pieces)
    BY <2>1, <2>2 DEF UploadFits
  <2>5. Append(upload.bytes, piece) \in Seq(Pieces) /\ Len(Append(upload.bytes, piece)) = Len(upload.bytes) + 1
    BY <2>4
  <2>6. UploadFits'
    BY <2>1, <2>2, <2>3, <2>5 DEF UploadFits
  <2> QED BY <1>1, <2>1, <2>3, <2>6 DEF ArtifactLimits
<1>6. ASSUME CommitArtifactUpload
      PROVE  ArtifactLimits'
  <2>1. /\ upload # NoUpload /\ Digest(upload.bytes) = upload.sha
        /\ artifact'.bytes = upload.bytes /\ artifact'.commit = upload.commit /\ upload' = NoUpload
    BY <1>6 DEF CommitArtifactUpload, UploadComplete, StoreArtifact
  <2>2. PICK bytes \in Modules : upload.sha = Digest(bytes)
    BY <2>1 DEF ArtifactLimits, UploadFits
  <2>3. upload.bytes = bytes
    <3>1. \A x : Digest(x).sha256 = x
      BY DEF Digest
    <3> QED BY <2>1, <2>2, <3>1
  <2>4. upload.commit \in Commits
    BY <2>1 DEF ArtifactLimits, UploadFits
  <2> QED BY <1>1, <1>2, <2>1, <2>3, <2>4 DEF ArtifactLimits, UploadFits, MaybeModule
<1> QED BY <1>3, <1>4, <1>5, <1>6

\* What a step of the session leaves of the limits.
LEMMA SessionLimits ==
  ASSUME ArtifactLimits, Keeps, birth'.state \in BirthStates, MaybeModule(birth'.run.wasm),
         "sent" \in DOMAIN birth'.run, birth'.run.sent \in Nat, birth'.run.sent <= Len(birth'.run.wasm),
         MaybeModule(body'.bytes)
  PROVE  ArtifactLimits'
  BY DEF ArtifactLimits, Keeps, UploadFits

\* The steps of the session.
LEMMA ExecutionLimits ==
  ASSUME ArtifactInv, ArtifactLimits,
         \/ StartExecution \/ StartMisconfigured \/ UploadChunk \/ InstallCode \/ InstallFails
         \/ VerifyBootstrap \/ VerifyFails \/ InstallStrategies \/ StrategiesRefused
         \/ ControllersRefused \/ ReleasePending \/ ReleaseConfirmed \/ ResumeConfirms
         \/ ReceiptTerminal \/ RetryBirth
  PROVE  ArtifactLimits'
<1> DEFINE run == birth.run
<1>1. /\ {"state", "run", "installed"} \subseteq DOMAIN birth
      /\ {"stage", "wasm", "commit", "sent"} \subseteq DOMAIN run
      /\ MaybeModule(run.wasm) /\ run.sent \in Nat /\ run.sent <= Len(run.wasm) /\ Len(run.wasm) \in Nat
      /\ MaybeModule(body.bytes) /\ MaybeModule(artifact.bytes)
  BY ModuleLength DEF ArtifactInv, ArtifactShape, ArtifactLimits
<1>2. /\ NoExecution.wasm = <<>> /\ NoExecution.sent = 0 /\ "sent" \in DOMAIN NoExecution
      /\ NoBody.bytes = <<>> /\ Len(<<>>) = 0 /\ MaybeModule(<<>>)
  BY DEF NoExecution, NoBody, MaybeModule
<1>3. Keeps
  BY DEF StartExecution, StartMisconfigured, UploadChunk, InstallCode, InstallFails,
         VerifyBootstrap, VerifyFails, InstallStrategies, StrategiesRefused, ControllersRefused,
         ReleasePending, ReleaseConfirmed, ResumeConfirms, ReceiptTerminal, RetryBirth
<1>4. body' = body \/ body' = NoBody \/ body' = [bytes |-> run.wasm, commit |-> InstallArgs.commit]
  BY DEF StartExecution, StartMisconfigured, UploadChunk, InstallCode, InstallFails,
         VerifyBootstrap, VerifyFails, InstallStrategies, StrategiesRefused, ControllersRefused,
         ReleasePending, ReleaseConfirmed, ResumeConfirms, ReceiptTerminal, RetryBirth
<1>5. MaybeModule(body'.bytes)
  <2> HIDE DEF run
  <2> QED BY <1>1, <1>2, <1>4
<1>6. CASE StartExecution
  <2> DEFINE stage == IF birth.installed THEN "verify" ELSE "upload"
             state == IF birth.installed THEN "BroadcastingRelease" ELSE "Spawning"
             new == [stage |-> stage, wasm |-> artifact.bytes, commit |-> artifact.commit, sent |-> 0]
  <2>1. birth' = [birth EXCEPT !.state = state, !.runs = @ + 1, !.run = new]
    BY <1>6 DEF StartExecution
  <2>2. state \in BirthStates
    BY DEF BirthStates
  <2>3. new.wasm = artifact.bytes /\ new.sent = 0 /\ "sent" \in DOMAIN new
    OBVIOUS
  <2> HIDE DEF new, state
  <2>4. birth'.state = state /\ birth'.run = new
    BY <1>1, <2>1
  <2>5. Len(artifact.bytes) \in Nat
    BY <1>1, ModuleLength
  <2> QED BY <1>1, <1>3, <1>5, <2>2, <2>3, <2>4, <2>5, SessionLimits
<1>7. CASE UploadChunk
  <2>1. birth' = [birth EXCEPT !.run.sent = @ + 1] /\ run.sent < Len(run.wasm)
    BY <1>7 DEF UploadChunk
  <2>2. birth'.state = birth.state /\ birth'.run = [run EXCEPT !.sent = run.sent + 1]
    BY <1>1, <2>1
  <2>3. birth'.run.wasm = run.wasm /\ birth'.run.sent = run.sent + 1 /\ "sent" \in DOMAIN birth'.run
    BY <1>1, <2>2
  <2>4. birth.state \in BirthStates
    BY DEF ArtifactLimits
  <2> HIDE DEF run
  <2> QED BY <1>1, <1>3, <1>5, <2>1, <2>2, <2>3, <2>4, SessionLimits
<1>8. CASE InstallFails \/ VerifyFails \/ StrategiesRefused \/ ControllersRefused \/ ReceiptTerminal
           \/ ReleasePending \/ ReleaseConfirmed
  <2>1. birth'.run = NoExecution /\ birth'.state \in BirthStates
    BY <1>1, <1>8 DEF InstallFails, VerifyFails, StrategiesRefused, ControllersRefused,
                ReceiptTerminal, ReleasePending, ReleaseConfirmed, FailWith, ArtifactLimits, BirthStates
  <2> QED BY <1>2, <1>3, <1>5, <2>1, SessionLimits
<1>9. CASE StartMisconfigured \/ ResumeConfirms \/ RetryBirth
  <2>1. birth'.run = run /\ birth'.state \in BirthStates
    BY <1>1, <1>9 DEF StartMisconfigured, ResumeConfirms, RetryBirth, BirthStates
  <2> QED BY <1>1, <1>3, <1>5, <2>1, SessionLimits
<1>10. CASE InstallCode \/ VerifyBootstrap \/ InstallStrategies
  <2>1. PICK stage : birth'.run = [run EXCEPT !.stage = stage]
    BY <1>1, <1>10 DEF InstallCode, VerifyBootstrap, InstallStrategies
  <2>2. birth'.state \in BirthStates
    BY <1>1, <1>10 DEF InstallCode, VerifyBootstrap, InstallStrategies, ArtifactLimits, BirthStates
  <2>3. birth'.run.wasm = run.wasm /\ birth'.run.sent = run.sent /\ "sent" \in DOMAIN birth'.run
    BY <1>1, <2>1
  <2> HIDE DEF run
  <2> QED BY <1>1, <1>3, <1>5, <2>2, <2>3, SessionLimits
<1> QED BY <1>6, <1>7, <1>8, <1>9, <1>10

\* What is stored, sent and installed is always a whole module, never more of it is sent than it
\* has, and an upload never holds more than it declared, for modules of any number of pieces
\* (append_artifact_chunk, commit_artifact_upload, the chunked install of execute_spawn).
THEOREM ArtifactTyped == ArtifactSpec => []ArtifactTypeOK
<1>1. ASSUME ArtifactInit PROVE ArtifactLimits
  <2>1. PICK commit \in Commits : artifact = [bytes |-> <<>>, sha |-> Digest(<<>>), commit |-> commit]
    BY <1>1 DEF ArtifactInit
  <2>2. artifact.bytes = <<>> /\ artifact.commit = commit
    BY <2>1
  <2>3. upload = NoUpload /\ {"sha", "commit", "size", "bytes"} \subseteq DOMAIN upload
    BY <1>1 DEF ArtifactInit, NoUpload
  <2>4. birth.state = "PaymentDetected" /\ birth.run = NoExecution /\ body = NoBody
    BY <1>1 DEF ArtifactInit
  <2>5. /\ NoExecution.wasm = <<>> /\ NoExecution.sent = 0 /\ "sent" \in DOMAIN NoExecution
        /\ NoBody.bytes = <<>> /\ Len(<<>>) = 0 /\ MaybeModule(<<>>)
    BY DEF NoExecution, NoBody, MaybeModule
  <2> QED BY <2>2, <2>3, <2>4, <2>5 DEF ArtifactLimits, UploadFits, BirthStates
<1>2. ASSUME ArtifactInv, ArtifactLimits, [ArtifactNext]_artifactVars
      PROVE  ArtifactLimits'
  <2>1. CASE UNCHANGED artifactVars
    BY <1>2, <2>1 DEF artifactVars, ArtifactLimits, UploadFits
  <2> QED BY <1>2, <2>1, AdminLimits, ExecutionLimits DEF ArtifactNext
<1>3. ASSUME ArtifactLimits PROVE ArtifactTypeOK
  <2>1. Len(upload.bytes) <= upload.size
    <3>1. CASE upload = NoUpload
      BY <3>1 DEF NoUpload
    <3> QED BY <1>3, <3>1 DEF ArtifactLimits, UploadFits
  <2>2. birth.run.sent \in 0..MaxArtifact
    <3>1. Len(birth.run.wasm) \in 0..MaxArtifact /\ MaxArtifact \in Nat
      BY <1>3, ModuleLength, ArtifactAssumption DEF ArtifactLimits
    <3> QED BY <1>3, <3>1 DEF ArtifactLimits
  <2> QED BY <1>3, <2>1, <2>2 DEF ArtifactLimits, ArtifactTypeOK, MaybeModule, BirthStates
<1>4. ArtifactInv /\ ArtifactLimits /\ [ArtifactNext]_artifactVars => ArtifactLimits'
  BY <1>2
<1> QED BY <1>1, <1>3, <1>4, ArtifactInvariant, PTL DEF ArtifactSpec

-----------------------------------------------------------------------------
(* The factory's births. *)

SessionFields == {"origin", "generation", "chosen", "chain", "created", "expires", "state"}
RecordFields  == {"parent", "generation", "created", "children", "death", "incident"}

\* The two halves of CooldownKept, of any table of sessions and any registry.
SpacedOut(s) ==
  \A i, j \in DOMAIN s :
    (i # j /\ s[i].origin = s[j].origin /\ s[i].origin # Human
       /\ s[i].state # "Expired" /\ s[j].state # "Expired" /\ s[i].created <= s[j].created)
      => s[j].created >= s[i].created + Cooldown

Lineage(reg) ==
  \A i \in DOMAIN reg :
    reg[i].parent # Human =>
      /\ i \in reg[reg[i].parent].children
      /\ reg[i].generation = reg[reg[i].parent].generation + 1

\* A session for a child is one generation below a registered parent.
ChildOf(x, reg) ==
  /\ x.created \in Nat /\ SessionFields \subseteq DOMAIN x
  /\ x.origin # Human =>
       x.origin \in DOMAIN reg /\ x.generation = reg[x.origin].generation + 1

Sessions(s, reg) == Table(s) /\ \A i \in DOMAIN s : ChildOf(s[i], reg)

Registry(reg, s) ==
  /\ DOMAIN reg \subseteq DOMAIN s /\ \A i \in DOMAIN reg : s[i].state = "Complete"
  /\ \A i \in DOMAIN reg : /\ RecordFields \subseteq DOMAIN reg[i]
                           /\ reg[i].parent # Human => reg[i].parent \in DOMAIN reg

Requests(rs, reg) == \A r \in rs : r.parent \in DOMAIN reg /\ r.at \in Nat

BirthInv ==
  /\ Sessions(sessions, registry) /\ Registry(registry, sessions) /\ Requests(requests, registry)
  /\ today \in Nat /\ SpacedOut(sessions) /\ Lineage(registry)

\* What a step may do to the sessions there are, and to the registered automatons.
SessionKept(x2, x) ==
  /\ x2.origin = x.origin /\ x2.generation = x.generation /\ x2.created = x.created
  /\ SessionFields \subseteq DOMAIN x2
  /\ x.state = "Expired" => x2.state = "Expired"
  /\ x.state = "Complete" => x2.state = "Complete"

RegistryKept(reg2, reg) ==
  /\ DOMAIN reg \subseteq DOMAIN reg2
  /\ \A i \in DOMAIN reg : /\ reg2[i].parent = reg[i].parent /\ reg2[i].generation = reg[i].generation
                           /\ reg[i].children \subseteq reg2[i].children
                           /\ RecordFields \subseteq DOMAIN reg2[i]

\* A step that changes one session without a new date, and no automaton's lineage.
LEMMA SessionChanges ==
  ASSUME NEW s, NEW reg, Sessions(s, reg), Registry(reg, s), SpacedOut(s), NEW i \in DOMAIN s,
         NEW x, SessionKept(x, s[i])
  PROVE  /\ Sessions(Updated(s, i, x), reg) /\ Registry(reg, Updated(s, i, x))
         /\ SpacedOut(Updated(s, i, x)) /\ DOMAIN Updated(s, i, x) = DOMAIN s
         /\ \A j \in DOMAIN s : Updated(s, i, x)[j] = IF j = i THEN x ELSE s[j]
<1> DEFINE s2 == Updated(s, i, x)
<1>1. /\ Table(s2) /\ DOMAIN s2 = DOMAIN s
      /\ \A j \in DOMAIN s : s2[j] = IF j = i THEN x ELSE s[j]
  BY UpdateTable, TableDomain DEF Sessions
<1> HIDE DEF s2
<1>2. ASSUME NEW j \in DOMAIN s PROVE SessionKept(s2[j], s[j]) /\ ChildOf(s2[j], reg)
  BY <1>1 DEF SessionKept, Sessions, ChildOf
<1>3. Sessions(s2, reg)
  BY <1>1, <1>2 DEF Sessions
<1>4. Registry(reg, s2)
  <2>1. \A j \in DOMAIN reg : s2[j].state = "Complete"
    BY <1>2 DEF Registry, SessionKept
  <2> QED BY <1>1, <2>1 DEF Registry
<1>5. SpacedOut(s2)
  BY <1>1, <1>2 DEF SpacedOut, SessionKept
<1> QED BY <1>1, <1>3, <1>4, <1>5 DEF s2

\* A registry in which nobody's lineage changed leaves sessions and requests as they were.
LEMMA RegistryGrows ==
  ASSUME NEW s, NEW rs, NEW reg, NEW reg2, Sessions(s, reg), Requests(rs, reg), RegistryKept(reg2, reg)
  PROVE  Sessions(s, reg2) /\ Requests(rs, reg2)
<1>1. ASSUME NEW i \in DOMAIN s PROVE ChildOf(s[i], reg2)
  BY DEF Sessions, ChildOf, RegistryKept
<1> QED BY <1>1 DEF Sessions, Requests, RegistryKept

\* A change to one automaton's death leaves every lineage as it is.
LEMMA RecordChanges ==
  ASSUME NEW s, NEW reg, Registry(reg, s), Lineage(reg), NEW i \in DOMAIN reg, NEW d, NEW n, NEW reg2,
         reg2 = [reg EXCEPT ![i].death = d, ![i].incident = n]
  PROVE  RegistryKept(reg2, reg) /\ Registry(reg2, s) /\ Lineage(reg2)
<1>1. DOMAIN reg2 = DOMAIN reg
  OBVIOUS
<1>2. ASSUME NEW j \in DOMAIN reg
      PROVE  /\ reg2[j].parent = reg[j].parent /\ reg2[j].generation = reg[j].generation
             /\ reg2[j].children = reg[j].children /\ RecordFields \subseteq DOMAIN reg2[j]
  <2>1. RecordFields \subseteq DOMAIN reg[j]
    BY DEF Registry
  <2> QED BY <2>1 DEF RecordFields
<1> HIDE DEF RecordFields
<1>3. RegistryKept(reg2, reg)
  BY <1>1, <1>2 DEF RegistryKept
<1>4. Registry(reg2, s)
  BY <1>1, <1>2 DEF Registry
<1>5. Lineage(reg2)
  BY <1>1, <1>2 DEF Registry, Lineage
<1> QED BY <1>3, <1>4, <1>5

\* A session for a child that keeps its distance to the others of its parent.
LEMMA SessionAdmitted ==
  ASSUME NEW s, NEW reg, Sessions(s, reg), Registry(reg, s), SpacedOut(s), NEW x, ChildOf(x, reg),
         x.origin # Human =>
           \A i \in DOMAIN s : (s[i].origin = x.origin /\ s[i].state # "Expired")
                                 => Since(x.created, s[i].created) >= Cooldown
  PROVE  /\ Sessions(Append(s, x), reg) /\ Registry(reg, Append(s, x)) /\ SpacedOut(Append(s, x))
<1> DEFINE s2 == Append(s, x)
           n == Len(s)
<1>1. /\ Table(s2) /\ n \in Nat /\ DOMAIN s = 1..n /\ DOMAIN s2 = 1..n + 1 /\ s2[n + 1] = x
      /\ \A j \in 1..n : s2[j] = s[j]
  BY AppendTable, TableDomain DEF Sessions
<1> HIDE DEF s2, n
<1>2. \A j \in 1..n : s2[j] = s[j] /\ ChildOf(s[j], reg)
  BY <1>1 DEF Sessions
<1>3. Sessions(s2, reg)
  <2>1. \A j \in DOMAIN s2 : j \in 1..n \/ j = n + 1
    BY <1>1
  <2> QED BY <1>1, <1>2, <2>1 DEF Sessions
<1>4. Registry(reg, s2)
  <2>1. DOMAIN s \subseteq DOMAIN s2
    BY <1>1
  <2>2. \A j \in DOMAIN reg : s2[j].state = "Complete"
    BY <1>1 DEF Registry
  <2> QED BY <2>1, <2>2 DEF Registry
<1>5. ASSUME NEW i \in DOMAIN s2, NEW j \in DOMAIN s2,
             i # j, s2[i].origin = s2[j].origin, s2[i].origin # Human,
             s2[i].state # "Expired", s2[j].state # "Expired", s2[i].created <= s2[j].created
      PROVE  s2[j].created >= s2[i].created + Cooldown
  <2>1. Cooldown \in Nat
    BY BirthAssumption
  <2>2. CASE i \in 1..n /\ j \in 1..n
    BY <1>1, <1>5, <2>2 DEF SpacedOut
  <2>3. CASE i \in 1..n /\ j = n + 1
    <3>1. Since(x.created, s[i].created) >= Cooldown
      BY <1>1, <1>5, <2>3
    <3>2. x.created \in Nat /\ s[i].created \in Nat /\ s[i].created <= x.created
      BY <1>1, <1>2, <1>5, <2>3 DEF ChildOf
    <3>3. x.created >= s[i].created + Cooldown
      BY <2>1, <3>1, <3>2 DEF Since
    <3> QED BY <1>1, <2>3, <3>3
  <2>4. CASE i = n + 1 /\ j \in 1..n
    <3>1. Since(x.created, s[j].created) >= Cooldown
      BY <1>1, <1>5, <2>4
    <3>2. x.created \in Nat /\ s[j].created \in Nat /\ x.created <= s[j].created
      BY <1>1, <1>2, <1>5, <2>4 DEF ChildOf
    <3>3. s[j].created >= x.created + Cooldown
      BY <2>1, <3>1, <3>2 DEF Since
    <3> QED BY <1>1, <2>4, <3>3
  <2> QED BY <1>1, <1>5, <2>2, <2>3, <2>4
<1>6. SpacedOut(s2)
  BY <1>5 DEF SpacedOut
<1> QED BY <1>3, <1>4, <1>6 DEF s2

\* The registry with the child of session i, linked to its parent.
LinkedTo(s, reg, i) ==
  IF s[i].origin \in DOMAIN reg THEN [reg EXCEPT ![s[i].origin].children = @ \cup {i}] ELSE reg

WithBirth(s, reg, i, at) ==
  [j \in DOMAIN reg \cup {i} |->
     IF j = i THEN NewRecord(s[i].origin, s[i].generation, at) ELSE LinkedTo(s, reg, i)[j]]

\* The session of the child is complete, the others are as they were.
OnlyCompletes(s2, s, i) ==
  DOMAIN s2 = DOMAIN s /\ s2[i].state = "Complete" /\ \A j \in DOMAIN s : j # i => s2[j] = s[j]

\* A birth links the child to its parent, which is another automaton.
LEMMA BirthLinks ==
  ASSUME NEW s, NEW reg, Sessions(s, reg), Registry(reg, s), Lineage(reg), NEW i \in DOMAIN s,
         s[i].state = "AwaitingPayment", NEW at, NEW s2, OnlyCompletes(s2, s, i),
         NEW reg2, reg2 = WithBirth(s, reg, i, at)
  PROVE  RegistryKept(reg2, reg) /\ Registry(reg2, s2) /\ Lineage(reg2)
<1> DEFINE parent == s[i].origin
           born == NewRecord(s[i].origin, s[i].generation, at)
           linked == LinkedTo(s, reg, i)
<1>1. i \notin DOMAIN reg
  BY DEF Registry
<1>2. /\ RecordFields \subseteq DOMAIN born /\ born.parent = parent
      /\ born.generation = s[i].generation /\ born.children = {}
  BY DEF NewRecord, RecordFields
<1>3. parent # Human => parent \in DOMAIN reg /\ s[i].generation = reg[parent].generation + 1
  BY DEF Sessions, ChildOf
<1>4. /\ DOMAIN reg2 = DOMAIN reg \cup {i} /\ reg2[i] = born
      /\ \A j \in DOMAIN reg : reg2[j] = linked[j]
  BY <1>1 DEF WithBirth
<1>5. ASSUME NEW j \in DOMAIN reg
      PROVE  /\ reg2[j].parent = reg[j].parent /\ reg2[j].generation = reg[j].generation
             /\ reg[j].children \subseteq reg2[j].children /\ RecordFields \subseteq DOMAIN reg2[j]
             /\ j = parent => i \in reg2[j].children
  <2>1. RecordFields \subseteq DOMAIN reg[j]
    BY DEF Registry
  <2>2. linked[j] = IF j = parent THEN [reg[j] EXCEPT !.children = @ \cup {i}] ELSE reg[j]
    BY DEF LinkedTo
  <2> HIDE DEF born, parent, linked
  <2> QED BY <1>4, <2>1, <2>2 DEF RecordFields
<1>6. DOMAIN reg2 \subseteq DOMAIN s2
  BY <1>4 DEF Registry, OnlyCompletes
<1> HIDE DEF born
<1>7. RegistryKept(reg2, reg)
  BY <1>4, <1>5 DEF RegistryKept
<1>8. Registry(reg2, s2)
  <2>1. ASSUME NEW j \in DOMAIN reg2
        PROVE  /\ s2[j].state = "Complete" /\ RecordFields \subseteq DOMAIN reg2[j]
               /\ reg2[j].parent # Human => reg2[j].parent \in DOMAIN reg2
    <3>1. CASE j = i
      BY <1>2, <1>3, <1>4, <3>1 DEF OnlyCompletes
    <3>2. CASE j \in DOMAIN reg
      <4>1. /\ s[j].state = "Complete" /\ s2[j] = s[j] /\ j \in DOMAIN s
            /\ reg[j].parent # Human => reg[j].parent \in DOMAIN reg
        BY <1>1, <3>2 DEF Registry, OnlyCompletes
      <4> QED BY <1>4, <1>5, <3>2, <4>1
    <3> QED BY <1>4, <3>1, <3>2
  <2> QED BY <1>6, <2>1 DEF Registry
<1>9. Lineage(reg2)
  <2> SUFFICES ASSUME NEW j \in DOMAIN reg2, reg2[j].parent # Human
               PROVE  /\ j \in reg2[reg2[j].parent].children
                      /\ reg2[j].generation = reg2[reg2[j].parent].generation + 1
    BY DEF Lineage
  <2>1. CASE j = i
    BY <1>2, <1>3, <1>4, <1>5, <2>1
  <2>2. CASE j \in DOMAIN reg
    <3>1. /\ reg[j].parent \in DOMAIN reg /\ j \in reg[reg[j].parent].children
          /\ reg[j].generation = reg[reg[j].parent].generation + 1
      BY <1>5, <2>2 DEF Registry, Lineage
    <3> QED BY <1>5, <2>2, <3>1
  <2> QED BY <1>4, <2>1, <2>2
<1> QED BY <1>7, <1>8, <1>9

\* A change of one field of a session keeps its kinship and date.
LEMMA OneSessionChanged ==
  ASSUME BirthInv, NEW i \in DOMAIN sessions, NEW x, sessions' = [sessions EXCEPT ![i] = x],
         SessionKept(x, sessions[i]), UNCHANGED <<registry, requests, today>>
  PROVE  BirthInv'
<1>1. sessions' = Updated(sessions, i, x)
  BY DEF Updated
<1>2. Sessions(sessions, registry) /\ Registry(registry, sessions) /\ SpacedOut(sessions)
  BY DEF BirthInv
<1>3. LET s2 == Updated(sessions, i, x)
      IN  Sessions(s2, registry) /\ Registry(registry, s2) /\ SpacedOut(s2)
  BY <1>2, SessionChanges, Zenon
<1>4. Sessions(sessions', registry) /\ Registry(registry, sessions') /\ SpacedOut(sessions')
  BY <1>1, <1>3, Zenon
<1> QED BY <1>4 DEF BirthInv

\* Retries and expiries.
LEMMA SessionStep ==
  ASSUME BirthInv, NEW i \in DOMAIN sessions,
         FailSession(i) \/ RetryFailedSession(i) \/ ExpireSession(i)
  PROVE  BirthInv'
<1>1. SessionFields \subseteq DOMAIN sessions[i]
  BY DEF BirthInv, Sessions, ChildOf
<1>2. CASE FailSession(i)
  <2> DEFINE x == [sessions[i] EXCEPT !.state = "Failed"]
  <2>1. /\ sessions[i].state = "AwaitingPayment" /\ sessions' = [sessions EXCEPT ![i] = x]
        /\ UNCHANGED <<registry, requests, today>>
    BY <1>2 DEF FailSession
  <2>2. SessionKept(x, sessions[i])
    BY <1>1, <2>1 DEF SessionKept, SessionFields
  <2> HIDE DEF x
  <2> QED BY <2>1, <2>2, OneSessionChanged
<1>3. CASE RetryFailedSession(i)
  <2> DEFINE x == [sessions[i] EXCEPT !.state = "AwaitingPayment", !.expires = today + SessionTtl]
  <2>1. /\ sessions[i].state = "Failed" /\ sessions' = [sessions EXCEPT ![i] = x]
        /\ UNCHANGED <<registry, requests, today>>
    BY <1>3 DEF RetryFailedSession
  <2>2. SessionKept(x, sessions[i])
    BY <1>1, <2>1 DEF SessionKept, SessionFields
  <2> HIDE DEF x
  <2> QED BY <2>1, <2>2, OneSessionChanged
<1>4. CASE ExpireSession(i)
  <2> DEFINE x == [sessions[i] EXCEPT !.state = "Expired"]
  <2>1. /\ sessions[i].state \notin {"Complete", "Expired"}
        /\ sessions' = [sessions EXCEPT ![i] = x] /\ UNCHANGED <<registry, requests, today>>
    BY <1>4 DEF ExpireSession
  <2>2. SessionKept(x, sessions[i])
    BY <1>1, <2>1 DEF SessionKept, SessionFields
  <2> HIDE DEF x
  <2> QED BY <2>1, <2>2, OneSessionChanged
<1> QED BY <1>2, <1>3, <1>4

\* A birth.
LEMMA BirthStep == ASSUME BirthInv, NEW i \in DOMAIN sessions, CompleteSession(i) PROVE BirthInv'
<1> DEFINE x == [sessions[i] EXCEPT !.state = "Complete"]
<1>1. /\ sessions[i].state = "AwaitingPayment" /\ sessions' = [sessions EXCEPT ![i] = x]
      /\ registry' = WithBirth(sessions, registry, i, today)
      /\ UNCHANGED <<requests, today>>
  BY DEF CompleteSession, WithBirth, LinkedTo
<1>2. SessionFields \subseteq DOMAIN sessions[i]
  BY DEF BirthInv, Sessions, ChildOf
<1>3. SessionKept(x, sessions[i]) /\ x.state = "Complete"
  BY <1>1, <1>2 DEF SessionKept, SessionFields
<1>4. /\ Sessions(sessions, registry) /\ Registry(registry, sessions) /\ Requests(requests, registry)
      /\ today \in Nat /\ SpacedOut(sessions) /\ Lineage(registry)
  BY DEF BirthInv
<1>5. sessions' = Updated(sessions, i, x)
  BY <1>1 DEF Updated
<1> HIDE DEF x
<1>6. /\ Sessions(sessions', registry) /\ SpacedOut(sessions') /\ DOMAIN sessions' = DOMAIN sessions
      /\ \A j \in DOMAIN sessions : sessions'[j] = IF j = i THEN x ELSE sessions[j]
  BY <1>3, <1>4, <1>5, SessionChanges
<1>7. RegistryKept(registry', registry) /\ Registry(registry', sessions') /\ Lineage(registry')
  <2>1. OnlyCompletes(sessions', sessions, i)
    BY <1>3, <1>6 DEF OnlyCompletes
  <2>2. sessions[i].state = "AwaitingPayment" /\ registry' = WithBirth(sessions, registry, i, today)
    BY <1>1
  <2> QED BY <1>4, <2>1, <2>2, BirthLinks
<1>8. Sessions(sessions', registry') /\ Requests(requests, registry')
  BY <1>4, <1>6, <1>7, RegistryGrows
<1> QED BY <1>1, <1>4, <1>6, <1>7, <1>8 DEF BirthInv

\* Every step of the factory keeps the families in order.
LEMMA BirthsStep == ASSUME BirthInv, [BirthNext]_birthVars PROVE BirthInv'
<1> DEFINE Still == UNCHANGED <<sessions, registry, requests, today>>
<1>1. /\ Sessions(sessions, registry) /\ Registry(registry, sessions) /\ Requests(requests, registry)
      /\ today \in Nat /\ SpacedOut(sessions) /\ Lineage(registry)
  BY DEF BirthInv
<1>2. CASE Still
  BY <1>2 DEF BirthInv
<1>3. ASSUME NEW id \in StrategyIds,
             \/ \E recipe \in StrategyIds \cup {"undecodable"} : AddRepositoryStrategy(id, recipe)
             \/ DeprecateRepositoryStrategy(id)
             \/ RevokeRepositoryStrategy(id)
      PROVE  Still
  BY <1>3 DEF AddRepositoryStrategy, DeprecateRepositoryStrategy, RevokeRepositoryStrategy
<1>4. CASE \/ \E chain \in ChainIds : SetReleaseBroadcastConfig(chain)
           \/ \E chain \in ChainIds \cup {0} : SetChildRuntimeConfig(chain)
           \/ \E paused \in BOOLEAN : SetPause(paused)
  <2>1. Still
    BY <1>4 DEF SetReleaseBroadcastConfig, SetChildRuntimeConfig, SetPause
  <2> QED BY <1>2, <2>1
<1>5. ASSUME NEW chosen, CreateSpawnSession(chosen) PROVE BirthInv'
  <2> DEFINE x == NewSession(Human, 0, chosen, ResolvedChain, today)
  <2>1. sessions' = Append(sessions, x) /\ UNCHANGED <<registry, requests, today>>
    BY <1>5 DEF CreateSpawnSession
  <2>2. ChildOf(x, registry) /\ x.origin = Human
    BY <1>1 DEF ChildOf, NewSession, SessionFields
  <2> HIDE DEF x
  <2>3. Sessions(sessions', registry) /\ Registry(registry, sessions') /\ SpacedOut(sessions')
    BY <1>1, <2>1, <2>2, SessionAdmitted
  <2> QED BY <1>1, <2>1, <2>3 DEF BirthInv
<1>6. ASSUME NEW i \in DOMAIN sessions,
             CompleteSession(i) \/ FailSession(i) \/ RetryFailedSession(i) \/ ExpireSession(i)
      PROVE  BirthInv'
  BY <1>6, BirthStep, SessionStep
<1>7. ASSUME NEW parent \in DOMAIN registry, AskReproduction(parent) PROVE BirthInv'
  <2>1. PICK n : /\ requests' = requests \cup {[n |-> n, parent |-> parent, at |-> today]}
                 /\ UNCHANGED <<sessions, registry, today>>
    BY <1>7, Zenon DEF AskReproduction
  <2>2. Requests(requests', registry)
    BY <1>1, <2>1 DEF Requests
  <2> QED BY <1>1, <2>1, <2>2 DEF BirthInv
<1>8. ASSUME NEW r \in requests, NEW gross, NEW balance, AdmitReproduction(r, gross, balance)
      PROVE  BirthInv'
  <2> DEFINE x == NewSession(r.parent, registry[r.parent].generation + 1, sessions[r.parent].chosen,
                             ResolvedChain, r.at)
  <2>1. /\ sessions' = Append(sessions, x) /\ requests' = requests \ {r}
        /\ UNCHANGED <<registry, today>> /\ Eligible(r.parent, r.at)
    BY <1>8 DEF AdmitReproduction
  <2>2. r.parent \in DOMAIN registry /\ r.at \in Nat
    BY <1>1 DEF Requests
  <2>3. ChildOf(x, registry) /\ x.origin = r.parent /\ x.created = r.at
    BY <2>2 DEF ChildOf, NewSession, SessionFields
  <2> HIDE DEF x
  <2>4. \A i \in DOMAIN sessions : (sessions[i].origin = x.origin /\ sessions[i].state # "Expired")
                                     => Since(x.created, sessions[i].created) >= Cooldown
    BY <2>1, <2>3 DEF Eligible, CooledDown, Reproductions
  <2>5. Sessions(sessions', registry) /\ Registry(registry, sessions') /\ SpacedOut(sessions')
    BY <1>1, <2>1, <2>3, <2>4, SessionAdmitted
  <2> QED BY <1>1, <2>1, <2>5 DEF BirthInv, Requests
<1>9. ASSUME NEW r \in requests, RefuseReproduction(r) PROVE BirthInv'
  BY <1>1, <1>9 DEF RefuseReproduction, BirthInv, Requests
<1>10. ASSUME NEW i \in DOMAIN registry,
              ReportDeath(i) \/ RecordInfrastructureDeath(i, "https://incident")
       PROVE  BirthInv'
  <2>1. PICK d, n : registry' = [registry EXCEPT ![i].death = d, ![i].incident = n]
    BY <1>10 DEF ReportDeath, RecordInfrastructureDeath
  <2>2. UNCHANGED <<sessions, requests, today>>
    BY <1>10 DEF ReportDeath, RecordInfrastructureDeath
  <2>3. RegistryKept(registry', registry) /\ Registry(registry', sessions) /\ Lineage(registry')
    BY <1>1, <2>1, RecordChanges
  <2>4. Sessions(sessions, registry') /\ Requests(requests, registry')
    BY <1>1, <2>3, RegistryGrows
  <2> QED BY <1>1, <2>2, <2>3, <2>4 DEF BirthInv
<1>11. CASE BirthTick
  BY <1>1, <1>11 DEF BirthTick, BirthInv
<1>12. CASE UNCHANGED birthVars
  BY <1>2, <1>12 DEF birthVars
<1> HIDE DEF Still
<1> QED BY <1>2, <1>3, <1>4, <1>5, <1>6, <1>7, <1>8, <1>9, <1>10, <1>11, <1>12 DEF BirthNext

\* BirthInv holds throughout.
LEMMA BirthInvAlways == BirthSpec => []BirthInv
<1>1. ASSUME BirthInit PROVE BirthInv
  <2> DEFINE x == NewSession(Human, 0, {}, Min(ChainIds), 0)
             first == [x EXCEPT !.state = "Complete"]
             founder == NewRecord(Human, 0, 0)
  <2>1. /\ sessions = <<first>> /\ registry = [i \in {1} |-> founder] /\ requests = {} /\ today = 0
    BY <1>1 DEF BirthInit
  <2>2. SessionFields \subseteq DOMAIN x /\ x.created = 0 /\ x.origin = Human
    BY DEF NewSession, SessionFields
  <2> HIDE DEF x
  <2>3. ChildOf(first, registry) /\ first.state = "Complete"
    BY <2>2 DEF ChildOf, SessionFields
  <2>4. RecordFields \subseteq DOMAIN founder /\ founder.parent = Human
    BY DEF NewRecord, RecordFields
  <2> HIDE DEF first, founder
  <2>5. Table(sessions) /\ DOMAIN sessions = {1} /\ sessions[1] = first
    <3>1. <<first>> \in Seq({first}) /\ DOMAIN <<first>> = {1} /\ <<first>>[1] = first
      OBVIOUS
    <3>2. Table(<<first>>)
      BY <3>1 DEF Table
    <3> QED BY <2>1, <3>1, <3>2
  <2>6. DOMAIN registry = {1} /\ registry[1] = founder
    BY <2>1
  <2>7. Sessions(sessions, registry) /\ Registry(registry, sessions)
    BY <2>3, <2>4, <2>5, <2>6 DEF Sessions, Registry
  <2>8. SpacedOut(sessions) /\ Lineage(registry)
    BY <2>4, <2>5, <2>6 DEF SpacedOut, Lineage
  <2> QED BY <2>1, <2>7, <2>8 DEF BirthInv, Requests
<1>2. BirthInv /\ [BirthNext]_birthVars => BirthInv'
  BY BirthsStep
<1> QED BY <1>1, <1>2, PTL DEF BirthSpec

\* Two sessions of one parent that may still give a child were asked for at least the cooldown
\* apart, whatever the calls of the parent that were under way at once, and a registered child
\* is listed by its parent, one generation above it, for any cooldown, any number of sessions
\* and any repository (create_reproduction_session_with_verified_balance, complete_session).
THEOREM CooldownKeptAlways == BirthSpec => []CooldownKept
<1>1. BirthInv => CooldownKept
  BY DEF BirthInv, SpacedOut, Lineage, CooldownKept
<1> QED BY <1>1, BirthInvAlways, PTL

\* The settings keep a chain for the releases, and a request is no later than the clock.
BirthLimits ==
  /\ repository \in [StrategyIds -> Statuses]
  /\ settings \in [child : ChainIds \cup {0}, release : ChainIds, pause : BOOLEAN]
  /\ \A r \in requests : r.at <= today
  /\ today \in 0..MaxFactoryTime

\* Administration gives a strategy one of the statuses and the settings one of the chains.
LEMMA AdministrationLimits ==
  ASSUME BirthLimits,
         \/ \E id \in StrategyIds :
              \/ \E recipe \in StrategyIds \cup {"undecodable"} : AddRepositoryStrategy(id, recipe)
              \/ DeprecateRepositoryStrategy(id)
              \/ RevokeRepositoryStrategy(id)
         \/ \E chain \in ChainIds : SetReleaseBroadcastConfig(chain)
         \/ \E chain \in ChainIds \cup {0} : SetChildRuntimeConfig(chain)
         \/ \E paused \in BOOLEAN : SetPause(paused)
  PROVE  BirthLimits'
<1>1. UNCHANGED <<requests, today>>
  BY DEF AddRepositoryStrategy, DeprecateRepositoryStrategy, RevokeRepositoryStrategy,
         SetReleaseBroadcastConfig, SetChildRuntimeConfig, SetPause
<1>2. CASE \E id \in StrategyIds :
              \/ \E recipe \in StrategyIds \cup {"undecodable"} : AddRepositoryStrategy(id, recipe)
              \/ DeprecateRepositoryStrategy(id)
              \/ RevokeRepositoryStrategy(id)
  <2>1. PICK id \in StrategyIds, status \in Statuses :
          repository' = [repository EXCEPT ![id] = status] /\ UNCHANGED settings
    BY <1>2 DEF AddRepositoryStrategy, DeprecateRepositoryStrategy, RevokeRepositoryStrategy,
                Statuses
  <2>2. repository' \in [StrategyIds -> Statuses]
    BY <2>1 DEF BirthLimits
  <2> QED BY <1>1, <2>1, <2>2 DEF BirthLimits
<1>3. CASE \/ \E chain \in ChainIds : SetReleaseBroadcastConfig(chain)
           \/ \E chain \in ChainIds \cup {0} : SetChildRuntimeConfig(chain)
           \/ \E paused \in BOOLEAN : SetPause(paused)
  <2>1. UNCHANGED repository
    BY <1>3 DEF SetReleaseBroadcastConfig, SetChildRuntimeConfig, SetPause
  <2>2. settings' \in [child : ChainIds \cup {0}, release : ChainIds, pause : BOOLEAN]
    BY <1>3 DEF SetReleaseBroadcastConfig, SetChildRuntimeConfig, SetPause, BirthLimits
  <2> QED BY <1>1, <2>1, <2>2 DEF BirthLimits
<1> QED BY <1>2, <1>3

\* BirthLimits is inductive beside BirthInv.
LEMMA BirthLimitsStep ==
  ASSUME BirthInv, BirthLimits, [BirthNext]_birthVars
  PROVE  BirthLimits'
<1>1. today \in Nat /\ MaxFactoryTime \in Nat /\ today <= MaxFactoryTime
  BY BirthAssumption DEF BirthLimits
<1>2. CASE UNCHANGED <<repository, settings, today>> /\ requests' \subseteq requests
  BY <1>2 DEF BirthLimits
<1>3. CASE \E parent \in DOMAIN registry : AskReproduction(parent)
  <2>1. PICK n, parent : /\ requests' = requests \cup {[n |-> n, parent |-> parent, at |-> today]}
                         /\ UNCHANGED <<repository, settings, today>>
    BY <1>3, Zenon DEF AskReproduction
  <2>2. \A r \in requests' : r.at <= today
    BY <1>1, <2>1 DEF BirthLimits
  <2> QED BY <2>1, <2>2 DEF BirthLimits
<1>4. CASE BirthTick
  <2>1. today' = today + 1 /\ today' \in 0..MaxFactoryTime /\ UNCHANGED <<repository, settings, requests>>
    BY <1>1, <1>4 DEF BirthTick
  <2>2. \A r \in requests : r.at \in Nat /\ r.at <= today
    BY DEF BirthInv, Requests, BirthLimits
  <2>3. \A r \in requests : r.at <= today'
    BY <1>1, <2>1, <2>2
  <2> QED BY <2>1, <2>3 DEF BirthLimits
<1>5. CASE \/ \E chosen \in SUBSET StrategyIds : CreateSpawnSession(chosen)
           \/ \E i \in DOMAIN sessions :
                CompleteSession(i) \/ FailSession(i) \/ RetryFailedSession(i) \/ ExpireSession(i)
           \/ \E r \in requests :
                \/ \E gross \in {MinGross - 1, MinGross}, balance \in {MinGross, MinGross + Reserves} :
                     AdmitReproduction(r, gross, balance)
                \/ RefuseReproduction(r)
           \/ \E i \in DOMAIN registry :
                ReportDeath(i) \/ RecordInfrastructureDeath(i, "https://incident")
           \/ UNCHANGED birthVars
  <2>1. UNCHANGED <<repository, settings, today>> /\ requests' \subseteq requests
    BY <1>5 DEF CreateSpawnSession, CompleteSession, FailSession, RetryFailedSession, ExpireSession,
                AdmitReproduction, RefuseReproduction, ReportDeath, RecordInfrastructureDeath, birthVars
  <2> QED BY <1>2, <2>1
<1> QED BY <1>3, <1>4, <1>5, AdministrationLimits DEF BirthNext

\* Every registered automaton is the child of a session, a request comes from a registered one
\* and is no later than the clock, and the chains are among the known ones, for any number of
\* sessions (create_reproduction_session, complete_session, set_child_runtime_config).
THEOREM BirthTyped == BirthSpec => []BirthTypeOK
<1>1. ASSUME BirthInit PROVE BirthLimits
  <2>1. Min(ChainIds) \in ChainIds
    BY BirthAssumption, MinIsLeast
  <2>2. settings \in [child : ChainIds \cup {0}, release : ChainIds, pause : BOOLEAN]
    BY <1>1, <2>1 DEF BirthInit, InitialSettings
  <2>3. repository \in [StrategyIds -> Statuses]
    BY <1>1 DEF BirthInit, Statuses
  <2>4. requests = {} /\ today \in 0..MaxFactoryTime
    BY <1>1, BirthAssumption DEF BirthInit
  <2> QED BY <2>2, <2>3, <2>4 DEF BirthLimits
<1>2. BirthInv /\ BirthLimits /\ [BirthNext]_birthVars => BirthLimits'
  BY BirthLimitsStep
<1>3. BirthInv /\ BirthLimits => BirthTypeOK
  BY DEF BirthInv, BirthLimits, BirthTypeOK, Registry, Requests
<1> QED BY <1>1, <1>2, <1>3, BirthInvAlways, PTL DEF BirthSpec

-----------------------------------------------------------------------------
(* The factory's room. *)

\* Every kept message for this automaton up to a point is among the known ones.
RoomCovered(kept, upTo, known) == \A m \in kept : m.mine /\ m.seq <= upTo => m.seq \in known

RoomPolls == [pc : {"idle", "asked", "answered"}, after : Nat, page : SUBSET Nat, last : Nat]

\* What a poll under way asked for or was answered is accounted for in the room as it is now.
PollAccounted(poll, r, known) ==
  /\ poll.pc = "asked" => poll.after < r.next /\ RoomCovered(r.kept, poll.after, known)
  /\ poll.pc = "answered" =>
       poll.last < r.next /\ RoomCovered(r.kept, poll.last, known \cup poll.page)

RoomFits(r) ==
  r.next \in Nat \ {0} /\ IsFiniteSet(r.kept) /\ \A m \in r.kept : m.seq \in Nat /\ m.seq < r.next

RoomInv ==
  /\ RoomFits(room)
  /\ seen \in Nat /\ seen < room.next /\ RoomCovered(room.kept, seen, observed \cup gone)
  /\ asking \in [1..2 -> RoomPolls]
  /\ \A p \in 1..2 : PollAccounted(asking[p], room, observed \cup gone)

\* Every message of a page was kept, and a kept one for this automaton that the page leaves
\* out is newer than the whole page; the last page leaves out none.
LEMMA PageIsAPrefix ==
  ASSUME RoomFits(room), NEW after \in Nat
  PROVE  /\ PageAfter(after) \subseteq Nat /\ \A s \in PageAfter(after) : s < room.next
         /\ \A m \in ForMe(after), s \in PageAfter(after) : m.seq <= s => m.seq \in PageAfter(after)
         /\ Cardinality(ForMe(after)) > RoomPage \/ \A m \in ForMe(after) : m.seq \in PageAfter(after)
<1> DEFINE F == ForMe(after)
           Older(m) == {n \in F : n.seq < m.seq}
<1>1. F \subseteq room.kept /\ IsFiniteSet(F) /\ \A m \in F : m.seq \in Nat /\ m.seq < room.next
  BY FS_Subset DEF RoomFits, ForMe
<1>2. PageAfter(after) = {m.seq : m \in {m \in F : Cardinality(Older(m)) < RoomPage}}
  BY DEF PageAfter
<1>3. \A m \in F : IsFiniteSet(Older(m)) /\ Cardinality(Older(m)) \in Nat /\ m \notin Older(m)
  <2> HIDE DEF F
  <2> TAKE m \in F
  <2>1. Older(m) \in SUBSET F /\ m.seq \in Nat
    BY <1>1
  <2>2. IsFiniteSet(Older(m)) /\ Cardinality(Older(m)) \in Nat
    <3> HIDE DEF Older
    <3> QED BY <1>1, <2>1, FS_Subset, FS_CardinalityType
  <2> QED BY <2>1, <2>2
<1>4. RoomPage \in Nat /\ Cardinality(F) \in Nat
  <2> HIDE DEF F
  <2> QED BY <1>1, RoomAssumption, FS_CardinalityType
<1> HIDE DEF F
<1>5. ASSUME NEW m \in F, NEW s \in PageAfter(after), m.seq <= s
      PROVE  m.seq \in PageAfter(after)
  <2>1. PICK k \in F : s = k.seq /\ Cardinality(Older(k)) < RoomPage
    BY <1>2
  <2>2. Older(m) \in SUBSET Older(k)
    BY <1>1, <1>5, <2>1
  <2>3. Cardinality(Older(m)) <= Cardinality(Older(k))
    <3> HIDE DEF Older
    <3> QED BY <1>3, <2>1, <2>2, FS_Subset
  <2>4. Cardinality(Older(m)) < RoomPage
    <3> HIDE DEF Older
    <3> QED BY <1>3, <1>4, <2>1, <2>3
  <2> HIDE DEF Older
  <2> QED BY <1>2, <2>4
<1>6. ASSUME NEW m \in F, ~(Cardinality(F) > RoomPage)
      PROVE  m.seq \in PageAfter(after)
  <2>1. Older(m) \in SUBSET F /\ Older(m) # F
    BY <1>3
  <2>2. Cardinality(Older(m)) <= Cardinality(F) /\ Cardinality(F) # Cardinality(Older(m))
    <3> HIDE DEF Older
    <3> QED BY <1>1, <2>1, FS_Subset
  <2>3. Cardinality(Older(m)) < RoomPage
    <3> HIDE DEF Older
    <3> QED BY <1>3, <1>4, <1>6, <2>2
  <2> HIDE DEF Older
  <2> QED BY <1>2, <2>3
<1>7. PageAfter(after) \subseteq Nat /\ \A s \in PageAfter(after) : s < room.next
  <2> HIDE DEF Older
  <2> QED BY <1>1, <1>2
<1> QED BY <1>5, <1>6, <1>7 DEF F

\* A message posted is newer than anything a poll was told of; the one it displaces is gone.
LEMMA RoomKeptGrows ==
  ASSUME NEW r, NEW r2, RoomFits(r), r2.next = r.next + 1, NEW new, new.seq = r.next,
         r2.kept \subseteq r.kept \cup {new}, IsFiniteSet(r2.kept)
  PROVE  /\ RoomFits(r2)
         /\ \A upTo \in Nat : \A known, more :
              (upTo < r.next /\ RoomCovered(r.kept, upTo, known) /\ known \subseteq more)
                => RoomCovered(r2.kept, upTo, more)
<1>1. r.next \in Nat /\ \A m \in r2.kept : m.seq \in Nat /\ m.seq <= r.next
  BY DEF RoomFits
<1>2. RoomFits(r2)
  BY <1>1 DEF RoomFits
<1>3. ASSUME NEW known, NEW more, NEW upTo \in Nat, upTo < r.next,
             RoomCovered(r.kept, upTo, known), known \subseteq more
      PROVE  RoomCovered(r2.kept, upTo, more)
  <2> SUFFICES ASSUME NEW m \in r2.kept, m.mine, m.seq <= upTo PROVE m.seq \in more
    BY DEF RoomCovered
  <2>1. m # new
    BY <1>1, <1>3
  <2> QED BY <1>3, <2>1 DEF RoomCovered
<1> QED BY <1>2, <1>3

\* Coverage only needs the known messages to grow.
LEMMA RoomCoveredGrows ==
  ASSUME NEW kept, NEW upTo, NEW known, NEW more, RoomCovered(kept, upTo, known), known \subseteq more
  PROVE  RoomCovered(kept, upTo, more)
  BY DEF RoomCovered

\* A post keeps everything accounted for.
LEMMA RoomPostStep ==
  ASSUME RoomInv, NEW mine \in BOOLEAN, PostRoomMessage(mine)
  PROVE  RoomInv'
<1> DEFINE new == [seq |-> room.next, mine |-> mine]
           old == IF Cardinality(room.kept) = RoomKept THEN {Oldest} ELSE {}
<1>1. /\ room' = [next |-> room.next + 1, kept |-> (room.kept \cup {new}) \ old]
      /\ gone' = gone \cup {m.seq : m \in old}
      /\ UNCHANGED <<seen, observed, asking, asked>>
  BY DEF PostRoomMessage
<1>2. room'.next = room.next + 1 /\ room'.kept \subseteq room.kept \cup {new} /\ new.seq = room.next
  <2> HIDE DEF old
  <2> QED BY <1>1
<1>3. IsFiniteSet(room'.kept)
  <2>1. IsFiniteSet(room.kept \cup {new})
    <3> HIDE DEF new
    <3> QED BY FS_AddElement DEF RoomInv, RoomFits
  <2> HIDE DEF new
  <2> QED BY <1>2, <2>1, FS_Subset
<1>4. observed \cup gone \subseteq observed' \cup gone'
  <2> HIDE DEF old
  <2> QED BY <1>1
<1> HIDE DEF new, old
<1>5. /\ RoomFits(room')
      /\ \A upTo \in Nat : \A known, more :
              (upTo < room.next /\ RoomCovered(room.kept, upTo, known) /\ known \subseteq more)
                => RoomCovered(room'.kept, upTo, more)
  BY <1>2, <1>3, RoomKeptGrows DEF RoomInv
<1>6. seen' \in Nat /\ seen' < room'.next /\ RoomCovered(room'.kept, seen', observed' \cup gone')
  <2>1. seen \in Nat /\ seen < room.next /\ room.next \in Nat /\ seen' = seen
    BY <1>1 DEF RoomInv, RoomFits
  <2>2. RoomCovered(room.kept, seen, observed \cup gone)
    BY DEF RoomInv
  <2>3. RoomCovered(room'.kept, seen, observed' \cup gone')
    BY <1>4, <1>5, <2>1, <2>2
  <2> QED BY <1>2, <2>1, <2>3
<1>7. ASSUME NEW p \in 1..2
      PROVE  PollAccounted(asking[p], room', observed' \cup gone')
  <2>1. PollAccounted(asking[p], room, observed \cup gone) /\ asking[p] \in RoomPolls
    BY DEF RoomInv
  <2>2. asking[p].after \in Nat /\ asking[p].last \in Nat /\ room.next \in Nat
    BY <2>1 DEF RoomPolls, RoomInv, RoomFits
  <2>3. (observed \cup gone) \cup asking[p].page \subseteq (observed' \cup gone') \cup asking[p].page
    BY <1>4
  <2> QED BY <1>2, <1>4, <1>5, <2>1, <2>2, <2>3 DEF PollAccounted
<1> QED BY <1>1, <1>5, <1>6, <1>7 DEF RoomInv

\* The number an answered poll will record, and its page, cover the room as it is.
LEMMA RoomAnswerCovers ==
  ASSUME RoomFits(room), NEW after \in Nat, NEW known, after < room.next,
         RoomCovered(room.kept, after, known), NEW last,
         last = LastSeen(PageAfter(after), Cardinality(ForMe(after)) > RoomPage, room.next - 1, after)
  PROVE  /\ last \in Nat /\ last < room.next /\ PageAfter(after) \subseteq Nat
         /\ RoomCovered(room.kept, last, known \cup PageAfter(after))
<1> DEFINE page == PageAfter(after)
           more == Cardinality(ForMe(after)) > RoomPage
<1>1. room.next \in Nat \ {0} /\ \A m \in room.kept : m.seq \in Nat /\ m.seq < room.next
  BY DEF RoomFits
<1>2. /\ page \subseteq Nat /\ \A s \in page : s < room.next
      /\ \A m \in ForMe(after), s \in page : m.seq <= s => m.seq \in page
      /\ more \/ \A m \in ForMe(after) : m.seq \in page
  BY PageIsAPrefix
<1>3. \A m \in room.kept : m.mine /\ ~(m.seq <= after) => m \in ForMe(after)
  BY <1>1 DEF ForMe
<1> HIDE DEF page, more
<1>4. last = LastSeen(page, more, room.next - 1, after)
  BY DEF page, more
<1>5. CASE ~more /\ room.next - 1 # 0
  <2>1. last = room.next - 1
    BY <1>4, <1>5 DEF LastSeen
  <2>2. RoomCovered(room.kept, last, known \cup page)
    BY <1>2, <1>3, <1>5 DEF RoomCovered
  <2> QED BY <1>1, <1>2, <2>1, <2>2 DEF page
<1>6. CASE ~(~more /\ room.next - 1 # 0) /\ page # {}
  <2>1. last = Max(page)
    BY <1>4, <1>6 DEF LastSeen
  <2>2. page \in SUBSET Int /\ (\A s \in page : s <= room.next) /\ room.next \in Int
    <3>1. room.next \in Nat /\ \A s \in page : s \in Nat
      BY <1>1, <1>2
    <3> QED BY <1>2, <3>1
  <2>3. last \in page
    BY <1>6, <2>1, <2>2, MaxIsLargest
  <2>4. RoomCovered(room.kept, last, known \cup page)
    BY <1>2, <1>3, <2>3 DEF RoomCovered
  <2> QED BY <1>2, <2>3, <2>4 DEF page
<1>7. CASE ~(~more /\ room.next - 1 # 0) /\ page = {}
  <2>1. last = after
    BY <1>4, <1>7 DEF LastSeen
  <2>2. RoomCovered(room.kept, last, known \cup page)
    BY <2>1 DEF RoomCovered
  <2> QED BY <1>2, <2>1, <2>2 DEF page
<1> QED BY <1>5, <1>6, <1>7

\* A step of one poll changes no other.
LEMMA RoomPollStep ==
  ASSUME RoomInv, NEW p \in 1..2, NEW poll \in RoomPolls, asking' = [asking EXCEPT ![p] = poll],
         room' = room, observed \cup gone \subseteq observed' \cup gone',
         seen' \in Nat, seen' < room.next, RoomCovered(room.kept, seen', observed' \cup gone'),
         PollAccounted(poll, room, observed' \cup gone')
  PROVE  RoomInv'
<1>1. asking' \in [1..2 -> RoomPolls]
  BY DEF RoomInv
<1>2. ASSUME NEW q \in 1..2
      PROVE  PollAccounted(asking'[q], room', observed' \cup gone')
  <2>1. CASE q = p
    BY <2>1 DEF RoomInv
  <2>2. CASE q # p
    <3>1. asking'[q] = asking[q] /\ PollAccounted(asking[q], room, observed \cup gone)
      BY <2>2 DEF RoomInv
    <3>2. (observed \cup gone) \cup asking[q].page \subseteq (observed' \cup gone') \cup asking[q].page
      OBVIOUS
    <3> QED BY <3>1, <3>2, RoomCoveredGrows DEF PollAccounted
  <2> QED BY <2>1, <2>2
<1> QED BY <1>1, <1>2 DEF RoomInv

\* Every step of the room and of its readers keeps everything accounted for.
LEMMA RoomStep == ASSUME RoomInv, [RoomNext]_roomVars PROVE RoomInv'
<1>1. CASE \E mine \in BOOLEAN : PostRoomMessage(mine)
  BY <1>1, RoomPostStep
<1>2. ASSUME NEW p \in 1..2, AskRoom(p) \/ RoomAnswers(p) \/ RoomReturns(p) \/ RoomPollFails(p)
      PROVE  RoomInv'
  <2> DEFINE known == observed \cup gone
  <2>1. /\ RoomFits(room) /\ seen \in Nat /\ seen < room.next /\ RoomCovered(room.kept, seen, known)
        /\ asking[p] \in RoomPolls /\ PollAccounted(asking[p], room, known)
    BY DEF RoomInv
  <2>2. /\ asking[p].after \in Nat /\ asking[p].page \in SUBSET Nat /\ asking[p].last \in Nat
        /\ {"pc", "after", "page", "last"} \subseteq DOMAIN asking[p]
    BY <2>1 DEF RoomPolls
  <2>3. CASE AskRoom(p)
    <3> DEFINE poll == [Quiet EXCEPT !.pc = "asked", !.after = seen]
    <3>1. /\ asking' = [asking EXCEPT ![p] = poll]
          /\ UNCHANGED <<room, seen, observed, gone>>
      BY <2>3 DEF AskRoom
    <3>2. poll \in RoomPolls /\ PollAccounted(poll, room, known)
      <4>1. Quiet \in RoomPolls /\ {"pc", "after"} \subseteq DOMAIN Quiet
        BY DEF Quiet, RoomPolls
      <4>2. poll \in RoomPolls /\ poll.pc = "asked" /\ poll.after = seen
        BY <2>1, <4>1 DEF RoomPolls
      <4> HIDE DEF poll
      <4> QED BY <2>1, <4>2 DEF PollAccounted
    <3> HIDE DEF poll
    <3> QED BY <2>1, <3>1, <3>2, RoomPollStep
  <2>4. CASE RoomAnswers(p)
    <3> DEFINE after == asking[p].after
               last == LastSeen(PageAfter(after), Cardinality(ForMe(after)) > RoomPage,
                                room.next - 1, after)
               poll == [asking[p] EXCEPT !.pc = "answered", !.page = PageAfter(after), !.last = last]
    <3>1. /\ asking[p].pc = "asked" /\ asking' = [asking EXCEPT ![p] = poll]
          /\ UNCHANGED <<room, seen, observed, gone>>
      BY <2>4 DEF RoomAnswers
    <3>2. after < room.next /\ RoomCovered(room.kept, after, known)
      BY <2>1, <3>1 DEF PollAccounted
    <3>3. /\ last \in Nat /\ last < room.next /\ PageAfter(after) \subseteq Nat
          /\ RoomCovered(room.kept, last, known \cup PageAfter(after))
      <4> HIDE DEF known
      <4> QED BY <2>1, <2>2, <3>2, RoomAnswerCovers
    <3>4. poll \in RoomPolls /\ PollAccounted(poll, room, known)
      <4> HIDE DEF last, known
      <4> QED BY <2>1, <2>2, <3>3 DEF RoomPolls, PollAccounted
    <3> HIDE DEF poll
    <3> QED BY <2>1, <3>1, <3>4, RoomPollStep
  <2>5. CASE RoomReturns(p)
    <3> DEFINE all == observed \cup asking[p].page
    <3>1. /\ asking[p].pc = "answered" /\ observed' = Newest(all)
          /\ gone' = gone \cup (all \ Newest(all))
          /\ seen' = IF asking[p].last # 0 THEN asking[p].last ELSE seen
          /\ asking' = [asking EXCEPT ![p] = Quiet] /\ room' = room
      BY <2>5 DEF RoomReturns
    <3>2. Newest(all) \subseteq all
      BY DEF Newest
    <3>3. known \cup asking[p].page \subseteq observed' \cup gone'
      BY <3>1, <3>2
    <3>4. asking[p].last < room.next /\ RoomCovered(room.kept, asking[p].last, known \cup asking[p].page)
      BY <2>1, <3>1 DEF PollAccounted
    <3>5. seen' \in Nat /\ seen' < room.next /\ RoomCovered(room.kept, seen', observed' \cup gone')
      <4>1. known \subseteq observed' \cup gone'
        BY <3>3
      <4> HIDE DEF known
      <4> QED BY <2>1, <2>2, <3>1, <3>3, <3>4, <4>1, RoomCoveredGrows
    <3>6. Quiet \in RoomPolls /\ PollAccounted(Quiet, room, observed' \cup gone')
      BY DEF Quiet, RoomPolls, PollAccounted
    <3> QED BY <3>1, <3>3, <3>5, <3>6, RoomPollStep
  <2>6. CASE RoomPollFails(p)
    <3>1. asking' = [asking EXCEPT ![p] = Quiet] /\ UNCHANGED <<room, seen, observed, gone>>
      BY <2>6 DEF RoomPollFails
    <3>2. Quiet \in RoomPolls /\ PollAccounted(Quiet, room, observed' \cup gone')
      BY DEF Quiet, RoomPolls, PollAccounted
    <3> QED BY <2>1, <3>1, <3>2, RoomPollStep
  <2> QED BY <1>2, <2>3, <2>4, <2>5, <2>6
<1>3. CASE UNCHANGED roomVars
  BY <1>3 DEF roomVars, RoomInv, RoomFits, RoomCovered, PollAccounted
<1> QED BY <1>1, <1>2, <1>3 DEF RoomNext

\* RoomInv holds throughout.
LEMMA RoomInvAlways == RoomSpec => []RoomInv
<1>1. ASSUME RoomInit PROVE RoomInv
  <2>1. /\ room = [next |-> 1, kept |-> {}] /\ seen = 0 /\ observed = {} /\ gone = {}
        /\ asking = [p \in 1..2 |-> Quiet]
    BY <1>1 DEF RoomInit
  <2>2. RoomFits(room) /\ RoomCovered(room.kept, seen, observed \cup gone)
    BY <2>1, FS_EmptySet DEF RoomFits, RoomCovered
  <2>3. Quiet \in RoomPolls /\ PollAccounted(Quiet, room, observed \cup gone)
    BY DEF Quiet, RoomPolls, PollAccounted
  <2> QED BY <2>1, <2>2, <2>3 DEF RoomInv
<1> QED BY <1>1, RoomStep, PTL DEF RoomSpec

\* No room message for the automaton is passed over: what last_seen is past was observed or
\* was evicted for its age, whatever two overlapping polls write over each other, for rooms,
\* pages and observation lists of any size (list_room_messages, record_room_poll_success).
THEOREM NoRoomMessagePassedOverAlways == RoomSpec => []NoRoomMessagePassedOver
<1>1. RoomInv => NoRoomMessagePassedOver
  BY DEF RoomInv, RoomCovered, NoRoomMessagePassedOver
<1> QED BY <1>1, RoomInvAlways, PTL

\* A room that is full makes room for the next message.
LEMMA RoomStaysWithinLimit ==
  ASSUME RoomInv, RoomTypeOK, NEW mine \in BOOLEAN, PostRoomMessage(mine)
  PROVE  Cardinality(room'.kept) <= RoomKept
<1> DEFINE new == [seq |-> room.next, mine |-> mine]
           old == IF Cardinality(room.kept) = RoomKept THEN {Oldest} ELSE {}
           K == room.kept
           n == Cardinality(K)
<1>1. room'.kept = (K \cup {new}) \ old
  <2> HIDE DEF old
  <2> QED BY DEF PostRoomMessage, old
<1>2. IsFiniteSet(K) /\ n \in Nat /\ n <= RoomKept /\ RoomKept \in Nat \ {0}
      /\ \A m \in K : m.seq \in Nat /\ m.seq < room.next
  BY RoomAssumption, FS_CardinalityType DEF RoomInv, RoomFits, RoomTypeOK
<1>3. new \notin K
  <2>1. new.seq = room.next /\ room.next \in Nat
    BY DEF RoomInv, RoomFits
  <2> QED BY <1>2, <2>1
<1> HIDE DEF new
<1>4. IsFiniteSet(K \cup {new}) /\ Cardinality(K \cup {new}) = n + 1
  <2> HIDE DEF K
  <2> QED BY <1>2, <1>3, FS_AddElement DEF n
<1>5. CASE n = RoomKept
  <2>1. K # {}
    BY <1>2, <1>5, FS_EmptySet
  <2> DEFINE T == {m.seq : m \in K}
  <2>2. T \in SUBSET Nat /\ T # {}
    BY <1>2, <2>1
  <2>3. PICK t \in T : \A u \in T : t <= u
    BY <2>2, LeastNat
  <2>4. \E m \in K : \A k \in K : m.seq <= k.seq
    BY <2>3
  <2>5. Oldest \in K
    BY <2>4 DEF Oldest
  <2>6. old = {Oldest}
    BY <1>5
  <2> DEFINE o == Oldest
  <2>7. o \in K \cup {new} /\ room'.kept = (K \cup {new}) \ {o}
    BY <1>1, <2>5, <2>6
  <2> HIDE DEF o, K, n
  <2> DEFINE F == K \cup {new}
  <2>8. IsFiniteSet(F) /\ Cardinality(F) = n + 1 /\ o \in F /\ room'.kept = F \ {o}
    BY <1>4, <2>7
  <2> HIDE DEF F
  <2>9. Cardinality(room'.kept) = Cardinality(F) - 1
    BY <2>8, FS_RemoveElement
  <2> QED BY <1>2, <1>5, <2>8, <2>9
<1>6. CASE n # RoomKept
  <2>1. old = {}
    BY <1>6
  <2>2. room'.kept = K \cup {new}
    BY <1>1, <2>1
  <2> HIDE DEF K, n
  <2> QED BY <1>2, <1>4, <1>6, <2>2
<1> QED BY <1>5, <1>6

\* A message that is posted is typed.
LEMMA RoomPostTyped ==
  ASSUME RoomInv, RoomTypeOK, NEW mine \in BOOLEAN, PostRoomMessage(mine)
  PROVE  RoomTypeOK'
<1> DEFINE new == [seq |-> room.next, mine |-> mine]
           old == IF Cardinality(room.kept) = RoomKept THEN {Oldest} ELSE {}
           Messages == [seq : 1..MaxRoom, mine : BOOLEAN]
<1>1. /\ room.next <= MaxRoom /\ room'.next = room.next + 1
      /\ room'.kept = (room.kept \cup {new}) \ old
      /\ gone' = gone \cup {m.seq : m \in old}
      /\ UNCHANGED <<seen, observed, asking, asked>>
  <2> HIDE DEF old
  <2> QED BY DEF PostRoomMessage, old
<1>2. room.next \in 1..MaxRoom /\ room'.next \in 1 .. MaxRoom + 1 /\ MaxRoom \in Nat
  BY <1>1, RoomAssumption DEF RoomTypeOK
<1>3. new \in Messages
  BY <1>2
<1> HIDE DEF new
<1>4. room.kept \subseteq Messages
  BY DEF RoomTypeOK
<1>5. room'.kept \subseteq Messages
  <2> HIDE DEF old, Messages
  <2> QED BY <1>1, <1>3, <1>4
<1>6. old \subseteq room.kept
  <2>1. CASE Cardinality(room.kept) = RoomKept
    <3>1. room.kept # {} /\ \A m \in room.kept : m.seq \in Nat
      BY <2>1, RoomAssumption, FS_EmptySet DEF RoomInv, RoomFits
    <3> DEFINE T == {m.seq : m \in room.kept}
    <3>2. T \in SUBSET Nat /\ T # {}
      BY <3>1
    <3>3. PICK t \in T : \A u \in T : t <= u
      BY <3>2, LeastNat
    <3>4. \E m \in room.kept : \A k \in room.kept : m.seq <= k.seq
      BY <3>3
    <3> QED BY <3>4 DEF Oldest
  <2> QED BY <2>1
<1>7. gone' \subseteq 1..MaxRoom
  <2>1. \A m \in old : m.seq \in 1..MaxRoom
    <3> HIDE DEF old
    <3> QED BY <1>4, <1>6
  <2> HIDE DEF old
  <2> QED BY <1>1, <2>1 DEF RoomTypeOK
<1>8. Cardinality(room'.kept) <= RoomKept
  BY RoomStaysWithinLimit
<1> HIDE DEF old
<1> QED BY <1>1, <1>2, <1>5, <1>7, <1>8 DEF RoomTypeOK

\* A poll that is typed.
PageTyped(poll) ==
  poll \in [pc : {"idle", "asked", "answered"}, after : 0..MaxRoom, page : SUBSET (1..MaxRoom), last : 0..MaxRoom]

\* A step of a poll keeps the room's types.
LEMMA RoomPollTyped ==
  ASSUME RoomInv, RoomInv', RoomTypeOK, NEW p \in 1..2,
         AskRoom(p) \/ RoomAnswers(p) \/ RoomReturns(p) \/ RoomPollFails(p)
  PROVE  RoomTypeOK'
<1>1. /\ MaxRoom \in Nat /\ MaxRoomPolls \in Nat /\ MaxObservations \in Nat
      /\ room.next \in Nat \ {0} /\ room.next - 1 <= MaxRoom
  BY RoomAssumption DEF RoomTypeOK
<1>2. /\ asking \in [1..2 -> [pc : {"idle", "asked", "answered"}, after : 0..MaxRoom,
                              page : SUBSET (1..MaxRoom), last : 0..MaxRoom]]
      /\ \A q \in 1..2 : PageTyped(asking[q])
  BY DEF RoomTypeOK, PageTyped
<1>3. PageTyped(Quiet)
  BY <1>1 DEF PageTyped, Quiet
<1>4. room' = room
  BY DEF AskRoom, RoomAnswers, RoomReturns, RoomPollFails
<1>5. seen' \in 0..MaxRoom
  <2>1. seen' \in Nat /\ seen' < room'.next
    BY DEF RoomInv
  <2> QED BY <1>1, <1>4, <2>1
<1>6. asked' \in 0..MaxRoomPolls
  BY <1>1 DEF AskRoom, RoomAnswers, RoomReturns, RoomPollFails, RoomTypeOK
<1>7. PICK z : asking' = [asking EXCEPT ![p] = z] /\ PageTyped(z)
  <2>1. CASE AskRoom(p)
    <3> DEFINE z == [Quiet EXCEPT !.pc = "asked", !.after = seen]
    <3>1. asking' = [asking EXCEPT ![p] = z]
      BY <2>1 DEF AskRoom
    <3>2. seen \in 0..MaxRoom
      BY DEF RoomTypeOK
    <3>3. PageTyped(z)
      BY <1>3, <3>2 DEF PageTyped
    <3> QED BY <3>1, <3>3
  <2>2. CASE RoomAnswers(p)
    <3> DEFINE after == asking[p].after
               page == PageAfter(after)
               last == LastSeen(page, Cardinality(ForMe(after)) > RoomPage, room.next - 1, after)
    <3>1. asking' = [asking EXCEPT ![p] = [asking[p] EXCEPT !.pc = "answered", !.page = page, !.last = last]]
          /\ asking[p].pc = "asked"
      BY <2>2 DEF RoomAnswers
    <3>2. after \in Nat /\ after < room.next /\ after \in 0..MaxRoom
          /\ RoomCovered(room.kept, after, observed \cup gone) /\ RoomFits(room)
      BY <3>1, <1>2 DEF RoomInv, PollAccounted, PageTyped
    <3>3. page \subseteq 1..MaxRoom
      <4>1. page \subseteq {m.seq : m \in room.kept}
        BY DEF PageAfter, ForMe
      <4>2. \A m \in room.kept : m.seq \in 1..MaxRoom
        BY DEF RoomTypeOK
      <4> HIDE DEF page
      <4> QED BY <4>1, <4>2
    <3>4. last \in Nat /\ last < room.next
      BY <3>2, RoomAnswerCovers
    <3> HIDE DEF page, last
    <3>5. last \in 0..MaxRoom
      BY <1>1, <3>4
    <3> DEFINE z == [asking[p] EXCEPT !.pc = "answered", !.page = page, !.last = last]
    <3>6. PageTyped(z)
      BY <1>2, <3>3, <3>5 DEF PageTyped
    <3> QED BY <3>1, <3>6
  <2>3. CASE RoomReturns(p) \/ RoomPollFails(p)
    BY <1>3, <2>3 DEF RoomReturns, RoomPollFails
  <2> QED BY <2>1, <2>2, <2>3
<1>8. asking' \in [1..2 -> [pc : {"idle", "asked", "answered"}, after : 0..MaxRoom,
                            page : SUBSET (1..MaxRoom), last : 0..MaxRoom]]
  BY <1>2, <1>7 DEF PageTyped
<1>9. /\ observed' \subseteq 1..MaxRoom /\ Cardinality(observed') <= MaxObservations
      /\ gone' \subseteq 1..MaxRoom
  <2>1. CASE observed' = observed /\ gone' = gone
    BY <2>1 DEF RoomTypeOK
  <2>2. CASE RoomReturns(p)
    <3> DEFINE all == observed \cup asking[p].page
    <3>1. observed' = Newest(all) /\ gone' = gone \cup (all \ Newest(all))
      BY <2>2 DEF RoomReturns
    <3>2. all \in SUBSET (1..MaxRoom) /\ gone \subseteq 1..MaxRoom
      BY <1>2 DEF RoomTypeOK, PageTyped
    <3> HIDE DEF all
    <3>3. IsFiniteSet(all) /\ all \in SUBSET Nat
      <4>1. IsFiniteSet(1..MaxRoom) /\ 1..MaxRoom \in SUBSET Nat
        BY <1>1, FS_Interval
      <4> QED BY <3>2, <4>1, FS_Subset
    <3>4. Cardinality(Newest(all)) <= MaxObservations /\ Newest(all) \subseteq all
      BY <1>1, <3>3, NewestAreFew DEF Newest
    <3> QED BY <3>1, <3>2, <3>4
  <2> QED BY <2>1, <2>2 DEF AskRoom, RoomAnswers, RoomPollFails
<1> QED BY <1>4, <1>5, <1>6, <1>8, <1>9 DEF RoomTypeOK

\* The room and the observations stay within their limits: a full room gives up its oldest
\* message with every post, and what two overlapping polls bring is cut to the newest
\* (post_room_message, store_room_observations); every number a poll carries is a message's.
THEOREM RoomTyped == RoomSpec => []RoomTypeOK
<1>1. RoomInit => RoomTypeOK
  <2> SUFFICES ASSUME RoomInit PROVE RoomTypeOK
    OBVIOUS
  <2>1. /\ room = [next |-> 1, kept |-> {}] /\ seen = 0 /\ observed = {} /\ gone = {}
        /\ asking = [p \in 1..2 |-> Quiet] /\ asked = 0
    BY DEF RoomInit
  <2>2. Cardinality({}) = 0
    BY FS_EmptySet
  <2>3. room.next = 1 /\ room.kept = {}
    BY <2>1
  <2>4. Quiet \in [pc : {"idle", "asked", "answered"}, after : 0..MaxRoom,
                   page : SUBSET (1..MaxRoom), last : 0..MaxRoom]
    BY RoomAssumption DEF Quiet
  <2> QED BY <2>1, <2>2, <2>3, <2>4, RoomAssumption DEF RoomTypeOK
<1>2. RoomInv /\ RoomInv' /\ RoomTypeOK /\ [RoomNext]_roomVars => RoomTypeOK'
  <2> SUFFICES ASSUME RoomInv, RoomInv', RoomTypeOK, [RoomNext]_roomVars PROVE RoomTypeOK'
    OBVIOUS
  <2>1. CASE UNCHANGED roomVars
    BY <2>1 DEF roomVars, RoomTypeOK
  <2> QED BY <2>1, RoomPostTyped, RoomPollTyped DEF RoomNext
<1> QED BY <1>1, <1>2, RoomInvAlways, PTL DEF RoomSpec

(***************************************************************************)
(* The constitution of a child.  For two texts p and c the scan is         *)
(* compared with the whole table of edit distances, cell by cell.          *)
(***************************************************************************)
\* The least of three candidates.
LEMMA MinOfThree ==
  ASSUME NEW a \in Nat, NEW b \in Nat, NEW e \in Nat
  PROVE  /\ Min({a, b, e}) \in {a, b, e} /\ Min({a, b, e}) \in Nat
         /\ Min({a, b, e}) <= a /\ Min({a, b, e}) <= b /\ Min({a, b, e}) <= e
<1>1. {a, b, e} \in SUBSET Nat /\ {a, b, e} # {}
  OBVIOUS
<1>2. Min({a, b, e}) \in {a, b, e} /\ \A y \in {a, b, e} : Min({a, b, e}) <= y
  BY <1>1, MinIsLeast
<1> HIDE DEF Min
<1> QED BY <1>1, <1>2

Cells(p, c) == (0..Len(p)) \X (0..Len(c))

Differs(p, c, i, j) == IF p[i] = c[j] THEN 0 ELSE 1

\* A cell of the table from the cells before it.
Edits(p, c, f, at) ==
  CASE at[1] = 0 -> at[2]
    [] at[2] = 0 -> at[1]
    [] OTHER -> Min({f[<<at[1] - 1, at[2]>>] + 1, f[<<at[1], at[2] - 1>>] + 1,
                     f[<<at[1] - 1, at[2] - 1>>] + Differs(p, c, at[1], at[2])})

\* The table is well defined: by the least diagonal for which it would not be.
LEMMA TableDefined ==
  ASSUME NEW p, NEW c, Len(p) \in Nat, Len(c) \in Nat
  PROVE  \A at \in Cells(p, c) : EditTable(p, c)[at] = Edits(p, c, EditTable(p, c), at)
<1> DEFINE Near(k) == {at \in Cells(p, c) : at[1] + at[2] <= k}
           Good(k, f) == f = [at \in Near(k) |-> Edits(p, c, f, at)]
           Bad == {k \in Nat : ~ \E f : Good(k, f)}
<1>0. /\ \A at \in Cells(p, c) : at[1] \in Nat /\ at[2] \in Nat /\ at[1] <= Len(p) /\ at[2] <= Len(c) /\ at = <<at[1], at[2]>>
      /\ \A i \in 0..Len(p), j \in 0..Len(c) : <<i, j>> \in Cells(p, c)
  BY DEF Cells
<1>1. Bad = {}
  <2> SUFFICES ASSUME Bad # {} PROVE FALSE
    OBVIOUS
  <2>1. PICK k \in Bad : \A m \in Bad : k <= m
    BY LeastNat
  <2>2. k \in Nat /\ ~ \E f : Good(k, f)
    BY <2>1
  <2>3. k # 0
    <3> DEFINE g == [at \in Near(0) |-> at[2]]
    <3>1. \A at \in Near(0) : at[1] = 0
      BY <1>0
    <3>2. \A at \in Near(0) : Edits(p, c, g, at) = at[2]
      BY <3>1 DEF Edits
    <3>3. Good(0, g)
      <4> HIDE DEF Near
      <4> QED BY <3>2
    <3> QED BY <2>2, <3>3
  <2>4. k - 1 \in Nat /\ k - 1 \notin Bad
    <3>1. k - 1 \in Nat /\ ~ (k <= k - 1)
      BY <2>2, <2>3
    <3> HIDE DEF Bad
    <3> QED BY <2>1, <3>1
  <2>5. PICK f : Good(k - 1, f)
    BY <2>4
  <2> DEFINE g == [at \in Near(k) |-> Edits(p, c, f, at)]
  <2>6. \A at \in Near(k - 1) : at \in Near(k) /\ f[at] = Edits(p, c, f, at)
    <3>1. \A at \in Near(k - 1) : at \in Near(k)
      BY <1>0, <2>2
    <3>2. \A at \in Near(k - 1) : f[at] = Edits(p, c, f, at)
      <4> HIDE DEF Near
      <4> QED BY <2>5
    <3> QED BY <3>1, <3>2
  <2>7. \A at \in Near(k - 1) : g[at] = f[at]
    <3> HIDE DEF Near
    <3> QED BY <2>6
  <2>8. \A at \in Near(k) : at[1] # 0 /\ at[2] # 0 =>
          /\ <<at[1] - 1, at[2]>> \in Near(k - 1) /\ <<at[1], at[2] - 1>> \in Near(k - 1)
          /\ <<at[1] - 1, at[2] - 1>> \in Near(k - 1)
    <3> SUFFICES ASSUME NEW at \in Near(k), at[1] # 0, at[2] # 0
                 PROVE  /\ <<at[1] - 1, at[2]>> \in Near(k - 1) /\ <<at[1], at[2] - 1>> \in Near(k - 1)
                        /\ <<at[1] - 1, at[2] - 1>> \in Near(k - 1)
      OBVIOUS
    <3> DEFINE i == at[1]
               j == at[2]
    <3>1. i \in Nat /\ j \in Nat /\ i <= Len(p) /\ j <= Len(c) /\ i + j <= k /\ i # 0 /\ j # 0
      BY <1>0
    <3> HIDE DEF i, j
    <3>2. i \in 0..Len(p) /\ i - 1 \in 0..Len(p) /\ j \in 0..Len(c) /\ j - 1 \in 0..Len(c)
          /\ (i - 1) + j <= k - 1 /\ i + (j - 1) <= k - 1 /\ (i - 1) + (j - 1) <= k - 1
      BY <2>2, <3>1
    <3> QED BY <1>0, <3>2 DEF i, j
  <2>9. \A at \in Near(k) : Edits(p, c, g, at) = Edits(p, c, f, at)
    <3> HIDE DEF g, Near
    <3> QED BY <2>7, <2>8 DEF Edits
  <2>10. Good(k, g)
    <3> HIDE DEF Near
    <3> QED BY <2>9
  <2> QED BY <2>2, <2>10
<1>2. Near(Len(p) + Len(c)) = Cells(p, c) /\ Len(p) + Len(c) \in Nat
  BY <1>0
<1>3. \E f : f = [at \in Cells(p, c) |-> Edits(p, c, f, at)]
  <2>1. \E f : Good(Len(p) + Len(c), f)
    BY <1>1, <1>2
  <2> HIDE DEF Near
  <2> QED BY <1>2, <2>1
<1>4. EditTable(p, c) = CHOOSE f : f = [at \in Cells(p, c) |-> Edits(p, c, f, at)]
  BY DEF EditTable, Edits, Differs, Cells
<1> DEFINE h == EditTable(p, c)
<1>5. h = [at \in Cells(p, c) |-> Edits(p, c, h, at)]
  BY <1>3, <1>4
<1> HIDE DEF h
<1>6. \A at \in Cells(p, c) : h[at] = Edits(p, c, h, at)
  BY <1>5
<1> QED BY <1>6 DEF h

Distance(p, c, i, j) == EditTable(p, c)[<<i, j>>]

\* A distance from the distances before it.
DistanceIs(p, c, i, j) ==
  /\ i = 0 => Distance(p, c, i, j) = j
  /\ j = 0 => Distance(p, c, i, j) = i
  /\ i # 0 /\ j # 0 =>
       Distance(p, c, i, j) = Min({Distance(p, c, i - 1, j) + 1, Distance(p, c, i, j - 1) + 1,
                                   Distance(p, c, i - 1, j - 1) + Differs(p, c, i, j)})

\* The distances satisfy their equations.
LEMMA Distances ==
  ASSUME NEW p, NEW c, Len(p) \in Nat, Len(c) \in Nat, NEW i \in 0..Len(p), NEW j \in 0..Len(c)
  PROVE  DistanceIs(p, c, i, j)
<1>1. <<i, j>> \in Cells(p, c)
  BY DEF Cells
<1>2. EditTable(p, c)[<<i, j>>] = Edits(p, c, EditTable(p, c), <<i, j>>)
  BY <1>1, TableDefined
<1> QED BY <1>2 DEF Edits, DistanceIs, Distance

\* A distance is a number that no way around the difference in length undercuts.
GapBelow(p, c, i, j) ==
  Distance(p, c, i, j) \in Nat /\ i - j <= Distance(p, c, i, j) /\ j - i <= Distance(p, c, i, j)

\* The distance is at least the difference in length: by the least diagonal it would fail on.
LEMMA DistanceIsFar ==
  ASSUME NEW p, NEW c, Len(p) \in Nat, Len(c) \in Nat
  PROVE  \A i \in 0..Len(p), j \in 0..Len(c) : GapBelow(p, c, i, j)
<1> DEFINE Bad == {at \in (0..Len(p)) \X (0..Len(c)) : ~ GapBelow(p, c, at[1], at[2])}
           Sums == {at[1] + at[2] : at \in Bad}
<1>0. /\ \A at \in Bad : at[1] \in 0..Len(p) /\ at[2] \in 0..Len(c) /\ ~ GapBelow(p, c, at[1], at[2])
      /\ \A i \in 0..Len(p), j \in 0..Len(c) : ~ GapBelow(p, c, i, j) => <<i, j>> \in Bad
  OBVIOUS
<1>1. Bad = {}
  <2> SUFFICES ASSUME Bad # {} PROVE FALSE
    OBVIOUS
  <2>1. Sums \in SUBSET Nat /\ Sums # {}
    <3>1. \A at \in Bad : at[1] + at[2] \in Nat
      BY <1>0
    <3> HIDE DEF Bad
    <3> QED BY <3>1
  <2>2. PICK n \in Sums : \A m \in Sums : n <= m
    BY <2>1, LeastNat
  <2> HIDE DEF Bad
  <2>3. PICK at \in Bad : \A to \in Bad : at[1] + at[2] <= to[1] + to[2]
    BY <2>2
  <2> DEFINE i == at[1]
             j == at[2]
  <2>4. i \in 0..Len(p) /\ j \in 0..Len(c) /\ ~ GapBelow(p, c, i, j)
    BY <1>0, <2>3
  <2> HIDE DEF i, j
  <2>5. DistanceIs(p, c, i, j)
    BY <2>4, Distances
  <2>6. i # 0 /\ j # 0
    BY <2>4, <2>5 DEF DistanceIs, GapBelow
  <2>7. \A x \in 0..Len(p), y \in 0..Len(c) : x + y < i + j => GapBelow(p, c, x, y)
    <3> TAKE x \in 0..Len(p), y \in 0..Len(c)
    <3> HAVE x + y < i + j
    <3> SUFFICES ASSUME ~ GapBelow(p, c, x, y) PROVE FALSE
      OBVIOUS
    <3>1. <<x, y>> \in Bad
      BY <1>0
    <3>2. i + j <= x + y
      BY <2>3, <3>1 DEF i, j
    <3> QED BY <2>4, <3>2
  <2>8. GapBelow(p, c, i - 1, j) /\ GapBelow(p, c, i, j - 1) /\ GapBelow(p, c, i - 1, j - 1)
    <3>1. i - 1 \in 0..Len(p) /\ j - 1 \in 0..Len(c)
          /\ (i - 1) + j < i + j /\ i + (j - 1) < i + j /\ (i - 1) + (j - 1) < i + j
      BY <2>4, <2>6
    <3> QED BY <2>4, <2>7, <3>1
  <2> DEFINE a == Distance(p, c, i - 1, j) + 1
             b == Distance(p, c, i, j - 1) + 1
             e == Distance(p, c, i - 1, j - 1) + Differs(p, c, i, j)
  <2>9. /\ a \in Nat /\ b \in Nat /\ e \in Nat
        /\ i - j <= a /\ j - i <= a /\ i - j <= b /\ j - i <= b /\ i - j <= e /\ j - i <= e
    <3> DEFINE u == Distance(p, c, i - 1, j)
               v == Distance(p, c, i, j - 1)
               w == Distance(p, c, i - 1, j - 1)
               z == Differs(p, c, i, j)
    <3>1. /\ u \in Nat /\ v \in Nat /\ w \in Nat /\ z \in {0, 1}
          /\ (i - 1) - j <= u /\ j - (i - 1) <= u /\ i - (j - 1) <= v /\ (j - 1) - i <= v
          /\ (i - 1) - (j - 1) <= w /\ (j - 1) - (i - 1) <= w
      BY <2>8 DEF GapBelow, Differs
    <3>2. i \in Nat /\ j \in Nat
      BY <2>4
    <3> HIDE DEF u, v, w, z
    <3>3. /\ u + 1 \in Nat /\ v + 1 \in Nat /\ w + z \in Nat
          /\ i - j <= u + 1 /\ j - i <= u + 1 /\ i - j <= v + 1 /\ j - i <= v + 1
          /\ i - j <= w + z /\ j - i <= w + z
      BY <3>1, <3>2
    <3> QED BY <3>3 DEF u, v, w, z
  <2>10. Distance(p, c, i, j) = Min({a, b, e})
    BY <2>5, <2>6 DEF DistanceIs
  <2> HIDE DEF a, b, e
  <2>11. Distance(p, c, i, j) \in {a, b, e}
    BY <2>9, <2>10, MinOfThree
  <2> QED BY <2>4, <2>9, <2>11 DEF GapBelow
<1> QED BY <1>0, <1>1

\* A value x stands for a: exactly if a is within t, and otherwise as something over t.
StandsFor(t, a, x) == IF a <= t THEN x = a ELSE x > t

\* It does so after adding the same to both.
LEMMA StandsAfter ==
  ASSUME NEW t \in Nat, NEW a \in Nat, NEW x \in Nat, NEW k \in Nat, StandsFor(t, a, x)
  PROVE  a + k \in Nat /\ x + k \in Nat /\ StandsFor(t, a + k, x + k)
  BY DEF StandsFor

\* The least of three values stands for the least of what they stand for.
LEMMA ThreeDecide ==
  ASSUME NEW t \in Nat, NEW a \in Nat, NEW b \in Nat, NEW e \in Nat,
         NEW x \in Nat, NEW y \in Nat, NEW z \in Nat,
         StandsFor(t, a, x), StandsFor(t, b, y), StandsFor(t, e, z)
  PROVE  Min({x, y, z}) \in Nat /\ StandsFor(t, Min({a, b, e}), Min({x, y, z}))
<1> DEFINE m == Min({a, b, e})
           n == Min({x, y, z})
<1>1. m \in Nat /\ (m = a \/ m = b \/ m = e) /\ m <= a /\ m <= b /\ m <= e
  BY MinOfThree
<1>2. n \in Nat /\ (n = x \/ n = y \/ n = z) /\ n <= x /\ n <= y /\ n <= z
  BY MinOfThree
<1> HIDE DEF m, n
<1>3. n \in Nat /\ StandsFor(t, m, n)
  BY <1>1, <1>2 DEF StandsFor
<1> QED BY <1>3 DEF m, n

\* A row that is too far throughout is followed by such rows only.
LEMMA FarStaysFar ==
  ASSUME NEW p, NEW c, Len(p) \in Nat, Len(c) \in Nat, NEW t \in Nat, NEW r \in 0..Len(p),
         \A j \in 0..Len(c) : Distance(p, c, r, j) > t
  PROVE  \A i \in 0..Len(p), j \in 0..Len(c) : i >= r => Distance(p, c, i, j) > t
<1> DEFINE Far(i, j) == i >= r => Distance(p, c, i, j) > t
           Bad == {at \in (0..Len(p)) \X (0..Len(c)) : ~ Far(at[1], at[2])}
           Sums == {at[1] + at[2] : at \in Bad}
<1>0. /\ \A at \in Bad : at[1] \in 0..Len(p) /\ at[2] \in 0..Len(c) /\ ~ Far(at[1], at[2])
      /\ \A i \in 0..Len(p), j \in 0..Len(c) : ~ Far(i, j) => <<i, j>> \in Bad
  <2> HIDE DEF Far
  <2> QED OBVIOUS
<1>1. Bad = {}
  <2> SUFFICES ASSUME Bad # {} PROVE FALSE
    OBVIOUS
  <2>1. Sums \in SUBSET Nat /\ Sums # {}
    <3>1. \A at \in Bad : at[1] + at[2] \in Nat
      BY <1>0
    <3> HIDE DEF Bad
    <3> QED BY <3>1
  <2>2. PICK n \in Sums : \A m \in Sums : n <= m
    BY <2>1, LeastNat
  <2> HIDE DEF Bad
  <2>3. PICK at \in Bad : \A to \in Bad : at[1] + at[2] <= to[1] + to[2]
    BY <2>2
  <2> DEFINE i == at[1]
             j == at[2]
  <2>4. i \in 0..Len(p) /\ j \in 0..Len(c) /\ i >= r /\ ~ (Distance(p, c, i, j) > t)
    BY <1>0, <2>3
  <2> HIDE DEF i, j
  <2>5. DistanceIs(p, c, i, j) /\ i > r
    BY <2>4, Distances
  <2>6. \A x \in 0..Len(p), y \in 0..Len(c) : x >= r /\ x + y < i + j => Distance(p, c, x, y) > t
    <3> TAKE x \in 0..Len(p), y \in 0..Len(c)
    <3> HAVE x >= r /\ x + y < i + j
    <3> SUFFICES ASSUME ~ Far(x, y) PROVE FALSE
      OBVIOUS
    <3>1. <<x, y>> \in Bad
      BY <1>0
    <3>2. i + j <= x + y
      BY <2>3, <3>1 DEF i, j
    <3> QED BY <2>4, <3>2
  <2> HIDE DEF Far
  <2>7. i - 1 \in 0..Len(p) /\ i - 1 >= r /\ (i - 1) + j < i + j
    BY <2>4, <2>5
  <2>8. Distance(p, c, i - 1, j) > t
    BY <2>4, <2>6, <2>7
  <2>9. CASE j = 0
    <3>1. DistanceIs(p, c, i - 1, j)
      BY <2>4, <2>7, Distances
    <3> QED BY <2>4, <2>5, <2>7, <2>8, <2>9, <3>1 DEF DistanceIs
  <2>10. CASE j # 0
    <3>1. j - 1 \in 0..Len(c) /\ i + (j - 1) < i + j /\ (i - 1) + (j - 1) < i + j
      BY <2>4, <2>10
    <3>2. Distance(p, c, i, j - 1) > t /\ Distance(p, c, i - 1, j - 1) > t
      BY <2>4, <2>6, <2>7, <3>1
    <3> DEFINE a == Distance(p, c, i - 1, j) + 1
               b == Distance(p, c, i, j - 1) + 1
               e == Distance(p, c, i - 1, j - 1) + Differs(p, c, i, j)
    <3>3. GapBelow(p, c, i - 1, j) /\ GapBelow(p, c, i, j - 1) /\ GapBelow(p, c, i - 1, j - 1)
      BY <2>4, <2>7, <3>1, DistanceIsFar
    <3>4. a \in Nat /\ b \in Nat /\ e \in Nat /\ a > t /\ b > t /\ e > t
      BY <2>8, <3>2, <3>3 DEF GapBelow, Differs
    <3>5. Distance(p, c, i, j) = Min({a, b, e})
      BY <2>4, <2>5, <2>10 DEF DistanceIs
    <3> HIDE DEF a, b, e
    <3> QED BY <2>4, <3>4, <3>5, MinOfThree
  <2> QED BY <2>9, <2>10
<1> QED BY <1>0, <1>1

\* The second column is no further than the first.
LEMMA SecondColumn ==
  ASSUME NEW p, NEW c, Len(p) \in Nat, Len(c) \in Nat, NEW i \in 1..Len(p), Len(c) # 0
  PROVE  Distance(p, c, i, 1) <= i
<1>1. i \in 0..Len(p) /\ i - 1 \in 0..Len(p) /\ 0 \in 0..Len(c) /\ 1 \in 0..Len(c) /\ i # 0
  OBVIOUS
<1>2. DistanceIs(p, c, i, 1) /\ DistanceIs(p, c, i - 1, 0)
  BY <1>1, Distances
<1> DEFINE a == Distance(p, c, i - 1, 1) + 1
           b == Distance(p, c, i, 0) + 1
           e == Distance(p, c, i - 1, 0) + Differs(p, c, i, 1)
<1>3. Distance(p, c, i, 1) = Min({a, b, e})
  BY <1>1, <1>2 DEF DistanceIs
<1>4. Distance(p, c, i - 1, 0) = i - 1
  BY <1>2 DEF DistanceIs
<1>5. GapBelow(p, c, i - 1, 1) /\ GapBelow(p, c, i, 0)
  BY <1>1, DistanceIsFar
<1>6. a \in Nat /\ b \in Nat /\ e \in Nat /\ e <= i
  BY <1>1, <1>4, <1>5 DEF GapBelow, Differs
<1> HIDE DEF a, b, e
<1>7. Min({a, b, e}) \in Nat /\ Min({a, b, e}) <= e
  BY <1>6, MinOfThree
<1> QED BY <1>1, <1>3, <1>6, <1>7

\* The threshold is a number, and below the length of a text that is compared with none.
LEMMA ThresholdIs ==
  ASSUME NEW p, NEW c, Len(p) \in Nat, Len(c) \in Nat
  PROVE  /\ Threshold(p, c) \in Nat
         /\ Len(c) = 0 /\ Len(p) # 0 => Threshold(p, c) < Len(p)
<1> DEFINE S == {Len(p), Len(c), 1}
           m == Max(S)
<1>1. m \in S /\ \A y \in S : y <= m
  <2>1. S \in SUBSET Int /\ S # {} /\ Len(p) + Len(c) + 1 \in Int
        /\ \A x \in S : x <= Len(p) + Len(c) + 1
    OBVIOUS
  <2> HIDE DEF S
  <2> QED BY <2>1, MaxIsLargest
<1>2. m \in Nat /\ (Len(c) = 0 /\ Len(p) # 0 => m = Len(p))
  BY <1>1
<1>3. Threshold(p, c) = (m * MaxEditBps) \div 10000 /\ MaxEditBps \in 0..9999
  BY DriftAssumption DEF Threshold
<1> HIDE DEF m
<1>4. m * MaxEditBps \in Nat /\ m * MaxEditBps <= m * 9999
  BY <1>2, <1>3
<1> DEFINE x == m * MaxEditBps
<1>5. x \in Nat /\ x <= m * 9999
  BY <1>4
<1> HIDE DEF x
<1>6. x \div 10000 \in Nat /\ (m # 0 => x \div 10000 < m)
  BY <1>2, <1>5
<1> QED BY <1>2, <1>3, <1>6 DEF x

\* The band is what lies within the threshold of the diagonal.
LEMMA BandIs ==
  ASSUME NEW p, NEW c, Len(p) \in Nat, Len(c) \in Nat, NEW row \in 1..Len(p)
  PROVE  \A j \in 0..Len(c) :
           j \in Band(p, c, row)
             <=> j # 0 /\ row - j <= Threshold(p, c) /\ j - row <= Threshold(p, c)
<1> DEFINE t == Threshold(p, c)
           first == IF row > t THEN Max({row - t, 1}) ELSE 1
           last == Min({Len(c), row + t})
<1>1. t \in Nat
  BY ThresholdIs
<1>2. Band(p, c, row) = first..last
  BY DEF Band
<1> HIDE DEF t
<1>3. row \in Nat /\ row >= 1 /\ row + t \in Nat /\ row - t \in Int
  BY <1>1
<1>4. Max({row - t, 1}) \in {row - t, 1} /\ Max({row - t, 1}) >= row - t /\ Max({row - t, 1}) >= 1
  <2> DEFINE d == row - t
  <2>1. d \in Int /\ 1 \in Int
    BY <1>3
  <2> HIDE DEF d
  <2>2. Max({d, 1}) \in {d, 1} /\ Max({d, 1}) >= d /\ Max({d, 1}) >= 1
    BY <2>1, MaxOfTwo
  <2> QED BY <2>2 DEF d
<1>5. first \in Int /\ (first = row - t \/ first = 1) /\ first >= row - t /\ first >= 1
  BY <1>1, <1>3, <1>4
<1>6. last \in {Len(c), row + t} /\ last <= Len(c) /\ last <= row + t
  <2>1. {Len(c), row + t} \in SUBSET Nat /\ {Len(c), row + t} # {}
    BY <1>3
  <2>2. last \in {Len(c), row + t} /\ \A y \in {Len(c), row + t} : last <= y
    BY <2>1, MinIsLeast
  <2> QED BY <2>2
<1> HIDE DEF first, last
<1>7. \A j \in 0..Len(c) : j \in first..last <=> j # 0 /\ row - j <= t /\ j - row <= t
  BY <1>1, <1>3, <1>5, <1>6
<1> QED BY <1>2, <1>7 DEF t

\* A cell of the scan from the row before and the cell before.
CellIs(p, c, row, previous, f, column) ==
  CASE column = 0 /\ row <= Threshold(p, c) -> row
    [] column \in Band(p, c, row) ->
         Min({previous[column] + 1,
              f[column - 1] + 1,
              previous[column - 1] + Substitution(p, c, row, column)})
    [] OTHER -> Sentinel(p, c)

\* The cells of a row are well defined.
LEMMA RowDefined ==
  ASSUME NEW p, NEW c, NEW row \in 1..Len(p), NEW previous, Len(p) \in Nat, Len(c) \in Nat
  PROVE  \A column \in 0..Len(c) :
           NextRow(p, c, row, previous)[column]
             = CellIs(p, c, row, previous, NextRow(p, c, row, previous), column)
<1> DEFINE Step(f, n) == CellIs(p, c, row, previous, f, n)
           Good(k, f) == f = [n \in 0..k |-> Step(f, n)]
           Wrong == {k \in 0..Len(c) : ~ \E f : Good(k, f)}
<1>0. 0 \notin Band(p, c, row)
  <2>1. \A j \in 0..Len(c) : j \in Band(p, c, row) => j # 0
    BY BandIs
  <2>2. 0 \in 0..Len(c)
    OBVIOUS
  <2> QED BY <2>1, <2>2
<1>1. Wrong = {}
  <2> SUFFICES ASSUME Wrong # {} PROVE FALSE
    OBVIOUS
  <2>1. PICK x \in Wrong : \A y \in Wrong : x <= y
    <3>1. Wrong \in SUBSET Nat
      OBVIOUS
    <3> HIDE DEF Wrong
    <3> QED BY <3>1, LeastNat
  <2>2. x \in 0..Len(c) /\ ~ \E f : Good(x, f)
    BY <2>1
  <2>3. x # 0
    <3> DEFINE g == [n \in 0..0 |-> IF row <= Threshold(p, c) THEN row ELSE Sentinel(p, c)]
    <3>1. \A n \in 0..0 : n = 0
      OBVIOUS
    <3>2. \A f : Step(f, 0) = IF row <= Threshold(p, c) THEN row ELSE Sentinel(p, c)
      BY <1>0 DEF CellIs
    <3> HIDE DEF Step
    <3>3. Good(0, g)
      BY <3>1, <3>2
    <3> QED BY <2>2, <3>3
  <2>4. x - 1 \in 0..Len(c) /\ x - 1 \notin Wrong
    <3>1. x - 1 \in 0..Len(c) /\ ~ (x <= x - 1)
      BY <2>2, <2>3
    <3> HIDE DEF Wrong
    <3> QED BY <2>1, <3>1
  <2>5. PICK f : Good(x - 1, f)
    BY <2>4
  <2> DEFINE g == [n \in 0..x |-> Step(f, n)]
  <2>6. \A n \in 0 .. x - 1 : g[n] = f[n]
    <3>1. \A n \in 0 .. x - 1 : f[n] = Step(f, n)
      <4> HIDE DEF Step
      <4> QED BY <2>5
    <3>2. \A n \in 0 .. x - 1 : n \in 0..x
      BY <2>2
    <3> HIDE DEF Step
    <3> QED BY <3>1, <3>2
  <2>7. \A n \in 0..x : Step(g, n) = Step(f, n)
    <3>1. \A n \in 0..x : n # 0 => n - 1 \in 0 .. x - 1
      BY <2>2
    <3>2. \A n \in 0..x : n # 0 => g[n - 1] = f[n - 1]
      <4> HIDE DEF g
      <4> QED BY <2>6, <3>1
    <3> HIDE DEF g
    <3> QED BY <1>0, <3>2 DEF CellIs
  <2>8. Good(x, g)
    <3> HIDE DEF Step
    <3> QED BY <2>7
  <2> QED BY <2>2, <2>8
<1>2. \E f : Good(Len(c), f)
  BY <1>1
<1> DEFINE h == NextRow(p, c, row, previous)
<1>3. h = CHOOSE f : Good(Len(c), f)
  BY DEF NextRow, CellIs
<1>4. Good(Len(c), h)
  <2> HIDE DEF Good, h
  <2> QED BY <1>2, <1>3
<1> HIDE DEF h, Step
<1>5. \A n \in 0..Len(c) : h[n] = Step(h, n)
  BY <1>4
<1> QED BY <1>5 DEF h, Step

\* A cell of the scan is exact where the distance is within t, and over t elsewhere.
Exact(p, c, i, cells, j, t) ==
  cells[j] \in Nat /\ StandsFor(t, Distance(p, c, i, j), cells[j])

RowExact(p, c, i, cells, t) == \A j \in 0..Len(c) : Exact(p, c, i, cells, j, t)

\* The first row is exact.
LEMMA FirstRowExact ==
  ASSUME NEW p, NEW c, Len(p) \in Nat, Len(c) \in Nat
  PROVE  RowExact(p, c, 0, FirstRow(p, c), Threshold(p, c))
<1> DEFINE t == Threshold(p, c)
<1>1. t \in Nat
  BY ThresholdIs
<1>2. \A j \in 0..Len(c) : Distance(p, c, 0, j) = j
  <2> TAKE j \in 0..Len(c)
  <2>1. 0 \in 0..Len(p)
    OBVIOUS
  <2>2. DistanceIs(p, c, 0, j)
    BY <2>1, Distances
  <2> QED BY <2>2 DEF DistanceIs
<1>3. \A j \in 0..Len(c) : FirstRow(p, c)[j] = IF j <= t THEN j ELSE t + 1
  BY DEF FirstRow, Sentinel
<1> HIDE DEF t
<1>4. RowExact(p, c, 0, FirstRow(p, c), t)
  BY <1>1, <1>2, <1>3 DEF RowExact, Exact, StandsFor
<1> QED BY <1>4 DEF t

\* The next row is exact if this one is: by the first cell that would not be.
LEMMA NextRowExact ==
  ASSUME NEW p, NEW c, Len(p) \in Nat, Len(c) \in Nat, NEW row \in 1..Len(p), NEW previous,
         RowExact(p, c, row - 1, previous, Threshold(p, c))
  PROVE  RowExact(p, c, row, NextRow(p, c, row, previous), Threshold(p, c))
<1> DEFINE t == Threshold(p, c)
           f == NextRow(p, c, row, previous)
           Wrong == {j \in 0..Len(c) : ~ Exact(p, c, row, f, j, t)}
<1>1. t \in Nat /\ Sentinel(p, c) = t + 1
  BY ThresholdIs DEF Sentinel
<1>2. \A j \in 0..Len(c) : f[j] = CellIs(p, c, row, previous, f, j)
  BY RowDefined
<1>3. \A j \in 0..Len(c) : j \in Band(p, c, row) <=> j # 0 /\ row - j <= t /\ j - row <= t
  BY BandIs
<1>4. RowExact(p, c, row - 1, previous, t) /\ row - 1 \in 0..Len(p) /\ row \in 0..Len(p) /\ row # 0
  OBVIOUS
<1>5. \A j \in 0..Len(c) :
        f[j] = CASE j = 0 /\ row <= t -> row
                 [] j \in Band(p, c, row) ->
                      Min({previous[j] + 1, f[j - 1] + 1, previous[j - 1] + Differs(p, c, row, j)})
                 [] OTHER -> t + 1
  BY <1>1, <1>2 DEF CellIs, Substitution, Differs
<1> HIDE DEF t, f
<1>6. Wrong = {}
  <2> SUFFICES ASSUME Wrong # {} PROVE FALSE
    OBVIOUS
  <2>1. PICK j \in Wrong : \A y \in Wrong : j <= y
    <3>1. Wrong \in SUBSET Nat
      OBVIOUS
    <3> HIDE DEF Wrong
    <3> QED BY <3>1, LeastNat
  <2>2. j \in 0..Len(c) /\ ~ Exact(p, c, row, f, j, t)
    BY <2>1
  <2>3. GapBelow(p, c, row, j) /\ DistanceIs(p, c, row, j)
    BY <1>4, <2>2, DistanceIsFar, Distances
  <2>4. CASE j = 0
    <3>1. Distance(p, c, row, j) = row /\ 0 \notin Band(p, c, row)
      BY <1>3, <2>2, <2>3, <2>4 DEF DistanceIs
    <3>2. f[j] = IF row <= t THEN row ELSE t + 1
      BY <1>5, <2>2, <2>4, <3>1
    <3> QED BY <1>1, <2>2, <3>1, <3>2 DEF Exact, StandsFor
  <2>5. CASE j # 0 /\ j \notin Band(p, c, row)
    <3>1. f[j] = t + 1
      BY <1>5, <2>2, <2>5
    <3>2. ~ (row - j <= t) \/ ~ (j - row <= t)
      BY <1>3, <2>2, <2>5
    <3>3. Distance(p, c, row, j) \in Nat /\ ~ (Distance(p, c, row, j) <= t)
      BY <1>1, <2>2, <2>3, <3>2 DEF GapBelow
    <3> QED BY <1>1, <2>2, <3>1, <3>3 DEF Exact, StandsFor
  <2>6. CASE j # 0 /\ j \in Band(p, c, row)
    <3> DEFINE d == Differs(p, c, row, j)
    <3>1. f[j] = Min({previous[j] + 1, f[j - 1] + 1, previous[j - 1] + d})
      BY <1>5, <2>2, <2>6
    <3>2. j - 1 \in 0..Len(c) /\ ~ (j <= j - 1)
      BY <2>2, <2>6
    <3>3. Exact(p, c, row, f, j - 1, t)
      BY <2>1, <3>2
    <3>4. Exact(p, c, row - 1, previous, j, t) /\ Exact(p, c, row - 1, previous, j - 1, t)
      BY <1>4, <2>2, <3>2 DEF RowExact
    <3>5. /\ Distance(p, c, row - 1, j) \in Nat /\ Distance(p, c, row, j - 1) \in Nat
          /\ Distance(p, c, row - 1, j - 1) \in Nat /\ d \in Nat
      BY <1>4, <2>2, <3>2, DistanceIsFar DEF GapBelow, Differs
    <3> HIDE DEF d
    <3> DEFINE a == Distance(p, c, row - 1, j) + 1
               b == Distance(p, c, row, j - 1) + 1
               e == Distance(p, c, row - 1, j - 1) + d
               x == previous[j] + 1
               y == f[j - 1] + 1
               z == previous[j - 1] + d
    <3>6. /\ a \in Nat /\ b \in Nat /\ e \in Nat /\ x \in Nat /\ y \in Nat /\ z \in Nat
          /\ StandsFor(t, a, x) /\ StandsFor(t, b, y) /\ StandsFor(t, e, z)
      BY <1>1, <3>3, <3>4, <3>5, StandsAfter DEF Exact
    <3>7. Distance(p, c, row, j) = Min({a, b, e}) /\ f[j] = Min({x, y, z})
      BY <1>4, <2>3, <2>6, <3>1 DEF DistanceIs, d
    <3> HIDE DEF a, b, e, x, y, z
    <3>8. Min({x, y, z}) \in Nat /\ StandsFor(t, Min({a, b, e}), Min({x, y, z}))
      BY <1>1, <3>6, ThreeDecide
    <3> QED BY <2>2, <3>7, <3>8 DEF Exact
  <2> QED BY <2>4, <2>5, <2>6
<1>7. RowExact(p, c, row, f, t)
  BY <1>6 DEF RowExact
<1> QED BY <1>7 DEF f, t

\* A row whose band is over the threshold is too far throughout, its first cell too: the
\* row-minimum test does not look at it, but the second cell is no further.
LEMMA RowMinIsEnough ==
  ASSUME NEW p, NEW c, Len(p) \in Nat, Len(c) \in Nat, NEW row \in 1..Len(p), NEW cells,
         LengthGap(p, c) <= Threshold(p, c), RowExact(p, c, row, cells, Threshold(p, c)),
         RowMin(p, c, row, cells) > Threshold(p, c)
  PROVE  \A j \in 0..Len(c) : Distance(p, c, row, j) > Threshold(p, c)
<1> DEFINE t == Threshold(p, c)
           B == Band(p, c, row)
           S == {Sentinel(p, c)} \cup {cells[j] : j \in B}
<1>1. t \in Nat /\ Sentinel(p, c) = t + 1 /\ row \in 0..Len(p) /\ row \in Nat /\ row # 0
  BY ThresholdIs DEF Sentinel
<1>2. \A j \in 0..Len(c) : j \in B <=> j # 0 /\ row - j <= t /\ j - row <= t
  BY BandIs
<1>3. B \subseteq 0..Len(c)
  <2>1. B \subseteq Int /\ \A j \in B : j >= 1 /\ j <= Len(c)
    <3> DEFINE first == IF row > t THEN Max({row - t, 1}) ELSE 1
               last == Min({Len(c), row + t})
    <3>1. B = first..last
      BY DEF Band
    <3>2. first \in Int /\ first >= 1
      <4> DEFINE d == row - t
      <4>1. d \in Int /\ 1 \in Int
        BY <1>1
      <4> HIDE DEF d
      <4>2. Max({d, 1}) \in {d, 1} /\ Max({d, 1}) >= 1
        BY <4>1, MaxOfTwo
      <4>3. Max({d, 1}) \in Int /\ Max({d, 1}) >= 1
        BY <4>1, <4>2
      <4>4. first = IF row > t THEN Max({d, 1}) ELSE 1
        BY DEF d
      <4> HIDE DEF first
      <4> QED BY <4>1, <4>3, <4>4
    <3>3. last \in Int /\ last <= Len(c)
      <4>1. {Len(c), row + t} \in SUBSET Nat /\ {Len(c), row + t} # {}
        BY <1>1
      <4>2. last \in {Len(c), row + t} /\ \A y \in {Len(c), row + t} : last <= y
        BY <4>1, MinIsLeast
      <4> QED BY <4>1, <4>2
    <3> HIDE DEF first, last, B
    <3> QED BY <3>1, <3>2, <3>3
  <2> HIDE DEF B
  <2> QED BY <2>1
<1>4. RowExact(p, c, row, cells, t) /\ RowMin(p, c, row, cells) = Min(S) /\ Min(S) > t
  BY DEF RowMin
<1>5. LengthGap(p, c) <= t
  OBVIOUS
<1> HIDE DEF t, B
<1>6. S \in SUBSET Nat /\ S # {}
  BY <1>1, <1>3, <1>4 DEF RowExact, Exact
<1>7. Min(S) \in Nat /\ \A y \in S : Min(S) <= y
  BY <1>6, MinIsLeast
<1>8. \A j \in B : cells[j] \in Nat /\ cells[j] > t
  <2> TAKE j \in B
  <2>1. cells[j] \in S /\ cells[j] \in Nat
    BY <1>6
  <2>2. Min(S) <= cells[j]
    BY <1>7, <2>1
  <2> QED BY <1>1, <1>4, <1>7, <2>1, <2>2
<1>9. \A j \in 0..Len(c) : Distance(p, c, row, j) \in Nat
  BY <1>1, DistanceIsFar DEF GapBelow
<1>10. \A j \in B : Distance(p, c, row, j) > t
  <2> TAKE j \in B
  <2>1. j \in 0..Len(c) /\ Exact(p, c, row, cells, j, t)
    BY <1>3, <1>4 DEF RowExact
  <2>2. cells[j] > t /\ cells[j] \in Nat /\ Distance(p, c, row, j) \in Nat
    BY <1>8, <1>9, <2>1
  <2> QED BY <1>1, <2>1, <2>2 DEF Exact, StandsFor
<1>11. ASSUME NEW j \in 0..Len(c), j \notin B, j # 0
       PROVE  Distance(p, c, row, j) > t
  <2>1. ~ (row - j <= t) \/ ~ (j - row <= t)
    BY <1>2, <1>11
  <2>2. GapBelow(p, c, row, j)
    BY <1>1, DistanceIsFar
  <2> QED BY <1>1, <2>1, <2>2 DEF GapBelow
<1>12. Distance(p, c, row, 0) > t
  <2>1. 0 \in 0..Len(c)
    OBVIOUS
  <2>2. DistanceIs(p, c, row, 0)
    BY <1>1, <2>1, Distances
  <2>3. Distance(p, c, row, 0) = row
    BY <2>2 DEF DistanceIs
  <2>4. CASE row <= t
    <3>1. Len(c) # 0
      <4> SUFFICES ASSUME Len(c) = 0 PROVE FALSE
        OBVIOUS
      <4>1. Len(p) # 0 /\ Len(p) <= t
        BY <1>5 DEF LengthGap
      <4>2. t < Len(p)
        BY <4>1, ThresholdIs DEF t
      <4> QED BY <1>1, <4>1, <4>2
    <3>2. 1 \in 0..Len(c) /\ row - 1 <= t /\ 1 - row <= t
      BY <1>1, <2>4, <3>1
    <3>3. Distance(p, c, row, 1) > t /\ Distance(p, c, row, 1) \in Nat
      BY <1>2, <1>9, <1>10, <3>2
    <3>4. Distance(p, c, row, 1) <= row
      BY <3>1, SecondColumn
    <3> QED BY <1>1, <2>4, <3>3, <3>4
  <2>5. CASE ~ (row <= t)
    BY <1>1, <2>3, <2>5
  <2> QED BY <2>4, <2>5
<1>13. \A j \in 0..Len(c) : Distance(p, c, row, j) > t
  BY <1>10, <1>11, <1>12
<1> QED BY <1>13 DEF t

-----------------------------------------------------------------------------
\* The scan has reached an exact row, or its verdict on the whole distance.
DriftFits(p, c, d) ==
  /\ Len(p) \in Nat /\ Len(c) \in Nat /\ d.row \in 0..Len(p)
  /\ d.verdict \in {"scanning", "accepted", "refused"}
  /\ d.verdict = "scanning" => RowExact(p, c, d.row, d.cells, Threshold(p, c))
  /\ d.verdict = "accepted" => /\ Distance(p, c, Len(p), Len(c)) <= Threshold(p, c)
                               /\ d.distance = Distance(p, c, Len(p), Len(c))
  /\ d.verdict = "refused" => Distance(p, c, Len(p), Len(c)) > Threshold(p, c)

IsDrift(d) ==
  d = [parent |-> d.parent, child |-> d.child, row |-> d.row, cells |-> d.cells,
       verdict |-> d.verdict, distance |-> d.distance]

DriftInv == IsDrift(drift) /\ DriftFits(drift.parent, drift.child, drift)

\* The scan begins at the first row.
LEMMA DriftBegins == DriftInit => DriftInv
<1> SUFFICES ASSUME DriftInit PROVE DriftInv
  OBVIOUS
<1>1. PICK p \in Texts, c \in Texts : Scanning(p, c)
  BY DEF DriftInit
<1>2. Len(p) \in Nat /\ Len(c) \in Nat
  <2>1. \A x \in Texts : Len(x) \in Nat
    <3> TAKE x \in Texts
    <3>1. PICK n \in 0..MaxText : x \in [1..n -> Letters]
      BY DEF Texts
    <3>2. n \in Nat
      BY DriftAssumption
    <3> QED BY <3>1, <3>2
  <2> QED BY <2>1
<1>3. RowExact(p, c, 0, FirstRow(p, c), Threshold(p, c))
  BY <1>2, FirstRowExact
<1>4. /\ IsDrift(drift) /\ drift.parent = p /\ drift.child = c /\ drift.row = 0
      /\ drift.cells = FirstRow(p, c) /\ drift.verdict = "scanning"
  BY <1>1 DEF Scanning, IsDrift
<1> QED BY <1>2, <1>3, <1>4 DEF DriftInv, DriftFits

\* Every step keeps the row exact or gives the right verdict.
LEMMA DriftStep == DriftInv /\ [DriftNext]_driftVars => DriftInv'
<1> SUFFICES ASSUME DriftInv, [DriftNext]_driftVars PROVE DriftInv'
  OBVIOUS
<1> DEFINE p == drift.parent
           c == drift.child
           t == Threshold(p, c)
           far == Distance(p, c, Len(p), Len(c))
<1>0. IsDrift(drift) /\ DriftFits(p, c, drift)
  BY DEF DriftInv
<1>1. Len(p) \in Nat /\ Len(c) \in Nat /\ drift.row \in 0..Len(p) /\ t \in Nat
  BY <1>0, ThresholdIs DEF DriftFits
<1>2. far \in Nat /\ Len(p) - Len(c) <= far /\ Len(c) - Len(p) <= far
  <2>1. Len(p) \in 0..Len(p) /\ Len(c) \in 0..Len(c)
    BY <1>1
  <2>2. GapBelow(p, c, Len(p), Len(c))
    BY <1>1, <2>1, DistanceIsFar
  <2> QED BY <2>2 DEF GapBelow
<1>3. CASE TooFarApart
  <2>1. /\ IsDrift(drift') /\ drift'.parent = p /\ drift'.child = c /\ drift'.row = drift.row
        /\ drift'.verdict = "refused"
    BY <1>0, <1>3 DEF TooFarApart, IsDrift
  <2>2. LengthGap(p, c) > t
    BY <1>3 DEF TooFarApart
  <2> HIDE DEF p, c, t, far
  <2>3. far > t
    BY <1>1, <1>2, <2>2 DEF LengthGap
  <2> QED BY <1>1, <2>1, <2>3 DEF DriftInv, DriftFits, t, far
<1>4. CASE ScanRow
  <2> DEFINE row == drift.row + 1
             next == NextRow(p, c, row, drift.cells)
             over == RowMin(p, c, row, next) > t
  <2>1. /\ drift.verdict = "scanning" /\ LengthGap(p, c) <= t /\ row <= Len(p)
        /\ drift' = [drift EXCEPT !.row = row, !.cells = next, !.verdict = IF over THEN "refused" ELSE @]
    BY <1>4 DEF ScanRow
  <2>2. row \in 1..Len(p) /\ row - 1 = drift.row /\ row \in 0..Len(p)
    BY <1>1, <2>1
  <2> HIDE DEF row, next, over
  <2>3. /\ IsDrift(drift') /\ drift'.parent = p /\ drift'.child = c /\ drift'.row = row
        /\ drift'.cells = next /\ drift'.verdict = IF over THEN "refused" ELSE "scanning"
    BY <1>0, <2>1 DEF IsDrift
  <2>4. RowExact(p, c, row - 1, drift.cells, t)
    BY <1>0, <2>1, <2>2 DEF DriftFits
  <2> HIDE DEF p, c
  <2>5. RowExact(p, c, row, next, t)
    BY <1>1, <2>2, <2>4, NextRowExact DEF next, t
  <2>6. ASSUME over PROVE far > t
    <3>1. \A j \in 0..Len(c) : Distance(p, c, row, j) > t
      BY <1>1, <2>1, <2>2, <2>5, <2>6, RowMinIsEnough DEF over, t
    <3>2. \A i \in 0..Len(p), j \in 0..Len(c) : i >= row => Distance(p, c, i, j) > t
      <4> HIDE DEF t
      <4> QED BY <1>1, <2>2, <3>1, FarStaysFar
    <3>3. Len(p) \in 0..Len(p) /\ Len(c) \in 0..Len(c) /\ Len(p) >= row
      BY <1>1, <2>2
    <3> QED BY <3>2, <3>3
  <2> QED BY <1>1, <2>2, <2>3, <2>5, <2>6 DEF DriftInv, DriftFits, t, far
<1>5. CASE ReadDistance
  <2> DEFINE last == drift.cells[Len(c)]
             close == last <= t
  <2>1. /\ drift.verdict = "scanning" /\ drift.row = Len(p)
        /\ drift' = [drift EXCEPT !.verdict = IF close THEN "accepted" ELSE "refused",
                                  !.distance = IF close THEN last ELSE @]
    BY <1>5 DEF ReadDistance
  <2>2. RowExact(p, c, Len(p), drift.cells, t) /\ Len(c) \in 0..Len(c)
    BY <1>0, <1>1, <2>1 DEF DriftFits
  <2>3. last \in Nat /\ StandsFor(t, far, last)
    BY <2>2 DEF RowExact, Exact
  <2> HIDE DEF last, close
  <2>4. /\ IsDrift(drift') /\ drift'.parent = p /\ drift'.child = c /\ drift'.row = drift.row
        /\ drift'.verdict = (IF close THEN "accepted" ELSE "refused")
        /\ close => drift'.distance = last
    BY <1>0, <2>1 DEF IsDrift
  <2> HIDE DEF p, c, t, far
  <2>5. IF close THEN far <= t /\ last = far ELSE far > t
    BY <1>1, <1>2, <2>3 DEF StandsFor, close
  <2> QED BY <1>1, <2>4, <2>5 DEF DriftInv, DriftFits, t, far
<1>6. CASE UNCHANGED driftVars
  BY <1>6 DEF driftVars, DriftInv
<1> QED BY <1>3, <1>4, <1>5, <1>6 DEF DriftNext

\* The banded scan of validate_constitution_mutation accepts exactly the mutations whose edit
\* distance is within the share allowed, and returns that distance, for texts of any length
\* over any characters and any share below the whole.
THEOREM BandIsExactAlways == DriftSpec => []BandIsExact
<1>1. DriftInv => BandIsExact
  BY DEF DriftInv, DriftFits, BandIsExact, EditDistance, Distance, Threshold
<1> QED BY <1>1, DriftBegins, DriftStep, PTL DEF DriftSpec

\* The texts of a scan stay, and no distance is given before one is accepted.
DriftLimits ==
  /\ drift.parent \in Texts /\ drift.child \in Texts
  /\ drift.verdict # "accepted" => drift.distance = 0

\* A text is as long as the bound allows.
LEMMA TextLength ==
  ASSUME NEW x \in Texts
  PROVE  Len(x) \in 0..MaxText
<1>1. PICK n \in 0..MaxText : x \in [1..n -> Letters]
  BY DEF Texts
<1>2. n \in Nat
  BY DriftAssumption
<1> QED BY <1>1, <1>2

\* Fewer edits than the longer text has characters are allowed.
LEMMA ThresholdIsShort ==
  ASSUME NEW p \in Texts, NEW c \in Texts
  PROVE  Threshold(p, c) \in 0..MaxText
<1> DEFINE S == {Len(p), Len(c), 1}
           m == Max(S)
<1>1. Len(p) \in 0..MaxText /\ Len(c) \in 0..MaxText /\ MaxText \in Nat
  BY TextLength, DriftAssumption
<1>2. m \in S
  <2>1. S \in SUBSET Int /\ S # {} /\ MaxText + 1 \in Int /\ \A x \in S : x <= MaxText + 1
    BY <1>1
  <2> HIDE DEF S
  <2> QED BY <2>1, MaxIsLargest
<1>3. m \in Nat /\ (m <= MaxText \/ m = 1)
  BY <1>1, <1>2
<1>4. Threshold(p, c) = (m * MaxEditBps) \div 10000 /\ MaxEditBps \in 0..9999
  BY DriftAssumption DEF Threshold
<1> HIDE DEF m
<1> DEFINE x == m * MaxEditBps
<1>5. x \in Nat /\ x <= m * 9999
  BY <1>3, <1>4
<1> HIDE DEF x
<1>6. x \div 10000 \in Nat /\ x \div 10000 <= m /\ (m # 0 => x \div 10000 < m)
  BY <1>3, <1>5
<1> QED BY <1>1, <1>3, <1>4, <1>6 DEF x

\* The texts are of the kind given, the scan stays within them, and the distance returned is no
\* longer than a text, for texts of any length (validate_constitution_mutation).
THEOREM DriftTyped == DriftSpec => []DriftTypeOK
<1>1. DriftInit => DriftLimits
  BY DEF DriftInit, Scanning, DriftLimits
<1>2. ASSUME DriftInv, DriftLimits, [DriftNext]_driftVars
      PROVE  DriftLimits'
  <2>1. IsDrift(drift)
    BY <1>2 DEF DriftInv
  <2>2. CASE TooFarApart \/ ScanRow
    <3>1. /\ drift.verdict = "scanning" /\ drift'.parent = drift.parent /\ drift'.child = drift.child
          /\ drift'.distance = drift.distance
      BY <2>1, <2>2 DEF TooFarApart, ScanRow, IsDrift
    <3> QED BY <1>2, <3>1 DEF DriftLimits
  <2>3. CASE ReadDistance
    <3> DEFINE close == drift.cells[Len(drift.child)] <= Threshold(drift.parent, drift.child)
    <3>1. /\ drift.verdict = "scanning"
          /\ drift' = [drift EXCEPT !.verdict = IF close THEN "accepted" ELSE "refused",
                                    !.distance = IF close THEN drift.cells[Len(drift.child)] ELSE @]
      BY <2>3 DEF ReadDistance
    <3> HIDE DEF close
    <3>2. /\ drift'.parent = drift.parent /\ drift'.child = drift.child
          /\ drift'.verdict = (IF close THEN "accepted" ELSE "refused")
          /\ ~close => drift'.distance = drift.distance
      BY <2>1, <3>1 DEF IsDrift
    <3> QED BY <1>2, <3>1, <3>2 DEF DriftLimits
  <2>4. CASE UNCHANGED driftVars
    BY <1>2, <2>4 DEF driftVars, DriftLimits
  <2> QED BY <1>2, <2>2, <2>3, <2>4 DEF DriftNext
<1>3. ASSUME DriftInv, DriftLimits
      PROVE  DriftTypeOK
  <2> DEFINE p == drift.parent
             c == drift.child
  <2>1. p \in Texts /\ c \in Texts /\ Len(p) \in 0..MaxText /\ MaxText \in Nat /\ Len(c) \in Nat
        /\ Len(p) \in Nat
    BY <1>3, TextLength, DriftAssumption DEF DriftLimits
  <2>2. drift.row \in 0..Len(p) /\ drift.verdict \in {"scanning", "accepted", "refused"}
    BY <1>3 DEF DriftInv, DriftFits
  <2>3. drift.distance \in 0..MaxText
    <3>1. CASE drift.verdict # "accepted"
      BY <1>3, <2>1, <3>1 DEF DriftLimits
    <3>2. CASE drift.verdict = "accepted"
      <4>1. drift.distance = Distance(p, c, Len(p), Len(c)) /\ drift.distance <= Threshold(p, c)
        BY <1>3, <3>2 DEF DriftInv, DriftFits
      <4>2. Distance(p, c, Len(p), Len(c)) \in Nat
        <5> HIDE DEF p, c
        <5>1. Len(p) \in 0..Len(p) /\ Len(c) \in 0..Len(c)
          BY <2>1
        <5> QED BY <2>1, <5>1, DistanceIsFar DEF GapBelow
      <4>3. Threshold(p, c) \in 0..MaxText
        BY <2>1, ThresholdIsShort
      <4> QED BY <2>1, <4>1, <4>2, <4>3
    <3> QED BY <3>1, <3>2
  <2>4. drift.row \in 0..MaxText
    BY <2>1, <2>2
  <2> QED BY <2>1, <2>2, <2>3, <2>4 DEF DriftTypeOK
<1>4. DriftInv /\ DriftLimits /\ [DriftNext]_driftVars => DriftLimits'
  BY <1>2
<1>5. DriftInv /\ DriftLimits => DriftTypeOK
  BY <1>3
<1> QED BY <1>1, <1>4, <1>5, DriftBegins, DriftStep, PTL DEF DriftSpec
=============================================================================

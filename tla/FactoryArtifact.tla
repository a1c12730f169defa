-------------------------- MODULE FactoryArtifact --------------------------
(***************************************************************************)
(* The automaton module the factory installs: an admin uploads it whole or *)
(* in pieces, declaring its hash and commit; a spawn execution reads it    *)
(* once, sends it to the new canister chunk by chunk, and checks the       *)
(* commit the child reports.  The admin may replace the module at any      *)
(* point of an execution.  One session is followed through its retries.    *)
(***************************************************************************)
EXTENDS Naturals, Sequences, FiniteSets

CONSTANTS
  Pieces,          \* contents of an upload chunk
  Commits,         \* commits an artifact may be declared with
  MaxArtifact,     \* bound: pieces of a module
  MaxUploads,      \* bound: artifacts stored or uploads begun
  MaxExecutionsOf  \* bound: executions of the session

ASSUME ArtifactAssumption == MaxArtifact \in Nat

None == "none"

\* Modules of up to MaxArtifact pieces, and their digests (SHA-256 tells any two apart).
Modules == UNION {[1..n -> Pieces] : n \in 1..MaxArtifact}
Digest(bytes) == [sha256 |-> bytes]

VARIABLES
  artifact,   \* wasm_bytes, wasm_sha256 and version_commit
  upload,     \* pending_artifact_upload
  declared,   \* history: every hash and commit an admin declared together
  uploads,    \* counts stored artifacts and uploads begun
  birth,      \* the session: its state, execution, and the runtime's install mark
  body        \* the child canister: the module and the commit it was installed with

artifactVars == <<artifact, upload, declared, uploads, birth, body>>

NoUpload == [sha |-> Digest(<<>>), commit |-> None, size |-> 0, bytes |-> <<>>]
NoExecution == [stage |-> None, wasm |-> <<>>, commit |-> None, sent |-> 0]
NoBody == [bytes |-> <<>>, commit |-> None]

\* A factory may start with a commit and no module.
ArtifactInit ==
  /\ \E commit \in Commits : artifact = [bytes |-> <<>>, sha |-> Digest(<<>>), commit |-> commit]
  /\ upload = NoUpload /\ declared = {} /\ uploads = 0
  /\ birth = [state |-> "PaymentDetected", run |-> NoExecution, runs |-> 0,
              installed |-> FALSE, sent |-> FALSE, recorded |-> None]
  /\ body = NoBody

-----------------------------------------------------------------------------
(* The admin's side. *)

StoreArtifact(bytes, sha, commit) ==
  /\ artifact' = [bytes |-> bytes, sha |-> sha, commit |-> commit]
  /\ upload' = NoUpload

Declare(sha, commit) == declared' = declared \cup {<<sha, commit>>}

\* The hash of the bytes must be the one the caller expects.
UpdateArtifact(bytes, commit) ==
  /\ uploads < MaxUploads /\ uploads' = uploads + 1
  /\ StoreArtifact(bytes, Digest(bytes), commit)
  /\ Declare(Digest(bytes), commit)
  /\ UNCHANGED <<birth, body>>

\* A new upload replaces the one under way, received bytes included.
BeginArtifactUpload(sha, commit, size) ==
  /\ uploads < MaxUploads /\ uploads' = uploads + 1
  /\ upload' = [sha |-> sha, commit |-> commit, size |-> size, bytes |-> <<>>]
  /\ Declare(sha, commit)
  /\ UNCHANGED <<artifact, birth, body>>

AppendArtifactChunk(piece) ==
  /\ upload # NoUpload
  /\ Len(upload.bytes) + 1 <= upload.size
  /\ upload' = [upload EXCEPT !.bytes = Append(@, piece)]
  /\ UNCHANGED <<artifact, declared, uploads, birth, body>>

\* A mutant of UploadComplete: the commit trusts the size alone.
CompleteBySize == upload # NoUpload /\ Len(upload.bytes) = upload.size

\* All bytes received, and they hash to what was declared.
UploadComplete ==
  /\ upload # NoUpload
  /\ Len(upload.bytes) = upload.size
  /\ Digest(upload.bytes) = upload.sha

\* An incomplete or mismatched upload is refused and stays pending.
CommitArtifactUpload ==
  /\ UploadComplete
  /\ StoreArtifact(upload.bytes, upload.sha, upload.commit)
  /\ UNCHANGED <<declared, uploads, birth, body>>

-----------------------------------------------------------------------------
(* The spawn execution. *)

Running(stage) == birth.run.stage = stage

FailWith(installed) ==
  birth' = [birth EXCEPT !.state = "Failed", !.run = NoExecution, !.installed = installed]

Keeps == UNCHANGED <<artifact, upload, declared, uploads>>

\* The execution reads module and commit together.  An installed runtime is not installed
\* again: the session goes straight to BroadcastingRelease.
StartExecution ==
  /\ birth.state = "PaymentDetected" /\ birth.runs < MaxExecutionsOf
  /\ artifact.bytes # <<>>
  /\ birth' = [birth EXCEPT
       !.state = IF birth.installed THEN "BroadcastingRelease" ELSE "Spawning",
       !.runs = @ + 1,
       !.run = [stage |-> IF birth.installed THEN "verify" ELSE "upload",
                wasm |-> artifact.bytes, commit |-> artifact.commit, sent |-> 0]]
  /\ body' = IF birth.installed THEN body ELSE NoBody
  /\ Keeps

\* No module, or a child runtime configuration without a required field.
StartMisconfigured ==
  /\ birth.state = "PaymentDetected" /\ birth.runs < MaxExecutionsOf
  /\ birth' = [birth EXCEPT !.state = "Failed", !.runs = @ + 1]
  /\ UNCHANGED body /\ Keeps

\* One upload_chunk call to the management canister.
UploadChunk ==
  /\ Running("upload") /\ birth.run.sent < Len(birth.run.wasm)
  /\ birth' = [birth EXCEPT !.run.sent = @ + 1]
  /\ UNCHANGED body /\ Keeps

\* What the install arguments tell the child of itself, of which the commit matters here.
InstallArgs == [commit |-> birth.run.commit]

\* install_chunked_code assembles the chunks; the child keeps the commit of its arguments.
InstallCode ==
  /\ Running("upload") /\ birth.run.sent = Len(birth.run.wasm)
  /\ body' = [bytes |-> birth.run.wasm, commit |-> InstallArgs.commit]
  /\ birth' = [birth EXCEPT !.state = "BroadcastingRelease", !.run.stage = "verify",
                            !.installed = TRUE]
  /\ Keeps

\* A failed install, or an expiry noticed around it, deletes the canister.
InstallFails ==
  /\ Running("upload")
  /\ FailWith(FALSE) /\ body' = NoBody /\ Keeps

\* The child's answer is compared with what this execution expects.
BootstrapPasses == body # NoBody /\ body.commit = birth.run.commit

VerifyBootstrap ==
  /\ Running("verify") /\ BootstrapPasses
  /\ birth' = [birth EXCEPT !.run.stage = "strategies"]
  /\ UNCHANGED body /\ Keeps

\* A mismatch or an unanswered call keeps the canister and its runtime record.
VerifyFails ==
  /\ Running("verify")
  /\ FailWith(birth.installed) /\ UNCHANGED body /\ Keeps

InstallStrategies ==
  /\ Running("strategies")
  /\ birth' = [birth EXCEPT !.run.stage = "handoff"]
  /\ UNCHANGED body /\ Keeps

\* The canister is deleted and the runtime marked as not installed.
StrategiesRefused ==
  /\ Running("strategies")
  /\ FailWith(FALSE) /\ body' = NoBody /\ Keeps

\* The canister is deleted while the runtime stays marked as installed.
ControllersRefused ==
  /\ Running("handoff")
  /\ FailWith(birth.installed) /\ body' = NoBody /\ Keeps

\* The release is sent but not yet confirmed; the execution ends.
ReleasePending ==
  /\ Running("handoff")
  /\ birth' = [birth EXCEPT !.sent = TRUE, !.run = NoExecution]
  /\ UNCHANGED body /\ Keeps

\* The release is confirmed within the execution, which records its own commit.
ReleaseConfirmed ==
  /\ Running("handoff")
  /\ birth' = [birth EXCEPT !.state = "Complete", !.run = NoExecution,
                            !.recorded = birth.run.commit]
  /\ UNCHANGED body /\ Keeps

Resumable == birth.state = "BroadcastingRelease" /\ birth.run = NoExecution /\ birth.sent

\* A later poll confirms the release and records the factory's commit of that moment.
ResumeConfirms ==
  /\ Resumable
  /\ birth' = [birth EXCEPT !.state = "Complete", !.recorded = artifact.commit]
  /\ UNCHANGED body /\ Keeps

ReceiptTerminal ==
  /\ Resumable
  /\ FailWith(birth.installed) /\ UNCHANGED body /\ Keeps

RetryBirth ==
  /\ birth.state = "Failed" /\ birth.runs < MaxExecutionsOf
  /\ birth' = [birth EXCEPT !.state = "PaymentDetected"]
  /\ UNCHANGED body /\ Keeps

ArtifactNext ==
  \/ \E bytes \in Modules, commit \in Commits : UpdateArtifact(bytes, commit)
  \/ \E bytes \in Modules, commit \in Commits, size \in 1..MaxArtifact :
        BeginArtifactUpload(Digest(bytes), commit, size)
  \/ \E piece \in Pieces : AppendArtifactChunk(piece)
  \/ CommitArtifactUpload
  \/ StartExecution \/ StartMisconfigured \/ UploadChunk \/ InstallCode \/ InstallFails
  \/ VerifyBootstrap \/ VerifyFails \/ InstallStrategies \/ StrategiesRefused
  \/ ControllersRefused \/ ReleasePending \/ ReleaseConfirmed \/ ResumeConfirms
  \/ ReceiptTerminal \/ RetryBirth

ArtifactSpec == ArtifactInit /\ [][ArtifactNext]_artifactVars

ArtifactTypeOK ==
  /\ artifact.bytes \in Modules \cup {<<>>} /\ artifact.commit \in Commits
  /\ Len(upload.bytes) <= upload.size
  /\ birth.state \in {"PaymentDetected", "Spawning", "BroadcastingRelease", "Complete", "Failed"}
  /\ birth.run.sent \in 0..MaxArtifact
  /\ body.bytes \in Modules \cup {<<>>}

\* Whatever an admin uploads, replaces or abandons while an execution is under way, the
\* module a child runs is one that an admin declared with the commit the child reports,
\* and a session whose release was sent or confirmed has such a child (update_artifact,
\* commit_artifact_upload and the chunked install of execute_spawn).
AttestedCode ==
  /\ artifact.bytes # <<>> => <<Digest(artifact.bytes), artifact.commit>> \in declared
  /\ body # NoBody => <<Digest(body.bytes), body.commit>> \in declared
  /\ birth.state \in {"BroadcastingRelease", "Complete"} /\ birth.run = NoExecution
       => body # NoBody

=============================================================================

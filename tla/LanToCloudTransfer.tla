------------------------- MODULE LanToCloudTransfer -------------------------
(***************************************************************************)
(* Moving the authority over one Project from a Member's host (LAN) to     *)
(* this server (Cloud).                                                    *)
(*                                                                         *)
(* LanToCloudTransferCoordinator advances one lifecycle journal under the  *)
(* Project's lease: the host uploads a checkpoint, the server imports it   *)
(* into an inactive Project, hands out one batch of membership claims,     *)
(* publishes the repository, and, once the host has given up its authority,*)
(* activates the Project. AuthorityTransferArtifactAuthority receives the  *)
(* files outside the lease, ProductionCheckpointStaging and                *)
(* GitBundleImporter keep them, RepositoryCheckpointAuthority publishes    *)
(* the repository. The recovery dispatcher resumes what a crash left.      *)
(*                                                                         *)
(* The module follows one transfer: another one of the same Project starts *)
(* only when this one is terminal. One action is one transaction or one    *)
(* effect on disk; between two the server may fail, crash, or let the      *)
(* deadline pass. Claims and Principals are names, files are names.        *)
(***************************************************************************)
EXTENDS Naturals, FiniteSets

CONSTANTS
  Host,           \* sourceHostMemberId
  Other,          \* the other active Members in the checkpoint
  HostPrincipal,  \* the Principal that began the transfer
  Principal,      \* every Principal that calls the server
  Nobody,         \* no Member
  Manifest,       \* checkpoint.json
  Artifact,       \* the files of a checkpoint
  Upload,         \* upload requests the server handles concurrently
  MaxBatch,       \* bound: claim batches of the transfer
  MaxFaults       \* bound: failed steps, refused checkpoints, lost replies, crashes

ASSUME LanTransferAssumption ==
  /\ Host \notin Other /\ Nobody \notin Other \cup {Host}
  /\ HostPrincipal \in Principal
  /\ Manifest \in Artifact
  /\ MaxBatch \in Nat \ {0} /\ MaxFaults \in Nat

VARIABLES
  \* PostgreSQL
  phase, batch,          \* the journal: its phase and batch_revision (0: none)
  recovery,              \* authority_transfer_recovery
  expired,               \* the clock has passed recovery.expires_at
  previous,              \* what an earlier transfer of this Project to LAN left
  project, placement,    \* projects.service_state; repository_placements
  claims, receipt,       \* transferred_membership_claims; the custody receipt's batch
  bound,                 \* project_principal_bindings
  \* disk
  staging, files,        \* the attempt directory and the files received in it
  import, repository,    \* the importer's directory; where the bare repository is
  detached,              \* a removal of the importer's directory was cut off after its rename
  \* the server process
  pending, reserved,     \* #pendingClaimBatches; the attempt's staging reservation
  op,                    \* the call that holds the Project's lease
  upload,
  \* the host, and the bound
  source, delivered,     \* the host's own authority; the batches it has received
  faults

journalVars == <<phase, batch, recovery, previous>>
projectVars == <<project, placement, claims, receipt, bound>>
diskVars    == <<staging, files, import, repository, detached>>
hostVars    == <<source, delivered>>
vars == <<journalVars, expired, projectVars, diskVars, pending, reserved, op, upload,
          hostVars, faults>>

-----------------------------------------------------------------------------
(* Phases. *)

Uploading == {"source-quiesced", "checkpoint-received", "checkpoint-validated"}
Forward   == Uploading \cup {"claims-retained", "repository-published"}
Handed    == {"source-relinquished", "cloud-activated", "completed"}
Cleaned   == {"target-cleaned", "source-reopened", "cancelled"}
Backward  == {"cancel-intent", "target-invalidated"} \cup Cleaned
Staged    == {"checkpoint-validated", "claims-retained", "repository-published"}
Phase     == {"none"} \cup Forward \cup Handed \cup Backward
Batch     == 1..MaxBatch

NoRecovery == [stage |-> FALSE, plan |-> FALSE, proof |-> 0, cancel |-> "none",
               reopen |-> FALSE]
NoPending  == [revision |-> 0, exposed |-> FALSE]
Idle       == [call |-> "none", step |-> "idle", revision |-> 0, saw |-> "none"]
NoClaims   == [r \in Batch |-> [m \in Other |-> "none"]]
NoUpload   == [step |-> "idle", artifact |-> Manifest]

Init ==
  /\ phase = "none" /\ batch = 0 /\ recovery = NoRecovery /\ expired = FALSE
  /\ previous \in {"clear", "deleting", "retired"}
  /\ project = "absent" /\ placement = FALSE
  /\ claims = NoClaims
  /\ receipt = 0 /\ bound = [p \in Principal |-> Nobody]
  /\ staging = "absent" /\ files = {} /\ import = "absent" /\ repository = "none"
  /\ detached = FALSE
  /\ pending = NoPending /\ reserved = FALSE
  /\ op = Idle /\ upload = [u \in Upload |-> NoUpload]
  /\ source = "quiesced" /\ delivered = {}
  /\ faults = 0

Expire ==
  /\ phase # "none" /\ ~expired /\ expired' = TRUE
  /\ UNCHANGED <<journalVars, projectVars, diskVars, pending, reserved, op, upload,
                 hostVars, faults>>

-----------------------------------------------------------------------------
(* The staged checkpoint. *)

\* One request at a time writes an attempt; whoever comes meanwhile is told it is busy.
Receiving == \E u \in Upload : upload[u].step = "receive"

\* discardAttempt holds the attempt: new writers are busy, new preparations wait.
Settling == op.step = "discard-files"

\* inspectAttempt finds a marker for every file.
Inspected == staging = "prepared" /\ files = Artifact

\* readArtifact: undisturbed, and never once the attempt has expired.
Readable == Inspected /\ ~Receiving /\ ~expired

\* inspectPublicationLocations: validated in the import directory, or published.
Located == \/ repository = "canonical"
           \/ repository = "import" /\ import = "validated"

\* validatedCheckpoint: once a publication is planned, its repository must be there too.
CheckpointValid == Readable /\ (recovery.plan => Located)

\* AuthorityTransferArtifactAuthority.#uploadAllowed.
UploadAllowed == phase \in Uploading

UploadGoto(u, step) == upload' = [upload EXCEPT ![u].step = step]

\* upload reads the transfer's status in a lease of its own.
UploadCheck(u, a) ==
  /\ upload[u].step = "idle" /\ op = Idle
  /\ UploadAllowed /\ ~expired
  /\ upload' = [upload EXCEPT ![u] = [step |-> "prepare", artifact |-> a]]
  /\ UNCHANGED <<journalVars, expired, projectVars, diskVars, pending, reserved, op,
                 hostVars, faults>>

\* prepareAttempt: outside any lease it creates the directory again if it is gone. A marker
\* that is torn is a conflict.
UploadPrepare(u) ==
  /\ upload[u].step = "prepare" /\ ~Settling
  /\ IF expired \/ staging = "torn"
     THEN UploadGoto(u, "idle") /\ UNCHANGED <<staging, reserved>>
     ELSE UploadGoto(u, "open") /\ staging' = "prepared" /\ reserved' = TRUE
  /\ UNCHANGED <<journalVars, expired, projectVars, files, import, repository, detached,
                 pending, op, hostVars, faults>>

\* receiveArtifact starts: the attempt is owned, free and not expired; a file other than
\* the manifest needs the manifest's facts.
Receivable(a) ==
  /\ staging = "prepared" /\ ~expired /\ ~Receiving /\ ~Settling
  /\ a # Manifest => Manifest \in files

UploadOpen(u) ==
  /\ upload[u].step = "open"
  /\ UploadGoto(u, IF Receivable(upload[u].artifact) THEN "receive" ELSE "idle")
  /\ UNCHANGED <<journalVars, expired, projectVars, diskVars, pending, reserved, op,
                 hostVars, faults>>

\* The bytes arrive, or the stream breaks and the part is removed.
UploadReceive(u) ==
  /\ upload[u].step = "receive"
  /\ \/ files' = files \cup {upload[u].artifact} /\ UploadGoto(u, "confirm")
     \/ UNCHANGED files /\ UploadGoto(u, "idle")
  /\ UNCHANGED <<journalVars, expired, projectVars, staging, import, repository, detached,
                 pending, reserved, op, hostVars, faults>>

\* #confirmUploadAuthorization and #completeUploadIfReady's inspection.
UploadConfirm(u) ==
  /\ upload[u].step = "confirm" /\ op = Idle
  /\ UploadGoto(u, IF UploadAllowed /\ files = Artifact THEN "complete" ELSE "idle")
  /\ UNCHANGED <<journalVars, expired, projectVars, diskVars, pending, reserved, op,
                 hostVars, faults>>

-----------------------------------------------------------------------------
(* Which step a call takes next, from what it reads under the lease. *)

\* Mutant of PublishStep: a recorded plan is taken for a published repository.
PublishStepPlanned == IF recovery.plan THEN "advance" ELSE "plan"

\* #publishIfNeeded and #ensurePublicationPlan.
PublishStep == IF recovery.plan THEN "publish" ELSE "plan"

\* Mutant of CancelStep: only the staged copy of the repository is removed.
CancelStepStaged ==
  CASE phase = "cancel-intent"      -> "invalidate"
    [] phase = "target-invalidated" -> "discard-repository"
    [] phase = "source-reopened"    -> "finish"
    [] OTHER                        -> "done"

\* #cancelPreRelinquishment; at target-cleaned it waits for the host.
CancelStep ==
  CASE phase = "cancel-intent"      -> "invalidate"
    [] phase = "target-invalidated" -> IF recovery.plan THEN "remove" ELSE "discard-repository"
    [] phase = "source-reopened"    -> "finish"
    [] OTHER                        -> "done"

\* Mutant of RecoverStep: an activated transfer is left to the host's next call.
RecoverStepHost ==
  CASE phase = "source-relinquished" -> "activate"
    [] phase \in Backward            -> CancelStep
    [] phase \in Forward /\ expired  -> "intent"
    [] OTHER                         -> "done"

\* recover: past the fence only forward, before it nothing until the deadline.
RecoverStep ==
  CASE phase = "source-relinquished" -> "activate"
    [] phase = "cloud-activated"     -> "discard-repository"
    [] phase \in Backward            -> CancelStep
    [] phase \in Forward /\ expired  -> "intent"
    [] OTHER                         -> "done"

\* completeCheckpoint, which repeats itself from the phase an earlier call reached.
CompleteStep ==
  CASE phase = "source-quiesced" /\ ~expired     -> "receive"
    [] phase = "checkpoint-received" /\ ~expired -> "validate"
    [] OTHER                                     -> "done"

\* commitRelinquishment with the proof of batch r.
CommitStep(r) ==
  CASE phase = "claims-retained" /\ ~expired                  -> PublishStep
    [] phase = "repository-published" /\ ~expired             -> "fence"
    [] phase = "source-relinquished" /\ recovery.proof = r    -> "activate"
    [] phase = "cloud-activated" /\ recovery.proof = r        -> "discard-repository"
    [] OTHER                                                  -> "done"

\* acknowledgeClaimBatch of batch r.
AcknowledgeStep(r) ==
  IF receipt # 0
  THEN IF receipt = r /\ phase = "claims-retained" /\ ~expired THEN PublishStep ELSE "done"
  ELSE IF phase = "checkpoint-validated" /\ batch = r /\ ~expired THEN "receipt" ELSE "done"

\* cancel: a request names the phase its caller saw; repeated, it continues.
CancelRequestStep(saw) ==
  CASE saw = "target-cleaned" /\ recovery.reopen     -> CancelStep
    [] saw = "target-cleaned" /\ phase = "target-cleaned" -> "reopen"
    [] saw # "target-cleaned" /\ recovery.cancel = saw    -> CancelStep
    [] saw = phase /\ recovery.cancel = "none"       -> "intent"
    [] OTHER                                         -> "done"

\* begin: a new transfer, or the replay of the request that began this one.
BeginStep ==
  CASE phase = "none" -> IF previous = "deleting" THEN "resume" ELSE "record"
    [] phase = "source-quiesced" /\ ~expired -> "prepare"
    [] OTHER -> "done"

-----------------------------------------------------------------------------
(* Calls: the lease is taken and the first step chosen. *)

\* A call that would change nothing is left out.
Take(call, step, r, saw) ==
  /\ op = Idle /\ step # "done"
  /\ op' = [call |-> call, step |-> step, revision |-> r, saw |-> saw]
  /\ UNCHANGED <<journalVars, expired, projectVars, diskVars, pending, reserved, faults>>

CallBegin == Take("begin", BeginStep, 0, "none") /\ UNCHANGED <<upload, hostVars>>

CallComplete(u) ==
  /\ upload[u].step = "complete" /\ op = Idle
  /\ UploadGoto(u, "idle")
  /\ op' = IF CompleteStep = "done" THEN Idle
           ELSE [Idle EXCEPT !.call = "complete", !.step = CompleteStep]
  /\ UNCHANGED <<journalVars, expired, projectVars, diskVars, pending, reserved, hostVars,
                 faults>>

CallRotate(r) ==
  /\ phase \in Staged /\ ~expired
  /\ Take("rotate", "rotate", r, "none") /\ UNCHANGED <<upload, hostVars>>

\* The host acknowledges a batch whose claims it has stored.
CallAcknowledge(r) ==
  /\ r \in delivered
  /\ Take("acknowledge", AcknowledgeStep(r), r, "none") /\ UNCHANGED <<upload, hostVars>>

\* The host signs away its authority over the batch that was acknowledged.
CallCommit(r) ==
  /\ receipt = r /\ source # "reopened"
  /\ source' = "relinquished"
  /\ Take("commit", CommitStep(r), r, "none") /\ UNCHANGED <<upload, delivered>>

\* The host cancels from what the status showed; to reopen, it has opened its own Project.
CallCancel(saw) ==
  /\ saw = "target-cleaned" => source = "reopened"
  /\ Take("cancel", CancelRequestStep(saw), 0, saw) /\ UNCHANGED <<upload, hostVars>>

CallRecover == Take("recover", RecoverStep, 0, "expired") /\ UNCHANGED <<upload, hostVars>>

\* The host takes its Project back once it has seen that the target is clean.
HostReopens ==
  /\ phase \in Cleaned /\ source # "reopened"
  /\ source' = "reopened"
  /\ UNCHANGED <<journalVars, expired, projectVars, diskVars, pending, reserved, op, upload,
                 delivered, faults>>

-----------------------------------------------------------------------------
(* What each step requires; without it the call is refused. *)

\* An unexposed batch of this revision is still in memory.
FreshBatch(r) == pending.revision = r /\ ~pending.exposed

\* rotateClaims: only the current batch, and only before custody.
Rotatable(r) == phase = "checkpoint-validated" /\ batch = r /\ receipt = 0

\* Mutant of Cancellable: a late cancel is accepted while the activation is still to come.
CancellableLate ==
  phase \in Forward \cup {"source-relinquished", "cancel-intent", "target-invalidated"}

\* #startCancellation.
Cancellable == phase \in Forward \cup {"cancel-intent", "target-invalidated"}

\* verifyTransferCustody: the batch that was acknowledged is whole and unclaimed.
CustodyExact ==
  /\ batch # 0 /\ receipt = batch
  /\ \A m \in Other : claims[batch][m] = "unclaimed"

\* activateLanToCloudProject: older batches are revoked, nothing was published before.
Promotable ==
  /\ project = "maintenance" /\ recovery.stage /\ ~placement
  /\ \A r \in Batch, m \in Other : r # batch => claims[r][m] \in {"none", "revoked"}
  /\ \A p \in Principal : bound[p] = Nobody

\* hasDurableLanRelinquishment.
DurableRelinquishment == recovery.proof # 0 /\ recovery.proof = batch

\* LanToCloudProjectActivation.activate checks everything again, from what is stored.
Activatable ==
  DurableRelinquishment /\ recovery.plan /\ CheckpointValid /\ CustodyExact /\ Promotable

\* removeDurableOwnedTree: an import without its owner's marker is nobody's to remove, and one
\* made again beside what a cut removal renamed is a conflict.
Discardable == import # "unowned" /\ ~(detached /\ import # "absent")

Admits ==
  CASE op.step = "record"     -> phase = "none" /\ previous = "clear"
                                 /\ project = "absent"
    [] op.step = "prepare"    -> ~expired /\ staging # "torn"
    [] op.step = "validate"   -> Readable /\ import # "unowned"
    [] op.step = "bundle"     -> Readable
    [] op.step = "stage"      -> ~recovery.stage /\ project = "absent"
    [] op.step = "rotate"     -> /\ Rotatable(op.revision)
                                 /\ \/ FreshBatch(op.revision)
                                    \/ Readable /\ batch < MaxBatch
    [] op.step = "plan"       -> CheckpointValid
    [] op.step = "publish"    -> Located
    [] op.step = "fence"      -> op.revision = batch
    [] op.step = "activate"   -> Activatable
    [] op.step = "discard-repository" -> Discardable
    [] op.step = "discard-files"      -> staging # "torn"
    [] op.step = "intent"     -> Cancellable /\ recovery.cancel = "none"
    [] op.step = "unstage"    -> project \in {"absent", "maintenance"} /\ ~placement
    [] OTHER                  -> TRUE

End        == op' = Idle
Then(step) == op' = IF step = "done" THEN Idle ELSE [op EXCEPT !.step = step]

At(step) == op.step = step /\ Admits

\* The call returns an error to its caller.
Refused ==
  /\ op # Idle /\ ~Admits /\ End
  /\ UNCHANGED <<journalVars, expired, projectVars, diskVars, pending, reserved, upload,
                 hostVars, faults>>

\* advanceAuthorityTransferRecoveryEvidence: evidence is kept once and never replaced.
Evidence(field, value) == recovery' = [recovery EXCEPT ![field] = value]

\* The journal advances, and nothing else but the call's own place.
AdvanceOnly(from, to) ==
  /\ phase = from /\ phase' = to
  /\ UNCHANGED <<batch, recovery, previous, expired, projectVars, diskVars, pending, reserved,
                 upload, hostVars, faults>>

-----------------------------------------------------------------------------
(* begin. *)

\* #resumePreviousHandoffDeletion: the copy left here by an earlier transfer goes first.
ResumePreviousDeletion ==
  /\ At("resume") /\ previous' = "clear" /\ Then("record")
  /\ UNCHANGED <<phase, batch, recovery, expired, projectVars, diskVars, pending, reserved,
                 upload, hostVars, faults>>

\* One transaction: journal, recovery row, receipt key and the source's evidence.
Record ==
  /\ At("record") /\ phase' = "source-quiesced" /\ Then("prepare")
  /\ recovery' = NoRecovery
  /\ UNCHANGED <<batch, previous, expired, projectVars, diskVars, pending,
                 reserved, upload, hostVars, faults>>

PrepareAttempt ==
  /\ At("prepare") /\ staging' = "prepared" /\ reserved' = TRUE /\ End
  /\ UNCHANGED <<journalVars, expired, projectVars, files, import, repository, detached,
                 pending, upload, hostVars, faults>>

-----------------------------------------------------------------------------
(* completeCheckpoint. *)

Receive ==
  /\ At("receive") /\ AdvanceOnly("source-quiesced", "checkpoint-received")
  /\ Then("validate")

\* The disk but for the importer's directory.
OtherDisk == <<staging, files, detached>>

\* #validateStaged reads the manifest and the records; preparePaths makes the importer's
\* directory. One that was validated before is verified again and taken as it is.
Entered(i)  == IF i = "absent" THEN "unowned" ELSE i
Replayed(i) == i = "validated"

Validate ==
  /\ At("validate")
  /\ import' = Entered(import)
  /\ Then(IF import = "absent" THEN "own" ELSE IF Replayed(import) THEN "stage" ELSE "bundle")
  /\ UNCHANGED <<journalVars, expired, projectVars, OtherDisk, repository, pending,
                 reserved, upload, hostVars, faults>>

\* ensureAttemptMarker: only the call that made the directory writes its owner's marker.
MarkOwner ==
  /\ At("own") /\ import' = "owned" /\ Then("bundle")
  /\ UNCHANGED <<journalVars, expired, projectVars, OtherDisk, repository, pending,
                 reserved, upload, hostVars, faults>>

\* #stageBundle copies the bundle, or finds the copy of an earlier attempt.
StageBundle ==
  /\ At("bundle") /\ import' = "bundled" /\ Then("fetch")
  /\ UNCHANGED <<journalVars, expired, projectVars, OtherDisk, repository, pending,
                 reserved, upload, hostVars, faults>>

\* #validateRepository starts from an empty repository and fetches the bundle.
BuildRepository ==
  /\ At("fetch") /\ import' = "built" /\ repository' = "import" /\ Then("mark")
  /\ UNCHANGED <<journalVars, expired, projectVars, OtherDisk, pending, reserved,
                 upload, hostVars, faults>>

\* The marker that makes the repository a validated one comes last.
MarkValidated ==
  /\ At("mark") /\ import' = "validated" /\ Then("stage")
  /\ UNCHANGED <<journalVars, expired, projectVars, OtherDisk, repository, pending,
                 reserved, upload, hostVars, faults>>

\* The import is gone, or renamed where the next discard finishes its removal.
Removed(cut) ==
  /\ import' = "absent" /\ detached' = cut
  /\ repository' = IF repository = "canonical" THEN "canonical" ELSE "none"

\* The repository is not what the manifest says, and the import is discarded, unless that is
\* refused or cut off; or its records do not admit this transfer, and it stays.
InvalidCheckpoint ==
  /\ op.step \in {"mark", "stage"} /\ faults < MaxFaults /\ faults' = faults + 1
  /\ \/ op.step = "mark" /\ Discardable /\ \E cut \in BOOLEAN : Removed(cut)
     \/ (op.step = "mark" => ~Discardable)
        /\ UNCHANGED <<import, repository, detached>>
  /\ End
  /\ UNCHANGED <<journalVars, expired, projectVars, staging, files, pending, reserved,
                 upload, hostVars>>

\* The claims of the first batch.
FirstClaims == [claims EXCEPT ![1] = [m \in Other |-> "unclaimed"]]

\* One transaction stages the Project and its first claims; the secrets stay in memory.
StageProject ==
  /\ At("stage") /\ phase = "checkpoint-received"
  /\ project' = "maintenance" /\ recovery' = [recovery EXCEPT !.stage = TRUE]
  /\ batch' = 1 /\ claims' = FirstClaims
  /\ phase' = "checkpoint-validated"
  /\ pending' = [revision |-> 1, exposed |-> FALSE] /\ End
  /\ UNCHANGED <<previous, expired, placement, receipt, bound, diskVars, reserved, upload,
                 hostVars, faults>>

-----------------------------------------------------------------------------
(* rotateTransferredMembershipClaims and its custody. *)

\* The reply with the claims reaches the host, or is lost.
Reply(r) ==
  \/ delivered' = delivered \cup {r} /\ UNCHANGED faults
  \/ UNCHANGED delivered /\ faults < MaxFaults /\ faults' = faults + 1

ExposeBatch ==
  /\ At("rotate") /\ FreshBatch(op.revision)
  /\ pending' = [pending EXCEPT !.exposed = TRUE]
  /\ Reply(op.revision) /\ End
  /\ UNCHANGED <<journalVars, expired, projectVars, diskVars, reserved, upload, source>>

\* The claims a rotation replaces.
Revoked(batchClaims) == [m \in Other |-> "revoked"]

\* rotateTransferredMembershipClaims takes the next revision and no other.
NextRevision(r) == r + 1

\* rotateTransferredMembershipClaims: one transaction for the old claims and the new.
RotatedClaims == [claims EXCEPT ![batch] = Revoked(claims[batch]),
                                ![NextRevision(batch)] = [m \in Other |-> "unclaimed"]]

\* Secrets that were handed out, or lost with the process, are replaced.
RotateBatch ==
  /\ At("rotate") /\ ~FreshBatch(op.revision)
  /\ IF Other = {}
     THEN /\ pending' = [revision |-> batch, exposed |-> TRUE] /\ Reply(batch)
          /\ UNCHANGED <<batch, claims>>
     ELSE /\ batch' = NextRevision(batch)
          /\ claims' = RotatedClaims
          /\ pending' = [revision |-> NextRevision(batch), exposed |-> TRUE]
          /\ Reply(NextRevision(batch))
  /\ End
  /\ UNCHANGED <<phase, recovery, previous, expired, project, placement, receipt, bound,
                 diskVars, reserved, upload, source>>

\* One transaction keeps the custody receipt and retains the claims.
CommitCustody ==
  /\ At("receipt") /\ phase = "checkpoint-validated"
  /\ receipt' = op.revision /\ phase' = "claims-retained"
  /\ pending' = NoPending /\ Then(PublishStep)
  /\ UNCHANGED <<batch, recovery, previous, expired, project, placement, claims, bound,
                 diskVars, reserved, upload, hostVars, faults>>

-----------------------------------------------------------------------------
(* Publication, the fence, and activation. *)

PlanPublication ==
  /\ At("plan") /\ Evidence("plan", TRUE) /\ Then("publish")
  /\ UNCHANGED <<phase, batch, previous, expired, projectVars, diskVars, pending, reserved,
                 upload, hostVars, faults>>

\* publishInactive renames the validated repository to its canonical place, or finds it.
PublishInactive ==
  /\ At("publish") /\ repository' = "canonical" /\ Then("advance")
  /\ UNCHANGED <<journalVars, expired, projectVars, OtherDisk, import, pending, reserved,
                 upload, hostVars, faults>>

RecordPublication ==
  /\ At("advance") /\ AdvanceOnly("claims-retained", "repository-published")
  /\ Then(IF op.call = "commit" /\ ~expired THEN "fence" ELSE "done")

\* One transaction keeps the host's proof: from here the transfer only goes forward.
Fence ==
  /\ At("fence") /\ phase = "repository-published"
  /\ Evidence("proof", op.revision)
  /\ phase' = "source-relinquished" /\ Then("activate")
  /\ UNCHANGED <<batch, previous, expired, projectVars, diskVars, pending, reserved, upload,
                 hostVars, faults>>

\* bindProjectPrincipal.
Bind(p, m) == bound' = [bound EXCEPT ![p] = m]

\* One transaction makes the Project active, places its repository and binds the host.
Activate ==
  /\ At("activate") /\ phase = "source-relinquished"
  /\ repository' = "canonical"
  /\ project' = "active" /\ placement' = TRUE
  /\ Bind(HostPrincipal, Host)
  /\ phase' = "cloud-activated" /\ Then("discard-repository")
  /\ UNCHANGED <<batch, recovery, previous, expired, claims, receipt, OtherDisk,
                 import, pending, reserved, upload, hostVars, faults>>

Complete == At("complete") /\ AdvanceOnly("cloud-activated", "completed") /\ End

-----------------------------------------------------------------------------
(* Discarding the attempt, after activation and in cancellation. *)

\* discardCheckpoint removes the import; a published repository is elsewhere.
DiscardRepository ==
  /\ At("discard-repository") /\ Then("discard-files")
  /\ Removed(FALSE)
  /\ upload' = [u \in Upload |-> IF upload[u].step = "receive" THEN NoUpload ELSE upload[u]]
  /\ UNCHANGED <<journalVars, expired, projectVars, staging, files, pending, reserved,
                 hostVars, faults>>

\* discardAttempt has aborted the upload being received; it removes one file after another.
DiscardArtifact(a) ==
  /\ At("discard-files") /\ a \in files
  /\ files' = files \ {a} /\ UNCHANGED op
  /\ UNCHANGED <<journalVars, expired, projectVars, staging, import, repository, detached,
                 pending, reserved, upload, hostVars, faults>>

\* The owner's marker and the directory go last, and with them the reservation.
RemoveAttempt ==
  /\ At("discard-files") /\ files = {}
  /\ staging' = "absent" /\ reserved' = FALSE
  /\ Then(IF phase = "cloud-activated" THEN "complete" ELSE "unstage")
  /\ UNCHANGED <<journalVars, expired, projectVars, files, import, repository, detached,
                 pending, upload, hostVars, faults>>

-----------------------------------------------------------------------------
(* cancel. *)

StartCancellation ==
  /\ At("intent") /\ Then("invalidate")
  /\ Evidence("cancel", op.saw) /\ phase' = "cancel-intent"
  /\ UNCHANGED <<batch, previous, expired, projectVars, diskVars, pending, reserved, upload,
                 hostVars, faults>>

Invalidate ==
  /\ At("invalidate") /\ AdvanceOnly("cancel-intent", "target-invalidated")
  /\ Then(IF recovery.plan THEN "remove" ELSE "discard-repository")

\* removeOwnedRepository: wherever the planned repository is by now.
RemoveOwnedRepository ==
  /\ At("remove") /\ repository' = "none" /\ Then("discard-repository")
  /\ UNCHANGED <<journalVars, expired, projectVars, OtherDisk, import, pending, reserved,
                 upload, hostVars, faults>>

\* One transaction discards the staged Project and its claims.
DiscardStage ==
  /\ At("unstage") /\ phase = "target-invalidated"
  /\ project' = "absent" /\ pending' = NoPending /\ Then("clean")
  /\ claims' = NoClaims
  /\ UNCHANGED <<journalVars, expired, placement, receipt, bound, diskVars, reserved, upload,
                 hostVars, faults>>

Clean == At("clean") /\ AdvanceOnly("target-invalidated", "target-cleaned") /\ End

\* The host's second cancel, naming target-cleaned, is its word that the source is open.
ReopenSource ==
  /\ At("reopen") /\ Then("finish")
  /\ Evidence("reopen", TRUE) /\ phase' = "source-reopened"
  /\ UNCHANGED <<batch, previous, expired, projectVars, diskVars, pending, reserved, upload,
                 hostVars, faults>>

FinishCancellation == At("finish") /\ AdvanceOnly("source-reopened", "cancelled") /\ End

-----------------------------------------------------------------------------
(* claimTransferredMembership: a Member presents the secret the host passed on. *)

\* Mutant of BindingAdmits: a Principal bound to another Member is not refused.
BindingAdmitsAny(p, m) == TRUE

BindingAdmits(p, m) == bound[p] \in {Nobody, m}

Redeemed(r, m) == [claims EXCEPT ![r] = [claims[r] EXCEPT ![m] = "redeemed"]]

ClaimMembership(p, r, m) ==
  /\ op = Idle /\ phase = "completed" /\ project = "active"
  /\ r \in delivered /\ ~expired
  /\ claims[r][m] = "unclaimed" /\ BindingAdmits(p, m)
  /\ claims' = Redeemed(r, m) /\ Bind(p, m)
  /\ UNCHANGED <<journalVars, expired, project, placement, receipt, diskVars, pending,
                 reserved, op, upload, hostVars, faults>>

-----------------------------------------------------------------------------
(* Failures. *)

\* A step fails before it has had its effect, or the lease is lost.
Fail ==
  /\ op # Idle /\ faults < MaxFaults /\ faults' = faults + 1 /\ End
  /\ UNCHANGED <<journalVars, expired, projectVars, diskVars, pending, reserved, upload,
                 hostVars>>

\* removeDurableOwnedTree stops after the rename.
CutRemoval ==
  /\ At("discard-repository") /\ import # "absent"
  /\ faults < MaxFaults /\ faults' = faults + 1
  /\ Removed(TRUE) /\ End
  /\ UNCHANGED <<journalVars, expired, projectVars, staging, files, pending, reserved, upload,
                 hostVars>>

\* The owner's marker of a new attempt is being written, through its .part.
Marking ==
  /\ staging = "absent" /\ ~expired /\ ~Settling
  /\ op.step = "prepare" \/ \E u \in Upload : upload[u].step = "prepare"

\* The process dies or closes: what was only in memory is gone. The marker may be torn, which
\* no later preparation or discard takes.
Crash ==
  /\ faults < MaxFaults /\ faults' = faults + 1
  /\ pending' = NoPending /\ reserved' = FALSE
  /\ End /\ upload' = [u \in Upload |-> NoUpload]
  /\ staging' = staging \/ (Marking /\ staging' = "torn")
  /\ UNCHANGED <<journalVars, expired, projectVars, files, import, repository, detached,
                 hostVars>>

-----------------------------------------------------------------------------

BeginSteps   == ResumePreviousDeletion \/ Record \/ PrepareAttempt
CompleteSteps == Receive \/ Validate \/ MarkOwner \/ StageBundle \/ BuildRepository 
                 \/ MarkValidated \/ StageProject
ClaimSteps   == ExposeBatch \/ RotateBatch \/ CommitCustody
ForwardSteps == PlanPublication \/ PublishInactive \/ RecordPublication \/ Fence
                \/ Activate \/ Complete
DiscardSteps == DiscardRepository \/ RemoveAttempt \/ \E a \in Artifact : DiscardArtifact(a)
CancelSteps  == StartCancellation \/ Invalidate \/ RemoveOwnedRepository \/ DiscardStage
                \/ Clean \/ ReopenSource \/ FinishCancellation

Step == BeginSteps \/ CompleteSteps \/ ClaimSteps \/ ForwardSteps \/ DiscardSteps
        \/ CancelSteps \/ Refused

UploadStep(u) == UploadPrepare(u) \/ UploadOpen(u) \/ UploadReceive(u)

HostCall ==
  \/ CallBegin
  \/ \E r \in Batch : CallRotate(r) \/ CallAcknowledge(r) \/ CallCommit(r)
  \/ \E saw \in Forward \cup Handed \cup {"target-cleaned"} : CallCancel(saw)
  \/ HostReopens

Next ==
  \/ Step \/ HostCall \/ CallRecover
  \/ \E u \in Upload : \/ UploadStep(u) \/ UploadConfirm(u) \/ CallComplete(u)
                       \/ \E a \in Artifact : UploadCheck(u, a)
  \/ \E p \in Principal, r \in Batch, m \in Other : ClaimMembership(p, r, m)
  \/ InvalidCheckpoint \/ CutRemoval \/ Fail \/ Crash \/ Expire

\* PeriodicReconciliation calls recover again and again; the advisory lock is granted in
\* turn; a step ends, an upload's stream has a deadline. Nobody has to call.
Fairness ==
  /\ WF_vars(Step) /\ SF_vars(CallRecover)
  /\ \A u \in Upload : WF_vars(UploadStep(u))

Spec == Init /\ [][Next]_vars /\ Fairness

-----------------------------------------------------------------------------
(* Properties. *)

TypeOK ==
  /\ phase \in Phase /\ batch \in {0} \cup Batch
  /\ recovery \in [stage : BOOLEAN, plan : BOOLEAN, proof : {0} \cup Batch,
                   cancel : {"none", "expired"} \cup Forward, reopen : BOOLEAN]
  /\ expired \in BOOLEAN /\ previous \in {"clear", "deleting", "retired"}
  /\ project \in {"absent", "maintenance", "active"} /\ placement \in BOOLEAN
  /\ claims \in [Batch -> [Other -> {"none", "unclaimed", "revoked", "redeemed"}]]
  /\ receipt \in {0} \cup Batch
  /\ bound \in [Principal -> Other \cup {Host, Nobody}]
  /\ staging \in {"absent", "prepared", "torn"} /\ files \subseteq Artifact
  /\ import \in {"absent", "unowned", "owned", "bundled", "built", "validated"}
  /\ repository \in {"none", "import", "canonical"}
  /\ detached \in BOOLEAN
  /\ pending \in [revision : {0} \cup Batch, exposed : BOOLEAN] /\ reserved \in BOOLEAN
  /\ op \in [call : {"none", "begin", "complete", "rotate", "acknowledge", "commit", "cancel",
                     "recover"},
             step : {"idle", "resume", "record", "prepare", "receive", "validate", "own",
                     "bundle", "fetch", "mark", "stage", "rotate", "receipt", "plan",
                     "publish", "advance", "fence", "activate", "complete",
                     "discard-repository", "discard-files", "intent", "invalidate", "remove",
                     "unstage", "clean", "reopen", "finish"},
             revision : {0} \cup Batch,
             saw : {"none", "expired", "target-cleaned"} \cup Forward \cup Handed]
  /\ upload \in [Upload -> [step : {"idle", "prepare", "open", "receive", "confirm",
                                    "complete"}, artifact : Artifact]]
  /\ source \in {"quiesced", "relinquished", "reopened"} /\ delivered \subseteq Batch
  /\ faults \in 0..MaxFaults

\* The Project is served here only after the host has given it up, from the repository the
\* transfer published, and never after the host has opened its own copy again. Whoever may
\* enter is the host or has redeemed one claim, and no two Principals enter as one Member.
SingleAuthority ==
  /\ TypeOK
  /\ project = "active" =>
       /\ phase \in {"cloud-activated", "completed"} /\ source = "relinquished"
       /\ placement /\ repository = "canonical" /\ bound[HostPrincipal] = Host
  /\ source = "reopened" => phase \in Cleaned /\ project = "absent" /\ ~placement
  /\ \A p, q \in Principal : bound[p] # Nobody /\ bound[p] = bound[q] => p = q
  /\ \A p \in Principal : bound[p] \in Other => claims[batch][bound[p]] = "redeemed"

\* Rotation leaves exactly one batch redeemable, and the batch whose custody the host
\* acknowledged is never replaced: the host holds the secrets of the claims that count.
OneRedeemableBatch ==
  /\ \A m \in Other, r \in Batch : claims[r][m] \in {"unclaimed", "redeemed"} => r = batch
  /\ phase \in Staged \cup Handed => \A m \in Other : claims[batch][m] # "none"
  /\ receipt # 0 => receipt = batch /\ receipt \in delivered
  /\ phase \in Handed => receipt = batch /\ recovery.proof = receipt

\* The fence is crossed only when everything the activation needs is durable: the staged
\* Project, its files, the published repository, and a whole, unclaimed, acknowledged batch,
\* which is the one batch that can be redeemed.
FenceIsSafe ==
  /\ OneRedeemableBatch
  /\ phase = "source-relinquished" =>
       /\ DurableRelinquishment /\ CustodyExact /\ Promotable
       /\ recovery.plan /\ repository = "canonical"
       /\ staging = "prepared" /\ files = Artifact

\* Once the target reports itself clean nothing of the transfer is left that could serve
\* or admit anybody.
CancelledLeavesNothing ==
  phase \in Cleaned =>
    /\ project = "absent" /\ ~placement /\ import = "absent" /\ repository = "none"
    /\ pending = NoPending
    /\ \A r \in Batch, m \in Other : claims[r][m] = "none"
    /\ \A p \in Principal : bound[p] = Nobody

Rank(p) ==
  CASE p = "none" -> 0 [] p = "source-quiesced" -> 1 [] p = "checkpoint-received" -> 2
    [] p = "checkpoint-validated" -> 3 [] p = "claims-retained" -> 4
    [] p = "repository-published" -> 5 [] p = "source-relinquished" -> 6
    [] p = "cloud-activated" -> 7 [] p = "completed" -> 8
    [] p = "cancel-intent" -> 9 [] p = "target-invalidated" -> 10 [] p = "target-cleaned" -> 11
    [] p = "source-reopened" -> 12 [] p = "cancelled" -> 13

ForwardStep ==
  /\ Rank(phase) <= Rank(phase')
  /\ phase \in Handed => phase' \in Handed
  /\ recovery.proof # 0 => recovery'.proof = recovery.proof
  /\ phase \in Handed \ {"source-relinquished"} => project' = "active"

\* The journal never goes back, and past the fence there is no cancellation: neither the
\* host's late cancel nor the deadline takes an accepted proof back.
ForwardOnly == [][ForwardStep]_vars

\* No discard takes what is on disk: the owner's marker of the attempt is torn, that of the
\* import was never written, or the import was made again beside a removal cut off.
Undiscardable == staging = "torn" \/ (~Discardable /\ op.step # "own")

\* Without another call of the host, periodic recovery brings a cancelled transfer to a
\* clean target, cancels one whose deadline has passed, and completes one past the fence
\* unless the deadline passes before it is activated; all unless the disk is undiscardable.
TransferSettles ==
  /\ phase = "cancel-intent" ~> (phase \in Cleaned \/ Undiscardable)
  /\ (phase \in Forward /\ expired)
       ~> (phase \in Cleaned \cup {"source-relinquished"} \/ Undiscardable)
  /\ phase = "source-relinquished" ~> (phase = "completed" \/ expired \/ Undiscardable)
  /\ phase = "cloud-activated" ~> (phase = "completed" \/ Undiscardable)

=============================================================================

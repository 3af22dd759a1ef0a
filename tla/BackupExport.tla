---------------------------- MODULE BackupExport ----------------------------
(***************************************************************************)
(* Writing a backup or an export of one Project.                           *)
(*                                                                         *)
(* BackupExportCoordinator puts the Project in maintenance with a prepared *)
(* journal, captures its rows and its repository into a staging directory, *)
(* verifies the three files, copies them to where they are kept, and then  *)
(* completes the journal and opens the Project. Until the files are        *)
(* published the operation can be cancelled, and it is when its five       *)
(* minutes or its expiry have passed; afterwards it only goes forward. An  *)
(* export is removed once delivered or expired, a backup stays.            *)
(* ProjectCheckpointCoordinator keeps the files, RepositoryCheckpoint-     *)
(* Authority captures the repository and removes the capture with          *)
(* DurableTreeRemoval, LifecycleCheckpointPublication owns the copies.     *)
(*                                                                         *)
(* The module follows one operation. One action is one transaction or one  *)
(* effect on disk; between two the server may fail, crash, or come back as *)
(* another build. The Project's content is a version number: Accept moves  *)
(* the repository first and the rows after it.                             *)
(***************************************************************************)
EXTENDS Naturals

CONSTANTS
  MaxVersion,  \* bound: versions of the Project's content
  MaxBuild,    \* bound: builds of the server that run after the first
  MaxFaults    \* bound: failed steps and crashes

ASSUME BackupAssumption == MaxVersion \in Nat \ {0} /\ MaxBuild \in Nat /\ MaxFaults \in Nat

VARIABLES
  \* PostgreSQL
  profile,                      \* the journal's kind: backup or export
  phase, stuck,                 \* its phase; state recovery-required
  fingerprint, digest,          \* request_fingerprint; checkpoint_sha256
  service, db, write, catalog,  \* projects.service_state; the rows; an Accept; backup catalog
  \* disk
  git,                          \* the repository
  staging, staged,              \* the attempt's directory and files
  capture, bundle, removal,     \* the capture directory, its bundle, its removal
  home, published, delivery,    \* where the copies are kept; the copies; the delivery marker
  \* the clock, and the server process
  expired, overdue, build,      \* scheduled_at has passed; five minutes have; serverBuild
  op, faults

journalVars  == <<profile, phase, stuck, fingerprint, digest>>
projectVars  == <<service, db, write, catalog>>
stagingVars  == <<staging, staged>>
captureVars  == <<capture, bundle, removal>>
publishVars  == <<home, published, delivery>>
clockVars    == <<expired, overdue, build>>
storeVars    == <<stagingVars, captureVars, publishVars>>
vars == <<journalVars, projectVars, git, storeVars, clockVars, op, faults>>

-----------------------------------------------------------------------------
(* Phases, files, and the journal's context. *)

Capturing == {"prepared", "coordination-captured", "repository-captured",
              "checkpoint-verified"}
Active    == Capturing \cup {"artifact-published", "cancel-intent"}
Phase     == {"none"} \cup Active \cup {"completed", "cancelled", "gone"}
Version   == 1..MaxVersion

File     == {"coordination", "bundle", "manifest"}
NoDigest == <<0, 0>>   \* a manifest names the rows' version and the bundle's
NoFiles  == [f \in File |-> IF f = "manifest" THEN NoDigest ELSE 0]

\* The directory of an attempt: made, then given an owner marker that is first a .part; a part
\* that a crash tore is never replaced. Its removal ends with the marker and the directory.
Directory == {"absent", "empty", "torn", "owned"}
Receipt   == {"none", "torn", "registered"}   \* the delivery marker, likewise

\* The files are exactly those a manifest describes.
Verified(files) ==
  /\ files["manifest"] = <<files["coordination"], files["bundle"]>>
  /\ files["manifest"] # NoDigest

\* durablePreparedFingerprint: expectedMainOid and the server's metadata.
Fingerprint == [content |-> db, build |-> build]

\* #revalidateContext, in every transaction of an operation.
Valid == service = "maintenance"

\* #context, before a call acts.
ContextExact == Valid /\ fingerprint = Fingerprint

Idle == [call |-> "none", step |-> "idle", goal |-> "none", records |-> 0, refs |-> 0]

Init ==
  /\ profile \in {"backup", "export"}
  /\ phase = "none" /\ stuck = FALSE /\ digest = NoDigest
  /\ fingerprint = [content |-> 0, build |-> 0]
  /\ service = "active" /\ db = 1 /\ git = 1 /\ write = "none" /\ catalog = NoDigest
  /\ staging = "absent" /\ staged = NoFiles
  /\ capture = "absent" /\ bundle = 0 /\ removal = "none"
  /\ home = "absent" /\ published = NoFiles /\ delivery = "none"
  /\ expired = FALSE /\ overdue = FALSE /\ build = 0
  /\ op = Idle /\ faults = 0

At(step)   == op.step = step
Goto(step) == op' = [op EXCEPT !.step = step]

-----------------------------------------------------------------------------
(* The rest of the server. *)

\* Accept is prepared in an active Project without a lifecycle journal.
Writable == service = "active"

\* An Accept: prepared, then it moves main, then it settles in the database.
WritePrepare ==
  /\ op = Idle /\ write = "none" /\ Writable /\ db < MaxVersion
  /\ write' = "prepared"
  /\ UNCHANGED <<journalVars, service, db, catalog, git, storeVars, clockVars, op, faults>>

WriteMove ==
  /\ op = Idle /\ write = "prepared"
  /\ write' = "moved" /\ git' = git + 1
  /\ UNCHANGED <<journalVars, service, db, catalog, storeVars, clockVars, op, faults>>

WriteSettle ==
  /\ op = Idle /\ write = "moved"
  /\ write' = "none" /\ db' = git
  /\ UNCHANGED <<journalVars, service, catalog, git, storeVars, clockVars, op, faults>>

\* removeProjectCoordinationContent: journal and catalog go, the copies stay.
DeleteProject ==
  /\ op = Idle /\ service = "active" /\ write = "none"
  /\ phase \in {"completed", "cancelled"}
  /\ phase' = "gone" /\ digest' = NoDigest
  /\ service' = "deleted" /\ catalog' = NoDigest
  /\ UNCHANGED <<profile, stuck, fingerprint, db, write, git, storeVars, clockVars, op, faults>>

Expire ==
  /\ phase # "none" /\ ~expired /\ expired' = TRUE
  /\ UNCHANGED <<journalVars, projectVars, git, storeVars, overdue, build, op, faults>>

Overdue ==
  /\ phase # "none" /\ ~overdue /\ overdue' = TRUE
  /\ UNCHANGED <<journalVars, projectVars, git, storeVars, expired, build, op, faults>>

-----------------------------------------------------------------------------
(* Calls. An outbound reservation lets one of them work on a Project. *)

\* #advanceWithinAttemptBudget; an attempt that is out of time is cancelled.
AdvanceStep ==
  IF overdue /\ phase \in Capturing THEN "request" ELSE "context"

\* recover: what is not published is cancelled once expired.
RecoverStep == IF expired /\ phase \in Capturing THEN "request" ELSE AdvanceStep

\* #cancel: what is published is completed instead.
CancelStep == IF phase \in Capturing THEN "request" ELSE "context"

Call(call, step) ==
  /\ op = Idle
  /\ op' = [Idle EXCEPT !.call = call, !.step = step]
  /\ UNCHANGED <<journalVars, projectVars, git, storeVars, clockVars, faults>>

\* create: recovery has run, so a journal that is still active was left by a failed twin.
CallCreate ==
  \/ phase = "none" /\ Call("create", "prepare")
  \/ /\ phase \in Active /\ ~stuck /\ (phase = "cancel-intent" => overdue)
     /\ Call("create", AdvanceStep)

CallCancel  == phase \in Active /\ ~stuck /\ Call("cancel", CancelStep)
CallRecover == phase \in Active /\ ~stuck /\ Call("recover", RecoverStep)

\* settleExportDelivery: the operator has the export, or gave up waiting for it.
CallSettle == phase = "completed" /\ profile = "export" /\ Call("settle", "remove-intent")

\* Mutant of DeliveryOver: an export whose journal is gone is a conflict.
DeliveryOverJournal == phase = "completed"

\* #settleDueExportDelivery: a completed export, or one of a deleted Project.
DeliveryOver == phase \in {"completed", "gone"}

\* listDueAttemptDeliveries: the directories with a delivery marker that has expired.
Due == home = "owned" /\ delivery = "registered" /\ expired

\* reconcileExpiredExportDeliveries.
CallReconcile ==
  /\ Due /\ DeliveryOver
  /\ Call("reconcile", "remove-intent")

\* discardOutboundOperation on behalf of a delivery that is over.
Removing == op.call \in {"settle", "reconcile"}

-----------------------------------------------------------------------------
(* Guards of the steps; a step that is not admitted ends the call. *)

\* #prepare.
CanPrepare == phase = "none" /\ service = "active" /\ write = "none" /\ ~expired

\* getBackupCatalogEntry and #exactCatalog.
CatalogExact == catalog = digest

\* verifyOutboundOperation: the copies, under the digest the journal recorded.
CopiesExact == Verified(published) /\ published["manifest"] = digest

\* #assertPublishedArtifact.
PublishedIntact == CopiesExact /\ (profile = "backup" => CatalogExact)

\* readOutboundRecords: the rows that were captured, while the staging directory is valid.
StagedReadable == staged["coordination"] # 0 /\ ~expired

\* #capture: each ref is still where the inventory saw it.
RefsCurrent == git = op.refs

\* validateOutboundConsistency, and expectedMainOid of the journal's context.
Consistent == op.records = op.refs /\ op.records = fingerprint.content

\* removeDurableOwnedTree: an unmarked or half-removed directory is not its own.
Removable == /\ ~(removal = "detached" /\ capture # "absent")
             /\ removal = "none" => capture # "unowned"

\* #readReplay: a marked bundle is taken as it is, of the same refs only.
Replayed == capture = "marked"

\* receiveArtifact: the directory is owned and not expired, a file that is there is the same.
Received(f, value) == staging = "owned" /\ ~expired /\ staged[f] \in {NoFiles[f], value}

Admits(step) ==
  CASE step = "prepare"         -> CanPrepare
    [] step = "context"         -> ContextExact
    [] step = "request"         -> ContextExact
    [] step = "reread"          -> PublishedIntact
    [] step = "snapshot"        -> Valid /\ (phase # "prepared" => StagedReadable)
    [] step = "staging"         -> ~expired /\ staging # "torn"
    [] step = "coordination"    -> Received("coordination", op.records)
    [] step = "capture-dir"     -> capture # "unowned" /\ (phase \in Capturing => RefsCurrent)
    [] step = "bundle"          -> Replayed => bundle = op.refs
    [] step = "stage-bundle"    -> Received("bundle", bundle)
    [] step = "manifest"        -> /\ Consistent
                                   /\ Received("manifest", <<staged["coordination"], bundle>>)
    [] step = "verify-staged"   -> Verified(staged) /\ ~expired
    [] step = "record-verified" -> Valid /\ digest \in {NoDigest, staged["manifest"]}
    [] step \in {"prepare-copy", "unpublish"} -> home # "torn"
    [] step = "copy"            -> ~expired
    [] step \in {"verify-copy", "verify-published"} -> CopiesExact
    [] step = "register"        -> delivery # "torn"
    [] step = "remove-intent"   -> Removable
    [] step = "unstage"         -> staging # "torn"
    [] step \in {"record-coordination", "record-repository", "publish", "complete",
                 "settle"}      -> Valid
    [] OTHER                    -> TRUE

\* What is invalid once published, or while cancelling, waits for an operator.
Strands == \/ /\ phase = "artifact-published"
              /\ op.step \in {"reread", "capture-dir", "verify-published", "register"}
           \/ phase = "cancel-intent" /\ op.step \in {"remove-intent", "unstage", "unpublish"}

Refused ==
  /\ op # Idle /\ ~Admits(op.step)
  /\ IF Strands /\ ~Removing THEN Goto("mark") ELSE op' = Idle
  /\ UNCHANGED <<journalVars, projectVars, git, storeVars, clockVars, faults>>

\* #markRecoveryRequired, and #settleCancellation's own.
MarkRecoveryRequired ==
  /\ At("mark") /\ Valid
  /\ stuck' = TRUE /\ op' = Idle
  /\ UNCHANGED <<profile, phase, fingerprint, digest, projectVars, git, storeVars, clockVars,
                 faults>>

-----------------------------------------------------------------------------
(* Starting, and what each call does first. *)

Prepare ==
  /\ At("prepare") /\ CanPrepare
  /\ phase' = "prepared" /\ fingerprint' = Fingerprint /\ service' = "maintenance"
  /\ Goto("context")
  /\ UNCHANGED <<profile, stuck, digest, db, write, catalog, git, storeVars, clockVars, faults>>

Context ==
  /\ At("context") /\ ContextExact
  /\ op' = CASE phase = "cancel-intent"      -> [op EXCEPT !.step = "remove-intent",
                                                           !.goal = "discard"]
             [] phase = "artifact-published" -> [op EXCEPT !.step = "reread"]
             [] OTHER                        -> [op EXCEPT !.step = "snapshot"]
  /\ UNCHANGED <<journalVars, projectVars, git, storeVars, clockVars, faults>>

\* #requestCancellation.
Request ==
  /\ At("request") /\ ContextExact /\ phase \in Capturing
  /\ phase' = "cancel-intent" /\ Goto("context")
  /\ UNCHANGED <<profile, stuck, fingerprint, digest, projectVars, git, storeVars, clockVars,
                 faults>>

\* The attempt's timer aborts whatever comes before the publication.
Abortable == {"snapshot", "staging", "coordination", "record-coordination", "capture-dir",
              "capture-owner", "bundle", "marker", "stage-bundle", "record-repository",
              "manifest", "verify-staged", "record-verified", "prepare-copy", "copy",
              "verify-copy", "publish"}

TimeOut ==
  /\ overdue /\ phase \in Capturing /\ op.step \in Abortable
  /\ Goto("request")
  /\ UNCHANGED <<journalVars, projectVars, git, storeVars, clockVars, faults>>

-----------------------------------------------------------------------------
(* Capturing: #advance and #captureOutbound. *)

\* snapshot: fresh rows while prepared, the staged ones later; refs from the repository.
Snapshot ==
  /\ At("snapshot") /\ Admits("snapshot")
  /\ op' = [op EXCEPT !.step = "staging", !.refs = git,
              !.records = IF phase = "prepared" THEN db ELSE staged["coordination"]]
  /\ UNCHANGED <<journalVars, projectVars, git, storeVars, clockVars, faults>>

PrepareStaging ==
  /\ At("staging") /\ Admits("staging")
  /\ staging' = "owned" /\ Goto("coordination")
  /\ UNCHANGED <<journalVars, projectVars, git, staged, captureVars, publishVars, clockVars,
                 faults>>

\* receiveArtifact, and the marker that makes the file count.
Stage(step, f, value, next) ==
  /\ At(step) /\ Admits(step)
  /\ staged' = [staged EXCEPT ![f] = value] /\ Goto(next)
  /\ UNCHANGED <<journalVars, projectVars, git, staging, captureVars, publishVars, clockVars,
                 faults>>

StageCoordination == Stage("coordination", "coordination", op.records, "record-coordination")
StageBundle       == Stage("stage-bundle", "bundle", bundle, "record-repository")
StageManifest     == Stage("manifest", "manifest", <<staged["coordination"], bundle>>,
                           "verify-staged")

\* #recordProgress: forward by one phase, or nothing when it is behind.
Record(step, from, to, mark, next) ==
  /\ At(step) /\ Admits(step)
  /\ phase' = (IF phase = from THEN to ELSE phase)
  /\ digest' = (IF phase = from THEN mark ELSE digest)
  /\ Goto(next)
  /\ UNCHANGED <<profile, stuck, fingerprint, projectVars, git, storeVars, clockVars, faults>>

RecordCoordination ==
  Record("record-coordination", "prepared", "coordination-captured", digest, "capture-dir")
RecordRepository ==
  Record("record-repository", "coordination-captured", "repository-captured", digest, "manifest")
RecordVerified ==
  Record("record-verified", "repository-captured", "checkpoint-verified", staged["manifest"],
         "prepare-copy")

\* #ensureCaptureAncestry: for a capture, and for verifying what is published.
CaptureDirectory ==
  /\ At("capture-dir") /\ Admits("capture-dir")
  /\ capture' = (IF capture = "absent" THEN "unowned" ELSE capture)
  /\ Goto(IF capture = "absent" THEN "capture-owner"
          ELSE IF phase = "artifact-published" THEN "verify-published" ELSE "bundle")
  /\ UNCHANGED <<journalVars, projectVars, git, stagingVars, bundle, removal, publishVars,
                 clockVars, faults>>

\* #ensureCaptureOwner, which only the call that made the directory may do.
CaptureOwner ==
  /\ At("capture-owner")
  /\ capture' = "owned"
  /\ Goto(IF phase = "artifact-published" THEN "verify-published" ELSE "bundle")
  /\ UNCHANGED <<journalVars, projectVars, git, stagingVars, bundle, removal, publishVars,
                 clockVars, faults>>

\* #writeBundle, unless the capture is replayed.
CaptureBundle ==
  /\ At("bundle") /\ Admits("bundle")
  /\ IF Replayed THEN Goto("stage-bundle") /\ UNCHANGED <<capture, bundle>>
     ELSE Goto("marker") /\ capture' = "bundled" /\ bundle' = git
  /\ UNCHANGED <<journalVars, projectVars, git, stagingVars, removal, publishVars, clockVars,
                 faults>>

CaptureMarker ==
  /\ At("marker")
  /\ capture' = "marked" /\ Goto("stage-bundle")
  /\ UNCHANGED <<journalVars, projectVars, git, stagingVars, bundle, removal, publishVars,
                 clockVars, faults>>

\* #verifyOutbound of the staged files.
VerifyStaged ==
  /\ At("verify-staged") /\ Admits("verify-staged") /\ Goto("record-verified")
  /\ UNCHANGED <<journalVars, projectVars, git, storeVars, clockVars, faults>>

-----------------------------------------------------------------------------
(* Publishing: #publishOutbound, #publish, and reading it again. *)

PrepareCopy ==
  /\ At("prepare-copy") /\ Admits("prepare-copy")
  /\ home' = "owned" /\ Goto("copy")
  /\ UNCHANGED <<journalVars, projectVars, git, stagingVars, captureVars, published, delivery,
                 clockVars, faults>>

\* #copyArtifact, one file after the other.
Uncopied == {f \in File : published[f] # staged[f]}
NextFile == CASE "coordination" \in Uncopied -> "coordination"
              [] "bundle" \in Uncopied       -> "bundle"
              [] OTHER                       -> "manifest"

Copy ==
  /\ At("copy") /\ Admits("copy")
  /\ published' = [published EXCEPT ![NextFile] = staged[NextFile]]
  /\ Goto(IF Uncopied \subseteq {"manifest"} THEN "verify-copy" ELSE "copy")
  /\ UNCHANGED <<journalVars, projectVars, git, stagingVars, captureVars, home, delivery,
                 clockVars, faults>>

VerifyCopy ==
  /\ At("verify-copy") /\ Admits("verify-copy") /\ Goto("publish")
  /\ UNCHANGED <<journalVars, projectVars, git, storeVars, clockVars, faults>>

\* putBackupCatalogEntry and #advanceCatalog: captured, verified and published at once.
Catalogued == IF profile = "backup" THEN digest ELSE catalog

\* #publish: the catalog entry and the phase in one transaction.
Publish ==
  /\ At("publish") /\ Valid /\ phase = "checkpoint-verified"
  /\ phase' = "artifact-published"
  /\ catalog' = Catalogued
  /\ Goto("register")
  /\ UNCHANGED <<profile, stuck, fingerprint, digest, service, db, write, git, storeVars,
                 clockVars, faults>>

\* readPublishedOutboundRecords; #verifyArtifact then needs the capture directory again.
Reread ==
  /\ At("reread") /\ Admits("reread") /\ Goto("capture-dir")
  /\ UNCHANGED <<journalVars, projectVars, git, storeVars, clockVars, faults>>

\* verifyOutboundOperation of what is published: the digests, and git bundle verify.
VerifyPublished ==
  /\ At("verify-published") /\ Admits("verify-published") /\ Goto("register")
  /\ UNCHANGED <<journalVars, projectVars, git, storeVars, clockVars, faults>>

\* registerOutboundDelivery: an export's copies carry its expiry.
Registered == IF profile = "export" THEN "registered" ELSE delivery

\* registerAttemptDelivery, then releaseOutbound.
Register ==
  /\ At("register") /\ Admits("register")
  /\ delivery' = Registered
  /\ op' = [op EXCEPT !.step = "remove-intent", !.goal = "release"]
  /\ UNCHANGED <<journalVars, projectVars, git, stagingVars, captureVars, home, published,
                 clockVars, faults>>

-----------------------------------------------------------------------------
(* Removing the capture, the staging directory and the copies. *)

\* #discardCaptureOperation: nothing is there, or a removal that was begun is done.
NothingCaptured == removal = "none" /\ capture = "absent"

\* removeDurableOwnedTree: a marker, a rename, the removal, the marker again.
RemoveIntent ==
  /\ At("remove-intent") /\ Removable
  /\ IF NothingCaptured
     THEN Goto("unstage") /\ UNCHANGED removal
     ELSE /\ Goto("detach")
          /\ removal' = (IF removal = "none" THEN "intent" ELSE removal)
  /\ UNCHANGED <<journalVars, projectVars, git, stagingVars, capture, bundle, publishVars,
                 clockVars, faults>>

Detach ==
  /\ At("detach")
  /\ IF capture # "absent" THEN removal' = "detached" /\ capture' = "absent" /\ bundle' = 0
     ELSE UNCHANGED captureVars
  /\ Goto("sweep")
  /\ UNCHANGED <<journalVars, projectVars, git, stagingVars, publishVars, clockVars, faults>>

Sweep ==
  /\ At("sweep")
  /\ removal' = "intent" /\ Goto("forget")
  /\ UNCHANGED <<journalVars, projectVars, git, stagingVars, capture, bundle, publishVars,
                 clockVars, faults>>

Forget ==
  /\ At("forget")
  /\ removal' = "none" /\ Goto("unstage")
  /\ UNCHANGED <<journalVars, projectVars, git, stagingVars, capture, bundle, publishVars,
                 clockVars, faults>>

\* Mutant of AfterStaging: completing removes the copies too.
AfterStagingAlways == "unpublish"

\* Mutant of AfterStaging: a cancelled operation keeps what it had copied.
AfterStagingSettle ==
  CASE op.goal = "release" -> "complete" [] Removing -> "unpublish" [] OTHER -> "settle"

\* #settleOutboundOperation: the copies go only with discardArtifacts.
AfterStaging == IF op.goal = "release" THEN "complete" ELSE "unpublish"

\* discardAttempt of the staging directory.
Unstage ==
  /\ At("unstage") /\ Admits("unstage")
  /\ staging' = "absent" /\ staged' = NoFiles /\ Goto(AfterStaging)
  /\ UNCHANGED <<journalVars, projectVars, git, captureVars, publishVars, clockVars, faults>>

\* discardAttempt of the copies: the files, the delivery marker, the owner marker, and last
\* the directory, each in turn.
Unpublish ==
  /\ At("unpublish") /\ Admits("unpublish")
  /\ published' = NoFiles /\ Goto("undeliver")
  /\ UNCHANGED <<journalVars, projectVars, git, stagingVars, captureVars, home, delivery,
                 clockVars, faults>>

Undeliver ==
  /\ At("undeliver")
  /\ delivery' = "none" /\ Goto("unown")
  /\ UNCHANGED <<journalVars, projectVars, git, stagingVars, captureVars, home, published,
                 clockVars, faults>>

Unown ==
  /\ At("unown")
  /\ home' = (IF home = "owned" THEN "empty" ELSE home) /\ Goto("unhome")
  /\ UNCHANGED <<journalVars, projectVars, git, stagingVars, captureVars, published, delivery,
                 clockVars, faults>>

Unhome ==
  /\ At("unhome")
  /\ home' = "absent"
  /\ IF Removing THEN op' = Idle
     ELSE Goto(IF op.goal = "release" THEN "complete" ELSE "settle")
  /\ UNCHANGED <<journalVars, projectVars, git, stagingVars, captureVars, published, delivery,
                 clockVars, faults>>

\* #complete and the end of #settleCancellation: the journal ends, the Project opens.
Finish(step, from, to) ==
  /\ At(step) /\ Valid /\ phase = from
  /\ phase' = to /\ service' = "active" /\ op' = Idle
  /\ UNCHANGED <<profile, stuck, fingerprint, digest, db, write, catalog, git, storeVars,
                 clockVars, faults>>

Complete == Finish("complete", "artifact-published", "completed")
Settle   == Finish("settle", "cancel-intent", "cancelled")

-----------------------------------------------------------------------------
(* Failures. *)

\* What a step cut off leaves of a directory with its marker, or of a delivery marker.
CutDirectory(step, is) ==
  IF At(step) /\ is # "owned" THEN {is, "empty", "torn"} ELSE {is}
CutReceipt == IF At("register") /\ Registered # delivery THEN {delivery, "torn"} ELSE {delivery}

\* A step fails or is cut off; a capture that was not marked is emptied (#settleFailedCapture).
Fail ==
  /\ op # Idle /\ faults < MaxFaults
  /\ faults' = faults + 1 /\ op' = Idle
  /\ IF At("marker") THEN capture' = "owned" /\ bundle' = 0 /\ UNCHANGED removal
     ELSE UNCHANGED captureVars
  /\ staging' \in CutDirectory("staging", staging)
  /\ home' \in CutDirectory("prepare-copy", home)
  /\ delivery' \in CutReceipt
  /\ UNCHANGED <<journalVars, projectVars, git, staged, published, clockVars>>

\* A Git child that fails while the published bundle is verified counts as a repository that
\* is invalid (mapGit), whatever made it fail.
FailVerify ==
  /\ At("verify-published") /\ faults < MaxFaults
  /\ faults' = faults + 1 /\ Goto("mark")
  /\ UNCHANGED <<journalVars, projectVars, git, storeVars, clockVars>>

\* The server stops and comes back, possibly as another build.
Crash ==
  /\ faults < MaxFaults /\ phase \in Active /\ ~stuck
  /\ faults' = faults + 1 /\ op' = Idle
  /\ build' \in build..(IF build < MaxBuild THEN build + 1 ELSE build)
  /\ UNCHANGED <<journalVars, projectVars, git, storeVars, expired, overdue>>

Writes == WritePrepare \/ WriteMove \/ WriteSettle

Step ==
  \/ Prepare \/ Context \/ Request
  \/ Snapshot \/ PrepareStaging \/ StageCoordination \/ RecordCoordination
  \/ CaptureDirectory \/ CaptureOwner \/ CaptureBundle \/ CaptureMarker
  \/ StageBundle \/ RecordRepository \/ StageManifest \/ VerifyStaged \/ RecordVerified
  \/ PrepareCopy \/ Copy \/ VerifyCopy \/ Publish \/ Reread \/ VerifyPublished \/ Register
  \/ RemoveIntent \/ Detach \/ Sweep \/ Forget \/ Unstage
  \/ Unpublish \/ Undeliver \/ Unown \/ Unhome
  \/ Complete \/ Settle
  \/ Refused \/ MarkRecoveryRequired

Calls == CallCreate \/ CallCancel \/ CallRecover \/ CallSettle \/ CallReconcile

Next == \/ Writes \/ DeleteProject \/ Expire \/ Overdue
        \/ Calls \/ Step \/ TimeOut \/ Fail \/ FailVerify \/ Crash

\* A call under way goes on; the dispatcher recovers every active journal and the operator
\* reconciles deliveries; time passes. A create runs the recovery first, so that creates do not
\* starve it. No fairness for create, cancel, deletion or Accepts.
Fairness == WF_vars(Step) /\ SF_vars(CallRecover) /\ WF_vars(CallReconcile)
            /\ WF_vars(Expire)

Spec == Init /\ [][Next]_vars /\ Fairness

-----------------------------------------------------------------------------
(* Properties. *)

\* What is published is one checkpoint of the Project as it was when the operation began:
\* its rows and its repository of the same version, under the journal's digest, listed in
\* the catalog when it is a backup; releasing the captured files never takes the copies.
PublishedExact ==
  phase = "artifact-published" \/ (phase = "completed" /\ profile = "backup") =>
    /\ Verified(published) /\ published["manifest"] = digest
    /\ digest = <<fingerprint.content, fingerprint.content>>
    /\ catalog = (IF profile = "backup" THEN digest ELSE NoDigest)

\* A journal that ended leaves nothing behind: a completed one neither staging directory nor
\* capture, a cancelled one no copies or catalog entry either, and the Project open for
\* work; while it has not ended, the Project is closed.
EndedLeavesNothing ==
  /\ phase \in {"completed", "cancelled"} =>
       /\ staging = "absent" /\ staged = NoFiles /\ capture = "absent" /\ removal = "none"
       /\ service = "active"
  /\ phase = "cancelled" =>
       home = "absent" /\ published = NoFiles /\ delivery = "none" /\ catalog = NoDigest
  /\ phase \in Active => service = "maintenance" /\ write = "none"

\* A journal prepared by another build; a removal that a crash cut off after the rename and
\* that met a directory made again: no later call can go on. (A directory without its owner
\* marker, or with a torn one, ends at the operator: its cancellation is stuck.)
Stranded == \/ phase \in Active /\ fingerprint.build # build
            \/ removal = "detached" /\ capture # "absent"

\* A removal of the copies that was cut off behind their delivery marker: the files are gone,
\* but no reconciliation finds the directory any more.
LeftBehind == home # "absent" /\ delivery = "none" /\ op = Idle

\* The copies of an export do not outlive its expiry, even when the Project is deleted first;
\* the directory they were in does when LeftBehind, and then it holds none of them.
ExportsRemoved ==
  (profile = "export" /\ phase \in {"completed", "gone"} /\ expired)
     ~> (published = NoFiles /\ (home = "absent" \/ LeftBehind))

\* Every operation ends or is handed to an operator, whatever failed or crashed before, and
\* what it exported ends with its term (ExportsRemoved).
OperationSettles ==
  /\ ExportsRemoved
  /\ phase \in Active ~> (phase \notin Active \/ stuck \/ Stranded)

=============================================================================

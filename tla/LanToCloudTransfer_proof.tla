---------------------- MODULE LanToCloudTransfer_proof ----------------------
(***************************************************************************)
(* Theorems about the transfer of authority from LAN to Cloud, for every   *)
(* set of Members, Principals, files and concurrent uploads, any number of *)
(* claim batches and of failed steps, lost replies and crashes.            *)
(***************************************************************************)
EXTENDS LanToCloudTransfer, TLAPS

-----------------------------------------------------------------------------
(* The inductive invariant. *)

\* Before the checkpoint is staged; while it waits for the fence or the activation; served.
Unstaged == {"none", "source-quiesced", "checkpoint-received"}
Waiting  == Staged \cup {"source-relinquished"}
Served   == {"cloud-activated", "completed"}

OpRecord ==
  [call : {"none", "begin", "complete", "rotate", "acknowledge", "commit", "cancel", "recover"},
   step : {"idle", "resume", "record", "prepare", "receive", "validate", "own", "bundle",
           "fetch", "mark", "stage", "rotate", "receipt", "plan", "publish", "advance", "fence",
           "activate", "complete", "discard-repository", "discard-files", "intent",
           "invalidate", "remove", "unstage", "clean", "reopen", "finish"},
   revision : {0} \cup Batch,
   saw : {"none", "expired", "target-cleaned"} \cup Forward \cup Handed]

\* What the evidence of the journal says about its phase.
JournalInv ==
  /\ phase \in Unstaged =>
       batch = 0 /\ receipt = 0 /\ ~recovery.stage /\ ~recovery.plan /\ recovery.proof = 0
  /\ phase \in Backward => recovery.cancel # "none"
  /\ phase \in {"repository-published"} \cup Handed => recovery.plan
  /\ phase \in Handed => receipt = batch /\ recovery.proof = batch
  /\ phase \notin Handed => recovery.proof = 0

\* The staged Project and its files wait together.
StageInv ==
  /\ phase \in Unstaged => project = "absent"
  /\ phase \in Waiting => /\ project = "maintenance" /\ recovery.stage
                          /\ staging = "prepared" /\ files = Artifact

\* One batch can be redeemed, and nobody redeems before the transfer is complete.
ClaimsInv ==
  /\ \A r \in Batch, m \in Other : r # batch => claims[r][m] \in {"none", "revoked"}
  /\ phase \in Staged \cup Handed => batch \in Batch
  /\ phase \in Staged \cup Handed =>
       \A m \in Other : \/ claims[batch][m] = "unclaimed"
                        \/ phase = "completed" /\ claims[batch][m] = "redeemed"
  /\ receipt # 0 => receipt = batch /\ receipt \in delivered

\* Where the repository of a published transfer is.
RepositoryInv ==
  /\ phase \in {"repository-published"} \cup Handed => repository = "canonical"
  /\ repository = "canonical" => recovery.plan

\* Who may enter.
BoundInv ==
  /\ phase \in Served => project = "active" /\ placement /\ bound[HostPrincipal] = Host
  /\ phase \notin Served =>
       project # "active" /\ ~placement /\ \A p \in Principal : bound[p] = Nobody
  /\ \A p \in Principal : bound[p] = Host => p = HostPrincipal
  /\ \A p \in Principal : bound[p] \in Other => claims[batch][bound[p]] = "redeemed"
  /\ \A p, q \in Principal : bound[p] # Nobody /\ bound[p] = bound[q] => p = q

SourceInv ==
  /\ phase \in Handed => source = "relinquished"
  /\ source = "reopened" => phase \in Cleaned

CleanInv ==
  phase \in Cleaned =>
    /\ project = "absent" /\ import = "absent" /\ repository = "none"
    /\ pending = NoPending /\ claims = NoClaims

StateInv == /\ JournalInv /\ StageInv /\ ClaimsInv /\ RepositoryInv /\ BoundInv
            /\ SourceInv /\ CleanInv

\* What the call that holds the lease has seen to before its step.
OpInv ==
  /\ op.step \in {"prepare", "receive"} => phase = "source-quiesced"
  /\ op.step \in {"validate", "own", "bundle", "fetch", "mark", "stage"} =>
       phase = "checkpoint-received"
  /\ op.step \in {"own", "bundle", "fetch", "mark", "stage"} =>
       staging = "prepared" /\ files = Artifact
  /\ op.step = "receipt" =>
       phase = "checkpoint-validated" /\ op.revision = batch /\ op.revision \in delivered
  /\ op.step \in {"plan", "publish", "advance"} => phase = "claims-retained"
  /\ op.step \in {"publish", "advance"} => recovery.plan
  /\ op.step = "advance" => repository = "canonical"
  /\ op.step = "fence" => phase = "repository-published" /\ op.call = "commit"
  /\ op.step = "activate" => phase = "source-relinquished"
  /\ op.step \in {"discard-repository", "discard-files"} =>
       phase \in {"cloud-activated", "target-invalidated"}
  /\ op.step = "complete" => phase = "cloud-activated"
  /\ op.step = "intent" => phase \in Forward \cup Handed /\ op.saw \in {"expired", phase}
  /\ op.step = "invalidate" => phase = "cancel-intent"
  /\ op.step \in {"remove", "unstage", "clean"} => phase = "target-invalidated"
  /\ op.step = "discard-repository" /\ phase = "target-invalidated" => repository # "canonical"
  /\ op.step \in {"discard-files", "unstage", "clean"} /\ phase = "target-invalidated" =>
       import = "absent" /\ repository = "none"
  /\ op.step = "clean" => project = "absent" /\ claims = NoClaims /\ pending = NoPending
  /\ op.step = "reopen" => phase = "target-cleaned"
  /\ op.step = "finish" => phase = "source-reopened"

\* The host that commits has given its authority up and acknowledged the batch.
CommitInv ==
  op.call = "commit" =>
    /\ op.step \in {"plan", "publish", "advance", "fence", "activate", "discard-repository",
                    "discard-files", "complete"}
    /\ phase \in {"claims-retained", "repository-published"} \cup Handed
    /\ op.revision = receipt /\ receipt # 0 /\ source = "relinquished"

IInv == TypeOK /\ StateInv /\ OpInv /\ CommitInv

-----------------------------------------------------------------------------
(* The call that holds the lease. *)

StepName == {"idle", "resume", "record", "prepare", "receive", "validate", "own", "bundle",
             "fetch", "mark", "stage", "rotate", "receipt", "plan", "publish", "advance", "fence",
             "activate", "complete", "discard-repository", "discard-files", "intent",
             "invalidate", "remove", "unstage", "clean", "reopen", "finish"}

LEMMA IdleOp == Idle \in OpRecord /\ Idle.step = "idle" /\ Idle.call = "none"
BY DEF Idle, OpRecord

\* Going on to the next step, or ending.
LEMMA ThenOp ==
  ASSUME op \in OpRecord, NEW s \in StepName \cup {"done"}, Then(s)
  PROVE  /\ op' \in OpRecord
         /\ s = "done" => op'.step = "idle" /\ op'.call = "none"
         /\ s # "done" => /\ op'.step = s /\ op'.call = op.call
                          /\ op'.revision = op.revision /\ op'.saw = op.saw
<1>1. CASE s = "done"
  BY <1>1, IdleOp DEF Then
<1>2. CASE s # "done"
  BY <1>2 DEF Then, OpRecord, StepName
<1> QED
  BY <1>1, <1>2

LEMMA EndOp ==
  ASSUME End
  PROVE  op' \in OpRecord /\ op'.step = "idle" /\ op'.call = "none"
BY IdleOp DEF End

\* A call that is over has seen to nothing.
LEMMA IdleInv ==
  ASSUME op'.step = "idle", op'.call = "none"
  PROVE  OpInv' /\ CommitInv'
BY DEF OpInv, CommitInv

\* The types of everything but the call.
StoreType ==
  /\ phase \in Phase /\ batch \in {0} \cup Batch
  /\ recovery \in [stage : BOOLEAN, plan : BOOLEAN, proof : {0} \cup Batch,
                   cancel : {"none", "expired"} \cup Forward, reopen : BOOLEAN]
  /\ expired \in BOOLEAN /\ previous \in {"clear", "deleting", "retired"}
  /\ project \in {"absent", "maintenance", "active"} /\ placement \in BOOLEAN
  /\ claims \in [Batch -> [Other -> {"none", "unclaimed", "revoked", "redeemed"}]]
  /\ receipt \in {0} \cup Batch
  /\ bound \in [Principal -> Other \cup {Host, Nobody}]
  /\ staging \in {"absent", "prepared", "torn"} /\ files \subseteq Artifact
  /\ import \in {"absent", "unowned", "owned", "bundled", "built", "validated"}
  /\ repository \in {"none", "import", "canonical"} /\ detached \in BOOLEAN
  /\ pending \in [revision : {0} \cup Batch, exposed : BOOLEAN] /\ reserved \in BOOLEAN
  /\ upload \in [Upload -> [step : {"idle", "prepare", "open", "receive", "confirm",
                                    "complete"}, artifact : Artifact]]
  /\ source \in {"quiesced", "relinquished", "reopened"} /\ delivered \subseteq Batch
  /\ faults \in 0..MaxFaults

LEMMA Types == TypeOK <=> StoreType /\ op \in OpRecord
BY DEF TypeOK, StoreType, OpRecord

LEMMA TypesAfter ==
  ASSUME StoreType', op' \in OpRecord
  PROVE  TypeOK'
BY DEF TypeOK, StoreType, OpRecord

\* What a step requires.
LEMMA AdmitsFacts ==
  ASSUME Admits
  PROVE  /\ op.step = "record" => phase = "none" /\ previous = "clear" /\ project = "absent"
         /\ op.step = "validate" => Readable
         /\ op.step = "rotate" => /\ Rotatable(op.revision)
                                  /\ \/ FreshBatch(op.revision)
                                     \/ Readable /\ batch < MaxBatch
         /\ op.step = "plan" => CheckpointValid
         /\ op.step = "publish" => Located
         /\ op.step = "fence" => op.revision = batch
         /\ op.step = "activate" => Activatable
         /\ op.step = "intent" => Cancellable /\ recovery.cancel = "none"
<1>1. op.step = "record" => phase = "none" /\ previous = "clear" /\ project = "absent"
  BY DEF Admits
<1>2. op.step = "validate" => Readable
  BY DEF Admits
<1>3. op.step = "rotate" => /\ Rotatable(op.revision)
                            /\ \/ FreshBatch(op.revision)
                               \/ Readable /\ batch < MaxBatch
  BY DEF Admits
<1>4. op.step = "plan" => CheckpointValid
  BY DEF Admits
<1>5. op.step = "publish" => Located
  BY DEF Admits
<1>6. op.step = "fence" => op.revision = batch
  BY DEF Admits
<1>7. op.step = "activate" => Activatable
  BY DEF Admits
<1>8. op.step = "intent" => Cancellable /\ recovery.cancel = "none"
  BY DEF Admits
<1> QED
  BY <1>1, <1>2, <1>3, <1>4, <1>5, <1>6, <1>7, <1>8

\* Files may arrive, and the attempt's directory with them.
MoreFiles ==
  staging' \in {staging, "prepared"} /\ files \subseteq files' /\ files' \subseteq Artifact

\* Rows, claims and the host as they were.
LEMMA StateKept ==
  ASSUME StateInv, MoreFiles,
         UNCHANGED <<phase, batch, recovery, projectVars, import, repository, pending, hostVars>>
  PROVE  StateInv'
<1>1. UNCHANGED <<phase, batch, recovery, project, placement, claims, receipt, bound, import,
                  repository, pending, source, delivered>>
  BY DEF projectVars, hostVars
<1>2. StageInv'
  BY <1>1 DEF StateInv, StageInv, MoreFiles
<1> QED
  BY <1>1, <1>2 DEF StateInv, JournalInv, ClaimsInv, RepositoryInv, BoundInv, SourceInv, CleanInv

\* The call goes on as it is while uploads, the clock and the reservation move.
LEMMA OpKept ==
  ASSUME OpInv, CommitInv, MoreFiles,
         UNCHANGED <<op, phase, batch, recovery, project, claims, receipt, import, repository,
                     pending, source, delivered>>
  PROVE  OpInv' /\ CommitInv'
BY DEF OpInv, CommitInv, MoreFiles

-----------------------------------------------------------------------------
(* Which step a call takes first. *)

LEMMA CancelSteps1 ==
  /\ CancelStep \in {"invalidate", "remove", "discard-repository", "finish", "done"}
  /\ CancelStep = "invalidate" => phase = "cancel-intent"
  /\ CancelStep = "remove" => phase = "target-invalidated"
  /\ CancelStep = "discard-repository" => phase = "target-invalidated" /\ ~recovery.plan
  /\ CancelStep = "finish" => phase = "source-reopened"
BY DEF CancelStep

\* The first step of a call fits the phase it was chosen in.
FitsPhase(step) ==
  /\ step \in StepName \cup {"done"}
  /\ step \in {"idle", "validate", "own", "bundle", "fetch", "mark", "stage", "advance",
               "discard-files", "unstage", "clean", "complete"} =>
       step = "validate" /\ phase = "checkpoint-received"
  /\ step \in {"prepare", "receive"} => phase = "source-quiesced"
  /\ step = "receipt" => phase = "checkpoint-validated"
  /\ step \in {"plan", "publish"} => phase = "claims-retained"
  /\ step = "publish" => recovery.plan
  /\ step = "fence" => phase = "repository-published"
  /\ step = "activate" => phase = "source-relinquished"
  /\ step = "discard-repository" => phase \in {"cloud-activated", "target-invalidated"}
  /\ step = "discard-repository" /\ phase = "target-invalidated" => ~recovery.plan
  /\ step = "invalidate" => phase = "cancel-intent"
  /\ step = "remove" => phase = "target-invalidated"
  /\ step = "reopen" => phase = "target-cleaned"
  /\ step = "finish" => phase = "source-reopened"
  /\ step = "intent" => phase \in Forward \cup Handed

\* No phase is two things at once.
LEMMA PhaseParts ==
  /\ phase \in Forward => phase \notin Handed \cup Backward \cup {"none"}
  /\ phase \in Handed => phase \notin Backward \cup {"none"}
  /\ phase \in Cleaned => phase \in Backward
  /\ "none" \notin Backward
BY DEF Forward, Handed, Backward, Cleaned, Uploading

LEMMA PublishFits == phase = "claims-retained" => FitsPhase(PublishStep)
BY DEF FitsPhase, PublishStep, StepName

LEMMA CancelFits == FitsPhase(CancelStep) /\ CancelStep \notin {"intent", "receipt", "fence"}
BY CancelSteps1 DEF FitsPhase, StepName

LEMMA RecoverFits == FitsPhase(RecoverStep)
<1>1. CASE phase = "source-relinquished"
  <2>1. RecoverStep = "activate"
    BY <1>1 DEF RecoverStep, Backward, Cleaned, Forward, Uploading
  <2> QED
    BY <1>1, <2>1 DEF FitsPhase, StepName
<1>2. CASE phase = "cloud-activated"
  <2>1. RecoverStep = "discard-repository"
    BY <1>2 DEF RecoverStep, Backward, Cleaned, Forward, Uploading
  <2> QED
    BY <1>2, <2>1 DEF FitsPhase, StepName
<1>3. CASE phase \in Backward
  <2>1. RecoverStep = CancelStep
    BY <1>3 DEF RecoverStep, Backward, Cleaned, Forward, Uploading
  <2> QED
    BY <2>1, CancelFits
<1>4. CASE phase \in Forward /\ expired
  <2>1. RecoverStep = "intent"
    BY <1>4 DEF RecoverStep, Backward, Cleaned, Forward, Uploading
  <2> QED
    BY <1>4, <2>1 DEF FitsPhase, StepName
<1>5. CASE ~(phase \in Forward /\ expired) /\ phase \notin Backward
           /\ phase # "source-relinquished" /\ phase # "cloud-activated"
  <2>1. RecoverStep = "done"
    BY <1>5 DEF RecoverStep
  <2> QED
    BY <2>1 DEF FitsPhase, StepName
<1> QED
  BY <1>1, <1>2, <1>3, <1>4, <1>5

LEMMA CompleteFits == FitsPhase(CompleteStep) /\ CompleteStep \in {"receive", "validate", "done"}
BY DEF CompleteStep, FitsPhase, StepName

LEMMA BeginFits == FitsPhase(BeginStep) /\ BeginStep \in {"resume", "record", "prepare", "done"}
BY DEF BeginStep, FitsPhase, StepName

LEMMA CommitFits ==
  ASSUME NEW r
  PROVE  /\ FitsPhase(CommitStep(r))
         /\ CommitStep(r) \in {"plan", "publish", "fence", "activate", "discard-repository", "done"}
         /\ CommitStep(r) # "done" =>
              phase \in {"claims-retained", "repository-published"} \cup Handed
         /\ CommitStep(r) = "discard-repository" => phase = "cloud-activated"
<1>1. PublishStep \in {"plan", "publish"} /\ (PublishStep = "publish" => recovery.plan)
  BY DEF PublishStep
<1>2. /\ phase = "claims-retained" /\ ~expired => CommitStep(r) = PublishStep
      /\ CommitStep(r) \in {PublishStep, "fence", "activate", "discard-repository", "done"}
      /\ CommitStep(r) = "fence" => phase = "repository-published"
      /\ CommitStep(r) = "activate" => phase = "source-relinquished"
      /\ CommitStep(r) = "discard-repository" => phase = "cloud-activated"
      /\ CommitStep(r) = PublishStep => phase = "claims-retained"
  BY <1>1 DEF CommitStep
<1> DEFINE s == CommitStep(r)
<1>3. /\ s \in {"plan", "publish", "fence", "activate", "discard-repository", "done"}
      /\ s \in {"plan", "publish"} => phase = "claims-retained"
      /\ s = "publish" => recovery.plan
      /\ s = "fence" => phase = "repository-published"
      /\ s = "activate" => phase = "source-relinquished"
      /\ s = "discard-repository" => phase = "cloud-activated"
  BY <1>1, <1>2
<1> HIDE DEF s
<1>4. FitsPhase(s)
  BY <1>3 DEF FitsPhase, StepName
<1>5. s # "done" => phase \in {"claims-retained", "repository-published"} \cup Handed
  BY <1>3 DEF Handed
<1> QED
  BY <1>3, <1>4, <1>5 DEF s

LEMMA AcknowledgeFits ==
  ASSUME NEW r
  PROVE  /\ FitsPhase(AcknowledgeStep(r))
         /\ AcknowledgeStep(r) \in {"plan", "publish", "receipt", "done"}
         /\ AcknowledgeStep(r) = "receipt" => batch = r
BY DEF AcknowledgeStep, PublishStep, FitsPhase, StepName

LEMMA CancelRequestFits ==
  ASSUME JournalInv, NEW saw \in Forward \cup Handed \cup {"target-cleaned"}
  PROVE  /\ FitsPhase(CancelRequestStep(saw))
         /\ CancelRequestStep(saw) = "intent" => saw = phase
         /\ CancelRequestStep(saw) \notin {"receipt", "fence"}
<1>1. CancelRequestStep(saw) \in {CancelStep, "reopen", "intent", "done"}
  BY DEF CancelRequestStep
<1>2. CancelRequestStep(saw) = "reopen" => phase = "target-cleaned"
  BY CancelSteps1 DEF CancelRequestStep
<1>3. CancelRequestStep(saw) = "intent" => saw = phase /\ recovery.cancel = "none"
  BY CancelSteps1 DEF CancelRequestStep
<1>4. recovery.cancel = "none" => phase # "target-cleaned"
  BY DEF JournalInv, Backward, Cleaned
<1> QED
  BY <1>1, <1>2, <1>3, <1>4, CancelFits DEF FitsPhase, StepName

-----------------------------------------------------------------------------
(* Uploads, outside the lease. *)

\* An upload goes on.
LEMMA UploadTypes ==
  ASSUME StoreType, NEW u \in Upload,
         NEW step \in {"idle", "prepare", "open", "receive", "confirm", "complete"}
  PROVE  /\ [upload EXCEPT ![u].step = step]
              \in [Upload -> [step : {"idle", "prepare", "open", "receive", "confirm", "complete"},
                              artifact : Artifact]]
         /\ upload[u].artifact \in Artifact
BY DEF StoreType

\* Uploads change the staged files and nothing that a call has seen to.
LEMMA UploadKept ==
  ASSUME IInv, MoreFiles, StoreType',
         UNCHANGED <<op, phase, batch, recovery, projectVars, import, repository, pending, hostVars>>
  PROVE  IInv'
<1>1. StateInv'
  BY StateKept DEF IInv
<1>2. OpInv' /\ CommitInv'
  BY OpKept DEF IInv, projectVars, hostVars
<1>3. op' \in OpRecord
  BY Types DEF IInv
<1> QED
  BY <1>1, <1>2, <1>3, TypesAfter DEF IInv

\* A step that reads only, or changes nothing but the uploads.
LEMMA UploadsOnly ==
  ASSUME IInv,
         upload' \in [Upload -> [step : {"idle", "prepare", "open", "receive", "confirm",
                                         "complete"}, artifact : Artifact]],
         UNCHANGED <<journalVars, expired, projectVars, diskVars, pending, reserved, op,
                     hostVars, faults>>
  PROVE  IInv'
<1>1. StoreType /\ StoreType'
  BY Types DEF IInv, StoreType, journalVars, projectVars, diskVars, hostVars
<1>2. MoreFiles
  BY <1>1 DEF MoreFiles, StoreType, diskVars
<1> QED
  BY <1>1, <1>2, UploadKept DEF journalVars, diskVars

LEMMA UploadActions ==
  ASSUME IInv, NEW u \in Upload,
         UploadStep(u) \/ UploadConfirm(u) \/ \E a \in Artifact : UploadCheck(u, a)
  PROVE  IInv'
<1>1. StoreType
  BY Types DEF IInv
<1>2. ASSUME NEW a \in Artifact, UploadCheck(u, a) PROVE IInv'
  <2>1. upload' \in [Upload -> [step : {"idle", "prepare", "open", "receive", "confirm",
                                        "complete"}, artifact : Artifact]]
    BY <1>1, <1>2 DEF UploadCheck, StoreType
  <2> QED
    BY <1>2, <2>1, UploadsOnly DEF UploadCheck
<1>3. CASE UploadPrepare(u)
  <2>1. PICK step \in {"idle", "open"} : upload' = [upload EXCEPT ![u].step = step]
    BY <1>3 DEF UploadPrepare, UploadGoto
  <2>2. /\ staging' \in {staging, "prepared"} /\ reserved' \in {reserved, TRUE}
        /\ UNCHANGED <<journalVars, expired, projectVars, files, import, repository, detached,
                       pending, op, hostVars, faults>>
    BY <1>3 DEF UploadPrepare
  <2>3. StoreType'
    <3>1. upload' \in [Upload -> [step : {"idle", "prepare", "open", "receive", "confirm",
                                          "complete"}, artifact : Artifact]]
      BY <1>1, <2>1, UploadTypes
    <3>2. reserved' \in BOOLEAN /\ staging' \in {"absent", "prepared", "torn"}
      BY <1>1, <2>2 DEF StoreType
    <3> HIDE <2>1
    <3> QED
      BY <1>1, <2>2, <3>1, <3>2 DEF StoreType, journalVars, projectVars, hostVars
  <2>4. MoreFiles
    BY <1>1, <2>2 DEF MoreFiles, StoreType
  <2> QED
    BY <2>2, <2>3, <2>4, UploadKept DEF journalVars
<1>4. CASE UploadOpen(u)
  <2>1. PICK step \in {"idle", "receive"} : upload' = [upload EXCEPT ![u].step = step]
    BY <1>4 DEF UploadOpen, UploadGoto
  <2> QED
    BY <1>1, <1>4, <2>1, UploadTypes, UploadsOnly DEF UploadOpen
<1>5. CASE UploadReceive(u)
  <2>1. PICK step \in {"idle", "confirm"} : upload' = [upload EXCEPT ![u].step = step]
    BY <1>5 DEF UploadReceive, UploadGoto
  <2>2. /\ files' \in {files, files \cup {upload[u].artifact}}
        /\ UNCHANGED <<journalVars, expired, projectVars, staging, import, repository, detached,
                       pending, reserved, op, hostVars, faults>>
    BY <1>5 DEF UploadReceive
  <2>3. files \subseteq files' /\ files' \subseteq Artifact
    <3>1. upload[u].artifact \in Artifact /\ files \subseteq Artifact
      BY <1>1, UploadTypes DEF StoreType
    <3> QED
      BY <2>2, <3>1
  <2>4. StoreType'
    <3>1. upload' \in [Upload -> [step : {"idle", "prepare", "open", "receive", "confirm",
                                          "complete"}, artifact : Artifact]]
      BY <1>1, <2>1, UploadTypes
    <3> HIDE <2>1
    <3> QED
      BY <1>1, <2>2, <2>3, <3>1 DEF StoreType, journalVars, projectVars, hostVars
  <2>5. MoreFiles
    BY <2>2, <2>3 DEF MoreFiles
  <2> QED
    BY <2>2, <2>4, <2>5, UploadKept DEF journalVars
<1>6. CASE UploadConfirm(u)
  <2>1. PICK step \in {"idle", "complete"} : upload' = [upload EXCEPT ![u].step = step]
    BY <1>6 DEF UploadConfirm, UploadGoto
  <2> QED
    BY <1>1, <1>6, <2>1, UploadTypes, UploadsOnly DEF UploadConfirm
<1> QED
  BY <1>2, <1>3, <1>4, <1>5, <1>6 DEF UploadStep

-----------------------------------------------------------------------------
(* Calls. *)

\* A call takes the lease.
LEMMA TakeOp ==
  ASSUME IInv, NEW c \in {"begin", "complete", "rotate", "acknowledge", "commit", "cancel",
                          "recover"},
         NEW step, step # "done", FitsPhase(step), NEW r \in {0} \cup Batch,
         NEW saw \in {"none", "expired", "target-cleaned"} \cup Forward \cup Handed,
         op' = [call |-> c, step |-> step, revision |-> r, saw |-> saw],
         step = "receipt" => r = batch /\ r \in delivered,
         step = "intent" => saw \in {"expired", phase},
         step = "fence" => c = "commit",
         UNCHANGED <<phase, batch, recovery, delivered, repository>>
  PROVE  /\ op' \in OpRecord /\ OpInv'
         /\ op'.call = c /\ op'.step = step /\ op'.revision = r
<1>1. op'.call = c /\ op'.step = step /\ op'.revision = r /\ op'.saw = saw
  OBVIOUS
<1>2. op' \in OpRecord
  BY DEF OpRecord, FitsPhase, StepName
<1>3. repository = "canonical" => recovery.plan
  BY DEF IInv, StateInv, RepositoryInv
<1> DEFINE o == op'
<1>4. /\ o.step = step /\ o.call = c /\ o.revision = r /\ o.saw = saw
      /\ phase' = phase /\ batch' = batch /\ recovery' = recovery /\ delivered' = delivered
      /\ repository' = repository
  BY <1>1
<1> HIDE DEF o
<1>5. /\ o.step \notin {"idle", "own", "bundle", "fetch", "mark", "stage", "advance",
                        "discard-files", "unstage", "clean", "complete"}
      /\ o.step = "validate" => phase = "checkpoint-received"
      /\ o.step = "discard-repository" /\ phase = "target-invalidated" => ~recovery.plan
  BY <1>4 DEF FitsPhase
<1>6. OpInv'
  <2>1. /\ o.step \in {"prepare", "receive"} => phase' = "source-quiesced"
        /\ o.step = "receipt" =>
             phase' = "checkpoint-validated" /\ o.revision = batch' /\ o.revision \in delivered'
        /\ o.step \in {"plan", "publish"} => phase' = "claims-retained"
        /\ o.step = "publish" => recovery'.plan
        /\ o.step = "fence" => phase' = "repository-published" /\ o.call = "commit"
        /\ o.step = "activate" => phase' = "source-relinquished"
        /\ o.step = "intent" => phase' \in Forward \cup Handed /\ o.saw \in {"expired", phase'}
    BY <1>4 DEF FitsPhase
  <2>2. /\ o.step = "discard-repository" => phase' \in {"cloud-activated", "target-invalidated"}
        /\ o.step = "discard-repository" /\ phase' = "target-invalidated" =>
             repository' # "canonical"
        /\ o.step = "invalidate" => phase' = "cancel-intent"
        /\ o.step = "remove" => phase' = "target-invalidated"
        /\ o.step = "reopen" => phase' = "target-cleaned"
        /\ o.step = "finish" => phase' = "source-reopened"
    BY <1>3, <1>4 DEF FitsPhase
  <2>3. op' = o
    BY DEF o
  <2> HIDE DEF o
  <2> QED
    BY <1>4, <1>5, <2>1, <2>2, <2>3 DEF OpInv
<1> QED
  BY <1>1, <1>2, <1>6

\* A call of another kind than commit, everything else as it was.
LEMMA TakeStep ==
  ASSUME IInv, NEW c \in {"begin", "rotate", "acknowledge", "cancel", "recover"},
         NEW step, FitsPhase(step), step # "fence", NEW r \in {0} \cup Batch,
         NEW saw \in {"none", "expired", "target-cleaned"} \cup Forward \cup Handed,
         Take(c, step, r, saw), UNCHANGED <<upload, hostVars>>,
         step = "receipt" => r = batch /\ r \in delivered,
         step = "intent" => saw \in {"expired", phase}
  PROVE  IInv'
<1>1. op' \in OpRecord /\ OpInv' /\ op'.call = c
  BY TakeOp DEF Take, journalVars, diskVars, hostVars
<1>2. StoreType'
  BY Types DEF IInv, Take, StoreType, journalVars, projectVars, diskVars, hostVars
<1>3. MoreFiles
  BY Types DEF IInv, Take, MoreFiles, StoreType, diskVars
<1>4. StateInv'
  BY <1>3, StateKept DEF IInv, Take, journalVars, diskVars
<1>5. CommitInv'
  BY <1>1 DEF CommitInv
<1> QED
  BY <1>1, <1>2, <1>4, <1>5, TypesAfter DEF IInv

LEMMA RotateFits == phase \in Staged => FitsPhase("rotate")
BY DEF FitsPhase, StepName

LEMMA HostCalls ==
  ASSUME IInv, \/ CallBegin \/ CallRecover
               \/ \E r \in Batch : CallRotate(r) \/ CallAcknowledge(r)
               \/ \E saw \in Forward \cup Handed \cup {"target-cleaned"} : CallCancel(saw)
  PROVE  IInv'
<1>1. CASE CallBegin
  BY <1>1, BeginFits, TakeStep DEF CallBegin
<1>2. CASE CallRecover
  <2>1. RecoverStep \notin {"receipt", "fence"}
    BY CancelSteps1 DEF RecoverStep
  <2> QED
    BY <1>2, <2>1, RecoverFits, TakeStep DEF CallRecover
<1>3. ASSUME NEW r \in Batch, CallRotate(r) PROVE IInv'
  BY <1>3, RotateFits, TakeStep DEF CallRotate
<1>4. ASSUME NEW r \in Batch, CallAcknowledge(r) PROVE IInv'
  BY <1>4, AcknowledgeFits, TakeStep DEF CallAcknowledge
<1>5. ASSUME NEW saw \in Forward \cup Handed \cup {"target-cleaned"}, CallCancel(saw) PROVE IInv'
  BY <1>5, CancelRequestFits, TakeStep DEF CallCancel, IInv, StateInv
<1> QED
  BY <1>1, <1>2, <1>3, <1>4, <1>5

LEMMA CallCompleteStep ==
  ASSUME IInv, NEW u \in Upload, CallComplete(u)
  PROVE  IInv'
<1>1. StoreType /\ op \in OpRecord
  BY Types DEF IInv
<1>2. upload' \in [Upload -> [step : {"idle", "prepare", "open", "receive", "confirm",
                                      "complete"}, artifact : Artifact]]
  BY <1>1, UploadTypes DEF CallComplete, UploadGoto
<1>3. StoreType'
  BY <1>1, <1>2 DEF CallComplete, StoreType, journalVars, projectVars, diskVars, hostVars
<1>4. MoreFiles
  BY <1>1 DEF CallComplete, MoreFiles, StoreType, diskVars
<1>5. StateInv'
  BY <1>4, StateKept DEF IInv, CallComplete, journalVars, diskVars
<1>6. CASE CompleteStep = "done"
  <2>1. op' \in OpRecord /\ OpInv' /\ CommitInv'
    BY <1>6, IdleOp, IdleInv DEF CallComplete
  <2> QED
    BY <1>3, <1>5, <2>1, TypesAfter DEF IInv
<1>7. CASE CompleteStep # "done"
  <2>1. op' = [call |-> "complete", step |-> CompleteStep, revision |-> 0, saw |-> "none"]
    BY <1>7 DEF CallComplete, Idle
  <2>2. op' \in OpRecord /\ OpInv' /\ op'.call = "complete"
    BY <1>7, <2>1, CompleteFits, TakeOp DEF CallComplete, journalVars, diskVars, hostVars
  <2>3. CommitInv'
    BY <2>2 DEF CommitInv
  <2> QED
    BY <1>3, <1>5, <2>2, <2>3, TypesAfter DEF IInv
<1> QED
  BY <1>6, <1>7

LEMMA CallCommitStep ==
  ASSUME IInv, NEW r \in Batch, CallCommit(r)
  PROVE  IInv'
<1>1. /\ receipt = r /\ source' = "relinquished" /\ source # "reopened"
      /\ op' = [call |-> "commit", step |-> CommitStep(r), revision |-> r, saw |-> "none"]
      /\ CommitStep(r) # "done"
      /\ UNCHANGED <<journalVars, expired, projectVars, diskVars, pending, reserved, faults,
                     upload, delivered>>
  BY DEF CallCommit, Take
<1>2. StoreType'
  BY <1>1, Types DEF IInv, StoreType, journalVars, projectVars, diskVars
<1>3. StateInv'
  BY <1>1 DEF IInv, StateInv, JournalInv, StageInv, ClaimsInv, RepositoryInv, BoundInv, SourceInv,
              CleanInv, journalVars, projectVars, diskVars
<1>4. op' \in OpRecord /\ OpInv' /\ op'.call = "commit" /\ op'.step = CommitStep(r) /\ op'.revision = r
  BY <1>1, CommitFits, TakeOp DEF journalVars, diskVars
<1>5. CommitInv'
  <2>1. r # 0
    BY LanTransferAssumption DEF Batch
  <2> QED
    BY <1>1, <1>4, <2>1, CommitFits DEF CommitInv, journalVars, projectVars
<1> QED
  BY <1>2, <1>3, <1>4, <1>5, TypesAfter DEF IInv

LEMMA HostReopensStep ==
  ASSUME IInv, HostReopens
  PROVE  IInv'
<1>1. /\ phase \in Cleaned /\ source' = "reopened"
      /\ UNCHANGED <<journalVars, expired, projectVars, diskVars, pending, reserved, op, upload,
                     delivered, faults>>
  BY DEF HostReopens
<1>2. StoreType' /\ op' \in OpRecord
  BY <1>1, Types DEF IInv, StoreType, journalVars, projectVars, diskVars
<1>3. StateInv'
  BY <1>1, PhaseParts DEF IInv, StateInv, JournalInv, StageInv, ClaimsInv, RepositoryInv, BoundInv,
              SourceInv, CleanInv, journalVars, projectVars, diskVars
<1>4. OpInv'
  BY <1>1 DEF IInv, OpInv, journalVars, projectVars, diskVars
<1>5. CommitInv'
  BY <1>1 DEF IInv, CommitInv, Cleaned, Handed, journalVars
<1> QED
  BY <1>2, <1>3, <1>4, <1>5, TypesAfter DEF IInv

-----------------------------------------------------------------------------
(* begin and completeCheckpoint. *)

\* A call that ends keeps nothing in its hands.
LEMMA Ended ==
  ASSUME StoreType', StateInv', End
  PROVE  IInv'
BY EndOp, IdleInv, TypesAfter DEF IInv

LEMMA BeginStepsKeep ==
  ASSUME IInv, BeginSteps
  PROVE  IInv'
<1>1. StoreType /\ op \in OpRecord
  BY Types DEF IInv
<1>2. CASE ResumePreviousDeletion
  <2>1. /\ op.step = "resume" /\ previous' = "clear" /\ Then("record")
        /\ UNCHANGED <<phase, batch, recovery, expired, projectVars, diskVars, pending, reserved,
                       upload, hostVars, faults>>
    BY <1>2 DEF ResumePreviousDeletion, At
  <2>2. StoreType'
    BY <1>1, <2>1 DEF StoreType, projectVars, diskVars, hostVars
  <2>3. StateInv'
    BY <1>1, <2>1, StateKept DEF IInv, MoreFiles, StoreType, diskVars
  <2>4. op' \in OpRecord /\ op'.step = "record" /\ op'.call = op.call
    BY <1>1, <2>1, ThenOp DEF StepName
  <2>5. OpInv' /\ CommitInv'
    BY <2>1, <2>4 DEF IInv, OpInv, CommitInv
  <2> QED
    BY <2>2, <2>3, <2>4, <2>5, TypesAfter DEF IInv
<1>3. CASE Record
  <2>1. /\ op.step = "record" /\ Admits /\ phase' = "source-quiesced" /\ Then("prepare")
        /\ recovery' = NoRecovery
        /\ UNCHANGED <<batch, previous, expired, projectVars, diskVars, pending, reserved, upload,
                       hostVars, faults>>
    BY <1>3 DEF Record, At
  <2>2. phase = "none"
    BY <2>1, AdmitsFacts
  <2>3. StoreType'
    BY <1>1, <2>1 DEF StoreType, NoRecovery, Phase, Forward, Uploading, projectVars, diskVars,
                      hostVars
  <2>4. StateInv'
    <3>1. JournalInv' /\ StageInv' /\ RepositoryInv'
      BY <2>1, <2>2 DEF IInv, StateInv, JournalInv, StageInv, RepositoryInv, Unstaged, Waiting, Staged,
                        Handed, Backward, Cleaned, NoRecovery, projectVars, diskVars
    <3>2. ClaimsInv' /\ BoundInv'
      BY <2>1, <2>2 DEF IInv, StateInv, ClaimsInv, BoundInv, Served, Staged, Handed, projectVars,
                        hostVars
    <3>3. SourceInv' /\ CleanInv'
      BY <2>1, <2>2 DEF IInv, StateInv, SourceInv, CleanInv, Cleaned, Handed, hostVars
    <3> QED
      BY <3>1, <3>2, <3>3 DEF StateInv
  <2>5. op' \in OpRecord /\ op'.step = "prepare" /\ op'.call = op.call
    BY <1>1, <2>1, ThenOp DEF StepName
  <2>6. OpInv' /\ CommitInv'
    BY <2>1, <2>5 DEF IInv, OpInv, CommitInv
  <2> QED
    BY <2>3, <2>4, <2>5, <2>6, TypesAfter DEF IInv
<1>4. CASE PrepareAttempt
  <2>1. /\ staging' = "prepared" /\ reserved' = TRUE /\ End
        /\ UNCHANGED <<journalVars, expired, projectVars, files, import, repository, detached,
                       pending, upload, hostVars, faults>>
    BY <1>4 DEF PrepareAttempt, At
  <2>2. StoreType'
    BY <1>1, <2>1 DEF StoreType, journalVars, projectVars, hostVars
  <2>3. StateInv'
    BY <1>1, <2>1, StateKept DEF IInv, MoreFiles, StoreType, journalVars
  <2> QED
    BY <2>1, <2>2, <2>3, Ended
<1> QED
  BY <1>2, <1>3, <1>4 DEF BeginSteps

\* The checkpoint's import, while nothing is staged yet.
LEMMA ImportKept ==
  ASSUME StateInv, phase = "checkpoint-received",
         repository' \in {repository, "import", "none"},
         UNCHANGED <<journalVars, projectVars, staging, files, pending, hostVars>>
  PROVE  StateInv'
<1>1. RepositoryInv'
  BY DEF StateInv, RepositoryInv, Handed, journalVars
<1>2. CleanInv'
  BY DEF CleanInv, Cleaned, journalVars
<1> QED
  BY <1>1, <1>2 DEF StateInv, JournalInv, StageInv, ClaimsInv, BoundInv, SourceInv, journalVars,
                    projectVars, hostVars

LEMMA CompleteStepsKeep ==
  ASSUME IInv, CompleteSteps
  PROVE  IInv'
<1>1. StoreType /\ op \in OpRecord /\ StateInv /\ OpInv /\ CommitInv
  BY Types DEF IInv
<1>2. CASE Receive
  <2>1. /\ op.step = "receive" /\ phase = "source-quiesced" /\ phase' = "checkpoint-received"
        /\ Then("validate")
        /\ UNCHANGED <<batch, recovery, previous, expired, projectVars, diskVars, pending, reserved,
                       upload, hostVars, faults>>
    BY <1>2 DEF Receive, At, AdvanceOnly
  <2>2. StoreType'
    BY <1>1, <2>1 DEF StoreType, Phase, Forward, Uploading, projectVars, diskVars, hostVars
  <2>3. StateInv'
    BY <1>1, <2>1 DEF StateInv, JournalInv, StageInv, ClaimsInv, RepositoryInv, BoundInv, SourceInv,
             CleanInv, Unstaged, Waiting, Staged, Served, Handed, Backward, Cleaned, projectVars,
             diskVars, hostVars
  <2>4. op' \in OpRecord /\ op'.step = "validate" /\ op'.call = op.call
    BY <1>1, <2>1, ThenOp DEF StepName
  <2>5. OpInv' /\ CommitInv'
    BY <1>1, <2>1, <2>4 DEF OpInv, CommitInv
  <2> QED
    BY <2>2, <2>3, <2>4, <2>5, TypesAfter DEF IInv
<1>3. CASE Validate
  <2>1. /\ op.step = "validate" /\ Admits
        /\ import' = Entered(import)
        /\ Then(IF import = "absent" THEN "own"
                ELSE IF Replayed(import) THEN "stage" ELSE "bundle")
        /\ UNCHANGED <<journalVars, expired, projectVars, staging, files, detached, repository,
                       pending, reserved, upload, hostVars, faults>>
    BY <1>3 DEF Validate, At, OtherDisk
  <2>2. phase = "checkpoint-received" /\ staging = "prepared" /\ files = Artifact
    BY <1>1, <2>1, AdmitsFacts DEF OpInv, Readable, Inspected
  <2>3. StoreType'
    BY <1>1, <2>1 DEF StoreType, Entered, journalVars, projectVars, hostVars
  <2>4. StateInv'
    BY <1>1, <2>1, <2>2, ImportKept
  <2>5. PICK s \in {"own", "stage", "bundle"} : Then(s)
    BY <2>1
  <2>6. op' \in OpRecord /\ op'.step \in {"own", "stage", "bundle"} /\ op'.call = op.call
    BY <1>1, <2>5, ThenOp DEF StepName
  <2>7. OpInv' /\ CommitInv'
    BY <1>1, <2>1, <2>2, <2>6 DEF OpInv, CommitInv, journalVars
  <2> QED
    BY <2>3, <2>4, <2>6, <2>7, TypesAfter DEF IInv
<1>4. CASE MarkOwner \/ StageBundle \/ BuildRepository \/ MarkValidated
  <2>1. PICK s \in {"bundle", "fetch", "mark", "stage"} :
          /\ op.step \in {"own", "bundle", "fetch", "mark"} /\ Then(s)
          /\ import' \in {"owned", "bundled", "built", "validated"}
          /\ repository' \in {repository, "import"}
          /\ UNCHANGED <<journalVars, expired, projectVars, staging, files, detached, pending,
                         reserved, upload, hostVars, faults>>
    BY <1>4 DEF MarkOwner, StageBundle, BuildRepository, MarkValidated, At, OtherDisk
  <2>2. phase = "checkpoint-received" /\ staging = "prepared" /\ files = Artifact
    BY <1>1, <2>1 DEF OpInv
  <2>3. StoreType'
    BY <1>1, <2>1 DEF StoreType, journalVars, projectVars, hostVars
  <2>4. StateInv'
    BY <1>1, <2>1, <2>2, ImportKept
  <2>5. op' \in OpRecord /\ op'.step \in {"bundle", "fetch", "mark", "stage"}
        /\ op'.call = op.call
    BY <1>1, <2>1, ThenOp DEF StepName
  <2>6. OpInv' /\ CommitInv'
    BY <1>1, <2>1, <2>2, <2>5 DEF OpInv, CommitInv, journalVars
  <2> QED
    BY <2>3, <2>4, <2>5, <2>6, TypesAfter DEF IInv
<1>5. CASE StageProject
  <2>1. /\ op.step = "stage" /\ phase = "checkpoint-received" /\ phase' = "checkpoint-validated"
        /\ project' = "maintenance" /\ recovery' = [recovery EXCEPT !.stage = TRUE]
        /\ batch' = 1 /\ claims' = FirstClaims
        /\ pending' = [revision |-> 1, exposed |-> FALSE] /\ End
        /\ UNCHANGED <<previous, expired, placement, receipt, bound, diskVars, reserved, upload,
                       hostVars, faults>>
    BY <1>5 DEF StageProject, At
  <2>2. staging = "prepared" /\ files = Artifact
    BY <1>1, <2>1 DEF OpInv
  <2>3. 1 \in Batch /\ \A r \in Batch : r # 0
    BY LanTransferAssumption DEF Batch
  <2>4. claims \in [Batch -> [Other -> {"none", "unclaimed", "revoked", "redeemed"}]]
    BY <1>1 DEF StoreType
  <2>5. /\ claims' \in [Batch -> [Other -> {"none", "unclaimed", "revoked", "redeemed"}]]
        /\ \A m \in Other : claims'[1][m] = "unclaimed"
        /\ \A r \in Batch : r # 1 => claims'[r] = claims[r]
    BY <2>1, <2>3, <2>4 DEF FirstClaims
  <2>6. /\ recovery' \in [stage : BOOLEAN, plan : BOOLEAN, proof : {0} \cup Batch,
                          cancel : {"none", "expired"} \cup Forward, reopen : BOOLEAN]
        /\ recovery'.stage /\ recovery'.plan = recovery.plan /\ recovery'.proof = recovery.proof
        /\ recovery'.cancel = recovery.cancel
    BY <1>1, <2>1 DEF StoreType
  <2>7. StoreType'
    BY <1>1, <2>1, <2>3, <2>5, <2>6 DEF StoreType, Phase, Forward, Uploading, diskVars, hostVars
  <2>8. /\ \A p \in Principal : bound[p] = Nobody
        /\ ~placement /\ batch = 0 /\ receipt = 0 /\ ~recovery.plan /\ recovery.proof = 0
    BY <1>1, <2>1 DEF StateInv, BoundInv, JournalInv, Unstaged, Served
  <2>9. JournalInv' /\ StageInv' /\ RepositoryInv'
    BY <1>1, <2>1, <2>2, <2>6, <2>8
    DEF StateInv, JournalInv, StageInv, RepositoryInv, Unstaged, Waiting, Staged, Handed, Backward,
        Cleaned, diskVars
  <2>10. ClaimsInv'
    BY <1>1, <2>1, <2>3, <2>5, <2>8 DEF StateInv, ClaimsInv, hostVars
  <2>11. BoundInv'
    BY <2>1, <2>8, LanTransferAssumption DEF BoundInv, Served
  <2>12. SourceInv' /\ CleanInv'
    BY <1>1, <2>1 DEF StateInv, SourceInv, CleanInv, Cleaned, Handed, hostVars
  <2> QED
    BY <2>1, <2>7, <2>9, <2>10, <2>11, <2>12, Ended DEF StateInv
<1> QED
  BY <1>2, <1>3, <1>4, <1>5 DEF CompleteSteps

LEMMA InvalidCheckpointStep ==
  ASSUME IInv, InvalidCheckpoint
  PROVE  IInv'
<1>1. StoreType /\ StateInv /\ OpInv
  BY Types DEF IInv
<1>2. /\ op.step \in {"mark", "stage"} /\ faults < MaxFaults /\ faults' = faults + 1 /\ End
      /\ import' \in {import, "absent"} /\ repository' \in {repository, "none"}
      /\ UNCHANGED <<journalVars, expired, projectVars, staging, files, pending, reserved, upload,
                     hostVars>>
  BY DEF InvalidCheckpoint, Removed
<1>3. faults' \in 0..MaxFaults /\ detached' \in BOOLEAN
  <2>1. faults' \in 0..MaxFaults
    BY <1>1, <1>2, LanTransferAssumption DEF StoreType
  <2>2. detached' \in BOOLEAN
    BY <1>1, Zenon DEF InvalidCheckpoint, Removed, StoreType
  <2> QED
    BY <2>1, <2>2
<1>4. StoreType'
  BY <1>1, <1>2, <1>3 DEF StoreType, journalVars, projectVars, hostVars
<1>5. phase = "checkpoint-received"
  BY <1>1, <1>2 DEF OpInv
<1>6. StateInv'
  BY <1>1, <1>2, <1>5, ImportKept
<1> QED
  BY <1>2, <1>4, <1>6, Ended

-----------------------------------------------------------------------------
(* Claims and their custody. *)

\* The reply reaches the host or counts as a lost one.
LEMMA Replied ==
  ASSUME StoreType, NEW r \in {0} \cup Batch, r \in Batch, Reply(r)
  PROVE  delivered \subseteq delivered' /\ delivered' \subseteq Batch /\ faults' \in 0..MaxFaults
<1>1. delivered \subseteq Batch /\ faults \in 0..MaxFaults
  BY DEF StoreType
<1>2. delivered \subseteq delivered' /\ delivered' \subseteq Batch
  BY <1>1 DEF Reply
<1>3. faults' = faults \/ (faults < MaxFaults /\ faults' = faults + 1)
  BY DEF Reply
<1>4. faults' \in 0..MaxFaults
  BY <1>1, <1>3, LanTransferAssumption
<1> QED
  BY <1>2, <1>4

\* The secrets in memory and the host's store say nothing the journal depends on.
LEMMA DeliveredKept ==
  ASSUME StateInv, phase \notin Cleaned, delivered \subseteq delivered',
         UNCHANGED <<journalVars, projectVars, diskVars, source>>
  PROVE  StateInv'
BY DEF StateInv, JournalInv, StageInv, ClaimsInv, RepositoryInv, BoundInv, SourceInv, CleanInv,
       journalVars, projectVars, diskVars

LEMMA ExposeBatchStep ==
  ASSUME IInv, ExposeBatch
  PROVE  IInv'
<1>1. StoreType /\ StateInv
  BY Types DEF IInv
<1>2. /\ op.step = "rotate" /\ Admits /\ pending' = [pending EXCEPT !.exposed = TRUE]
      /\ Reply(op.revision) /\ End
      /\ UNCHANGED <<journalVars, expired, projectVars, diskVars, reserved, upload, source>>
  BY DEF ExposeBatch, At
<1>3. phase = "checkpoint-validated" /\ batch = op.revision
  BY <1>2, AdmitsFacts DEF Rotatable
<1>4. batch \in Batch
  BY <1>1, <1>3 DEF StateInv, ClaimsInv, Staged
<1>5. delivered \subseteq delivered' /\ delivered' \subseteq Batch /\ faults' \in 0..MaxFaults
  BY <1>1, <1>2, <1>3, <1>4, Replied
<1>6. pending' \in [revision : {0} \cup Batch, exposed : BOOLEAN]
  BY <1>1, <1>2 DEF StoreType
<1>7. StoreType'
  BY <1>1, <1>2, <1>5, <1>6 DEF StoreType, journalVars, projectVars, diskVars
<1>8. StateInv'
  BY <1>1, <1>2, <1>3, <1>5, DeliveredKept DEF Cleaned
<1> QED
  BY <1>2, <1>7, <1>8, Ended

LEMMA RotateBatchStep ==
  ASSUME IInv, RotateBatch
  PROVE  IInv'
<1>1. StoreType /\ StateInv
  BY Types DEF IInv
<1>2. /\ op.step = "rotate" /\ Admits /\ ~FreshBatch(op.revision) /\ End
      /\ UNCHANGED <<phase, recovery, previous, expired, project, placement, receipt, bound,
                     diskVars, reserved, upload, source>>
  BY DEF RotateBatch, At
<1>3. phase = "checkpoint-validated" /\ receipt = 0 /\ batch < MaxBatch
  BY <1>2, AdmitsFacts DEF Rotatable
<1>4. batch \in Batch
  BY <1>1, <1>3 DEF StateInv, ClaimsInv, Staged
<1>5. CASE Other = {}
  <2>1. pending' = [revision |-> batch, exposed |-> TRUE] /\ Reply(batch) /\ UNCHANGED <<batch, claims>>
    BY <1>5 DEF RotateBatch
  <2>2. delivered \subseteq delivered' /\ delivered' \subseteq Batch /\ faults' \in 0..MaxFaults
    BY <1>1, <1>4, <2>1, Replied
  <2>3. StoreType'
    BY <1>1, <1>2, <1>4, <2>1, <2>2 DEF StoreType, diskVars
  <2>4. StateInv'
    BY <1>1, <1>2, <1>3, <2>1, <2>2, DeliveredKept DEF Cleaned, journalVars, projectVars
  <2> QED
    BY <1>2, <2>3, <2>4, Ended
<1>6. CASE Other # {}
  <2>1. /\ batch' = NextRevision(batch) /\ claims' = RotatedClaims
        /\ pending' = [revision |-> NextRevision(batch), exposed |-> TRUE]
        /\ Reply(NextRevision(batch))
    BY <1>6 DEF RotateBatch
  <2>2. batch + 1 \in Batch /\ batch + 1 # batch /\ batch + 1 # 0
    BY <1>3, <1>4, LanTransferAssumption DEF Batch
  <2>3. batch' = batch + 1 /\ pending' = [revision |-> batch + 1, exposed |-> TRUE] /\ Reply(batch + 1)
    BY <2>1 DEF NextRevision
  <2>4. delivered \subseteq delivered' /\ delivered' \subseteq Batch /\ faults' \in 0..MaxFaults
    BY <1>1, <2>2, <2>3, Replied
  <2>5. claims \in [Batch -> [Other -> {"none", "unclaimed", "revoked", "redeemed"}]]
    BY <1>1 DEF StoreType
  <2>6. claims' = [claims EXCEPT ![batch] = [m \in Other |-> "revoked"],
                                 ![batch + 1] = [m \in Other |-> "unclaimed"]]
    BY <2>1 DEF RotatedClaims, Revoked, NextRevision
  <2>7. /\ claims' \in [Batch -> [Other -> {"none", "unclaimed", "revoked", "redeemed"}]]
        /\ \A m \in Other : claims'[batch + 1][m] = "unclaimed" /\ claims'[batch][m] = "revoked"
        /\ \A r \in Batch \ {batch, batch + 1} : claims'[r] = claims[r]
    BY <1>4, <2>2, <2>5, <2>6
  <2>8. StoreType'
    BY <1>1, <1>2, <2>2, <2>3, <2>4, <2>7 DEF StoreType, diskVars
  <2>9. JournalInv' /\ StageInv' /\ RepositoryInv' /\ SourceInv' /\ CleanInv'
    BY <1>1, <1>2, <1>3 DEF StateInv, JournalInv, StageInv, RepositoryInv, SourceInv, CleanInv,
                            Unstaged, Handed, Cleaned, diskVars
  <2>10. ClaimsInv'
    <3>1. \A r \in Batch, m \in Other : r # batch' => claims'[r][m] \in {"none", "revoked"}
      BY <1>1, <2>3, <2>7 DEF StateInv, ClaimsInv
    <3> QED
      BY <1>2, <1>3, <2>2, <2>3, <2>7, <3>1 DEF ClaimsInv
  <2>11. BoundInv'
    <3>1. \A p \in Principal : bound[p] = Nobody
      BY <1>1, <1>3 DEF StateInv, BoundInv, Served
    <3> QED
      BY <1>1, <1>2, <1>3, <3>1, LanTransferAssumption DEF StateInv, BoundInv, Served
  <2> QED
    BY <1>2, <2>8, <2>9, <2>10, <2>11, Ended DEF StateInv
<1> QED
  BY <1>5, <1>6

\* Past the staging only the journal's phase, its evidence and the receipt move.
LEMMA CommitCustodyStep ==
  ASSUME IInv, CommitCustody
  PROVE  IInv'
<1>1. StoreType /\ op \in OpRecord /\ StateInv /\ OpInv /\ CommitInv
  BY Types DEF IInv
<1>2. /\ op.step = "receipt" /\ phase = "checkpoint-validated"
      /\ receipt' = op.revision /\ phase' = "claims-retained"
      /\ pending' = NoPending /\ Then(PublishStep)
      /\ UNCHANGED <<batch, recovery, previous, expired, project, placement, claims, bound,
                     diskVars, reserved, upload, hostVars, faults>>
  BY DEF CommitCustody, At
<1>3. op.revision = batch /\ batch \in delivered /\ op.revision \in {0} \cup Batch
  BY <1>1, <1>2 DEF OpInv, OpRecord
<1>4. StoreType'
  BY <1>1, <1>2, <1>3 DEF StoreType, NoPending, Phase, Forward, Uploading, diskVars, hostVars
<1>5. StateInv'
  <2>1. JournalInv' /\ StageInv' /\ RepositoryInv'
    BY <1>1, <1>2 DEF StateInv, JournalInv, StageInv, RepositoryInv, Unstaged, Waiting, Staged, Handed,
                      Backward, Cleaned, diskVars
  <2>2. ClaimsInv'
    BY <1>1, <1>2, <1>3 DEF StateInv, ClaimsInv, Staged, Handed, hostVars
  <2>3. BoundInv' /\ SourceInv' /\ CleanInv'
    BY <1>1, <1>2 DEF StateInv, BoundInv, SourceInv, CleanInv, Served, Handed, Cleaned, hostVars
  <2> QED
    BY <2>1, <2>2, <2>3 DEF StateInv
<1>6. PICK s \in {"plan", "publish"} : Then(s) /\ (s = "publish" => recovery.plan)
  BY <1>2 DEF PublishStep
<1>7. op' \in OpRecord /\ op'.step = s /\ op'.call = op.call
  BY <1>1, <1>6, ThenOp DEF StepName
<1>8. OpInv'
  BY <1>2, <1>6, <1>7 DEF OpInv
<1>9. CommitInv'
  BY <1>1, <1>2, <1>7 DEF CommitInv
<1> QED
  BY <1>4, <1>5, <1>7, <1>8, <1>9, TypesAfter DEF IInv

-----------------------------------------------------------------------------
(* Publication, the fence, and activation. *)

LEMMA PublicationSteps ==
  ASSUME IInv, PlanPublication \/ PublishInactive \/ RecordPublication
  PROVE  IInv'
<1>1. StoreType /\ op \in OpRecord /\ StateInv /\ OpInv /\ CommitInv
  BY Types DEF IInv
<1>2. CASE PlanPublication
  <2>1. /\ op.step = "plan" /\ recovery' = [recovery EXCEPT !["plan"] = TRUE] /\ Then("publish")
        /\ UNCHANGED <<phase, batch, previous, expired, projectVars, diskVars, pending, reserved,
                       upload, hostVars, faults>>
    BY <1>2 DEF PlanPublication, At, Evidence
  <2>2. phase = "claims-retained"
    BY <1>1, <2>1 DEF OpInv
  <2>3. /\ recovery' \in [stage : BOOLEAN, plan : BOOLEAN, proof : {0} \cup Batch,
                          cancel : {"none", "expired"} \cup Forward, reopen : BOOLEAN]
        /\ recovery'.plan /\ recovery'.stage = recovery.stage /\ recovery'.proof = recovery.proof
        /\ recovery'.cancel = recovery.cancel
    <3>1. recovery \in [stage : BOOLEAN, plan : BOOLEAN, proof : {0} \cup Batch,
                        cancel : {"none", "expired"} \cup Forward, reopen : BOOLEAN]
      BY <1>1 DEF StoreType
    <3> QED
      BY <2>1, <3>1
  <2>4. StoreType'
    BY <1>1, <2>1, <2>3 DEF StoreType, projectVars, diskVars, hostVars
  <2>5. StateInv'
    <3>1. JournalInv' /\ StageInv' /\ RepositoryInv'
      BY <1>1, <2>1, <2>2, <2>3 DEF StateInv, JournalInv, StageInv, RepositoryInv, Unstaged,
             Waiting, Staged, Handed, Backward, Cleaned, projectVars, diskVars
    <3>2. ClaimsInv' /\ BoundInv' /\ SourceInv' /\ CleanInv'
      BY <1>1, <2>1, <2>2 DEF StateInv, ClaimsInv, BoundInv, SourceInv, CleanInv, Staged, Served,
             Handed, Cleaned, projectVars, hostVars
    <3> QED
      BY <3>1, <3>2 DEF StateInv
  <2>6. op' \in OpRecord /\ op'.step = "publish" /\ op'.call = op.call /\ op'.revision = op.revision
    BY <1>1, <2>1, ThenOp DEF StepName
  <2>7. OpInv'
    BY <2>1, <2>2, <2>3, <2>6 DEF OpInv
  <2>8. CommitInv'
    BY <1>1, <2>1, <2>6 DEF CommitInv, projectVars, hostVars
  <2> QED
    BY <2>4, <2>5, <2>6, <2>7, <2>8, TypesAfter DEF IInv
<1>3. CASE PublishInactive
  <2>1. /\ op.step = "publish" /\ repository' = "canonical" /\ Then("advance")
        /\ UNCHANGED <<journalVars, expired, projectVars, staging, files, detached, import, pending,
                       reserved, upload, hostVars, faults>>
    BY <1>3 DEF PublishInactive, At, OtherDisk
  <2>2. phase = "claims-retained" /\ recovery.plan
    BY <1>1, <2>1 DEF OpInv
  <2>3. StoreType'
    BY <1>1, <2>1 DEF StoreType, journalVars, projectVars, hostVars
  <2>4. StateInv'
    BY <1>1, <2>1, <2>2 DEF StateInv, JournalInv, StageInv, ClaimsInv, RepositoryInv, BoundInv,
           SourceInv, CleanInv, Cleaned, journalVars, projectVars, hostVars
  <2>5. op' \in OpRecord /\ op'.step = "advance" /\ op'.call = op.call /\ op'.revision = op.revision
    BY <1>1, <2>1, ThenOp DEF StepName
  <2>6. OpInv'
    BY <2>1, <2>2, <2>5 DEF OpInv, journalVars
  <2>7. CommitInv'
    BY <1>1, <2>1, <2>5 DEF CommitInv, journalVars, projectVars, hostVars
  <2> QED
    BY <2>3, <2>4, <2>5, <2>6, <2>7, TypesAfter DEF IInv
<1>4. CASE RecordPublication
  <2>1. /\ op.step = "advance" /\ phase = "claims-retained" /\ phase' = "repository-published"
        /\ UNCHANGED <<batch, recovery, previous, expired, projectVars, diskVars, pending, reserved,
                       upload, hostVars, faults>>
    BY <1>4 DEF RecordPublication, At, AdvanceOnly
  <2>2. recovery.plan /\ repository = "canonical"
    BY <1>1, <2>1 DEF OpInv
  <2>3. StoreType'
    BY <1>1, <2>1 DEF StoreType, Phase, Forward, projectVars, diskVars, hostVars
  <2>4. StateInv'
    <3>1. JournalInv' /\ StageInv' /\ RepositoryInv'
      BY <1>1, <2>1, <2>2 DEF StateInv, JournalInv, StageInv, RepositoryInv, Unstaged,
             Waiting, Staged, Handed, Backward, Cleaned, projectVars, diskVars
    <3>2. ClaimsInv' /\ BoundInv' /\ SourceInv' /\ CleanInv'
      BY <1>1, <2>1 DEF StateInv, ClaimsInv, BoundInv, SourceInv, CleanInv, Staged, Served,
             Handed, Cleaned, projectVars, hostVars
    <3> QED
      BY <3>1, <3>2 DEF StateInv
  <2>5. CASE op.call = "commit" /\ ~expired
    <3>1. Then("fence")
      BY <1>4, <2>5 DEF RecordPublication
    <3>2. op' \in OpRecord /\ op'.step = "fence" /\ op'.call = op.call /\ op'.revision = op.revision
      BY <1>1, <3>1, ThenOp DEF StepName
    <3>3. OpInv'
      BY <2>1, <2>5, <3>2 DEF OpInv
    <3>4. CommitInv'
      BY <1>1, <2>1, <2>5, <3>2 DEF CommitInv, projectVars, hostVars
    <3> QED
      BY <2>3, <2>4, <3>2, <3>3, <3>4, TypesAfter DEF IInv
  <2>6. CASE ~(op.call = "commit" /\ ~expired)
    <3>1. Then("done")
      BY <1>4, <2>6 DEF RecordPublication
    <3> QED
      BY <1>1, <2>3, <2>4, <3>1, ThenOp, IdleInv, TypesAfter DEF IInv
  <2> QED
    BY <2>5, <2>6
<1> QED
  BY <1>2, <1>3, <1>4

LEMMA FenceStep ==
  ASSUME IInv, Fence
  PROVE  IInv'
<1>1. StoreType /\ op \in OpRecord /\ StateInv /\ OpInv /\ CommitInv
  BY Types DEF IInv
<1>2. /\ op.step = "fence" /\ Admits /\ phase = "repository-published"
      /\ recovery' = [recovery EXCEPT !["proof"] = op.revision]
      /\ phase' = "source-relinquished" /\ Then("activate")
      /\ UNCHANGED <<batch, previous, expired, projectVars, diskVars, pending, reserved, upload,
                     hostVars, faults>>
  BY DEF Fence, At, Evidence
<1>3. /\ op.revision = batch /\ op.call = "commit" /\ receipt = batch /\ source = "relinquished"
      /\ batch # 0
  BY <1>1, <1>2, AdmitsFacts DEF OpInv, CommitInv
<1>4. /\ recovery' \in [stage : BOOLEAN, plan : BOOLEAN, proof : {0} \cup Batch,
                        cancel : {"none", "expired"} \cup Forward, reopen : BOOLEAN]
      /\ recovery'.plan = recovery.plan /\ recovery'.stage = recovery.stage
      /\ recovery'.proof = batch /\ recovery'.cancel = recovery.cancel
  <2>1. recovery \in [stage : BOOLEAN, plan : BOOLEAN, proof : {0} \cup Batch,
                      cancel : {"none", "expired"} \cup Forward, reopen : BOOLEAN]
        /\ batch \in {0} \cup Batch
    BY <1>1 DEF StoreType
  <2>2. recovery' = [recovery EXCEPT !["proof"] = batch]
    BY <1>2, <1>3
  <2> QED
    BY <2>1, <2>2
<1>5. StoreType'
  BY <1>1, <1>2, <1>4 DEF StoreType, Phase, Handed, projectVars, diskVars, hostVars
<1>6. StateInv'
  <2>1. JournalInv' /\ StageInv' /\ RepositoryInv'
    BY <1>1, <1>2, <1>3, <1>4 DEF StateInv, JournalInv, StageInv, RepositoryInv, Unstaged,
           Waiting, Staged, Handed, Backward, Cleaned, projectVars, diskVars
  <2>2. ClaimsInv' /\ BoundInv' /\ SourceInv' /\ CleanInv'
    BY <1>1, <1>2, <1>3 DEF StateInv, ClaimsInv, BoundInv, SourceInv, CleanInv, Staged, Served,
           Handed, Cleaned, projectVars, hostVars
  <2> QED
    BY <2>1, <2>2 DEF StateInv
<1>7. op' \in OpRecord /\ op'.step = "activate" /\ op'.call = op.call /\ op'.revision = op.revision
  BY <1>1, <1>2, ThenOp DEF StepName
<1>8. OpInv'
  BY <1>2, <1>7 DEF OpInv
<1>9. CommitInv'
  BY <1>2, <1>3, <1>7 DEF CommitInv, Handed, projectVars, hostVars
<1> QED
  BY <1>5, <1>6, <1>7, <1>8, <1>9, TypesAfter DEF IInv

LEMMA ActivateStep ==
  ASSUME IInv, Activate
  PROVE  IInv'
<1>1. StoreType /\ op \in OpRecord /\ StateInv /\ OpInv /\ CommitInv
  BY Types DEF IInv
<1>2. /\ op.step = "activate" /\ phase = "source-relinquished"
      /\ repository' = "canonical" /\ project' = "active" /\ placement' = TRUE
      /\ bound' = [bound EXCEPT ![HostPrincipal] = Host]
      /\ phase' = "cloud-activated" /\ Then("discard-repository")
      /\ UNCHANGED <<batch, recovery, previous, expired, claims, receipt, staging, files,
                     detached, import, pending, reserved, upload, hostVars, faults>>
  BY DEF Activate, At, Bind, OtherDisk
<1>3. /\ bound \in [Principal -> Other \cup {Host, Nobody}]
      /\ \A p \in Principal : bound[p] = Nobody
  BY <1>1, <1>2 DEF StoreType, StateInv, BoundInv, Served
<1>4. /\ bound' \in [Principal -> Other \cup {Host, Nobody}]
      /\ bound'[HostPrincipal] = Host
      /\ \A p \in Principal : p # HostPrincipal => bound'[p] = Nobody
  BY <1>2, <1>3, LanTransferAssumption
<1>5. StoreType'
  BY <1>1, <1>2, <1>4 DEF StoreType, Phase, Handed, hostVars
<1>6. StateInv'
  <2>1. JournalInv' /\ StageInv' /\ RepositoryInv'
    BY <1>1, <1>2 DEF StateInv, JournalInv, StageInv, RepositoryInv, Unstaged,
           Waiting, Staged, Handed, Backward, Cleaned
  <2>2. ClaimsInv' /\ SourceInv' /\ CleanInv'
    BY <1>1, <1>2 DEF StateInv, ClaimsInv, SourceInv, CleanInv, Staged, Handed, Cleaned, hostVars
  <2>3. BoundInv'
    BY <1>2, <1>4, LanTransferAssumption DEF BoundInv, Served
  <2> QED
    BY <2>1, <2>2, <2>3 DEF StateInv
<1>7. op' \in OpRecord /\ op'.step = "discard-repository" /\ op'.call = op.call
      /\ op'.revision = op.revision
  BY <1>1, <1>2, ThenOp DEF StepName
<1>8. OpInv'
  BY <1>2, <1>7 DEF OpInv
<1>9. CommitInv'
  BY <1>1, <1>2, <1>7 DEF CommitInv, Handed, hostVars
<1> QED
  BY <1>5, <1>6, <1>7, <1>8, <1>9, TypesAfter DEF IInv

LEMMA CompletionStep ==
  ASSUME IInv, Complete
  PROVE  IInv'
<1>1. StoreType /\ StateInv
  BY Types DEF IInv
<1>2. /\ phase = "cloud-activated" /\ phase' = "completed" /\ End
      /\ UNCHANGED <<batch, recovery, previous, expired, projectVars, diskVars, pending, reserved,
                     upload, hostVars, faults>>
  BY DEF Complete, AdvanceOnly
<1>3. StoreType'
  BY <1>1, <1>2 DEF StoreType, Phase, Handed, projectVars, diskVars, hostVars
<1>4. JournalInv' /\ StageInv' /\ RepositoryInv'
  BY <1>1, <1>2 DEF StateInv, JournalInv, StageInv, RepositoryInv, Unstaged, Waiting, Staged,
         Handed, Backward, Cleaned, projectVars, diskVars
<1>5. ClaimsInv' /\ BoundInv' /\ SourceInv' /\ CleanInv'
  BY <1>1, <1>2 DEF StateInv, ClaimsInv, BoundInv, SourceInv, CleanInv, Staged, Served, Handed,
         Cleaned, projectVars, hostVars
<1> QED
  BY <1>2, <1>3, <1>4, <1>5, Ended DEF StateInv

-----------------------------------------------------------------------------
(* Discarding the attempt. *)

LEMMA DiscardStepsKeep ==
  ASSUME IInv, DiscardSteps
  PROVE  IInv'
<1>1. StoreType /\ op \in OpRecord /\ StateInv /\ OpInv /\ CommitInv
  BY Types DEF IInv
<1>2. CASE DiscardRepository
  <2>1. /\ op.step = "discard-repository" /\ Then("discard-files") /\ import' = "absent"
        /\ detached' = FALSE
        /\ repository' = IF repository = "canonical" THEN "canonical" ELSE "none"
        /\ upload' = [u \in Upload |-> IF upload[u].step = "receive" THEN NoUpload ELSE upload[u]]
        /\ UNCHANGED <<journalVars, expired, projectVars, staging, files, pending, reserved,
                       hostVars, faults>>
    BY <1>2 DEF DiscardRepository, Removed, At
  <2>2. /\ phase \in {"cloud-activated", "target-invalidated"}
        /\ phase = "target-invalidated" => repository # "canonical"
    BY <1>1, <2>1 DEF OpInv
  <2>3. upload' \in [Upload -> [step : {"idle", "prepare", "open", "receive", "confirm",
                                        "complete"}, artifact : Artifact]]
    <3>1. NoUpload \in [step : {"idle", "prepare", "open", "receive", "confirm", "complete"},
                        artifact : Artifact]
      BY LanTransferAssumption DEF NoUpload
    <3> QED
      BY <1>1, <2>1, <3>1 DEF StoreType
  <2>4. StoreType'
    <3> HIDE <2>1
    <3>1. /\ import' = "absent" /\ repository' \in {"none", "canonical"} /\ detached' \in BOOLEAN
          /\ UNCHANGED <<journalVars, expired, projectVars, staging, files, pending, reserved,
                         hostVars, faults>>
      BY <2>1
    <3> QED
      BY <1>1, <2>3, <3>1 DEF StoreType, journalVars, projectVars, hostVars
  <2>5. StateInv'
    BY <1>1, <2>1, <2>2 DEF StateInv, JournalInv, StageInv, ClaimsInv, RepositoryInv, BoundInv,
           SourceInv, CleanInv, Cleaned, Handed, journalVars, projectVars, hostVars
  <2>6. op' \in OpRecord /\ op'.step = "discard-files" /\ op'.call = op.call
        /\ op'.revision = op.revision
    BY <1>1, <2>1, ThenOp DEF StepName
  <2>7. OpInv'
    BY <2>1, <2>2, <2>6 DEF OpInv, journalVars
  <2>8. CommitInv'
    BY <1>1, <2>1, <2>6 DEF CommitInv, journalVars, projectVars, hostVars
  <2> QED
    BY <2>4, <2>5, <2>6, <2>7, <2>8, TypesAfter DEF IInv
<1>3. ASSUME NEW a \in Artifact, DiscardArtifact(a) PROVE IInv'
  <2>1. /\ op.step = "discard-files" /\ files' = files \ {a} /\ UNCHANGED op
        /\ UNCHANGED <<journalVars, expired, projectVars, staging, import, repository, detached,
                       pending, reserved, upload, hostVars, faults>>
    BY <1>3 DEF DiscardArtifact, At
  <2>2. phase \in {"cloud-activated", "target-invalidated"}
    BY <1>1, <2>1 DEF OpInv
  <2>3. StoreType' /\ op' \in OpRecord
    BY <1>1, <2>1 DEF StoreType, journalVars, projectVars, hostVars
  <2>4. StateInv'
    BY <1>1, <2>1, <2>2 DEF StateInv, JournalInv, StageInv, ClaimsInv, RepositoryInv, BoundInv,
           SourceInv, CleanInv, Waiting, Staged, journalVars, projectVars, hostVars
  <2>5. OpInv'
    BY <1>1, <2>1, <2>2 DEF OpInv, journalVars
  <2>6. CommitInv'
    BY <1>1, <2>1 DEF CommitInv, journalVars, projectVars, hostVars
  <2> QED
    BY <2>3, <2>4, <2>5, <2>6, TypesAfter DEF IInv
<1>4. CASE RemoveAttempt
  <2>1. /\ op.step = "discard-files" /\ staging' = "absent" /\ reserved' = FALSE
        /\ Then(IF phase = "cloud-activated" THEN "complete" ELSE "unstage")
        /\ UNCHANGED <<journalVars, expired, projectVars, files, import, repository, detached,
                       pending, upload, hostVars, faults>>
    BY <1>4 DEF RemoveAttempt, At
  <2>2. phase \in {"cloud-activated", "target-invalidated"}
    BY <1>1, <2>1 DEF OpInv
  <2>3. PICK s \in {"complete", "unstage"} :
          Then(s) /\ s = IF phase = "cloud-activated" THEN "complete" ELSE "unstage"
    BY <2>1
  <2>4. StoreType'
    <3>1. /\ staging' = "absent" /\ reserved' \in BOOLEAN
          /\ UNCHANGED <<journalVars, expired, projectVars, files, import, repository, detached,
                         pending, upload, hostVars, faults>>
      BY <2>1
    <3> QED
      BY <1>1, <3>1 DEF StoreType, journalVars, projectVars, hostVars
  <2>5. StateInv'
    BY <1>1, <2>1, <2>2 DEF StateInv, JournalInv, StageInv, ClaimsInv, RepositoryInv, BoundInv,
           SourceInv, CleanInv, Waiting, Staged, journalVars, projectVars, hostVars
  <2>6. op' \in OpRecord /\ op'.step = s /\ op'.call = op.call /\ op'.revision = op.revision
    BY <1>1, <2>3, ThenOp DEF StepName
  <2>7. OpInv'
    BY <1>1, <2>1, <2>2, <2>3, <2>6 DEF OpInv, journalVars
  <2>8. CommitInv'
    <3>1. op.call = "commit" => phase = "cloud-activated"
      BY <1>1, <2>2 DEF CommitInv, Handed
    <3> QED
      BY <1>1, <2>1, <2>3, <2>6, <3>1 DEF CommitInv, journalVars, projectVars, hostVars
  <2> QED
    BY <2>4, <2>5, <2>6, <2>7, <2>8, TypesAfter DEF IInv
<1> QED
  BY <1>2, <1>3, <1>4 DEF DiscardSteps

-----------------------------------------------------------------------------
(* cancel. *)

\* The journal walks back: nothing is served, no custody is in the way.
LEMMA BackwardPhase ==
  ASSUME StateInv, phase \in {"cancel-intent", "target-invalidated", "target-cleaned",
                              "source-reopened"},
         phase' \in {"target-invalidated", "target-cleaned", "source-reopened", "cancelled"},
         recovery'.plan = recovery.plan, recovery'.proof = recovery.proof,
         recovery'.cancel = recovery.cancel,
         phase' \in Cleaned => phase \in Cleaned \/ CleanInv',
         phase \in Cleaned => phase' \in Cleaned,
         UNCHANGED <<batch, projectVars, diskVars, pending, hostVars>>
  PROVE  StateInv'
<1>1. JournalInv' /\ StageInv' /\ RepositoryInv'
  BY DEF StateInv, JournalInv, StageInv, RepositoryInv, Unstaged, Waiting, Staged, Handed, Backward,
         Cleaned, projectVars, diskVars
<1>2. ClaimsInv' /\ BoundInv' /\ SourceInv'
  BY DEF StateInv, ClaimsInv, BoundInv, SourceInv, Staged, Served, Handed, Cleaned, projectVars,
         hostVars
<1>3. CleanInv'
  BY DEF StateInv, CleanInv, projectVars, diskVars
<1> QED
  BY <1>1, <1>2, <1>3 DEF StateInv

LEMMA StartCancellationStep ==
  ASSUME IInv, StartCancellation
  PROVE  IInv'
<1>1. StoreType /\ op \in OpRecord /\ StateInv /\ OpInv /\ CommitInv
  BY Types DEF IInv
<1>2. /\ op.step = "intent" /\ Admits /\ Then("invalidate")
      /\ recovery' = [recovery EXCEPT !["cancel"] = op.saw] /\ phase' = "cancel-intent"
      /\ UNCHANGED <<batch, previous, expired, projectVars, diskVars, pending, reserved, upload,
                     hostVars, faults>>
  BY DEF StartCancellation, At, Evidence
<1>3. phase \in Forward \cup Handed /\ op.saw \in {"expired", phase}
  BY <1>1, <1>2 DEF OpInv
<1>4. phase \in Forward
  BY <1>2, <1>3, AdmitsFacts DEF Cancellable, Handed
<1>5. op.saw \in {"expired"} \cup Forward /\ op.saw # "none"
  BY <1>3, <1>4 DEF Forward, Uploading
<1>6. /\ recovery' \in [stage : BOOLEAN, plan : BOOLEAN, proof : {0} \cup Batch,
                        cancel : {"none", "expired"} \cup Forward, reopen : BOOLEAN]
      /\ recovery'.plan = recovery.plan /\ recovery'.proof = recovery.proof
      /\ recovery'.cancel # "none"
  <2>1. recovery \in [stage : BOOLEAN, plan : BOOLEAN, proof : {0} \cup Batch,
                      cancel : {"none", "expired"} \cup Forward, reopen : BOOLEAN]
    BY <1>1 DEF StoreType
  <2> QED
    BY <1>2, <1>5, <2>1
<1>7. StoreType'
  BY <1>1, <1>2, <1>6 DEF StoreType, Phase, Backward, projectVars, diskVars, hostVars
<1>8. StateInv'
  <2>1. JournalInv' /\ StageInv' /\ RepositoryInv'
    BY <1>1, <1>2, <1>4, <1>6 DEF StateInv, JournalInv, StageInv, RepositoryInv, Unstaged, Waiting,
           Staged, Handed, Forward, Uploading, projectVars, diskVars
  <2>2. ClaimsInv' /\ BoundInv' /\ SourceInv' /\ CleanInv'
    BY <1>1, <1>2, <1>4 DEF StateInv, ClaimsInv, BoundInv, SourceInv, CleanInv, Staged, Served,
           Handed, Cleaned, Forward, Uploading, projectVars, hostVars
  <2> QED
    BY <2>1, <2>2 DEF StateInv
<1>9. op' \in OpRecord /\ op'.step = "invalidate" /\ op'.call = op.call
  BY <1>1, <1>2, ThenOp DEF StepName
<1>10. OpInv'
  BY <1>2, <1>9 DEF OpInv
<1>11. CommitInv'
  BY <1>1, <1>2, <1>9 DEF CommitInv
<1> QED
  BY <1>7, <1>8, <1>9, <1>10, <1>11, TypesAfter DEF IInv

LEMMA InvalidateStep ==
  ASSUME IInv, Invalidate
  PROVE  IInv'
<1>1. StoreType /\ op \in OpRecord /\ StateInv /\ OpInv /\ CommitInv
  BY Types DEF IInv
<1>2. /\ op.step = "invalidate" /\ phase = "cancel-intent" /\ phase' = "target-invalidated"
      /\ UNCHANGED <<batch, recovery, previous, expired, projectVars, diskVars, pending, reserved,
                     upload, hostVars, faults>>
  BY DEF Invalidate, At, AdvanceOnly
<1>3. PICK s \in {"remove", "discard-repository"} :
        Then(s) /\ s = IF recovery.plan THEN "remove" ELSE "discard-repository"
  BY DEF Invalidate
<1>4. StoreType'
  BY <1>1, <1>2 DEF StoreType, Phase, Backward, projectVars, diskVars, hostVars
<1>5. StateInv'
  BY <1>1, <1>2, BackwardPhase DEF Cleaned
<1>6. op' \in OpRecord /\ op'.step = s /\ op'.call = op.call
  BY <1>1, <1>3, ThenOp DEF StepName
<1>7. ~recovery.plan => repository # "canonical"
  BY <1>1 DEF StateInv, RepositoryInv
<1>8. OpInv'
  BY <1>2, <1>3, <1>6, <1>7 DEF OpInv, diskVars
<1>9. CommitInv'
  BY <1>1, <1>2, <1>6 DEF CommitInv
<1> QED
  BY <1>4, <1>5, <1>6, <1>8, <1>9, TypesAfter DEF IInv

LEMMA RemoveOwnedRepositoryStep ==
  ASSUME IInv, RemoveOwnedRepository
  PROVE  IInv'
<1>1. StoreType /\ op \in OpRecord /\ StateInv /\ OpInv /\ CommitInv
  BY Types DEF IInv
<1>2. /\ op.step = "remove" /\ repository' = "none" /\ Then("discard-repository")
      /\ UNCHANGED <<journalVars, expired, projectVars, staging, files, detached, import, pending,
                     reserved, upload, hostVars, faults>>
  BY DEF RemoveOwnedRepository, At, OtherDisk
<1>3. phase = "target-invalidated"
  BY <1>1, <1>2 DEF OpInv
<1>4. StoreType'
  BY <1>1, <1>2 DEF StoreType, journalVars, projectVars, hostVars
<1>5. StateInv'
  BY <1>1, <1>2, <1>3 DEF StateInv, JournalInv, StageInv, ClaimsInv, RepositoryInv, BoundInv,
         SourceInv, CleanInv, Cleaned, Handed, journalVars, projectVars, hostVars
<1>6. op' \in OpRecord /\ op'.step = "discard-repository" /\ op'.call = op.call
  BY <1>1, <1>2, ThenOp DEF StepName
<1>7. OpInv'
  BY <1>2, <1>3, <1>6 DEF OpInv, journalVars
<1>8. CommitInv'
  BY <1>1, <1>2, <1>6 DEF CommitInv
<1> QED
  BY <1>4, <1>5, <1>6, <1>7, <1>8, TypesAfter DEF IInv

LEMMA DiscardStageStep ==
  ASSUME IInv, DiscardStage
  PROVE  IInv'
<1>1. StoreType /\ op \in OpRecord /\ StateInv /\ OpInv /\ CommitInv
  BY Types DEF IInv
<1>2. /\ op.step = "unstage" /\ phase = "target-invalidated"
      /\ project' = "absent" /\ pending' = NoPending /\ Then("clean") /\ claims' = NoClaims
      /\ UNCHANGED <<journalVars, expired, placement, receipt, bound, diskVars, reserved, upload,
                     hostVars, faults>>
  BY DEF DiscardStage, At
<1>3. import = "absent" /\ repository = "none"
  BY <1>1, <1>2 DEF OpInv
<1>4. /\ claims' \in [Batch -> [Other -> {"none", "unclaimed", "revoked", "redeemed"}]]
      /\ \A r \in Batch, m \in Other : claims'[r][m] = "none"
  BY <1>2 DEF NoClaims
<1>5. StoreType'
  BY <1>1, <1>2, <1>4 DEF StoreType, NoPending, journalVars, diskVars, hostVars
<1>6. \A p \in Principal : bound[p] = Nobody
  BY <1>1, <1>2 DEF StateInv, BoundInv, Served
<1>7. StateInv'
  <2>1. JournalInv' /\ StageInv' /\ RepositoryInv' /\ SourceInv' /\ CleanInv'
    BY <1>1, <1>2 DEF StateInv, JournalInv, StageInv, RepositoryInv, SourceInv, CleanInv, Waiting,
           Staged, Cleaned, journalVars, diskVars, hostVars
  <2>2. ClaimsInv'
    BY <1>1, <1>2, <1>4 DEF StateInv, ClaimsInv, Staged, Handed, journalVars, hostVars
  <2>3. BoundInv'
    BY <1>1, <1>2, <1>6, LanTransferAssumption DEF StateInv, BoundInv, Served, journalVars
  <2> QED
    BY <2>1, <2>2, <2>3 DEF StateInv
<1>8. op' \in OpRecord /\ op'.step = "clean" /\ op'.call = op.call
  BY <1>1, <1>2, ThenOp DEF StepName
<1>9. OpInv'
  BY <1>2, <1>3, <1>8 DEF OpInv, journalVars, diskVars
<1>10. CommitInv'
  BY <1>1, <1>2, <1>8 DEF CommitInv
<1> QED
  BY <1>5, <1>7, <1>8, <1>9, <1>10, TypesAfter DEF IInv

LEMMA CleanStep ==
  ASSUME IInv, Clean
  PROVE  IInv'
<1>1. StoreType /\ StateInv /\ OpInv
  BY Types DEF IInv
<1>2. /\ op.step = "clean" /\ phase = "target-invalidated" /\ phase' = "target-cleaned" /\ End
      /\ UNCHANGED <<batch, recovery, previous, expired, projectVars, diskVars, pending, reserved,
                     upload, hostVars, faults>>
  BY DEF Clean, At, AdvanceOnly
<1>3. StoreType'
  BY <1>1, <1>2 DEF StoreType, Phase, Backward, Cleaned, projectVars, diskVars, hostVars
<1>4. CleanInv'
  BY <1>1, <1>2 DEF OpInv, CleanInv, projectVars, diskVars
<1>5. StateInv'
  BY <1>1, <1>2, <1>4, BackwardPhase DEF Cleaned
<1> QED
  BY <1>2, <1>3, <1>5, Ended

LEMMA ReopenSourceStep ==
  ASSUME IInv, ReopenSource
  PROVE  IInv'
<1>1. StoreType /\ op \in OpRecord /\ StateInv /\ OpInv /\ CommitInv
  BY Types DEF IInv
<1>2. /\ op.step = "reopen" /\ Then("finish")
      /\ recovery' = [recovery EXCEPT !["reopen"] = TRUE] /\ phase' = "source-reopened"
      /\ UNCHANGED <<batch, previous, expired, projectVars, diskVars, pending, reserved, upload,
                     hostVars, faults>>
  BY DEF ReopenSource, At, Evidence
<1>3. phase = "target-cleaned"
  BY <1>1, <1>2 DEF OpInv
<1>4. /\ recovery' \in [stage : BOOLEAN, plan : BOOLEAN, proof : {0} \cup Batch,
                        cancel : {"none", "expired"} \cup Forward, reopen : BOOLEAN]
      /\ recovery'.plan = recovery.plan /\ recovery'.proof = recovery.proof
      /\ recovery'.cancel = recovery.cancel
  <2>1. recovery \in [stage : BOOLEAN, plan : BOOLEAN, proof : {0} \cup Batch,
                      cancel : {"none", "expired"} \cup Forward, reopen : BOOLEAN]
    BY <1>1 DEF StoreType
  <2> QED
    BY <1>2, <2>1
<1>5. StoreType'
  BY <1>1, <1>2, <1>4 DEF StoreType, Phase, Backward, Cleaned, projectVars, diskVars, hostVars
<1>6. StateInv'
  BY <1>1, <1>2, <1>3, <1>4, BackwardPhase DEF Cleaned
<1>7. op' \in OpRecord /\ op'.step = "finish" /\ op'.call = op.call
  BY <1>1, <1>2, ThenOp DEF StepName
<1>8. OpInv'
  BY <1>2, <1>7 DEF OpInv
<1>9. CommitInv'
  BY <1>1, <1>2, <1>7 DEF CommitInv
<1> QED
  BY <1>5, <1>6, <1>7, <1>8, <1>9, TypesAfter DEF IInv

LEMMA FinishCancellationStep ==
  ASSUME IInv, FinishCancellation
  PROVE  IInv'
<1>1. StoreType /\ StateInv
  BY Types DEF IInv
<1>2. /\ phase = "source-reopened" /\ phase' = "cancelled" /\ End
      /\ UNCHANGED <<batch, recovery, previous, expired, projectVars, diskVars, pending, reserved,
                     upload, hostVars, faults>>
  BY DEF FinishCancellation, AdvanceOnly
<1>3. StoreType'
  BY <1>1, <1>2 DEF StoreType, Phase, Backward, Cleaned, projectVars, diskVars, hostVars
<1>4. StateInv'
  BY <1>1, <1>2, BackwardPhase DEF Cleaned
<1> QED
  BY <1>2, <1>3, <1>4, Ended

-----------------------------------------------------------------------------
(* A Member redeems a claim. *)

LEMMA ClaimMembershipStep ==
  ASSUME IInv, NEW p \in Principal, NEW r \in Batch, NEW m \in Other, ClaimMembership(p, r, m)
  PROVE  IInv'
<1>1. StoreType /\ op \in OpRecord /\ StateInv /\ OpInv /\ CommitInv
  BY Types DEF IInv
<1>2. /\ op = Idle /\ phase = "completed" /\ project = "active"
      /\ claims[r][m] = "unclaimed" /\ bound[p] \in {Nobody, m}
      /\ claims' = [claims EXCEPT ![r] = [claims[r] EXCEPT ![m] = "redeemed"]]
      /\ bound' = [bound EXCEPT ![p] = m]
      /\ UNCHANGED <<journalVars, expired, project, placement, receipt, diskVars, pending,
                     reserved, op, upload, hostVars, faults>>
  BY DEF ClaimMembership, BindingAdmits, Redeemed, Bind
<1>3. r = batch
  BY <1>1, <1>2 DEF StateInv, ClaimsInv
<1>4. /\ claims \in [Batch -> [Other -> {"none", "unclaimed", "revoked", "redeemed"}]]
      /\ bound \in [Principal -> Other \cup {Host, Nobody}]
  BY <1>1 DEF StoreType
<1>5. /\ claims' \in [Batch -> [Other -> {"none", "unclaimed", "revoked", "redeemed"}]]
      /\ claims'[batch][m] = "redeemed"
      /\ \A n \in Other : n # m => claims'[batch][n] = claims[batch][n]
      /\ \A s \in Batch : s # batch => claims'[s] = claims[s]
  BY <1>2, <1>3, <1>4
<1>6. /\ bound' \in [Principal -> Other \cup {Host, Nobody}]
      /\ bound'[p] = m /\ \A q \in Principal : q # p => bound'[q] = bound[q]
  BY <1>2, <1>4
<1>7. StoreType'
  BY <1>1, <1>2, <1>5, <1>6 DEF StoreType, journalVars, diskVars, hostVars
<1>8. JournalInv' /\ StageInv' /\ RepositoryInv' /\ SourceInv' /\ CleanInv'
  BY <1>1, <1>2 DEF StateInv, JournalInv, StageInv, RepositoryInv, SourceInv, CleanInv, Cleaned,
         journalVars, diskVars, hostVars
<1>9. ClaimsInv'
  BY <1>1, <1>2, <1>5 DEF StateInv, ClaimsInv, journalVars, hostVars
<1>10. BoundInv'
  <2>1. \A q \in Principal : bound[q] # m
    BY <1>1, <1>2, <1>3 DEF StateInv, BoundInv
  <2>2. p # HostPrincipal
    BY <1>1, <1>2, LanTransferAssumption DEF StateInv, BoundInv, Served
  <2>3. m # Host /\ m # Nobody
    BY LanTransferAssumption
  <2>4. /\ bound[HostPrincipal] = Host /\ HostPrincipal \in Principal
        /\ project = "active" /\ placement
    BY <1>1, <1>2, LanTransferAssumption DEF StateInv, BoundInv, Served
  <2>5. /\ \A q \in Principal : bound'[q] = Host => q = HostPrincipal
        /\ \A q \in Principal : bound'[q] \in Other => claims'[batch][bound'[q]] = "redeemed"
        /\ \A q, s \in Principal : bound'[q] # Nobody /\ bound'[q] = bound'[s] => q = s
    BY <1>1, <1>5, <1>6, <2>1, <2>3 DEF StateInv, BoundInv
  <2> QED
    BY <1>2, <1>6, <2>2, <2>4, <2>5 DEF BoundInv, Served, journalVars
<1>11. OpInv' /\ CommitInv'
  BY <1>2, IdleOp, IdleInv
<1> QED
  BY <1>1, <1>2, <1>7, <1>8, <1>9, <1>10, <1>11, TypesAfter DEF IInv, StateInv

-----------------------------------------------------------------------------
(* Failures. *)

LEMMA FailureSteps ==
  ASSUME IInv, Refused \/ Fail \/ CutRemoval \/ Crash \/ Expire \/ UNCHANGED vars
  PROVE  IInv'
<1>1. StoreType /\ op \in OpRecord /\ StateInv /\ OpInv /\ CommitInv
  BY Types DEF IInv
<1>2. CASE Refused \/ Fail
  <2>1. /\ End /\ faults' \in {faults, faults + 1} /\ (faults' = faults \/ faults < MaxFaults)
        /\ UNCHANGED <<journalVars, expired, projectVars, diskVars, pending, reserved, upload,
                       hostVars>>
    BY <1>2 DEF Refused, Fail
  <2>2. faults' \in 0..MaxFaults
    BY <1>1, <2>1, LanTransferAssumption DEF StoreType
  <2>3. StoreType'
    BY <1>1, <2>1, <2>2 DEF StoreType, journalVars, projectVars, diskVars, hostVars
  <2>4. StateInv'
    BY <1>1, <2>1, StateKept DEF MoreFiles, StoreType, journalVars, diskVars
  <2> QED
    BY <2>1, <2>3, <2>4, Ended
<1>3. CASE Crash
  <2>1. /\ End /\ faults' = faults + 1 /\ faults < MaxFaults
        /\ pending' = NoPending /\ reserved' = FALSE /\ upload' = [u \in Upload |-> NoUpload]
        /\ staging' = staging \/ (staging = "absent" /\ staging' = "torn")
        /\ UNCHANGED <<journalVars, expired, projectVars, files, import, repository, detached,
                       hostVars>>
    BY <1>3 DEF Crash, Marking
  <2>2. faults' \in 0..MaxFaults
    BY <1>1, <2>1, LanTransferAssumption DEF StoreType
  <2>3. upload' \in [Upload -> [step : {"idle", "prepare", "open", "receive", "confirm",
                                        "complete"}, artifact : Artifact]]
    BY <2>1, LanTransferAssumption DEF NoUpload
  <2>4. StoreType'
    <3>1. /\ pending' = NoPending /\ reserved' \in BOOLEAN
          /\ staging' \in {staging, "torn"}
          /\ UNCHANGED <<journalVars, expired, projectVars, files, import, repository, detached,
                         hostVars>>
      BY <2>1
    <3> QED
      BY <1>1, <2>2, <2>3, <3>1
      DEF StoreType, NoPending, journalVars, projectVars, hostVars
  <2>5. StateInv'
    BY <1>1, <2>1 DEF StateInv, JournalInv, StageInv, ClaimsInv, RepositoryInv, BoundInv, SourceInv,
           CleanInv, journalVars, projectVars, hostVars
  <2> QED
    BY <2>1, <2>4, <2>5, Ended
<1>5. CASE CutRemoval
  <2>1. /\ op.step = "discard-repository" /\ End /\ faults' = faults + 1 /\ faults < MaxFaults
        /\ import' = "absent" /\ detached' = TRUE
        /\ repository' = IF repository = "canonical" THEN "canonical" ELSE "none"
        /\ UNCHANGED <<journalVars, expired, projectVars, staging, files, pending, reserved,
                       upload, hostVars>>
    BY <1>5 DEF CutRemoval, Removed, At
  <2>2. phase \in {"cloud-activated", "target-invalidated"}
    BY <1>1, <2>1 DEF OpInv
  <2>3. faults' \in 0..MaxFaults /\ repository' \in {"none", "canonical"}
    BY <1>1, <2>1, LanTransferAssumption DEF StoreType
  <2>4. StoreType'
    <3>1. /\ import' = "absent" /\ detached' = TRUE
          /\ UNCHANGED <<journalVars, expired, projectVars, staging, files, pending, reserved,
                         upload, hostVars>>
      BY <2>1
    <3> QED
      BY <1>1, <2>3, <3>1 DEF StoreType, journalVars, projectVars, hostVars
  <2>5. StateInv'
    BY <1>1, <2>1, <2>2 DEF StateInv, JournalInv, StageInv, ClaimsInv, RepositoryInv, BoundInv,
           SourceInv, CleanInv, Cleaned, Handed, journalVars, projectVars, hostVars
  <2> QED
    BY <2>1, <2>4, <2>5, Ended
<1>4. CASE Expire \/ UNCHANGED vars
  <2>1. /\ expired' \in BOOLEAN
        /\ UNCHANGED <<journalVars, projectVars, diskVars, pending, reserved, op, upload, hostVars,
                       faults>>
    BY <1>1, <1>4 DEF Expire, vars, StoreType
  <2>2. StoreType'
    BY <1>1, <2>1 DEF StoreType, journalVars, projectVars, diskVars, hostVars
  <2>3. MoreFiles
    BY <1>1, <2>1 DEF MoreFiles, StoreType, diskVars
  <2> QED
    BY <2>1, <2>2, <2>3, UploadKept DEF journalVars, diskVars
<1> QED
  BY <1>2, <1>3, <1>4, <1>5

-----------------------------------------------------------------------------
(* The invariant and what it says. *)

LEMMA InitInv == Init => IInv
<1> SUFFICES ASSUME Init PROVE IInv
  OBVIOUS
<1>1. NoClaims \in [Batch -> [Other -> {"none", "unclaimed", "revoked", "redeemed"}]]
  BY DEF NoClaims
<1>2. \A r \in Batch, m \in Other : NoClaims[r][m] = "none"
  BY DEF NoClaims
<1>3. /\ bound \in [Principal -> Other \cup {Host, Nobody}]
      /\ \A p \in Principal : bound[p] = Nobody
  BY DEF Init
<1>4. upload \in [Upload -> [step : {"idle", "prepare", "open", "receive", "confirm", "complete"},
                             artifact : Artifact]]
  BY LanTransferAssumption DEF Init, NoUpload
<1>5. faults \in 0..MaxFaults
  BY LanTransferAssumption DEF Init
<1>6. recovery \in [stage : BOOLEAN, plan : BOOLEAN, proof : {0} \cup Batch,
                    cancel : {"none", "expired"} \cup Forward, reopen : BOOLEAN]
  BY DEF Init, NoRecovery
<1>7. /\ phase \in Phase /\ batch \in {0} \cup Batch
      /\ expired \in BOOLEAN /\ previous \in {"clear", "deleting", "retired"}
      /\ project \in {"absent", "maintenance", "active"} /\ placement \in BOOLEAN
      /\ receipt \in {0} \cup Batch
      /\ staging \in {"absent", "prepared", "torn"} /\ files \subseteq Artifact
      /\ import \in {"absent", "unowned", "owned", "bundled", "built", "validated"}
      /\ repository \in {"none", "import", "canonical"} /\ detached \in BOOLEAN
  BY DEF Init, Phase
<1>8. /\ pending \in [revision : {0} \cup Batch, exposed : BOOLEAN] /\ reserved \in BOOLEAN
      /\ source \in {"quiesced", "relinquished", "reopened"} /\ delivered \subseteq Batch
  BY DEF Init, NoPending
<1>9. op \in OpRecord /\ op.step = "idle" /\ op.call = "none"
  BY IdleOp DEF Init
<1>10. TypeOK
  BY <1>1, <1>3, <1>4, <1>5, <1>6, <1>7, <1>8, <1>9, Types DEF StoreType, Init
<1>11. StateInv
  <2>1. JournalInv /\ StageInv /\ RepositoryInv /\ SourceInv /\ CleanInv
    BY DEF Init, NoRecovery, JournalInv, StageInv, RepositoryInv, SourceInv, CleanInv, Waiting,
           Staged, Handed, Backward, Cleaned
  <2>2. ClaimsInv
    BY <1>2 DEF Init, ClaimsInv, Staged, Handed
  <2>3. BoundInv
    BY <1>3, LanTransferAssumption DEF Init, BoundInv, Served
  <2> QED
    BY <2>1, <2>2, <2>3 DEF StateInv
<1>12. OpInv /\ CommitInv
  BY <1>9 DEF OpInv, CommitInv
<1> QED
  BY <1>10, <1>11, <1>12 DEF IInv

LEMMA StepInv ==
  ASSUME IInv, Step
  PROVE  IInv'
<1>1. CASE BeginSteps
  BY <1>1, BeginStepsKeep
<1>2. CASE CompleteSteps
  BY <1>2, CompleteStepsKeep
<1>3. CASE ClaimSteps
  BY <1>3, ExposeBatchStep, RotateBatchStep, CommitCustodyStep DEF ClaimSteps
<1>4. CASE ForwardSteps
  BY <1>4, PublicationSteps, FenceStep, ActivateStep, CompletionStep DEF ForwardSteps
<1>5. CASE DiscardSteps
  BY <1>5, DiscardStepsKeep
<1>6. CASE CancelSteps
  BY <1>6, StartCancellationStep, InvalidateStep, RemoveOwnedRepositoryStep, DiscardStageStep,
     CleanStep, ReopenSourceStep, FinishCancellationStep DEF CancelSteps
<1>7. CASE Refused
  BY <1>7, FailureSteps
<1> QED
  BY <1>1, <1>2, <1>3, <1>4, <1>5, <1>6, <1>7 DEF Step

LEMMA NextInv == IInv /\ [Next]_vars => IInv'
<1> SUFFICES ASSUME IInv, [Next]_vars PROVE IInv'
  OBVIOUS
<1>1. CASE Step
  BY <1>1, StepInv
<1>2. CASE HostCall \/ CallRecover
  BY <1>2, HostCalls, CallCommitStep, HostReopensStep DEF HostCall
<1>3. ASSUME NEW u \in Upload,
             \/ UploadStep(u) \/ UploadConfirm(u) \/ CallComplete(u)
             \/ \E a \in Artifact : UploadCheck(u, a)
      PROVE  IInv'
  BY <1>3, UploadActions, CallCompleteStep
<1>4. ASSUME NEW p \in Principal, NEW r \in Batch, NEW m \in Other, ClaimMembership(p, r, m)
      PROVE  IInv'
  BY <1>4, ClaimMembershipStep
<1>5. CASE InvalidCheckpoint
  BY <1>5, InvalidCheckpointStep
<1>6. CASE CutRemoval \/ Fail \/ Crash \/ Expire \/ UNCHANGED vars
  BY <1>6, FailureSteps
<1> QED
  BY <1>1, <1>2, <1>3, <1>4, <1>5, <1>6 DEF Next

\* The state of a transfer is never one that its journal, its evidence and the call that holds
\* the lease do not account for, whatever calls, uploads, failures and crashes came before.
THEOREM InvariantHolds == Spec => []IInv
BY InitInv, NextInv, PTL DEF Spec

\* A Project is served here only from the phase its activation wrote, after the host has signed
\* its authority away, and never once the host has opened its own copy again; and nobody enters
\* as another Member, whoever redeems claims and however late.
THEOREM OneAuthority == Spec => []SingleAuthority
<1>1. IInv => SingleAuthority
  <2> SUFFICES ASSUME IInv PROVE SingleAuthority
    OBVIOUS
  <2>1. project = "active" =>
          /\ phase \in {"cloud-activated", "completed"} /\ source = "relinquished"
          /\ placement /\ repository = "canonical" /\ bound[HostPrincipal] = Host
    BY DEF IInv, StateInv, BoundInv, SourceInv, RepositoryInv, Served, Handed
  <2>2. source = "reopened" => phase \in Cleaned /\ project = "absent" /\ ~placement
    BY DEF IInv, StateInv, BoundInv, SourceInv, CleanInv, Served, Cleaned
  <2> QED
    BY <2>1, <2>2 DEF IInv, StateInv, BoundInv, SingleAuthority
<1> QED
  BY <1>1, InvariantHolds, PTL

\* commitRelinquishment keeps the host's proof only for the batch whose custody the host holds,
\* over a staged Project, its files and the published repository: nothing the activation checks
\* again can be missing once the host has given its authority up.
THEOREM NothingMissingPastTheFence == Spec => []FenceIsSafe
<1>1. IInv => FenceIsSafe
  <2> SUFFICES ASSUME IInv PROVE FenceIsSafe
    OBVIOUS
  <2>1. OneRedeemableBatch
    BY DEF IInv, StateInv, ClaimsInv, JournalInv, OneRedeemableBatch
  <2>2. ASSUME phase = "source-relinquished"
        PROVE  /\ DurableRelinquishment /\ CustodyExact /\ Promotable
               /\ recovery.plan /\ repository = "canonical"
               /\ staging = "prepared" /\ files = Artifact
    <3>1. batch \in Batch /\ batch # 0
      BY <2>2, LanTransferAssumption DEF IInv, StateInv, ClaimsInv, Handed, Batch
    <3>2. DurableRelinquishment
      BY <2>2, <3>1 DEF IInv, StateInv, JournalInv, Handed, DurableRelinquishment
    <3>3. CustodyExact
      BY <2>2, <3>1 DEF IInv, StateInv, JournalInv, ClaimsInv, Handed, CustodyExact
    <3>4. Promotable
      BY <2>2 DEF IInv, StateInv, StageInv, ClaimsInv, BoundInv, Waiting, Served, Promotable
    <3>5. /\ recovery.plan /\ repository = "canonical"
          /\ staging = "prepared" /\ files = Artifact
      BY <2>2 DEF IInv, StateInv, JournalInv, StageInv, RepositoryInv, Waiting, Handed
    <3> QED
      BY <3>2, <3>3, <3>4, <3>5
  <2> QED
    BY <2>1, <2>2 DEF FenceIsSafe
<1> QED
  BY <1>1, InvariantHolds, PTL

\* Once the journal reads target-cleaned no Project, placement, import, repository, claim or
\* binding of the cancelled transfer is left, whatever step of the discarding a crash repeated.
THEOREM CleanedForGood == Spec => []CancelledLeavesNothing
<1>1. IInv => CancelledLeavesNothing
  <2>1. \A r \in Batch, m \in Other : NoClaims[r][m] = "none"
    BY DEF NoClaims
  <2> QED
    BY <2>1 DEF IInv, StateInv, CleanInv, BoundInv, Served, Cleaned, CancelledLeavesNothing
<1> QED
  BY <1>1, InvariantHolds, PTL

-----------------------------------------------------------------------------
(* The journal only goes forward. *)

LEMMA RankIsNat == phase \in Phase => Rank(phase) \in Nat
BY DEF Rank, Phase, Forward, Uploading, Handed, Backward, Cleaned

\* A step of a call, or of anybody else, that leaves the phase alone.
LEMMA SamePhase ==
  ASSUME IInv, UNCHANGED phase, recovery.proof # 0 => recovery'.proof = recovery.proof,
         project' = project \/ phase \notin Handed
  PROVE  ForwardStep
<1>1. Rank(phase) <= Rank(phase')
  BY RankIsNat DEF IInv, TypeOK
<1>2. phase \in Handed \ {"source-relinquished"} => project = "active"
  BY DEF IInv, StateInv, BoundInv, Served, Handed
<1> QED
  BY <1>1, <1>2 DEF ForwardStep

\* Before the fence there is no proof to lose, and a phase goes to a later one.
LEMMA BeforeTheFence ==
  ASSUME IInv, phase \notin Handed, Rank(phase) <= Rank(phase')
  PROVE  ForwardStep
<1>1. recovery.proof = 0
  BY DEF IInv, StateInv, JournalInv
<1> QED
  BY <1>1 DEF ForwardStep

LEMMA AdvanceSteps ==
  ASSUME IInv, \/ Record \/ Receive \/ StageProject \/ CommitCustody \/ RecordPublication \/ Fence
               \/ Activate \/ Complete \/ StartCancellation \/ Invalidate \/ Clean \/ ReopenSource
               \/ FinishCancellation
  PROVE  ForwardStep
<1>1. OpInv
  BY DEF IInv
<1>2. CASE Record
  BY <1>2, AdmitsFacts, BeforeTheFence DEF Record, At, Handed, Rank
<1>3. CASE Receive \/ StageProject \/ CommitCustody \/ RecordPublication \/ Fence
  BY <1>3, BeforeTheFence
  DEF Receive, StageProject, CommitCustody, RecordPublication, Fence, AdvanceOnly, Handed, Rank
<1>4. CASE Activate \/ Complete
  <2>1. /\ \/ phase = "source-relinquished" /\ phase' = "cloud-activated" /\ project' = "active"
           \/ phase = "cloud-activated" /\ phase' = "completed" /\ project' = project
        /\ recovery' = recovery
    BY <1>4 DEF Activate, Complete, AdvanceOnly, projectVars
  <2>2. phase = "cloud-activated" => project = "active"
    BY DEF IInv, StateInv, BoundInv, Served
  <2> QED
    BY <2>1, <2>2 DEF ForwardStep, Rank, Handed
<1>5. CASE StartCancellation
  <2>1. At("intent") /\ phase' = "cancel-intent"
    BY <1>5 DEF StartCancellation
  <2>2. phase \in Forward
    BY <1>1, <2>1, AdmitsFacts DEF At, OpInv, Cancellable, Handed
  <2> QED
    BY <2>1, <2>2, BeforeTheFence DEF Forward, Uploading, Handed, Rank
<1>6. CASE Invalidate \/ Clean \/ FinishCancellation
  BY <1>6, BeforeTheFence DEF Invalidate, Clean, FinishCancellation, AdvanceOnly, Handed, Rank
<1>7. CASE ReopenSource
  BY <1>1, <1>7, BeforeTheFence DEF ReopenSource, At, OpInv, Handed, Rank
<1> QED
  BY <1>2, <1>3, <1>4, <1>5, <1>6, <1>7

\* What changes neither the phase nor the Project, and no evidence but the plan.
LEMMA OtherSteps ==
  ASSUME IInv, UNCHANGED <<phase, project>>, recovery'.proof = recovery.proof
  PROVE  ForwardStep
BY SamePhase

LEMMA StepForward ==
  ASSUME IInv, Step
  PROVE  ForwardStep
<1>1. StoreType /\ OpInv
  BY Types DEF IInv
<1>2. CASE ResumePreviousDeletion \/ PrepareAttempt \/ Refused
  BY <1>2, OtherSteps DEF ResumePreviousDeletion, PrepareAttempt, Refused, projectVars, journalVars
<1>3. CASE Validate \/ MarkOwner \/ StageBundle \/ BuildRepository \/ MarkValidated
  BY <1>3, OtherSteps
  DEF Validate, MarkOwner, StageBundle, BuildRepository, MarkValidated, projectVars, journalVars
<1>4. CASE ExposeBatch \/ RotateBatch
  BY <1>4, OtherSteps DEF ExposeBatch, RotateBatch, projectVars, journalVars
<1>5. CASE PlanPublication
  <2>1. recovery' = [recovery EXCEPT !["plan"] = TRUE] /\ UNCHANGED <<phase, project>>
    BY <1>5 DEF PlanPublication, Evidence, projectVars
  <2>2. recovery'.proof = recovery.proof
    BY <1>1, <2>1 DEF StoreType
  <2> QED
    BY <2>1, <2>2, OtherSteps
<1>6. CASE PublishInactive \/ DiscardSteps \/ RemoveOwnedRepository
  BY <1>6, OtherSteps DEF PublishInactive, DiscardSteps, DiscardRepository, RemoveAttempt,
     DiscardArtifact, RemoveOwnedRepository, projectVars, journalVars
<1>7. CASE DiscardStage
  BY <1>1, <1>7, SamePhase DEF DiscardStage, At, OpInv, Handed, journalVars
<1>8. CASE \/ Record \/ Receive \/ StageProject \/ CommitCustody \/ RecordPublication \/ Fence
           \/ Activate \/ Complete \/ StartCancellation \/ Invalidate \/ Clean \/ ReopenSource
           \/ FinishCancellation
  BY <1>8, AdvanceSteps
<1> QED
  BY <1>2, <1>3, <1>4, <1>5, <1>6, <1>7, <1>8
  DEF Step, BeginSteps, CompleteSteps, ClaimSteps, ForwardSteps, CancelSteps

\* The journal's phase never goes back; past the fence neither the host's late cancel nor the
\* deadline takes the accepted proof back, and what was activated stays served.
THEOREM OnlyForward == Spec => ForwardOnly
<1>1. IInv /\ [Next]_vars => [ForwardStep]_vars
  <2> SUFFICES ASSUME IInv, Next PROVE ForwardStep
    BY DEF vars
  <2>1. CASE Step
    BY <2>1, StepForward
  <2>2. CASE HostCall \/ CallRecover
    BY <2>2, OtherSteps DEF HostCall, CallRecover, CallBegin, CallRotate, CallAcknowledge,
       CallCommit, CallCancel, HostReopens, Take, projectVars, journalVars
  <2>3. ASSUME NEW u \in Upload,
               \/ UploadStep(u) \/ UploadConfirm(u) \/ CallComplete(u)
               \/ \E a \in Artifact : UploadCheck(u, a)
        PROVE  ForwardStep
    BY <2>3, OtherSteps DEF UploadStep, UploadPrepare, UploadOpen, UploadReceive, UploadConfirm,
       CallComplete, UploadCheck, projectVars, journalVars
  <2>4. ASSUME NEW p \in Principal, NEW r \in Batch, NEW m \in Other, ClaimMembership(p, r, m)
        PROVE  ForwardStep
    BY <2>4, OtherSteps DEF ClaimMembership, journalVars
  <2>5. CASE InvalidCheckpoint \/ CutRemoval \/ Fail \/ Crash \/ Expire
    BY <2>5, OtherSteps DEF InvalidCheckpoint, CutRemoval, Fail, Crash, Expire, projectVars, journalVars
  <2> QED
    BY <2>1, <2>2, <2>3, <2>4, <2>5 DEF Next
<1> QED
  BY <1>1, InvariantHolds, PTL DEF Spec, ForwardOnly

=============================================================================

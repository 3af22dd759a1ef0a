------------------------ MODULE DevelopmentBootstrap ------------------------
(***************************************************************************)
(* Bringing a LAN Project into the private-development profile.            *)
(*                                                                         *)
(* DevelopmentBootstrapProfile collects an attempt: two Members' reports   *)
(* and one Git bundle, which GitBundleImporter stages and validates. Once  *)
(* ready, ProjectActivationCoordinator publishes the staged repository     *)
(* with RepositoryPublication and inserts the Project; until then it may   *)
(* cancel the attempt, and does when it expires. Both leave a settlement   *)
(* with a recovery candidate that a later pass resumes.                    *)
(*                                                                         *)
(* The module follows one Project and its attempts. One action is one      *)
(* transaction or one effect on disk. A coordinator's call holds the       *)
(* Project lease from its first read to its end; an upload imports outside *)
(* that lease, under a gate in memory and an advisory lock that a call     *)
(* drains before it touches the staged files. The server may fail between  *)
(* two steps, and crash.                                                   *)
(***************************************************************************)
EXTENDS FiniteSets, Naturals

CONSTANTS
  Attempts,     \* attempts to bootstrap the Project
  Reporters,    \* the Members of the manifest, the source Host among them
  Callers,      \* requests that settle an attempt
  Uploads,      \* requests that upload a bundle
  Reconciler,   \* the recovery pass, at start and every interval
  NoAttempt,
  MaxFaults     \* bound: crashes and failed steps

ASSUME BootstrapAssumption ==
  /\ NoAttempt \notin Attempts /\ Reconciler \notin Callers
  /\ Cardinality(Reporters) = 2 /\ MaxFaults \in Nat

VARIABLES
  \* PostgreSQL
  row,                    \* per attempt: state, bundle_state, reports, settlement phase
  candidate, expiring,    \* recovery_candidates; expiry_candidates
  service, catalogued,    \* projects.service_state; the active placement catalog
  \* disk
  target, cleanup,        \* per attempt: its staging directory; its durable removal
  repository, used,       \* whose repository is published; whether it changed since
  \* clock and process
  expired, serving,       \* attempts past expires_at; whether requests are served
  lease, call,            \* the Project lease; the coordinator's calls
  upload, admitted, closed,  \* uploads; whose gate and lock each holds; closed gates
  faults,
  misread                 \* history: the attempts a failed reading was taken for a conflict of

attemptVars == <<row, candidate, expiring>>
projectVars == <<service, catalogued>>
stagingVars == <<target, cleanup>>
diskVars    == <<stagingVars, repository, used>>
uploadVars  == <<upload, admitted, closed>>
callVars    == <<lease, call>>
vars == <<attemptVars, projectVars, diskVars, expired, serving, callVars, uploadVars,
          faults, misread>>

-----------------------------------------------------------------------------
(* Attempts and settlements. *)

Collecting   == {"collecting", "validating", "ready"}
Nonterminal  == Collecting \cup {"activating", "recovery-required"}
State        == {"absent"} \cup Nonterminal \cup {"activated", "cancelled"}
Activation   == {"publish-intent", "repository-published", "activated", "completed"}
Cancellation == {"cancel-intent", "cancelled", "recovery-required"}
Unsettled    == (Activation \ {"completed"}) \cup {"cancel-intent"}
Bundle       == {"missing", "uploaded", "validated"}
Staging      == {"none", "unowned", "owned", "validated", "leftover", "torn"}

Absent == [state |-> "absent", bundle |-> "missing", reports |-> {}, phase |-> "none"]

Idle   == [op |-> "none", attempt |-> NoAttempt, step |-> "idle"]
Resting == [attempt |-> NoAttempt, step |-> "idle"]
Actors == Callers \cup {Reconciler}

Init ==
  /\ row = [a \in Attempts |-> Absent]
  /\ candidate = NoAttempt /\ expiring = {}
  /\ service = "none" /\ catalogued = FALSE
  /\ target = [a \in Attempts |-> "none"] /\ cleanup = [a \in Attempts |-> "none"]
  /\ repository = NoAttempt /\ used = FALSE
  /\ expired = {} /\ serving = TRUE
  /\ lease = NoAttempt /\ call = [c \in Actors |-> Idle]
  /\ upload = [u \in Uploads |-> Resting] /\ closed = {}
  /\ admitted = [u \in Uploads |-> NoAttempt]
  /\ faults = 0 /\ misread = {}

LeaseFree  == lease = NoAttempt
Expired(a) == a \in expired

\* putDevelopmentBootstrapAttempt: one attempt at a time.
NoneActive == \A a \in Attempts : row[a].state \notin Nonterminal

\* validatedAttempt: what an activation is begun with.
ValidatedAttempt(r) == r.bundle = "validated" /\ r.reports = Reporters

\* #promoteReady, the last part of a report's and of an upload's transaction.
PromoteReady(r) ==
  IF ValidatedAttempt(r) /\ r.state \in {"collecting", "validating"}
  THEN [r EXCEPT !.state = "ready"] ELSE r

PutReport(r, m) == [r EXCEPT !.reports = @ \cup {m}]

\* putDevelopmentBootstrapUpload
PutUpload(r) == [r EXCEPT !.bundle = IF @ = "missing" THEN "uploaded" ELSE @]

\* transitionDevelopmentBootstrapAttempt after an upload
Validate(r) == [r EXCEPT !.bundle = IF @ = "uploaded" THEN "validated" ELSE @]

BeginActivation(r)   == [r EXCEPT !.state = "activating", !.phase = "publish-intent"]
BeginCancellation(r) == [r EXCEPT !.phase = "cancel-intent"]

NextPhase(phase) ==
  CASE phase = "publish-intent"       -> "repository-published"
    [] phase = "repository-published" -> "activated"
    [] phase = "activated"            -> "completed"

AdvanceActivation(r) ==
  [r EXCEPT !.phase = NextPhase(@),
            !.state = IF NextPhase(r.phase) = "activated" THEN "activated" ELSE @]

AdvanceCancellation(r, next) == [r EXCEPT !.state = next, !.phase = next]

SetRow(a, r) == row' = [row EXCEPT ![a] = r]

\* #upsertCandidate while a settlement goes on, #removeCandidate at its end.
CandidateOf(a, r) ==
  IF r.phase \in Unsettled /\ r.state # "recovery-required" THEN a ELSE NoAttempt

\* A settlement's transaction: its row and its candidate.
Settle(a, r) ==
  /\ SetRow(a, r)
  /\ candidate' = CandidateOf(a, r)

-----------------------------------------------------------------------------
(* The profile: the requests that build an attempt. *)

\* beginDevelopmentBootstrap; an expired predecessor is settled by AskExpire.
Begin(a) ==
  /\ serving /\ LeaseFree
  /\ row[a].state = "absent" /\ service = "none" /\ NoneActive
  /\ SetRow(a, [Absent EXCEPT !.state = "collecting"])
  /\ expiring' = expiring \cup {a}
  /\ UNCHANGED <<candidate, projectVars, diskVars, expired, serving, callVars,
                 uploadVars, faults, misread>>

\* submitDevelopmentBootstrapReport
Report(a, m) ==
  /\ serving /\ LeaseFree /\ ~Expired(a)
  /\ row[a].state \in {"collecting", "validating"} /\ m \notin row[a].reports
  /\ SetRow(a, PromoteReady(PutReport(row[a], m)))
  /\ UNCHANGED <<candidate, expiring, projectVars, diskVars, expired, serving, callVars,
                 uploadVars, faults, misread>>

Ticks(a) ==
  /\ row[a].state # "absent" /\ ~Expired(a)
  /\ expired' = expired \cup {a}
  /\ UNCHANGED <<attemptVars, projectVars, diskVars, serving, callVars,
                 uploadVars, faults, misread>>

\* A Member uses the active Project: it pushes, or a change request is accepted.
UseProject ==
  /\ serving /\ LeaseFree /\ service = "active" /\ catalogued /\ ~used
  /\ used' = TRUE
  /\ UNCHANGED <<attemptVars, projectVars, stagingVars, repository, expired, serving, callVars,
                 uploadVars, faults, misread>>

-----------------------------------------------------------------------------
(* Uploads. *)

At(u, step)   == upload[u].step = step
Goto(u, step) == upload' = [upload EXCEPT ![u].step = step]

\* The attempt's uploads that hold the gate and the shared lock.
Uploading(a) == {u \in Uploads : admitted[u] = a}

\* release of the gate, and close of the durable upload lease
Release(u) ==
  /\ admitted' = [admitted EXCEPT ![u] = NoAttempt]
  /\ closed' = IF Uploading(admitted[u]) = {u} THEN closed \ {admitted[u]} ELSE closed

\* Mutant of Abandon: the leases are released only when the import succeeds.
AbandonHolding(u) ==
  /\ upload' = [upload EXCEPT ![u] = Resting]
  /\ UNCHANGED <<admitted, closed>>

\* A failed or aborted import ends the request, and releases in its finally.
Abandon(u) ==
  /\ upload' = [upload EXCEPT ![u] = Resting]
  /\ Release(u)

\* putDevelopmentBootstrapGitBundle up to handoffToDevelopmentBootstrapUpload.
Admit(u, a) ==
  /\ serving /\ LeaseFree /\ At(u, "idle") /\ ~Expired(a)
  /\ row[a].state \in Collecting /\ a \notin closed
  /\ SetRow(a, [row[a] EXCEPT !.state = IF @ = "collecting" THEN "validating" ELSE @])
  /\ upload' = [upload EXCEPT ![u] = [attempt |-> a, step |-> "admitted"]]
  /\ admitted' = [admitted EXCEPT ![u] = a]
  /\ UNCHANGED <<candidate, expiring, projectVars, diskVars, expired, serving, callVars, closed,
                 faults, misread>>

\* #startImport: one import of an attempt at a time.
Busy(u) ==
  \E v \in Uploads \ {u} :
    upload[v].attempt = upload[u].attempt /\ upload[v].step \in {"importing", "marking", "staging"}

StartImport(u) ==
  /\ At(u, "admitted")
  /\ IF Busy(u) THEN Abandon(u) ELSE Goto(u, "importing") /\ UNCHANGED <<admitted, closed>>
  /\ UNCHANGED <<attemptVars, projectVars, diskVars, expired, serving, callVars, faults, misread>>

\* preparePaths and ensureAttemptMarker: only the upload that made the directory marks it.
PreparePaths(u) ==
  LET a == upload[u].attempt IN
  /\ At(u, "importing")
  /\ \/ target[a] = "none" /\ target' = [target EXCEPT ![a] = "unowned"]
        /\ Goto(u, "marking") /\ UNCHANGED <<admitted, closed>>
     \/ target[a] = "unowned" /\ Abandon(u) /\ UNCHANGED target
     \/ target[a] \in {"owned", "validated"} /\ Goto(u, "staging")
        /\ UNCHANGED <<target, admitted, closed>>
  /\ UNCHANGED <<attemptVars, projectVars, cleanup, repository, used, expired, serving, callVars,
                 faults, misread>>

MarkAttempt(u) ==
  /\ At(u, "marking") /\ target' = [target EXCEPT ![upload[u].attempt] = "owned"]
  /\ Goto(u, "staging")
  /\ UNCHANGED <<attemptVars, projectVars, cleanup, repository, used, expired, serving, callVars,
                 admitted, closed, faults, misread>>

\* #stageBundle, #validateRepository and #writeMarker, or #readValidatedReplay.
FinishImport(u) ==
  /\ At(u, "staging") /\ target' = [target EXCEPT ![upload[u].attempt] = "validated"]
  /\ Goto(u, "imported") /\ Release(u)
  /\ UNCHANGED <<attemptVars, projectVars, cleanup, repository, used, expired, serving, callVars,
                 faults, misread>>

\* The client leaves, a deadline passes, or abortAttempt aborts the import.
AbortImport(u) ==
  /\ upload[u].step \in {"admitted", "importing", "marking", "staging"}
  /\ Abandon(u)
  /\ UNCHANGED <<attemptVars, projectVars, diskVars, expired, serving, callVars, faults, misread>>

\* The transaction after the import; without the lease in time the request fails.
RecordUpload(u) ==
  LET a == upload[u].attempt IN
  /\ At(u, "imported")
  /\ IF LeaseFree /\ row[a].state \in {"validating", "ready"}
     THEN SetRow(a, PromoteReady(Validate(PutUpload(row[a])))) ELSE UNCHANGED row
  /\ upload' = [upload EXCEPT ![u] = Resting]
  /\ UNCHANGED <<candidate, expiring, projectVars, diskVars, expired, serving, callVars, admitted,
                 closed, faults, misread>>

UploadStep(u) ==
  \/ StartImport(u) \/ PreparePaths(u) \/ MarkAttempt(u) \/ FinishImport(u) \/ AbortImport(u)
  \/ RecordUpload(u)

-----------------------------------------------------------------------------
(* Calls of ProjectActivationCoordinator. *)

In(c, step)   == call[c].step = step
Proceed(c, step) == call' = [call EXCEPT ![c].step = step]
Of(c)         == call[c].attempt
EndCall(c)    == call' = [call EXCEPT ![c] = Idle] /\ lease' = NoAttempt

Ask(c, op, a) ==
  /\ call[c] = Idle
  /\ call' = [call EXCEPT ![c] = [op |-> op, attempt |-> a, step |-> "asked"]]
  /\ UNCHANGED <<attemptVars, projectVars, diskVars, expired, serving, lease,
                 uploadVars, faults, misread>>

\* activateDevelopmentBootstrap, from the source Host.
AskActivate(c, a) ==
  /\ serving /\ LeaseFree /\ ~Expired(a)
  /\ row[a].state \in {"ready", "activating", "activated"} /\ row[a].bundle = "validated"
  /\ Ask(c, "activate", a)

\* cancelDevelopmentBootstrap
AskCancel(c, a) ==
  /\ serving /\ LeaseFree
  /\ row[a].state \in Collecting \cup {"cancelled"}
  /\ row[a].phase \in Cancellation \cup {"none"}
  /\ Ask(c, "cancel", a)

\* Every request expires a late attempt first, and a new one its predecessor.
AskExpire(c, a) ==
  /\ serving /\ LeaseFree /\ Expired(a) /\ row[a].state \in Collecting
  /\ Ask(c, "cancel", a)

\* reconcileAll over the expiry candidates, at start and every minute.
AskReconcile(a) ==
  /\ Expired(a) /\ a \in expiring
  /\ Ask(Reconciler, "cancel", a)

\* recoverAll before the server serves, recoverAvailable while it does.
AskRecover ==
  /\ candidate # NoAttempt
  /\ Ask(Reconciler, "recover", candidate)

\* The Project lease is not free before its deadline.
LockTimeout(c) ==
  /\ In(c, "asked") /\ ~LeaseFree
  /\ call' = [call EXCEPT ![c] = Idle]
  /\ UNCHANGED <<attemptVars, projectVars, diskVars, expired, serving, lease,
                 uploadVars, faults, misread>>

\* What the call does with the attempt it reads under its lease. (A Member's
\* cancellation of an expired attempt is refused once it has waited for the lane;
\* here it may also finish what the reconciler began.)
Begins(c) ==
  LET r == row[Of(c)] IN
  r.phase = "none" /\ candidate = NoAttempt
  /\ (\/ call[c].op = "activate" /\ r.state = "ready" /\ ValidatedAttempt(r)
      \/ call[c].op = "cancel" /\ r.state \in Collecting)

Resumes(c) ==
  LET r == row[Of(c)] IN
  \/ call[c].op = "activate" /\ r.phase \in Activation
  \/ call[c].op = "cancel" /\ r.phase \in Cancellation
  \/ call[c].op = "recover" /\ r.phase \in Unsettled /\ r.state # "recovery-required"

BeginSettlement(c) ==
  LET a == Of(c) IN
  /\ Settle(a, IF call[c].op = "activate" THEN BeginActivation(row[a])
               ELSE BeginCancellation(row[a]))
  /\ expiring' = expiring \ {a}

\* #run: the lease, and the settlement begun or found.
Acquire(c) ==
  /\ In(c, "asked") /\ LeaseFree
  /\ \/ Begins(c) /\ BeginSettlement(c) /\ Proceed(c, "closing") /\ lease' = Of(c)
     \/ Resumes(c) /\ Proceed(c, "closing") /\ lease' = Of(c) /\ UNCHANGED attemptVars
     \/ ~Begins(c) /\ ~Resumes(c) /\ EndCall(c) /\ UNCHANGED attemptVars
  /\ UNCHANGED <<projectVars, diskVars, expired, serving, uploadVars, faults, misread>>

\* closeAndDrain: a gate nobody holds is forgotten at once.
CloseLane(c) ==
  /\ In(c, "closing")
  /\ closed' = IF Uploading(Of(c)) = {} THEN closed ELSE closed \cup {Of(c)}
  /\ Proceed(c, "draining")
  /\ UNCHANGED <<attemptVars, projectVars, diskVars, expired, serving, lease, upload, admitted,
                 faults, misread>>

\* Mutant of Drained: only an import that has started is waited for, abortAttempt's part.
DrainedImports(a) == \A u \in Uploading(a) : upload[u].step = "admitted"

\* #closeUploadLane ends: the gate is empty, and so is the advisory lock.
Drained(a) == Uploading(a) = {}

DrainLane(c) ==
  /\ In(c, "draining") /\ Drained(Of(c))
  /\ Proceed(c, IF row[Of(c)].phase = "cancel-intent" THEN "discarding" ELSE "settling")
  /\ UNCHANGED <<attemptVars, projectVars, diskVars, expired, serving, lease,
                 uploadVars, faults, misread>>

-----------------------------------------------------------------------------
(* Activation. *)

\* markDevelopmentBootstrapActivationRecoveryRequired
Classify(c) ==
  LET a == Of(c) IN
  /\ IF row[a].state \in {"activating", "activated"}
     THEN /\ Settle(a, [row[a] EXCEPT !.state = "recovery-required"])
          /\ service' = IF service = "none" THEN "none" ELSE "recovery-required"
          /\ catalogued' = FALSE
     ELSE UNCHANGED <<row, candidate, projectVars>>
  /\ EndCall(c)
  /\ UNCHANGED expiring

\* RepositoryPublication.inspect: which directory exists, and whether it is exact.
Staged(a) == target[a] = "validated"
Published(a) == repository = a /\ ~used /\ ~Staged(a)

\* Mutant of Preparable: a repository already published is not recognized.
PreparableStaged(a) == Staged(a) /\ repository = NoAttempt

\* prepare: the staged repository, or the published one, never both.
Preparable(a) == Published(a) \/ (Staged(a) /\ repository = NoAttempt)

\* #verifyActivatedProjectReplay: the Project as it was inserted.
ProjectExact == service = "active" /\ catalogued /\ ~used

Phase(c) == row[Of(c)].phase

\* The loop refuses an attempt classified before, and ends with a settled cancellation.
Settled(c) ==
  /\ In(c, "settling")
  /\ row[Of(c)].state = "recovery-required" \/ Phase(c) \in Cancellation
  /\ EndCall(c)
  /\ UNCHANGED <<attemptVars, projectVars, diskVars, expired, serving, uploadVars, faults, misread>>

Activating(c, phase) ==
  In(c, "settling") /\ Phase(c) = phase /\ row[Of(c)].state # "recovery-required"

\* prepare, and inspect again in publish
Prepare(c) ==
  /\ Activating(c, "publish-intent")
  /\ IF Preparable(Of(c))
     THEN /\ Proceed(c, IF Staged(Of(c)) THEN "renaming" ELSE "renamed")
          /\ UNCHANGED <<attemptVars, projectVars, lease>>
     ELSE Classify(c)
  /\ UNCHANGED <<diskVars, expired, serving, uploadVars, faults, misread>>

\* publish: the rename leaves the marked attempt directory behind.
Publish(c) ==
  /\ In(c, "renaming")
  /\ repository' = Of(c) /\ used' = FALSE /\ target' = [target EXCEPT ![Of(c)] = "leftover"]
  /\ Proceed(c, "renamed")
  /\ UNCHANGED <<attemptVars, projectVars, cleanup, expired, serving, lease,
                 uploadVars, faults, misread>>

\* advanceDevelopmentBootstrapActivation to repository-published
RecordPublished(c) ==
  /\ In(c, "renamed")
  /\ Settle(Of(c), AdvanceActivation(row[Of(c)])) /\ Proceed(c, "settling")
  /\ UNCHANGED <<expiring, projectVars, diskVars, expired, serving, lease,
                 uploadVars, faults, misread>>

\* insertActivatedDevelopmentProject, and the advance to activated
Activate(c) ==
  /\ Activating(c, "repository-published")
  /\ IF Published(Of(c)) /\ (service = "none" \/ ProjectExact)
     THEN /\ Settle(Of(c), AdvanceActivation(row[Of(c)]))
          /\ service' = "active" /\ catalogued' = TRUE
          /\ UNCHANGED <<expiring, call, lease>>
     ELSE Classify(c)
  /\ UNCHANGED <<diskVars, expired, serving, uploadVars, faults, misread>>

\* #assertPublished, the insertion's replay, and cleanupAttempt's checks.
Verify(c) ==
  /\ Activating(c, "activated") \/ Activating(c, "completed")
  /\ IF Published(Of(c)) /\ ProjectExact /\ target[Of(c)] # "torn"
     THEN Proceed(c, "erasing") /\ UNCHANGED <<attemptVars, projectVars, lease>>
     ELSE Classify(c)
  /\ UNCHANGED <<diskVars, expired, serving, uploadVars, faults, misread>>

\* cleanupAttempt removes the directory in place, its marker before the directory.
Erase(c) ==
  /\ In(c, "erasing") /\ target[Of(c)] # "none"
  /\ target' = [target EXCEPT ![Of(c)] = IF @ = "leftover" THEN "torn" ELSE "none"]
  /\ UNCHANGED <<attemptVars, projectVars, cleanup, repository, used, expired, serving, callVars,
                 uploadVars, faults, misread>>

\* advance to completed, or the end of a replay
Complete(c) ==
  /\ In(c, "erasing") /\ target[Of(c)] = "none"
  /\ IF Phase(c) = "activated" THEN Settle(Of(c), AdvanceActivation(row[Of(c)]))
     ELSE UNCHANGED <<row, candidate>>
  /\ EndCall(c)
  /\ UNCHANGED <<expiring, projectVars, diskVars, expired, serving, uploadVars, faults, misread>>

-----------------------------------------------------------------------------
(* Cancellation: discardAttempt, by DurableTreeRemoval, and its record. *)

\* Both trees, or a directory nobody marked, is a conflict.
Conflict(a) ==
  \/ target[a] # "none" /\ cleanup[a] = "detached"
  \/ target[a] = "unowned" /\ cleanup[a] = "none"

Discarding(c) == In(c, "discarding")

Intend(c) ==
  LET a == Of(c) IN
  /\ Discarding(c) /\ ~Conflict(a) /\ target[a] # "none" /\ cleanup[a] = "none"
  /\ cleanup' = [cleanup EXCEPT ![a] = "intent"]
  /\ UNCHANGED <<attemptVars, projectVars, target, repository, used, expired, serving, callVars,
                 uploadVars, faults, misread>>

Detach(c) ==
  LET a == Of(c) IN
  /\ Discarding(c) /\ target[a] # "none" /\ cleanup[a] = "intent"
  /\ target' = [target EXCEPT ![a] = "none"] /\ cleanup' = [cleanup EXCEPT ![a] = "detached"]
  /\ UNCHANGED <<attemptVars, projectVars, repository, used, expired, serving, callVars,
                 uploadVars, faults, misread>>

\* The detached tree goes, then the intent.
Remove(c) ==
  LET a == Of(c) IN
  /\ Discarding(c) /\ target[a] = "none" /\ cleanup[a] # "none"
  /\ cleanup' = [cleanup EXCEPT ![a] = IF @ = "detached" THEN "intent" ELSE "none"]
  /\ UNCHANGED <<attemptVars, projectVars, target, repository, used, expired, serving, callVars,
                 uploadVars, faults, misread>>

\* discardAttempt's artifact-conflict sets the attempt aside.
Outcome(a) == IF Conflict(a) THEN "recovery-required" ELSE "cancelled"

\* advanceDevelopmentBootstrapCancellation
Cancel(c) ==
  LET a == Of(c) IN
  /\ Discarding(c)
  /\ Conflict(a) \/ (target[a] = "none" /\ cleanup[a] = "none")
  /\ Settle(a, AdvanceCancellation(row[a], Outcome(a)))
  /\ EndCall(c)
  /\ UNCHANGED <<expiring, projectVars, diskVars, expired, serving, uploadVars, faults, misread>>

CallStep(c) ==
  \/ LockTimeout(c) \/ Acquire(c) \/ CloseLane(c) \/ DrainLane(c)
  \/ Settled(c) \/ Prepare(c) \/ Publish(c) \/ RecordPublished(c) \/ Activate(c)
  \/ Verify(c) \/ Erase(c) \/ Complete(c)
  \/ Intend(c) \/ Detach(c) \/ Remove(c) \/ Cancel(c)

-----------------------------------------------------------------------------
(* Faults, and the server's start. *)

\* A transaction, a removal or another write fails: the call ends, its lease is
\* released. The same step is taken again by the next call or recovery.
FailStep(c) ==
  /\ faults < MaxFaults /\ call[c].step \notin {"idle", "asked"}
  /\ faults' = faults + 1 /\ EndCall(c)
  /\ UNCHANGED <<attemptVars, projectVars, diskVars, expired, serving, uploadVars, misread>>

\* Where an activation reads markers and verifies a repository: prepare, inspect
\* before and after publish's rename, #assertPublished and cleanupAttempt.
Reading(c) ==
  \/ In(c, "renaming") \/ In(c, "renamed")
  \/ \E phase \in Activation : Activating(c, phase)

\* A marker cannot be read, or a Git child of the verifier fails, whatever the
\* cause: assertFileDigest and assertAttemptMarker report 'marker-conflict', the
\* verifier 'repository-invalid', and the attempt is set aside for it. A discard that
\* cannot read the owner marker reports 'artifact-conflict', with the same end.
FailReading(c) ==
  LET a == Of(c) IN
  /\ faults < MaxFaults
  /\ faults' = faults + 1 /\ misread' = misread \cup {a}
  /\ \/ Reading(c) /\ Classify(c)
     \/ /\ Discarding(c) /\ target[a] # "none" /\ cleanup[a] = "none"
        /\ Settle(a, AdvanceCancellation(row[a], "recovery-required"))
        /\ EndCall(c)
        /\ UNCHANGED <<expiring, projectVars>>
  /\ UNCHANGED <<diskVars, expired, serving, uploadVars>>

\* The process dies, and its sessions' locks with it.
Crash ==
  /\ faults < MaxFaults /\ faults' = faults + 1
  /\ call' = [c \in Actors |-> Idle] /\ lease' = NoAttempt
  /\ upload' = [u \in Uploads |-> Resting] /\ admitted' = [u \in Uploads |-> NoAttempt] /\ closed' = {}
  /\ serving' = FALSE
  /\ UNCHANGED <<attemptVars, projectVars, diskVars, expired, misread>>

\* start: the server serves once recoverAll has passed every candidate.
Serve ==
  /\ ~serving /\ candidate = NoAttempt /\ call[Reconciler] = Idle
  /\ serving' = TRUE
  /\ UNCHANGED <<attemptVars, projectVars, diskVars, expired, callVars,
                 uploadVars, faults, misread>>

Next ==
  \/ \E a \in Attempts :
       \/ Begin(a) \/ Ticks(a)
       \/ \E m \in Reporters : Report(a, m)
       \/ \E u \in Uploads : Admit(u, a)
       \/ \E c \in Callers : AskActivate(c, a) \/ AskCancel(c, a) \/ AskExpire(c, a)
       \/ AskReconcile(a)
  \/ UseProject \/ AskRecover \/ Crash \/ Serve
  \/ \E u \in Uploads : UploadStep(u)
  \/ \E c \in Actors : CallStep(c) \/ FailStep(c) \/ FailReading(c)

\* An import has deadlines, a call runs to its end, and the recovery pass comes back.
Fairness ==
  /\ \A u \in Uploads : WF_vars(UploadStep(u))
  /\ \A c \in Actors : WF_vars(CallStep(c))
  /\ SF_vars(Acquire(Reconciler))
  /\ SF_vars(AskRecover \/ \E a \in Attempts : AskReconcile(a))

Spec == Init /\ [][Next]_vars /\ Fairness

-----------------------------------------------------------------------------
(* Properties. *)

TypeOK ==
  /\ row \in [Attempts -> [state : State, bundle : Bundle, reports : SUBSET Reporters,
                           phase : {"none"} \cup Activation \cup Cancellation]]
  /\ candidate \in Attempts \cup {NoAttempt} /\ expiring \subseteq Attempts
  /\ service \in {"none", "active", "recovery-required"} /\ catalogued \in BOOLEAN
  /\ target \in [Attempts -> Staging]
  /\ cleanup \in [Attempts -> {"none", "intent", "detached"}]
  /\ repository \in Attempts \cup {NoAttempt} /\ used \in BOOLEAN
  /\ expired \subseteq Attempts /\ serving \in BOOLEAN
  /\ lease \in Attempts \cup {NoAttempt}
  /\ admitted \in [Uploads -> Attempts \cup {NoAttempt}] /\ closed \subseteq Attempts
  /\ faults \in 0..MaxFaults /\ misread \subseteq Attempts

\* What a row says of the disk holds, although uploads run beside the lease: a
\* ready attempt's repository is staged or published, and a cancelled attempt has
\* nothing on disk, nor an upload that could still bring something.
RowsMatchDisk ==
  \A a \in Attempts :
    /\ row[a].state = "ready" /\ row[a].phase = "none" => target[a] = "validated"
    /\ row[a].phase = "publish-intent" /\ row[a].state = "activating" =>
         target[a] = "validated" \/ repository = a
    /\ row[a].state = "cancelled" =>
         target[a] = "none" /\ cleanup[a] = "none" /\ Uploading(a) = {}

\* The recovery candidate is written and removed in the settlement's own
\* transactions, so a pass finds every settlement that is not over, and only those.
CandidateTracksSettlement ==
  \A a \in Attempts :
    candidate = a <=> row[a].phase \in Unsettled /\ row[a].state # "recovery-required"

\* What a recovery pass reads is so: the rows of every attempt describe what its
\* directories hold, and the catalog names the settlement that is not over.
RowsTellTheTruth == TypeOK /\ RowsMatchDisk /\ CandidateTracksSettlement

\* What costs an attempt: it is set aside only for a Project that has changed since
\* it was published, for a directory a crash left without its marker or beside its
\* detached predecessor, or over a failed reading of its own settlement. A crash, a
\* lost lease, a transaction or a removal that fails and an upload's end never cost
\* one, wherever they cut the call off.
SetAsideForCause ==
  \A a \in Attempts :
    row[a].state = "recovery-required" =>
      \/ repository = a /\ (used \/ target[a] = "torn")
      \/ Conflict(a)
      \/ a \in misread

Pending(a) == candidate = a \/ (Expired(a) /\ row[a].state \in Collecting)

\* An attempt that has expired, and a settlement that has begun, end: activated,
\* cancelled, or set aside. Uploads drain, and the passes get the lease.
SettlementEnds == \A a \in Attempts : Pending(a) ~> ~Pending(a)

=============================================================================

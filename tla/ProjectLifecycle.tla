-------------------------- MODULE ProjectLifecycle --------------------------
(***************************************************************************)
(* The beginning and the end of a Project in the Cloud.                    *)
(*                                                                         *)
(* CloudProjectCreationCoordinator writes a plan, publishes an empty       *)
(* repository with EmptyProjectRepositoryAuthority and activates the       *)
(* Project. RetireCoordinator, or a completed Cloud-to-LAN transfer,       *)
(* leaves a tombstone, a terminal result for the former Members and a      *)
(* deletion journal, which DeletionCoordinator carries through repository  *)
(* and rows. ProjectLifecycleRecoveryDispatcher resumes whatever a         *)
(* crashed process left.                                                   *)
(*                                                                         *)
(* The module follows one Project ID. One action is one transaction or one *)
(* effect on disk; a call holds a place in the Project's Git write lane    *)
(* and then the Project lease, both gone with the process. How a transfer  *)
(* reaches relinquishment is CloudToLanTransfer's, how Members join        *)
(* ProjectMembership's: here each is one step.                             *)
(***************************************************************************)
EXTENDS FiniteSets, Naturals

CONSTANTS
  Principals,   \* who may be a Member of the Project
  Callers,      \* the principals that call create and retire, each with one intent
  Workers,      \* recovery passes, on-demand recoveries, operator commands
  Nobody,
  LaneLimit,    \* maxChildrenPerProject
  MaxPlans,     \* bound: creation plans written
  MaxFaults     \* bound: crashes and failed steps

ASSUME LifecycleAssumption ==
  /\ Callers \subseteq Principals
  /\ Nobody \notin Principals \cup Workers /\ Principals \cap Workers = {}
  /\ LaneLimit \in Nat \ {0} /\ MaxPlans \in Nat /\ MaxFaults \in Nat

VARIABLES
  \* PostgreSQL
  project,      \* projects.service_state, "none" without a row
  plan,         \* the creation journal: its number, whose intent, its phase
  placement, bindings,  \* the repository placement; active principal bindings
  journal,      \* lifecycle journals: the phase of the transfer and of the deletion
  terminal,     \* the tombstone and the terminal responder
  candidates,   \* recovery_candidates
  \* disk
  repository,   \* whose plan, how far published or removed, a file half written
  cleanup,      \* the marker of a durable removal
  \* processes
  lease, lane,  \* holder of the Project lease; holders of the write lane
  call, contradicted,  \* what each actor does; some owner refused a recovery
  late, planned, faults

projectRows   == <<project, plan, placement, bindings>>
lifecycleRows == <<journal, terminal, candidates>>
rows          == <<projectRows, lifecycleRows>>
disk          == <<repository, cleanup>>
locks         == <<lease, lane>>
bounds        == <<late, planned, faults>>
vars == <<rows, disk, locks, call, contradicted, bounds>>

-----------------------------------------------------------------------------
(* State and its types. *)

Actors == Callers \cup Workers

CreationPhase == {"prepared", "repository-publication-intent", "repository-published",
                  "activated", "completed"}
DeletionPhase == {"traffic-denied", "repository-delete-intent", "repository-removed",
                  "coordination-removed", "tombstoned", "completed"}
TransferPhase == {"cloud-relinquished", "lan-activated", "completed"}
Kinds == {"transfer", "delete"}
Stages == {"none", "staged", "placed", "bare", "initialised", "main", "refs", "part", "published",
           "detached"}

NoPlan == [number |-> 0, by |-> Nobody, phase |-> "none"]
NoRepository == [number |-> 0, stage |-> "none", torn |-> FALSE]
NoTerminal == [kind |-> "none", by |-> Nobody, unacked |-> {}, acked |-> {}, kept |-> FALSE]
Idle == [op |-> "none", step |-> "idle", kind |-> "delete", seen |-> "none", rounds |-> 0]

Init ==
  /\ project = "none" /\ plan = NoPlan /\ placement = "none" /\ bindings = {}
  /\ journal = [transfer |-> "none", delete |-> "none"]
  /\ terminal = NoTerminal /\ candidates = {}
  /\ repository = NoRepository /\ cleanup = FALSE
  /\ lease = Nobody /\ lane = {}
  /\ call = [a \in Actors |-> Idle] /\ contradicted = FALSE
  /\ late = FALSE /\ planned = 0 /\ faults = 0

LeaseFree == lease = Nobody
At(a, step) == call[a].step = step
Goto(a, step) == call' = [call EXCEPT ![a].step = step]

Terminated(phase) == phase \in {"none", "completed"}
Nonterminal == {k \in Kinds : ~Terminated(journal[k])}

\* #verify of an empty repository, and assertOwnedRepositoryMarker.
Verified ==
  repository = [number |-> plan.number, stage |-> "published", torn |-> FALSE]

\* The finally blocks: the lease and the place in the lane are given back.
GiveUp(a) ==
  /\ lease' = IF lease = a THEN Nobody ELSE lease
  /\ lane' = lane \ {a}

\* A call ends, with the reason when it fails.
End(a, why) ==
  /\ call' = [call EXCEPT ![a] = Idle]
  /\ contradicted' = (contradicted \/ why = "conflict")
  /\ GiveUp(a)

-----------------------------------------------------------------------------
(* Calls, the lane and the lease. *)

Begin(a, op, step, kind) ==
  /\ At(a, "idle")
  /\ call' = [call EXCEPT ![a] = [Idle EXCEPT !.op = op, !.step = step, !.kind = kind]]
  /\ UNCHANGED <<rows, disk, locks, contradicted, bounds>>

AskCreate(p) == Begin(p, "create", "lane", "delete")
AskRetire(p) == Begin(p, "retire", "lane", "delete")

\* A create-project candidate, or the creation part of an on-demand recovery: the
\* preflight under a lease of its own returns when there is nothing to do.
RecoverCreation(w) ==
  /\ LeaseFree /\ ~Terminated(plan.phase)
  /\ Begin(w, "create", "lane", "delete")

\* #canGrant: the Project has a child to spare.
LaneFree == Cardinality(lane) < LaneLimit

\* reserve, reserveExactRepositoryOperation
EnterLane(a) ==
  /\ At(a, "lane") /\ LaneFree
  /\ lane' = lane \cup {a}
  /\ Goto(a, "lease")
  /\ UNCHANGED <<rows, disk, lease, contradicted, bounds>>

AfterLease(op) ==
  CASE op = "create" -> "plan" [] op = "retire" -> "replay"
    [] op = "resume" -> "work" [] OTHER -> "reread"

\* resumeAuthorized reads intent and journal once it holds both; a recovery keeps what
\* it read before the lane.
Seen(c) == IF c.op = "resume" THEN journal.delete ELSE c.seen

\* #acquirePinnedLease, always after the lane.
EnterLease(a) ==
  /\ At(a, "lease") /\ LeaseFree
  /\ lease' = a
  /\ call' = [call EXCEPT ![a].step = AfterLease(call[a].op), ![a].seen = Seen(call[a])]
  /\ UNCHANGED <<rows, disk, lane, contradicted, bounds>>

-----------------------------------------------------------------------------
(* Creation. *)

\* Mutant of PreparedCandidates: the plan is not catalogued for recovery.
PreparedCandidatesOmitted == candidates

\* The recovery candidate of prepare.
PreparedCandidates == candidates \cup {"create"}

\* prepare: the invisible Project, its pending Manager, its inactive placement, the plan.
Prepare(p) ==
  /\ plan.phase = "none" /\ project = "none" /\ planned < MaxPlans
  /\ project' = "maintenance" /\ placement' = "inactive"
  /\ plan' = [number |-> planned + 1, by |-> p, phase |-> "prepared"]
  /\ candidates' = PreparedCandidates
  /\ planned' = planned + 1
  /\ Goto(p, "advance")
  /\ UNCHANGED <<bindings, journal, terminal, disk, locks, contradicted, late, faults>>

\* exactReplay, and the re-read of a recovery.
Resumes(a) == plan.phase # "none" /\ a \in Workers \cup {plan.by}

TakePlan(a) ==
  /\ Resumes(a)
  /\ Goto(a, "advance")
  /\ UNCHANGED <<rows, disk, locks, contradicted, bounds>>

RefusePlan(a) ==
  /\ ~Resumes(a)
  /\ a \in Workers \/ plan.phase # "none" \/ planned = MaxPlans
  /\ End(a, IF a \in Workers THEN "vanished" ELSE "refused")
  /\ UNCHANGED <<rows, disk, bounds>>

\* #create and #recoverProject under their locks.
Plan(a) ==
  /\ At(a, "plan")
  /\ (a \in Callers /\ Prepare(a)) \/ TakePlan(a) \/ RefusePlan(a)

InPhase(a, phase) == At(a, "advance") /\ plan.phase = phase

SetPhase(phase) == plan' = [plan EXCEPT !.phase = phase]

\* markRepositoryPublicationIntent
MarkIntent(a) ==
  /\ InPhase(a, "prepared")
  /\ SetPhase("repository-publication-intent")
  /\ UNCHANGED <<project, placement, bindings, lifecycleRows, disk, locks, call, contradicted,
                 bounds>>

\* A file of another plan, or one a crash left half written, is never replaced.
Conflicting == repository.torn \/ repository.number \notin {0, plan.number}

Publishing(a) == InPhase(a, "repository-publication-intent") /\ ~Conflicting

\* The effects of a publication in their order.
NextStage(stage) ==
  CASE stage = "none" -> "staged" [] stage = "staged" -> "placed"
    [] stage = "placed" -> "bare" [] stage = "bare" -> "initialised"
    [] stage = "initialised" -> "main"
    [] stage = "main" -> "refs" [] stage = "refs" -> "part" [] stage = "part" -> "published"

SetStage(stage) ==
  repository' = [number |-> plan.number, stage |-> stage, torn |-> FALSE]

\* writeExclusive, git init and git update-ref begin; until WriteOut what they write is half
\* there: part of a file, of a repository, or the lock of the ref.
Open(a, stage) ==
  /\ repository.stage = stage
  /\ repository' = [number |-> plan.number, stage |-> stage, torn |-> TRUE]
  /\ Goto(a, "writing")

Effect(stages) ==
  /\ repository.stage \in stages
  /\ SetStage(NextStage(repository.stage))
  /\ UNCHANGED call

\* #prepareLocation: the intent in a staging directory, renamed into place.
PrepareLocation(a) == Open(a, "none") \/ Effect({"staged"})

\* #initializeAndWriteObjects: git init, resumed once the directory is a repository, then the
\* objects, which are written again whatever is there.
Initialize(a) == Open(a, "placed") \/ Effect({"bare"})

\* #establishRefs: main, then the Manager's personal ref.
EstablishRefs(a) == Open(a, "initialised") \/ Open(a, "main")

\* #publishMarker: a part file, renamed.
PublishMarker(a) == Open(a, "refs") \/ Effect({"part"})

\* publish, one effect at a time.
Publish(a) ==
  /\ Publishing(a)
  /\ PrepareLocation(a) \/ Initialize(a) \/ EstablishRefs(a) \/ PublishMarker(a)
  /\ UNCHANGED <<rows, cleanup, locks, contradicted, bounds>>

WriteOut(a) ==
  /\ At(a, "writing")
  /\ SetStage(NextStage(repository.stage))
  /\ Goto(a, "advance")
  /\ UNCHANGED <<rows, cleanup, locks, contradicted, bounds>>

\* state-conflict of publish and verify.
RefusePublication(a) ==
  /\ \/ InPhase(a, "repository-publication-intent") /\ Conflicting
     \/ InPhase(a, "repository-published") /\ ~Verified
  /\ End(a, "torn")
  /\ UNCHANGED <<rows, disk, bounds>>

\* markRepositoryPublished
MarkPublished(a) ==
  /\ Publishing(a) /\ Verified
  /\ SetPhase("repository-published")
  /\ UNCHANGED <<project, placement, bindings, lifecycleRows, disk, locks, call, contradicted,
                 bounds>>

\* activate: Project, Manager, binding and placement in one transaction.
Activate(a) ==
  /\ InPhase(a, "repository-published") /\ Verified
  /\ project' = "active" /\ placement' = "active" /\ bindings' = {plan.by}
  /\ SetPhase("activated")
  /\ UNCHANGED <<lifecycleRows, disk, locks, call, contradicted, bounds>>

\* complete
CompleteCreation(a) ==
  /\ InPhase(a, "activated")
  /\ SetPhase("completed")
  /\ candidates' = candidates \ {"create"}
  /\ UNCHANGED <<project, placement, bindings, journal, terminal, disk, locks, call, contradicted,
                 bounds>>

\* The retained response.
Respond(a) ==
  /\ InPhase(a, "completed")
  /\ End(a, "none")
  /\ UNCHANGED <<rows, disk, bounds>>

\* #advance
AdvanceCreation(a) ==
  \/ MarkIntent(a) \/ Publish(a) \/ WriteOut(a) \/ RefusePublication(a)
  \/ MarkPublished(a) \/ Activate(a) \/ CompleteCreation(a) \/ Respond(a)

-----------------------------------------------------------------------------
(* What Members do meanwhile, one step each. *)

\* A completed Join.
Join(p) ==
  /\ LeaseFree /\ project = "active" /\ p \notin bindings
  /\ bindings' = bindings \cup {p}
  /\ UNCHANGED <<project, plan, placement, lifecycleRows, disk, locks, call, contradicted, bounds>>

\* A Cloud-to-LAN transfer up to relinquishment, which closes the Project.
Relinquish ==
  /\ LeaseFree /\ project = "active" /\ Nonterminal = {} /\ terminal.kind = "none"
  /\ project' = "deleting"
  /\ journal' = [journal EXCEPT !.transfer = "cloud-relinquished"]
  /\ candidates' = candidates \cup {"transfer"}
  /\ UNCHANGED <<plan, placement, bindings, terminal, disk, locks, call, contradicted, bounds>>

\* The target's activation proof arrives.
TargetActive ==
  /\ LeaseFree /\ journal.transfer = "cloud-relinquished"
  /\ journal' = [journal EXCEPT !.transfer = "lan-activated"]
  /\ UNCHANGED <<projectRows, terminal, candidates, disk, locks, call, contradicted, bounds>>

\* terminalExpiresAt passes.
Elapse ==
  /\ terminal.kept /\ ~late
  /\ late' = TRUE
  /\ UNCHANGED <<rows, disk, locks, call, contradicted, planned, faults>>

\* acknowledge
Acknowledge(p) ==
  /\ LeaseFree /\ terminal.kind = "retire" /\ terminal.kept
  /\ p \in terminal.unacked /\ ~late
  /\ terminal' = [terminal EXCEPT !.unacked = @ \ {p}, !.acked = @ \cup {p}]
  /\ UNCHANGED <<projectRows, journal, candidates, disk, locks, call, contradicted, bounds>>

\* TerminalResponderExpiryReconciler: in the order of expiry, up to the first still valid.
ExpireResponder ==
  /\ LeaseFree /\ terminal.kept /\ late
  /\ terminal' = [terminal EXCEPT !.kept = FALSE]
  /\ UNCHANGED <<projectRows, journal, candidates, disk, locks, call, contradicted, bounds>>

-----------------------------------------------------------------------------
(* Retire and the completion of a transfer: what both leave behind. *)

\* Mutant of ClosedService: the terminal transaction leaves the Project open.
ClosedServiceOpen == project

\* The service state after a terminal operation.
ClosedService == "deleting"

\* putTerminalResponder and putProjectTombstone
Terminal(kind, by) ==
  [kind |-> kind, by |-> by, unacked |-> bindings, acked |-> {}, kept |-> TRUE]

\* One transaction: responder, tombstone, deletion journal and deletion intent.
Terminate(kind, by, ended) ==
  /\ terminal' = Terminal(kind, by)
  /\ project' = ClosedService
  /\ journal' = [k \in Kinds |-> IF k = "delete" THEN "traffic-denied"
                                 ELSE IF k \in ended THEN "completed" ELSE journal[k]]
  /\ candidates' = (candidates \ ended) \cup {"delete"}

\* An active Manager, an open Project, its exact repository.
MayRetire(p) ==
  /\ p = plan.by /\ p \in bindings
  /\ project = "active" /\ placement = "active" /\ Verified
  /\ Nonterminal = {}

\* A retained result answers its initiator and refuses everyone else.
Replayed == terminal.kind = "retire" /\ terminal.kept

\* retire: the replay, the preparation and the repository's verification.
PrepareRetire(p) ==
  /\ At(p, "replay")
  /\ IF Replayed \/ ~MayRetire(p)
     THEN End(p, IF Replayed /\ p = terminal.by /\ ~late THEN "none" ELSE "refused")
     ELSE Goto(p, "commit") /\ UNCHANGED <<locks, contradicted>>
  /\ UNCHANGED <<rows, disk, bounds>>

\* retire: the terminal transaction; a Project has one tombstone per generation.
CommitRetire(p) ==
  /\ At(p, "commit")
  /\ IF MayRetire(p) /\ terminal.kind = "none"
     THEN /\ Terminate("retire", p, {})
          /\ late' = FALSE
          /\ End(p, "none")
     ELSE /\ End(p, "refused")
          /\ UNCHANGED <<project, lifecycleRows, late>>
  /\ UNCHANGED <<plan, placement, bindings, disk, planned, faults>>

-----------------------------------------------------------------------------
(* DeletionCoordinator: recover. *)

\* #assertIntent: the journal the owner was given is the one in the rows.
Agrees(w) == call[w].seen = journal.delete

Deleting(w, phase) ==
  /\ At(w, "work") /\ call[w].kind = "delete"
  /\ Agrees(w) /\ journal.delete = phase

\* advanceLifecycleJournal and the re-read that follows it.
AdvanceDeletion(w, phase) ==
  /\ journal' = [journal EXCEPT !.delete = phase]
  /\ call' = [call EXCEPT ![w].seen = phase]

OnlyAdvance(w, phase) ==
  /\ AdvanceDeletion(w, phase)
  /\ UNCHANGED <<projectRows, terminal, candidates, disk, locks, contradicted, bounds>>

StartRemoval(w) ==
  /\ Deleting(w, "traffic-denied")
  /\ OnlyAdvance(w, "repository-delete-intent")

Removing(w) == Deleting(w, "repository-delete-intent")

\* removeDurableOwnedTree: the cleanup marker of an owned tree,
MarkCleanup(w) ==
  /\ Removing(w) /\ ~cleanup /\ Verified
  /\ cleanup' = TRUE
  /\ UNCHANGED <<rows, repository, locks, call, contradicted, bounds>>

\* the rename out of its place,
Detach(w) ==
  /\ Removing(w) /\ cleanup /\ repository.stage = "published"
  /\ repository' = [repository EXCEPT !.stage = "detached"]
  /\ UNCHANGED <<rows, cleanup, locks, call, contradicted, bounds>>

\* the removal of the tree,
Sweep(w) ==
  /\ Removing(w) /\ repository.stage = "detached"
  /\ repository' = NoRepository
  /\ UNCHANGED <<rows, cleanup, locks, call, contradicted, bounds>>

\* and of the marker.
Forget(w) ==
  /\ Removing(w) /\ cleanup /\ repository.stage = "none"
  /\ cleanup' = FALSE
  /\ UNCHANGED <<rows, repository, locks, call, contradicted, bounds>>

RecordRemoved(w) ==
  /\ Removing(w) /\ ~cleanup /\ repository.stage = "none"
  /\ OnlyAdvance(w, "repository-removed")

\* Mutant of KeptCandidates: the deletion's own candidate goes with the content.
KeptCandidatesNone == {}

\* remove_project_coordination_content spares the deletion's recovery candidate.
KeptCandidates == candidates \cap {"delete"}

\* The responder of the Project's own tombstone survives its content.
KeptTerminal == terminal

\* removeProjectCoordinationContent
RemoveContent(w) ==
  /\ Deleting(w, "repository-removed")
  /\ AdvanceDeletion(w, "coordination-removed")
  /\ project' = "none" /\ plan' = NoPlan /\ placement' = "none" /\ bindings' = {}
  /\ terminal' = KeptTerminal /\ candidates' = KeptCandidates
  /\ UNCHANGED <<disk, locks, contradicted, bounds>>

RecordTombstone(w) ==
  /\ Deleting(w, "coordination-removed") /\ terminal.kind # "none"
  /\ OnlyAdvance(w, "tombstoned")

CompleteDeletion(w) ==
  /\ Deleting(w, "tombstoned") /\ terminal.kind # "none"
  /\ AdvanceDeletion(w, "completed")
  /\ candidates' = candidates \ {"delete"}
  /\ UNCHANGED <<projectRows, terminal, disk, locks, contradicted, bounds>>

DeletionStep(w) ==
  \/ StartRemoval(w) \/ MarkCleanup(w) \/ Detach(w) \/ Sweep(w) \/ Forget(w)
  \/ RecordRemoved(w) \/ RemoveContent(w) \/ RecordTombstone(w) \/ CompleteDeletion(w)

-----------------------------------------------------------------------------
(* ProjectLifecycleRecoveryDispatcher. *)

\* recoverProject of a fenced Project, no predecessor.
RecoverProject(w) == Nonterminal # {} /\ Begin(w, "recover", "drain", "delete")

\* The operator's resume-delete: resumeAuthorized, lane and lease first.
ResumeDelete(w) == journal.delete # "none" /\ Begin(w, "resume", "lane", "delete")

\* reserveRecovery of the owner: a deletion always, a transfer once the target is active.
NeedsLane(kind, phase) == kind = "delete" \/ phase = "lan-activated"

\* The loop of #recoverObserved: a settled journal, or the owner's reservation.
Preflight(kind, phase) ==
  IF Terminated(phase) THEN "drain" ELSE IF NeedsLane(kind, phase) THEN "lane" ELSE "lease"

\* A journal read under a lease that is closed again.
Observed(w, kind, rounds) ==
  call' = [call EXCEPT ![w] = [op |-> "recover", step |-> Preflight(kind, journal[kind]),
                               kind |-> kind, seen |-> journal[kind], rounds |-> rounds]]

\* #recoverCandidate: the snapshot of a catalogued candidate.
Observe(w, k) ==
  /\ At(w, "idle") /\ LeaseFree /\ k \in candidates
  /\ Observed(w, k, 0)
  /\ UNCHANGED <<rows, disk, locks, contradicted, bounds>>

RecoverCandidate(w) == \E k \in Kinds : Observe(w, k)

\* Mutant of Unchanged: the journal chosen before the lane is dispatched as it was.
UnchangedAssumed(w) == TRUE

\* The comparison under the lease with the journal the reservation was chosen from.
Unchanged(w) == journal[call[w].kind] = call[w].seen

Reread(w) ==
  /\ At(w, "reread")
  /\ IF Unchanged(w)
     THEN Goto(w, "work") /\ UNCHANGED locks
     ELSE Observed(w, call[w].kind, call[w].rounds) /\ GiveUp(w)
  /\ UNCHANGED <<rows, disk, contradicted, bounds>>

\* The transfer's owner waits for the target,
AwaitProof(w) ==
  /\ At(w, "work") /\ call[w].kind = "transfer" /\ call[w].seen = "cloud-relinquished"
  /\ journal.transfer = "cloud-relinquished"
  /\ End(w, "none")
  /\ UNCHANGED <<rows, disk, bounds>>

\* or completes with the repository reserved.
CompleteTransfer(w) ==
  /\ At(w, "work") /\ call[w].kind = "transfer"
  /\ journal.transfer = "lan-activated" /\ w \in lane
  /\ Verified /\ terminal.kind = "none"
  /\ Terminate("transfer", plan.by, {"transfer"})
  /\ late' = FALSE
  /\ call' = [call EXCEPT ![w].seen = "completed"]
  /\ UNCHANGED <<plan, placement, bindings, disk, locks, contradicted, planned, faults>>

\* The owner's refusal: a journal it was not given, or work it has no reservation for.
Contradicted(w) ==
  \/ call[w].kind = "delete" /\ ~Agrees(w)
  \/ call[w].kind = "transfer" /\ journal.transfer = "lan-activated" /\ w \notin lane

\* The owner answers: it refuses, or the journal is settled.
Settle(w) ==
  /\ At(w, "work")
  /\ \/ Contradicted(w) /\ End(w, "conflict")
     \/ /\ Terminated(call[w].seen) /\ ~Contradicted(w)
        /\ IF call[w].op = "resume"
           THEN End(w, "none")
           ELSE Goto(w, "drain") /\ GiveUp(w) /\ UNCHANGED contradicted
  /\ UNCHANGED <<rows, disk, bounds>>

\* permitsDeletionSuccessor; before the first journal there is no predecessor.
Permitted(w, kind) ==
  \/ call[w].seen = "none"
  \/ kind = "delete" /\ call[w].kind = "transfer" /\ call[w].seen = "completed"

\* #drainProject: the next nonterminal journal, at most two of them.
Drain(w) ==
  /\ At(w, "drain") /\ LeaseFree
  /\ \/ Nonterminal = {} /\ End(w, "none")
     \/ \E k \in Nonterminal :
          IF Permitted(w, k) /\ call[w].rounds < 2
          THEN Observed(w, k, call[w].rounds + 1) /\ UNCHANGED <<locks, contradicted>>
          ELSE End(w, "successor")
  /\ UNCHANGED <<rows, disk, bounds>>

-----------------------------------------------------------------------------
(* Faults. *)

\* A step fails: the call gives up, a file it was writing stays as it is.
Fail(a) ==
  /\ faults < MaxFaults /\ ~At(a, "idle")
  /\ End(a, "fault")
  /\ faults' = faults + 1
  /\ UNCHANGED <<rows, disk, late, planned>>

\* Every process dies, and with it its locks.
Crash ==
  /\ faults < MaxFaults
  /\ call' = [a \in Actors |-> Idle]
  /\ lease' = Nobody /\ lane' = {}
  /\ faults' = faults + 1
  /\ UNCHANGED <<rows, disk, contradicted, late, planned>>

-----------------------------------------------------------------------------
(* Specification. *)

Request(p)  == AskCreate(p) \/ AskRetire(p)
Recover(w)  == RecoverCreation(w) \/ RecoverCandidate(w) \/ RecoverProject(w) \/ ResumeDelete(w)
Creation(a) == Plan(a) \/ AdvanceCreation(a)
Retire(p)   == PrepareRetire(p) \/ CommitRetire(p)
Dispatch(w) ==
  \/ Reread(w) \/ AwaitProof(w) \/ CompleteTransfer(w)
  \/ DeletionStep(w) \/ Settle(w) \/ Drain(w)

\* What a call does once it was made.
Step(a) ==
  \/ EnterLane(a) \/ EnterLease(a) \/ Creation(a)
  \/ a \in Callers /\ Retire(a)
  \/ a \in Workers /\ Dispatch(a)

Environment ==
  \/ \E p \in Callers : Request(p)
  \/ \E p \in Principals : Join(p) \/ Acknowledge(p)
  \/ Relinquish \/ TargetActive \/ Elapse \/ ExpireResponder

Next ==
  \/ Environment
  \/ \E w \in Workers : Recover(w)
  \/ \E a \in Actors : Step(a) \/ Fail(a)
  \/ Crash

Spec == Init /\ [][Next]_vars

\* A call goes on until it ends: its waits for lane and lease are queues with a
\* deadline. A pass at every start and every interval takes each candidate in turn.
Catalogued(k) ==
  \E w \in Workers : IF k = "create" THEN k \in candidates /\ RecoverCreation(w)
                     ELSE Observe(w, k)

Fairness ==
  /\ \A a \in Actors : SF_vars(Step(a))
  /\ \A k \in {"create", "delete"} : SF_vars(Catalogued(k))

FairSpec == Spec /\ Fairness

-----------------------------------------------------------------------------
(* Properties. *)

\* The rows, the repository and the locks have the shape their readers decode; the
\* Project never holds more Git children than maxChildrenPerProject.
TypeOK ==
  /\ project \in {"none", "maintenance", "active", "deleting"}
  /\ plan.number \in 0..MaxPlans /\ plan.by \in Principals \cup {Nobody}
  /\ plan.phase \in CreationPhase \cup {"none"}
  /\ placement \in {"none", "inactive", "active"} /\ bindings \subseteq Principals
  /\ journal.transfer \in TransferPhase \cup {"none"}
  /\ journal.delete \in DeletionPhase \cup {"none"}
  /\ terminal.kind \in {"none", "retire", "transfer"}
  /\ terminal.unacked \cap terminal.acked = {}
  /\ candidates \subseteq Kinds \cup {"create"}
  /\ repository.stage \in Stages /\ cleanup \in BOOLEAN
  /\ lease \in Actors \cup {Nobody}
  /\ lane \subseteq Actors /\ Cardinality(lane) <= LaneLimit
  /\ planned <= MaxPlans /\ faults <= MaxFaults

\* A Project that serves has the whole repository of its own plan in place, whatever
\* crashes, replays and removals went before (activate, retire and DeletionCoordinator
\* write PostgreSQL and the disk one after the other); the rows keep their types and the
\* lane its limit.
ServedWhole ==
  /\ TypeOK
  /\ project = "active" =>
       /\ placement = "active" /\ plan.phase \in {"activated", "completed"}
       /\ Verified /\ ~cleanup

\* A deletion survives what it deletes: until it completes, its journal stays in the
\* recovery catalog beside the tombstone, and the former Members' result stays readable
\* until its term (remove_project_coordination_content and its allowlist).
DeletionSurvivesContent ==
  /\ ~Terminated(journal.delete) => "delete" \in candidates /\ terminal.kind # "none"
  /\ terminal.kind # "none" /\ ~late => terminal.kept
  /\ journal.delete \in {"traffic-denied", "repository-delete-intent", "repository-removed"} =>
       terminal.unacked \cup terminal.acked = bindings

\* A recovery is never refused by its owner because another one went on with the same
\* journal meanwhile: what it reserved before the lease fits the journal it finds under
\* the lease (#recoverObserved).
RecoveryNeverContradicted == ~contradicted

\* A half-written file of the repository that no call will complete: an intent or a marker, a
\* git init cut off, or the lock of a ref that a killed git update-ref left.
Abandoned == repository.torn /\ \A a \in Actors : ~At(a, "writing")

\* Nothing half done stays: a plan is carried to its end and so is a deletion, except a
\* publication whose half-written file is found by every later attempt (Abandoned).
LifecycleSettles ==
  <>[](/\ Terminated(plan.phase) \/ Abandoned
       /\ Terminated(journal.delete))

=============================================================================

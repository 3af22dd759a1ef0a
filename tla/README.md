# Verification of the Claudian cloud server

TLA+ models of the server in `src/src/`, checked with TLC on small instances and
partly proved with TLAPS for every instance.

## 1. The system and its parts

The server keeps *Projects*. A Project lives in two stores that do not commit
together: PostgreSQL holds the collaboration state (members, change requests,
tickets, events, idempotency results, journals) and a bare Git repository holds
`main` and one personal ref per Member. Every operation on a Project runs in its
*lane*: it holds the Project's PostgreSQL advisory lock on a pinned connection.
Git work needs a permit of a bounded admission queue. Whatever touches both
stores writes a journal first, and an unresolved journal fences later writes
until recovery settles it.

| Component | State | Operations | Interacts with | What makes it correct |
|---|---|---|---|---|
| Accept (`project-authority/acceptance`, `PostgresAcceptPersistence`) | journal rows, phases, results, candidate row | accept, recoverProject | admission, repository, collaboration tables | main in Git and in PostgreSQL differ only by one journal; an intent takes effect once; every journal settles |
| Write admission (`admission/ProjectWriteAdmission`) | in-flight recoveries | run, preflight, runAfterPreflight | lease, Accept recovery | no write passes an unresolved journal; facts read before Git work are revalidated in every transaction |
| Repository authority (`repositories/GitRepositoryAuthority`) | refs, reservations | inspect, materialize, settle, receive-pack, head validation | permits, child processes | main moves only by compare-and-swap to a planned commit |
| Personal refs (`writes`) | - | receive-pack | admission, repository | one fast-forward of the Member's own ref |
| Requests, tickets (`requests`, `tickets`) | rows with revisions, relations | publish, edit, close, reopen | admission | what an Accept reviewed is what it merges |
| Resource admission (`resource-admission`) | permits, queue, counters | acquire, release, close | every Git operation | limits hold, counters are exact, no waiter is forgotten |
| Recovery catalog (`recovery`, `PeriodicReconciliation`, `ProjectLifecycleRecoveryDispatcher`) | candidate rows | periodic, startup and on-demand recovery | every journaled component | every interrupted operation is found again, and its owner is not refused for what another pass did meanwhile |
| Membership, leave (`membership`, `lifecycle/leave`) | members, bindings, invitations, offers, journals | invite, join, remove, leave, promote, demote, offer | repository, admission | a manager remains; seats are bounded; rows and refs agree |
| Creation, retire, deletion (`creation`, `lifecycle/retire`, `lifecycle/delete`) | a plan, a lifecycle journal, the tombstone and the terminal result | create, retire, delete, acknowledge, resume-delete | repository, recovery catalog | what serves is whole; a deletion outlives what it deletes; nothing half done stays |
| Authority transfer (`lifecycle/cloud-to-lan`, `lan-to-cloud`) | transfer journals, fences, claims, staged files | begin, prove, relinquish, activate, cancel, expire, upload | the other authority | at most one authority is active; no Member is locked out; every transfer ends |
| Backup, export (`checkpoint`, `ProductionCheckpointStaging`) | a journal, staging and capture directories, copies, the catalog | create, cancel, recover, deliver, expire | both stores | a published pair is one version; what ended leaves nothing |
| Environment backup and restore (`environment-maintenance`) | a catalog, the restore's file journal, a volume marker, the fence row | backup, restore, recover, cancel | everything a Project keeps | the restored environment answers as the captured one; all or nothing |
| Development bootstrap (`onboarding/development`, `ProjectActivationCoordinator`) | an attempt's row, its staged bundle, the upload gate | report, upload, activate, cancel, expire, recover | repository, recovery catalog | rows tell what is on disk; neither a crash nor a race costs an attempt |
| Events, reads | cursors, wakeups | stream, page | PostgreSQL | no event is missed |
| Server, composition, config | - | HTTP, wiring | everything | - |

PROJECT.json lists every component with its files, and with the reason where it
is not modelled. The behaviours that are hard to test are its hazards: a crash
between the two stores, a lease that drops during Git work, a child process that
outlives it, a retry that meets a recovery, a permanent classification of a
transient failure, waiting for capacity while holding capacity.

## 2. Accept: `ProjectAccept`, `AtomicAccept`

`ProjectAccept` models one Project: Accept with its recovery, and the other
writers that race with it. Its variables are PostgreSQL's rows (`dbMain`,
`service`, `journals`, `requests`, `tickets`, `idem`, `candidate`, `events`), the
advisory lock (`lease`), the refs (`gitMain`, `refs`) and, per worker, the
position in the code (`pc`), its input (`task`), the journal it works on (`op`),
the facts its admission read (`facts`), the refs it compared (`seen`) and its
permits.

One action is one transaction, one Git command or one wait of the code. Accept is
Reserve, Admit, Inspect, Prepare, Materialize, PersistResult, SettleMain,
UpdateRef, MarkMainUpdated, Complete; recovery repeats the steps from Materialize
under its own lease (`r-` steps), and Classify isolates the Project when a step
meets a permanent conflict. `GitFails` is a Git child of a recovery that fails:
`settleAcceptMain` and `#runAcceptOperation` report most such failures as
`state-conflict` (`GitRepositoryAuthority.ts:1331`, `:1858`), so that a killed child
isolates the Project for good, with main before or after its move. Push is ReceiveCheck then Receive; ensureMyRequest is
ValidateHead then ApplyEnsure. A failed transaction (TransactFails), a queue or
lock timeout (WaitTimeout), a cancellation (Interrupt), an abandoned wait
(AbandonRecovery), a dropped connection (LeaseLost) and a crash (Crash) may come
between any two of them. A commit is the set of commits it contains, so that
"main contains the head" and "fast-forward" are set inclusion.

`AtomicAccept` is what clients are promised: an Accept is one step that moves
main from the reviewed main to a commit that contains the head, at most once per
intent and request, and only such an Accept is acknowledged.

| Run | Shows | Bounds |
|---|---|---|
| `accept_safety` | the safety invariants, `MainMovesByJournal`, and that `ProjectAccept` implements `AtomicAccept` | 2 workers and the reconciler; 2 Members whose requests conflict and resolve one ticket, both published, or one still to be pushed and published; 3 operations, 2 faults |
| `accept_liveness` | every journal settles or isolates the Project, every operation ends | 2 workers and the reconciler, 1 published request, 2 operations, 2 faults |
| `accept_closed_ticket` | violation: see section 12 | no fault |

One fault parts the stores between any two steps, a second disturbs the recovery from it; two workers and the reconciler are the processes that may meet at one
journal. Three operations are two Accepts that race and one write that disturbs
them (a push, a close, an edit); a Project with published requests is where
shorter histories lead. The runs give each Project one permit, as
the default configuration does. Deadlock is not checked: after the bounded number of client operations
a quiescent server is a proper end.

*Fairness.* Every started operation runs on (each `Progress(w)` is weakly fair:
the event loop runs what it has, waits have timeouts), and the periodic
reconciliation fires again and again. Clients and faults are not fair, and are
finite: an endless stream of client operations that win the lease each time could
starve a recovery, which the code's polling lock does not exclude.

### What is proved

`ProjectAccept_proof` proves, for every set of workers, Members, requests and
operations, every number of permits and unbounded faults: `TypeCorrect`,
`StoresAgree` (`MainAgreement`), `OneJournal` (`SingleJournal`), `MainMoves`
(`MainMovesByJournal`), `IntentsTakeEffectOnce` (`AcceptedOnce`) and `AcceptIsAtomic`
(the refinement of `AtomicAccept`, for the mapping that the run checks); and
`JournalsAreFenced` (`JournalFenced`) for one permit per Project. The assumptions are
`ConstantAssumption` and `AbsentAssumption`: the constants are what their names say
and the absent markers are not rows. The theorems are about `Spec`, whose Projects are
new; the run begins with published requests to reach the races sooner.

`TypeInv` ties a worker's step to its task and journal; without it a stale worker
could act on a journal that does not exist. `SafetyInv` adds what makes agreement
inductive: a planned merge commit is new (`Known`), it is on main once its journal
is completed, an unsettled journal fenced the recorded main, and a worker that is
about to mark or complete has seen main moved (`MarkInv`). The crux is
`CasUnsettled`: when a stale `update-ref` finds the main it expects, its journal
cannot be completed, because main would contain its commit.

`OnceInv` adds what an intent and a plan leave behind: a completed journal's response
is stored and an unsettled one's is not (`IntentInv`), the request of an unsettled
journal is open at the planned head (`PlanInv`), a commit that refs, requests and
inputs name is a Member's or on main (`ReachInv`), and a worker past `Prepare` works
for the input of its own journal, however long ago it lost its lease (`CallInv`). The
refinement needs it too: that the merge which appears on main is the first of its
intent and request is not a guard of `update-ref` but follows from what `Prepare` found
and what nothing has changed since.

`FenceInv` adds the permits. A receive-pack does not depend on the lease, so that no
transaction stops it from moving the ref that a journal has planned with: only the
permit does. `PermitInv` says which steps hold one, `ReadInv` that what `Inspect`,
`ReceiveCheck` and `SettleMain` have read of the refs is still so when it is used,
`StageInv` that a recovery is at the phase of its journal; from these a recovery that
holds the lease can always take its next step (`CanGoOn`), but for a closed ticket and
a Git child that fails. A journal that was given up keeps its fences too (`Fenced`),
because an isolated Project takes no writes and a receive-pack still needs the permit:
settling it by hand starts from what it had planned. With two permits the statement is false (section 12), hence `MaxPerProject = 1`, the
default of `ServerConfig.ts:320`. Liveness stays with TLC.

## 3. Resource admission: `ResourceAdmission`

The queue of permits for Git child processes, on one event loop. The state is the
code's: `active`, `activeByProject`, `queued`, `queuedByProject`, `queue`,
`closed` and `draining`; `calls` records what each call asked and how it ended. An
action is one handler, but `#drainQueue` is one action per turn of its loop, and
the listeners of one aborted signal run one after the other, so that another
listener of the same signal may come between two of them.

| Run | Shows | Bounds |
|---|---|---|
| `admission` | limits, exact counters and no idle capacity beside a waiter it could serve (`QueueExact`); no overtaking in a lane, no grant after a cancellation or close (`GrantsInOrder`); `close` resolves | 3 calls, 2 Projects, 1 shared signal, 2 children (1 per Project, 1 per class), 3 queued (2 per Project, 2 reads, 1 write) |

Three calls fill every limit on children and the writers' queue, and let two waiters
of one lane compare their order. The limits on the whole queue and on a
Project's queue would need a fourth call to refuse one; they have the form of the class's, and a fourth
call takes the run past five minutes. *Fairness*: the event loop goes on (`Drain`, `AbortListener`) and
a granted permit is released, because its child ends or is killed. Calls are finite: under an
endless load, a waiter that needs both a Project's place and a class's place
can be passed by others, each of which needs only what is free, until its timeout.

`AdmissionAndRestore_proof` proves, for any number of calls, Projects and signals and for
every configuration that `normalizeOptions` admits (`OptionsAssumption`), that the
counters are exact (`QueueIsExact`) and that no permit overtakes (`NoOvertaking`), on
queues and limits of any length, the whole queue's and a Project's included, which the
run cannot fill. `Accounts` says that each counter is the number of calls that stand
so and that the queue holds each waiter once; the lemmas `CountIn`, `CountOut` and
`StepOut` carry it through one call that changes its standing. The second conjunct that
matters is `WorkConserving`: because between handlers no waiter could be granted, a new
call that can be granted takes nobody's turn, though the code never asks who waits.
It is inductive only with `closed => queue = <<>>`, since a closed admission no longer
drains.

## 4. Events: `ProjectEvents`

The retained log in PostgreSQL (`latest`, `retained`), the wakeup, the admission
of connections (`active`, `pending`) and each session's loop (`session[s].pc` is
the await at which it stands). A commit and its notification are two actions; another process may
commit without any notification here. History variables `noticed` and
`revokedAt` record what a property compares.

| Run | Shows | Bounds |
|---|---|---|
| `events` | what a stream sends is the gap-free continuation of its cursor or a demand for a snapshot, and nothing newer than its Member's removal (`ReplayExact`); no wake is lost (`NoLostWake`); every committed event reaches a stream that stays, and shutdown ends (`EventsArrive`) | 1 session on 1 Project; a log of 3 events of which 1 exists at first and of which pruning leaves 1; replay of 2; 1 pending authorization |

The log may be pruned under the stream, so that its cursor falls before a gap, and an
event may be committed by another process, so that nothing but the poll finds it.

*Fairness*: each session runs on; a read at capacity is retried, and is not
refused for ever (strong fairness of the read). The poll interval makes up for
notifications of other processes.

`EventsAndBackups_proof` proves, for any number of sessions and Projects, logs and limits of
any size and whatever pruning takes (the newest event stays), that the replay is exact
(`ReplayIsExact`) and that no wake is lost (`NoWakeIsLost`), with the many sessions that
share a Project's chain of reads and the admission's counters, of which the run has one.
`Batched` says that what a session has in flight is everything between its cursor and
`upTo`; `Logged` that all of it was committed while the Member still belonged, and that
a session which was not woken since it read has read up to `noticed`. `Chained` is
what makes a read safe to settle: a session stands in its Project's chain once, only the
first has a result, and whoever stands there waits at the read, so that a result
never lands on a session that is sending. `Admitted` makes the counters the numbers of
sessions that hold a place, which is why no counter goes below zero. `InvariantHolds`
states the invariant from logs of any length, `InitLog(n)`, of which the run takes
`n = 1`.

## 5. Authority transfer from Cloud to LAN: `CloudToLanTransfer`

The transfer hands the Project to a Member's own host. Its rows are the
journal with its recovery record (`transfer[t]`: phase, evidence, checkpoint, batch,
cancellation, proof, expiry), the protected claims (`claims`, `redeemed`,
`claimsExpired`), the receipt keys (`keys`), the responder, the deletion that follows,
`service` and `generation`. `files` is the staged checkpoint on disk, `directory`
and `detached` the directory it is captured in, `host`
the other machine, `pc`/`job`/`lease` the calls in the server.

A call starts with what it reads before its lane (`Preflight`, which chooses
the reservation), enters the lane (`EnterLane`, with `FirstStep` from
what it reads there) and goes on one transaction or one disk effect at a time:

- forward: `Begin`, `AcceptTarget`, `Quiesce`, `Snapshot`, `MakeDirectory`,
  `MarkOwner`, `StageFiles`, `RecordCapture`, `StageClaims`, `RetainClaims`, `PinKey`, `Relinquish`;
- hand-over: `Activate`, `DiscardDelivered`, `Renew`, `RenewClaims`, `Complete`,
  `AcknowledgeRedemption`;
- backward: `StartCancellation`, `SettleUnaccepted` or `ConfirmInvalidated`,
  `DiscardCancelled`, `DropClaims`, `DropKey`, `Clean`, `Reopen`,
  `FinishCancellation`.

`Admits` is what each transaction requires; without it, or with a lost
lease, the call is `Refused`. `Expire` is the clock, `LoseLease`, `Fail`, `CutRemoval` (a
discard that stops after the directory's rename) and `Crash` the faults; after a crash the server may sign with another key. An
Accept that was interrupted before (`AcceptInterrupted`) is recovered beside
the transfer, because it writes the same protected main.

| Run | Shows | Bounds |
|---|---|---|
| `transfer` | one authority (`SingleAuthority`), claims kept, checkpoint current, files, keys and claims that follow the transfer (`EvidenceFollowsTransfer`), no way back and no reopening before the cleanup (`ForwardOnly`), and an end of every transfer (`TransferEnds`) | 1 client and the reconciler, 1 transfer, the host and 1 Member, 2 keys, 1 fault |

One transfer is enough for the passing run because only one is live at a time; that
nothing a finished one leaves behind matters, and that the number of Members does not,
is what the theorems below show for five of the six properties. Two keys and one
fault are a restart with another key at any step. The run checks deadlock: a transfer
can always be begun again, or the host can answer again.

*The exceptions.* `Stuck`: an acceptance that comes after the expiry, or while a
cancellation is under way, is stored before the coordinator looks at either
(`CloudToLanTransferCoordinator.ts:782`). The source is then still active although the
target's evidence is on record, and `ProjectAuthoritySourceFence.reopen`
(`ProjectAuthoritySourceFence.ts:48`) takes that for a state that cannot be: after the
host's cleanup proof the transfer stays at `target-cleaned`, where
`ARCHITECTURE.md:102` says that this proof permits the cancellation. A transfer may also
begin beside the unresolved journal of an Accept; `CheckpointCurrent` holds because the
Accept's completion then finds the Project quiesced.

`Unowned`: the directory of a capture and its owner marker are two steps
(`RepositoryCheckpointAuthority.ts:1786`, `2695`), and only the call that made the
directory may write the marker. After a stop in between it refuses every later capture
and every discard; so does the staging attempt's own marker, torn at its `.part`
(`ProductionCheckpointStaging.ts:643`, `1109`, `1571`), which `directory` stands for too.
A removal cut off after its rename is refused in the same way once the directory is made
again (`DurableTreeRemoval.ts:199`). A first capture that is stopped there
leaves no checkpoint on record, so its cancellation has nothing to discard
(`CloudToLanTransferCoordinator.ts:2106`): the transfer expires and ends. Where a
checkpoint is on record the transfer stays at `target-invalidated` or `lan-activated`; that
takes a call that lost its lease, captured late beside the discard, and stopped there
itself. With the one fault of `transfer.cfg`, or with two, no behaviour gets so far; with
three it does, and the other properties hold there.

*Fairness* (`FairSpec`): a call's steps run on; PostgreSQL queues the waiters of an
advisory lock, so entering the lane is strongly fair; the periodic
reconciliation visits each candidate again and again; time passes; a host that can
activate or invalidate does, and reports until it is answered. The Manager's calls are not fair.

*Abstractions.* Members are constant, since a lifecycle journal that is not
terminal blocks membership changes. The fence's check is merged with the
transaction that repeats it, and the read before a completion with the transaction that revalidates
it. The consistency check of a checkpoint lies in an external package. Preparations
before `begin`, status reads, downloads, and `expire`, which has no production
caller, are left out.

### What is proved

`CloudToLanTransfer_proof` proves, for every set of clients, transfers, Members
and keys and any number of faults, from `TransferAssumption` alone:
`TypeCorrect`, `OneAuthority` (`SingleAuthority`), `NoMemberLockedOut`
(`ClaimsKept`), `CheckpointExact` (`CheckpointCurrent`), `EvidenceKept`
(`EvidenceFollowsTransfer`) and `GivenAway` (`ForwardOnly`, from `NoWayBack` for
`StaysRelinquished` and `ReopenedByProof` for `ReopenAfterCleanup`).

`TypeInv` adds to the types that the generation moves only with the end of
service. `SafetyInv` ties each phase to the service state and the proof
(`Authority`), to the claims (`Custody`) and to the recorded main (`Capture`),
says that one journal is live (`OneLive`), and what the holder of the lane
knows where no guard reads it again (`LaneKnows`): claims are dropped only past the
invalidation, and a capture records the main it saw. `Edges` states once
which phase each transaction leads from and to; the rest of the proof uses only that.
`OneLive` is needed because one transfer's reopening or relinquishment would
otherwise change the service state under another.

`EvidenceInv` adds what is kept beside the journal, transfer by transfer: the staged
files, the one key, the claims of a batch and their expiry (`Evidence`); and what a call
knows without the lease (`CallKnows`). Staging and discarding write to disk after
the lease may have dropped, and no guard stops them; they are late and not wrong because
a phase past the quiescence never comes back, so that the main which such a call captured is
still the one on record.

`ReopenInv` adds that past the invalidation a read-only source has an invalidated
target (`Reported`), and that only a call made with the host's word confirms it
(`Reports`). A transfer that never accepted settles while the source is active;
`OneLive` keeps any other from making the source read-only before that one ends. Liveness
is model-checked only.

## 6. Membership: `ProjectMembership`

Who belongs to a Project: the rows of members, bindings, invitations and offers
(`members`, `bindings`, `invitations`, `offers`, the manager set's `generation`), the
journals of joins, removals and leaves, and the personal refs these create and
delete. A journaled call takes a Git permit, then the lease (`Start`,
`AcquireLease`), finds or prepares its journal (`Replay`, `PrepareJoin`,
`PrepareRemoval`, `PrepareLeave`, `Refuse`) and then alternates between Git
(`CreateRef`, `VerifyRef`, `DeleteRef`) and transactions (`InsertPendingMember`,
`RecordRefCreated`, `ActivateJoin`; `SettleRemoval` or `SettleLeave`,
`RecordRefRemoved`; `Complete`). `Recover` resumes any of them from its phase.
Administration is one transaction under the lease and passes no unresolved
journal; `ReconcileExpirations` takes the lease and looks at no journal. The
clock is a flag `due` on each row with a term.

| Run | Shows | Bounds |
|---|---|---|
| `membership` | a manager remains (`AlwaysManaged`); seats are promised and taken once, an invitation admits one member, bindings, refs and requests follow the membership (`RowsFollowMembership`); offers describe the Project and what was prepared still settles (`PreparedExitsSettle`); every journal completes (`MembershipSettles`) | 3 members of whom 2 start, 2 seats, 1 invitation, 1 offer, 2 journaled operations, 1 caller and the reconciler, 3 generations of the manager set, 1 fault (a crash or a failed Git child) |

Two seats make the quota bite: somebody has to leave before another is invited.
Two operations suffice for two exits that compete and for a join after an exit,
since the fence lets only one be unresolved. One member pushes and opens a request
(`Author`), so that an exit has something to discard. A ref that is not the
expected one (`WrongRef`) does not arise in the run: it takes a second Git permit for
the Project. *Fairness*: a call runs on, permits and the lease are queues (strongly fair),
and recovery comes again.

*The exceptions.* `Stranded` is the leave of a last manager that was prepared, and
then interrupted before it settled, while the term of the successor's offer passed. The
expiry reconciler expires the offer, although the leave was accepted at the time of its
preparation, which is the time its settlement uses (`LeaveCoordinator.ts:545`).
The settlement then finds no successor and answers `recovery-required` on every
retry and recovery pass; the journal stays active and fences the Project. A join is
not exposed to this: its invitation is `redeeming`, which does not expire.
`GivenUp` is a leave whose Git child failed while it deleted the ref (`GitFails`): the
authority reports a killed or unavailable child as `repository-invalid`
(`RepositoryCheckpointAuthority.ts:966`), the leave marks its journal
`recovery-required` (`LeaveCoordinator.ts:606`), and every later call and pass refuses it
(`:519`) while it fences the Project. `MembershipSettles` lets a journal end there only
with its ref as expected or gone, so that what remains by hand is what the journal says.
`PreparedExitsSettle` excepts only `Stranded`, `MembershipSettles` both.

### What is proved

`ProjectMembership_proof` proves, for any members, invitations, offers, intents and
workers, any quota and any faults: `NeverWithoutManager` (`AlwaysManaged`),
`ExitsSettleAsPrepared` (`PreparedExitsSettle`), `InvitationsAdmitOne`
(`InvitationTracksJoin`, the part of `RowsFollowMembership` about invitations) and, for
one Git permit, `MembershipIsOneTruth` (`RowsFollowMembership`). `MembershipAssumption`
asks that members and invitations are finite and the founders within the quota;
`NoRowAssumption` tells an absent row from a row.

`IInv` is the types and four parts. `ControlInv`: one journal is unresolved, it keeps its
request, and whoever holds the lease knows its phase. `RowInv`: what each phase has done
to the member's rows, and that what an exit was prepared for still holds, which makes
`AlwaysManaged` inductive, since the settlement asks for the second manager no more than
its journal remembers. `ReservedInv`: an invitation has one join, in step with its state.
`SeatsBounded`: a cardinality that a join moves from the reserved invitations to the
members. `RefInv` needs the single permit: a call that has lost its lease may go
on creating or deleting a ref, and only the permit keeps the next call from its place.

## 7. Authority transfer from LAN to Cloud: `LanToCloudTransfer`

The other direction: a Member's host gives its Project to the server. The journal
(`phase`, `batch`, `recovery`), the inactive Project it prepares (`project`,
`placement`, `bound`), the claims and the batch's receipt are rows; `staging` and
`files` are what the host uploaded, `import`, `detached` and `repository` the importer's
directory, what a cut removal left of it and where the repository is published; `pending` is the batch whose secrets exist only in memory; `source` is the
host. Uploads (`upload[u]`) run outside the Project lease and beside the transfer's
call (`op`): authorize, prepare the directory, receive, confirm, complete.

A call is `begin`, `complete`, `rotate`, `acknowledge`, `commit`, `cancel` or
`recover`; `CompleteStep`, `CommitStep`, `CancelStep` and `RecoverStep` give the next transaction or
disk effect from the phase, as `#resume` and the dispatcher do. Forward the phases are
`source-quiesced`, `checkpoint-received`, `checkpoint-validated`, `claims-retained`,
`repository-published`, then the fence `source-relinquished`, `cloud-activated`,
`completed`; backward `cancel-intent`, `target-invalidated`, `target-cleaned`,
`source-reopened`, `cancelled`.

| Run | Shows | Bounds |
|---|---|---|
| `lan_transfer` | the Project is served only once the host gave it up, and never after the host reopened its own (`SingleAuthority`); the fence is crossed with everything durable that activation needs, and one redeemable batch (`FenceIsSafe`); a cancelled transfer leaves nothing that serves or admits (`CancelledLeavesNothing`); the journal never goes back (`ForwardOnly`) and settles (`TransferSettles`) | the host and 1 other Member, 3 Principals, 2 files, 1 upload, 2 batches, 1 fault |

Three Principals are the host, the Member and a stranger; two batches are one
rotation; two files let one be uploaded without the other. A fault is a failed step, a
refused checkpoint (its discard may be cut off), a cut removal, a lost reply or a crash; one
is enough for each of the exceptions below. *Fairness*: a step ends, an upload's
stream has a deadline, and the periodic recovery calls `recover` again and again
(strongly fair, because the host's own calls may hold the lane each time it looks).

*The exceptions.* A transfer that is relinquished and whose deadline passes before it is
activated stays at `source-relinquished`: activation reads the staged files, and
`ProductionCheckpointStaging.#readArtifact` refuses an expired attempt
(`ProductionCheckpointStaging.ts:1402`, `:2045`), although `ARCHITECTURE.md:102` says that
relinquishment makes recovery forward-only. `TransferSettles` names it with
`\/ expired`. `Undiscardable`: a directory that neither a later attempt nor a discard
takes. The importer makes its directory (`GitBundleImporter.ts:529`) and then writes the
owner's marker, which only the call that made the directory may do (`:568`): a crash or a
failed write in between refuses every later import and discard. The marker of the staged attempt is
written through a `.part` (`ProductionCheckpointStaging.ts:643`): torn there by a
crash, it refuses every later preparation and discard (`:1109`, `:1571`). And a refused
checkpoint whose discard is cut off after the rename conflicts, once the host uploads again and the
import is made again, with every later discard (`DurableTreeRemoval.ts:199`), although the transfer goes
forward as far as `cloud-activated`. The transfer then stays at `target-invalidated` or
`cloud-activated`. And an upload that was authorized before a cancellation makes the
attempt's directory and its reservation again after the cancellation removed them
(`AuthorityTransferArtifactAuthority.ts:121`); `CancelledLeavesNothing` therefore
speaks of what could serve or admit and not of `staging`.

*Abstractions.* One transfer is followed: the next of the same Project begins
only when this one is terminal. Signatures and digests are represented by what they
bind: a proof names its batch, a checkpoint that is not the host's is
`InvalidCheckpoint`.

### What is proved

`LanToCloudTransfer_proof` proves, for any Members, Principals, artifacts, uploads,
batches and faults, from `LanTransferAssumption` alone: `OneAuthority`
(`SingleAuthority`), `NothingMissingPastTheFence` (`FenceIsSafe`), `CleanedForGood`
(`CancelledLeavesNothing`) and `OnlyForward` (`ForwardOnly`).

`IInv` says of each phase what the rows and the disk hold then (`StateInv`, one part
per store), what the call that holds the lease has seen to before its step (`OpInv`),
and that a host which commits has relinquished and acknowledged the batch (`CommitInv`).
`OpInv` is needed because the steps act on what an earlier transaction of the same call
found: the directory and files that `stage` relies on, or the absent import and repository
that `clean` records, are read once. The uploads need no part of it: the state
that they write, past authorization, is not read by any of the four properties.

## 8. Backup and export: `BackupExport`

One backup or export of one Project. The Project's content is a version number that
an Accept moves first in Git, then in the rows. The journal (`phase`, `profile`,
`fingerprint`, `digest`), the maintenance state, the staging directory, the capture
with its bundle and its durable removal, and the published copies are separate stores;
every write to one is an action. `Overdue` is the five-minute budget, `Expire` the
export's term, `build` the server's build, which the journal is bound to.

| Run | Shows | Bounds |
|---|---|---|
| `backup` | what is published is one version of rows and repository (`PublishedExact`); what ended leaves nothing and the Project open (`EndedLeavesNothing`); every operation ends and no export outlives its term (`OperationSettles`) | 2 versions, 2 builds, 2 failures or crashes |

Two versions tell a torn pair from a whole one; two faults are needed to fail the
recovery of what the first one interrupted. *Fairness*: a call goes on, the dispatcher
recovers each active journal, deliveries are reconciled, time passes; nobody need
create, cancel or delete. Recovery is strongly fair, because a create runs it first.

*The exceptions.* `Stranded` is a removal that a crash cut off after its rename
(`DurableTreeRemoval.ts:199` refuses when both the directory and its renamed
predecessor are there, and the verification before it makes the directory again,
`RepositoryCheckpointAuthority.ts:1776`), or a journal of another build. The journal
stays active and the Project in maintenance, although `ARCHITECTURE.md:103` calls
completion forward-only after publication. `LeftBehind` is a removal of the copies
that was cut off behind their delivery marker: `#discardAttempt` takes the delivery
marker, the owner marker and the directory away in turn
(`ProductionCheckpointStaging.ts:1633`, `:1646`, `:1652`), and
`listDueAttemptDeliveries` skips a directory that has no delivery marker (`:963`). The
files of the export are gone by then; the directory stays.

*What ends at an operator.* A torn part of an owner marker (`:1571`) refuses a
cancellation, a torn delivery marker or a Git child that fails while the published bundle
is verified (`RepositoryCheckpointAuthority.ts:966`) a publication: the journal is
marked `recovery-required` (`stuck`). One operation is followed; that a torn delivery
marker makes `listDueAttemptDeliveries` fail for every export of the server is outside.

### What is proved

`EventsAndBackups_proof` proves, for any number of versions, builds and faults, from
`BackupAssumption` alone: `PublishedIsWhole` (`PublishedExact`) and `EndedIsClean`
(`EndedLeavesNothing`). `PhaseInv` ties each step of a call to the phases it belongs to,
`CaptureInv` what has been read and staged so far to the version that the capture began
with, `RemovalInv` and `EndedInv` what a removal has removed so far. They are needed
because a recovery resumes at any phase and does not read again what an earlier step
recorded: that the two halves are of one version follows from the closed Project
(`ClosedInv`) and not from a comparison.

## 9. Environment backup and restore: `ContinuityRecords`, `EnvironmentRestore`

`ContinuityRecords` is what an environment backup keeps of a Project's database, record
kind by record kind, and what a restore inserts: a database is a set of rows with table,
identity, state, reference and number. `Answers` are the service's replies that depend
on them: which invitation, claim, override or link is spent, which Principal is barred,
which result or event is kept. The readers take the verifiers of vault Principals only
(`PostgresProjectCheckpointPersistence.ts:417`), so `DevelopmentPrincipals` names those
of the development profile, which are not barred by a kept verifier; they cannot join
here at all (`CloudProjectJoinCoordinator.ts:170`). `EnvironmentRestore` extends it with the two processes. The
backup lists the Projects, captures each, reads the terminal records and publishes
while the source serves; the restore is driven by a journal in files, each written as
create, fill and rename, by a volume marker, and by the fence row of the database, and
a process may stop between any two of these.

| Run | Shows | Bounds |
|---|---|---|
| `restore` | a catalog is one cut although Projects retire meanwhile, publication is whole, a cancelled restore leaves nothing (`WholeOrNothing`); the restored database answers as the captured one (`AnswersKept`); a restore that began completes or is removed (`RestoreSettles`) | 5 source environments (`MCSources`) of 2 Projects, one of which may retire; 2 stops, 2 restores, 1 cancellation |

The five sources together hold every record kind. Two stops interrupt a step and
its recovery; two restores show what a cancelled one leaves to the next. *Fairness*:
a process runs on, and the deployment runs `recover-restore` at every start
(`deploy/README.md:92`), a failed start being repeated (strongly fair).

*The exceptions.* `TornPart`: `#writeAtomic` creates the `.part` file exclusively and
fills it next (`FileEnvironmentRestoreState.ts:703`). A process killed in between
leaves an empty part that every later call fails to parse, so that neither recovery nor
cancellation goes on, also after publication, where `ARCHITECTURE.md:105` says the
environment recovers forward. `Unowned`: the importer makes the staging directory of a
Project and then its owner marker (`GitBundleImporter.ts:529`, `:568`), which only the
call that made the directory writes. A process killed in between leaves a directory that
every later stage and discard refuses (`EnvironmentRestoreRepositoryAdapter.ts:150`,
`:231`), so that neither recovery nor cancellation ends; a cancellation has by then
removed the database, and the rest stays.

*Assumed*: no server runs beside the restore, the keys
under custody are there, the file lock excludes a second process, and the clock does not
go back. The Projects' empty directories stay after a cancellation, so a new restore to the same
volumes is refused.

### What is proved

`AdmissionAndRestore_proof` proves, for every set of Projects, any number of
retirements, stops, restores and cancellations, and every set of source environments
that two assumptions admit: `SourcesAssumption` (rows have the five fields, the row of a
Project names it and main, a Project without a placement has a tombstone) and
`ReferencesAssumption` (below), which only the second result needs:

- `RestoredWhole` (`WholeOrNothing`);
- `AnswersSurvive` (`AnswersKept`);
- `AuthorityIsKept`: once a restore has published authority, no cancellation, cleanup,
  recovery or stop takes the database, its placements, a repository or the mark of the
  volume back.

The inductive invariant is `RestoreInv`. `Reached` says what each phase of the journal
stands for, and `Unreached` what no earlier phase can have left behind. `OwnedInv`, proved
beside it, says that a staging directory without its owner is met from the staging on and
never where a cancellation removes the journal: a cancellation that ends has left none. A
process may
die between the creation of a `.part` file, its filling and its rename, and the next
one promotes the part that it finds; hence `Planned`, which says what a journal in
writing, or left in its part, may claim. `RemovalInv` and `CallInv` say how far a cleanup has come: the
database goes before the repositories, and these before the journal's own files.
`CatalogInv` says that a Project which the catalog does not list has ended. The lemmas
`RecordsOfProject`, `TerminalRowsReadBack` and `RowsImported` are about the readers and
the inserts of `ContinuityRecords`. TLC confirmed the invariant on the run and on a
larger instance (4 stops, 3 restores, 2 cancellations: 257,965 states).

`AnswersSurvive` is the round trip of an arbitrary database. `AnswersBack` is its core:
if the rows of a restored Project are, beside the Project's own row, what the inserts make
of `Taken(db)` and of `ReadTerminal(db)`, then `Answers` of the two databases are equal.
`RecordsOfKind` and `RowsOfTable` reduce both artifacts to one table at a time; a table
that is copied comes back as it was, and one that is split by `terminalTransferFilter`
comes back from its two halves (`CopiedBack`); the tables that are rebuilt from other
records have a lemma each, `BarredBack` for the vault bindings that were revoked,
`ClaimsBack` for the claims of the current batch, which need the journal that names the
batch, `JournalsBack` for the creations, joins and removals that become recovery records.
`AnswersInv` adds to `RestoreInv` what ties the state to that lemma: a live entry is the
capture of a source that has at most retired since, a published catalog's terminal
records are those of the same source (a retirement between the two is the conflict that
abandons the attempt), and the database holds one or both artifacts of the Project. TLC
confirmed it on the run.

`References` is what a source must satisfy for this: bindings and verifiers belong to
Members that are not pending, the creation or join of a bound principal and the lifecycle
of a completed removal are complete, the journal of a claim is that of a transfer,
retained results are not those that journals answer, and a cursor counts from 1. The
first half are foreign keys and checks of the schema, the other what `create()` brings
about when it recovers the Project before it captures it. A join prepared between that
recovery and the capture is outside the assumption, and so outside the theorem.

## 10. Development bootstrap: `DevelopmentBootstrap`

An attempt brings a LAN Project into the development profile: two Members report, a
bundle is uploaded, staged and validated, and the attempt is activated (repository
published, Project inserted) or cancelled. `row` is the attempt's row with its
settlement phase, `candidate` and `expiring` the catalogs of the passes, `target` and
`cleanup` its directories, `repository` the published one. A coordinator's call holds
the lease from its first read to its end; uploads import outside it, under the gate
(`admitted`, `closed`) and the advisory lock that the call drains before it touches
staged files.

| Run | Shows | Bounds |
|---|---|---|
| `bootstrap` | the rows describe the disk and the catalog the settlements (`RowsTellTheTruth`); only a changed Project, a torn directory or a failed reading sets an attempt aside (`SetAsideForCause`); expired attempts and settlements end (`SettlementEnds`) | 1 attempt, 2 reporters, 1 caller and the pass, 2 uploads, 1 crash, failed step or failed reading |

Two uploads are what a gate must drain: one that imports and one that is admitted.
*Fairness*: imports have deadlines, calls run to their end, the pass comes back and
polls the advisory lock (strongly fair).

*Observation.* An activation whose answer was lost may be repeated after Members have
used the Project. The replay compares the Project with its first rows and refs
(`ProjectActivationCoordinator.ts:532`) and sets it aside: a serving Project leaves
service. `SetAsideForCause` counts this as a cause (`used`). So does a marker or a
repository that cannot be read for a moment: every error there is a `marker-conflict`
or `repository-invalid` (`RepositoryPublication.ts:338`,
`BootstrapRepositoryIntegrityVerifier.ts:74`), which the coordinator classifies
(`ProjectActivationCoordinator.ts:541`), also for a Project that serves; `misread`
remembers whose settlement met it. Likewise a directory is
*torn* when a crash falls between its creation and its marker, inside an in-place
removal (`RepositoryPublication.ts:572`), or when an upload stages beside a detached
predecessor.

### What is proved

`DevelopmentBootstrap_proof` proves, for any attempts, callers, uploads and faults, from
`BootstrapAssumption` alone:

- `RowsTruthful` (`RowsTellTheTruth`) and `SettlementConflicts` (`SetAsideForCause`);
- `SettlementsRunAlone`: past the drain a call holds the lease of the Project alone and
  no upload holds the gate of its attempt;
- `OneAttemptAtATime`: one attempt at most is in progress, active or set aside.

`AttemptInv` describes one attempt: the shape of its row and the service state it
implies (`StandingInv`), what is on disk at each phase of its settlement (`StagedInv`),
and what an attempt that is over has left (`OverInv`). Uploads import outside the lease,
so none of these follows from mutual exclusion alone: `UploadInv` says that one upload
at most imports and what it knows of the directory it finds, and `LeaseInv` and
`StepInv` what a call may rely on at each of its steps, before the drain and after it.

## 11. Creation, retirement, deletion and their recovery: `ProjectLifecycle`

One Project ID from its creation to the end of its terminal result. `plan` is the
creation journal, `journal` the two lifecycle journals that recovery dispatches
(transfer and deletion), `terminal` the tombstone with the responders, `candidates`
the recovery catalog; `repository` says whose plan is on disk, how far published or
removed, and whether a file is half written (`torn`). A call takes a place in the
Project's Git lane (`EnterLane`), then the lease. A recovery reads the journal before
either (`Observe`), because its kind decides the reservation, and compares under the
lease (`Unchanged`).

| Run | Shows | Bounds |
|---|---|---|
| `lifecycle` | a Project that serves is whole (`ServedWhole`); a deletion's journal, candidate and terminal result outlive the rows it deletes (`DeletionSurvivesContent`); no recovery is refused because another one moved the journal it had read (`RecoveryNeverContradicted`); everything half done is carried to its end (`LifecycleSettles`) | 2 Principals of whom 1 calls, 2 workers, 1 place in the lane, 1 plan, 1 crash or failed step |

Two workers and the caller's own calls may meet at one journal: a worker compares what it
read with what the other worker or a target's proof made of it. The invariants also held
with two faults (578,634 states, the workers being interchangeable), and all four
properties with one worker and two faults.
*Fairness*: calls run on, their waits being queues and polled locks (strongly fair),
and each creation or deletion candidate is visited at every start and interval.

*The exceptions.* `Abandoned`: `EmptyProjectRepositoryAuthority` writes its files
exclusively (`:276`), and a crash inside one leaves half a file that every later
attempt takes for another plan's. A `git init` killed midway leaves a directory that is
neither empty nor a repository (`:534`), and a killed `update-ref` the lock of its ref.
(A repository that is initialised but lacks its objects is resumed.)
The creation then never ends, although
`ARCHITECTURE.md:97` says that exact partial repositories are completed. And once a
deletion after a Cloud-to-LAN transfer has removed plan and Project, `prepare` reads
only the creation journal and the projects row
(`PostgresCloudProjectCreationPersistence.ts:302`), not the tombstone: with two plans TLC
finds the same Project ID created again at generation 1, where `ARCHITECTURE.md:115`
says that admission never reopens after relinquishment.

### What is proved

`ProjectLifecycle_proof` proves, for any Principals, callers, workers, plans, lane and
faults, from `LifecycleAssumption` alone: `ServedProjectsAreWhole` (`ServedWhole`),
`DeletionOutlivesContent` (`DeletionSurvivesContent`) and `RecoveryAccepted`
(`RecoveryNeverContradicted`). `RowInv` relates the rows and the disk: the plan's phase
and the Project's state (`PlanInv`), what serving requires (`ServedInv`), what a deletion
keeps (`DeletionInv`). `LockInv` and `CallInv` add the calls: a half-written file is that
of the one call that holds the lease (`WriterInv`), and a recovery holds the reservation
which the journal it read asks for (`RecoveryInv`), so that the journal it meets
under the lease is one that this reservation serves.

## 12. Where code and documents part

One disagreement is kept as a run of its own:

| Run | What the code does | What is said |
|---|---|---|
| `accept_closed_ticket` | an Accept whose resolving ticket was closed moves Git main, then cannot complete; recovery isolates the Project. No fault is needed | "New mutations cannot pass an unresolved journal" (`ARCHITECTURE.md:91`), and the assertion of `complete` (`PostgresAcceptPersistence.ts:719`) |

The models are of the code as it is, so the other disagreements are named
exceptions of properties that pass: `gitFailed` (2), `Stuck` and `Unowned` (5),
`Stranded` (6, 8), `GivenUp` (6), the deadline after the fence, `Undiscardable` and the
late upload (7), `LeftBehind` (8), `TornPart` and `Unowned` (9), the replay after use and
`misread` (10), `Abandoned` and the second life of a Project ID (11). An Accept that meets an unresolved journal recovers it
while it holds the Git permit that the recovery needs; `JournalSettles` passes because
the queue's timeout ends the wait.

A bound that matters: `JournalFenced` rests on the single permit per Project of the
default configuration. With `MaxPerProject = 2` TLC finds a receive that has
lost its lease, keeps its child running on the second permit, and moves a
personal ref under a journal reserved meanwhile.

## 13. Checked and proved

TLC checks every invariant, action property and liveness property of the runs on the
bounds above. TLAPS proves, for all constants, every safety property of the passing
runs; each section above names its theorems. Two of them,
`JournalsAreFenced` and `MembershipIsOneTruth`, are for one Git permit per Project.
Every proof has the same shape: the inductive invariant is checked by TLC on the run's
instance first, then one lemma per action (or per group of actions that write the same)
shows that it is preserved, and the theorem combines them.

Each proof module extends the module it is about. `EventsAndBackups_proof` and
`AdmissionAndRestore_proof` hold the proofs of two components each, which share no state:
this is why `ProjectEvents` and `ResourceAdmission` name their formulas
`EventsInit`, `AdmissionSpec` and so on, and their companions plainly `Init` and `Spec`.

What stays with TLC, and why:

- every liveness property, because fairness and ENABLED are out of the prover's reach;
- `CompletionClosesTickets`, which does not hold (section 12).

## 14. What is not modelled

- Pure input and output (HTTP routes, child process plumbing, logging, configuration,
  DDL), cryptography, and the encodings of cursors and frames keep no state that
  a property here is about; Git object checks are the outcome of one step.
- Receive, checkpoint-stream and bootstrap-upload admission are counters and queues of
  the pattern of `ResourceAdmission` with a free-space probe; in the modules that use
  them, a refusal is one of the failures of a step.
- Membership: claim overrides, recovery links and the receipts of idempotent
  administration; what a backup keeps of them is in `ContinuityRecords`.
- Reads other than the event page answer from one transaction and change nothing.
- Start-up order: a creation that recovery cannot complete (`Abandoned`) also makes the
  start-up recovery reject (`ProjectRecoveryCoordinator.ts:59`); no module follows the
  process from start to stop.

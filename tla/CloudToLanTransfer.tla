------------------------- MODULE CloudToLanTransfer -------------------------
(***************************************************************************)
(* Moving the authority over one Project from this server (Cloud) to a     *)
(* Member's own host (LAN).                                                *)
(*                                                                         *)
(* CloudToLanTransferCoordinator advances one lifecycle journal per        *)
(* transfer, under the Project's lease; ProjectAuthoritySourceFence checks *)
(* the Project's service state before each hand-over step;                 *)
(* CloudAuthorityTransferCheckpoint stages the files the host downloads;   *)
(* the recovery dispatchers resume what a crash interrupted. The host is   *)
(* another machine: it answers late, repeats itself, or never answers.     *)
(* Beside the transfer runs the recovery of an Accept whose journal was    *)
(* left behind, because it writes the same protected main ref.             *)
(*                                                                         *)
(* One action is one PostgreSQL transaction or one effect on disk or in    *)
(* Git. After each the code reads the transfer again, so an action's guard *)
(* reads the current state; Refused is the code's early return.            *)
(***************************************************************************)
EXTENDS Naturals, FiniteSets

CONSTANTS
  Client,       \* calls the server handles concurrently
  Reconciler,   \* the worker of PeriodicReconciliation
  Transfer,     \* transfer ids
  Member,       \* active Members of the Project
  Host,         \* targetHostMemberId
  SourceKey,    \* receipt keys the server may sign with
  NoWorker, NoKey,
  MaxFaults     \* bound: interrupted Accepts, lost leases, failed calls, crashes

Worker == Client \cup {Reconciler}
Main   == {"old", "merged"}   \* protected main without and with the interrupted Accept

ASSUME TransferAssumption ==
  /\ Reconciler \notin Client
  /\ NoWorker \notin Worker
  /\ NoKey \notin SourceKey
  /\ Host \in Member
  /\ Transfer # {}
  /\ MaxFaults \in Nat

VARIABLES
  \* PostgreSQL
  service, generation,  \* projects.service_state and authority_generation
  transfer,             \* project_lifecycle_journals with authority_transfer_recovery
  claims, claimsExpired,\* source_protected_claim_envelopes, and whether they expired
  redeemed,             \* transfer_redemption_receipts
  keys,                 \* transfer_receipt_keys of the source
  responder,            \* terminal responders
  deletion,             \* the successor journal of kind 'delete'
  accept, dbMain,       \* the Accept journal's phase; projects.expected_main_oid
  lease,                \* owner of the Project advisory lock
  \* disk and Git
  files,                \* the staged checkpoint of each transfer: its main, or "none"
  directory,            \* where it is captured: "unmarked" until its owner marker is written
  detached,             \* a removal of the directory was cut off after its rename
  gitMain,
  \* the server process
  pc, job, signingKey,
  \* the other machine, and the bound
  host, faults

dbVars   == <<service, generation, transfer, claims, claimsExpired, redeemed, keys,
              responder, deletion, accept, dbMain>>
diskVars == <<files, directory, detached, gitMain>>
procVars == <<pc, job, lease, signingKey>>
vars     == <<dbVars, diskVars, procVars, host, faults>>

-----------------------------------------------------------------------------
(* Phases of the journal. *)

Forward   == {"collecting-readiness", "cloud-quiesced", "checkpoint-captured",
              "target-staged", "claims-retained"}
Handed    == {"cloud-relinquished", "lan-activated", "completed"}
Backward  == {"cancel-intent", "target-invalidated", "target-cleaned", "source-reopened",
              "cancelled"}
Terminal  == {"completed", "cancelled"}
Phase     == {"none"} \cup Forward \cup Handed \cup Backward
Captured  == {"checkpoint-captured", "target-staged", "claims-retained"} \cup Handed
Unresolved == {"result-persisted", "main-updated"}   \* phases of a nonterminal Accept journal

NoTransfer == [phase |-> "none", expected |-> 0, evidence |-> "none", checkpoint |-> "none",
               batch |-> FALSE, cancelling |-> "none", reopen |-> FALSE, proof |-> NoKey,
               expired |-> FALSE]
NoJob      == [call |-> "none", transfer |-> CHOOSE t \in Transfer : TRUE, saw |-> "none",
               reserved |-> "none", main |-> "none"]

Phases(t) == transfer[t].phase

\* getNonterminalLifecycleJournal: at most one lifecycle journal is not terminal.
Nonterminal(t) == Phases(t) \notin ({"none"} \cup Terminal)
NoJournal      == ~deletion /\ \A t \in Transfer : ~Nonterminal(t)

\* The generation the target authority will have.
TargetGeneration(t) == transfer[t].expected + 1

\* The Members whose claims the batch must hold, exactly.
ExactBatchMembers == Member \ {Host}

Init ==
  /\ service = "active" /\ generation = 0
  /\ transfer = [t \in Transfer |-> NoTransfer]
  /\ claims = [t \in Transfer |-> {}] /\ redeemed = [t \in Transfer |-> {}]
  /\ claimsExpired = [t \in Transfer |-> FALSE]
  /\ keys = [t \in Transfer |-> {}]
  /\ responder = [t \in Transfer |-> FALSE]
  /\ deletion = FALSE
  /\ accept = "none" /\ dbMain = "old" /\ gitMain = "old"
  /\ files = [t \in Transfer |-> "none"]
  /\ directory = [t \in Transfer |-> "none"]
  /\ detached = [t \in Transfer |-> FALSE]
  /\ lease = NoWorker
  /\ pc = [w \in Worker |-> "idle"]
  /\ job = [w \in Worker |-> NoJob]
  /\ signingKey \in SourceKey
  /\ host = [t \in Transfer |-> "idle"]
  /\ faults = 0

-----------------------------------------------------------------------------
(* A call: preflight and reservation outside the lane, then the lane. *)

T(w) == job[w].transfer

Goto(w, step) == pc' = [pc EXCEPT ![w] = step] /\ UNCHANGED <<job, lease, signingKey>>

\* The call ends: the lease and the reservation are closed.
Return(w) ==
  /\ pc' = [pc EXCEPT ![w] = "idle"]
  /\ job' = [job EXCEPT ![w] = NoJob]
  /\ lease' = IF lease = w THEN NoWorker ELSE lease
  /\ UNCHANGED signingKey

\* reserveRecovery and acceptTarget's needsCapture, from the phase read before the lane.
Reservation(call, phase) ==
  CASE phase \in {"collecting-readiness", "cloud-quiesced"} -> "checkpoint"
    [] phase = "lan-activated" /\ call = "recover"          -> "repository"
    [] OTHER                                                -> "none"

Start(w, call, t, saw, reserved, step) ==
  /\ pc[w] = "idle"
  /\ pc' = [pc EXCEPT ![w] = step]
  /\ job' = [job EXCEPT ![w] = [NoJob EXCEPT !.call = call, !.transfer = t, !.saw = saw,
                                             !.reserved = reserved]]
  /\ UNCHANGED <<dbVars, diskVars, lease, signingKey, faults>>

CallBegin(w, t) ==
  Phases(t) = "none" /\ Start(w, "begin", t, "none", "none", "lane") /\ UNCHANGED host

CallAcceptTarget(w, t) ==
  /\ Phases(t) # "none" /\ host[t] \in {"idle", "accepted"}
  /\ Start(w, "accept", t, "none", "none", "preflight")
  /\ host' = [host EXCEPT ![t] = "accepted"]

CallTargetStaged(w, t) ==
  host[t] = "staged" /\ Start(w, "stage", t, "none", "none", "lane") /\ UNCHANGED host

\* confirmTargetActive always reserves the repository first.
CallTargetActive(w, t) ==
  host[t] = "active" /\ Start(w, "activate", t, "none", "repository", "lane") /\ UNCHANGED host

CallTargetInvalidated(w, t) ==
  host[t] = "invalidated" /\ Start(w, "invalidate", t, "none", "none", "lane") /\ UNCHANGED host

CallReceiptVerifier(w, t) ==
  /\ host[t] \in {"accepted", "staged"}
  /\ Start(w, "verifier", t, "none", "none", "lane") /\ UNCHANGED host

CallRedemption(w, t) ==
  host[t] = "active" /\ Start(w, "redeem", t, "none", "none", "lane") /\ UNCHANGED host

\* The Manager names the phase the status showed, or repeats an earlier request.
CallCancel(w, t) ==
  /\ Phases(t) # "none"
  /\ \E p \in {Phases(t), transfer[t].cancelling} \ {"none"} :
       Start(w, "cancel", t, p, "none", "lane")
  /\ UNCHANGED host

CallRecover(w, t) ==
  Nonterminal(t) /\ Start(w, "recover", t, "none", "none", "preflight") /\ UNCHANGED host

CallRecoverAccept(w) ==
  /\ accept \in Unresolved
  /\ Start(w, "recover-accept", NoJob.transfer, "none", "none", "lane") /\ UNCHANGED host

\* One transaction under a lease of its own reads the journal; the reservation follows.
Preflight(w) ==
  /\ pc[w] = "preflight" /\ lease = NoWorker
  /\ job' = [job EXCEPT ![w].saw = Phases(T(w)),
                        ![w].reserved = Reservation(job[w].call, Phases(T(w)))]
  /\ pc' = [pc EXCEPT ![w] = "lane"]
  /\ UNCHANGED <<dbVars, diskVars, lease, signingKey, host, faults>>

\* #settleCancellation resumes at the recorded phase.
SettleStep(t) ==
  CASE Phases(t) = "cancel-intent"      -> "settle"
    [] Phases(t) = "target-invalidated" -> "discard"
    [] Phases(t) = "target-cleaned"     -> "reopen"
    [] Phases(t) = "source-reopened"    -> "finish"
    [] OTHER                            -> "done"

\* #recoverExact; "done" is settled, or waiting for the host's proof.
RecoverStep(t) ==
  CASE Phases(t) = "cancel-intent" ->
         IF transfer[t].evidence = "none" THEN "settle" ELSE "done"
    [] Phases(t) \in Backward -> SettleStep(t)
    [] Phases(t) \in Forward /\ transfer[t].expired -> "cancel"
    [] Phases(t) = "collecting-readiness" ->
         IF transfer[t].evidence = "none" THEN "done" ELSE "capture"
    [] Phases(t) = "cloud-quiesced"  -> "capture"
    [] Phases(t) = "target-staged"   -> "retain"
    [] Phases(t) = "claims-retained" -> "relinquish"
    [] Phases(t) = "lan-activated"   -> "complete"
    [] OTHER                         -> "done"

\* Where a call continues once it holds the lease, from what it reads there.
FirstStep(w) ==
  LET t == T(w) IN
  CASE job[w].call = "stage" /\ transfer[t].batch ->
         CASE Phases(t) = "target-staged"   -> "retain"
           [] Phases(t) = "claims-retained" -> "relinquish"
           [] OTHER                         -> "done"
    [] job[w].call = "activate" ->
         CASE responder[t] \/ Phases(t) = "completed" -> "done"
           [] Phases(t) = "lan-activated"             -> "complete"
           [] OTHER                                   -> "activate"
    [] job[w].call = "invalidate" ->
         CASE responder[t]                       -> "done"
           [] transfer[t].evidence = "cleaned"   -> SettleStep(t)
           [] OTHER                              -> "invalidate"
    [] job[w].call = "cancel" /\ Phases(t) # job[w].saw ->
         IF transfer[t].cancelling = job[w].saw THEN SettleStep(t) ELSE "done"
    [] job[w].call = "recover"        -> RecoverStep(t)
    [] job[w].call = "recover-accept" ->
         CASE accept = "result-persisted" -> "settle-main"
           [] accept = "main-updated"     -> "complete-accept"
           [] OTHER                       -> "done"
    [] OTHER -> job[w].call

\* #recoverObserved: the journal moved since the preflight, so it starts over.
Reread(w) ==
  /\ pc[w] = "lane" /\ lease = NoWorker
  /\ job[w].call = "recover" /\ job[w].saw # Phases(T(w))
  /\ IF Nonterminal(T(w))
     THEN /\ job' = [job EXCEPT ![w].saw = Phases(T(w)),
                                ![w].reserved = Reservation("recover", Phases(T(w)))]
          /\ UNCHANGED <<pc, lease, signingKey>>
     ELSE Return(w)
  /\ UNCHANGED <<dbVars, diskVars, host, faults>>

\* The dispatcher goes on with the journal it finds in the lane.
Settled(w) == job[w].call = "recover" => job[w].saw = Phases(T(w))

EnterLane(w) ==
  /\ pc[w] = "lane" /\ lease = NoWorker /\ Settled(w)
  /\ IF FirstStep(w) = "done"
     THEN Return(w)
     ELSE /\ pc' = [pc EXCEPT ![w] = FirstStep(w)]
          /\ lease' = w
          /\ UNCHANGED <<job, signingKey>>
  /\ UNCHANGED <<dbVars, diskVars, host, faults>>

-----------------------------------------------------------------------------
(* What each transaction requires; a call that does not find it is refused. *)

\* ProjectAuthoritySourceFence.reopen.
Reopenable(t) ==
  /\ \/ service = "read-only-transition"
     \/ service = "active" /\ transfer[t].evidence = "none"
  /\ generation = transfer[t].expected
  /\ transfer[t].reopen

\* Mutant of Unaccepted: the source is expected to be quiesced.
UnacceptedQuiesced(t) ==
  /\ transfer[t].evidence = "none" /\ transfer[t].checkpoint = "none" /\ ~transfer[t].batch
  /\ service = "read-only-transition" /\ generation = transfer[t].expected

\* Mutant of Unaccepted: no checkpoint is taken for no acceptance.
UnacceptedUncaptured(t) ==
  /\ transfer[t].checkpoint = "none" /\ ~transfer[t].batch
  /\ generation = transfer[t].expected

\* #settleCancellation goes on without a proof only if the target never accepted.
Unaccepted(t) ==
  /\ transfer[t].evidence = "none" /\ transfer[t].checkpoint = "none" /\ ~transfer[t].batch
  /\ service = "active" /\ generation = transfer[t].expected

\* Mutant of Cancellable: the relinquishment is not looked at.
CancellableAlways(t) == Phases(t) \notin Terminal /\ transfer[t].cancelling = "none"

\* #startCancellation, with the one cancellation the recovery row admits.
Cancellable(t) ==
  /\ Phases(t) \in (Forward \cup Backward) \ {"cancelled"}
  /\ transfer[t].proof = NoKey
  /\ transfer[t].cancelling = "none"

\* Mutant of LiveCompletionFences: an Accept completes whatever the service state.
NoCompletionFences == TRUE

\* #assertLiveCompletionFences of an Accept's completion.
LiveCompletionFences == service = "active"

\* assertTargetOwned and removeDurableOwnedTree: a directory without its owner marker, or one
\* made again beside what a cut removal renamed, is nobody's to remove.
Discardable(t) ==
  /\ directory[t] # "unmarked"
  /\ ~(detached[t] /\ directory[t] # "none")

\* The discard has a recorded checkpoint to discard.
Discards(w) == pc[w] = "complete" \/ (pc[w] = "discard" /\ transfer[T(w)].checkpoint # "none")

Admits(w) ==
  LET t == T(w)
      r == transfer[T(w)] IN
  CASE pc[w] = "begin"      -> r.phase = "none" /\ service = "active" /\ NoJournal
    [] pc[w] = "accept"     -> r.evidence # "cleaned"
    [] pc[w] = "capture"    -> /\ ~r.expired
                               /\ \/ /\ r.phase = "collecting-readiness"
                                     /\ r.evidence # "none" /\ service = "active"
                                     /\ generation = r.expected
                                  \/ r.phase = "cloud-quiesced" /\ job[w].reserved = "checkpoint"
    [] pc[w] = "snapshot"   -> job[w].reserved = "checkpoint" /\ service = "read-only-transition"
    [] pc[w] = "files"      -> directory[t] # "unmarked"
    [] pc[w] = "record"     -> r.phase = "cloud-quiesced"
    [] pc[w] = "stage"      -> r.evidence # "none" /\ ~r.expired /\ r.phase = "checkpoint-captured"
    [] pc[w] = "retain"     -> r.phase = "target-staged" /\ r.batch
    [] pc[w] = "relinquish" -> r.phase = "claims-retained" /\ r.proof = NoKey /\ ~r.expired
    [] pc[w] = "sign"       -> /\ r.phase = "claims-retained" /\ ~r.expired
                               /\ service = "read-only-transition" /\ generation = r.expected
    [] pc[w] = "activate"   -> r.phase = "cloud-relinquished" /\ r.proof # NoKey
    [] pc[w] = "complete"   -> job[w].reserved # "none" /\ Discardable(t)
    [] pc[w] = "discard"    -> r.checkpoint # "none" => Discardable(t)
    [] pc[w] = "renew"      -> r.phase = "lan-activated"
    [] pc[w] = "renew-claims" -> r.phase = "lan-activated"
    [] pc[w] = "terminal"   -> /\ r.phase = "lan-activated" /\ service = "deleting"
                               /\ generation = TargetGeneration(t)
    [] pc[w] = "invalidate" -> r.evidence = "accepted" /\ r.phase = "cancel-intent"
    [] pc[w] = "cancel"     -> Cancellable(t)
    [] pc[w] = "settle"     -> r.phase = "cancel-intent" /\ Unaccepted(t)
    [] pc[w] = "drop-key"   -> IF r.evidence = "none" THEN keys[t] = {}
                               ELSE r.phase = "target-invalidated"
    [] pc[w] = "clean"      -> r.phase = "target-invalidated"
    [] pc[w] = "reopen"     -> r.phase = "target-cleaned" /\ Reopenable(t)
    [] pc[w] = "finish"     -> r.phase = "source-reopened"
    [] pc[w] = "verifier"   -> r.evidence # "none"
    [] pc[w] = "redeem"     -> r.phase \in Handed /\ (responder[t] => ~r.expired)
    [] pc[w] = "mark-main"  -> accept = "result-persisted"
    [] pc[w] = "complete-accept" -> accept = "main-updated" /\ LiveCompletionFences
    [] OTHER                -> TRUE

\* Steps that touch the disk, Git or memory alone; every other one is a transaction.
OffLane == {"idle", "preflight", "lane", "files", "owner", "complete", "discard", "settle-main"}

\* A transaction that runs and finds what it requires.
Tx(w, step) == pc[w] = step /\ lease = w /\ Admits(w)

\* The transaction throws: the early return of the code, or a lease that was lost.
Refused(w) ==
  /\ pc[w] \notin {"idle", "preflight", "lane"}
  /\ ~Admits(w) \/ (pc[w] \notin OffLane /\ lease # w)
  /\ Return(w)
  /\ UNCHANGED <<dbVars, diskVars, host, faults>>

\* One row of transfer, and the rest of the database as it was.
Write(t, r) == transfer' = [transfer EXCEPT ![t] = r]

-----------------------------------------------------------------------------
(* Forward: begin, acceptance, checkpoint, claims, relinquishment. *)

Begin(w) ==
  LET t == T(w) IN
  /\ Tx(w, "begin")
  /\ Write(t, [NoTransfer EXCEPT !.phase = "collecting-readiness", !.expected = generation])
  /\ Return(w)
  /\ UNCHANGED <<service, generation, claims, claimsExpired, redeemed, keys, responder,
                 deletion, accept, dbMain, diskVars, host, faults>>

\* The evidence is written whatever the phase and the clock say: both are read afterwards.
AcceptTarget(w) ==
  LET t == T(w) IN
  /\ Tx(w, "accept")
  /\ Write(t, [transfer[t] EXCEPT !.evidence = "accepted"])
  /\ Goto(w, "capture")
  /\ UNCHANGED <<service, generation, claims, claimsExpired, redeemed, keys, responder,
                 deletion, accept, dbMain, diskVars, host, faults>>

Quiesce(w) ==
  LET t == T(w) IN
  /\ Tx(w, "capture") /\ Phases(t) = "collecting-readiness"
  /\ service' = "read-only-transition"
  /\ Write(t, [transfer[t] EXCEPT !.phase = "cloud-quiesced"])
  /\ Goto(w, "snapshot")
  /\ UNCHANGED <<generation, claims, claimsExpired, redeemed, keys, responder, deletion,
                 accept, dbMain, diskVars, host, faults>>

\* Mutant of Snapshot: the journal advances before the artifacts are staged.
SnapshotRecordedFirst(w) ==
  /\ Tx(w, "snapshot") \/ (Tx(w, "capture") /\ Phases(T(w)) = "cloud-quiesced")
  /\ job' = [job EXCEPT ![w].main = dbMain]
  /\ pc' = [pc EXCEPT ![w] = "record"]
  /\ UNCHANGED <<dbVars, diskVars, lease, signingKey, host, faults>>

\* The repeatable-read snapshot of the coordination records.
Snapshot(w) ==
  /\ Tx(w, "snapshot") \/ (Tx(w, "capture") /\ Phases(T(w)) = "cloud-quiesced")
  /\ job' = [job EXCEPT ![w].main = dbMain]
  /\ pc' = [pc EXCEPT ![w] = "files"]
  /\ UNCHANGED <<dbVars, diskVars, lease, signingKey, host, faults>>

\* captureOutbound holds no transaction and needs no lease. The directories come first; one
\* that is there without its owner marker refuses the capture.
MakeDirectory(w) ==
  /\ pc[w] = "files" /\ directory[T(w)] = "none"
  /\ directory' = [directory EXCEPT ![T(w)] = "unmarked"]
  /\ Goto(w, "owner")
  /\ UNCHANGED <<dbVars, files, detached, gitMain, host, faults>>

\* #ensureCaptureOwner, which only the call that made the directory may do.
MarkOwner(w) ==
  /\ pc[w] = "owner"
  /\ directory' = [directory EXCEPT ![T(w)] = "owned"]
  /\ Goto(w, "files")
  /\ UNCHANGED <<dbVars, files, detached, gitMain, host, faults>>

StageFiles(w) ==
  /\ pc[w] = "files" /\ directory[T(w)] = "owned"
  /\ files' = [files EXCEPT ![T(w)] = job[w].main]
  /\ Goto(w, "record")
  /\ UNCHANGED <<dbVars, directory, detached, gitMain, host, faults>>

RecordCapture(w) ==
  LET t == T(w) IN
  /\ Tx(w, "record")
  /\ Write(t, [transfer[t] EXCEPT !.phase = "checkpoint-captured", !.checkpoint = job[w].main])
  /\ Return(w)
  /\ UNCHANGED <<service, generation, claims, claimsExpired, redeemed, keys, responder,
                 deletion, accept, dbMain, diskVars, host, faults>>

\* One transaction stores the sealed claims with the journal's phase.
StageClaims(w) ==
  LET t == T(w) IN
  /\ Tx(w, "stage")
  /\ Write(t, [transfer[t] EXCEPT !.phase = "target-staged", !.batch = TRUE])
  /\ claims' = [claims EXCEPT ![t] = ExactBatchMembers]
  /\ Goto(w, "retain")
  /\ UNCHANGED <<service, generation, claimsExpired, redeemed, keys, responder, deletion,
                 accept, dbMain, diskVars, host, faults>>

RetainClaims(w) ==
  LET t == T(w) IN
  /\ Tx(w, "retain")
  /\ Write(t, [transfer[t] EXCEPT !.phase = "claims-retained"])
  /\ Goto(w, "relinquish")
  /\ UNCHANGED <<service, generation, claims, claimsExpired, redeemed, keys, responder,
                 deletion, accept, dbMain, diskVars, host, faults>>

\* #sourceReceiptKey: the key pinned to the transfer, else the one in use, which it pins.
SourceReceiptKey(t) ==
  IF transfer[t].proof = NoKey /\ keys[t] = {} THEN {signingKey} ELSE keys[t]

PinKey(w) ==
  /\ Tx(w, "relinquish")
  /\ keys' = [keys EXCEPT ![T(w)] = SourceReceiptKey(T(w))]
  /\ Goto(w, "sign")
  /\ UNCHANGED <<service, generation, transfer, claims, claimsExpired, redeemed, responder,
                 deletion, accept, dbMain, diskVars, host, faults>>

\* Mutant of Relinquish: the proof is published before the Project is fenced.
RelinquishUnfenced(w) ==
  LET t == T(w) IN
  /\ Tx(w, "sign")
  /\ \E k \in keys[t] :
       Write(t, [transfer[t] EXCEPT !.phase = "cloud-relinquished", !.proof = k])
  /\ Return(w)
  /\ UNCHANGED <<service, generation, claims, claimsExpired, redeemed, keys, responder,
                 deletion, accept, dbMain, diskVars, host, faults>>

\* The signed proof, the new generation and the end of service commit together.
Relinquish(w) ==
  LET t == T(w) IN
  /\ Tx(w, "sign")
  /\ \E k \in keys[t] :
       Write(t, [transfer[t] EXCEPT !.phase = "cloud-relinquished", !.proof = k])
  /\ service' = "deleting"
  /\ generation' = TargetGeneration(t)
  /\ Return(w)
  /\ UNCHANGED <<claims, claimsExpired, redeemed, keys, responder, deletion, accept, dbMain,
                 diskVars, host, faults>>

ReceiptVerifier(w) ==
  /\ Tx(w, "verifier")
  /\ keys' = [keys EXCEPT ![T(w)] = SourceReceiptKey(T(w))]
  /\ Return(w)
  /\ UNCHANGED <<service, generation, transfer, claims, claimsExpired, redeemed, responder,
                 deletion, accept, dbMain, diskVars, host, faults>>

-----------------------------------------------------------------------------
(* Activation of the host, completion and the redemption of the claims. *)

\* renewedExpiry moves an expiry that has passed beyond now.
Activate(w) ==
  LET t == T(w) IN
  /\ Tx(w, "activate")
  /\ Write(t, [transfer[t] EXCEPT !.phase = "lan-activated", !.expired = FALSE])
  /\ Goto(w, "complete")
  /\ UNCHANGED <<service, generation, claims, claimsExpired, redeemed, keys, responder,
                 deletion, accept, dbMain, diskVars, host, faults>>

\* discardOutboundOperation: the capture, then what was staged.
DiscardCheckpoint(t) ==
  /\ files' = [files EXCEPT ![t] = "none"]
  /\ directory' = [directory EXCEPT ![t] = "none"]
  /\ detached' = [detached EXCEPT ![t] = FALSE]

\* #completeIfNeeded first discards the staged checkpoint, on disk.
DiscardDelivered(w) ==
  /\ pc[w] = "complete" /\ Admits(w)
  /\ DiscardCheckpoint(T(w))
  /\ Goto(w, "renew")
  /\ UNCHANGED <<dbVars, gitMain, host, faults>>

\* A completion that comes after the expiry moves it again.
Renew(w) ==
  LET t == T(w) IN
  /\ Tx(w, "renew")
  /\ Write(t, [transfer[t] EXCEPT !.expired = FALSE])
  /\ Goto(w, "renew-claims")
  /\ UNCHANGED <<service, generation, claims, claimsExpired, redeemed, keys, responder,
                 deletion, accept, dbMain, diskVars, host, faults>>

\* The claims take the expiry of the transfer, renewed or not.
RenewClaims(w) ==
  /\ Tx(w, "renew-claims")
  /\ claimsExpired' = [claimsExpired EXCEPT ![T(w)] = transfer[T(w)].expired]
  /\ Goto(w, "terminal")
  /\ UNCHANGED <<service, generation, transfer, claims, redeemed, keys, responder, deletion,
                 accept, dbMain, diskVars, host, faults>>

\* The terminal response, the tombstone and the deletion journal commit together.
Complete(w) ==
  LET t == T(w) IN
  /\ Tx(w, "terminal")
  /\ Write(t, [transfer[t] EXCEPT !.phase = "completed"])
  /\ responder' = [responder EXCEPT ![t] = TRUE]
  /\ deletion' = TRUE
  /\ Return(w)
  /\ UNCHANGED <<service, generation, claims, claimsExpired, redeemed, keys, accept, dbMain,
                 diskVars, host, faults>>

\* Mutant of Scrub: the sealed claim goes without the receipt.
ScrubUnrecorded(t, m) ==
  claims' = [claims EXCEPT ![t] = @ \ {m}] /\ UNCHANGED redeemed

\* The sealed claim is deleted in the transaction that keeps the host's receipt.
Scrub(t, m) ==
  /\ claims' = [claims EXCEPT ![t] = @ \ {m}]
  /\ redeemed' = [redeemed EXCEPT ![t] = @ \cup {m}]

\* A Member shows the receipt that the host gave for its claim, once or again.
AcknowledgeRedemption(w) ==
  LET t == T(w) IN
  /\ Tx(w, "redeem")
  /\ \E m \in claims[t] \cup redeemed[t] : Scrub(t, m)
  /\ Return(w)
  /\ UNCHANGED <<service, generation, transfer, claimsExpired, keys, responder, deletion,
                 accept, dbMain, diskVars, host, faults>>

-----------------------------------------------------------------------------
(* Backward: cancellation, by the Manager or because the transfer expired. *)

StartCancellation(w) ==
  LET t == T(w) IN
  /\ Tx(w, "cancel")
  /\ Write(t, [transfer[t] EXCEPT !.phase = "cancel-intent",
                 !.cancelling = IF job[w].call = "recover" THEN "expiry" ELSE job[w].saw])
  /\ IF transfer[t].evidence = "none" THEN Goto(w, "settle") ELSE Return(w)
  /\ UNCHANGED <<service, generation, claims, claimsExpired, redeemed, keys, responder,
                 deletion, accept, dbMain, diskVars, host, faults>>

\* A target that never accepted has nothing to clean.
SettleUnaccepted(w) ==
  LET t == T(w) IN
  /\ Tx(w, "settle")
  /\ Write(t, [transfer[t] EXCEPT !.phase = "target-invalidated", !.reopen = TRUE])
  /\ Goto(w, "discard")
  /\ UNCHANGED <<service, generation, claims, claimsExpired, redeemed, keys, responder,
                 deletion, accept, dbMain, diskVars, host, faults>>

\* confirmTargetInvalidated keeps the host's cleanup proof with the evidence.
ConfirmInvalidated(w) ==
  LET t == T(w) IN
  /\ Tx(w, "invalidate")
  /\ Write(t, [transfer[t] EXCEPT !.phase = "target-invalidated", !.evidence = "cleaned",
                                  !.reopen = TRUE, !.expired = FALSE])
  /\ Goto(w, "discard")
  /\ UNCHANGED <<service, generation, claims, claimsExpired, redeemed, keys, responder,
                 deletion, accept, dbMain, diskVars, host, faults>>

DiscardCancelled(w) ==
  /\ pc[w] = "discard" /\ Admits(w)
  /\ IF Discards(w) THEN DiscardCheckpoint(T(w)) ELSE UNCHANGED <<files, directory, detached>>
  /\ Goto(w, "drop-claims")
  /\ UNCHANGED <<dbVars, gitMain, host, faults>>

\* The claims are deleted when a batch was stored for a captured checkpoint.
DropsClaims(t) == transfer[t].checkpoint # "none" /\ transfer[t].batch

DropClaims(w) ==
  LET t == T(w) IN
  /\ Tx(w, "drop-claims")
  /\ claims' = IF DropsClaims(t) THEN [claims EXCEPT ![t] = {}] ELSE claims
  /\ Goto(w, "drop-key")
  /\ UNCHANGED <<service, generation, transfer, claimsExpired, redeemed, keys, responder,
                 deletion, accept, dbMain, diskVars, host, faults>>

DropKey(w) ==
  /\ Tx(w, "drop-key")
  /\ keys' = [keys EXCEPT ![T(w)] = {}]
  /\ Goto(w, "clean")
  /\ UNCHANGED <<service, generation, transfer, claims, claimsExpired, redeemed, responder,
                 deletion, accept, dbMain, diskVars, host, faults>>

Clean(w) ==
  LET t == T(w) IN
  /\ Tx(w, "clean")
  /\ Write(t, [transfer[t] EXCEPT !.phase = "target-cleaned"])
  /\ Goto(w, "reopen")
  /\ UNCHANGED <<service, generation, claims, claimsExpired, redeemed, keys, responder,
                 deletion, accept, dbMain, diskVars, host, faults>>

Reopen(w) ==
  LET t == T(w) IN
  /\ Tx(w, "reopen")
  /\ service' = "active"
  /\ Write(t, [transfer[t] EXCEPT !.phase = "source-reopened"])
  /\ Goto(w, "finish")
  /\ UNCHANGED <<generation, claims, claimsExpired, redeemed, keys, responder, deletion,
                 accept, dbMain, diskVars, host, faults>>

\* The cleanup proof leaves the evidence; the host may replay its confirmation.
FinishCancellation(w) ==
  LET t == T(w)
      proved == transfer[t].evidence = "cleaned" IN
  /\ Tx(w, "finish")
  /\ Write(t, [transfer[t] EXCEPT !.phase = "cancelled",
                 !.evidence = IF proved THEN "accepted" ELSE @])
  /\ responder' = [responder EXCEPT ![t] = @ \/ proved]
  /\ Return(w)
  /\ UNCHANGED <<service, generation, claims, claimsExpired, redeemed, keys, deletion, accept,
                 dbMain, diskVars, host, faults>>

-----------------------------------------------------------------------------
(* The Accept whose journal was left unresolved, and its recovery. *)

\* An Accept wrote its journal and stopped. It was admitted only beside no other journal.
AcceptInterrupted ==
  /\ accept = "none" /\ lease = NoWorker /\ service = "active" /\ NoJournal
  /\ faults < MaxFaults /\ faults' = faults + 1
  /\ accept' = "result-persisted"
  /\ UNCHANGED <<service, generation, transfer, claims, claimsExpired, redeemed, keys,
                 responder, deletion, dbMain, diskVars, procVars, host>>

\* settleAcceptMain: a compare-and-swap in Git, with no look at the Project's service.
SettleMain(w) ==
  /\ pc[w] = "settle-main"
  /\ gitMain' = "merged"
  /\ Goto(w, "mark-main")
  /\ UNCHANGED <<dbVars, files, directory, detached, host, faults>>

MarkMain(w) ==
  /\ Tx(w, "mark-main")
  /\ accept' = "main-updated"
  /\ Goto(w, "complete-accept")
  /\ UNCHANGED <<service, generation, transfer, claims, claimsExpired, redeemed, keys,
                 responder, deletion, dbMain, diskVars, host, faults>>

CompleteAccept(w) ==
  /\ Tx(w, "complete-accept")
  /\ accept' = "completed" /\ dbMain' = "merged"
  /\ Return(w)
  /\ UNCHANGED <<service, generation, transfer, claims, claimsExpired, redeemed, keys,
                 responder, deletion, diskVars, host, faults>>

-----------------------------------------------------------------------------
(* The host, the clock and the faults. *)

HostStages(t) ==
  /\ host[t] = "accepted" /\ Phases(t) = "checkpoint-captured"
  /\ files[t] = transfer[t].checkpoint
  /\ host' = [host EXCEPT ![t] = "staged"]
  /\ UNCHANGED <<dbVars, diskVars, procVars, faults>>

\* The host serves only after it holds the signed relinquishment.
HostActivates(t) ==
  /\ host[t] = "staged" /\ transfer[t].proof # NoKey
  /\ host' = [host EXCEPT ![t] = "active"]
  /\ UNCHANGED <<dbVars, diskVars, procVars, faults>>

HostInvalidates(t) ==
  /\ host[t] \in {"accepted", "staged"} /\ Phases(t) = "cancel-intent"
  /\ host' = [host EXCEPT ![t] = "invalidated"]
  /\ UNCHANGED <<dbVars, diskVars, procVars, faults>>

\* The expiry passes. Claims never expire after their transfer.
Expire(t) ==
  /\ Phases(t) # "none" /\ ~transfer[t].expired
  /\ Write(t, [transfer[t] EXCEPT !.expired = TRUE])
  /\ claimsExpired' = [claimsExpired EXCEPT ![t] = @ \/ transfer[t].batch]
  /\ UNCHANGED <<service, generation, claims, redeemed, keys, responder, deletion, accept,
                 dbMain, diskVars, procVars, host, faults>>

\* The connection drops and PostgreSQL frees the advisory lock; the call runs on.
LoseLease(w) ==
  /\ lease = w
  /\ faults < MaxFaults /\ faults' = faults + 1
  /\ lease' = NoWorker
  /\ UNCHANGED <<dbVars, diskVars, pc, job, signingKey, host>>

\* A query, a reservation or the host's verification fails; the call ends.
Fail(w) ==
  /\ pc[w] # "idle"
  /\ faults < MaxFaults /\ faults' = faults + 1
  /\ Return(w)
  /\ UNCHANGED <<dbVars, diskVars, host>>

\* A discard fails after it renamed the directory: what was staged is left, and a later one
\* finishes the removal.
CutRemoval(w) ==
  /\ Discards(w) /\ Admits(w) /\ directory[T(w)] = "owned"
  /\ faults < MaxFaults /\ faults' = faults + 1
  /\ directory' = [directory EXCEPT ![T(w)] = "none"]
  /\ detached' = [detached EXCEPT ![T(w)] = TRUE]
  /\ Return(w)
  /\ UNCHANGED <<dbVars, files, gitMain, host>>

\* The process dies; the next one may be configured with another signing key.
Crash ==
  /\ faults < MaxFaults /\ faults' = faults + 1
  /\ pc' = [w \in Worker |-> "idle"]
  /\ job' = [w \in Worker |-> NoJob]
  /\ lease' = NoWorker
  /\ signingKey' \in SourceKey
  /\ UNCHANGED <<dbVars, diskVars, host>>

-----------------------------------------------------------------------------
Step(w) ==
  \/ Preflight(w) \/ Reread(w) \/ EnterLane(w) \/ Refused(w)
  \/ Begin(w) \/ AcceptTarget(w) \/ Quiesce(w) \/ Snapshot(w) \/ MakeDirectory(w)
  \/ MarkOwner(w) \/ StageFiles(w) \/ RecordCapture(w) \/ StageClaims(w) \/ RetainClaims(w)
  \/ PinKey(w) \/ Relinquish(w)
  \/ ReceiptVerifier(w) \/ Activate(w) \/ DiscardDelivered(w) \/ Renew(w) \/ RenewClaims(w)
  \/ Complete(w) \/ AcknowledgeRedemption(w) \/ StartCancellation(w) \/ SettleUnaccepted(w)
  \/ ConfirmInvalidated(w) \/ DiscardCancelled(w) \/ DropClaims(w) \/ DropKey(w) \/ Clean(w)
  \/ Reopen(w) \/ FinishCancellation(w) \/ SettleMain(w) \/ MarkMain(w) \/ CompleteAccept(w)

Call(w, t) ==
  \/ CallBegin(w, t) \/ CallAcceptTarget(w, t) \/ CallTargetStaged(w, t)
  \/ CallTargetActive(w, t) \/ CallTargetInvalidated(w, t) \/ CallReceiptVerifier(w, t)
  \/ CallRedemption(w, t) \/ CallCancel(w, t)

Next ==
  \/ \E w \in Client, t \in Transfer : Call(w, t)
  \/ \E t \in Transfer : CallRecover(Reconciler, t)
  \/ CallRecoverAccept(Reconciler)
  \/ \E w \in Worker : Step(w)
  \/ \E t \in Transfer : HostStages(t) \/ HostActivates(t) \/ HostInvalidates(t) \/ Expire(t)
  \/ AcceptInterrupted
  \/ \E w \in Worker : LoseLease(w) \/ Fail(w) \/ CutRemoval(w)
  \/ Crash

Spec == Init /\ [][Next]_vars

\* PostgreSQL queues the waiters of an advisory lock, PeriodicReconciliation visits every
\* candidate again, time passes, and the host, once it is told to, activates or invalidates
\* and reports it until a call of it is answered.
Lane(w)           == Preflight(w) \/ Reread(w) \/ EnterLane(w)
HostSettles(t)    == HostActivates(t) \/ HostInvalidates(t)
HostReports(w, t) == CallTargetActive(w, t) \/ CallTargetInvalidated(w, t)

FairSpec ==
  /\ Spec
  /\ \A w \in Worker : WF_vars(Step(w)) /\ SF_vars(Lane(w))
  /\ \A t \in Transfer :
       /\ SF_vars(CallRecover(Reconciler, t))
       /\ WF_vars(HostSettles(t))
       /\ \A w \in Client : SF_vars(HostReports(w, t))
       /\ WF_vars(Phases(t) \in Forward /\ Expire(t))

-----------------------------------------------------------------------------
(* Properties. *)

TransferRecord ==
  [phase : Phase, expected : {0}, evidence : {"none", "accepted", "cleaned"},
   checkpoint : Main \cup {"none"}, batch : BOOLEAN,
   cancelling : Phase \cup {"expiry"}, reopen : BOOLEAN, proof : SourceKey \cup {NoKey},
   expired : BOOLEAN]

Label ==
  {"idle", "preflight", "lane", "begin", "accept", "capture", "snapshot", "files", "owner", "record",
   "stage", "retain", "relinquish", "sign", "activate", "complete", "renew", "renew-claims",
   "terminal", "invalidate", "cancel", "settle", "discard", "drop-claims", "drop-key", "clean",
   "reopen", "finish", "verifier", "redeem", "settle-main", "mark-main", "complete-accept"}

JobRecord ==
  [call : {"none", "begin", "accept", "stage", "activate", "invalidate", "verifier", "redeem",
           "cancel", "recover", "recover-accept"},
   transfer : Transfer, saw : Phase \cup {"expiry"},
   reserved : {"none", "checkpoint", "repository"}, main : Main \cup {"none"}]

\* Types of the state; the phases are those of the authority-transfer journal.
TypeOK ==
  /\ service \in {"active", "read-only-transition", "deleting"}
  /\ generation \in {0, 1}
  /\ transfer \in [Transfer -> TransferRecord]
  /\ claims \in [Transfer -> SUBSET Member] /\ redeemed \in [Transfer -> SUBSET Member]
  /\ claimsExpired \in [Transfer -> BOOLEAN]
  /\ keys \in [Transfer -> SUBSET SourceKey]
  /\ responder \in [Transfer -> BOOLEAN] /\ deletion \in BOOLEAN
  /\ accept \in Unresolved \cup {"none", "completed"}
  /\ dbMain \in Main /\ gitMain \in Main
  /\ files \in [Transfer -> Main \cup {"none"}]
  /\ directory \in [Transfer -> {"none", "unmarked", "owned"}]
  /\ detached \in [Transfer -> BOOLEAN]
  /\ lease \in Worker \cup {NoWorker}
  /\ pc \in [Worker -> Label] /\ job \in [Worker -> JobRecord]
  /\ signingKey \in SourceKey
  /\ host \in [Transfer -> {"idle", "accepted", "staged", "active", "invalidated"}]
  /\ faults \in 0 .. MaxFaults

\* Never two authorities: once a host serves the Project, the Cloud serves it no more, and
\* its generation is the one the host was given, whatever was cancelled, retried or
\* recovered before.
SingleAuthority ==
  \A t \in Transfer : host[t] = "active" =>
    service = "deleting" /\ generation = TargetGeneration(t)

\* The Cloud takes writes again only after the transfer that quiesced it has the host's
\* proof that the target was invalidated.
ReopenAfterCleanup ==
  [][(service = "read-only-transition" /\ service' = "active") =>
       \E t \in Transfer : transfer[t].phase = "target-cleaned" /\ host[t] = "invalidated"]_vars

\* No Member is locked out: once the relinquishment is signed, each Member but the host has
\* a claim in custody or has redeemed it.
ClaimsKept ==
  \A t \in Transfer : transfer[t].proof # NoKey =>
    claims[t] \cup redeemed[t] = ExactBatchMembers

\* What the Cloud acknowledged is what the host receives: from the capture to the end of the
\* transfer, the checkpoint holds the main that PostgreSQL records.
CheckpointCurrent ==
  \A t \in Transfer : Phases(t) \in Captured => transfer[t].checkpoint = dbMain

\* The staged files are those of the recorded checkpoint for as long as the host may download
\* them, though a call that lost its lease may still be writing or discarding files.
FilesCurrent ==
  \A t \in Transfer : Phases(t) \in Captured \ {"lan-activated", "completed"} =>
    files[t] = transfer[t].checkpoint

\* The signing key may change with every restart; a transfer is bound to one, and the
\* certificate it signed can be verified with the key that stays pinned.
ProofVerifiable ==
  \A t \in Transfer :
    /\ Cardinality(keys[t]) <= 1
    /\ transfer[t].proof # NoKey => transfer[t].proof \in keys[t]

\* After the relinquishment a transfer only moves to activation and completion.
StaysRelinquished ==
  [][\A t \in Transfer : transfer[t].proof # NoKey =>
       transfer'[t].phase \in Handed]_vars

\* What the Cloud gave away it does not take back: a transfer that is not yet relinquished is
\* undone with the host's proof, and a relinquished one is not undone.
ForwardOnly == StaysRelinquished /\ ReopenAfterCleanup

\* Claims live as long as their transfer: one that completes late renews its claims with
\* itself, so that Members can still fetch them while the terminal response is served; a
\* cancelled one leaves no claim behind that its host could redeem.
ClaimsFollowTransfer ==
  \A t \in Transfer :
    /\ Phases(t) = "completed" /\ ~transfer[t].expired => ~claimsExpired[t]
    /\ Phases(t) = "cancelled" => claims[t] = {} /\ host[t] # "active"

\* What is kept beside the transfer is that of the transfer, at every phase and after every
\* failure: the rows have their types, the host downloads the files of the recorded
\* checkpoint, its certificate can be verified, and claims live as long as their transfer.
EvidenceFollowsTransfer == TypeOK /\ FilesCurrent /\ ProofVerifiable /\ ClaimsFollowTransfer

\* The dead end of ProjectAuthoritySourceFence.reopen: the source stayed active, yet the
\* target's acceptance is on record.
Stuck(t) ==
  /\ Phases(t) \in {"target-invalidated", "target-cleaned"}
  /\ service = "active" /\ transfer[t].evidence # "none"

\* What has to be discarded cannot be: a capture that had lost its lease made the directory
\* again, and stopped before it was marked or found a removal cut off.
Unowned(t) ==
  /\ Phases(t) \in {"target-invalidated", "lan-activated"} /\ transfer[t].checkpoint # "none"
  /\ ~Discardable(t)
  /\ \A w \in Worker : ~(pc[w] = "owner" /\ T(w) = t)

\* A transfer that was begun ends: the Project does not stay between two authorities,
\* except in the dead end, or with a directory that no discard takes.
TransferEnds ==
  \A t \in Transfer : Phases(t) = "collecting-readiness" ~>
    (Phases(t) \in Terminal \/ Stuck(t) \/ Unowned(t))

=============================================================================

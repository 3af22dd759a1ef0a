---------------------- MODULE CloudToLanTransfer_proof ----------------------
(***************************************************************************)
(* Theorems about the transfer of authority from Cloud to LAN, for every   *)
(* set of clients, transfers, Members and keys and any number of faults.   *)
(***************************************************************************)
EXTENDS CloudToLanTransfer, FiniteSetTheorems, TLAPS

-----------------------------------------------------------------------------
(* What the parts of an action do. *)

ProcType ==
  /\ lease \in Worker \cup {NoWorker}
  /\ pc \in [Worker -> Label] /\ job \in [Worker -> JobRecord]
  /\ signingKey \in SourceKey

\* A call that waits for the lane has been made.
Called == \A w \in Worker : pc[w] \in {"preflight", "lane"} => job[w].call # "none"

\* The absent transfer and the absent call have the types of rows.
LEMMA AbsentTypes == NoTransfer \in TransferRecord /\ NoJob \in JobRecord
<1>1. (CHOOSE t \in Transfer : TRUE) \in Transfer
  BY TransferAssumption
<1> QED
  BY <1>1 DEF NoTransfer, NoJob, TransferRecord, JobRecord, Phase, Main

\* Going on to the next step of a call.
LEMMA GotoType ==
  ASSUME ProcType, NEW w \in Worker, NEW s \in Label, Goto(w, s)
  PROVE  ProcType'
BY DEF ProcType, Goto

\* Returning from a call.
LEMMA ReturnType ==
  ASSUME ProcType, NEW w \in Worker, Return(w)
  PROVE  ProcType'
BY AbsentTypes DEF ProcType, Return, Label

\* One row changes.
LEMMA WriteRow ==
  ASSUME transfer \in [Transfer -> TransferRecord], NEW t \in Transfer,
         NEW r \in TransferRecord, Write(t, r)
  PROVE  /\ transfer' \in [Transfer -> TransferRecord]
         /\ transfer'[t] = r
         /\ \A u \in Transfer \ {t} : transfer'[u] = transfer[u]
BY DEF Write

\* The fields of a row.
LEMMA RowFields ==
  ASSUME NEW r \in TransferRecord
  PROVE  /\ r.phase \in Phase /\ r.expected = 0
         /\ r.evidence \in {"none", "accepted", "cleaned"}
         /\ r.checkpoint \in Main \cup {"none"} /\ r.batch \in BOOLEAN
         /\ r.cancelling \in Phase \cup {"expiry"} /\ r.reopen \in BOOLEAN
         /\ r.proof \in SourceKey \cup {NoKey} /\ r.expired \in BOOLEAN
BY DEF TransferRecord

\* What the transactions that write a row, the claims or main require.
LEMMA Guards ==
  ASSUME NEW w
  PROVE  /\ Tx(w, "begin") => Phases(T(w)) = "none" /\ service = "active" /\ NoJournal
         /\ Tx(w, "capture") /\ Phases(T(w)) = "collecting-readiness" =>
              service = "active" /\ generation = transfer[T(w)].expected
         /\ Tx(w, "record") => Phases(T(w)) = "cloud-quiesced"
         /\ Tx(w, "stage") => Phases(T(w)) = "checkpoint-captured"
         /\ Tx(w, "retain") => Phases(T(w)) = "target-staged"
         /\ Tx(w, "sign") => /\ Phases(T(w)) = "claims-retained"
                             /\ service = "read-only-transition"
                             /\ generation = transfer[T(w)].expected
         /\ Tx(w, "activate") => /\ Phases(T(w)) = "cloud-relinquished"
                                 /\ transfer[T(w)].proof # NoKey
         /\ Tx(w, "renew") => Phases(T(w)) = "lan-activated"
         /\ Tx(w, "terminal") => Phases(T(w)) = "lan-activated"
         /\ Tx(w, "invalidate") => Phases(T(w)) = "cancel-intent"
         /\ Tx(w, "cancel") => Cancellable(T(w))
         /\ Tx(w, "settle") => Phases(T(w)) = "cancel-intent"
         /\ Tx(w, "clean") => Phases(T(w)) = "target-invalidated"
         /\ Tx(w, "reopen") => Phases(T(w)) = "target-cleaned" /\ Reopenable(T(w))
         /\ Tx(w, "finish") => Phases(T(w)) = "source-reopened"
         /\ Tx(w, "redeem") => Phases(T(w)) \in Handed
         /\ Tx(w, "complete-accept") => LiveCompletionFences
<1>1. Tx(w, "begin") => Phases(T(w)) = "none" /\ service = "active" /\ NoJournal
  BY DEF Tx, Admits, Phases
<1>2. Tx(w, "capture") /\ Phases(T(w)) = "collecting-readiness" =>
        service = "active" /\ generation = transfer[T(w)].expected
  BY DEF Tx, Admits, Phases
<1>3. Tx(w, "record") => Phases(T(w)) = "cloud-quiesced"
  BY DEF Tx, Admits, Phases
<1>4. Tx(w, "stage") => Phases(T(w)) = "checkpoint-captured"
  BY DEF Tx, Admits, Phases
<1>5. Tx(w, "retain") => Phases(T(w)) = "target-staged"
  BY DEF Tx, Admits, Phases
<1>6. Tx(w, "sign") => /\ Phases(T(w)) = "claims-retained"
                       /\ service = "read-only-transition"
                       /\ generation = transfer[T(w)].expected
  BY DEF Tx, Admits, Phases
<1>7. Tx(w, "activate") => Phases(T(w)) = "cloud-relinquished" /\ transfer[T(w)].proof # NoKey
  BY DEF Tx, Admits, Phases
<1>8. /\ Tx(w, "renew") => Phases(T(w)) = "lan-activated"
      /\ Tx(w, "terminal") => Phases(T(w)) = "lan-activated"
  BY DEF Tx, Admits, Phases
<1>9. /\ Tx(w, "invalidate") => Phases(T(w)) = "cancel-intent"
      /\ Tx(w, "cancel") => Cancellable(T(w))
      /\ Tx(w, "settle") => Phases(T(w)) = "cancel-intent"
  BY DEF Tx, Admits, Phases
<1>10. /\ Tx(w, "clean") => Phases(T(w)) = "target-invalidated"
       /\ Tx(w, "reopen") => Phases(T(w)) = "target-cleaned" /\ Reopenable(T(w))
       /\ Tx(w, "finish") => Phases(T(w)) = "source-reopened"
  BY DEF Tx, Admits, Phases
<1>11. /\ Tx(w, "redeem") => Phases(T(w)) \in Handed
       /\ Tx(w, "complete-accept") => LiveCompletionFences
  BY DEF Tx, Admits, Phases
<1> QED
  BY <1>1, <1>2, <1>3, <1>4, <1>5, <1>6, <1>7, <1>8, <1>9, <1>10, <1>11

-----------------------------------------------------------------------------
(* Types. *)

\* The types of a worker and of the transfer it serves.
LEMMA WorkerTypes ==
  ASSUME TypeOK, NEW w \in Worker
  PROVE  /\ ProcType /\ T(w) \in Transfer /\ transfer[T(w)] \in TransferRecord
         /\ job[w] \in JobRecord /\ job[w].main \in Main \cup {"none"}
         /\ job[w].saw \in Phase \cup {"expiry"}
BY DEF TypeOK, ProcType, T, JobRecord

\* The updates of a row keep its type.
LEMMA RowTypes ==
  ASSUME NEW r \in TransferRecord
  PROVE  /\ \A p \in Phase : [r EXCEPT !.phase = p] \in TransferRecord
         /\ [r EXCEPT !.evidence = "accepted"] \in TransferRecord
         /\ \A b \in BOOLEAN : [r EXCEPT !.expired = b] \in TransferRecord
         /\ \A m \in Main \cup {"none"} :
              [r EXCEPT !.phase = "checkpoint-captured", !.checkpoint = m] \in TransferRecord
         /\ [r EXCEPT !.phase = "target-staged", !.batch = TRUE] \in TransferRecord
         /\ \A k \in SourceKey :
              [r EXCEPT !.phase = "cloud-relinquished", !.proof = k] \in TransferRecord
         /\ [r EXCEPT !.phase = "lan-activated", !.expired = FALSE] \in TransferRecord
         /\ \A c \in Phase \cup {"expiry"} :
              [r EXCEPT !.phase = "cancel-intent", !.cancelling = c] \in TransferRecord
         /\ [r EXCEPT !.phase = "target-invalidated", !.reopen = TRUE] \in TransferRecord
         /\ [r EXCEPT !.phase = "target-invalidated", !.evidence = "cleaned", !.reopen = TRUE,
                      !.expired = FALSE] \in TransferRecord
         /\ \A e \in {"accepted", r.evidence} :
              [r EXCEPT !.phase = "cancelled", !.evidence = e] \in TransferRecord
<1>1. \A p \in Phase : [r EXCEPT !.phase = p] \in TransferRecord
  BY DEF TransferRecord, Phase, Forward, Handed, Backward
<1>2. [r EXCEPT !.evidence = "accepted"] \in TransferRecord
  BY DEF TransferRecord, Phase, Forward, Handed, Backward
<1>3. \A b \in BOOLEAN : [r EXCEPT !.expired = b] \in TransferRecord
  BY DEF TransferRecord, Phase, Forward, Handed, Backward
<1>4. \A m \in Main \cup {"none"} :
        [r EXCEPT !.phase = "checkpoint-captured", !.checkpoint = m] \in TransferRecord
  BY DEF TransferRecord, Phase, Forward, Handed, Backward
<1>5. [r EXCEPT !.phase = "target-staged", !.batch = TRUE] \in TransferRecord
  BY DEF TransferRecord, Phase, Forward, Handed, Backward
<1>6. \A k \in SourceKey :
        [r EXCEPT !.phase = "cloud-relinquished", !.proof = k] \in TransferRecord
  BY DEF TransferRecord, Phase, Forward, Handed, Backward
<1>7. [r EXCEPT !.phase = "lan-activated", !.expired = FALSE] \in TransferRecord
  BY DEF TransferRecord, Phase, Forward, Handed, Backward
<1>8. \A c \in Phase \cup {"expiry"} :
        [r EXCEPT !.phase = "cancel-intent", !.cancelling = c] \in TransferRecord
  BY DEF TransferRecord, Phase, Forward, Handed, Backward
<1>9. [r EXCEPT !.phase = "target-invalidated", !.reopen = TRUE] \in TransferRecord
  BY DEF TransferRecord, Phase, Forward, Handed, Backward
<1>10. [r EXCEPT !.phase = "target-invalidated", !.evidence = "cleaned", !.reopen = TRUE,
        !.expired = FALSE] \in TransferRecord
  BY DEF TransferRecord, Phase, Forward, Handed, Backward
<1>11. \A e \in {"accepted", r.evidence} :
        [r EXCEPT !.phase = "cancelled", !.evidence = e] \in TransferRecord
  BY DEF TransferRecord, Phase, Forward, Handed, Backward
<1> QED
  BY <1>1, <1>2, <1>3, <1>4, <1>5, <1>6, <1>7, <1>8, <1>9, <1>10, <1>11

\* TypeInv: the types, with what keeps them: a waiting call was made, and the generation
\* advances only with the end of service.
TypeInv ==
  /\ TypeOK
  /\ Called
  /\ service # "deleting" => generation = 0

\* The labels where a call may continue.
LEMMA FirstLabels ==
  ASSUME TypeInv, NEW w \in Worker, pc[w] = "lane", FirstStep(w) # "done"
  PROVE  FirstStep(w) \in Label \ {"idle", "preflight", "lane"}
<1> DEFINE L == (Label \ {"idle", "preflight", "lane"}) \cup {"done"}
<1>1. job[w].call \in {"begin", "accept", "stage", "activate", "invalidate", "verifier",
                      "redeem", "cancel", "recover", "recover-accept"}
  BY WorkerTypes DEF TypeInv, Called, JobRecord
<1>2. SettleStep(T(w)) \in L
  BY DEF SettleStep, Label
<1>3. RecoverStep(T(w)) \in L
  BY <1>2 DEF RecoverStep, Label
<1>4. FirstStep(w) \in L
  BY <1>1, <1>2, <1>3 DEF FirstStep, Label
<1> QED
  BY <1>4

\* Starting a call.
LEMMA StartType ==
  ASSUME TypeInv, NEW w \in Worker, NEW c \in {"begin", "accept", "stage", "activate",
           "invalidate", "verifier", "redeem", "cancel", "recover", "recover-accept"},
         NEW t \in Transfer, NEW p \in Phase \cup {"expiry"},
         NEW r \in {"none", "checkpoint", "repository"}, NEW s \in {"preflight", "lane"},
         Start(w, c, t, p, r, s)
  PROVE  ProcType' /\ Called'
<1> DEFINE j == [NoJob EXCEPT !.call = c, !.transfer = t, !.saw = p, !.reserved = r]
<1>1. j \in JobRecord /\ j.call = c
  BY AbsentTypes DEF JobRecord
<1>2. ProcType
  BY DEF TypeInv, TypeOK, ProcType
<1>3. pc' = [pc EXCEPT ![w] = s] /\ job' = [job EXCEPT ![w] = j] /\ UNCHANGED <<lease, signingKey>>
  BY DEF Start
<1> HIDE DEF j
<1>4. ProcType'
  BY <1>1, <1>2, <1>3 DEF ProcType, Label
<1>5. Called'
  BY <1>1, <1>2, <1>3 DEF TypeInv, Called, ProcType
<1> QED
  BY <1>4, <1>5

\* Going on, or returning, leaves the calls that wait as they were.
LEMMA CalledStep ==
  ASSUME TypeInv, NEW w \in Worker,
         Return(w) \/ \E s \in Label \ {"preflight", "lane"} : Goto(w, s)
  PROVE  ProcType' /\ Called'
<1>1. ProcType
  BY DEF TypeInv, TypeOK, ProcType
<1>2. CASE Return(w)
  <2>1. Called'
    BY <1>1, <1>2 DEF Return, Called, TypeInv, ProcType
  <2> QED
    BY <2>1, <1>1, <1>2, ReturnType
<1>3. CASE \E s \in Label \ {"preflight", "lane"} : Goto(w, s)
  <2>1. PICK s \in Label \ {"preflight", "lane"} : Goto(w, s)
    BY <1>3
  <2>2. Called'
    BY <1>1, <2>1 DEF Goto, Called, TypeInv, ProcType
  <2> QED
    BY <2>1, <2>2, <1>1, GotoType
<1> QED
  BY <1>2, <1>3

\* The transactions that write the row of their transfer.
LEMMA RowWriters ==
  ASSUME TypeInv, NEW w \in Worker
  PROVE  /\ (\/ Begin(w)
             \/ AcceptTarget(w)
             \/ Quiesce(w)
             \/ RecordCapture(w)
             \/ StageClaims(w)
             \/ RetainClaims(w)
             \/ Activate(w)
             \/ Renew(w)
             \/ Complete(w)
             \/ SettleUnaccepted(w)
             \/ ConfirmInvalidated(w)
             \/ Clean(w)
             \/ Reopen(w)
             \/ Relinquish(w)
             \/ StartCancellation(w)
             \/ FinishCancellation(w)) =>
              \E r \in TransferRecord : Write(T(w), r)
<1>0. /\ T(w) \in Transfer /\ transfer[T(w)] \in TransferRecord
      /\ job[w].main \in Main \cup {"none"} /\ job[w].saw \in Phase \cup {"expiry"}
  BY WorkerTypes DEF TypeInv
<1>1. Begin(w) => \E r \in TransferRecord : Write(T(w), r)
  <2> SUFFICES ASSUME Begin(w)
               PROVE  \E r \in TransferRecord : Write(T(w), r)
    OBVIOUS
  <2>1. generation = 0
    BY Guards DEF Begin, TypeInv
  <2>2. [NoTransfer EXCEPT !.phase = "collecting-readiness", !.expected = generation]
          \in TransferRecord
    BY <2>1, AbsentTypes DEF TransferRecord, Phase, Forward
  <2> QED
    BY <2>2 DEF Begin
<1>2. AcceptTarget(w) => \E r \in TransferRecord : Write(T(w), r)
  <2>1. [transfer[T(w)] EXCEPT !.evidence = "accepted"] \in TransferRecord
    BY <1>0, RowTypes
  <2> QED
    BY <2>1 DEF AcceptTarget
<1>3. Quiesce(w) => \E r \in TransferRecord : Write(T(w), r)
  <2>1. [transfer[T(w)] EXCEPT !.phase = "cloud-quiesced"] \in TransferRecord
    BY <1>0, RowTypes DEF Phase, Forward
  <2> QED
    BY <2>1 DEF Quiesce
<1>4. RecordCapture(w) => \E r \in TransferRecord : Write(T(w), r)
  <2>1. [transfer[T(w)] EXCEPT !.phase = "checkpoint-captured", !.checkpoint = job[w].main] \in TransferRecord
    BY <1>0, RowTypes
  <2> QED
    BY <2>1 DEF RecordCapture
<1>5. StageClaims(w) => \E r \in TransferRecord : Write(T(w), r)
  <2>1. [transfer[T(w)] EXCEPT !.phase = "target-staged", !.batch = TRUE] \in TransferRecord
    BY <1>0, RowTypes
  <2> QED
    BY <2>1 DEF StageClaims
<1>6. RetainClaims(w) => \E r \in TransferRecord : Write(T(w), r)
  <2>1. [transfer[T(w)] EXCEPT !.phase = "claims-retained"] \in TransferRecord
    BY <1>0, RowTypes DEF Phase, Forward
  <2> QED
    BY <2>1 DEF RetainClaims
<1>7. Activate(w) => \E r \in TransferRecord : Write(T(w), r)
  <2>1. [transfer[T(w)] EXCEPT !.phase = "lan-activated", !.expired = FALSE] \in TransferRecord
    BY <1>0, RowTypes
  <2> QED
    BY <2>1 DEF Activate
<1>8. Renew(w) => \E r \in TransferRecord : Write(T(w), r)
  <2>1. [transfer[T(w)] EXCEPT !.expired = FALSE] \in TransferRecord
    BY <1>0, RowTypes
  <2> QED
    BY <2>1 DEF Renew
<1>9. Complete(w) => \E r \in TransferRecord : Write(T(w), r)
  <2>1. [transfer[T(w)] EXCEPT !.phase = "completed"] \in TransferRecord
    BY <1>0, RowTypes DEF Phase, Handed
  <2> QED
    BY <2>1 DEF Complete
<1>10. SettleUnaccepted(w) => \E r \in TransferRecord : Write(T(w), r)
  <2>1. [transfer[T(w)] EXCEPT !.phase = "target-invalidated", !.reopen = TRUE] \in TransferRecord
    BY <1>0, RowTypes
  <2> QED
    BY <2>1 DEF SettleUnaccepted
<1>11. ConfirmInvalidated(w) => \E r \in TransferRecord : Write(T(w), r)
  <2>1. [transfer[T(w)] EXCEPT !.phase = "target-invalidated", !.evidence = "cleaned",
                                         !.reopen = TRUE, !.expired = FALSE] \in TransferRecord
    BY <1>0, RowTypes
  <2> QED
    BY <2>1 DEF ConfirmInvalidated
<1>12. Clean(w) => \E r \in TransferRecord : Write(T(w), r)
  <2>1. [transfer[T(w)] EXCEPT !.phase = "target-cleaned"] \in TransferRecord
    BY <1>0, RowTypes DEF Phase, Backward
  <2> QED
    BY <2>1 DEF Clean
<1>13. Reopen(w) => \E r \in TransferRecord : Write(T(w), r)
  <2>1. [transfer[T(w)] EXCEPT !.phase = "source-reopened"] \in TransferRecord
    BY <1>0, RowTypes DEF Phase, Backward
  <2> QED
    BY <2>1 DEF Reopen
<1>20. Relinquish(w) => \E r \in TransferRecord : Write(T(w), r)
  <2> SUFFICES ASSUME Relinquish(w)
               PROVE  \E r \in TransferRecord : Write(T(w), r)
    OBVIOUS
  <2>1. PICK k \in keys[T(w)] :
          Write(T(w), [transfer[T(w)] EXCEPT !.phase = "cloud-relinquished", !.proof = k])
    BY DEF Relinquish
  <2>2. k \in SourceKey
    BY <1>0, <2>1 DEF TypeInv, TypeOK
  <2> QED
    BY <2>1, <2>2, <1>0, RowTypes
<1>21. StartCancellation(w) => \E r \in TransferRecord : Write(T(w), r)
  <2> DEFINE c == IF job[w].call = "recover" THEN "expiry" ELSE job[w].saw
  <2>1. [transfer[T(w)] EXCEPT !.phase = "cancel-intent", !.cancelling = c] \in TransferRecord
    BY <1>0, RowTypes
  <2> QED
    BY <2>1 DEF StartCancellation
<1>22. FinishCancellation(w) => \E r \in TransferRecord : Write(T(w), r)
  <2> DEFINE e == IF transfer[T(w)].evidence = "cleaned" THEN "accepted"
                  ELSE transfer[T(w)].evidence
  <2>1. [transfer[T(w)] EXCEPT !.phase = "cancelled", !.evidence = e] \in TransferRecord
    BY <1>0, RowTypes
  <2> QED
    BY <2>1 DEF FinishCancellation
<1> QED
  BY <1>1, <1>2, <1>3, <1>4, <1>5, <1>6, <1>7, <1>8, <1>9, <1>10, <1>11, <1>12, <1>13, <1>20, <1>21, <1>22

\* What a step that is neither a call nor a wait does to the worker.
LEMMA Moves ==
  ASSUME TypeInv, NEW w \in Worker, Step(w), ~Preflight(w), ~Reread(w), ~EnterLane(w),
         ~Snapshot(w)
  PROVE  ProcType' /\ Called'
<1> DEFINE Moved == Return(w) \/ \E s \in Label \ {"preflight", "lane"} : Goto(w, s)
<1> SUFFICES Moved
  BY CalledStep
<1>1. (\/ Refused(w) \/ Begin(w) \/ RecordCapture(w) \/ Relinquish(w)
       \/ ReceiptVerifier(w) \/ Complete(w) \/ AcknowledgeRedemption(w)
       \/ FinishCancellation(w) \/ CompleteAccept(w)) => Moved
  BY DEF Refused, Begin, RecordCapture, Relinquish, ReceiptVerifier, Complete,
         AcknowledgeRedemption, FinishCancellation, CompleteAccept
<1>2. (\/ AcceptTarget(w) \/ Quiesce(w) \/ MakeDirectory(w) \/ MarkOwner(w)
       \/ StageFiles(w) \/ StageClaims(w) \/ RetainClaims(w) \/ PinKey(w) \/ Activate(w)
       \/ DiscardDelivered(w) \/ Renew(w) \/ RenewClaims(w)) => Moved
  BY DEF Label, AcceptTarget, Quiesce, MakeDirectory, MarkOwner, StageFiles, StageClaims,
         RetainClaims, PinKey, Activate, DiscardDelivered, Renew, RenewClaims
<1>3. (\/ SettleUnaccepted(w) \/ ConfirmInvalidated(w) \/ DiscardCancelled(w) \/ DropClaims(w)
       \/ DropKey(w) \/ Clean(w) \/ Reopen(w) \/ SettleMain(w)
       \/ MarkMain(w)) => Moved
  BY DEF Label, SettleUnaccepted, ConfirmInvalidated, DiscardCancelled, DropClaims, DropKey,
         Clean, Reopen, SettleMain, MarkMain
<1>4. StartCancellation(w) => Moved
  BY DEF Label, StartCancellation
<1> QED
  BY <1>1, <1>2, <1>3, <1>4 DEF Step

\* The worker of the other steps.
LEMMA Waits ==
  ASSUME TypeInv, NEW w \in Worker,
         Preflight(w) \/ Reread(w) \/ EnterLane(w) \/ Snapshot(w)
  PROVE  ProcType' /\ Called'
<1>0. ProcType /\ T(w) \in Transfer /\ Phases(T(w)) \in Phase /\ job[w] \in JobRecord
  BY WorkerTypes, RowFields DEF TypeInv, Phases
<1>1. \A c : Reservation(c, Phases(T(w))) \in {"none", "checkpoint", "repository"}
  BY DEF Reservation
<1> DEFINE j(c) == [job[w] EXCEPT !.saw = Phases(T(w)), !.reserved = Reservation(c, Phases(T(w)))]
<1>2. \A c : j(c) \in JobRecord /\ j(c).call = job[w].call
  BY <1>0, <1>1 DEF JobRecord
<1>3. CASE Preflight(w)
  <2>1. /\ job' = [job EXCEPT ![w] = j(job[w].call)] /\ pc' = [pc EXCEPT ![w] = "lane"]
        /\ pc[w] = "preflight" /\ UNCHANGED <<lease, signingKey>>
    BY <1>3 DEF Preflight
  <2> HIDE DEF j
  <2>2. ProcType'
    BY <1>0, <1>2, <2>1 DEF ProcType, Label
  <2> QED
    BY <1>0, <1>2, <2>1, <2>2 DEF TypeInv, Called, ProcType
<1>4. CASE Reread(w) /\ ~Return(w)
  <2>1. /\ job' = [job EXCEPT ![w] = j("recover")]
        /\ pc[w] = "lane" /\ UNCHANGED <<pc, lease, signingKey>>
    BY <1>4 DEF Reread
  <2> HIDE DEF j
  <2>2. ProcType'
    BY <1>0, <1>2, <2>1 DEF ProcType
  <2> QED
    BY <1>0, <1>2, <2>1, <2>2 DEF TypeInv, Called, ProcType
<1>5. CASE Return(w)
  BY <1>5, CalledStep
<1>6. CASE EnterLane(w) /\ ~Return(w)
  <2>1. /\ FirstStep(w) \in Label \ {"idle", "preflight", "lane"}
        /\ pc' = [pc EXCEPT ![w] = FirstStep(w)] /\ lease' = w /\ UNCHANGED <<job, signingKey>>
    BY <1>6, FirstLabels DEF EnterLane
  <2>2. ProcType'
    BY <1>0, <2>1 DEF ProcType
  <2> QED
    BY <1>0, <2>1, <2>2 DEF TypeInv, Called, ProcType
<1>7. CASE Snapshot(w)
  <2>1. /\ job' = [job EXCEPT ![w] = [job[w] EXCEPT !.main = dbMain]]
        /\ pc' = [pc EXCEPT ![w] = "files"] /\ UNCHANGED <<lease, signingKey>>
    BY <1>7 DEF Snapshot
  <2>2. [job[w] EXCEPT !.main = dbMain] \in JobRecord
    BY <1>0 DEF JobRecord, TypeInv, TypeOK
  <2>3. ProcType'
    BY <1>0, <2>1, <2>2 DEF ProcType, Label
  <2> QED
    BY <1>0, <2>1, <2>3 DEF TypeInv, Called, ProcType
<1> QED
  BY <1>3, <1>4, <1>5, <1>6, <1>7

\* The calls.
LEMMA Calls ==
  ASSUME TypeInv, NEW w \in Worker, NEW t \in Transfer,
         Call(w, t) \/ CallRecover(w, t) \/ CallRecoverAccept(w)
  PROVE  TypeInv'
<1>0. /\ Phases(t) \in Phase /\ transfer[t].cancelling \in Phase \cup {"expiry"}
      /\ "none" \in Phase /\ NoJob.transfer \in Transfer
  BY RowFields, AbsentTypes DEF TypeInv, TypeOK, Phases, Phase, JobRecord
<1>1. ProcType' /\ Called'
  <2>1. CallBegin(w, t) => ProcType' /\ Called'
    BY <1>0, StartType DEF CallBegin
  <2>2. CallAcceptTarget(w, t) => ProcType' /\ Called'
    BY <1>0, StartType DEF CallAcceptTarget
  <2>3. CallTargetStaged(w, t) => ProcType' /\ Called'
    BY <1>0, StartType DEF CallTargetStaged
  <2>4. CallTargetActive(w, t) => ProcType' /\ Called'
    BY <1>0, StartType DEF CallTargetActive
  <2>5. CallTargetInvalidated(w, t) => ProcType' /\ Called'
    BY <1>0, StartType DEF CallTargetInvalidated
  <2>6. CallReceiptVerifier(w, t) => ProcType' /\ Called'
    BY <1>0, StartType DEF CallReceiptVerifier
  <2>7. CallRedemption(w, t) => ProcType' /\ Called'
    BY <1>0, StartType DEF CallRedemption
  <2>8. CallCancel(w, t) => ProcType' /\ Called'
    BY <1>0, StartType DEF CallCancel
  <2>9. CallRecover(w, t) => ProcType' /\ Called'
    BY <1>0, StartType DEF CallRecover
  <2>10. CallRecoverAccept(w) => ProcType' /\ Called'
    BY <1>0, StartType DEF CallRecoverAccept
  <2> QED
    BY <2>1, <2>2, <2>3, <2>4, <2>5, <2>6, <2>7, <2>8, <2>9, <2>10 DEF Call
<1>2. /\ UNCHANGED <<dbVars, diskVars, faults>>
      /\ \/ host' = host
         \/ host' = [host EXCEPT ![t] = "accepted"]
  BY DEF Call, CallBegin, CallAcceptTarget, CallTargetStaged, CallTargetActive,
         CallTargetInvalidated, CallReceiptVerifier, CallRedemption, CallCancel, CallRecover,
         CallRecoverAccept, Start
<1> QED
  BY <1>1, <1>2 DEF TypeInv, TypeOK, ProcType, dbVars, diskVars

\* A step of a worker keeps the types.
LEMMA StepTypes ==
  ASSUME TypeInv, NEW w \in Worker, Step(w)
  PROVE  TypeInv'
<1>1. ProcType' /\ Called'
  BY Moves, Waits
<1>2. T(w) \in Transfer /\ transfer[T(w)].expected = 0 /\ job[w].main \in Main \cup {"none"}
  BY WorkerTypes, RowFields DEF TypeInv
<1>3. (\E r \in TransferRecord : Write(T(w), r)) => transfer' \in [Transfer -> TransferRecord]
  BY <1>2, WriteRow DEF TypeInv, TypeOK
<1>4. (\/ Preflight(w) \/ Reread(w) \/ EnterLane(w) \/ Refused(w) \/ Snapshot(w)) => TypeInv'
  BY <1>1 DEF Preflight, Reread, EnterLane, Refused, Snapshot, TypeInv,
         TypeOK, ProcType, dbVars, diskVars
<1>5. Begin(w) => TypeInv'
  BY <1>1, <1>3, RowWriters DEF Begin, TypeInv, TypeOK, ProcType, diskVars
<1>6. AcceptTarget(w) => TypeInv'
  BY <1>1, <1>3, RowWriters DEF AcceptTarget, TypeInv, TypeOK, ProcType, diskVars
<1>7. RecordCapture(w) => TypeInv'
  BY <1>1, <1>3, RowWriters DEF RecordCapture, TypeInv, TypeOK, ProcType, diskVars
<1>8. RetainClaims(w) => TypeInv'
  BY <1>1, <1>3, RowWriters DEF RetainClaims, TypeInv, TypeOK, ProcType, diskVars
<1>9. Activate(w) => TypeInv'
  BY <1>1, <1>3, RowWriters DEF Activate, TypeInv, TypeOK, ProcType, diskVars
<1>10. Renew(w) => TypeInv'
  BY <1>1, <1>3, RowWriters DEF Renew, TypeInv, TypeOK, ProcType, diskVars
<1>11. StartCancellation(w) => TypeInv'
  BY <1>1, <1>3, RowWriters DEF StartCancellation, TypeInv, TypeOK, ProcType, diskVars
<1>12. SettleUnaccepted(w) => TypeInv'
  BY <1>1, <1>3, RowWriters DEF SettleUnaccepted, TypeInv, TypeOK, ProcType, diskVars
<1>13. ConfirmInvalidated(w) => TypeInv'
  BY <1>1, <1>3, RowWriters DEF ConfirmInvalidated, TypeInv, TypeOK, ProcType, diskVars
<1>14. Clean(w) => TypeInv'
  BY <1>1, <1>3, RowWriters DEF Clean, TypeInv, TypeOK, ProcType, diskVars
<1>15. Quiesce(w) => TypeInv'
  BY <1>1, <1>2, <1>3, RowWriters, Guards DEF Quiesce, TypeInv, TypeOK, ProcType, diskVars, Tx,
         Reopenable
<1>16. Reopen(w) => TypeInv'
  BY <1>1, <1>2, <1>3, RowWriters, Guards DEF Reopen, TypeInv, TypeOK, ProcType, diskVars, Tx,
         Reopenable
<1>17. Relinquish(w) => TypeInv'
  <2> SUFFICES ASSUME Relinquish(w) PROVE TypeInv'
    OBVIOUS
  <2>1. transfer' \in [Transfer -> TransferRecord]
    BY <1>3, RowWriters
  <2>2. /\ service' = "deleting" /\ generation' = 1
        /\ UNCHANGED <<claims, claimsExpired, redeemed, keys, responder, deletion, accept, dbMain,
                       diskVars, host, faults>>
    BY <1>2 DEF Relinquish, TargetGeneration
  <2> QED
    BY <1>1, <2>1, <2>2 DEF TypeInv, TypeOK, ProcType, diskVars
<1>18. StageClaims(w) => TypeInv'
  BY <1>1, <1>2, <1>3, RowWriters DEF StageClaims, TypeInv, TypeOK, ProcType, diskVars, ExactBatchMembers
<1>19. Complete(w) => TypeInv'
  BY <1>1, <1>2, <1>3, RowWriters DEF Complete, TypeInv, TypeOK, ProcType, diskVars
<1>20. FinishCancellation(w) => TypeInv'
  BY <1>1, <1>2, <1>3, RowWriters DEF FinishCancellation, TypeInv, TypeOK, ProcType, diskVars
<1>21. PinKey(w) => TypeInv'
  BY <1>1, <1>2 DEF PinKey, TypeInv, TypeOK, ProcType, diskVars, SourceReceiptKey
<1>22. ReceiptVerifier(w) => TypeInv'
  BY <1>1, <1>2 DEF ReceiptVerifier, TypeInv, TypeOK, ProcType, diskVars, SourceReceiptKey
<1>23. RenewClaims(w) => TypeInv'
  BY <1>1, <1>2, WorkerTypes, RowFields DEF RenewClaims, TypeInv, TypeOK, ProcType, diskVars
<1>24. AcknowledgeRedemption(w) => TypeInv'
  BY <1>1, <1>2 DEF AcknowledgeRedemption, TypeInv, TypeOK, ProcType, diskVars, Scrub
<1>25. DropClaims(w) => TypeInv'
  BY <1>1, <1>2 DEF DropClaims, TypeInv, TypeOK, ProcType, diskVars
<1>26. DropKey(w) => TypeInv'
  BY <1>1, <1>2 DEF DropKey, TypeInv, TypeOK, ProcType, diskVars
<1>27. StageFiles(w) => TypeInv'
  BY <1>1, <1>2 DEF StageFiles, TypeInv, TypeOK, ProcType, dbVars, Main
<1>28. DiscardDelivered(w) => TypeInv'
  BY <1>1, <1>2 DEF DiscardDelivered, DiscardCheckpoint, TypeInv, TypeOK, ProcType, dbVars, Main
<1>29. DiscardCancelled(w) => TypeInv'
  BY <1>1, <1>2 DEF DiscardCancelled, DiscardCheckpoint, TypeInv, TypeOK, ProcType, dbVars, Main
<1>30. SettleMain(w) => TypeInv'
  BY <1>1, <1>2 DEF SettleMain, TypeInv, TypeOK, ProcType, dbVars, Main
<1>31. MarkMain(w) => TypeInv'
  BY <1>1 DEF MarkMain, TypeInv, TypeOK, ProcType, diskVars, Unresolved,
         Main
<1>32. CompleteAccept(w) => TypeInv'
  BY <1>1 DEF CompleteAccept, TypeInv, TypeOK, ProcType, diskVars, Unresolved,
         Main
<1>33. MakeDirectory(w) \/ MarkOwner(w) => TypeInv'
  BY <1>1, <1>2 DEF MakeDirectory, MarkOwner, TypeInv, TypeOK, ProcType, dbVars
<1> QED
  BY <1>4, <1>5, <1>6, <1>7, <1>8, <1>9, <1>10, <1>11, <1>12, <1>13,
     <1>14, <1>15, <1>16, <1>17, <1>18, <1>19, <1>20, <1>21, <1>22, <1>23,
     <1>24, <1>25, <1>26, <1>27, <1>28, <1>29, <1>30, <1>31, <1>32, <1>33 DEF Step

\* The host, the clock and the faults keep the types.
LEMMA OtherTypes ==
  ASSUME TypeInv,
         \/ \E t \in Transfer : HostStages(t) \/ HostActivates(t) \/ HostInvalidates(t) \/ Expire(t)
         \/ AcceptInterrupted
         \/ \E w \in Worker : LoseLease(w) \/ Fail(w) \/ CutRemoval(w)
         \/ Crash
         \/ UNCHANGED vars
  PROVE  TypeInv'
<1>1. CASE \E t \in Transfer : HostStages(t) \/ HostActivates(t) \/ HostInvalidates(t)
  BY <1>1 DEF HostStages, HostActivates, HostInvalidates, TypeInv, TypeOK, Called, dbVars,
              diskVars, procVars
<1>2. CASE \E t \in Transfer : Expire(t)
  <2>1. PICK t \in Transfer : Expire(t)
    BY <1>2
  <2>2. transfer' \in [Transfer -> TransferRecord] /\ transfer[t].batch \in BOOLEAN
    BY <2>1, WriteRow, RowTypes, RowFields DEF Expire, TypeInv, TypeOK
  <2> QED
    BY <2>1, <2>2 DEF Expire, TypeInv, TypeOK, Called, diskVars, procVars
<1>3. CASE AcceptInterrupted
  BY <1>3, TransferAssumption DEF AcceptInterrupted, TypeInv, TypeOK, Called, Unresolved, diskVars,
     procVars
<1>4. CASE \E w \in Worker : LoseLease(w)
  BY <1>4, TransferAssumption DEF LoseLease, TypeInv, TypeOK, Called, dbVars, diskVars
<1>5. CASE \E w \in Worker : Fail(w)
  <2>1. PICK w \in Worker : Fail(w)
    BY <1>5
  <2>2. ProcType' /\ Called'
    BY <2>1, CalledStep DEF Fail
  <2> QED
    BY <2>1, <2>2, TransferAssumption DEF Fail, TypeInv, TypeOK, ProcType, dbVars, diskVars
<1>8. CASE \E w \in Worker : CutRemoval(w)
  <2>1. PICK w \in Worker : CutRemoval(w)
    BY <1>8
  <2>2. ProcType' /\ Called'
    BY <2>1, CalledStep DEF CutRemoval
  <2>3. /\ files' \in [Transfer -> Main \cup {"none"}]
        /\ directory' \in [Transfer -> {"none", "unmarked", "owned"}]
        /\ detached' \in [Transfer -> BOOLEAN]
    BY <2>1 DEF CutRemoval, TypeInv, TypeOK
  <2>4. UNCHANGED <<dbVars, gitMain, host>> /\ faults' \in 0..MaxFaults
    BY <2>1, TransferAssumption DEF CutRemoval, TypeInv, TypeOK
  <2> QED
    BY <2>2, <2>3, <2>4 DEF TypeInv, TypeOK, ProcType, dbVars
<1>6. CASE Crash
  <2>1. pc' \in [Worker -> Label] /\ job' \in [Worker -> JobRecord] /\ Called'
    BY <1>6, AbsentTypes DEF Crash, Label, Called
  <2> QED
    BY <1>6, <2>1, TransferAssumption DEF Crash, TypeInv, TypeOK, dbVars, diskVars
<1>7. CASE UNCHANGED vars
  BY <1>7 DEF vars, TypeInv, TypeOK, Called, dbVars, diskVars, procVars
<1> QED
  BY <1>1, <1>2, <1>3, <1>4, <1>5, <1>6, <1>7, <1>8

\* TypeInv is inductive.
LEMMA TypeInduction ==
  /\ Init => TypeInv
  /\ TypeInv /\ [Next]_vars => TypeInv'
<1>1. Init => TypeInv
  <2> SUFFICES ASSUME Init PROVE TypeInv
    OBVIOUS
  <2>1. /\ transfer \in [Transfer -> TransferRecord]
        /\ pc \in [Worker -> Label] /\ job \in [Worker -> JobRecord]
        /\ Called
    BY AbsentTypes DEF Init, Called, Label
  <2>2. /\ claims \in [Transfer -> SUBSET Member] /\ redeemed \in [Transfer -> SUBSET Member]
        /\ keys \in [Transfer -> SUBSET SourceKey]
        /\ claimsExpired \in [Transfer -> BOOLEAN] /\ responder \in [Transfer -> BOOLEAN]
        /\ files \in [Transfer -> Main \cup {"none"}]
        /\ directory \in [Transfer -> {"none", "unmarked", "owned"}]
        /\ detached \in [Transfer -> BOOLEAN]
        /\ host \in [Transfer -> {"idle", "accepted", "staged", "active", "invalidated"}]
    BY DEF Init
  <2>3. /\ service = "active" /\ generation = 0 /\ accept = "none"
        /\ dbMain = "old" /\ gitMain = "old" /\ lease = NoWorker /\ signingKey \in SourceKey
    BY DEF Init
  <2>4. faults \in 0 .. MaxFaults
    BY TransferAssumption DEF Init
  <2>5. deletion \in BOOLEAN
    BY DEF Init
  <2> QED
    BY <2>1, <2>2, <2>3, <2>4, <2>5 DEF TypeInv, TypeOK, Main
<1>2. TypeInv /\ [Next]_vars => TypeInv'
  <2> SUFFICES ASSUME TypeInv, [Next]_vars PROVE TypeInv'
    OBVIOUS
  <2>1. Reconciler \in Worker /\ \A w \in Client : w \in Worker
    BY DEF Worker
  <2>2. CASE \E w \in Client, t \in Transfer : Call(w, t)
    BY <2>1, <2>2, Calls
  <2>3. CASE \E t \in Transfer : CallRecover(Reconciler, t)
    BY <2>1, <2>3, Calls
  <2>4. CASE CallRecoverAccept(Reconciler)
    BY <2>1, <2>4, Calls, TransferAssumption
  <2>5. CASE \E w \in Worker : Step(w)
    BY <2>5, StepTypes
  <2> QED
    BY <2>2, <2>3, <2>4, <2>5, OtherTypes DEF Next
<1> QED
  BY <1>1, <1>2

\* Every reachable state has the types of TypeOK: no handler, recovery or crash leaves a
\* journal at an unknown phase or a call at an unknown step.
THEOREM TypeCorrect == Spec => []TypeOK
<1>1. TypeInv => TypeOK
  BY DEF TypeInv
<1> QED
  BY <1>1, TypeInduction, PTL DEF Spec

-----------------------------------------------------------------------------
(* The edges of the journal. *)

\* The source is read-only and not yet relinquished.
Quiesced == {"cloud-quiesced", "checkpoint-captured", "target-staged", "claims-retained"}

\* The holder of the lane moves the phase of its transfer from one set to another, and
\* leaves the other transfers as they are.
Edge(w, P, Q) ==
  /\ lease = w
  /\ Phases(T(w)) \in P /\ transfer'[T(w)].phase \in Q
  /\ transfer'[T(w)].expected = 0
  /\ \A u \in Transfer \ {T(w)} : transfer'[u] = transfer[u]

\* Only the phase matters: the checkpoint and the proof are kept.
KeepsRest(w) ==
  /\ transfer'[T(w)].checkpoint = transfer[T(w)].checkpoint
  /\ transfer'[T(w)].proof = transfer[T(w)].proof

\* Neither a row, nor the service, nor the claims, nor main.
Quiet == UNCHANGED <<service, generation, transfer, claims, redeemed, dbMain>>

\* The edge that each transaction takes.
LEMMA Edges ==
  ASSUME TypeInv, NEW w \in Worker
  PROVE  /\ Begin(w) => /\ Edge(w, {"none"}, {"collecting-readiness"})
                        /\ transfer'[T(w)].proof = NoKey
         /\ AcceptTarget(w) => /\ Edge(w, {Phases(T(w))}, {Phases(T(w))}) /\ KeepsRest(w)
         /\ Quiesce(w) => /\ Edge(w, {"collecting-readiness"}, {"cloud-quiesced"})
                          /\ KeepsRest(w)
         /\ RecordCapture(w) => /\ Edge(w, {"cloud-quiesced"}, {"checkpoint-captured"})
                                /\ transfer'[T(w)].proof = transfer[T(w)].proof
                                /\ transfer'[T(w)].checkpoint = job[w].main
         /\ StageClaims(w) => /\ Edge(w, {"checkpoint-captured"}, {"target-staged"})
                              /\ KeepsRest(w)
         /\ RetainClaims(w) => /\ Edge(w, {"target-staged"}, {"claims-retained"})
                               /\ KeepsRest(w)
         /\ Relinquish(w) => /\ Edge(w, {"claims-retained"}, {"cloud-relinquished"})
                             /\ transfer'[T(w)].proof # NoKey
                             /\ transfer'[T(w)].checkpoint = transfer[T(w)].checkpoint
         /\ Activate(w) => /\ Edge(w, {"cloud-relinquished"}, {"lan-activated"})
                           /\ KeepsRest(w)
         /\ Renew(w) => /\ Edge(w, {"lan-activated"}, {"lan-activated"}) /\ KeepsRest(w)
         /\ Complete(w) => /\ Edge(w, {"lan-activated"}, {"completed"}) /\ KeepsRest(w)
         /\ StartCancellation(w) =>
              /\ Edge(w, (Forward \cup Backward) \ {"cancelled"}, {"cancel-intent"})
              /\ KeepsRest(w)
         /\ SettleUnaccepted(w) => /\ Edge(w, {"cancel-intent"}, {"target-invalidated"})
                                   /\ KeepsRest(w)
         /\ ConfirmInvalidated(w) => /\ Edge(w, {"cancel-intent"}, {"target-invalidated"})
                                     /\ KeepsRest(w)
         /\ Clean(w) => /\ Edge(w, {"target-invalidated"}, {"target-cleaned"}) /\ KeepsRest(w)
         /\ Reopen(w) => /\ Edge(w, {"target-cleaned"}, {"source-reopened"}) /\ KeepsRest(w)
         /\ FinishCancellation(w) => /\ Edge(w, {"source-reopened"}, {"cancelled"})
                                     /\ KeepsRest(w)
<1>0. /\ T(w) \in Transfer /\ transfer[T(w)] \in TransferRecord
      /\ transfer[T(w)].expected = 0
  BY WorkerTypes, RowFields DEF TypeInv
<1>a. \A r : Write(T(w), r) => /\ transfer'[T(w)] = r
                              /\ \A u \in Transfer \ {T(w)} : transfer'[u] = transfer[u]
  BY <1>0 DEF Write, TypeInv, TypeOK
<1>1. Begin(w) => 
        /\ Edge(w, {"none"}, {"collecting-readiness"})
        /\ transfer'[T(w)].proof = NoKey
  <2> SUFFICES ASSUME Begin(w)
               PROVE  /\ Edge(w, {"none"}, {"collecting-readiness"})
                      /\ transfer'[T(w)].proof = NoKey
    OBVIOUS
  <2>1. lease = w /\ Phases(T(w)) \in {"none"}
    BY Guards DEF Begin, Tx
  <2>2. Write(T(w), [NoTransfer EXCEPT !.phase = "collecting-readiness", !.expected = generation])
    BY DEF Begin
  <2>3. /\ transfer'[T(w)] = [NoTransfer EXCEPT !.phase = "collecting-readiness", !.expected = generation]
        /\ \A u \in Transfer \ {T(w)} : transfer'[u] = transfer[u]
    BY <1>a, <2>2
  <2>4. generation = 0
    BY Guards DEF Begin, TypeInv
  <2> QED
    BY <1>0, <2>1, <2>3, <2>4 DEF Edge, NoTransfer
<1>2. AcceptTarget(w) => Edge(w, {Phases(T(w))}, {Phases(T(w))}) /\ KeepsRest(w)
  <2> SUFFICES ASSUME AcceptTarget(w)
               PROVE  Edge(w, {Phases(T(w))}, {Phases(T(w))}) /\ KeepsRest(w)
    OBVIOUS
  <2>1. lease = w
    BY Guards DEF AcceptTarget, Tx
  <2>2. Write(T(w), [transfer[T(w)] EXCEPT !.evidence = "accepted"])
    BY DEF AcceptTarget
  <2>3. /\ transfer'[T(w)] = [transfer[T(w)] EXCEPT !.evidence = "accepted"]
        /\ \A u \in Transfer \ {T(w)} : transfer'[u] = transfer[u]
    BY <1>a, <2>2
  <2> QED
    BY <1>0, <2>1, <2>3 DEF Edge, KeepsRest, Phases, TransferRecord
<1>3. Quiesce(w) => Edge(w, {"collecting-readiness"}, {"cloud-quiesced"}) /\ KeepsRest(w)
  <2> SUFFICES ASSUME Quiesce(w)
               PROVE  Edge(w, {"collecting-readiness"}, {"cloud-quiesced"}) /\ KeepsRest(w)
    OBVIOUS
  <2>1. lease = w /\ Phases(T(w)) \in {"collecting-readiness"}
    BY Guards DEF Quiesce, Tx
  <2>2. Write(T(w), [transfer[T(w)] EXCEPT !.phase = "cloud-quiesced"])
    BY DEF Quiesce
  <2>3. /\ transfer'[T(w)] = [transfer[T(w)] EXCEPT !.phase = "cloud-quiesced"]
        /\ \A u \in Transfer \ {T(w)} : transfer'[u] = transfer[u]
    BY <1>a, <2>2
  <2> QED
    BY <1>0, <2>1, <2>3 DEF Edge, KeepsRest, Phases, TransferRecord
<1>4. RecordCapture(w) => 
        /\ Edge(w, {"cloud-quiesced"}, {"checkpoint-captured"})
        /\ transfer'[T(w)].proof = transfer[T(w)].proof
        /\ transfer'[T(w)].checkpoint = job[w].main
  <2> SUFFICES ASSUME RecordCapture(w)
               PROVE  /\ Edge(w, {"cloud-quiesced"}, {"checkpoint-captured"})
                      /\ transfer'[T(w)].proof = transfer[T(w)].proof
                      /\ transfer'[T(w)].checkpoint = job[w].main
    OBVIOUS
  <2>1. lease = w /\ Phases(T(w)) \in {"cloud-quiesced"}
    BY Guards DEF RecordCapture, Tx
  <2>2. Write(T(w), [transfer[T(w)] EXCEPT !.phase = "checkpoint-captured",
                                              !.checkpoint = job[w].main])
    BY DEF RecordCapture
  <2>3. /\ transfer'[T(w)] = [transfer[T(w)] EXCEPT !.phase = "checkpoint-captured",
                                              !.checkpoint = job[w].main]
        /\ \A u \in Transfer \ {T(w)} : transfer'[u] = transfer[u]
    BY <1>a, <2>2
  <2> QED
    BY <1>0, <2>1, <2>3 DEF Edge, TransferRecord
<1>5. StageClaims(w) => Edge(w, {"checkpoint-captured"}, {"target-staged"}) /\ KeepsRest(w)
  <2> SUFFICES ASSUME StageClaims(w)
               PROVE  Edge(w, {"checkpoint-captured"}, {"target-staged"}) /\ KeepsRest(w)
    OBVIOUS
  <2>1. lease = w /\ Phases(T(w)) \in {"checkpoint-captured"}
    BY Guards DEF StageClaims, Tx
  <2>2. Write(T(w), [transfer[T(w)] EXCEPT !.phase = "target-staged", !.batch = TRUE])
    BY DEF StageClaims
  <2>3. /\ transfer'[T(w)] = [transfer[T(w)] EXCEPT !.phase = "target-staged", !.batch = TRUE]
        /\ \A u \in Transfer \ {T(w)} : transfer'[u] = transfer[u]
    BY <1>a, <2>2
  <2> QED
    BY <1>0, <2>1, <2>3 DEF Edge, KeepsRest, Phases, TransferRecord
<1>6. RetainClaims(w) => Edge(w, {"target-staged"}, {"claims-retained"}) /\ KeepsRest(w)
  <2> SUFFICES ASSUME RetainClaims(w)
               PROVE  Edge(w, {"target-staged"}, {"claims-retained"}) /\ KeepsRest(w)
    OBVIOUS
  <2>1. lease = w /\ Phases(T(w)) \in {"target-staged"}
    BY Guards DEF RetainClaims, Tx
  <2>2. Write(T(w), [transfer[T(w)] EXCEPT !.phase = "claims-retained"])
    BY DEF RetainClaims
  <2>3. /\ transfer'[T(w)] = [transfer[T(w)] EXCEPT !.phase = "claims-retained"]
        /\ \A u \in Transfer \ {T(w)} : transfer'[u] = transfer[u]
    BY <1>a, <2>2
  <2> QED
    BY <1>0, <2>1, <2>3 DEF Edge, KeepsRest, Phases, TransferRecord
<1>7. Relinquish(w) =>
        /\ Edge(w, {"claims-retained"}, {"cloud-relinquished"})
        /\ transfer'[T(w)].proof # NoKey
        /\ transfer'[T(w)].checkpoint = transfer[T(w)].checkpoint
  <2> SUFFICES ASSUME Relinquish(w)
               PROVE  /\ Edge(w, {"claims-retained"}, {"cloud-relinquished"})
                      /\ transfer'[T(w)].proof # NoKey
                      /\ transfer'[T(w)].checkpoint = transfer[T(w)].checkpoint
    OBVIOUS
  <2>1. PICK k \in keys[T(w)] :
          Write(T(w), [transfer[T(w)] EXCEPT !.phase = "cloud-relinquished", !.proof = k])
    BY DEF Relinquish
  <2>2. k # NoKey
    BY <1>0, <2>1, TransferAssumption DEF TypeInv, TypeOK
  <2>3. lease = w /\ Phases(T(w)) = "claims-retained"
    BY Guards DEF Relinquish, Tx
  <2>4. /\ transfer'[T(w)] = [transfer[T(w)] EXCEPT !.phase = "cloud-relinquished", !.proof = k]
        /\ \A u \in Transfer \ {T(w)} : transfer'[u] = transfer[u]
    BY <1>a, <2>1
  <2> QED
    BY <1>0, <2>2, <2>3, <2>4 DEF Edge, TransferRecord
<1>8. Activate(w) => Edge(w, {"cloud-relinquished"}, {"lan-activated"}) /\ KeepsRest(w)
  <2> SUFFICES ASSUME Activate(w)
               PROVE  Edge(w, {"cloud-relinquished"}, {"lan-activated"}) /\ KeepsRest(w)
    OBVIOUS
  <2>1. lease = w /\ Phases(T(w)) \in {"cloud-relinquished"}
    BY Guards DEF Activate, Tx
  <2>2. Write(T(w), [transfer[T(w)] EXCEPT !.phase = "lan-activated", !.expired = FALSE])
    BY DEF Activate
  <2>3. /\ transfer'[T(w)] = [transfer[T(w)] EXCEPT !.phase = "lan-activated", !.expired = FALSE]
        /\ \A u \in Transfer \ {T(w)} : transfer'[u] = transfer[u]
    BY <1>a, <2>2
  <2> QED
    BY <1>0, <2>1, <2>3 DEF Edge, KeepsRest, Phases, TransferRecord
<1>9. Renew(w) => Edge(w, {"lan-activated"}, {"lan-activated"}) /\ KeepsRest(w)
  <2> SUFFICES ASSUME Renew(w)
               PROVE  Edge(w, {"lan-activated"}, {"lan-activated"}) /\ KeepsRest(w)
    OBVIOUS
  <2>1. lease = w /\ Phases(T(w)) \in {"lan-activated"}
    BY Guards DEF Renew, Tx
  <2>2. Write(T(w), [transfer[T(w)] EXCEPT !.expired = FALSE])
    BY DEF Renew
  <2>3. /\ transfer'[T(w)] = [transfer[T(w)] EXCEPT !.expired = FALSE]
        /\ \A u \in Transfer \ {T(w)} : transfer'[u] = transfer[u]
    BY <1>a, <2>2
  <2> QED
    BY <1>0, <2>1, <2>3 DEF Edge, KeepsRest, Phases, TransferRecord
<1>10. Complete(w) => Edge(w, {"lan-activated"}, {"completed"}) /\ KeepsRest(w)
  <2> SUFFICES ASSUME Complete(w)
               PROVE  Edge(w, {"lan-activated"}, {"completed"}) /\ KeepsRest(w)
    OBVIOUS
  <2>1. lease = w /\ Phases(T(w)) \in {"lan-activated"}
    BY Guards DEF Complete, Tx
  <2>2. Write(T(w), [transfer[T(w)] EXCEPT !.phase = "completed"])
    BY DEF Complete
  <2>3. /\ transfer'[T(w)] = [transfer[T(w)] EXCEPT !.phase = "completed"]
        /\ \A u \in Transfer \ {T(w)} : transfer'[u] = transfer[u]
    BY <1>a, <2>2
  <2> QED
    BY <1>0, <2>1, <2>3 DEF Edge, KeepsRest, Phases, TransferRecord
<1>11. StartCancellation(w) => 
        /\ Edge(w, (Forward \cup Backward) \ {"cancelled"}, {"cancel-intent"})
        /\ KeepsRest(w)
  <2> SUFFICES ASSUME StartCancellation(w)
               PROVE  /\ Edge(w, (Forward \cup Backward) \ {"cancelled"}, {"cancel-intent"})
                      /\ KeepsRest(w)
    OBVIOUS
  <2>1. lease = w /\ Phases(T(w)) \in (Forward \cup Backward) \ {"cancelled"}
    BY Guards DEF StartCancellation, Tx, Cancellable
  <2>2. Write(T(w), [transfer[T(w)] EXCEPT !.phase = "cancel-intent", !.cancelling =
                           IF job[w].call = "recover" THEN "expiry" ELSE job[w].saw])
    BY DEF StartCancellation
  <2>3. /\ transfer'[T(w)] = [transfer[T(w)] EXCEPT !.phase = "cancel-intent", !.cancelling =
                           IF job[w].call = "recover" THEN "expiry" ELSE job[w].saw]
        /\ \A u \in Transfer \ {T(w)} : transfer'[u] = transfer[u]
    BY <1>a, <2>2
  <2> QED
    BY <1>0, <2>1, <2>3 DEF Edge, KeepsRest, Phases, TransferRecord
<1>12. SettleUnaccepted(w) => Edge(w, {"cancel-intent"}, {"target-invalidated"}) /\ KeepsRest(w)
  <2> SUFFICES ASSUME SettleUnaccepted(w)
               PROVE  Edge(w, {"cancel-intent"}, {"target-invalidated"}) /\ KeepsRest(w)
    OBVIOUS
  <2>1. lease = w /\ Phases(T(w)) \in {"cancel-intent"}
    BY Guards DEF SettleUnaccepted, Tx
  <2>2. Write(T(w), [transfer[T(w)] EXCEPT !.phase = "target-invalidated", !.reopen = TRUE])
    BY DEF SettleUnaccepted
  <2>3. /\ transfer'[T(w)] = [transfer[T(w)] EXCEPT !.phase = "target-invalidated", !.reopen = TRUE]
        /\ \A u \in Transfer \ {T(w)} : transfer'[u] = transfer[u]
    BY <1>a, <2>2
  <2> QED
    BY <1>0, <2>1, <2>3 DEF Edge, KeepsRest, Phases, TransferRecord
<1>13. ConfirmInvalidated(w) => Edge(w, {"cancel-intent"}, {"target-invalidated"}) /\ KeepsRest(w)
  <2> SUFFICES ASSUME ConfirmInvalidated(w)
               PROVE  Edge(w, {"cancel-intent"}, {"target-invalidated"}) /\ KeepsRest(w)
    OBVIOUS
  <2>1. lease = w /\ Phases(T(w)) \in {"cancel-intent"}
    BY Guards DEF ConfirmInvalidated, Tx
  <2>2. Write(T(w), [transfer[T(w)] EXCEPT !.phase = "target-invalidated",
                           !.evidence = "cleaned", !.reopen = TRUE, !.expired = FALSE])
    BY DEF ConfirmInvalidated
  <2>3. /\ transfer'[T(w)] = [transfer[T(w)] EXCEPT !.phase = "target-invalidated",
                           !.evidence = "cleaned", !.reopen = TRUE, !.expired = FALSE]
        /\ \A u \in Transfer \ {T(w)} : transfer'[u] = transfer[u]
    BY <1>a, <2>2
  <2> QED
    BY <1>0, <2>1, <2>3 DEF Edge, KeepsRest, Phases, TransferRecord
<1>14. Clean(w) => Edge(w, {"target-invalidated"}, {"target-cleaned"}) /\ KeepsRest(w)
  <2> SUFFICES ASSUME Clean(w)
               PROVE  Edge(w, {"target-invalidated"}, {"target-cleaned"}) /\ KeepsRest(w)
    OBVIOUS
  <2>1. lease = w /\ Phases(T(w)) \in {"target-invalidated"}
    BY Guards DEF Clean, Tx
  <2>2. Write(T(w), [transfer[T(w)] EXCEPT !.phase = "target-cleaned"])
    BY DEF Clean
  <2>3. /\ transfer'[T(w)] = [transfer[T(w)] EXCEPT !.phase = "target-cleaned"]
        /\ \A u \in Transfer \ {T(w)} : transfer'[u] = transfer[u]
    BY <1>a, <2>2
  <2> QED
    BY <1>0, <2>1, <2>3 DEF Edge, KeepsRest, Phases, TransferRecord
<1>15. Reopen(w) => Edge(w, {"target-cleaned"}, {"source-reopened"}) /\ KeepsRest(w)
  <2> SUFFICES ASSUME Reopen(w)
               PROVE  Edge(w, {"target-cleaned"}, {"source-reopened"}) /\ KeepsRest(w)
    OBVIOUS
  <2>1. lease = w /\ Phases(T(w)) \in {"target-cleaned"}
    BY Guards DEF Reopen, Tx
  <2>2. Write(T(w), [transfer[T(w)] EXCEPT !.phase = "source-reopened"])
    BY DEF Reopen
  <2>3. /\ transfer'[T(w)] = [transfer[T(w)] EXCEPT !.phase = "source-reopened"]
        /\ \A u \in Transfer \ {T(w)} : transfer'[u] = transfer[u]
    BY <1>a, <2>2
  <2> QED
    BY <1>0, <2>1, <2>3 DEF Edge, KeepsRest, Phases, TransferRecord
<1>16. FinishCancellation(w) => Edge(w, {"source-reopened"}, {"cancelled"}) /\ KeepsRest(w)
  <2> SUFFICES ASSUME FinishCancellation(w)
               PROVE  Edge(w, {"source-reopened"}, {"cancelled"}) /\ KeepsRest(w)
    OBVIOUS
  <2>1. lease = w /\ Phases(T(w)) \in {"source-reopened"}
    BY Guards DEF FinishCancellation, Tx
  <2>2. Write(T(w), [transfer[T(w)] EXCEPT !.phase = "cancelled", !.evidence =
                           IF transfer[T(w)].evidence = "cleaned" THEN "accepted" ELSE @])
    BY DEF FinishCancellation
  <2>3. /\ transfer'[T(w)] = [transfer[T(w)] EXCEPT !.phase = "cancelled", !.evidence =
                           IF transfer[T(w)].evidence = "cleaned" THEN "accepted" ELSE @]
        /\ \A u \in Transfer \ {T(w)} : transfer'[u] = transfer[u]
    BY <1>a, <2>2
  <2> QED
    BY <1>0, <2>1, <2>3 DEF Edge, KeepsRest, Phases, TransferRecord
<1> QED
  BY <1>1, <1>2, <1>3, <1>4, <1>5, <1>6, <1>7, <1>8, <1>9, <1>10,
     <1>11, <1>12, <1>13, <1>14, <1>15, <1>16

\* A step of a worker is quiet, or one of the transactions above, or it changes the claims
\* of a transfer or the main that PostgreSQL records.
LEMMA StepKinds ==
  ASSUME NEW w, Step(w)
  PROVE  \/ Quiet
         \/ Begin(w) \/ AcceptTarget(w) \/ Quiesce(w) \/ RecordCapture(w) \/ StageClaims(w)
         \/ RetainClaims(w) \/ Relinquish(w) \/ Activate(w) \/ Renew(w) \/ Complete(w)
         \/ StartCancellation(w) \/ SettleUnaccepted(w) \/ ConfirmInvalidated(w) \/ Clean(w)
         \/ Reopen(w) \/ FinishCancellation(w)
         \/ AcknowledgeRedemption(w) \/ DropClaims(w) \/ CompleteAccept(w)
<1>1. (\/ Preflight(w) \/ Reread(w) \/ EnterLane(w) \/ Refused(w) \/ Snapshot(w)
       \/ MakeDirectory(w) \/ MarkOwner(w) \/ StageFiles(w) \/ DiscardDelivered(w)
       \/ DiscardCancelled(w) \/ SettleMain(w)) => Quiet
  BY DEF Preflight, Reread, EnterLane, Refused, Snapshot, MakeDirectory, MarkOwner, StageFiles,
         DiscardDelivered, DiscardCancelled, SettleMain, Quiet, dbVars
<1>2. (\/ PinKey(w) \/ ReceiptVerifier(w) \/ RenewClaims(w) \/ DropKey(w) \/ MarkMain(w)) => Quiet
  BY DEF PinKey, ReceiptVerifier, RenewClaims, DropKey, MarkMain, Quiet
<1> QED
  BY <1>1, <1>2 DEF Step

-----------------------------------------------------------------------------
(* Safety. *)

\* A relinquished transfer has its proof, the end of service and the new generation; a
\* quiesced one keeps the source read-only; a host serves only with a proof.
Authority(t) ==
  /\ (Phases(t) \in Handed) <=> (transfer[t].proof # NoKey)
  /\ Phases(t) \in Handed => service = "deleting" /\ generation = TargetGeneration(t)
  /\ Phases(t) \in Quiesced => service = "read-only-transition"
  /\ host[t] = "active" => transfer[t].proof # NoKey

\* Once staged, every claim is in custody or redeemed; none is redeemed before.
Custody(t) ==
  /\ Phases(t) \in {"target-staged", "claims-retained"} \cup Handed =>
       claims[t] \cup redeemed[t] = ExactBatchMembers
  /\ Phases(t) \notin Handed => redeemed[t] = {}

\* A captured transfer holds the main that PostgreSQL records.
Capture(t) == Phases(t) \in Captured => transfer[t].checkpoint = dbMain

\* One lifecycle journal at a time.
OneLive == \A t, u \in Transfer : Nonterminal(t) /\ Nonterminal(u) => t = u

\* What the holder of the lane knows where no guard reads it again: a cancellation that drops
\* the claims is past the invalidation, and a capture records the snapshot it took.
LaneKnows(w) ==
  lease = w =>
    /\ pc[w] \in {"discard", "drop-claims"} => Phases(T(w)) = "target-invalidated"
    /\ pc[w] \in {"files", "owner", "record"} => job[w].main = dbMain

SafetyInv ==
  /\ TypeInv
  /\ \A t \in Transfer : Authority(t) /\ Custody(t) /\ Capture(t)
  /\ OneLive
  /\ \A w \in Worker : LaneKnows(w)

\* The sets of phases do not overlap.
LEMMA PhaseSets ==
  /\ Phase = {"none", "collecting-readiness"} \cup Quiesced \cup Handed \cup Backward
  /\ Captured = (Quiesced \ {"cloud-quiesced"}) \cup Handed
  /\ Handed \cap (Forward \cup Backward \cup Quiesced) = {}
  /\ Quiesced \cap Backward = {}
BY DEF Phase, Forward, Quiesced, Handed, Backward, Captured

\* A step that keeps the rows, the service, the claims and main, and makes no host active
\* without a proof, keeps everything but what the lane knows.
LEMMA QuietKeeps ==
  ASSUME SafetyInv, Quiet,
         \A t \in Transfer : host'[t] = "active" => host[t] = "active" \/ transfer[t].proof # NoKey
  PROVE  (\A t \in Transfer : Authority(t) /\ Custody(t) /\ Capture(t))' /\ OneLive'
<1>1. (\A t \in Transfer : Authority(t) /\ Custody(t))'
  BY DEF SafetyInv, Quiet, Authority, Custody, Phases, TargetGeneration
<1>2. (\A t \in Transfer : Capture(t))' /\ OneLive'
  BY DEF SafetyInv, Quiet, Capture, OneLive, Nonterminal, Phases
<1> QED
  BY <1>1, <1>2

\* An edge between live phases, or to a terminal one, keeps one journal alive.
LEMMA EdgeOneLive ==
  ASSUME SafetyInv, NEW w \in Worker, Edge(w, Phase \ ({"none"} \cup Terminal), Phase)
  PROVE  OneLive'
BY WorkerTypes DEF SafetyInv, TypeInv, OneLive, Nonterminal, Edge, Phases

\* A step keeps one journal alive.
LEMMA StepOneLive ==
  ASSUME SafetyInv, NEW w \in Worker, Step(w)
  PROVE  OneLive'
<1> DEFINE Live == Phase \ ({"none"} \cup Terminal)
<1>0. TypeInv /\ T(w) \in Transfer /\ Phases(T(w)) \in Phase
  BY WorkerTypes, RowFields DEF SafetyInv, TypeInv, Phases
<1>1. CASE Begin(w)
  <2>1. NoJournal /\ \A u \in Transfer \ {T(w)} : transfer'[u] = transfer[u]
    BY <1>0, <1>1, Guards, Edges DEF Begin, Edge
  <2> QED
    BY <2>1 DEF NoJournal, Nonterminal, Phases, OneLive
<1>2. CASE Edge(w, Live, Phase)
  BY <1>2, EdgeOneLive
<1>3. CASE Edge(w, {Phases(T(w))}, {Phases(T(w))})
  BY <1>0, <1>3 DEF SafetyInv, OneLive, Nonterminal, Edge, Phases
<1>4. CASE UNCHANGED transfer
  BY <1>4 DEF SafetyInv, OneLive, Nonterminal, Phases
<1>5. (\/ Quiesce(w) \/ RecordCapture(w) \/ StageClaims(w) \/ RetainClaims(w) \/ Relinquish(w)
       \/ Activate(w) \/ Renew(w) \/ Complete(w)) => Edge(w, Live, Phase)
  BY <1>0, Edges DEF Edge, Phase, Forward, Handed, Backward, Terminal
<1>6. (\/ StartCancellation(w) \/ SettleUnaccepted(w) \/ ConfirmInvalidated(w) \/ Clean(w)
       \/ Reopen(w) \/ FinishCancellation(w)) => Edge(w, Live, Phase)
  BY <1>0, Edges DEF Edge, Phase, Forward, Handed, Backward, Terminal
<1>7. AcceptTarget(w) => Edge(w, {Phases(T(w))}, {Phases(T(w))})
  BY <1>0, Edges
<1>8. (AcknowledgeRedemption(w) \/ DropClaims(w) \/ CompleteAccept(w) \/ Quiet) => UNCHANGED transfer
  BY DEF AcknowledgeRedemption, DropClaims, CompleteAccept, Quiet
<1> QED
  BY <1>1, <1>2, <1>3, <1>4, <1>5, <1>6, <1>7, <1>8, StepKinds

\* A step keeps the authority with one side.
LEMMA StepAuthority ==
  ASSUME SafetyInv, NEW w \in Worker, Step(w), NEW t \in Transfer
  PROVE  Authority(t)'
<1> DEFINE Other == t # T(w)
<1>0. /\ TypeInv /\ T(w) \in Transfer /\ Phases(T(w)) \in Phase /\ Authority(t) /\ Authority(T(w))
      /\ transfer[t].expected = 0 /\ transfer[T(w)].expected = 0 /\ Phases(t) \in Phase
  BY WorkerTypes, RowFields DEF SafetyInv, TypeInv, TypeOK, Phases
<1>h. host' = host
  BY DEF Step, Preflight, Reread, EnterLane, Refused, Begin, AcceptTarget, Quiesce, Snapshot,
         MakeDirectory, MarkOwner, StageFiles, RecordCapture, StageClaims, RetainClaims, PinKey,
         Relinquish, ReceiptVerifier, Activate, DiscardDelivered, Renew, RenewClaims, Complete,
         AcknowledgeRedemption, StartCancellation, SettleUnaccepted, ConfirmInvalidated,
         DiscardCancelled, DropClaims, DropKey, Clean, Reopen, FinishCancellation, SettleMain,
         MarkMain, CompleteAccept
<1>1. CASE Quiet
  BY <1>1, <1>h, QuietKeeps DEF SafetyInv
<1>2. CASE AcknowledgeRedemption(w) \/ DropClaims(w) \/ CompleteAccept(w)
  <2>1. UNCHANGED <<service, generation, transfer>>
    BY <1>2 DEF AcknowledgeRedemption, DropClaims, CompleteAccept
  <2> QED
    BY <2>1, <1>0, <1>h DEF Authority, Phases, TargetGeneration
\* Transactions that move the phase within the same authority.
<1>3. CASE \/ AcceptTarget(w) \/ RecordCapture(w) \/ StageClaims(w) \/ RetainClaims(w)
           \/ Activate(w) \/ Renew(w) \/ Complete(w)
  <2>1. UNCHANGED <<service, generation>> /\ transfer'[T(w)].proof = transfer[T(w)].proof
    BY <1>0, <1>3, Edges DEF AcceptTarget, RecordCapture, StageClaims, RetainClaims, Activate,
         Renew, Complete, KeepsRest
  <2>2. \/ Edge(w, Quiesced, Quiesced)
        \/ Edge(w, Handed, Handed)
        \/ Edge(w, {Phases(T(w))}, {Phases(T(w))})
    BY <1>0, <1>3, Edges DEF Edge, Quiesced, Handed
  <2> QED
    BY <2>1, <2>2, <1>0, <1>h, PhaseSets DEF Authority, Phases, TargetGeneration, Edge
\* Transactions that move it back.
<1>4. CASE \/ Begin(w) \/ StartCancellation(w) \/ SettleUnaccepted(w) \/ ConfirmInvalidated(w)
           \/ Clean(w) \/ FinishCancellation(w)
  <2>1. UNCHANGED <<service, generation>>
    BY <1>4 DEF Begin, StartCancellation, SettleUnaccepted, ConfirmInvalidated, Clean,
         FinishCancellation
  <2>2. /\ Edge(w, Phase \ Handed, {"collecting-readiness"} \cup Backward)
        /\ transfer'[T(w)].proof = transfer[T(w)].proof \/ transfer'[T(w)].proof = NoKey
    BY <1>0, <1>4, Edges, PhaseSets DEF Edge, KeepsRest, Phase, Forward, Backward, Handed
  <2> QED
    BY <2>1, <2>2, <1>0, <1>h DEF Authority, Phases, TargetGeneration, Edge, Handed, Backward,
         Quiesced
<1>5. CASE Quiesce(w)
  <2>1. /\ service = "active" /\ service' = "read-only-transition" /\ generation' = generation
        /\ Edge(w, {"collecting-readiness"}, {"cloud-quiesced"})
        /\ transfer'[T(w)].proof = transfer[T(w)].proof
    BY <1>0, <1>5, Edges, Guards DEF Quiesce, KeepsRest
  <2> QED
    BY <2>1, <1>0, <1>h DEF Authority, Phases, TargetGeneration, Edge, Handed, Quiesced
<1>6. CASE Relinquish(w)
  <2>1. /\ service = "read-only-transition" /\ service' = "deleting" /\ generation' = 1
        /\ Edge(w, {"claims-retained"}, {"cloud-relinquished"})
        /\ transfer'[T(w)].proof # NoKey
    <3>1. generation' = 1 /\ service' = "deleting"
      BY <1>0, <1>6 DEF Relinquish, TargetGeneration
    <3>2. service = "read-only-transition"
      BY <1>6, Guards DEF Relinquish
    <3> QED
      BY <3>1, <3>2, <1>0, <1>6, Edges
  <2>2. t # T(w) => Phases(t) \notin Quiesced
    BY <2>1, <1>0 DEF SafetyInv, OneLive, Nonterminal, Edge, Quiesced, Terminal
  <2> QED
    BY <2>1, <2>2, <1>0, <1>h DEF Authority, Phases, TargetGeneration, Edge, Handed, Quiesced
<1>7. CASE Reopen(w)
  <2>1. /\ service # "deleting" /\ generation' = generation
        /\ Edge(w, {"target-cleaned"}, {"source-reopened"})
        /\ transfer'[T(w)].proof = transfer[T(w)].proof
    BY <1>0, <1>7, Edges, Guards DEF Reopen, Reopenable, KeepsRest
  <2>2. t # T(w) => Phases(t) \notin Quiesced
    BY <2>1, <1>0 DEF SafetyInv, OneLive, Nonterminal, Edge, Quiesced, Terminal
  <2> QED
    BY <2>1, <2>2, <1>0, <1>h DEF Authority, Phases, TargetGeneration, Edge, Handed, Quiesced
<1> QED
  BY <1>1, <1>2, <1>3, <1>4, <1>5, <1>6, <1>7, StepKinds

\* A step keeps every claim in custody or redeemed.
LEMMA StepCustody ==
  ASSUME SafetyInv, NEW w \in Worker, Step(w), NEW t \in Transfer
  PROVE  Custody(t)'
<1>0. /\ TypeInv /\ T(w) \in Transfer /\ Phases(T(w)) \in Phase /\ Custody(t) /\ Custody(T(w))
      /\ Authority(T(w)) /\ LaneKnows(w)
  BY WorkerTypes, RowFields DEF SafetyInv, TypeInv, Phases
<1> DEFINE Kept == {"target-staged", "claims-retained"} \cup Handed
<1>1. CASE Quiet \/ CompleteAccept(w)
  <2>1. UNCHANGED <<transfer, claims, redeemed>>
    BY <1>1 DEF Quiet, CompleteAccept
  <2> QED
    BY <2>1, <1>0 DEF Custody, Phases
\* The claims stay, and the phase stays on its side.
<1>2. CASE \/ AcceptTarget(w) \/ RetainClaims(w) \/ Relinquish(w) \/ Activate(w) \/ Renew(w)
           \/ Complete(w)
  <2>1. UNCHANGED <<claims, redeemed>>
    BY <1>2 DEF AcceptTarget, RetainClaims, Relinquish, Activate, Renew, Complete
  <2>2. Edge(w, Kept, Kept) \/ Edge(w, {Phases(T(w))}, {Phases(T(w))})
    BY <1>0, <1>2, Edges DEF Edge, Handed
  <2>3. Phases(T(w)) \in Handed => transfer'[T(w)].phase \in Handed
    BY <1>0, <1>2, Edges DEF Edge, Handed
  <2> QED
    BY <2>1, <2>2, <2>3, <1>0 DEF Custody, Phases, Edge
<1>3. CASE \/ Begin(w) \/ Quiesce(w) \/ RecordCapture(w) \/ StartCancellation(w)
           \/ SettleUnaccepted(w) \/ ConfirmInvalidated(w) \/ Clean(w) \/ Reopen(w)
           \/ FinishCancellation(w)
  <2>1. UNCHANGED <<claims, redeemed>>
    BY <1>3 DEF Begin, Quiesce, RecordCapture, StartCancellation, SettleUnaccepted,
         ConfirmInvalidated, Clean, Reopen, FinishCancellation
  <2>2. Edge(w, Phase \ Handed, Phase \ Kept)
    BY <1>0, <1>3, Edges, PhaseSets DEF Edge, Phase, Forward, Handed, Backward
  <2> QED
    BY <2>1, <2>2, <1>0 DEF Custody, Phases, Edge
\* The batch is staged before anything is redeemed.
<1>4. CASE StageClaims(w)
  <2>1. /\ Edge(w, {"checkpoint-captured"}, {"target-staged"})
        /\ claims' = [claims EXCEPT ![T(w)] = ExactBatchMembers] /\ redeemed' = redeemed
    BY <1>0, <1>4, Edges DEF StageClaims
  <2>2. redeemed[T(w)] = {} /\ claims'[T(w)] = ExactBatchMembers
    BY <2>1, <1>0 DEF Custody, Edge, Handed, TypeInv, TypeOK
  <2>3. \A u \in Transfer \ {T(w)} : claims'[u] = claims[u]
    BY <2>1, <1>0 DEF TypeInv, TypeOK
  <2> QED
    BY <2>1, <2>2, <2>3, <1>0 DEF Custody, Phases, Edge, Handed
\* A claim is scrubbed when its receipt is kept.
<1>5. CASE AcknowledgeRedemption(w)
  <2>1. PICK m \in claims[T(w)] \cup redeemed[T(w)] : Scrub(T(w), m)
    BY <1>5 DEF AcknowledgeRedemption
  <2>2. /\ claims'[T(w)] \cup redeemed'[T(w)] = claims[T(w)] \cup redeemed[T(w)]
        /\ \A u \in Transfer \ {T(w)} : claims'[u] = claims[u] /\ redeemed'[u] = redeemed[u]
    BY <2>1, <1>0 DEF Scrub, TypeInv, TypeOK
  <2>3. Phases(T(w)) \in Handed /\ transfer' = transfer
    BY <1>5, Guards DEF AcknowledgeRedemption
  <2> QED
    BY <2>2, <2>3, <1>0 DEF Custody, Phases
\* Claims are dropped only past the invalidation.
<1>6. CASE DropClaims(w)
  <2>1. Phases(T(w)) = "target-invalidated" /\ transfer' = transfer /\ redeemed' = redeemed
    BY <1>0, <1>6 DEF DropClaims, Tx, LaneKnows
  <2>2. \A u \in Transfer \ {T(w)} : claims'[u] = claims[u]
    BY <1>0, <1>6 DEF DropClaims, TypeInv, TypeOK
  <2> QED
    BY <2>1, <2>2, <1>0 DEF Custody, Phases, Handed
<1> QED
  BY <1>1, <1>2, <1>3, <1>4, <1>5, <1>6, StepKinds

\* A step keeps the checkpoint equal to the main that PostgreSQL records.
LEMMA StepCapture ==
  ASSUME SafetyInv, NEW w \in Worker, Step(w), NEW t \in Transfer
  PROVE  Capture(t)'
<1>0. /\ TypeInv /\ T(w) \in Transfer /\ Phases(T(w)) \in Phase /\ Capture(t) /\ Capture(T(w))
      /\ Authority(t) /\ LaneKnows(w)
  BY WorkerTypes, RowFields DEF SafetyInv, TypeInv, Phases
<1>1. CASE Quiet \/ AcknowledgeRedemption(w) \/ DropClaims(w)
  <2>1. UNCHANGED <<transfer, dbMain>>
    BY <1>1 DEF Quiet, AcknowledgeRedemption, DropClaims
  <2> QED
    BY <2>1, <1>0 DEF Capture, Phases
<1>2. CASE \/ AcceptTarget(w) \/ StageClaims(w) \/ RetainClaims(w) \/ Relinquish(w) \/ Activate(w)
           \/ Renew(w) \/ Complete(w)
  <2>1. dbMain' = dbMain /\ transfer'[T(w)].checkpoint = transfer[T(w)].checkpoint
    BY <1>0, <1>2, Edges DEF AcceptTarget, StageClaims, RetainClaims, Relinquish, Activate, Renew,
         Complete, KeepsRest
  <2>2. Edge(w, Captured, Captured) \/ Edge(w, {Phases(T(w))}, {Phases(T(w))})
    BY <1>0, <1>2, Edges DEF Edge, Captured, Handed
  <2> QED
    BY <2>1, <2>2, <1>0 DEF Capture, Phases, Edge
<1>3. CASE \/ Begin(w) \/ Quiesce(w) \/ StartCancellation(w) \/ SettleUnaccepted(w)
           \/ ConfirmInvalidated(w) \/ Clean(w) \/ Reopen(w) \/ FinishCancellation(w)
  <2>1. dbMain' = dbMain
    BY <1>3 DEF Begin, Quiesce, StartCancellation, SettleUnaccepted, ConfirmInvalidated, Clean,
         Reopen, FinishCancellation
  <2>2. Edge(w, Phase, Phase \ Captured)
    BY <1>0, <1>3, Edges DEF Edge, Phase, Forward, Handed, Backward, Captured
  <2> QED
    BY <2>1, <2>2, <1>0 DEF Capture, Phases, Edge
<1>4. CASE RecordCapture(w)
  <2>1. /\ dbMain' = dbMain /\ transfer'[T(w)].checkpoint = dbMain
        /\ Edge(w, {"cloud-quiesced"}, {"checkpoint-captured"})
    BY <1>0, <1>4, Edges DEF RecordCapture, Tx, LaneKnows
  <2> QED
    BY <2>1, <1>0 DEF Capture, Phases, Edge
\* Main moves only while the source is active: no transfer is captured then.
<1>5. CASE CompleteAccept(w)
  <2>1. service = "active" /\ transfer' = transfer
    BY <1>5, Guards DEF CompleteAccept, LiveCompletionFences
  <2>2. Phases(t) \notin Captured
    BY <2>1, <1>0, PhaseSets DEF Authority
  <2> QED
    BY <2>1, <2>2 DEF Capture, Phases
<1> QED
  BY <1>1, <1>2, <1>3, <1>4, <1>5, StepKinds

\* The steps that end a call.
LEMMA Returns ==
  ASSUME NEW w
  PROVE  (\/ Refused(w) \/ Begin(w) \/ RecordCapture(w) \/ Relinquish(w) \/ ReceiptVerifier(w)
          \/ Complete(w) \/ AcknowledgeRedemption(w) \/ FinishCancellation(w)
          \/ CompleteAccept(w)) => Return(w)
BY DEF Refused, Begin, RecordCapture, Relinquish, ReceiptVerifier, Complete,
       AcknowledgeRedemption, FinishCancellation, CompleteAccept

\* A step returns, goes on to one step, or is one of the four that do neither.
LEMMA StepGoes ==
  ASSUME NEW w, Step(w)
  PROVE  \/ Return(w)
         \/ \E s \in Label : Goto(w, s)
         \/ Preflight(w) \/ Reread(w) \/ EnterLane(w) \/ Snapshot(w)
<1> DEFINE Goes == \E s \in Label : Goto(w, s)
<1>1. (\/ AcceptTarget(w) \/ Quiesce(w) \/ MakeDirectory(w) \/ MarkOwner(w)
       \/ StageFiles(w) \/ StageClaims(w) \/ RetainClaims(w) \/ PinKey(w) \/ Activate(w)
       \/ DiscardDelivered(w) \/ Renew(w) \/ RenewClaims(w)) => Goes
  BY DEF Label, AcceptTarget, Quiesce, MakeDirectory, MarkOwner, StageFiles, StageClaims,
         RetainClaims, PinKey, Activate, DiscardDelivered, Renew, RenewClaims
<1>2. (\/ SettleUnaccepted(w) \/ ConfirmInvalidated(w) \/ DiscardCancelled(w) \/ DropClaims(w)
       \/ DropKey(w) \/ Clean(w) \/ Reopen(w) \/ SettleMain(w) \/ MarkMain(w)) => Goes
  BY DEF Label, SettleUnaccepted, ConfirmInvalidated, DiscardCancelled, DropClaims, DropKey, Clean,
         Reopen, SettleMain, MarkMain
<1>3. StartCancellation(w) => Goes \/ Return(w)
  BY DEF StartCancellation, Label
<1> QED
  BY Returns, <1>1, <1>2, <1>3 DEF Step

\* The steps that lead to a discard, a drop of claims or the recording of a capture.
LEMMA NoOtherWay ==
  ASSUME TypeInv, NEW w \in Worker, Step(w),
         pc'[w] \in {"discard", "drop-claims", "files", "owner", "record"}
  PROVE  \/ SettleUnaccepted(w) \/ ConfirmInvalidated(w) \/ DiscardCancelled(w) \/ StageFiles(w)
         \/ MakeDirectory(w) \/ MarkOwner(w) \/ Snapshot(w) \/ EnterLane(w)
<1> DEFINE Watched == {"discard", "drop-claims", "files", "owner", "record"}
<1>0. pc \in [Worker -> Label]
  BY DEF TypeInv, TypeOK
<1>1. ~Return(w)
  BY <1>0 DEF Return
<1>2. \A s : Goto(w, s) => s \in Watched
  BY <1>0 DEF Goto
<1>3. ~Refused(w) /\ ~Begin(w) /\ ~RecordCapture(w) /\ ~Relinquish(w) /\ ~ReceiptVerifier(w)
      /\ ~Complete(w) /\ ~AcknowledgeRedemption(w) /\ ~FinishCancellation(w) /\ ~CompleteAccept(w)
  BY <1>1 DEF Refused, Begin, RecordCapture, Relinquish, ReceiptVerifier, Complete,
         AcknowledgeRedemption, FinishCancellation, CompleteAccept
<1>4. ~AcceptTarget(w) /\ ~Quiesce(w) /\ ~StageClaims(w) /\ ~RetainClaims(w) /\ ~PinKey(w)
      /\ ~Activate(w) /\ ~DiscardDelivered(w) /\ ~Renew(w) /\ ~RenewClaims(w)
  BY <1>2 DEF AcceptTarget, Quiesce, StageClaims, RetainClaims, PinKey, Activate,
         DiscardDelivered, Renew, RenewClaims
<1>5. ~DropClaims(w) /\ ~DropKey(w) /\ ~Clean(w) /\ ~Reopen(w) /\ ~SettleMain(w) /\ ~MarkMain(w)
      /\ ~StartCancellation(w)
  BY <1>1, <1>2 DEF DropClaims, DropKey, Clean, Reopen, SettleMain, MarkMain, StartCancellation
<1>6. ~Preflight(w) /\ ~Reread(w)
  BY <1>0, <1>1 DEF Preflight, Reread
<1> QED
  BY <1>3, <1>4, <1>5, <1>6 DEF Step

\* Another worker's step leaves the holder of the lane, its position and its transfer alone.
LEMMA OthersWait ==
  ASSUME TypeInv, NEW w \in Worker, Step(w), NEW v \in Worker \ {w}, lease' = v
  PROVE  /\ lease = v /\ pc'[v] = pc[v] /\ job'[v] = job[v]
         /\ transfer' = transfer /\ dbMain' = dbMain
<1>1. lease = v /\ pc'[v] = pc[v] /\ job'[v] = job[v]
  <2>0. /\ pc \in [Worker -> Label] /\ job \in [Worker -> JobRecord] /\ v # NoWorker /\ v # w
        /\ lease' = v
    BY TransferAssumption DEF TypeInv, TypeOK
  <2>1. CASE \/ Preflight(w) \/ Reread(w) \/ EnterLane(w) \/ Snapshot(w)
    <3>1. CASE Preflight(w)
      BY <2>0, <3>1 DEF Preflight
    <3>2. CASE Reread(w)
      BY <2>0, <3>2 DEF Reread, Return
    <3>3. CASE EnterLane(w)
      BY <2>0, <3>3 DEF EnterLane, Return
    <3>4. CASE Snapshot(w)
      BY <2>0, <3>4 DEF Snapshot
    <3> QED
      BY <2>1, <3>1, <3>2, <3>3, <3>4
  <2>2. CASE Return(w)
    BY <2>0, <2>2 DEF Return
  <2>3. CASE \E s \in Label : Goto(w, s)
    BY <2>3 DEF Goto, TypeInv, TypeOK
  <2> QED
    BY <2>1, <2>2, <2>3, StepGoes
<1>2. Quiet
  <2>1. lease # w
    BY <1>1
  <2> QED
    BY <2>1, StepKinds DEF Begin, AcceptTarget, Quiesce, RecordCapture, StageClaims, RetainClaims,
         Relinquish, Activate, Renew, Complete, StartCancellation, SettleUnaccepted,
         ConfirmInvalidated, Clean, Reopen, FinishCancellation, AcknowledgeRedemption, DropClaims,
         CompleteAccept, Tx
<1> QED
  BY <1>1, <1>2 DEF Quiet

\* What the holder of the lane knows stays true.
LEMMA StepLane ==
  ASSUME SafetyInv, NEW w \in Worker, Step(w), NEW v \in Worker
  PROVE  LaneKnows(v)'
<1>0. TypeInv /\ LaneKnows(v) /\ LaneKnows(w) /\ T(w) \in Transfer
  BY WorkerTypes DEF SafetyInv, TypeInv
<1>1. CASE v # w
  <2> SUFFICES ASSUME lease' = v
               PROVE  LaneKnows(v)'
    BY DEF LaneKnows
  <2>1. /\ lease = v /\ pc'[v] = pc[v] /\ job'[v] = job[v]
        /\ transfer' = transfer /\ dbMain' = dbMain
    BY <1>0, <1>1, OthersWait
  <2> QED
    BY <2>1, <1>0 DEF LaneKnows, T, Phases
<1>2. CASE v = w
  <2> SUFFICES ASSUME lease' = w, pc'[w] \in {"discard", "drop-claims", "files", "owner", "record"}
               PROVE  LaneKnows(w)'
    BY <1>2 DEF LaneKnows
  <2>1. SettleUnaccepted(w) \/ ConfirmInvalidated(w) => LaneKnows(w)'
    BY <1>0, Edges DEF SettleUnaccepted, ConfirmInvalidated, Goto, LaneKnows, Edge, T, Phases,
         TypeInv, TypeOK
  <2>2. DiscardCancelled(w) => LaneKnows(w)'
    BY <1>0 DEF DiscardCancelled, Goto, LaneKnows, T, Phases, dbVars, TypeInv, TypeOK
  <2>3. StageFiles(w) => LaneKnows(w)'
    BY <1>0 DEF StageFiles, Goto, LaneKnows, T, Phases, dbVars, TypeInv, TypeOK
  <2>7. MakeDirectory(w) \/ MarkOwner(w) => LaneKnows(w)'
    BY <1>0 DEF MakeDirectory, MarkOwner, Goto, LaneKnows, T, Phases, dbVars, TypeInv, TypeOK
  <2>4. Snapshot(w) => LaneKnows(w)'
    <3> SUFFICES ASSUME Snapshot(w) PROVE LaneKnows(w)'
      OBVIOUS
    <3>1. pc'[w] = "files" /\ job'[w].main = dbMain /\ dbMain' = dbMain
      BY <1>0, WorkerTypes DEF Snapshot, dbVars, TypeInv, TypeOK, JobRecord
    <3> QED
      BY <3>1 DEF LaneKnows
  <2>5. EnterLane(w) => LaneKnows(w)'
    <3> SUFFICES ASSUME EnterLane(w) PROVE LaneKnows(w)'
      OBVIOUS
    <3>1. /\ pc'[w] = FirstStep(w) /\ job' = job /\ transfer' = transfer
      BY <1>0, TransferAssumption DEF EnterLane, Return, dbVars, TypeInv, TypeOK
    <3>2. FirstStep(w) \in {"discard", "drop-claims", "files", "owner", "record"} =>
            FirstStep(w) = "discard" /\ Phases(T(w)) = "target-invalidated"
      <4> DEFINE Knows(s) == s \in {"discard", "drop-claims", "files", "owner", "record"} =>
                               s = "discard" /\ Phases(T(w)) = "target-invalidated"
      <4>1. Knows(SettleStep(T(w)))
        BY DEF SettleStep
      <4>2. Knows(RecoverStep(T(w)))
        BY <4>1 DEF RecoverStep
      <4>3. job[w].call \in {"none", "begin", "accept", "stage", "activate", "invalidate",
                             "verifier", "redeem", "cancel", "recover", "recover-accept"}
        BY <1>0, WorkerTypes DEF JobRecord, TypeInv
      <4> QED
        BY <4>1, <4>2, <4>3 DEF FirstStep
    <3> QED
      BY <3>1, <3>2 DEF LaneKnows, T, Phases
  <2>6. \/ SettleUnaccepted(w) \/ ConfirmInvalidated(w) \/ DiscardCancelled(w) \/ StageFiles(w)
        \/ MakeDirectory(w) \/ MarkOwner(w) \/ Snapshot(w) \/ EnterLane(w)
    BY <1>0, NoOtherWay
  <2> QED
    BY <1>2, <2>1, <2>2, <2>3, <2>4, <2>5, <2>6, <2>7
<1> QED
  BY <1>1, <1>2

\* A call changes nothing that the invariant is about, but the host may be asked again.
LEMMA CallKeeps ==
  ASSUME SafetyInv, NEW w \in Worker, NEW t \in Transfer,
         Call(w, t) \/ CallRecover(w, t) \/ CallRecoverAccept(w)
  PROVE  SafetyInv'
<1>0. TypeInv /\ TypeInv'
  BY Calls DEF SafetyInv
<1>1. /\ UNCHANGED <<dbVars, lease>>
      /\ host' = host \/ host' = [host EXCEPT ![t] = "accepted"]
      /\ \E s \in {"preflight", "lane"} : pc' = [pc EXCEPT ![w] = s]
      /\ \E j : job' = [job EXCEPT ![w] = j]
  BY DEF Call, CallBegin, CallAcceptTarget, CallTargetStaged, CallTargetActive,
         CallTargetInvalidated, CallReceiptVerifier, CallRedemption, CallCancel, CallRecover,
         CallRecoverAccept, Start
<1>2. Quiet /\ \A u \in Transfer : host'[u] = "active" => host[u] = "active"
  BY <1>0, <1>1 DEF Quiet, dbVars, TypeInv, TypeOK
<1>3. (\A u \in Transfer : Authority(u) /\ Custody(u) /\ Capture(u))' /\ OneLive'
  BY <1>2, QuietKeeps
<1>4. (\A v \in Worker : LaneKnows(v))'
  <2> SUFFICES ASSUME NEW v \in Worker
               PROVE  LaneKnows(v)'
    OBVIOUS
  <2>1. CASE v = w
    BY <1>0, <1>1, <2>1 DEF LaneKnows, TypeInv, TypeOK
  <2>2. CASE v # w
    <3>1. pc'[v] = pc[v] /\ job'[v] = job[v] /\ LaneKnows(v)
      BY <1>0, <1>1, <2>2 DEF TypeInv, TypeOK, SafetyInv
    <3> QED
      BY <1>1, <3>1 DEF LaneKnows, T, Phases, dbVars
  <2> QED
    BY <2>1, <2>2
<1> QED
  BY <1>0, <1>3, <1>4 DEF SafetyInv

\* So does the rest of the world: the host needs the proof to activate, and the clock only
\* marks a row as expired.
LEMMA OthersKeep ==
  ASSUME SafetyInv,
         \/ \E t \in Transfer : HostStages(t) \/ HostActivates(t) \/ HostInvalidates(t) \/ Expire(t)
         \/ AcceptInterrupted
         \/ \E w \in Worker : LoseLease(w) \/ Fail(w) \/ CutRemoval(w)
         \/ Crash
         \/ UNCHANGED vars
  PROVE  SafetyInv'
<1>0. TypeInv /\ TypeInv'
  BY OtherTypes DEF SafetyInv
<1> DEFINE Laned == \A v \in Worker : lease' = v => lease = v /\ pc'[v] = pc[v] /\ job'[v] = job[v]
<1>1. ASSUME Quiet, Laned,
             \A t \in Transfer : host'[t] = "active" => host[t] = "active" \/ transfer[t].proof # NoKey
      PROVE  SafetyInv'
  <2>1. (\A t \in Transfer : Authority(t) /\ Custody(t) /\ Capture(t))' /\ OneLive'
    BY <1>1, QuietKeeps
  <2>2. ASSUME NEW v \in Worker PROVE LaneKnows(v)'
    BY <1>1, <2>2 DEF SafetyInv, LaneKnows, T, Phases, Quiet
  <2> QED
    BY <1>0, <2>1, <2>2 DEF SafetyInv
<1>2. CASE \E t \in Transfer : HostStages(t) \/ HostActivates(t) \/ HostInvalidates(t)
  <2>1. PICK t \in Transfer : HostStages(t) \/ HostActivates(t) \/ HostInvalidates(t)
    BY <1>2
  <2>2. Quiet /\ UNCHANGED procVars
    BY <2>1 DEF HostStages, HostActivates, HostInvalidates, Quiet, dbVars
  <2>3. \A u \in Transfer : host'[u] = "active" => host[u] = "active" \/ transfer[u].proof # NoKey
    BY <2>1, <1>0 DEF HostStages, HostActivates, HostInvalidates, TypeInv, TypeOK
  <2>4. Laned
    BY <2>2 DEF procVars
  <2> HIDE DEF Laned
  <2> QED
    BY <1>1, <2>2, <2>3, <2>4
<1>3. CASE \E t \in Transfer : Expire(t)
  <2>1. PICK t \in Transfer : Expire(t)
    BY <1>3
  <2>2. \A u \in Transfer : /\ transfer'[u].phase = transfer[u].phase
                            /\ transfer'[u].proof = transfer[u].proof
                            /\ transfer'[u].checkpoint = transfer[u].checkpoint
                            /\ transfer'[u].expected = transfer[u].expected
    BY <2>1, <1>0 DEF Expire, Write, TypeInv, TypeOK, TransferRecord
  <2>3. UNCHANGED <<service, generation, claims, redeemed, dbMain, host, lease, pc, job>>
    BY <2>1 DEF Expire, procVars
  <2>4. (\A u \in Transfer : Authority(u) /\ Custody(u))'
    BY <2>2, <2>3 DEF SafetyInv, Authority, Custody, Phases, TargetGeneration
  <2>5. (\A u \in Transfer : Capture(u))' /\ OneLive'
    BY <2>2, <2>3 DEF SafetyInv, Capture, OneLive, Nonterminal, Phases
  <2>6. ASSUME NEW v \in Worker PROVE LaneKnows(v)'
    <3>1. T(v) \in Transfer
      BY <1>0, WorkerTypes DEF TypeInv
    <3> QED
      BY <3>1, <2>2, <2>3 DEF SafetyInv, LaneKnows, T, Phases
  <2> QED
    BY <1>0, <2>4, <2>5, <2>6 DEF SafetyInv
<1>4. CASE AcceptInterrupted \/ UNCHANGED vars
  <2>1. Quiet /\ Laned /\ host' = host
    BY <1>4 DEF AcceptInterrupted, Quiet, vars, dbVars, procVars
  <2> HIDE DEF Laned
  <2> QED
    BY <1>1, <2>1
<1>5. CASE \/ \E w \in Worker : LoseLease(w) \/ Fail(w) \/ CutRemoval(w)
           \/ Crash
  <2>1. Quiet /\ host' = host
    BY <1>5 DEF LoseLease, Fail, CutRemoval, Crash, Quiet, dbVars
  <2>2. Laned
    <3> SUFFICES ASSUME NEW v \in Worker, lease' = v
                 PROVE  lease = v /\ pc'[v] = pc[v] /\ job'[v] = job[v]
      OBVIOUS
    <3>1. v # NoWorker
      BY TransferAssumption
    <3>2. ~Crash /\ \A w \in Worker : ~LoseLease(w)
      BY <3>1 DEF Crash, LoseLease
    <3>3. PICK w \in Worker : Return(w)
      BY <1>5, <3>2 DEF Fail, CutRemoval
    <3>4. w # v /\ lease = v
      BY <3>1, <3>3 DEF Return
    <3> QED
      BY <1>0, <3>3, <3>4 DEF Return, TypeInv, TypeOK
  <2> HIDE DEF Laned
  <2> QED
    BY <1>1, <2>1, <2>2
<1> QED
  BY <1>2, <1>3, <1>4, <1>5

\* SafetyInv is inductive.
LEMMA SafetyInduction ==
  /\ Init => SafetyInv
  /\ SafetyInv /\ [Next]_vars => SafetyInv'
<1>1. Init => SafetyInv
  <2> SUFFICES ASSUME Init PROVE SafetyInv
    OBVIOUS
  <2>1. TypeInv
    BY TypeInduction
  <2>2. /\ \A t \in Transfer : /\ Phases(t) = "none" /\ transfer[t].proof = NoKey
                              /\ host[t] = "idle" /\ redeemed[t] = {}
        /\ lease = NoWorker
    BY DEF Init, Phases, NoTransfer
  <2>3. \A t \in Transfer : Authority(t) /\ Custody(t) /\ Capture(t)
    BY <2>2, PhaseSets DEF Authority, Custody, Capture, Quiesced, Handed
  <2>4. OneLive
    BY <2>2 DEF OneLive, Nonterminal
  <2>5. \A w \in Worker : LaneKnows(w)
    BY <2>2, TransferAssumption DEF LaneKnows
  <2> QED
    BY <2>1, <2>3, <2>4, <2>5 DEF SafetyInv
<1>2. SafetyInv /\ [Next]_vars => SafetyInv'
  <2> SUFFICES ASSUME SafetyInv, [Next]_vars PROVE SafetyInv'
    OBVIOUS
  <2>1. Reconciler \in Worker /\ \A w \in Client : w \in Worker
    BY DEF Worker
  <2>2. CASE \E w \in Client, t \in Transfer : Call(w, t)
    BY <2>1, <2>2, CallKeeps
  <2>3. CASE (\E t \in Transfer : CallRecover(Reconciler, t)) \/ CallRecoverAccept(Reconciler)
    BY <2>1, <2>3, CallKeeps, TransferAssumption
  <2>4. CASE \E w \in Worker : Step(w)
    <3>1. PICK w \in Worker : Step(w)
      BY <2>4
    <3>2. TypeInv' /\ OneLive'
      BY <3>1, StepTypes, StepOneLive DEF SafetyInv
    <3>3. ASSUME NEW t \in Transfer PROVE (Authority(t) /\ Custody(t) /\ Capture(t))'
      BY <3>1, StepAuthority, StepCustody, StepCapture
    <3>4. ASSUME NEW v \in Worker PROVE LaneKnows(v)'
      BY <3>1, StepLane
    <3> QED
      BY <3>2, <3>3, <3>4 DEF SafetyInv
  <2> QED
    BY <2>2, <2>3, <2>4, OthersKeep DEF Next
<1> QED
  BY <1>1, <1>2

\* Never two authorities: when a host serves the Project, the Cloud has ended its service and
\* given the host its generation, whatever was cancelled, retried or recovered before.
THEOREM OneAuthority == Spec => []SingleAuthority
<1>1. SafetyInv => SingleAuthority
  BY DEF SafetyInv, Authority, SingleAuthority
<1> QED
  BY <1>1, SafetyInduction, PTL DEF Spec

\* Every Member but the host keeps a way in: after the relinquishment each has a claim in
\* custody or has redeemed it.
THEOREM NoMemberLockedOut == Spec => []ClaimsKept
<1>1. SafetyInv => ClaimsKept
  BY DEF SafetyInv, Authority, Custody, ClaimsKept
<1> QED
  BY <1>1, SafetyInduction, PTL DEF Spec

\* The checkpoint that the host receives holds the main that PostgreSQL acknowledged, though
\* the recovery of an Accept may run beside the transfer.
THEOREM CheckpointExact == Spec => []CheckpointCurrent
<1>1. SafetyInv => CheckpointCurrent
  BY DEF SafetyInv, Capture, CheckpointCurrent
<1> QED
  BY <1>1, SafetyInduction, PTL DEF Spec

\* The action of StaysRelinquished.
Onward == \A t \in Transfer : transfer[t].proof # NoKey => transfer'[t].phase \in Handed

\* No step leads back from the relinquishment.
LEMMA StepOnward ==
  ASSUME SafetyInv, NEW w \in Worker, Step(w)
  PROVE  Onward
<1> SUFFICES ASSUME NEW t \in Transfer, Phases(t) \in Handed
             PROVE  transfer'[t].phase \in Handed
  BY DEF Onward, SafetyInv, Authority
<1>0. TypeInv
  BY DEF SafetyInv
<1>1. CASE UNCHANGED transfer
  BY <1>1 DEF Phases
<1>2. CASE \/ Edge(w, Phase \ Handed, Phase)
           \/ Edge(w, Phase, Handed)
           \/ Edge(w, {Phases(T(w))}, {Phases(T(w))})
  BY <1>2 DEF Edge, Phases
<1>3. (\/ Begin(w) \/ Quiesce(w) \/ RecordCapture(w) \/ StageClaims(w) \/ RetainClaims(w)
       \/ StartCancellation(w) \/ SettleUnaccepted(w) \/ ConfirmInvalidated(w) \/ Clean(w)
       \/ Reopen(w) \/ FinishCancellation(w)) => Edge(w, Phase \ Handed, Phase)
  BY <1>0, Edges DEF Edge, Phase, Forward, Handed, Backward
<1>4. (Relinquish(w) \/ Activate(w) \/ Renew(w) \/ Complete(w)) => Edge(w, Phase, Handed)
  BY <1>0, Edges DEF Edge, Phase, Forward, Handed
<1>5. AcceptTarget(w) => Edge(w, {Phases(T(w))}, {Phases(T(w))})
  BY <1>0, Edges
<1>6. (AcknowledgeRedemption(w) \/ DropClaims(w) \/ CompleteAccept(w) \/ Quiet) => UNCHANGED transfer
  BY DEF AcknowledgeRedemption, DropClaims, CompleteAccept, Quiet
<1> QED
  BY <1>1, <1>2, <1>3, <1>4, <1>5, <1>6, StepKinds

\* Neither does anything else.
LEMMA NextOnward == SafetyInv /\ [Next]_vars => Onward
<1> SUFFICES ASSUME SafetyInv, [Next]_vars, NEW t \in Transfer, Phases(t) \in Handed
             PROVE  transfer'[t].phase \in Handed
  BY DEF Onward, SafetyInv, Authority
<1>1. CASE \E w \in Worker : Step(w)
  BY <1>1, StepOnward DEF Onward, SafetyInv, Authority
<1>2. CASE \E u \in Transfer : Expire(u)
  <2>1. PICK u \in Transfer : Expire(u)
    BY <1>2
  <2>2. transfer'[t].phase = transfer[t].phase
    BY <2>1 DEF Expire, Write, SafetyInv, TypeInv, TypeOK, TransferRecord
  <2> QED
    BY <2>2 DEF Phases
<1>3. CASE UNCHANGED transfer
  BY <1>3 DEF Phases
<1>4. ASSUME NEW w, NEW u, Call(w, u) \/ CallRecover(w, u) \/ CallRecoverAccept(w)
      PROVE  UNCHANGED transfer
  BY <1>4 DEF Call, CallBegin, CallAcceptTarget, CallTargetStaged, CallTargetActive,
         CallTargetInvalidated, CallReceiptVerifier, CallRedemption, CallCancel, CallRecover,
         CallRecoverAccept, Start, dbVars
<1>5. ASSUME NEW w, NEW u,
             \/ HostStages(u) \/ HostActivates(u) \/ HostInvalidates(u) \/ AcceptInterrupted
             \/ LoseLease(w) \/ Fail(w) \/ CutRemoval(w) \/ Crash
      PROVE  UNCHANGED transfer
  BY <1>5 DEF HostStages, HostActivates, HostInvalidates, AcceptInterrupted, LoseLease, Fail,
     CutRemoval, Crash, dbVars
<1>6. UNCHANGED vars => UNCHANGED transfer
  BY DEF vars, dbVars
<1> QED
  BY <1>1, <1>2, <1>3, <1>4, <1>5, <1>6 DEF Next

\* After the relinquishment a transfer only moves to activation and completion: no
\* cancellation, expiry, recovery or crash leads back.
THEOREM NoWayBack == Spec => StaysRelinquished
<1>1. SafetyInv /\ [Next]_vars => [Onward]_vars
  BY NextOnward
<1>2. Spec => [][Onward]_vars
  BY <1>1, SafetyInduction, PTL DEF Spec
<1> QED
  BY <1>2 DEF StaysRelinquished, Onward

-----------------------------------------------------------------------------
(* What is kept beside the transfer. *)

\* The phases that only follow the quiescence, in which nobody moves main or in which the
\* transfer is on its way back.
Past == Quiesced \cup Handed \cup Backward

\* Until the host is active it downloads the recorded main; the transfer is bound to one key,
\* which signed its proof; claims belong to a captured batch, go with the cancellation and
\* live as long as a transfer that completed.
Evidence(t) ==
  /\ Phases(t) \in Captured \ {"lan-activated", "completed"} => files[t] = dbMain
  /\ keys[t] = {} \/ \E k \in SourceKey : keys[t] = {k}
  /\ transfer[t].proof # NoKey => transfer[t].proof \in keys[t]
  /\ claims[t] # {} =>
       Phases(t) # "none" /\ transfer[t].batch /\ transfer[t].checkpoint # "none"
  /\ Phases(t) \in {"target-cleaned", "source-reopened", "cancelled"} => claims[t] = {}
  /\ Phases(t) = "completed" /\ ~transfer[t].expired => ~claimsExpired[t]

\* What a call has seen remains so though it may have lost the lease: its writes on disk come
\* late but not wrong.
CallKnows(w) ==
  LET p == Phases(T(w))
  IN  /\ pc[w] \in {"snapshot", "files", "owner", "record"} => p \in Past
      /\ pc[w] \in {"files", "owner", "record"} /\ p \notin Backward => job[w].main = dbMain
      /\ pc[w] = "record" /\ p = "cloud-quiesced" => files[T(w)] = dbMain
      /\ pc[w] = "complete" => p \in {"lan-activated", "completed"}
      /\ pc[w] \in {"discard", "drop-claims", "drop-key", "clean"} => p \in Backward
      /\ pc[w] \in {"drop-key", "clean"} => claims[T(w)] = {}
      /\ pc[w] = "terminal" /\ lease = w /\ ~transfer[T(w)].expired => ~claimsExpired[T(w)]

EvidenceInv ==
  /\ SafetyInv
  /\ \A t \in Transfer : Evidence(t)
  /\ \A w \in Worker : CallKnows(w)

\* The phases as a step finds and leaves them: no way back out of the quiescence, out of the
\* hand-over or out of a cancellation, and one transaction into each of the sets below.
LEMMA PhaseStep ==
  ASSUME SafetyInv, NEW w \in Worker, Step(w), NEW t \in Transfer
  PROVE  LET p == Phases(t)
             q == transfer'[t].phase
             Into(A(_), P) == q \in P => p \in P \/ (A(w) /\ t = T(w))
         IN  /\ p \in Past => q \in Past
             /\ p \in Backward => q \in Backward
             /\ p \in {"lan-activated", "completed"} => q \in {"lan-activated", "completed"}
             /\ p # "none" => q # "none"
             /\ Into(Quiesce, {"cloud-quiesced"})
             /\ Into(RecordCapture, Captured \ {"lan-activated", "completed"})
             /\ Into(Clean, {"target-cleaned", "source-reopened", "cancelled"})
             /\ Into(Complete, {"completed"})
             /\ transfer'[t].proof \in {transfer[t].proof, NoKey} \/ (Relinquish(w) /\ t = T(w))
<1>0. TypeInv /\ T(w) \in Transfer
  BY WorkerTypes DEF SafetyInv, TypeInv
<1> USE DEF Past, Quiesced, Handed, Backward, Captured, Phases
<1>1. CASE UNCHANGED transfer
  BY <1>1
<1>2. CASE Begin(w) \/ Quiesce(w) \/ AcceptTarget(w)
  BY <1>0, <1>2, Edges DEF Edge, KeepsRest
<1>3. CASE RecordCapture(w) \/ StageClaims(w) \/ RetainClaims(w) \/ Relinquish(w)
  BY <1>0, <1>3, Edges DEF Edge, KeepsRest
<1>4. CASE Activate(w) \/ Renew(w) \/ Complete(w)
  BY <1>0, <1>4, Edges DEF Edge, KeepsRest
<1>5. CASE StartCancellation(w)
  <2>1. Edge(w, (Forward \cup Backward) \ {"cancelled"}, {"cancel-intent"}) /\ KeepsRest(w)
    BY <1>0, <1>5, Edges
  <2> QED
    BY <1>0, <2>1 DEF Edge, KeepsRest, Forward
<1>6. CASE SettleUnaccepted(w) \/ ConfirmInvalidated(w) \/ Clean(w) \/ Reopen(w)
           \/ FinishCancellation(w)
  BY <1>0, <1>6, Edges DEF Edge, KeepsRest
<1>7. AcknowledgeRedemption(w) \/ DropClaims(w) \/ CompleteAccept(w) \/ Quiet =>
        UNCHANGED transfer
  BY DEF AcknowledgeRedemption, DropClaims, CompleteAccept, Quiet
<1> QED
  BY <1>1, <1>2, <1>3, <1>4, <1>5, <1>6, <1>7, StepKinds

\* The other columns: a batch and a checkpoint stay, and only three transactions renew the
\* expiry.
LEMMA RowStep ==
  ASSUME SafetyInv, NEW w \in Worker, Step(w), NEW t \in Transfer
  PROVE  LET r == transfer[t]
             q == transfer'[t]
         IN  /\ q.batch = r.batch \/ (Begin(w) /\ t = T(w)) \/ (StageClaims(w) /\ q.batch)
             /\ q.checkpoint = r.checkpoint \/ (Begin(w) /\ t = T(w))
                \/ (RecordCapture(w) /\ t = T(w) /\ q.checkpoint = job[w].main)
             /\ \/ q.expired = r.expired
                \/ t = T(w) /\ (Begin(w) \/ Activate(w) \/ Renew(w) \/ ConfirmInvalidated(w))
<1>0. TypeInv /\ T(w) \in Transfer /\ transfer[T(w)] \in TransferRecord
  BY WorkerTypes DEF SafetyInv, TypeInv
<1>a. \A r : Write(T(w), r) => /\ transfer'[T(w)] = r
                               /\ \A u \in Transfer \ {T(w)} : transfer'[u] = transfer[u]
  BY <1>0 DEF Write, TypeInv, TypeOK
<1>1. CASE UNCHANGED transfer
  BY <1>1
<1>2. CASE Begin(w)
  <2>1. \A u \in Transfer \ {T(w)} : transfer'[u] = transfer[u]
    BY <1>0, <1>2, Edges DEF Edge
  <2> QED
    BY <1>2, <2>1
<1>3. CASE AcceptTarget(w)
  <2>1. transfer'[T(w)] = [transfer[T(w)] EXCEPT !.evidence = "accepted"]
    BY <1>a, <1>3 DEF AcceptTarget
  <2>2. \A u \in Transfer \ {T(w)} : transfer'[u] = transfer[u]
    BY <1>0, <1>3, Edges DEF Edge
  <2> QED
    BY <1>0, <1>3, <2>1, <2>2 DEF TransferRecord
<1>4. CASE Quiesce(w)
  <2>1. transfer'[T(w)] = [transfer[T(w)] EXCEPT !.phase = "cloud-quiesced"]
    BY <1>a, <1>4 DEF Quiesce
  <2>2. \A u \in Transfer \ {T(w)} : transfer'[u] = transfer[u]
    BY <1>0, <1>4, Edges DEF Edge
  <2> QED
    BY <1>0, <1>4, <2>1, <2>2 DEF TransferRecord
<1>5. CASE RetainClaims(w)
  <2>1. transfer'[T(w)] = [transfer[T(w)] EXCEPT !.phase = "claims-retained"]
    BY <1>a, <1>5 DEF RetainClaims
  <2>2. \A u \in Transfer \ {T(w)} : transfer'[u] = transfer[u]
    BY <1>0, <1>5, Edges DEF Edge
  <2> QED
    BY <1>0, <1>5, <2>1, <2>2 DEF TransferRecord
<1>6. CASE Complete(w)
  <2>1. transfer'[T(w)] = [transfer[T(w)] EXCEPT !.phase = "completed"]
    BY <1>a, <1>6 DEF Complete
  <2>2. \A u \in Transfer \ {T(w)} : transfer'[u] = transfer[u]
    BY <1>0, <1>6, Edges DEF Edge
  <2> QED
    BY <1>0, <1>6, <2>1, <2>2 DEF TransferRecord
<1>7. CASE SettleUnaccepted(w)
  <2>1. transfer'[T(w)] = [transfer[T(w)] EXCEPT !.phase = "target-invalidated", !.reopen = TRUE]
    BY <1>a, <1>7 DEF SettleUnaccepted
  <2>2. \A u \in Transfer \ {T(w)} : transfer'[u] = transfer[u]
    BY <1>0, <1>7, Edges DEF Edge
  <2> QED
    BY <1>0, <1>7, <2>1, <2>2 DEF TransferRecord
<1>8. CASE Clean(w)
  <2>1. transfer'[T(w)] = [transfer[T(w)] EXCEPT !.phase = "target-cleaned"]
    BY <1>a, <1>8 DEF Clean
  <2>2. \A u \in Transfer \ {T(w)} : transfer'[u] = transfer[u]
    BY <1>0, <1>8, Edges DEF Edge
  <2> QED
    BY <1>0, <1>8, <2>1, <2>2 DEF TransferRecord
<1>9. CASE Reopen(w)
  <2>1. transfer'[T(w)] = [transfer[T(w)] EXCEPT !.phase = "source-reopened"]
    BY <1>a, <1>9 DEF Reopen
  <2>2. \A u \in Transfer \ {T(w)} : transfer'[u] = transfer[u]
    BY <1>0, <1>9, Edges DEF Edge
  <2> QED
    BY <1>0, <1>9, <2>1, <2>2 DEF TransferRecord
<1>10. CASE RecordCapture(w)
  <2>1. transfer'[T(w)] = [transfer[T(w)] EXCEPT !.phase = "checkpoint-captured", !.checkpoint = job[w].main]
    BY <1>a, <1>10 DEF RecordCapture
  <2>2. \A u \in Transfer \ {T(w)} : transfer'[u] = transfer[u]
    BY <1>0, <1>10, Edges DEF Edge
  <2> QED
    BY <1>0, <1>10, <2>1, <2>2 DEF TransferRecord
<1>11. CASE StageClaims(w)
  <2>1. transfer'[T(w)] = [transfer[T(w)] EXCEPT !.phase = "target-staged", !.batch = TRUE]
    BY <1>a, <1>11 DEF StageClaims
  <2>2. \A u \in Transfer \ {T(w)} : transfer'[u] = transfer[u]
    BY <1>0, <1>11, Edges DEF Edge
  <2> QED
    BY <1>0, <1>11, <2>1, <2>2 DEF TransferRecord
<1>12. CASE Activate(w)
  <2>1. transfer'[T(w)] = [transfer[T(w)] EXCEPT !.phase = "lan-activated", !.expired = FALSE]
    BY <1>a, <1>12 DEF Activate
  <2>2. \A u \in Transfer \ {T(w)} : transfer'[u] = transfer[u]
    BY <1>0, <1>12, Edges DEF Edge
  <2> QED
    BY <1>0, <1>12, <2>1, <2>2 DEF TransferRecord
<1>13. CASE Renew(w)
  <2>1. transfer'[T(w)] = [transfer[T(w)] EXCEPT !.expired = FALSE]
    BY <1>a, <1>13 DEF Renew
  <2>2. \A u \in Transfer \ {T(w)} : transfer'[u] = transfer[u]
    BY <1>0, <1>13, Edges DEF Edge
  <2> QED
    BY <1>0, <1>13, <2>1, <2>2 DEF TransferRecord
<1>14. CASE ConfirmInvalidated(w)
  <2>1. transfer'[T(w)] = [transfer[T(w)] EXCEPT !.phase = "target-invalidated", !.evidence = "cleaned",
                                                  !.reopen = TRUE, !.expired = FALSE]
    BY <1>a, <1>14 DEF ConfirmInvalidated
  <2>2. \A u \in Transfer \ {T(w)} : transfer'[u] = transfer[u]
    BY <1>0, <1>14, Edges DEF Edge
  <2>3. /\ transfer'[T(w)].batch = transfer[T(w)].batch
        /\ transfer'[T(w)].checkpoint = transfer[T(w)].checkpoint
    BY <1>0, <2>1 DEF TransferRecord
  <2> QED
    BY <1>14, <2>2, <2>3
<1>15. CASE Relinquish(w)
  <2>1. PICK k : transfer'[T(w)] = [transfer[T(w)] EXCEPT !.phase = "cloud-relinquished",
                                                          !.proof = k]
    BY <1>a, <1>15 DEF Relinquish
  <2>2. \A u \in Transfer \ {T(w)} : transfer'[u] = transfer[u]
    BY <1>0, <1>15, Edges DEF Edge
  <2> QED
    BY <1>0, <1>15, <2>1, <2>2 DEF TransferRecord
<1>16. CASE StartCancellation(w)
  <2>1. PICK c : transfer'[T(w)] = [transfer[T(w)] EXCEPT !.phase = "cancel-intent",
                                                          !.cancelling = c]
    BY <1>a, <1>16 DEF StartCancellation
  <2>2. \A u \in Transfer \ {T(w)} : transfer'[u] = transfer[u]
    BY <1>0, <1>16, Edges DEF Edge
  <2> QED
    BY <1>0, <1>16, <2>1, <2>2 DEF TransferRecord
<1>17. CASE FinishCancellation(w)
  <2>1. PICK e : transfer'[T(w)] = [transfer[T(w)] EXCEPT !.phase = "cancelled", !.evidence = e]
    BY <1>a, <1>17 DEF FinishCancellation
  <2>2. \A u \in Transfer \ {T(w)} : transfer'[u] = transfer[u]
    BY <1>0, <1>17, Edges DEF Edge
  <2> QED
    BY <1>0, <1>17, <2>1, <2>2 DEF TransferRecord
<1>18. AcknowledgeRedemption(w) \/ DropClaims(w) \/ CompleteAccept(w) \/ Quiet =>
         UNCHANGED transfer
  BY DEF AcknowledgeRedemption, DropClaims, CompleteAccept, Quiet
<1> QED
  BY <1>1, <1>2, <1>3, <1>4, <1>5, <1>6, <1>7, <1>8, <1>9,
     <1>10, <1>11, <1>12, <1>13, <1>14, <1>15, <1>16, <1>17, <1>18, StepKinds

\* Which steps touch the files, the keys, the claims and their expiry.
LEMMA KeptBeside ==
  ASSUME NEW w, Step(w)
  PROVE  /\ files' = files \/ StageFiles(w) \/ DiscardDelivered(w) \/ DiscardCancelled(w)
         /\ keys' = keys \/ PinKey(w) \/ ReceiptVerifier(w) \/ DropKey(w)
         /\ claims' = claims \/ StageClaims(w) \/ AcknowledgeRedemption(w) \/ DropClaims(w)
         /\ claimsExpired' = claimsExpired \/ RenewClaims(w)
         /\ dbMain' = dbMain \/ CompleteAccept(w)
<1>1. (\/ Preflight(w) \/ Reread(w) \/ EnterLane(w) \/ Refused(w) \/ Snapshot(w)
       \/ MakeDirectory(w) \/ MarkOwner(w) \/ SettleMain(w)) =>
        UNCHANGED <<files, keys, claims, claimsExpired, dbMain>>
  BY DEF Preflight, Reread, EnterLane, Refused, Snapshot, MakeDirectory, MarkOwner, SettleMain,
         dbVars, diskVars
<1>2. (\/ Begin(w) \/ AcceptTarget(w) \/ Quiesce(w) \/ RecordCapture(w) \/ RetainClaims(w)
       \/ Relinquish(w) \/ Activate(w) \/ Renew(w) \/ Complete(w)) =>
        UNCHANGED <<files, keys, claims, claimsExpired, dbMain>>
  BY DEF Begin, AcceptTarget, Quiesce, RecordCapture, RetainClaims, Relinquish, Activate, Renew,
         Complete, diskVars
<1>3. (\/ StartCancellation(w) \/ SettleUnaccepted(w) \/ ConfirmInvalidated(w) \/ Clean(w)
       \/ Reopen(w) \/ FinishCancellation(w) \/ MarkMain(w)) =>
        UNCHANGED <<files, keys, claims, claimsExpired, dbMain>>
  BY DEF StartCancellation, SettleUnaccepted, ConfirmInvalidated, Clean, Reopen,
         FinishCancellation, MarkMain, diskVars
<1>4. (\/ StageFiles(w) \/ DiscardDelivered(w) \/ DiscardCancelled(w)) =>
        UNCHANGED <<keys, claims, claimsExpired, dbMain>>
  BY DEF StageFiles, DiscardDelivered, DiscardCancelled, dbVars
<1>5. (\/ PinKey(w) \/ ReceiptVerifier(w) \/ DropKey(w)) =>
        UNCHANGED <<files, claims, claimsExpired, dbMain>>
  BY DEF PinKey, ReceiptVerifier, DropKey, diskVars
<1>6. (\/ StageClaims(w) \/ AcknowledgeRedemption(w) \/ DropClaims(w)) =>
        UNCHANGED <<files, keys, claimsExpired, dbMain>>
  BY DEF StageClaims, AcknowledgeRedemption, DropClaims, diskVars
<1>7. (RenewClaims(w) => UNCHANGED <<files, keys, claims, dbMain>>)
      /\ (CompleteAccept(w) => UNCHANGED <<files, keys, claims, claimsExpired>>)
  BY DEF RenewClaims, CompleteAccept, diskVars
<1> QED
  BY <1>1, <1>2, <1>3, <1>4, <1>5, <1>6, <1>7 DEF Step

\* A worker leaves the calls of the others alone.
LEMMA OtherCalls ==
  ASSUME TypeInv, NEW w \in Worker, Step(w), NEW v \in Worker \ {w}
  PROVE  pc'[v] = pc[v] /\ job'[v] = job[v]
<1>0. pc \in [Worker -> Label] /\ job \in [Worker -> JobRecord]
  BY DEF TypeInv, TypeOK
<1>1. CASE Preflight(w) \/ Reread(w) \/ EnterLane(w) \/ Snapshot(w)
  BY <1>0, <1>1 DEF Preflight, Reread, EnterLane, Snapshot, Return
<1>2. CASE Return(w)
  BY <1>0, <1>2 DEF Return
<1>3. CASE \E s \in Label : Goto(w, s)
  BY <1>0, <1>3 DEF Goto
<1> QED
  BY <1>1, <1>2, <1>3, StepGoes

\* The files that a host may download.
LEMMA StepFiles ==
  ASSUME EvidenceInv, NEW w \in Worker, Step(w), NEW t \in Transfer
  PROVE  transfer'[t].phase \in Captured \ {"lan-activated", "completed"} => files'[t] = dbMain'
<1> SUFFICES ASSUME transfer'[t].phase \in Captured \ {"lan-activated", "completed"}
             PROVE  files'[t] = dbMain'
  OBVIOUS
<1>0. /\ SafetyInv /\ TypeInv /\ T(w) \in Transfer /\ Evidence(t) /\ CallKnows(w)
      /\ files \in [Transfer -> Main \cup {"none"}] /\ LaneKnows(w)
  BY WorkerTypes DEF EvidenceInv, SafetyInv, TypeInv, TypeOK
<1>1. CASE RecordCapture(w) /\ t = T(w)
  <2>1. pc[w] = "record" /\ Phases(t) = "cloud-quiesced" /\ UNCHANGED <<files, dbMain>>
    BY <1>1, Guards DEF RecordCapture, Tx, diskVars
  <2> QED
    BY <1>0, <1>1, <2>1 DEF CallKnows
<1>2. CASE Phases(t) \in Captured \ {"lan-activated", "completed"}
  <2>0. files[t] = dbMain
    BY <1>0, <1>2 DEF Evidence
  <2>1. CASE StageFiles(w)
    <3>1. files' = [files EXCEPT ![T(w)] = job[w].main] /\ dbMain' = dbMain
      BY <2>1 DEF StageFiles, dbVars
    <3>2. t = T(w) => job[w].main = dbMain
      BY <1>0, <1>2, <2>1, PhaseSets DEF StageFiles, CallKnows, Past
    <3> QED
      BY <1>0, <2>0, <3>1, <3>2
  <2>2. CASE DiscardDelivered(w)
    <3>1. files' = [files EXCEPT ![T(w)] = "none"] /\ dbMain' = dbMain /\ t # T(w)
      BY <1>0, <1>2, <2>2 DEF DiscardDelivered, DiscardCheckpoint, dbVars, CallKnows
    <3> QED
      BY <1>0, <2>0, <3>1
  <2>3. CASE DiscardCancelled(w)
    <3>1. /\ files' = files \/ files' = [files EXCEPT ![T(w)] = "none"]
          /\ dbMain' = dbMain /\ t # T(w)
      BY <1>0, <1>2, <2>3, PhaseSets DEF DiscardCancelled, DiscardCheckpoint, dbVars, CallKnows
    <3> QED
      BY <1>0, <2>0, <3>1
  <2>4. CASE CompleteAccept(w)
    <3>1. service = "active"
      BY <2>4, Guards DEF CompleteAccept, LiveCompletionFences
    <3> QED
      BY <1>0, <1>2, <3>1, PhaseSets DEF SafetyInv, Authority
  <2>5. CASE UNCHANGED <<files, dbMain>>
    BY <2>0, <2>5
  <2>6. StageFiles(w) \/ DiscardDelivered(w) \/ DiscardCancelled(w) => dbMain' = dbMain
    BY DEF StageFiles, DiscardDelivered, DiscardCancelled, dbVars
  <2> QED
    BY <2>1, <2>2, <2>3, <2>4, <2>5, KeptBeside
<1> QED
  BY <1>0, <1>1, <1>2, PhaseStep

\* One key, pinned as long as the proof it signed.
LEMMA StepKeys ==
  ASSUME EvidenceInv, NEW w \in Worker, Step(w), NEW t \in Transfer
  PROVE  /\ keys'[t] = {} \/ \E k \in SourceKey : keys'[t] = {k}
         /\ transfer'[t].proof # NoKey => transfer'[t].proof \in keys'[t]
<1>0. /\ SafetyInv /\ TypeInv /\ T(w) \in Transfer /\ Evidence(t) /\ Evidence(T(w))
      /\ Authority(T(w)) /\ keys \in [Transfer -> SUBSET SourceKey] /\ signingKey \in SourceKey
  BY WorkerTypes DEF EvidenceInv, SafetyInv, TypeInv, TypeOK
<1>1. CASE PinKey(w) \/ ReceiptVerifier(w)
  <2>1. /\ keys' = [keys EXCEPT ![T(w)] = SourceReceiptKey(T(w))] /\ transfer' = transfer
    BY <1>1 DEF PinKey, ReceiptVerifier
  <2>2. \/ SourceReceiptKey(T(w)) = keys[T(w)]
        \/ SourceReceiptKey(T(w)) = {signingKey} /\ transfer[T(w)].proof = NoKey
    BY DEF SourceReceiptKey
  <2> QED
    BY <1>0, <2>1, <2>2 DEF Evidence
<1>2. CASE DropKey(w)
  <2>1. /\ keys' = [keys EXCEPT ![T(w)] = {}] /\ transfer' = transfer
        /\ keys[T(w)] = {} \/ Phases(T(w)) = "target-invalidated"
    BY <1>2 DEF DropKey, Tx, Admits, Phases
  <2>2. transfer[T(w)].proof = NoKey
    BY <1>0, <2>1 DEF Evidence, Authority, Handed
  <2> QED
    BY <1>0, <2>1, <2>2 DEF Evidence
<1>3. CASE Relinquish(w) /\ t = T(w)
  <2>1. PICK k \in keys[t] : transfer'[t].proof = k
    <3>1. PICK k \in keys[t] : Write(t, [transfer[t] EXCEPT !.phase = "cloud-relinquished",
                                                            !.proof = k])
      BY <1>3 DEF Relinquish
    <3> QED
      BY <1>0, <3>1 DEF Write, TypeInv, TypeOK, TransferRecord
  <2>2. keys' = keys
    BY <1>3 DEF Relinquish
  <2> QED
    BY <1>0, <2>1, <2>2 DEF Evidence
<1>4. CASE keys' = keys /\ transfer'[t].proof \in {transfer[t].proof, NoKey}
  BY <1>0, <1>4 DEF Evidence
<1> QED
  BY <1>0, <1>1, <1>2, <1>3, <1>4, PhaseStep, KeptBeside

\* Claims belong to a batch of a captured checkpoint, and none outlives a cancellation.
LEMMA StepClaims ==
  ASSUME EvidenceInv, NEW w \in Worker, Step(w), NEW t \in Transfer
  PROVE  /\ claims'[t] # {} => /\ transfer'[t].phase # "none" /\ transfer'[t].batch
                               /\ transfer'[t].checkpoint # "none"
         /\ transfer'[t].phase \in {"target-cleaned", "source-reopened", "cancelled"} =>
              claims'[t] = {}
<1>0. /\ SafetyInv /\ TypeInv /\ T(w) \in Transfer /\ Evidence(t) /\ Evidence(T(w))
      /\ Capture(T(w)) /\ CallKnows(w) /\ LaneKnows(w)
      /\ claims \in [Transfer -> SUBSET Member]
      /\ dbMain \in Main
  BY WorkerTypes DEF EvidenceInv, SafetyInv, TypeInv, TypeOK
<1>1. ASSUME claims'[t] # {}
      PROVE  claims[t] # {} \/ (StageClaims(w) /\ t = T(w))
  BY <1>0, <1>1, KeptBeside DEF StageClaims, AcknowledgeRedemption, Scrub, DropClaims
<1>2. CASE StageClaims(w) /\ t = T(w)
  <2>1. Phases(t) = "checkpoint-captured" /\ transfer[t].checkpoint = dbMain
    BY <1>0, <1>2, Guards DEF StageClaims, Capture, Captured
  <2>2. /\ transfer'[t].phase = "target-staged"
        /\ transfer'[t].checkpoint = transfer[t].checkpoint
    BY <1>0, <1>2, Edges DEF Edge, KeepsRest
  <2>3. transfer'[t].batch
    BY <1>0, <1>2 DEF StageClaims, Write, TypeInv, TypeOK, TransferRecord
  <2> QED
    BY <1>0, <2>1, <2>2, <2>3 DEF Main
<1>3. CASE claims[t] = {} /\ ~(StageClaims(w) /\ t = T(w))
  BY <1>1, <1>3
<1>4. CASE claims[t] # {} /\ ~(StageClaims(w) /\ t = T(w))
  <2>1. Phases(t) # "none" /\ transfer[t].batch /\ transfer[t].checkpoint # "none"
    BY <1>0, <1>4 DEF Evidence
  <2>2. ~(Begin(w) /\ t = T(w))
    BY <2>1, Guards DEF Begin
  <2>3. /\ transfer'[t].phase # "none" /\ transfer'[t].batch
        /\ transfer'[t].checkpoint # "none"
    <3>1. RecordCapture(w) => job[w].main = dbMain
      BY <1>0 DEF RecordCapture, Tx, LaneKnows
    <3> QED
      BY <1>0, <2>1, <2>2, <3>1, PhaseStep, RowStep DEF Main
  <2>4. transfer'[t].phase \notin {"target-cleaned", "source-reopened", "cancelled"}
    <3>1. Phases(t) \notin {"target-cleaned", "source-reopened", "cancelled"}
      BY <1>0, <1>4 DEF Evidence
    <3>2. Clean(w) => claims[T(w)] = {}
      BY <1>0 DEF Clean, Tx, CallKnows
    <3> QED
      BY <1>0, <1>4, <3>1, <3>2, PhaseStep
  <2> QED
    BY <2>3, <2>4
<1> QED
  BY <1>2, <1>3, <1>4

\* Completed claims expire with their transfer.
LEMMA StepExpiry ==
  ASSUME EvidenceInv, NEW w \in Worker, Step(w), NEW t \in Transfer
  PROVE  transfer'[t].phase = "completed" /\ ~transfer'[t].expired => ~claimsExpired'[t]
<1> SUFFICES ASSUME transfer'[t].phase = "completed", ~transfer'[t].expired
             PROVE  ~claimsExpired'[t]
  OBVIOUS
<1>0. /\ SafetyInv /\ TypeInv /\ T(w) \in Transfer /\ Evidence(t) /\ CallKnows(w)
      /\ claimsExpired \in [Transfer -> BOOLEAN]
  BY WorkerTypes DEF EvidenceInv, SafetyInv, TypeInv, TypeOK
<1>1. CASE Complete(w) /\ t = T(w)
  <2>1. pc[w] = "terminal" /\ lease = w /\ claimsExpired' = claimsExpired
    BY <1>1 DEF Complete, Tx
  <2>2. transfer'[t].expired = transfer[t].expired
    BY <1>0, <1>1 DEF Complete, Write, TypeInv, TypeOK, TransferRecord
  <2> QED
    BY <1>0, <1>1, <2>1, <2>2 DEF CallKnows
<1>2. CASE Phases(t) = "completed"
  <2>1. ~(t = T(w) /\ (Begin(w) \/ Activate(w) \/ Renew(w) \/ ConfirmInvalidated(w)))
    BY <1>2, Guards DEF Begin, Activate, Renew, ConfirmInvalidated
  <2>2. ~transfer[t].expired
    BY <1>0, <2>1, RowStep
  <2>3. RenewClaims(w) => t # T(w)
    BY <1>2 DEF RenewClaims, Tx, Admits, Phases
  <2>4. claimsExpired'[t] = claimsExpired[t]
    BY <1>0, <2>3, KeptBeside DEF RenewClaims
  <2> QED
    BY <1>0, <1>2, <2>2, <2>4 DEF Evidence
<1> QED
  BY <1>0, <1>1, <1>2, PhaseStep

LEMMA StepEvidence ==
  ASSUME EvidenceInv, NEW w \in Worker, Step(w), NEW t \in Transfer
  PROVE  Evidence(t)'
BY StepFiles, StepKeys, StepClaims, StepExpiry DEF Evidence, Phases

-----------------------------------------------------------------------------
(* What the calls know, with the lease or without it. *)

\* Another worker's step leaves that alone.
LEMMA OthersKnow ==
  ASSUME EvidenceInv, NEW w \in Worker, Step(w), NEW v \in Worker \ {w}
  PROVE  CallKnows(v)'
<1>0. /\ SafetyInv /\ TypeInv /\ T(w) \in Transfer /\ T(v) \in Transfer
      /\ CallKnows(w) /\ CallKnows(v) /\ Authority(T(v)) /\ LaneKnows(w)
      /\ files \in [Transfer -> Main \cup {"none"}] /\ claims \in [Transfer -> SUBSET Member]
      /\ claimsExpired \in [Transfer -> BOOLEAN]
  BY WorkerTypes DEF EvidenceInv, SafetyInv, TypeInv, TypeOK
<1>1. pc'[v] = pc[v] /\ job'[v] = job[v] /\ T(v)' = T(v)
  BY <1>0, OtherCalls DEF T
<1> DEFINE t == T(v)
           p == Phases(t)
           q == transfer'[t].phase
<1>2. /\ p \in Past => q \in Past
      /\ p \in Backward => q \in Backward
      /\ p \in {"lan-activated", "completed"} => q \in {"lan-activated", "completed"}
      /\ q = "cloud-quiesced" => p = "cloud-quiesced" \/ (Quiesce(w) /\ t = T(w))
  BY <1>0, PhaseStep
<1>3. p \in Past /\ p \notin Backward => dbMain' = dbMain
  <2>1. CompleteAccept(w) => service = "active"
    BY Guards DEF CompleteAccept, LiveCompletionFences
  <2>2. p \in Quiesced \cup Handed => service # "active"
    BY <1>0 DEF Authority
  <2> QED
    BY <2>1, <2>2, KeptBeside DEF Past
<1>4. pc[v] \in {"files", "owner", "record"} /\ q \notin Backward => job[v].main = dbMain'
  BY <1>0, <1>2, <1>3 DEF CallKnows
<1>5. pc[v] = "record" /\ q = "cloud-quiesced" => files'[t] = dbMain'
  <2> SUFFICES ASSUME pc[v] = "record", q = "cloud-quiesced"
               PROVE  files'[t] = dbMain'
    OBVIOUS
  <2>1. p \in Past
    BY <1>0 DEF CallKnows
  <2>2. p = "cloud-quiesced"
    <3>1. Quiesce(w) /\ t = T(w) => p = "collecting-readiness"
      BY <1>0, Edges DEF Edge
    <3> QED
      BY <1>2, <2>1, <3>1 DEF Past, Quiesced, Handed, Backward
  <2>3. files[t] = dbMain /\ dbMain' = dbMain
    BY <1>0, <1>3, <2>1, <2>2 DEF CallKnows, Backward
  <2>4. StageFiles(w) /\ t = T(w) => job[w].main = dbMain
    BY <1>0, <2>2 DEF StageFiles, CallKnows, Backward
  <2>5. ~((DiscardDelivered(w) \/ DiscardCancelled(w)) /\ t = T(w))
    BY <1>0, <2>2 DEF DiscardDelivered, DiscardCancelled, CallKnows, Backward
  <2>6. files'[t] = files[t] \/ (StageFiles(w) /\ t = T(w) /\ files'[t] = job[w].main)
    BY <1>0, <2>5, KeptBeside DEF StageFiles, DiscardDelivered, DiscardCancelled,
       DiscardCheckpoint
  <2> QED
    BY <2>3, <2>4, <2>6
<1>6. pc[v] \in {"drop-key", "clean"} => claims'[t] = {}
  <2> SUFFICES ASSUME pc[v] \in {"drop-key", "clean"} PROVE claims'[t] = {}
    OBVIOUS
  <2>1. claims[t] = {} /\ p \in Backward
    BY <1>0 DEF CallKnows
  <2>2. StageClaims(w) => t # T(w) /\ claims' = [claims EXCEPT ![T(w)] = ExactBatchMembers]
    BY <2>1, Guards DEF StageClaims, Backward
  <2>3. AcknowledgeRedemption(w) => \E m : claims' = [claims EXCEPT ![T(w)] = @ \ {m}]
    BY DEF AcknowledgeRedemption, Scrub
  <2>4. DropClaims(w) => claims' = claims \/ claims' = [claims EXCEPT ![T(w)] = {}]
    BY DEF DropClaims
  <2>5. \/ claims' = claims \/ StageClaims(w) \/ AcknowledgeRedemption(w) \/ DropClaims(w)
    BY KeptBeside
  <2>6. t \in Transfer /\ claims \in [Transfer -> SUBSET Member]
    BY <1>0
  <2> HIDE DEF t, p, q
  <2>7. CASE claims' = claims
    BY <2>1, <2>7
  <2>8. CASE StageClaims(w)
    BY <2>1, <2>2, <2>6, <2>8
  <2>9. CASE AcknowledgeRedemption(w)
    BY <2>1, <2>3, <2>6, <2>9
  <2>10. CASE DropClaims(w)
    BY <2>1, <2>4, <2>6, <2>10
  <2> QED
    BY <2>5, <2>7, <2>8, <2>9, <2>10
<1>7. pc[v] = "terminal" /\ lease' = v /\ ~transfer'[t].expired => ~claimsExpired'[t]
  <2> SUFFICES ASSUME pc[v] = "terminal", lease' = v, ~transfer'[t].expired
               PROVE  ~claimsExpired'[t]
    OBVIOUS
  <2>1. lease = v /\ transfer' = transfer
    BY <1>0, OthersWait
  <2>2. ~RenewClaims(w)
    BY <2>1 DEF RenewClaims, Tx
  <2> QED
    BY <1>0, <2>1, <2>2, KeptBeside DEF CallKnows
<1> QED
  BY <1>0, <1>1, <1>2, <1>4, <1>5, <1>6, <1>7 DEF CallKnows, Phases

\* The steps after which a call knows something.
LEMMA WaysToKnow ==
  ASSUME TypeInv, NEW w \in Worker, Step(w),
         pc'[w] \in {"snapshot", "files", "owner", "record", "complete", "discard", "drop-claims",
                     "drop-key", "clean", "terminal"}
  PROVE  \/ Quiesce(w) \/ Snapshot(w) \/ MakeDirectory(w) \/ MarkOwner(w) \/ StageFiles(w)
         \/ Activate(w) \/ RenewClaims(w)
         \/ SettleUnaccepted(w) \/ ConfirmInvalidated(w) \/ DiscardCancelled(w)
         \/ DropClaims(w) \/ DropKey(w) \/ EnterLane(w)
<1> DEFINE Watched == {"snapshot", "files", "owner", "record", "complete", "discard", "drop-claims",
                       "drop-key", "clean", "terminal"}
<1>0. pc \in [Worker -> Label]
  BY DEF TypeInv, TypeOK
<1>1. ~Return(w)
  BY <1>0 DEF Return
<1>2. \A s : Goto(w, s) => s \in Watched
  BY <1>0 DEF Goto
<1>3. ~Refused(w) /\ ~Begin(w) /\ ~RecordCapture(w) /\ ~Relinquish(w) /\ ~ReceiptVerifier(w)
      /\ ~Complete(w) /\ ~AcknowledgeRedemption(w) /\ ~FinishCancellation(w) /\ ~CompleteAccept(w)
  BY <1>1 DEF Refused, Begin, RecordCapture, Relinquish, ReceiptVerifier, Complete,
         AcknowledgeRedemption, FinishCancellation, CompleteAccept
<1>4. ~AcceptTarget(w) /\ ~StageClaims(w) /\ ~RetainClaims(w) /\ ~PinKey(w)
      /\ ~DiscardDelivered(w) /\ ~Renew(w)
  BY <1>2 DEF AcceptTarget, StageClaims, RetainClaims, PinKey, DiscardDelivered, Renew
<1>5. ~Clean(w) /\ ~Reopen(w) /\ ~SettleMain(w) /\ ~MarkMain(w) /\ ~StartCancellation(w)
  BY <1>1, <1>2 DEF Clean, Reopen, SettleMain, MarkMain, StartCancellation
<1>6. ~Preflight(w) /\ ~Reread(w)
  BY <1>0, <1>1 DEF Preflight, Reread
<1> QED
  BY <1>3, <1>4, <1>5, <1>6 DEF Step

\* Its own step gives a call what it knows.
LEMMA OwnKnows ==
  ASSUME EvidenceInv, NEW w \in Worker, Step(w)
  PROVE  CallKnows(w)'
<1>0. /\ SafetyInv /\ TypeInv /\ T(w) \in Transfer /\ CallKnows(w) /\ Evidence(T(w))
      /\ pc \in [Worker -> Label] /\ job \in [Worker -> JobRecord]
      /\ files \in [Transfer -> Main \cup {"none"}] /\ claims \in [Transfer -> SUBSET Member]
      /\ claimsExpired \in [Transfer -> BOOLEAN]
  BY WorkerTypes DEF EvidenceInv, SafetyInv, TypeInv, TypeOK
<1>a. \A s : Goto(w, s) => pc'[w] = s /\ job' = job /\ T(w)' = T(w)
  BY <1>0 DEF Goto, T
<1> SUFFICES ASSUME pc'[w] \in {"snapshot", "files", "owner", "record", "complete", "discard",
                                "drop-claims", "drop-key", "clean", "terminal"}
             PROVE  CallKnows(w)'
  BY DEF CallKnows
<1>1. CASE Quiesce(w)
  <2>1. transfer'[T(w)].phase = "cloud-quiesced"
    BY <1>0, <1>1, Edges DEF Edge
  <2> QED
    BY <1>a, <1>1, <2>1 DEF Quiesce, CallKnows, Phases, Past, Quiesced
<1>2. CASE Snapshot(w)
  <2>1. /\ pc'[w] = "files" /\ job'[w].main = dbMain /\ job'[w].transfer = job[w].transfer
        /\ dbMain' = dbMain /\ transfer' = transfer
    BY <1>0, <1>2 DEF Snapshot, dbVars, JobRecord
  <2>2. Phases(T(w)) \in Past
    BY <1>0, <1>2 DEF Snapshot, Tx, CallKnows, Past, Quiesced
  <2> QED
    BY <2>1, <2>2 DEF CallKnows, Phases, T
<1>3. CASE StageFiles(w)
  <2>1. /\ files'[T(w)] = job[w].main /\ transfer' = transfer /\ dbMain' = dbMain
        /\ pc[w] = "files" /\ pc'[w] = "record" /\ job' = job /\ T(w)' = T(w)
    BY <1>0, <1>a, <1>3 DEF StageFiles, dbVars
  <2> QED
    BY <1>0, <2>1 DEF CallKnows, Phases, Backward
<1>11. CASE MakeDirectory(w) \/ MarkOwner(w)
  <2>1. /\ files' = files /\ transfer' = transfer /\ dbMain' = dbMain
        /\ pc[w] \in {"files", "owner"} /\ pc'[w] \in {"files", "owner"}
        /\ job' = job /\ T(w)' = T(w)
    BY <1>0, <1>a, <1>11 DEF MakeDirectory, MarkOwner, dbVars
  <2> QED
    BY <1>0, <2>1 DEF CallKnows, Phases, Backward
<1>4. CASE Activate(w)
  <2>1. transfer'[T(w)].phase = "lan-activated"
    BY <1>0, <1>4, Edges DEF Edge
  <2> QED
    BY <1>a, <1>4, <2>1 DEF Activate, CallKnows, Phases
<1>5. CASE SettleUnaccepted(w) \/ ConfirmInvalidated(w)
  <2>1. transfer'[T(w)].phase = "target-invalidated"
    BY <1>0, <1>5, Edges DEF Edge
  <2> QED
    BY <1>a, <1>5, <2>1 DEF SettleUnaccepted, ConfirmInvalidated, CallKnows, Phases, Backward
<1>6. CASE DiscardCancelled(w)
  BY <1>0, <1>a, <1>6 DEF DiscardCancelled, dbVars, CallKnows, Phases
<1>7. CASE DropClaims(w)
  <2>1. claims'[T(w)] = {}
    BY <1>0, <1>7 DEF DropClaims, DropsClaims, Evidence
  <2>2. /\ pc'[w] = "drop-key" /\ T(w)' = T(w) /\ transfer' = transfer
        /\ pc[w] = "drop-claims"
    BY <1>a, <1>7 DEF DropClaims, Tx
  <2> QED
    BY <1>0, <2>1, <2>2 DEF CallKnows, Phases
<1>8. CASE DropKey(w)
  BY <1>0, <1>a, <1>8 DEF DropKey, Tx, CallKnows, Phases
<1>9. CASE RenewClaims(w)
  BY <1>0, <1>a, <1>9 DEF RenewClaims, Tx, CallKnows
<1>10. CASE EnterLane(w)
  <2>1. pc'[w] = FirstStep(w) /\ job' = job /\ T(w)' = T(w) /\ transfer' = transfer
    BY <1>0, <1>10 DEF EnterLane, Return, dbVars, T
  <2> DEFINE Knows(s) ==
        s \in {"snapshot", "files", "owner", "record", "complete", "discard", "drop-claims",
               "drop-key", "clean", "terminal"} =>
          \/ s = "discard" /\ Phases(T(w)) = "target-invalidated"
          \/ s = "complete" /\ Phases(T(w)) = "lan-activated"
  <2>2. Knows(SettleStep(T(w)))
    BY DEF SettleStep
  <2>3. Knows(RecoverStep(T(w)))
    BY <2>2 DEF RecoverStep
  <2>4. job[w].call \in {"none", "begin", "accept", "stage", "activate", "invalidate",
                         "verifier", "redeem", "cancel", "recover", "recover-accept"}
    BY <1>0, WorkerTypes DEF JobRecord
  <2>5. Knows(FirstStep(w))
    BY <2>2, <2>3, <2>4 DEF FirstStep
  <2> QED
    BY <2>1, <2>5 DEF CallKnows, Phases, Backward
<1> QED
  BY <1>0, <1>1, <1>2, <1>3, <1>4, <1>5, <1>6, <1>7, <1>8, <1>9, <1>10, <1>11, WaysToKnow

\* A call that begins knows nothing yet, and the rest of the world only marks a row as
\* expired, takes the lease away or ends the call.
LEMMA WorldKnows ==
  ASSUME EvidenceInv,
         \/ \E w \in Worker, t \in Transfer :
              Call(w, t) \/ CallRecover(w, t) \/ CallRecoverAccept(w)
         \/ \E t \in Transfer : HostStages(t) \/ HostActivates(t) \/ HostInvalidates(t) \/ Expire(t)
         \/ AcceptInterrupted
         \/ \E w \in Worker : LoseLease(w) \/ Fail(w) \/ CutRemoval(w)
         \/ Crash
         \/ UNCHANGED vars
  PROVE  (\A t \in Transfer : Evidence(t))' /\ (\A v \in Worker : CallKnows(v))'
<1> DEFINE Silent == {"idle", "preflight", "lane"}
<1>0. /\ TypeInv /\ pc \in [Worker -> Label] /\ job \in [Worker -> JobRecord]
      /\ transfer \in [Transfer -> TransferRecord] /\ claimsExpired \in [Transfer -> BOOLEAN]
      /\ \A v \in Worker : T(v) \in Transfer
  BY WorkerTypes DEF EvidenceInv, SafetyInv, TypeInv, TypeOK
<1>1. ASSUME UNCHANGED <<transfer, claims, claimsExpired, keys, dbMain, files>>,
             \A v \in Worker : pc'[v] \in Silent \/ (pc'[v] = pc[v] /\ job'[v] = job[v]
                                                       /\ (lease' = v => lease = v))
      PROVE  (\A t \in Transfer : Evidence(t))' /\ (\A v \in Worker : CallKnows(v))'
  <2>1. (\A t \in Transfer : Evidence(t))'
    BY <1>1 DEF EvidenceInv, Evidence, Phases
  <2>2. ASSUME NEW v \in Worker PROVE CallKnows(v)'
    <3>1. CASE pc'[v] \in Silent
      BY <3>1 DEF CallKnows
    <3>2. CASE pc'[v] = pc[v] /\ job'[v] = job[v] /\ (lease' = v => lease = v)
      BY <1>1, <3>2 DEF EvidenceInv, CallKnows, Phases, T
    <3> QED
      BY <1>1, <3>1, <3>2
  <2> QED
    BY <2>1, <2>2
<1>2. CASE \E w \in Worker, t \in Transfer :
             Call(w, t) \/ CallRecover(w, t) \/ CallRecoverAccept(w)
  <2>1. PICK w \in Worker, t \in Transfer :
               Call(w, t) \/ CallRecover(w, t) \/ CallRecoverAccept(w)
    BY <1>2
  <2>2. /\ UNCHANGED <<dbVars, diskVars, lease>>
        /\ \E s \in {"preflight", "lane"} : pc' = [pc EXCEPT ![w] = s]
        /\ \E j : job' = [job EXCEPT ![w] = j]
    BY <2>1 DEF Call, CallBegin, CallAcceptTarget, CallTargetStaged, CallTargetActive,
       CallTargetInvalidated, CallReceiptVerifier, CallRedemption, CallCancel, CallRecover,
       CallRecoverAccept, Start
  <2>3. \A v \in Worker : pc'[v] \in Silent \/ (pc'[v] = pc[v] /\ job'[v] = job[v])
    BY <1>0, <2>2
  <2> HIDE DEF Silent
  <2> QED
    BY <1>1, <2>2, <2>3 DEF dbVars, diskVars
<1>3. CASE \E t \in Transfer : HostStages(t) \/ HostActivates(t) \/ HostInvalidates(t)
  <2>1. UNCHANGED <<dbVars, diskVars, procVars>>
    BY <1>3 DEF HostStages, HostActivates, HostInvalidates
  <2> HIDE DEF Silent
  <2> QED
    BY <1>1, <2>1 DEF dbVars, diskVars, procVars
<1>4. CASE AcceptInterrupted \/ UNCHANGED vars
  <2>1. UNCHANGED <<transfer, claims, claimsExpired, keys, dbMain, files, pc, job, lease>>
    BY <1>4 DEF AcceptInterrupted, vars, dbVars, diskVars, procVars
  <2> HIDE DEF Silent
  <2> QED
    BY <1>1, <2>1
<1>5. CASE (\E w \in Worker : LoseLease(w) \/ Fail(w)) \/ Crash
  <2>1. UNCHANGED <<dbVars, diskVars>>
    BY <1>5 DEF LoseLease, Fail, Crash
  <2>2. ASSUME NEW v \in Worker
        PROVE  pc'[v] \in Silent \/ (pc'[v] = pc[v] /\ job'[v] = job[v]
                                       /\ (lease' = v => lease = v))
    <3>0. v # NoWorker
      BY TransferAssumption
    <3>1. CASE Crash
      BY <3>1 DEF Crash
    <3>2. CASE \E w \in Worker : LoseLease(w)
      BY <3>0, <3>2 DEF LoseLease
    <3>3. CASE \E w \in Worker : Fail(w)
      BY <1>0, <3>0, <3>3 DEF Fail, Return
    <3> QED
      BY <1>5, <3>1, <3>2, <3>3
  <2> HIDE DEF Silent
  <2> QED
    BY <1>1, <2>1, <2>2 DEF dbVars, diskVars
<1>7. CASE \E w \in Worker : CutRemoval(w)
  <2>1. PICK w \in Worker : CutRemoval(w)
    BY <1>7
  <2>2. /\ UNCHANGED <<transfer, claims, claimsExpired, keys, dbMain>>
        /\ files' = files /\ Return(w)
    BY <2>1 DEF CutRemoval, dbVars
  <2>3. (\A u \in Transfer : Evidence(u))'
    BY <2>2 DEF EvidenceInv, Evidence, Phases
  <2>4. ASSUME NEW v \in Worker PROVE CallKnows(v)'
    <3>0. CallKnows(v) /\ T(v) \in Transfer /\ v # NoWorker
      BY <1>0, TransferAssumption DEF EvidenceInv
    <3>1. CASE v = w
      BY <1>0, <2>2, <3>1 DEF CallKnows, Return
    <3>2. CASE v # w
      <4>1. pc'[v] = pc[v] /\ job'[v] = job[v] /\ T(v)' = T(v) /\ (lease' = v => lease = v)
        BY <1>0, <2>2, <3>0, <3>2 DEF Return, T
      <4> QED
        BY <2>2, <3>0, <4>1 DEF CallKnows, Phases
    <3> QED
      BY <3>1, <3>2
  <2> QED
    BY <2>3, <2>4
<1>6. CASE \E t \in Transfer : Expire(t)
  <2>1. PICK t \in Transfer : Expire(t)
    BY <1>6
  <2>2. UNCHANGED <<claims, keys, dbMain, files, pc, job, lease>>
    BY <2>1 DEF Expire, diskVars, procVars
  <2>3. \A u \in Transfer : /\ transfer'[u].phase = transfer[u].phase
                            /\ transfer'[u].batch = transfer[u].batch
                            /\ transfer'[u].proof = transfer[u].proof
                            /\ transfer'[u].checkpoint = transfer[u].checkpoint
    BY <1>0, <2>1 DEF Expire, Write, TransferRecord
  <2>4. \A u \in Transfer :
          ~transfer'[u].expired =>
             ~transfer[u].expired /\ claimsExpired'[u] = claimsExpired[u]
    BY <1>0, <2>1 DEF Expire, Write, TransferRecord
  <2>5. (\A u \in Transfer : Evidence(u))'
    BY <2>2, <2>3, <2>4 DEF EvidenceInv, Evidence, Phases
  <2>6. ASSUME NEW v \in Worker PROVE CallKnows(v)'
    <3>1. T(v)' = T(v) /\ T(v) \in Transfer /\ CallKnows(v)
      BY <1>0, <2>2 DEF EvidenceInv, T
    <3> QED
      BY <2>2, <2>3, <2>4, <3>1 DEF CallKnows, Phases
  <2> QED
    BY <2>5, <2>6
<1> QED
  BY <1>2, <1>3, <1>4, <1>5, <1>6, <1>7

\* EvidenceInv is inductive.
LEMMA EvidenceInduction ==
  /\ Init => EvidenceInv
  /\ EvidenceInv /\ [Next]_vars => EvidenceInv'
<1>1. Init => EvidenceInv
  <2> SUFFICES ASSUME Init PROVE EvidenceInv
    OBVIOUS
  <2>1. \A t \in Transfer : Evidence(t)
    BY DEF Init, Evidence, Phases, NoTransfer, Captured, Handed
  <2>2. \A w \in Worker : CallKnows(w)
    BY DEF Init, CallKnows
  <2> QED
    BY <2>1, <2>2, SafetyInduction DEF EvidenceInv
<1>2. EvidenceInv /\ [Next]_vars => EvidenceInv'
  <2> SUFFICES ASSUME EvidenceInv, [Next]_vars PROVE EvidenceInv'
    OBVIOUS
  <2>1. SafetyInv'
    BY SafetyInduction DEF EvidenceInv
  <2>2. CASE \E w \in Worker : Step(w)
    <3>1. PICK w \in Worker : Step(w)
      BY <2>2
    <3>2. (\A t \in Transfer : Evidence(t))'
      BY <3>1, StepEvidence
    <3>3. (\A v \in Worker : CallKnows(v))'
      BY <3>1, OwnKnows, OthersKnow
    <3> QED
      BY <2>1, <3>2, <3>3 DEF EvidenceInv
  <2>3. CASE ~\E w \in Worker : Step(w)
    <3>1. (\A t \in Transfer : Evidence(t))' /\ (\A v \in Worker : CallKnows(v))'
      BY <2>3, WorldKnows, TransferAssumption DEF Next, Worker
    <3> QED
      BY <2>1, <3>1 DEF EvidenceInv
  <2> QED
    BY <2>2, <2>3
<1> QED
  BY <1>1, <1>2

\* At every phase and after every failure the host finds the files of the recorded checkpoint
\* and a key that verifies its certificate, and claims live as long as their transfer, though
\* a call that lost its lease may still be staging or discarding files.
THEOREM EvidenceKept == Spec => []EvidenceFollowsTransfer
<1>1. EvidenceInv => EvidenceFollowsTransfer
  <2> SUFFICES ASSUME EvidenceInv PROVE EvidenceFollowsTransfer
    OBVIOUS
  <2>1. TypeOK /\ \A t \in Transfer : Evidence(t) /\ Authority(t) /\ Capture(t)
    BY DEF EvidenceInv, SafetyInv, TypeInv
  <2>2. FilesCurrent
    BY <2>1 DEF FilesCurrent, Evidence, Capture
  <2>3. ProofVerifiable
    <3> SUFFICES ASSUME NEW t \in Transfer
                 PROVE  /\ Cardinality(keys[t]) <= 1
                        /\ transfer[t].proof # NoKey => transfer[t].proof \in keys[t]
      BY DEF ProofVerifiable
    <3>1. Cardinality(keys[t]) \in {0, 1}
      <4>1. keys[t] = {} \/ \E k \in SourceKey : keys[t] = {k}
        BY <2>1 DEF Evidence
      <4> QED
        BY <4>1, FS_EmptySet, FS_Singleton
    <3> QED
      BY <2>1, <3>1 DEF Evidence
  <2>4. ClaimsFollowTransfer
    BY <2>1 DEF ClaimsFollowTransfer, Evidence, Authority, Handed
  <2> QED
    BY <2>1, <2>2, <2>3, <2>4 DEF EvidenceFollowsTransfer
<1> QED
  BY <1>1, EvidenceInduction, PTL DEF Spec

-----------------------------------------------------------------------------
(* Opening the Project again. *)

\* The invalidation was reported by the host: for as long as the source is read-only, a
\* transfer that is past it has an invalidated target; a call that confirms it was made with
\* the host's proof.
Reported(t) ==
  Phases(t) \in {"target-invalidated", "target-cleaned"} /\ service = "read-only-transition" =>
    host[t] = "invalidated"

Reports(w) ==
  /\ pc[w] = "invalidate" => job[w].call = "invalidate"
  /\ job[w].call = "invalidate" => host[T(w)] = "invalidated"

ReopenInv ==
  /\ SafetyInv
  /\ \A t \in Transfer : Reported(t)
  /\ \A w \in Worker : Reports(w)

\* A worker never changes the host.
LEMMA StepHost == ASSUME NEW w \in Worker, Step(w) PROVE host' = host
<1>1. (\/ Preflight(w) \/ Reread(w) \/ EnterLane(w) \/ Refused(w) \/ Begin(w) \/ AcceptTarget(w)
       \/ Quiesce(w) \/ Snapshot(w) \/ MakeDirectory(w) \/ MarkOwner(w) \/ StageFiles(w)
       \/ RecordCapture(w) \/ StageClaims(w) \/ RetainClaims(w) \/ PinKey(w)) => host' = host
  BY DEF Preflight, Reread, EnterLane, Refused, Begin, AcceptTarget, Quiesce, Snapshot,
         MakeDirectory, MarkOwner, StageFiles, RecordCapture, StageClaims, RetainClaims, PinKey
<1>2. Relinquish(w) => host' = host
  BY DEF Relinquish
<1>4. (\/ ReceiptVerifier(w) \/ Activate(w) \/ DiscardDelivered(w) \/ Renew(w) \/ RenewClaims(w)
       \/ Complete(w) \/ AcknowledgeRedemption(w) \/ StartCancellation(w)
       \/ SettleUnaccepted(w) \/ ConfirmInvalidated(w)) => host' = host
  BY DEF ReceiptVerifier, Activate, DiscardDelivered, Renew, RenewClaims, Complete,
         AcknowledgeRedemption, StartCancellation, SettleUnaccepted, ConfirmInvalidated
<1>3. (\/ DiscardCancelled(w) \/ DropClaims(w) \/ DropKey(w) \/ Clean(w) \/ Reopen(w)
       \/ FinishCancellation(w) \/ SettleMain(w) \/ MarkMain(w) \/ CompleteAccept(w)) =>
        host' = host
  BY DEF DiscardCancelled, DropClaims, DropKey, Clean, Reopen, FinishCancellation, SettleMain,
         MarkMain, CompleteAccept
<1> QED
  BY <1>1, <1>2, <1>3, <1>4 DEF Step

\* A host that invalidated the target never serves the transfer again.
LEMMA StaysInvalidated ==
  ASSUME TypeOK, [Next]_vars, NEW t \in Transfer, host[t] = "invalidated"
  PROVE  host'[t] = "invalidated"
<1>0. host \in [Transfer -> {"idle", "accepted", "staged", "active", "invalidated"}]
  BY DEF TypeOK
<1>1. CASE \E w \in Worker : Step(w)
  BY <1>1, StepHost
<1>2. ASSUME NEW w, NEW u, Call(w, u) \/ CallRecover(w, u) \/ CallRecoverAccept(w)
      PROVE  host' = host \/ (CallAcceptTarget(w, u) /\ host[u] # "invalidated")
  BY <1>2 DEF Call, CallBegin, CallAcceptTarget, CallTargetStaged, CallTargetActive,
     CallTargetInvalidated, CallReceiptVerifier, CallRedemption, CallCancel, CallRecover,
     CallRecoverAccept
<1>3. ASSUME NEW w, NEW u, CallAcceptTarget(w, u) PROVE host'[t] = "invalidated"
  BY <1>0, <1>3 DEF CallAcceptTarget
<1>4. ASSUME NEW u, HostStages(u) \/ HostActivates(u) \/ HostInvalidates(u)
      PROVE  host'[t] = "invalidated"
  BY <1>0, <1>4 DEF HostStages, HostActivates, HostInvalidates
<1>5. ASSUME NEW w, NEW u, \/ Expire(u) \/ AcceptInterrupted \/ LoseLease(w) \/ Fail(w)
                          \/ CutRemoval(w) \/ Crash \/ UNCHANGED vars
      PROVE  host' = host
  BY <1>5 DEF Expire, AcceptInterrupted, LoseLease, Fail, CutRemoval, Crash, vars
<1> QED
  BY <1>1, <1>2, <1>3, <1>4, <1>5 DEF Next

\* Only a call that reports an invalidation enters the lane to confirm one.
LEMMA StepReports ==
  ASSUME ReopenInv, NEW w \in Worker, Step(w), NEW v \in Worker
  PROVE  Reports(v)'
<1>0. /\ TypeInv /\ Reports(v) /\ pc \in [Worker -> Label] /\ job \in [Worker -> JobRecord]
      /\ host' = host /\ job[w] \in JobRecord
  BY StepHost DEF ReopenInv, SafetyInv, TypeInv, TypeOK
<1>1. CASE Return(w)
  <2>1. /\ pc' = [pc EXCEPT ![w] = "idle"] /\ job' = [job EXCEPT ![w] = NoJob]
        /\ NoJob.call = "none"
    BY <1>1 DEF Return, NoJob
  <2> QED
    BY <1>0, <2>1 DEF Reports, T
<1>2. CASE \E s \in Label \ {"invalidate"} : Goto(w, s)
  BY <1>0, <1>2 DEF Goto, Reports, T
<1>3. CASE Preflight(w) \/ Reread(w) \/ Snapshot(w)
  <2>1. CASE Return(w)
    BY <1>1, <2>1
  <2>2. CASE ~Return(w)
    <3>1. /\ pc' = [pc EXCEPT ![w] = pc'[w]] /\ pc'[w] \in {"lane", "files"}
          /\ \E j : job' = [job EXCEPT ![w] = j]
          /\ job'[w].call = job[w].call /\ job'[w].transfer = job[w].transfer
      BY <1>0, <1>3, <2>2 DEF Preflight, Reread, Snapshot, JobRecord
    <3> QED
      BY <1>0, <3>1 DEF Reports, T
  <2> QED
    BY <2>1, <2>2
<1>4. CASE EnterLane(w)
  <2>1. CASE Return(w)
    BY <1>1, <2>1
  <2>2. CASE ~Return(w)
    <3>1. pc[w] = "lane" /\ pc' = [pc EXCEPT ![w] = FirstStep(w)] /\ job' = job
      BY <1>4, <2>2 DEF EnterLane
    <3>2. job[w].call \in {"begin", "accept", "stage", "activate", "invalidate", "verifier",
                           "redeem", "cancel", "recover", "recover-accept"}
      BY <1>0, <3>1 DEF TypeInv, Called, JobRecord
    <3>3. SettleStep(T(w)) # "invalidate"
      BY DEF SettleStep
    <3>4. RecoverStep(T(w)) # "invalidate"
      BY <3>3 DEF RecoverStep
    <3>5. FirstStep(w) = "invalidate" => job[w].call = "invalidate"
      BY <3>2, <3>3, <3>4 DEF FirstStep
    <3> QED
      BY <1>0, <3>1, <3>5 DEF Reports, T
  <2> QED
    BY <2>1, <2>2
<1>5. ~Goto(w, "invalidate") \/ Return(w) \/ Preflight(w) \/ Reread(w) \/ Snapshot(w) \/ EnterLane(w)
  <2> SUFFICES ASSUME Goto(w, "invalidate"), ~Return(w), ~EnterLane(w), ~Preflight(w), ~Reread(w),
                      ~Snapshot(w)
               PROVE  FALSE
    OBVIOUS
  <2>0. ~Return(w)
    OBVIOUS
  <2>1. \A s : Goto(w, s) => s = "invalidate"
    BY <1>0 DEF Goto
  <2>2. ~Refused(w) /\ ~Begin(w) /\ ~RecordCapture(w) /\ ~Relinquish(w) /\ ~ReceiptVerifier(w)
        /\ ~Complete(w) /\ ~AcknowledgeRedemption(w) /\ ~FinishCancellation(w) /\ ~CompleteAccept(w)
    BY <2>0, Returns
  <2>5. ~MakeDirectory(w) /\ ~MarkOwner(w)
    BY <2>1 DEF MakeDirectory, MarkOwner
  <2>3. ~AcceptTarget(w) /\ ~Quiesce(w) /\ ~StageFiles(w) /\ ~StageClaims(w) /\ ~RetainClaims(w)
        /\ ~PinKey(w) /\ ~Activate(w) /\ ~DiscardDelivered(w) /\ ~Renew(w) /\ ~RenewClaims(w)
    BY <2>1 DEF AcceptTarget, Quiesce, StageFiles, StageClaims, RetainClaims, PinKey, Activate,
           DiscardDelivered, Renew, RenewClaims
  <2>4. ~SettleUnaccepted(w) /\ ~ConfirmInvalidated(w) /\ ~DiscardCancelled(w) /\ ~DropClaims(w)
        /\ ~DropKey(w) /\ ~Clean(w) /\ ~Reopen(w) /\ ~SettleMain(w) /\ ~MarkMain(w)
        /\ ~StartCancellation(w)
    BY <2>0, <2>1 DEF SettleUnaccepted, ConfirmInvalidated, DiscardCancelled, DropClaims, DropKey, Clean,
           Reopen, SettleMain, MarkMain, StartCancellation
  <2> QED
    BY <2>0, <2>2, <2>3, <2>4, <2>5 DEF Step
<1> QED
  BY <1>1, <1>2, <1>3, <1>4, <1>5, StepGoes

\* A call is made with the host's word; anything else leaves calls as they are or ends them.
LEMMA OtherReports ==
  ASSUME ReopenInv, [Next]_vars, ~\E w \in Worker : Step(w), NEW v \in Worker
  PROVE  Reports(v)'
<1>0. /\ TypeOK /\ Reports(v) /\ pc \in [Worker -> Label] /\ job \in [Worker -> JobRecord]
      /\ T(v) \in Transfer
  BY WorkerTypes DEF ReopenInv, SafetyInv, TypeInv, TypeOK
<1>1. ASSUME pc'[v] = pc[v], job'[v] = job[v] PROVE Reports(v)'
  BY <1>0, <1>1, StaysInvalidated DEF Reports, T
<1>2. ASSUME pc'[v] = "idle", job'[v] = NoJob PROVE Reports(v)'
  BY <1>2 DEF Reports, NoJob
<1>3. ASSUME NEW w \in Worker, NEW t \in Transfer,
             Call(w, t) \/ CallRecover(w, t) \/ CallRecoverAccept(w)
      PROVE  Reports(v)'
  <2>1. PICK c, p, r, s, u : /\ Start(w, c, u, p, r, s) /\ s \in {"preflight", "lane"}
                             /\ c = "invalidate" => u = t /\ CallTargetInvalidated(w, t)
    BY <1>3 DEF Call, CallBegin, CallAcceptTarget, CallTargetStaged, CallTargetActive,
       CallTargetInvalidated, CallReceiptVerifier, CallRedemption, CallCancel, CallRecover,
       CallRecoverAccept
  <2>2. CASE v # w
    BY <1>0, <1>1, <2>1, <2>2 DEF Start
  <2>3. CASE v = w
    <3>1. pc'[v] = s /\ job'[v].call = c /\ job'[v].transfer = u
      BY <1>0, <2>1, <2>3 DEF Start, NoJob
    <3>2. c = "invalidate" => host'[t] = "invalidated"
      BY <2>1 DEF CallTargetInvalidated
    <3> QED
      BY <2>1, <3>1, <3>2 DEF Reports, T
  <2> QED
    BY <2>2, <2>3
<1>4. ASSUME NEW t, HostStages(t) \/ HostActivates(t) \/ HostInvalidates(t) \/ Expire(t)
                      \/ AcceptInterrupted \/ UNCHANGED vars
      PROVE  Reports(v)'
  <2>1. UNCHANGED <<pc, job>>
    BY <1>4 DEF HostStages, HostActivates, HostInvalidates, Expire, AcceptInterrupted, vars,
       procVars
  <2> QED
    BY <1>1, <2>1
<1>5. ASSUME NEW w \in Worker, LoseLease(w) \/ Fail(w) \/ CutRemoval(w) \/ Crash
      PROVE  Reports(v)'
  <2>1. CASE LoseLease(w)
    BY <1>1, <2>1 DEF LoseLease
  <2>2. CASE Fail(w)
    BY <1>0, <1>1, <1>2, <2>2 DEF Fail, Return
  <2>3. CASE Crash
    BY <1>2, <2>3 DEF Crash
  <2>4. CASE CutRemoval(w)
    BY <1>0, <1>1, <1>2, <2>4 DEF CutRemoval, Return
  <2> QED
    BY <1>5, <2>1, <2>2, <2>3, <2>4
<1>6. Reconciler \in Worker /\ Client \subseteq Worker /\ \E t : t \in Transfer
  BY TransferAssumption DEF Worker
<1> QED
  BY <1>3, <1>4, <1>5, <1>6 DEF Next

\* A step keeps the invalidation reported: it is entered from an active source or with the
\* host's proof, and no other transfer makes the source read-only meanwhile.
LEMMA StepReported ==
  ASSUME ReopenInv, NEW w \in Worker, Step(w), NEW t \in Transfer
  PROVE  Reported(t)'
<1>0. /\ SafetyInv /\ TypeInv /\ T(w) \in Transfer /\ Phases(t) \in Phase /\ Reported(t)
      /\ Reports(w) /\ host' = host
  BY WorkerTypes, RowFields, StepHost DEF ReopenInv, SafetyInv, TypeInv, TypeOK, Phases
<1>1. CASE service' = service /\ transfer'[t].phase = transfer[t].phase
  BY <1>0, <1>1 DEF Reported, Phases
<1>2. CASE service' # "read-only-transition" \/ host[t] = "invalidated"
           \/ transfer'[t].phase \notin {"target-invalidated", "target-cleaned"}
  BY <1>0, <1>2 DEF Reported, Phases
<1>3. CASE Quiet \/ AcknowledgeRedemption(w) \/ DropClaims(w) \/ CompleteAccept(w)
  <2>1. UNCHANGED <<service, transfer>>
    BY <1>3 DEF Quiet, AcknowledgeRedemption, DropClaims, CompleteAccept
  <2> QED
    BY <1>1, <2>1
<1>4. CASE \/ Begin(w) \/ AcceptTarget(w) \/ RecordCapture(w) \/ StageClaims(w) \/ RetainClaims(w)
           \/ Activate(w) \/ Renew(w) \/ Complete(w) \/ StartCancellation(w)
           \/ FinishCancellation(w)
  <2>1. service' = service
    BY <1>4 DEF Begin, AcceptTarget, RecordCapture, StageClaims, RetainClaims, Activate, Renew,
       Complete, StartCancellation, FinishCancellation
  <2>2. \/ Edge(w, {Phases(T(w))}, {Phases(T(w))})
        \/ Edge(w, Phase, Phase \ {"target-invalidated", "target-cleaned"})
    BY <1>0, <1>4, Edges DEF Edge, Phase, Forward, Handed, Backward
  <2> QED
    BY <1>1, <1>2, <2>1, <2>2 DEF Edge, Phases
<1>5. CASE Relinquish(w) \/ Reopen(w)
  BY <1>2, <1>5 DEF Relinquish, Reopen
<1>6. CASE Quiesce(w)
  <2>1. Edge(w, {"collecting-readiness"}, {"cloud-quiesced"})
    BY <1>0, <1>6, Edges
  <2>2. t # T(w) => Phases(t) \notin {"target-invalidated", "target-cleaned"}
    BY <1>0, <2>1 DEF SafetyInv, OneLive, Nonterminal, Edge, Terminal
  <2> QED
    BY <1>2, <2>1, <2>2 DEF Edge, Phases
<1>7. CASE SettleUnaccepted(w)
  <2>1. service' = "active"
    BY <1>7 DEF SettleUnaccepted, Tx, Admits, Unaccepted
  <2> QED
    BY <1>2, <2>1
<1>8. CASE ConfirmInvalidated(w)
  <2>1. host[T(w)] = "invalidated"
    BY <1>0, <1>8 DEF ConfirmInvalidated, Tx, Reports
  <2>2. service' = service /\ Edge(w, {"cancel-intent"}, {"target-invalidated"})
    BY <1>0, <1>8, Edges DEF ConfirmInvalidated
  <2> QED
    BY <1>1, <1>2, <2>1, <2>2 DEF Edge
<1>9. CASE Clean(w)
  <2>1. service' = service /\ Edge(w, {"target-invalidated"}, {"target-cleaned"})
    BY <1>0, <1>9, Edges DEF Clean
  <2> QED
    BY <1>0, <1>1, <2>1 DEF Edge, Reported, Phases
<1> QED
  BY <1>3, <1>4, <1>5, <1>6, <1>7, <1>8, <1>9, StepKinds

\* Nothing but a worker moves a phase or the service state.
LEMMA OnlyStepsMove ==
  ASSUME TypeOK, [Next]_vars, ~\E w \in Worker : Step(w)
  PROVE  service' = service /\ \A t \in Transfer : transfer'[t].phase = transfer[t].phase
<1>1. ASSUME NEW w, NEW u, Call(w, u) \/ CallRecover(w, u) \/ CallRecoverAccept(w)
      PROVE  UNCHANGED <<service, transfer>>
  BY <1>1 DEF Call, CallBegin, CallAcceptTarget, CallTargetStaged, CallTargetActive,
     CallTargetInvalidated, CallReceiptVerifier, CallRedemption, CallCancel, CallRecover,
     CallRecoverAccept, Start, dbVars
<1>2. ASSUME NEW w, NEW u,
             \/ HostStages(u) \/ HostActivates(u) \/ HostInvalidates(u) \/ AcceptInterrupted
             \/ LoseLease(w) \/ Fail(w) \/ CutRemoval(w) \/ Crash \/ UNCHANGED vars
      PROVE  UNCHANGED <<service, transfer>>
  BY <1>2 DEF HostStages, HostActivates, HostInvalidates, AcceptInterrupted, LoseLease, Fail,
     CutRemoval, Crash, dbVars, vars
<1>3. ASSUME NEW u \in Transfer, Expire(u)
      PROVE  service' = service /\ \A t \in Transfer : transfer'[t].phase = transfer[t].phase
  BY <1>3 DEF Expire, Write, TypeOK, TransferRecord
<1> QED
  BY <1>1, <1>2, <1>3 DEF Next

\* ReopenInv is inductive.
LEMMA ReopenInduction ==
  /\ Init => ReopenInv
  /\ ReopenInv /\ [Next]_vars => ReopenInv'
<1>1. Init => ReopenInv
  <2> SUFFICES ASSUME Init PROVE ReopenInv
    OBVIOUS
  <2>1. \A t \in Transfer : Reported(t)
    BY DEF Init, Reported, Phases, NoTransfer
  <2>2. \A w \in Worker : Reports(w)
    BY DEF Init, Reports, NoJob
  <2> QED
    BY <2>1, <2>2, SafetyInduction DEF ReopenInv
<1>2. ReopenInv /\ [Next]_vars => ReopenInv'
  <2> SUFFICES ASSUME ReopenInv, [Next]_vars PROVE ReopenInv'
    OBVIOUS
  <2>1. SafetyInv' /\ TypeOK
    BY SafetyInduction DEF ReopenInv, SafetyInv, TypeInv
  <2>2. CASE \E w \in Worker : Step(w)
    BY <2>1, <2>2, StepReported, StepReports DEF ReopenInv
  <2>3. CASE ~\E w \in Worker : Step(w)
    <3>1. \A t \in Transfer : Reported(t)'
      BY <2>1, <2>3, OnlyStepsMove, StaysInvalidated DEF ReopenInv, Reported, Phases
    <3> QED
      BY <2>1, <2>3, <3>1, OtherReports DEF ReopenInv
  <2> QED
    BY <2>2, <2>3
<1> QED
  BY <1>1, <1>2

\* The action of ReopenAfterCleanup.
Reopened ==
  service = "read-only-transition" /\ service' = "active" =>
    \E t \in Transfer : transfer[t].phase = "target-cleaned" /\ host[t] = "invalidated"

\* Only the reopening of a cleaned transfer makes a read-only source active.
LEMMA NextReopened == ReopenInv /\ [Next]_vars => Reopened
<1> SUFFICES ASSUME ReopenInv, [Next]_vars, service = "read-only-transition", service' = "active"
             PROVE  \E t \in Transfer : transfer[t].phase = "target-cleaned" /\ host[t] = "invalidated"
  BY DEF Reopened
<1>0. TypeInv /\ TypeOK
  BY DEF ReopenInv, SafetyInv, TypeInv
<1>1. PICK w \in Worker : Step(w)
  BY <1>0, OnlyStepsMove
<1>2. ~Quiet /\ ~Quiesce(w) /\ ~Relinquish(w)
  BY DEF Quiet, Quiesce, Relinquish
<1>3. (\/ Begin(w) \/ AcceptTarget(w) \/ RecordCapture(w) \/ StageClaims(w) \/ RetainClaims(w)
       \/ Activate(w) \/ Renew(w) \/ Complete(w) \/ StartCancellation(w) \/ FinishCancellation(w)
       \/ SettleUnaccepted(w) \/ ConfirmInvalidated(w) \/ Clean(w) \/ AcknowledgeRedemption(w)
       \/ DropClaims(w) \/ CompleteAccept(w)) => service' = service
  BY DEF Begin, AcceptTarget, RecordCapture, StageClaims, RetainClaims, Activate, Renew, Complete,
     StartCancellation, FinishCancellation, SettleUnaccepted, ConfirmInvalidated, Clean,
     AcknowledgeRedemption, DropClaims, CompleteAccept
<1>4. Reopen(w)
  BY <1>1, <1>2, <1>3, StepKinds
<1>5. T(w) \in Transfer /\ Phases(T(w)) = "target-cleaned"
  BY <1>0, <1>4, WorkerTypes, Guards DEF Reopen
<1> QED
  BY <1>5 DEF ReopenInv, Reported, Phases

\* The Cloud takes writes again only after the transfer that quiesced it has the host's proof
\* that the target was invalidated: an expiry, a repeated call or a recovery is not enough.
THEOREM ReopenedByProof == Spec => ReopenAfterCleanup
<1>1. ReopenInv /\ [Next]_vars => [Reopened]_vars
  BY NextReopened
<1>2. Spec => [][Reopened]_vars
  BY <1>1, ReopenInduction, PTL DEF Spec
<1> QED
  BY <1>2 DEF ReopenAfterCleanup, Reopened

\* What the Cloud gave away it does not take back: before the relinquishment it needs the
\* host's proof, and after it nothing leads back.
THEOREM GivenAway == Spec => ForwardOnly
BY NoWayBack, ReopenedByProof DEF ForwardOnly

=============================================================================

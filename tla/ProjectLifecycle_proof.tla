----------------------- MODULE ProjectLifecycle_proof -----------------------
(***************************************************************************)
(* Theorems about the beginning and the end of a Project, for every set of *)
(* principals and recovery workers, every lane, any number of plans for    *)
(* the same Project ID and any number of crashes and failed steps.         *)
(***************************************************************************)
EXTENDS ProjectLifecycle, FiniteSetTheorems, TLAPS

-----------------------------------------------------------------------------
(* The inductive invariant. *)

Phase == DeletionPhase \cup TransferPhase \cup {"none"}
Label == {"idle", "lane", "lease", "plan", "advance", "writing", "replay", "commit", "reread",
          "work", "drain"}
CallRecord == [op : {"none", "create", "retire", "recover", "resume"}, step : Label,
               kind : Kinds, seen : Phase, rounds : Nat]

\* What a call does under the Project lease.
Leased == {"plan", "advance", "writing", "replay", "commit", "reread", "work"}

\* Before the Project serves; while its deletion has its content to remove.
Unpublished == {"prepared", "repository-publication-intent", "repository-published"}
ContentLeft == {"traffic-denied", "repository-delete-intent", "repository-removed"}

\* The types of rows, disk and bounds.
RowTypes ==
  /\ project \in {"none", "maintenance", "active", "deleting"}
  /\ plan \in [number : 0..MaxPlans, by : Principals \cup {Nobody},
               phase : CreationPhase \cup {"none"}]
  /\ placement \in {"none", "inactive", "active"} /\ bindings \subseteq Principals
  /\ journal \in [Kinds -> Phase]
  /\ journal.transfer \in TransferPhase \cup {"none"}
  /\ journal.delete \in DeletionPhase \cup {"none"}
  /\ terminal \in [kind : {"none", "retire", "transfer"}, by : Principals \cup {Nobody},
                   unacked : SUBSET Principals, acked : SUBSET Principals, kept : BOOLEAN]
  /\ terminal.unacked \cap terminal.acked = {}
  /\ candidates \subseteq Kinds \cup {"create"}
  /\ repository \in [number : 0..MaxPlans, stage : Stages, torn : BOOLEAN]
  /\ cleanup \in BOOLEAN
  /\ late \in BOOLEAN /\ planned \in 0..MaxPlans /\ faults \in 0..MaxFaults

\* The plan says how far the Project is, and whose it is.
PlanInv ==
  /\ plan.phase = "none" <=> project = "none"
  /\ plan.phase # "none" => plan.by \in Principals
  /\ plan.phase \in Unpublished <=> project = "maintenance"

\* A Project that serves is whole.
ServedInv ==
  project = "active" => placement = "active" /\ Verified /\ ~cleanup

\* A relinquished Project is closed and has no terminal result yet; the content of a Project
\* whose deletion has begun belongs to it.
DeletionInv ==
  /\ ~Terminated(journal.transfer) => project = "deleting" /\ terminal.kind = "none"
  /\ ~Terminated(journal.delete) => "delete" \in candidates /\ terminal.kind # "none"
  /\ terminal.kind # "none" /\ ~late => terminal.kept
  /\ journal.delete \in ContentLeft =>
       project = "deleting" /\ terminal.unacked \cup terminal.acked = bindings
  /\ cleanup => journal.delete = "repository-delete-intent"

RowInv == RowTypes /\ PlanInv /\ ServedInv /\ DeletionInv

LockInv ==
  /\ lease \in Actors \cup {Nobody}
  /\ lane \subseteq Actors /\ IsFiniteSet(lane) /\ Cardinality(lane) <= LaneLimit

\* A half-written file is being completed by the one call that holds the lease.
WriterInv(a) ==
  At(a, "writing") =>
    /\ plan.phase = "repository-publication-intent"
    /\ repository.number = plan.number
    /\ repository.stage \in {"none", "placed", "initialised", "main", "refs"}

\* A recovery holds the reservation that the journal it read asks for; its owner works on
\* the journal as it is.
RecoveryInv(a) ==
  LET c == call[a]
  IN  /\ c.op = "resume" => c.kind = "delete"
      /\ c.op = "none" => c.step \in {"idle", "drain"}
      /\ c.step \in {"lease", "reread"} /\ c.op = "recover" /\ NeedsLane(c.kind, c.seen) =>
           a \in lane
      /\ c.step = "reread" => c.op = "recover"
      /\ c.step = "work" =>
           /\ journal[c.kind] = c.seen
           /\ c.kind = "transfer" /\ c.seen = "lan-activated" => a \in lane

ActorInv(a) ==
  /\ call[a] \in CallRecord
  /\ call[a].step \in Leased => lease = a
  /\ WriterInv(a)
  /\ RecoveryInv(a)

CallInv ==
  /\ call \in [Actors -> CallRecord]
  /\ \A a \in Actors : ActorInv(a)
  /\ contradicted = FALSE

IInv == RowInv /\ LockInv /\ CallInv

-----------------------------------------------------------------------------
(* What the parts of an action do. *)

\* Rows and disk as they were.
LEMMA RowsKept ==
  ASSUME RowInv, UNCHANGED <<rows, disk, late, planned>>, faults' \in 0..MaxFaults
  PROVE  RowInv'
BY DEF RowInv, RowTypes, PlanInv, ServedInv, DeletionInv, Verified, rows, projectRows,
       lifecycleRows, disk

\* An actor that holds no lease cannot be surprised: whoever changes plan, repository or
\* journal holds it, or finds it free.
LEMMA OthersLemma ==
  ASSUME IInv, NEW a,
         \A b \in Actors \ {a} : call'[b] = call[b] /\ (b \in lane => b \in lane'),
         lease \in {a, Nobody} \/ UNCHANGED <<plan, repository, journal, lease>>
  PROVE  \A b \in Actors \ {a} : ActorInv(b)'
<1> SUFFICES ASSUME NEW b \in Actors \ {a} PROVE ActorInv(b)'
  OBVIOUS
<1>1. ActorInv(b) /\ b # Nobody /\ call'[b] = call[b] /\ (b \in lane => b \in lane')
  BY LifecycleAssumption DEF IInv, CallInv, Actors
<1>2. CASE UNCHANGED <<plan, repository, journal, lease>>
  BY <1>1, <1>2 DEF ActorInv, WriterInv, RecoveryInv, At
<1>3. CASE lease \in {a, Nobody}
  <2>1. call[b].step \notin Leased
    BY <1>1, <1>3 DEF ActorInv
  <2>2. WriterInv(b)'
    BY <1>1, <2>1 DEF WriterInv, At, Leased
  <2>3. RecoveryInv(b)'
    BY <1>1, <2>1 DEF ActorInv, RecoveryInv, Leased
  <2> QED
    BY <1>1, <2>1, <2>2, <2>3 DEF ActorInv
<1> QED
  BY <1>2, <1>3

\* One actor's call changes.
LEMMA CallLemma ==
  ASSUME IInv, NEW a \in Actors, NEW r \in CallRecord, call' = [call EXCEPT ![a] = r],
         \A b \in Actors \ {a} : b \in lane => b \in lane',
         lease \in {a, Nobody} \/ UNCHANGED <<plan, repository, journal, lease>>,
         ActorInv(a)', contradicted' = contradicted
  PROVE  CallInv'
<1>1. call' \in [Actors -> CallRecord] /\ \A b \in Actors \ {a} : call'[b] = call[b]
  BY DEF IInv, CallInv
<1>2. \A b \in Actors \ {a} : ActorInv(b)'
  BY <1>1, OthersLemma
<1> QED
  BY <1>1, <1>2 DEF IInv, CallInv

\* No actor's call changes.
LEMMA RowLemma ==
  ASSUME IInv, NEW a, UNCHANGED <<locks, call, contradicted>>, lease \in {a, Nobody},
         a \in Actors => ActorInv(a)'
  PROVE  CallInv' /\ LockInv'
<1>1. \A b \in Actors \ {a} : ActorInv(b)'
  BY OthersLemma DEF locks
<1> QED
  BY <1>1 DEF IInv, CallInv, LockInv, locks

\* No call.
LEMMA IdleCall ==
  Idle \in CallRecord /\ Idle.op = "none" /\ Idle.step = "idle" /\ Idle.kind = "delete"
BY DEF Idle, CallRecord, Label, Phase, Kinds

\* A call goes to another step,
LEMMA Stepped ==
  ASSUME NEW c \in CallRecord, NEW s \in Label
  PROVE  LET r == [c EXCEPT !.step = s]
         IN  /\ r \in CallRecord /\ r.step = s
             /\ r.op = c.op /\ r.kind = c.kind /\ r.seen = c.seen
BY DEF CallRecord

\* having seen another phase.
LEMMA SteppedSeen ==
  ASSUME NEW c \in CallRecord, NEW s \in Label, NEW p \in Phase
  PROVE  LET r == [c EXCEPT !.step = s, !.seen = p]
         IN  /\ r \in CallRecord /\ r.step = s /\ r.seen = p
             /\ r.op = c.op /\ r.kind = c.kind
BY DEF CallRecord

\* and the phase that the owner last wrote.
LEMMA Saw ==
  ASSUME NEW c \in CallRecord, NEW p \in Phase
  PROVE  LET r == [c EXCEPT !.seen = p]
         IN  /\ r \in CallRecord /\ r.seen = p
             /\ r.op = c.op /\ r.step = c.step /\ r.kind = c.kind
BY DEF CallRecord

\* Giving the locks back.
LEMMA GiveUpLocks ==
  ASSUME LockInv, NEW a, GiveUp(a)
  PROVE  /\ LockInv' /\ lease' \in {lease, Nobody} /\ (lease' # lease => lease = a)
         /\ \A b : b # a /\ b \in lane => b \in lane'
<1>1. IsFiniteSet(lane') /\ Cardinality(lane') <= Cardinality(lane)
  BY FS_RemoveElement, FS_CardinalityType DEF LockInv, GiveUp
<1>2. Cardinality(lane) \in Nat /\ Cardinality(lane') \in Nat
  BY <1>1, FS_CardinalityType DEF LockInv
<1> QED
  BY <1>1, <1>2, LifecycleAssumption DEF LockInv, GiveUp

\* A call ends.
LEMMA EndLemma ==
  ASSUME IInv, NEW a \in Actors, NEW why, End(a, why), why # "conflict",
         UNCHANGED <<plan, repository, journal>> \/ lease = a
  PROVE  CallInv' /\ LockInv'
<1>1. /\ LockInv' /\ lease' \in {lease, Nobody} /\ (lease' # lease => lease = a)
      /\ \A b : b # a /\ b \in lane => b \in lane'
  BY GiveUpLocks DEF IInv, End
<1>2. call' = [call EXCEPT ![a] = Idle] /\ call'[a] = Idle /\ contradicted' = contradicted
  BY DEF End, IInv, CallInv
<1>3. ActorInv(a)'
  BY <1>2, IdleCall DEF ActorInv, WriterInv, RecoveryInv, At, Leased
<1>4. lease \in {a, Nobody} \/ UNCHANGED <<plan, repository, journal, lease>>
  BY <1>1
<1> QED
  BY <1>1, <1>2, <1>3, <1>4, IdleCall, CallLemma

\* The same, with rows and disk as they were.
LEMMA EndQuiet ==
  ASSUME IInv, NEW a \in Actors, NEW why, End(a, why), why # "conflict",
         UNCHANGED <<rows, disk, bounds>>
  PROVE  IInv'
<1>1. RowInv'
  BY RowsKept DEF IInv, RowInv, RowTypes, bounds
<1>2. CallInv' /\ LockInv'
  BY EndLemma DEF rows, projectRows, lifecycleRows, disk
<1> QED
  BY <1>1, <1>2 DEF IInv

\* A call goes on, with rows, disk and locks as they were.
LEMMA GoQuiet ==
  ASSUME IInv, NEW a \in Actors, NEW r \in CallRecord, call' = [call EXCEPT ![a] = r],
         UNCHANGED <<rows, disk, locks, contradicted, bounds>>,
         r.step \in Leased => call[a].step \in Leased,
         r.step # "writing",
         r.op = "resume" => r.kind = "delete",
         r.op = "none" => r.step \in {"idle", "drain"},
         r.step \in {"lease", "reread"} /\ r.op = "recover" => ~NeedsLane(r.kind, r.seen),
         r.step # "reread",
         r.step = "work" => /\ journal[r.kind] = r.seen
                            /\ r.kind = "transfer" /\ r.seen = "lan-activated" => a \in lane
  PROVE  IInv'
<1>1. RowInv'
  BY RowsKept DEF IInv, RowInv, RowTypes, bounds
<1>2. LockInv'
  BY DEF IInv, LockInv, locks
<1>3. call'[a] = r
  BY DEF IInv, CallInv
<1>4. ActorInv(a)
  BY DEF IInv, CallInv
<1>5. ActorInv(a)'
  <2>1. WriterInv(a)'
    BY <1>3 DEF WriterInv, At
  <2>2. RecoveryInv(a)'
    BY <1>3 DEF RecoveryInv, rows, lifecycleRows, locks
  <2> QED
    BY <1>3, <1>4, <2>1, <2>2 DEF ActorInv, locks
<1>6. CallInv'
  BY <1>3, <1>5, CallLemma DEF rows, projectRows, lifecycleRows, disk, locks
<1> QED
  BY <1>1, <1>2, <1>6 DEF IInv

-----------------------------------------------------------------------------
(* Calls, the lane and the lease. *)

LEMMA BeginStep ==
  ASSUME IInv, NEW a \in Actors, NEW op \in {"create", "retire", "recover", "resume"},
         NEW step \in {"lane", "drain"}, Begin(a, op, step, "delete")
  PROVE  IInv'
<1> DEFINE r == [Idle EXCEPT !.op = op, !.step = step, !.kind = "delete"]
<1>1. r \in CallRecord /\ r.op = op /\ r.step = step /\ r.kind = "delete"
  BY DEF Idle, CallRecord, Label, Phase, Kinds
<1>2. call' = [call EXCEPT ![a] = r]
  BY DEF Begin
<1> HIDE DEF r
<1> QED
  BY <1>1, <1>2, GoQuiet DEF Begin, Leased

LEMMA EnterLaneStep ==
  ASSUME IInv, NEW a \in Actors, EnterLane(a)
  PROVE  IInv'
<1> DEFINE r == [call[a] EXCEPT !.step = "lease"]
<1>1. call[a] \in CallRecord /\ call[a].step = "lane" /\ ActorInv(a)
  BY DEF IInv, CallInv, EnterLane, At
<1>2. /\ r \in CallRecord /\ r.step = "lease" /\ r.op = call[a].op /\ r.kind = call[a].kind
      /\ r.seen = call[a].seen
  BY <1>1, Stepped DEF Label
<1>3. call' = [call EXCEPT ![a] = r] /\ call'[a] = r
  BY <1>1 DEF EnterLane, Goto, IInv, CallInv
<1> HIDE DEF r
<1>4. RowInv'
  BY RowsKept DEF IInv, RowInv, RowTypes, EnterLane, bounds
<1>5. LockInv'
  <2>1. IsFiniteSet(lane') /\ Cardinality(lane') <= Cardinality(lane) + 1
    <3>1. IsFiniteSet(lane) /\ lane' = lane \cup {a}
      BY DEF IInv, LockInv, EnterLane
    <3> QED
      BY <3>1, FS_AddElement, FS_CardinalityType
  <2>2. Cardinality(lane) \in Nat /\ Cardinality(lane') \in Nat
    BY <2>1, FS_CardinalityType DEF IInv, LockInv
  <2> QED
    BY <2>1, <2>2, LifecycleAssumption DEF IInv, LockInv, EnterLane, LaneFree
<1>6. ActorInv(a)'
  BY <1>1, <1>2, <1>3
     DEF ActorInv, WriterInv, RecoveryInv, At, Leased, EnterLane, rows, lifecycleRows
<1>7. CallInv'
  BY <1>2, <1>3, <1>6, CallLemma DEF EnterLane, rows, projectRows, lifecycleRows, disk
<1> QED
  BY <1>4, <1>5, <1>7 DEF IInv

LEMMA EnterLeaseStep ==
  ASSUME IInv, NEW a \in Actors, EnterLease(a)
  PROVE  IInv'
<1> DEFINE c == call[a]
           step == AfterLease(c.op)
           saw == Seen(c)
           r == [c EXCEPT !.step = step, !.seen = saw]
<1>1. c \in CallRecord /\ c.step = "lease" /\ ActorInv(a) /\ c.op # "none" /\ lease = Nobody
  BY DEF IInv, CallInv, EnterLease, At, ActorInv, RecoveryInv, LeaseFree
<1>2. /\ c.op = "create" => step = "plan"
      /\ c.op = "retire" => step = "replay"
      /\ c.op = "resume" => step = "work"
      /\ c.op = "recover" => step = "reread"
      /\ c.op \in {"create", "retire", "resume", "recover"}
  BY <1>1 DEF AfterLease, CallRecord
<1>3. saw \in Phase /\ (c.op # "resume" => saw = c.seen)
                    /\ (c.op = "resume" => saw = journal.delete)
  BY <1>1 DEF Seen, CallRecord, IInv, RowInv, RowTypes, Phase
<1>4. /\ r \in CallRecord /\ r.step = step /\ r.op = c.op /\ r.kind = c.kind
      /\ r.seen = saw
  <2> HIDE DEF step, saw
  <2>1. step \in Label
    BY <1>2 DEF Label
  <2> QED
    BY <1>1, <1>3, <2>1 DEF CallRecord
<1>5. call' = [call EXCEPT ![a] = r] /\ call'[a] = r
  BY <1>1 DEF EnterLease, IInv, CallInv
<1>6. RowInv'
  BY RowsKept DEF IInv, RowInv, RowTypes, EnterLease, bounds
<1>7. LockInv'
  BY DEF IInv, LockInv, EnterLease
<1>8. ActorInv(a)'
  <2> HIDE DEF r, step, saw
  <2>1. WriterInv(a)'
    BY <1>2, <1>4, <1>5 DEF WriterInv, At
  <2>2. RecoveryInv(a)'
    BY <1>1, <1>2, <1>3, <1>4, <1>5
       DEF ActorInv, RecoveryInv, EnterLease, rows, lifecycleRows
  <2>3. lease' = a
    BY DEF EnterLease
  <2> QED
    BY <1>4, <1>5, <2>1, <2>2, <2>3 DEF ActorInv
<1>9. CallInv'
  <2> HIDE DEF r
  <2> QED
    BY <1>1, <1>4, <1>5, <1>8, CallLemma DEF EnterLease
<1> QED
  BY <1>6, <1>7, <1>9 DEF IInv

-----------------------------------------------------------------------------
(* Creation. *)

\* Who advances a creation holds the lease.
LEMMA AdvanceHolds ==
  ASSUME IInv, NEW a \in Actors, call[a].step \in Leased
  PROVE  lease = a /\ ActorInv(a) /\ call[a] \in CallRecord
BY DEF IInv, CallInv, ActorInv

\* A transaction of a creation.
LEMMA AdvanceRow ==
  ASSUME IInv, NEW a \in Actors, At(a, "advance"), UNCHANGED <<locks, call, contradicted>>
  PROVE  CallInv' /\ LockInv'
<1>1. lease = a /\ ActorInv(a) /\ call[a].step = "advance"
  BY AdvanceHolds DEF At, Leased
<1>2. ActorInv(a)'
  BY <1>1 DEF ActorInv, WriterInv, RecoveryInv, At, locks
<1> QED
  BY <1>1, <1>2, RowLemma

\* A creation goes on with another step, the plan as it is.
LEMMA AdvanceCall ==
  ASSUME IInv, NEW a \in Actors, call[a].step \in {"plan", "advance", "writing"},
         NEW step \in {"advance", "writing"}, Goto(a, step), UNCHANGED <<locks, contradicted>>,
         step = "writing" => WriterInv(a)'
  PROVE  CallInv' /\ LockInv'
<1> DEFINE r == [call[a] EXCEPT !.step = step]
<1>1. lease = a /\ ActorInv(a) /\ call[a] \in CallRecord
  BY AdvanceHolds DEF Leased
<1>2. r \in CallRecord /\ r.step = step /\ r.op = call[a].op /\ r.kind = call[a].kind
  <2>1. step \in Label
    BY DEF Label
  <2> QED
    BY <1>1, <2>1, Stepped
<1>3. call' = [call EXCEPT ![a] = r] /\ call'[a] = r
  BY DEF Goto, IInv, CallInv
<1> HIDE DEF r
<1>4. WriterInv(a)'
  BY <1>2, <1>3 DEF WriterInv, At
<1>5. ActorInv(a)'
  BY <1>1, <1>2, <1>3, <1>4 DEF ActorInv, RecoveryInv, Leased, locks
<1>6. LockInv'
  BY DEF IInv, LockInv, locks
<1> QED
  BY <1>1, <1>2, <1>3, <1>5, <1>6, CallLemma DEF locks

LEMMA PlanStep ==
  ASSUME IInv, NEW a \in Actors, Plan(a)
  PROVE  IInv'
<1>1. call[a].step = "plan" /\ ActorInv(a) /\ call[a] \in CallRecord /\ lease = a
  BY AdvanceHolds DEF Plan, At, Leased
<1>2. CASE a \in Callers /\ Prepare(a)
  <2>1. CallInv' /\ LockInv'
    BY <1>1, <1>2, AdvanceCall DEF Prepare
  <2>2. RowTypes'
    <3>1. plan' \in [number : 0..MaxPlans, by : Principals \cup {Nobody},
                     phase : CreationPhase \cup {"none"}]
      BY <1>2, LifecycleAssumption DEF Prepare, IInv, RowInv, RowTypes, CreationPhase
    <3> QED
      BY <1>2, <3>1, LifecycleAssumption
         DEF Prepare, PreparedCandidates, IInv, RowInv, RowTypes, disk
  <2>3. PlanInv' /\ ServedInv'
    BY <1>2, LifecycleAssumption DEF Prepare, IInv, RowInv, PlanInv, ServedInv, Unpublished
  <2>4. DeletionInv'
    BY <1>2 DEF Prepare, PreparedCandidates, IInv, RowInv, DeletionInv, disk
  <2> QED
    BY <2>1, <2>2, <2>3, <2>4 DEF IInv, RowInv
<1>3. CASE TakePlan(a)
  <2>1. CallInv' /\ LockInv'
    BY <1>1, <1>3, AdvanceCall DEF TakePlan
  <2>2. RowInv'
    BY <1>3, RowsKept DEF TakePlan, IInv, RowInv, RowTypes, bounds
  <2> QED
    BY <2>1, <2>2 DEF IInv
<1>4. CASE RefusePlan(a)
  <2>1. PICK why \in {"vanished", "refused"} : End(a, why)
    BY <1>4 DEF RefusePlan
  <2> QED
    BY <1>4, <2>1, EndQuiet DEF RefusePlan
<1> QED
  BY <1>2, <1>3, <1>4 DEF Plan

\* A transaction that only moves the plan on, before the Project serves.
LEMMA UnpublishedPhase ==
  ASSUME IInv, NEW a \in Actors, At(a, "advance"), plan.phase \in Unpublished,
         NEW phase \in Unpublished, SetPhase(phase),
         UNCHANGED <<project, placement, bindings, lifecycleRows, disk, locks, call, contradicted,
                     bounds>>
  PROVE  IInv'
<1>1. CallInv' /\ LockInv'
  BY AdvanceRow
<1>2. plan' \in [number : 0..MaxPlans, by : Principals \cup {Nobody},
                 phase : CreationPhase \cup {"none"}]
      /\ plan'.phase = phase /\ plan'.by = plan.by
  BY DEF SetPhase, IInv, RowInv, RowTypes, Unpublished, CreationPhase
<1>3. RowTypes'
  BY <1>2 DEF IInv, RowInv, RowTypes, lifecycleRows, disk, bounds
<1>4. project = "maintenance"
  BY DEF IInv, RowInv, PlanInv
<1>5. PlanInv' /\ ServedInv' /\ DeletionInv'
  BY <1>2, <1>4
     DEF IInv, RowInv, PlanInv, ServedInv, DeletionInv, Unpublished, lifecycleRows, disk, bounds
<1> QED
  BY <1>1, <1>3, <1>5 DEF IInv, RowInv

LEMMA MarkStep ==
  ASSUME IInv, NEW a \in Actors, MarkIntent(a) \/ MarkPublished(a)
  PROVE  IInv'
<1>1. CASE MarkIntent(a)
  BY <1>1, UnpublishedPhase DEF MarkIntent, InPhase, Unpublished
<1>2. CASE MarkPublished(a)
  BY <1>2, UnpublishedPhase DEF MarkPublished, Publishing, InPhase, Unpublished
<1> QED
  BY <1>1, <1>2

\* The disk changes while a plan publishes its repository.
LEMMA PublishedRows ==
  ASSUME IInv, plan.phase = "repository-publication-intent",
         NEW stage \in Stages, NEW torn \in BOOLEAN,
         repository' = [number |-> plan.number, stage |-> stage, torn |-> torn],
         UNCHANGED <<rows, cleanup, bounds>>
  PROVE  RowInv'
<1>1. project = "maintenance"
  BY DEF IInv, RowInv, PlanInv, Unpublished
<1>2. repository' \in [number : 0..MaxPlans, stage : Stages, torn : BOOLEAN]
  BY DEF IInv, RowInv, RowTypes
<1>3. RowTypes'
  BY <1>2 DEF IInv, RowInv, RowTypes, rows, projectRows, lifecycleRows, bounds
<1>4. PlanInv' /\ ServedInv' /\ DeletionInv'
  BY <1>1 DEF IInv, RowInv, PlanInv, ServedInv, DeletionInv, rows, projectRows, lifecycleRows,
              bounds
<1> QED
  BY <1>3, <1>4 DEF RowInv

LEMMA StageTypes == \A s \in Stages \ {"published", "detached"} : NextStage(s) \in Stages
BY DEF Stages, NextStage

LEMMA PublishStep ==
  ASSUME IInv, NEW a \in Actors, Publish(a)
  PROVE  IInv'
<1>1. /\ call[a].step = "advance" /\ lease = a
      /\ plan.phase = "repository-publication-intent"
  BY AdvanceHolds DEF Publish, Publishing, InPhase, At, Leased
<1>2. ASSUME NEW stage \in {"none", "placed", "initialised", "main", "refs"}, Open(a, stage)
      PROVE  IInv'
  <2>1. repository' = [number |-> plan.number, stage |-> stage, torn |-> TRUE]
    BY <1>2 DEF Open
  <2>2. RowInv'
    BY <1>1, <2>1, PublishedRows DEF Stages, Publish
  <2>3. plan' = plan
    BY DEF Publish, rows, projectRows
  <2>4. WriterInv(a)'
    BY <1>1, <2>1, <2>3 DEF WriterInv
  <2>5. CallInv' /\ LockInv'
    BY <1>1, <1>2, <2>4, AdvanceCall DEF Open, Publish
  <2> QED
    BY <2>2, <2>5 DEF IInv
<1>3. ASSUME NEW stages \in SUBSET (Stages \ {"published", "detached"}), Effect(stages)
      PROVE  IInv'
  <2>1. NextStage(repository.stage) \in Stages
    BY <1>3, StageTypes DEF Effect
  <2>2. RowInv'
    BY <1>1, <1>3, <2>1, PublishedRows DEF Effect, SetStage, Publish
  <2>3. CallInv' /\ LockInv'
    BY <1>1, <1>3, AdvanceRow DEF Effect, Publish, At
  <2> QED
    BY <2>2, <2>3 DEF IInv
<1> QED
  BY <1>2, <1>3 DEF Publish, PrepareLocation, Initialize, EstablishRefs, PublishMarker, Stages

LEMMA WriteOutStep ==
  ASSUME IInv, NEW a \in Actors, WriteOut(a)
  PROVE  IInv'
<1>1. call[a].step = "writing" /\ WriterInv(a)
  BY AdvanceHolds DEF WriteOut, At, Leased, ActorInv
<1>2. /\ plan.phase = "repository-publication-intent"
      /\ repository.stage \in {"none", "placed", "initialised", "main", "refs"}
  BY <1>1 DEF WriterInv, At
<1>3. NextStage(repository.stage) \in Stages
  BY <1>2, StageTypes DEF Stages
<1>4. RowInv'
  BY <1>2, <1>3, PublishedRows DEF WriteOut, SetStage
<1>5. CallInv' /\ LockInv'
  BY <1>1, AdvanceCall DEF WriteOut
<1> QED
  BY <1>4, <1>5 DEF IInv

LEMMA RefusePublicationStep ==
  ASSUME IInv, NEW a \in Actors, RefusePublication(a)
  PROVE  IInv'
BY EndQuiet DEF RefusePublication

\* What activate finds: the repository of the plan in its place and no deletion.
LEMMA ActivateStep ==
  ASSUME IInv, NEW a \in Actors, Activate(a)
  PROVE  IInv'
<1>1. CallInv' /\ LockInv'
  BY AdvanceRow DEF Activate, InPhase
<1>2. plan' = [plan EXCEPT !.phase = "activated"] /\ plan.phase = "repository-published"
  BY DEF Activate, SetPhase, InPhase
<1>3. plan' \in [number : 0..MaxPlans, by : Principals \cup {Nobody},
                 phase : CreationPhase \cup {"none"}]
      /\ plan'.phase = "activated" /\ plan'.number = plan.number /\ plan'.by = plan.by
  BY <1>2 DEF IInv, RowInv, RowTypes, CreationPhase
<1>4. project = "maintenance" /\ plan.by \in Principals
  BY <1>2 DEF IInv, RowInv, PlanInv, Unpublished
<1>5. RowTypes'
  BY <1>3, <1>4 DEF Activate, IInv, RowInv, RowTypes, lifecycleRows, disk, bounds
<1>6. PlanInv'
  BY <1>3, <1>4 DEF Activate, PlanInv, Unpublished
<1>7. journal.delete \notin ContentLeft /\ ~cleanup /\ Terminated(journal.transfer)
  BY <1>4 DEF IInv, RowInv, DeletionInv, ContentLeft
<1>8. ServedInv'
  BY <1>3, <1>7 DEF Activate, ServedInv, Verified, disk
<1>9. DeletionInv'
  BY <1>7 DEF Activate, IInv, RowInv, DeletionInv, lifecycleRows, disk, bounds
<1> QED
  BY <1>1, <1>5, <1>6, <1>8, <1>9 DEF IInv, RowInv

LEMMA CompleteCreationStep ==
  ASSUME IInv, NEW a \in Actors, CompleteCreation(a)
  PROVE  IInv'
<1>1. CallInv' /\ LockInv'
  BY AdvanceRow DEF CompleteCreation, InPhase
<1>2. plan' \in [number : 0..MaxPlans, by : Principals \cup {Nobody},
                 phase : CreationPhase \cup {"none"}]
      /\ plan'.phase = "completed" /\ plan'.number = plan.number /\ plan'.by = plan.by
      /\ plan.phase = "activated"
  BY DEF CompleteCreation, SetPhase, InPhase, IInv, RowInv, RowTypes, CreationPhase
<1>3. RowTypes'
  BY <1>2 DEF CompleteCreation, IInv, RowInv, RowTypes, disk, bounds
<1>4. PlanInv'
  BY <1>2 DEF CompleteCreation, IInv, RowInv, PlanInv, Unpublished
<1>5. ServedInv'
  BY <1>2 DEF CompleteCreation, IInv, RowInv, ServedInv, Verified, disk
<1>6. DeletionInv'
  BY DEF CompleteCreation, IInv, RowInv, DeletionInv, disk, bounds
<1> QED
  BY <1>1, <1>3, <1>4, <1>5, <1>6 DEF IInv, RowInv

LEMMA AdvanceCreationStep ==
  ASSUME IInv, NEW a \in Actors, AdvanceCreation(a)
  PROVE  IInv'
<1>1. ASSUME Respond(a) PROVE IInv'
  BY <1>1, EndQuiet DEF Respond
<1> QED
  BY <1>1, MarkStep, PublishStep, WriteOutStep, RefusePublicationStep, ActivateStep,
     CompleteCreationStep DEF AdvanceCreation

-----------------------------------------------------------------------------
(* Members, the transfer and the clock, while no call holds the lease. *)

LEMMA EnvironmentRow ==
  ASSUME IInv, LeaseFree, UNCHANGED <<locks, call, contradicted>>
  PROVE  CallInv' /\ LockInv'
<1>1. Nobody \notin Actors
  BY LifecycleAssumption DEF Actors
<1> QED
  BY <1>1, RowLemma DEF LeaseFree

LEMMA JoinStep ==
  ASSUME IInv, NEW p \in Principals, Join(p)
  PROVE  IInv'
<1>1. CallInv' /\ LockInv'
  BY EnvironmentRow DEF Join
<1>2. RowTypes' /\ PlanInv' /\ ServedInv'
  BY DEF Join, IInv, RowInv, RowTypes, PlanInv, ServedInv, Verified, lifecycleRows, disk, bounds
<1>3. DeletionInv'
  BY DEF Join, IInv, RowInv, DeletionInv, lifecycleRows, disk, bounds
<1> QED
  BY <1>1, <1>2, <1>3 DEF IInv, RowInv

LEMMA RelinquishStep ==
  ASSUME IInv, Relinquish
  PROVE  IInv'
<1>1. CallInv' /\ LockInv'
  BY EnvironmentRow DEF Relinquish
<1>2. journal' \in [Kinds -> Phase] /\ journal'.transfer = "cloud-relinquished"
      /\ journal'.delete = journal.delete
  BY DEF Relinquish, IInv, RowInv, RowTypes, Kinds, Phase, TransferPhase
<1>3. RowTypes'
  BY <1>2 DEF Relinquish, IInv, RowInv, RowTypes, TransferPhase, Kinds, disk, bounds
<1>4. PlanInv' /\ ServedInv'
  BY DEF Relinquish, IInv, RowInv, PlanInv, ServedInv
<1>5. DeletionInv'
  BY <1>2 DEF Relinquish, IInv, RowInv, DeletionInv, disk, bounds
<1> QED
  BY <1>1, <1>3, <1>4, <1>5 DEF IInv, RowInv

LEMMA TargetActiveStep ==
  ASSUME IInv, TargetActive
  PROVE  IInv'
<1>1. CallInv' /\ LockInv'
  BY EnvironmentRow DEF TargetActive
<1>2. journal' \in [Kinds -> Phase] /\ journal'.transfer = "lan-activated"
      /\ journal'.delete = journal.delete
  BY DEF TargetActive, IInv, RowInv, RowTypes, Kinds, Phase, TransferPhase
<1>3. RowTypes'
  BY <1>2 DEF TargetActive, IInv, RowInv, RowTypes, TransferPhase, projectRows, disk, bounds
<1>4. PlanInv' /\ ServedInv'
  BY DEF TargetActive, IInv, RowInv, PlanInv, ServedInv, Verified, projectRows, disk
<1>5. DeletionInv'
  BY <1>2 DEF TargetActive, IInv, RowInv, DeletionInv, Terminated, projectRows, disk, bounds
<1> QED
  BY <1>1, <1>3, <1>4, <1>5 DEF IInv, RowInv

\* The result's readers and its term touch nothing but the result.
LEMMA TerminalStep ==
  ASSUME IInv, Elapse \/ ExpireResponder \/ \E p \in Principals : Acknowledge(p)
  PROVE  IInv'
<1>1. CASE Elapse
  <2>1. RowInv'
    BY <1>1 DEF Elapse, IInv, RowInv, RowTypes, PlanInv, ServedInv, DeletionInv, Verified,
                rows, projectRows, lifecycleRows, disk
  <2>2. \A a \in Actors : ActorInv(a)'
    BY <1>1 DEF Elapse, IInv, CallInv, ActorInv, WriterInv, RecoveryInv, At,
                rows, projectRows, lifecycleRows, disk, locks
  <2> QED
    BY <1>1, <2>1, <2>2 DEF Elapse, IInv, CallInv, LockInv, locks
<1>2. CASE ExpireResponder
  <2>1. CallInv' /\ LockInv'
    BY <1>2, EnvironmentRow DEF ExpireResponder
  <2>2. terminal' \in [kind : {"none", "retire", "transfer"}, by : Principals \cup {Nobody},
                       unacked : SUBSET Principals, acked : SUBSET Principals, kept : BOOLEAN]
        /\ terminal'.kind = terminal.kind /\ terminal'.unacked = terminal.unacked
        /\ terminal'.acked = terminal.acked
    BY <1>2 DEF ExpireResponder, IInv, RowInv, RowTypes
  <2>3. RowInv'
    BY <1>2, <2>2 DEF ExpireResponder, IInv, RowInv, RowTypes, PlanInv, ServedInv, DeletionInv,
                      Verified, projectRows, disk, bounds
  <2> QED
    BY <2>1, <2>3 DEF IInv
<1>3. ASSUME NEW p \in Principals, Acknowledge(p) PROVE IInv'
  <2>1. CallInv' /\ LockInv'
    BY <1>3, EnvironmentRow DEF Acknowledge
  <2>2. terminal' \in [kind : {"none", "retire", "transfer"}, by : Principals \cup {Nobody},
                       unacked : SUBSET Principals, acked : SUBSET Principals, kept : BOOLEAN]
        /\ terminal'.kind = terminal.kind /\ terminal'.kept = terminal.kept
        /\ terminal'.unacked = terminal.unacked \ {p}
        /\ terminal'.acked = terminal.acked \cup {p} /\ p \in terminal.unacked
    BY <1>3 DEF Acknowledge, IInv, RowInv, RowTypes
  <2>3. /\ terminal'.unacked \cap terminal'.acked = {}
        /\ terminal'.unacked \cup terminal'.acked = terminal.unacked \cup terminal.acked
    BY <2>2 DEF IInv, RowInv, RowTypes
  <2>4. RowInv'
    BY <1>3, <2>2, <2>3 DEF Acknowledge, IInv, RowInv, RowTypes, PlanInv, ServedInv, DeletionInv,
                            Verified, projectRows, disk, bounds
  <2> QED
    BY <2>1, <2>4 DEF IInv
<1> QED
  BY <1>1, <1>2, <1>3

-----------------------------------------------------------------------------
(* Retirement and the completion of a transfer. *)

\* The terminal transaction closes the Project and begins the deletion of its content.
LEMMA TerminateRows ==
  ASSUME IInv, NEW kind \in {"retire", "transfer"}, NEW by \in Principals,
         NEW ended \in SUBSET {"transfer"}, Terminate(kind, by, ended), late' = FALSE,
         Terminated(journal.transfer) \/ ended = {"transfer"},
         project \in {"active", "deleting"},
         UNCHANGED <<plan, placement, bindings, disk, planned, faults>>, ~cleanup
  PROVE  /\ RowInv'
         /\ journal' \in [Kinds -> Phase] /\ journal'.delete = "traffic-denied"
         /\ journal'.transfer = IF "transfer" \in ended THEN "completed" ELSE journal.transfer
<1>1. /\ terminal' \in [kind : {"none", "retire", "transfer"}, by : Principals \cup {Nobody},
                        unacked : SUBSET Principals, acked : SUBSET Principals, kept : BOOLEAN]
      /\ terminal'.kind = kind /\ terminal'.kept = TRUE
      /\ terminal'.unacked = bindings /\ terminal'.acked = {}
  BY DEF Terminate, Terminal, IInv, RowInv, RowTypes
<1>2. /\ journal' \in [Kinds -> Phase] /\ journal'.delete = "traffic-denied"
      /\ journal'.transfer = IF "transfer" \in ended THEN "completed" ELSE journal.transfer
  BY DEF Terminate, IInv, RowInv, RowTypes, Kinds, Phase, TransferPhase, DeletionPhase
<1>3. RowTypes'
  BY <1>1, <1>2 DEF Terminate, ClosedService, IInv, RowInv, RowTypes, Kinds, TransferPhase,
                    DeletionPhase, disk
<1>4. PlanInv' /\ ServedInv'
  BY DEF Terminate, ClosedService, IInv, RowInv, PlanInv, ServedInv
<1>5. DeletionInv'
  BY <1>1, <1>2 DEF Terminate, ClosedService, DeletionInv, Terminated, disk
<1> QED
  BY <1>2, <1>3, <1>4, <1>5 DEF RowInv

LEMMA PrepareRetireStep ==
  ASSUME IInv, NEW a \in Actors, PrepareRetire(a)
  PROVE  IInv'
<1>1. call[a].step = "replay" /\ ActorInv(a) /\ call[a] \in CallRecord
  BY AdvanceHolds DEF PrepareRetire, At, Leased
<1>2. ASSUME NEW why \in {"none", "refused"}, End(a, why) PROVE IInv'
  BY <1>2, EndQuiet DEF PrepareRetire
<1>3. ASSUME Goto(a, "commit"), UNCHANGED <<locks, contradicted>> PROVE IInv'
  <2> DEFINE r == [call[a] EXCEPT !.step = "commit"]
  <2>1. r \in CallRecord /\ r.step = "commit" /\ r.op = call[a].op /\ r.kind = call[a].kind
    BY <1>1, Stepped DEF Label
  <2>2. call' = [call EXCEPT ![a] = r]
    BY <1>3 DEF Goto
  <2>3. (r.op = "resume" => r.kind = "delete") /\ r.op # "none"
    BY <1>1, <2>1 DEF ActorInv, RecoveryInv
  <2> HIDE DEF r
  <2> QED
    BY <1>1, <1>3, <2>1, <2>2, <2>3, GoQuiet DEF PrepareRetire, Leased
<1> QED
  BY <1>2, <1>3 DEF PrepareRetire

LEMMA CommitRetireStep ==
  ASSUME IInv, NEW a \in Actors, CommitRetire(a)
  PROVE  IInv'
<1>1. call[a].step = "commit" /\ lease = a
  BY AdvanceHolds DEF CommitRetire, At, Leased
<1>2. PICK why \in {"none", "refused"} : End(a, why)
  BY DEF CommitRetire
<1>3. CallInv' /\ LockInv'
  BY <1>1, <1>2, EndLemma
<1>4. CASE MayRetire(a) /\ terminal.kind = "none"
  <2>1. a \in Principals /\ project = "active" /\ ~cleanup /\ Terminated(journal.transfer)
    BY <1>4 DEF MayRetire, IInv, RowInv, RowTypes, ServedInv, DeletionInv
  <2>2. RowInv'
    BY <1>4, <2>1, TerminateRows DEF CommitRetire
  <2> QED
    BY <1>3, <2>2 DEF IInv
<1>5. CASE ~(MayRetire(a) /\ terminal.kind = "none")
  <2>1. RowInv'
    BY <1>5, RowsKept DEF CommitRetire, IInv, RowInv, RowTypes, rows, projectRows
  <2> QED
    BY <1>3, <2>1 DEF IInv
<1> QED
  BY <1>4, <1>5

-----------------------------------------------------------------------------
(* The deletion. *)

\* Who works for a recovery holds the lease and has the journal it was given.
LEMMA WorkHolds ==
  ASSUME IInv, NEW w \in Actors, At(w, "work")
  PROVE  /\ lease = w /\ ActorInv(w) /\ call[w] \in CallRecord /\ call[w].step = "work"
         /\ journal[call[w].kind] = call[w].seen
         /\ call[w].kind = "transfer" /\ call[w].seen = "lan-activated" => w \in lane
         /\ call[w].op \in {"create", "retire", "recover", "resume"}
<1>1. call[w].step = "work" /\ call[w] \in CallRecord /\ ActorInv(w)
  BY DEF At, IInv, CallInv
<1> QED
  BY <1>1 DEF ActorInv, RecoveryInv, Leased, CallRecord

\* The owner changes rows or disk and goes on with the journal it now has.
LEMMA WorkCall ==
  ASSUME IInv, NEW w \in Actors, At(w, "work"), NEW p \in Phase,
         call' = [call EXCEPT ![w].seen = p], UNCHANGED <<locks, contradicted>>,
         journal'[call[w].kind] = p, p # "lan-activated"
  PROVE  CallInv' /\ LockInv'
<1> DEFINE r == [call[w] EXCEPT !.seen = p]
<1>1. lease = w /\ ActorInv(w) /\ call[w] \in CallRecord /\ call[w].step = "work"
  BY WorkHolds
<1>2. /\ r \in CallRecord /\ r.seen = p
      /\ r.op = call[w].op /\ r.step = "work" /\ r.kind = call[w].kind
  BY <1>1, Saw
<1>3. call' = [call EXCEPT ![w] = r] /\ call'[w] = r
  BY DEF IInv, CallInv
<1> HIDE DEF r
<1>4. ActorInv(w)'
  BY <1>1, <1>2, <1>3 DEF ActorInv, WriterInv, RecoveryInv, At, locks
<1>5. LockInv'
  BY DEF IInv, LockInv, locks
<1> QED
  BY <1>1, <1>2, <1>3, <1>4, <1>5, CallLemma DEF locks

\* The disk changes with the journal as it is.
LEMMA WorkQuiet ==
  ASSUME IInv, NEW w \in Actors, At(w, "work"), UNCHANGED <<journal, locks, call, contradicted>>
  PROVE  CallInv' /\ LockInv'
<1>1. lease = w /\ ActorInv(w) /\ call[w].step = "work"
  BY WorkHolds
<1>2. ActorInv(w)'
  BY <1>1 DEF ActorInv, WriterInv, RecoveryInv, At, locks
<1> QED
  BY <1>1, <1>2, RowLemma

\* The journal of the deletion moves on.
LEMMA AdvanceJournal ==
  ASSUME IInv, NEW w \in Actors, NEW from \in DeletionPhase, Deleting(w, from),
         NEW phase \in DeletionPhase, AdvanceDeletion(w, phase), UNCHANGED <<locks, contradicted>>
  PROVE  /\ CallInv' /\ LockInv'
         /\ journal' \in [Kinds -> Phase] /\ journal'.delete = phase
         /\ journal'.transfer = journal.transfer
<1>1. /\ journal' \in [Kinds -> Phase] /\ journal'.delete = phase
      /\ journal'.transfer = journal.transfer
  BY DEF AdvanceDeletion, IInv, RowInv, RowTypes, Kinds, Phase
<1>2. phase \in Phase /\ phase # "lan-activated"
  BY DEF Phase, DeletionPhase
<1>3. CallInv' /\ LockInv'
  BY <1>1, <1>2, WorkCall DEF AdvanceDeletion, Deleting
<1> QED
  BY <1>1, <1>3

\* A deletion that has its content to remove has a closed Project.
LEMMA DeletionFacts ==
  ASSUME IInv, journal.delete \in DeletionPhase \ {"completed"}
  PROVE  /\ "delete" \in candidates /\ terminal.kind # "none" /\ Terminated(journal.transfer)
         /\ journal.delete \in ContentLeft => project = "deleting"
BY DEF IInv, RowInv, DeletionInv, Terminated, DeletionPhase

LEMMA OnlyAdvanceStep ==
  ASSUME IInv, NEW w \in Actors, NEW from \in DeletionPhase \ {"completed"}, Deleting(w, from),
         NEW phase \in DeletionPhase, OnlyAdvance(w, phase),
         phase \in ContentLeft => from \in ContentLeft, cleanup => phase = "repository-delete-intent"
  PROVE  IInv'
<1>1. /\ CallInv' /\ LockInv'
      /\ journal' \in [Kinds -> Phase] /\ journal'.delete = phase
      /\ journal'.transfer = journal.transfer
  BY AdvanceJournal DEF OnlyAdvance
<1>2. journal.delete = from
  BY DEF Deleting
<1>3. RowTypes'
  BY <1>1 DEF OnlyAdvance, IInv, RowInv, RowTypes, projectRows, disk, bounds
<1>4. PlanInv' /\ ServedInv'
  BY DEF OnlyAdvance, IInv, RowInv, PlanInv, ServedInv, Verified, projectRows, disk
<1>5. DeletionInv'
  BY <1>1, <1>2, DeletionFacts
     DEF OnlyAdvance, IInv, RowInv, DeletionInv, Terminated, projectRows, disk, bounds
<1> QED
  BY <1>1, <1>3, <1>4, <1>5 DEF IInv, RowInv

\* The removal of the tree, while the journal says so.
LEMMA RemovalStep ==
  ASSUME IInv, NEW w \in Actors, MarkCleanup(w) \/ Detach(w) \/ Sweep(w) \/ Forget(w)
  PROVE  IInv'
<1>1. At(w, "work") /\ journal.delete = "repository-delete-intent"
  BY DEF MarkCleanup, Detach, Sweep, Forget, Removing, Deleting
<1>2. project = "deleting"
  BY <1>1 DEF IInv, RowInv, DeletionInv, ContentLeft
<1>3. CallInv' /\ LockInv'
  BY <1>1, WorkQuiet DEF MarkCleanup, Detach, Sweep, Forget, rows, lifecycleRows
<1>4. /\ repository' \in [number : 0..MaxPlans, stage : Stages, torn : BOOLEAN]
      /\ cleanup' \in BOOLEAN
  <2>1. NoRepository \in [number : 0..MaxPlans, stage : Stages, torn : BOOLEAN]
    BY LifecycleAssumption DEF NoRepository, Stages
  <2>2. [repository EXCEPT !.stage = "detached"]
          \in [number : 0..MaxPlans, stage : Stages, torn : BOOLEAN]
    BY DEF IInv, RowInv, RowTypes, Stages
  <2> QED
    BY <2>1, <2>2 DEF MarkCleanup, Detach, Sweep, Forget, IInv, RowInv, RowTypes
<1>5. UNCHANGED <<rows, bounds>>
  BY DEF MarkCleanup, Detach, Sweep, Forget
<1>6. RowTypes' /\ PlanInv' /\ ServedInv'
  BY <1>2, <1>4, <1>5 DEF IInv, RowInv, RowTypes, PlanInv, ServedInv, rows, projectRows,
                          lifecycleRows, bounds
<1>7. DeletionInv'
  BY <1>1, <1>5 DEF IInv, RowInv, DeletionInv, rows, projectRows, lifecycleRows, bounds
<1> QED
  BY <1>3, <1>6, <1>7 DEF IInv, RowInv

LEMMA RemoveContentStep ==
  ASSUME IInv, NEW w \in Actors, RemoveContent(w)
  PROVE  IInv'
<1>1. /\ CallInv' /\ LockInv'
      /\ journal' \in [Kinds -> Phase] /\ journal'.delete = "coordination-removed"
      /\ journal'.transfer = journal.transfer
  BY AdvanceJournal DEF RemoveContent, DeletionPhase
<1>2. /\ journal.delete = "repository-removed" /\ "delete" \in candidates
      /\ terminal.kind # "none" /\ Terminated(journal.transfer)
  BY DeletionFacts DEF RemoveContent, Deleting, DeletionPhase
<1>3. RowTypes'
  <2>1. plan' \in [number : 0..MaxPlans, by : Principals \cup {Nobody},
                   phase : CreationPhase \cup {"none"}]
    BY LifecycleAssumption DEF RemoveContent, NoPlan
  <2> QED
    BY <1>1, <2>1 DEF RemoveContent, KeptTerminal, KeptCandidates, IInv, RowInv, RowTypes,
                      DeletionPhase, disk, bounds
<1>4. PlanInv' /\ ServedInv'
  BY DEF RemoveContent, PlanInv, ServedInv, NoPlan, Unpublished
<1>5. DeletionInv'
  BY <1>1, <1>2 DEF RemoveContent, KeptTerminal, KeptCandidates, IInv, RowInv, DeletionInv,
                    Terminated, ContentLeft, disk, bounds
<1> QED
  BY <1>1, <1>3, <1>4, <1>5 DEF IInv, RowInv

LEMMA CompleteDeletionStep ==
  ASSUME IInv, NEW w \in Actors, CompleteDeletion(w)
  PROVE  IInv'
<1>1. /\ CallInv' /\ LockInv'
      /\ journal' \in [Kinds -> Phase] /\ journal'.delete = "completed"
      /\ journal'.transfer = journal.transfer
  BY AdvanceJournal DEF CompleteDeletion, DeletionPhase
<1>2. journal.delete = "tombstoned"
  BY DEF CompleteDeletion, Deleting
<1>3. RowTypes' /\ PlanInv' /\ ServedInv'
  BY <1>1 DEF CompleteDeletion, IInv, RowInv, RowTypes, PlanInv, ServedInv, Verified,
              DeletionPhase, projectRows, disk, bounds
<1>4. DeletionInv'
  BY <1>1, <1>2 DEF CompleteDeletion, IInv, RowInv, DeletionInv, Terminated, ContentLeft,
                    projectRows, disk, bounds
<1> QED
  BY <1>1, <1>3, <1>4 DEF IInv, RowInv

LEMMA DeletionSteps ==
  ASSUME IInv, NEW w \in Actors, DeletionStep(w)
  PROVE  IInv'
<1>1. cleanup => journal.delete = "repository-delete-intent"
  BY DEF IInv, RowInv, DeletionInv
<1>2. CASE StartRemoval(w)
  BY <1>1, <1>2, OnlyAdvanceStep DEF StartRemoval, Deleting, DeletionPhase, ContentLeft
<1>3. CASE RecordRemoved(w)
  BY <1>3, OnlyAdvanceStep DEF RecordRemoved, Removing, DeletionPhase, ContentLeft
<1>4. CASE RecordTombstone(w)
  BY <1>1, <1>4, OnlyAdvanceStep DEF RecordTombstone, Deleting, DeletionPhase, ContentLeft
<1> QED
  BY <1>2, <1>3, <1>4, RemovalStep, RemoveContentStep, CompleteDeletionStep DEF DeletionStep

-----------------------------------------------------------------------------
(* The recovery dispatcher. *)

\* A recovery chose its reservation from the journal it has just read.
LEMMA ObservedCall ==
  ASSUME IInv, NEW w \in Actors, NEW kind \in Kinds, NEW rounds \in Nat,
         Observed(w, kind, rounds)
  PROVE  \E r \in CallRecord :
           /\ call' = [call EXCEPT ![w] = r] /\ call'[w] = r
           /\ r.op = "recover" /\ r.step \in {"drain", "lane", "lease"}
           /\ r.step = "lease" => ~NeedsLane(r.kind, r.seen)
<1> DEFINE step == Preflight(kind, journal[kind])
           r == [op |-> "recover", step |-> step, kind |-> kind, seen |-> journal[kind],
                 rounds |-> rounds]
<1>1. step \in {"drain", "lane", "lease"} /\ (step = "lease" => ~NeedsLane(kind, journal[kind]))
  BY DEF Preflight
<1>2. journal[kind] \in Phase
  BY DEF IInv, RowInv, RowTypes
<1>3. /\ r.op = "recover" /\ r.step = step /\ r.kind = kind /\ r.seen = journal[kind]
      /\ r.rounds = rounds
  OBVIOUS
<1>4. step \in Label
  BY <1>1 DEF Label
<1>5. r \in CallRecord
  <2> HIDE DEF step
  <2> QED
    BY <1>2, <1>4 DEF CallRecord
<1>6. call' = [call EXCEPT ![w] = r]
  BY DEF Observed
<1>7. call'[w] = r
  BY <1>6 DEF IInv, CallInv
<1> HIDE DEF step, r
<1> QED
  BY <1>1, <1>3, <1>5, <1>6, <1>7

\* It goes on from there, the lease free.
LEMMA ObservedStep ==
  ASSUME IInv, NEW w \in Actors, NEW kind \in Kinds, NEW rounds \in Nat,
         Observed(w, kind, rounds), UNCHANGED <<rows, disk, locks, contradicted, bounds>>
  PROVE  IInv'
<1>1. PICK r \in CallRecord :
           /\ call' = [call EXCEPT ![w] = r] /\ call'[w] = r
           /\ r.op = "recover" /\ r.step \in {"drain", "lane", "lease"}
           /\ r.step = "lease" => ~NeedsLane(r.kind, r.seen)
  BY ObservedCall
<1> QED
  BY <1>1, GoQuiet DEF Leased

\* The locks are given back while the call goes on.
LEMMA GiveUpStep ==
  ASSUME IInv, NEW w \in Actors, GiveUp(w), NEW r \in CallRecord,
         call' = [call EXCEPT ![w] = r], r.step \in {"drain", "lane", "lease"},
         r.op # "none", r.op = "resume" => r.kind = "delete",
         r.step = "lease" => r.op = "recover" /\ ~NeedsLane(r.kind, r.seen),
         UNCHANGED <<rows, disk, contradicted, bounds>>
  PROVE  IInv'
<1>1. /\ LockInv' /\ lease' \in {lease, Nobody} /\ (lease' # lease => lease = w)
      /\ \A b : b # w /\ b \in lane => b \in lane'
  BY GiveUpLocks DEF IInv
<1>2. RowInv'
  BY RowsKept DEF IInv, RowInv, RowTypes, bounds
<1>3. call'[w] = r
  BY DEF IInv, CallInv
<1>4. ActorInv(w)'
  BY <1>3 DEF ActorInv, WriterInv, RecoveryInv, At, Leased
<1>5. lease \in {w, Nobody} \/ UNCHANGED <<plan, repository, journal, lease>>
  BY <1>1 DEF rows, projectRows, lifecycleRows, disk
<1>6. CallInv'
  BY <1>1, <1>4, <1>5, CallLemma
<1> QED
  BY <1>1, <1>2, <1>6 DEF IInv

LEMMA RereadStep ==
  ASSUME IInv, NEW w \in Actors, Reread(w)
  PROVE  IInv'
<1>1. /\ call[w].step = "reread" /\ ActorInv(w) /\ call[w] \in CallRecord
      /\ call[w].op = "recover"
  BY AdvanceHolds DEF Reread, At, Leased, ActorInv, RecoveryInv
<1>2. CASE Unchanged(w)
  <2> DEFINE r == [call[w] EXCEPT !.step = "work"]
  <2>1. /\ r \in CallRecord /\ r.step = "work" /\ r.op = "recover"
        /\ r.kind = call[w].kind /\ r.seen = call[w].seen
    BY <1>1, Stepped DEF Label
  <2>2. call' = [call EXCEPT ![w] = r] /\ UNCHANGED locks
    BY <1>2 DEF Reread, Goto
  <2> HIDE DEF r
  <2>3. journal[r.kind] = r.seen
    BY <1>2, <2>1 DEF Unchanged
  <2>4. r.kind = "transfer" /\ r.seen = "lan-activated" => w \in lane
    BY <1>1, <2>1 DEF ActorInv, RecoveryInv, NeedsLane
  <2> QED
    BY <1>1, <2>1, <2>2, <2>3, <2>4, GoQuiet DEF Reread, Leased
<1>3. CASE ~Unchanged(w)
  <2>1. call[w].kind \in Kinds /\ call[w].rounds \in Nat
    BY <1>1 DEF CallRecord
  <2>2. GiveUp(w) /\ Observed(w, call[w].kind, call[w].rounds)
    BY <1>3 DEF Reread
  <2>3. PICK r \in CallRecord :
           /\ call' = [call EXCEPT ![w] = r] /\ call'[w] = r
           /\ r.op = "recover" /\ r.step \in {"drain", "lane", "lease"}
           /\ r.step = "lease" => ~NeedsLane(r.kind, r.seen)
    BY <2>1, <2>2, ObservedCall
  <2> QED
    BY <2>2, <2>3, GiveUpStep DEF Reread
<1> QED
  BY <1>2, <1>3

LEMMA CompleteTransferStep ==
  ASSUME IInv, NEW w \in Actors, CompleteTransfer(w)
  PROVE  IInv'
<1>1. At(w, "work") /\ call[w].kind = "transfer" /\ journal.transfer = "lan-activated"
  BY DEF CompleteTransfer
<1>2. project = "deleting" /\ ~cleanup
  BY <1>1 DEF CompleteTransfer, IInv, RowInv, DeletionInv, Terminated
<1>3. plan.by \in Principals
  BY <1>2 DEF IInv, RowInv, PlanInv
<1>4. /\ RowInv' /\ journal'.transfer = "completed"
  BY <1>2, <1>3, TerminateRows DEF CompleteTransfer
<1>5. "completed" \in Phase
  BY DEF Phase, DeletionPhase
<1>6. CallInv' /\ LockInv'
  BY <1>1, <1>4, <1>5, WorkCall DEF CompleteTransfer
<1> QED
  BY <1>4, <1>6 DEF IInv

\* No owner finds another journal, or a missing reservation, under its lease.
LEMMA NeverContradicted ==
  ASSUME IInv, NEW w \in Actors, At(w, "work")
  PROVE  ~Contradicted(w)
BY WorkHolds DEF Contradicted, Agrees

LEMMA SettleStep ==
  ASSUME IInv, NEW w \in Actors, Settle(w)
  PROVE  IInv'
<1>1. At(w, "work") /\ ~Contradicted(w)
  BY NeverContradicted DEF Settle
<1>2. CASE End(w, "none")
  BY <1>2, EndQuiet DEF Settle
<1>3. CASE Goto(w, "drain") /\ GiveUp(w) /\ UNCHANGED contradicted
  <2> DEFINE r == [call[w] EXCEPT !.step = "drain"]
  <2>1. call[w] \in CallRecord /\ ActorInv(w) /\ call[w].op # "none"
    BY <1>1, WorkHolds
  <2>2. r \in CallRecord /\ r.step = "drain" /\ r.op = call[w].op /\ r.kind = call[w].kind
    BY <2>1, Stepped DEF Label
  <2>3. call' = [call EXCEPT ![w] = r]
    BY <1>3 DEF Goto
  <2>4. r.op = "resume" => r.kind = "delete"
    BY <2>1, <2>2 DEF ActorInv, RecoveryInv
  <2> HIDE DEF r
  <2> QED
    BY <1>3, <2>1, <2>2, <2>3, <2>4, GiveUpStep DEF Settle
<1> QED
  BY <1>1, <1>2, <1>3 DEF Settle

LEMMA DrainStep ==
  ASSUME IInv, NEW w \in Actors, Drain(w)
  PROVE  IInv'
<1>1. ASSUME NEW why \in {"none", "successor"}, End(w, why) PROVE IInv'
  BY <1>1, EndQuiet DEF Drain
<1>2. ASSUME NEW k \in Nonterminal, Observed(w, k, call[w].rounds + 1),
             UNCHANGED <<locks, contradicted>>
      PROVE  IInv'
  <2>1. k \in Kinds /\ call[w].rounds + 1 \in Nat
    BY DEF Nonterminal, IInv, CallInv, CallRecord
  <2> QED
    BY <1>2, <2>1, ObservedStep DEF Drain
<1> QED
  BY <1>1, <1>2 DEF Drain

LEMMA DispatchStep ==
  ASSUME IInv, NEW w \in Actors, Dispatch(w)
  PROVE  IInv'
<1>1. ASSUME AwaitProof(w) PROVE IInv'
  BY <1>1, EndQuiet DEF AwaitProof
<1> QED
  BY <1>1, RereadStep, CompleteTransferStep, DeletionSteps, SettleStep, DrainStep DEF Dispatch

-----------------------------------------------------------------------------
(* Faults. *)

LEMMA FailStep ==
  ASSUME IInv, NEW a \in Actors, Fail(a)
  PROVE  IInv'
<1>1. RowInv'
  BY LifecycleAssumption, RowsKept DEF Fail, IInv, RowInv, RowTypes
<1>2. CallInv' /\ LockInv'
  BY EndLemma DEF Fail, rows, projectRows, lifecycleRows, disk
<1> QED
  BY <1>1, <1>2 DEF IInv

LEMMA CrashStep ==
  ASSUME IInv, Crash
  PROVE  IInv'
<1>1. RowInv'
  BY LifecycleAssumption, RowsKept DEF Crash, IInv, RowInv, RowTypes
<1>2. LockInv'
  <2>1. IsFiniteSet({}) /\ Cardinality({}) = 0
    BY FS_EmptySet
  <2> QED
    BY <2>1, LifecycleAssumption DEF Crash, LockInv
<1>3. call' = [a \in Actors |-> Idle] /\ contradicted' = FALSE
  BY DEF Crash, IInv, CallInv
<1>4. ASSUME NEW a \in Actors PROVE ActorInv(a)'
  BY <1>3, IdleCall DEF ActorInv, WriterInv, RecoveryInv, At, Leased
<1>5. CallInv'
  BY <1>3, <1>4, IdleCall DEF CallInv
<1> QED
  BY <1>1, <1>2, <1>5 DEF IInv

-----------------------------------------------------------------------------
(* The invariant holds. *)

LEMMA InitInv == Init => IInv
<1> SUFFICES ASSUME Init PROVE IInv
  OBVIOUS
<1>1. RowTypes
  <2>1. plan \in [number : 0..MaxPlans, by : Principals \cup {Nobody},
                  phase : CreationPhase \cup {"none"}]
    BY LifecycleAssumption DEF Init, NoPlan
  <2>2. journal \in [Kinds -> Phase] /\ journal.transfer = "none" /\ journal.delete = "none"
    BY DEF Init, Kinds, Phase
  <2>3. terminal \in [kind : {"none", "retire", "transfer"}, by : Principals \cup {Nobody},
                      unacked : SUBSET Principals, acked : SUBSET Principals, kept : BOOLEAN]
        /\ terminal.unacked \cap terminal.acked = {}
    BY DEF Init, NoTerminal
  <2>4. repository \in [number : 0..MaxPlans, stage : Stages, torn : BOOLEAN]
    BY LifecycleAssumption DEF Init, NoRepository, Stages
  <2> QED
    <3>1. 0 \in 0..MaxPlans /\ 0 \in 0..MaxFaults
      BY LifecycleAssumption
    <3>2. /\ project = "none" /\ placement = "none" /\ bindings = {} /\ candidates = {}
          /\ cleanup = FALSE /\ late = FALSE /\ planned = 0 /\ faults = 0
      BY DEF Init
    <3> QED
      BY <2>1, <2>2, <2>3, <2>4, <3>1, <3>2 DEF RowTypes
<1>2. PlanInv /\ ServedInv /\ DeletionInv
  BY DEF Init, PlanInv, ServedInv, DeletionInv, NoPlan, NoTerminal, Unpublished, ContentLeft,
         Terminated
<1>3. LockInv
  <2>1. IsFiniteSet({}) /\ Cardinality({}) = 0
    BY FS_EmptySet
  <2> QED
    BY <2>1, LifecycleAssumption DEF Init, LockInv
<1>4. ASSUME NEW a \in Actors PROVE ActorInv(a)
  <2>1. call[a] = Idle
    BY DEF Init
  <2> QED
    BY <2>1, IdleCall DEF ActorInv, WriterInv, RecoveryInv, At, Leased
<1>5. CallInv
  BY <1>4, IdleCall DEF Init, CallInv
<1> QED
  BY <1>1, <1>2, <1>3, <1>5 DEF IInv, RowInv

LEMMA EnvironmentStep ==
  ASSUME IInv, Environment
  PROVE  IInv'
<1>1. ASSUME NEW p \in Callers, Request(p) PROVE IInv'
  <2>1. p \in Actors
    BY DEF Actors
  <2>2. \E op \in {"create", "retire"} : Begin(p, op, "lane", "delete")
    BY <1>1 DEF Request, AskCreate, AskRetire
  <2> QED
    BY <2>1, <2>2, BeginStep
<1> QED
  BY <1>1, JoinStep, RelinquishStep, TargetActiveStep, TerminalStep DEF Environment

LEMMA RecoverStep ==
  ASSUME IInv, NEW w \in Workers, Recover(w)
  PROVE  IInv'
<1>1. w \in Actors
  BY DEF Actors
<1>2. CASE RecoverCandidate(w)
  <2>1. PICK k \in Kinds : Observe(w, k)
    BY <1>2 DEF RecoverCandidate
  <2> QED
    BY <1>1, <2>1, ObservedStep DEF Observe
<1>3. CASE RecoverCreation(w) \/ RecoverProject(w) \/ ResumeDelete(w)
  <2>1. PICK op \in {"create", "recover", "resume"}, step \in {"lane", "drain"} :
           Begin(w, op, step, "delete")
    BY <1>3 DEF RecoverCreation, RecoverProject, ResumeDelete
  <2> QED
    BY <1>1, <2>1, BeginStep
<1> QED
  BY <1>2, <1>3 DEF Recover

LEMMA StepInv ==
  ASSUME IInv, NEW a \in Actors, Step(a)
  PROVE  IInv'
BY EnterLaneStep, EnterLeaseStep, PlanStep, AdvanceCreationStep, PrepareRetireStep,
   CommitRetireStep, DispatchStep DEF Step, Creation, Retire

LEMMA NextInv == IInv /\ [Next]_vars => IInv'
<1> SUFFICES ASSUME IInv, [Next]_vars PROVE IInv'
  OBVIOUS
<1>1. CASE Next
  BY <1>1, EnvironmentStep, RecoverStep, StepInv, FailStep, CrashStep DEF Next
<1>2. CASE UNCHANGED vars
  <2>1. RowInv'
    BY <1>2, RowsKept DEF IInv, RowInv, RowTypes, vars, bounds
  <2>2. LockInv'
    BY <1>2 DEF IInv, LockInv, vars, locks
  <2>3. CallInv'
    BY <1>2 DEF IInv, CallInv, ActorInv, WriterInv, RecoveryInv, At, vars, rows, projectRows,
                lifecycleRows, disk, locks
  <2> QED
    BY <2>1, <2>2, <2>3 DEF IInv
<1> QED
  BY <1>1, <1>2

\* The inductive invariant: the plan says how far the Project is, a deletion whose content
\* is left has a closed Project, and who holds the lease alone writes, advances and works
\* (create, retire, recover and #recoverObserved under #acquirePinnedLease).
THEOREM InvariantHolds == Spec => []IInv
BY InitInv, NextInv, PTL DEF Spec

\* A Project that serves has the whole repository of its plan in place (activate against
\* publish, retire and the repository removal of DeletionCoordinator), for any number of
\* lives of a Project ID; the rows keep their types and the lane its limit.
THEOREM ServedProjectsAreWhole == Spec => []ServedWhole
<1>1. IInv => ServedWhole
  <2> SUFFICES ASSUME IInv PROVE ServedWhole
    OBVIOUS
  <2>1. TypeOK
    BY DEF IInv, RowInv, RowTypes, LockInv, TypeOK
  <2>2. project = "active" => plan.phase \in {"activated", "completed"}
    BY DEF IInv, RowInv, RowTypes, PlanInv, CreationPhase, Unpublished
  <2> QED
    BY <2>1, <2>2 DEF IInv, RowInv, ServedInv, ServedWhole
<1> QED
  BY <1>1, InvariantHolds, PTL

\* A deletion's journal, candidate and terminal result outlive the rows that
\* remove_project_coordination_content removes.
THEOREM DeletionOutlivesContent == Spec => []DeletionSurvivesContent
<1>1. IInv => DeletionSurvivesContent
  BY DEF IInv, RowInv, DeletionInv, DeletionSurvivesContent, ContentLeft
<1> QED
  BY <1>1, InvariantHolds, PTL

\* No owner refuses the recovery that #recoverObserved dispatches to it, however many
\* passes, on-demand recoveries and operator commands meet at one journal.
THEOREM RecoveryAccepted == Spec => []RecoveryNeverContradicted
<1>1. IInv => RecoveryNeverContradicted
  BY DEF IInv, CallInv, RecoveryNeverContradicted
<1> QED
  BY <1>1, InvariantHolds, PTL

=============================================================================

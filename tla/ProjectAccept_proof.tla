------------------------ MODULE ProjectAccept_proof ------------------------
(***************************************************************************)
(* Proofs about ProjectAccept, for every number of workers, Members,       *)
(* requests and Git permits, and any number of faults; JournalsAreFenced,  *)
(* for one Git permit per Project.                                         *)
(***************************************************************************)
EXTENDS ProjectAccept, FiniteSetTheorems, TLAPS

-----------------------------------------------------------------------------
(* The inductive invariant. *)

AcceptStep == {"inspect", "prepare", "materialize", "persist", "settle", "update-ref",
               "mark", "complete"}
JournalStep == {"materialize", "persist", "settle", "update-ref", "mark", "complete",
                "r-materialize", "r-persist", "r-rematerialize", "r-settle",
                "r-update-ref", "r-mark", "r-resettle", "r-reupdate-ref",
                "r-complete", "r-classify"}
ResultStep == {"settle", "update-ref", "mark", "complete", "r-rematerialize", "r-settle",
               "r-update-ref", "r-mark", "r-resettle", "r-reupdate-ref", "r-complete"}
UpdateStep == {"update-ref", "r-update-ref", "r-reupdate-ref"}
MarkedStep == {"mark", "complete", "r-mark", "r-complete"}

\* What a worker's step says about its task.
TaskInv(w) ==
  /\ pc[w] \in AcceptStep => task[w] \in AcceptInput
  /\ pc[w] \in {"receive-check", "receive"} => task[w] \in PushTask
  /\ pc[w] = "validate-head" => task[w] \in EnsureTask
  /\ task[w] \in EditTask => requests[task[w].req] # NoRequest

\* A worker past prepare has a journal; past persistResult that journal has a
\* result; and only a merge reaches update-ref.
OpInv(w) ==
  pc[w] \in JournalStep =>
    /\ op[w] \in Op
    /\ journals[op[w]] # NoJournal
    /\ pc[w] \in ResultStep => journals[op[w]].result = PlanResult(op[w])
    /\ pc[w] \in UpdateStep => journals[op[w]].kind = "merge"

\* A recovery that holds the lease works on an unsettled, active journal.
LeaseInv(w) ==
  lease = w /\ pc[w] \in JournalStep /\ pc[w] \in RecoveryStep =>
    journals[op[w]].phase \in ActivePhase

WorkerInv(w) == TaskInv(w) /\ OpInv(w) /\ LeaseInv(w)

\* A persisted result is the one the plan determines.
ResultInv ==
  \A o \in Op : journals[o] # NoJournal =>
    /\ journals[o].result \in {NoOid, PlanResult(o)}
    /\ journals[o].phase \in {"result-persisted", "main-updated", "completed"}
         => journals[o].result = PlanResult(o)
    /\ journals[o].from = "main-updated" => journals[o].result = PlanResult(o)

TypeInv == TypeOK /\ ResultInv /\ \A w \in Worker : WorkerInv(w)

-----------------------------------------------------------------------------
(* Records. *)

\* The kind of a task determines its record type.
LEMMA TaskKinds ==
  ASSUME NEW t \in Task
  PROVE  /\ t.kind = "accept" => t \in AcceptInput
         /\ t.kind = "push" => t \in PushTask
         /\ t.kind = "ensure" => t \in EnsureTask
         /\ t.kind = "edit" => t \in EditTask
         /\ t.kind = "ticket" => t \in TicketTask
         /\ t \in AcceptInput => t.kind = "accept"
         /\ t \in EditTask => t.kind = "edit"
BY DEF Task, AcceptInput, PushTask, EnsureTask, EditTask, TicketTask, RecoverTask, NoTask

\* Every kind of record is a task; the two markers are no edits.
LEMMA TaskTypes ==
  /\ AcceptInput \subseteq Task /\ PushTask \subseteq Task /\ EnsureTask \subseteq Task
  /\ EditTask \subseteq Task /\ TicketTask \subseteq Task
  /\ RecoverTask \in Task /\ NoTask \in Task
  /\ RecoverTask \notin EditTask /\ NoTask \notin EditTask
BY DEF Task, EditTask, RecoverTask, NoTask

\* The plan of a journal determines an object id.
LEMMA PlanResultType ==
  ASSUME TypeOK, NEW o \in Op, journals[o] # NoJournal
  PROVE  /\ journals[o] \in Journal
         /\ PlanResult(o) \in Oid
         /\ MergeCommit(o) \in Oid
<1>1. journals[o] \in Journal
  BY DEF TypeOK
<1>2. journals[o].in.main \in Oid /\ journals[o].in.head \in Oid
  BY <1>1 DEF Journal, AcceptInput
<1>3. o \in Atom
  BY DEF Atom
<1>4. MergeCommit(o) \in Oid
  BY <1>2, <1>3 DEF MergeCommit, Oid
<1> QED
  BY <1>1, <1>2, <1>4 DEF PlanResult

\* Finish ends an operation: what it leaves is well typed.
LEMMA FinishType ==
  ASSUME TypeOK, NEW w \in Worker, Finish(w)
  PROVE  /\ pc' \in [Worker -> Step] /\ task' \in [Worker -> Task]
         /\ op' \in [Worker -> Op \cup {NoOp}] /\ facts' \in [Worker -> {NoOid} \cup Oid]
         /\ seen' \in [Worker -> SUBSET [Member -> Oid]]
         /\ recovered' \subseteq Worker
         /\ permits' \subseteq Worker \X {"operation", "recovery"}
         /\ lease' \in Worker \cup {NoWorker}
         /\ pc'[w] = "idle" /\ task'[w] = NoTask
BY TaskTypes DEF TypeOK, Finish, Release, Step

-----------------------------------------------------------------------------
(* What a step of one worker leaves alone. *)

OthersKeep(w) == \A v \in Worker \ {w} :
  pc'[v] = pc[v] /\ op'[v] = op[v] /\ task'[v] = task[v]

\* A journal keeps its plan and, once it has one, its result.
JournalsKeep == \A o \in Op : journals[o] # NoJournal =>
  /\ journals'[o] # NoJournal
  /\ journals'[o].in = journals[o].in /\ journals'[o].kind = journals[o].kind
  /\ journals[o].result = PlanResult(o) => journals'[o].result = journals[o].result

RequestsKeep == \A r \in Request : requests[r] # NoRequest => requests'[r] # NoRequest

\* No other worker gains the lease, or keeps it while a journal changes.
LeaseKeep(w) == \A v \in Worker \ {w} : lease' = v => lease = v /\ journals' = journals

Keeps(w) == OthersKeep(w) /\ JournalsKeep /\ RequestsKeep /\ LeaseKeep(w)

\* The other workers' part of the invariant survives such a step.
LEMMA OthersLemma ==
  ASSUME TypeInv, NEW w \in Worker, Keeps(w), NEW v \in Worker \ {w}
  PROVE  WorkerInv(v)'
<1>1. WorkerInv(v) /\ pc'[v] = pc[v] /\ op'[v] = op[v] /\ task'[v] = task[v]
  BY DEF TypeInv, Keeps, OthersKeep
<1>2. TaskInv(v)'
  <2>1. TaskInv(v)
    BY <1>1 DEF WorkerInv
  <2>2. ASSUME task[v] \in EditTask PROVE task[v].req \in Request
    BY <2>2 DEF EditTask
  <2> QED
    BY <1>1, <2>1, <2>2 DEF TaskInv, Keeps, RequestsKeep
<1>3. OpInv(v)'
  BY <1>1 DEF WorkerInv, OpInv, Keeps, JournalsKeep, PlanResult, MergeCommit
<1>4. LeaseInv(v)'
  BY <1>1 DEF WorkerInv, LeaseInv, Keeps, LeaseKeep
<1> QED
  BY <1>2, <1>3, <1>4 DEF WorkerInv

\* A step that leaves journals and requests alone.
LEMMA QuietLemma ==
  ASSUME TypeInv, NEW w \in Worker, UNCHANGED <<journals, requests>>,
         OthersKeep(w), lease' \in {lease, w, NoWorker}, WorkerInv(w)', TypeOK'
  PROVE  TypeInv'
<1>1. Keeps(w)
  BY ConstantAssumption DEF Keeps, JournalsKeep, RequestsKeep, LeaseKeep, TypeInv, TypeOK
<1>2. ResultInv'
  BY DEF TypeInv, ResultInv, PlanResult, MergeCommit
<1> QED
  BY <1>1, <1>2, OthersLemma DEF TypeInv

\* An operation that ends without touching journals or requests.
LEMMA FinishQuiet ==
  ASSUME TypeInv, NEW w \in Worker, Finish(w), UNCHANGED <<journals, requests>>, TypeOK'
  PROVE  TypeInv'
<1>1. OthersKeep(w) /\ lease' \in {lease, w, NoWorker}
  BY DEF TypeInv, TypeOK, Finish, OthersKeep
<1>2. pc'[w] = "idle" /\ task'[w] = NoTask
  BY DEF TypeInv, TypeOK, Finish
<1>3. WorkerInv(w)'
  BY <1>2, TaskTypes
     DEF WorkerInv, TaskInv, OpInv, LeaseInv, AcceptStep, JournalStep, RecoveryStep
<1> QED
  BY <1>1, <1>3, QuietLemma

\* The same, when only the worker's own state changes.
LEMMA FailType ==
  ASSUME TypeInv, NEW w \in Worker, Finish(w), UNCHANGED <<dbVars, gitVars, clientVars>>
  PROVE  TypeInv'
<1>1. TypeOK'
  <2>1. TypeOK
    BY DEF TypeInv
  <2> QED
    BY <2>1, FinishType DEF TypeOK, dbVars, gitVars, clientVars
<1> QED
  BY <1>1, FinishQuiet DEF dbVars

\* A step that only moves a worker's program counter to a step that is at
\* most as demanding.
LEMMA LocalType ==
  ASSUME TypeInv, NEW w \in Worker, NEW step \in Step, Local(w, step),
         UNCHANGED <<dbVars, gitVars, clientVars>>,
         step \in AcceptStep => task[w] \in AcceptInput,
         step \in {"receive-check", "receive"} => task[w] \in PushTask,
         step = "validate-head" => task[w] \in EnsureTask,
         step \in JournalStep => pc[w] \in JournalStep,
         step \in RecoveryStep <=> pc[w] \in RecoveryStep,
         step \in ResultStep => journals[op[w]].result = PlanResult(op[w]),
         step \notin UpdateStep
  PROVE  TypeInv'
<1>1. TypeOK'
  BY DEF TypeInv, TypeOK, Local, Goto, dbVars, gitVars, clientVars
<1>2. OthersKeep(w) /\ pc'[w] = step /\ UNCHANGED <<journals, requests, task, op, lease>>
  BY DEF TypeInv, TypeOK, Local, Goto, OthersKeep, dbVars
<1>3. WorkerInv(w)
  BY DEF TypeInv
<1>4. TaskInv(w)'
  BY <1>2, <1>3 DEF WorkerInv, TaskInv
<1>5. OpInv(w)'
  BY <1>2, <1>3 DEF WorkerInv, OpInv, PlanResult, MergeCommit
<1>6. LeaseInv(w)'
  BY <1>2, <1>3 DEF WorkerInv, LeaseInv
<1> QED
  BY <1>1, <1>2, <1>4, <1>5, <1>6, QuietLemma DEF WorkerInv

\* A failed Git step of a recovery leads to its classification. Main is where it
\* was, or where an update-ref has moved it.
LEMMA GitFailsStep ==
  ASSUME TypeOK, NEW w \in Worker, GitFails(w)
  PROVE  /\ pc[w] \in JournalStep /\ pc[w] \in RecoveryStep /\ pc'[w] = "r-classify"
         /\ OthersKeep(w)
         /\ UNCHANGED <<dbVars, refs, sent, replies, started, task, op, facts, seen, recovered,
                        permits, lease>>
         /\ \/ UNCHANGED gitMain
            \/ pc[w] \in UpdateStep /\ gitMain' = CasMain(journals[op[w]])
<1>1. pc[w] \in JournalStep /\ pc[w] \in RecoveryStep
  BY DEF GitFails, RecoveryGit, RecoveryUpdate, JournalStep, RecoveryStep
<1>2. \/ UNCHANGED gitMain
      \/ pc[w] \in UpdateStep /\ gitMain' = CasMain(journals[op[w]])
  BY DEF GitFails, RecoveryUpdate, UpdateStep
<1> QED
  BY <1>1, <1>2 DEF GitFails, Local, Goto, OthersKeep, TypeOK

-----------------------------------------------------------------------------
(* Type correctness, one action at a time. *)

\* Starting an operation preserves the type invariant.
LEMMA StartType ==
  ASSUME TypeInv, NEW w \in Worker, NEW t \in Task, NEW step \in {"preflight", "reserve", "admit"},
         Start(w, t, step), sent' \subseteq AcceptInput,
         t \in EditTask => requests[t.req] # NoRequest
  PROVE  TypeInv'
<1>1. TypeOK'
  BY ConstantAssumption DEF TypeInv, TypeOK, Start, dbVars, gitVars, Step
<1>2. /\ OthersKeep(w) /\ pc'[w] = step /\ task'[w] = t
      /\ UNCHANGED <<journals, requests, lease>>
  BY DEF TypeInv, TypeOK, Start, OthersKeep, dbVars
<1>3. WorkerInv(w)'
  BY <1>2 DEF WorkerInv, TaskInv, OpInv, LeaseInv, AcceptStep, JournalStep, RecoveryStep
<1> QED
  BY <1>1, <1>2, <1>3, QuietLemma

\* What a client sends for a request it read is well typed.
LEMMA CurrentInputType ==
  ASSUME TypeOK, NEW a \in Member, NEW k \in Key, NEW r \in Request, requests[r] # NoRequest
  PROVE  CurrentInput(a, k, r) \in AcceptInput
<1>1. requests[r] \in RequestRow
  BY DEF TypeOK
<1>2. requests[r].resolves \subseteq Ticket /\ requests[r].head \in Oid /\ requests[r].rev \in Nat
  BY <1>1 DEF RequestRow
<1>3. ResolvingTickets(r) \in SUBSET (Ticket \X Nat)
  BY <1>2 DEF TypeOK, TicketRow, ResolvingTickets
<1> QED
  BY <1>2, <1>3 DEF CurrentInput, AcceptInput, TypeOK

\* A client that starts an operation preserves the type invariant.
LEMMA ClientStartType ==
  ASSUME TypeInv, NEW w \in Worker, ClientStart(w)
  PROVE  TypeInv'
<1>0. TypeOK
  BY DEF TypeInv
<1>1. CASE StartAccept(w)
  <2>1. PICK in \in {CurrentInput(a, k, r) : a \in Member, k \in Key,
                     r \in {q \in Request : requests[q] # NoRequest}} \cup sent :
           Start(w, in, "reserve") /\ sent' = sent \cup {in}
    BY <1>1 DEF StartAccept
  <2>2. in \in AcceptInput
    BY <1>0, <2>1, CurrentInputType DEF TypeOK
  <2>3. in \in Task /\ in \notin EditTask
    BY <2>2, TaskTypes DEF AcceptInput, EditTask
  <2>4. sent' \subseteq AcceptInput
    BY <1>0, <2>1, <2>2 DEF TypeOK
  <2> QED
    BY <2>1, <2>3, <2>4, StartType
<1>2. CASE StartPush(w)
  <2>0. PICK m \in Member :
          \E new \in {refs[m] \cup {c} : c \in FreshChange} \cup {gitMain}
                      \cup {refs[m] \cup gitMain \cup {c} : c \in FreshChange} :
            /\ Start(w, [kind |-> "push", actor |-> m, old |-> refs[m], new |-> new],
                     "preflight")
            /\ UNCHANGED sent
    BY <1>2 DEF StartPush
  <2>1. PICK new \in {refs[m] \cup {c} : c \in FreshChange} \cup {gitMain}
                     \cup {refs[m] \cup gitMain \cup {c} : c \in FreshChange} :
          /\ Start(w, [kind |-> "push", actor |-> m, old |-> refs[m], new |-> new],
                  "preflight")
          /\ UNCHANGED sent
    BY <2>0
  <2>2. refs[m] \in Oid /\ new \in Oid
    BY <1>0, <2>1 DEF TypeOK, FreshChange, Oid, Atom
  <2>3. [kind |-> "push", actor |-> m, old |-> refs[m], new |-> new] \in PushTask
    BY <2>2 DEF PushTask
  <2>4. [kind |-> "push", actor |-> m, old |-> refs[m], new |-> new] \in Task \ EditTask
    BY <2>3, TaskTypes DEF EditTask
  <2> QED
    BY <1>0, <2>1, <2>4, StartType DEF TypeOK
<1>3. CASE StartEnsure(w)
  <2>1. PICK m \in Member, ts \in SUBSET Ticket :
          /\ Start(w, [kind |-> "ensure", actor |-> m, head |-> refs[m], main |-> dbMain,
                      resolves |-> ts], "preflight")
          /\ UNCHANGED sent
    BY <1>3 DEF StartEnsure
  <2>2. [kind |-> "ensure", actor |-> m, head |-> refs[m], main |-> dbMain,
         resolves |-> ts] \in EnsureTask
    BY <1>0 DEF EnsureTask, TypeOK
  <2>3. [kind |-> "ensure", actor |-> m, head |-> refs[m], main |-> dbMain,
         resolves |-> ts] \in Task \ EditTask
    BY <2>2, TaskTypes DEF EditTask
  <2> QED
    BY <1>0, <2>1, <2>3, StartType DEF TypeOK
<1>4. CASE StartEdit(w)
  <2>1. PICK m \in Member, ts \in SUBSET Ticket : \E r \in OpenRequest(m) :
          /\ Start(w, [kind |-> "edit", actor |-> m, req |-> r, head |-> requests[r].head,
                      rev |-> requests[r].rev, resolves |-> ts], "admit")
          /\ UNCHANGED sent
    BY <1>4 DEF StartEdit
  <2>2. PICK r \in OpenRequest(m) :
          /\ Start(w, [kind |-> "edit", actor |-> m, req |-> r, head |-> requests[r].head,
                      rev |-> requests[r].rev, resolves |-> ts], "admit")
          /\ UNCHANGED sent
    BY <2>1
  <2> DEFINE t == [kind |-> "edit", actor |-> m, req |-> r, head |-> requests[r].head,
                   rev |-> requests[r].rev, resolves |-> ts]
  <2>3. r \in Request /\ requests[r] # NoRequest /\ requests[r] \in RequestRow
    BY <1>0, <2>2 DEF OpenRequest, TypeOK
  <2>4. t \in EditTask
    BY <2>3 DEF EditTask, RequestRow
  <2>5. t \in Task /\ requests[t.req] # NoRequest
    BY <2>3, <2>4, TaskTypes
  <2> HIDE DEF t
  <2>6. Start(w, t, "admit") /\ UNCHANGED sent
    BY <2>2 DEF t
  <2> QED
    BY <1>0, <2>5, <2>6, StartType DEF TypeOK
<1>5. CASE StartTicket(w)
  <2>1. PICK k \in Ticket, s \in {"open", "closed", "content"} :
          /\ Start(w, [kind |-> "ticket", ticket |-> k, rev |-> tickets[k].rev, status |-> s],
                   "admit")
          /\ UNCHANGED sent
    BY <1>5 DEF StartTicket
  <2>2. [kind |-> "ticket", ticket |-> k, rev |-> tickets[k].rev, status |-> s] \in TicketTask
    BY <1>0 DEF TicketTask, TypeOK, TicketRow
  <2>3. [kind |-> "ticket", ticket |-> k, rev |-> tickets[k].rev, status |-> s]
          \in Task \ EditTask
    BY <2>2, TaskTypes DEF EditTask
  <2> QED
    BY <1>0, <2>1, <2>3, StartType DEF TypeOK
<1> QED
  BY <1>1, <1>2, <1>3, <1>4, <1>5 DEF ClientStart

\* A step of w that moves it to a step without obligations.
LEMMA FreeStepType ==
  ASSUME TypeInv, NEW w \in Worker, TypeOK', UNCHANGED <<journals, requests>>,
         OthersKeep(w), lease' \in {lease, w, NoWorker},
         pc'[w] \in {"preflight", "reserve", "admit", "r-reserve", "r-lease"},
         task'[w] \in {task[w], RecoverTask}
  PROVE  TypeInv'
<1>1. WorkerInv(w)
  BY DEF TypeInv
<1>2. WorkerInv(w)'
  BY <1>1, TaskTypes
     DEF WorkerInv, TaskInv, OpInv, LeaseInv, AcceptStep, JournalStep
<1> QED
  BY <1>2, QuietLemma

\* Taking a Git permit preserves the type invariant.
LEMMA ReserveType ==
  ASSUME TypeInv, NEW w \in Worker, StartRecovery(w) \/ Reserve(w) \/ RecoverReserve(w)
  PROVE  TypeInv'
<1>1. TypeOK'
  BY TaskTypes DEF TypeInv, TypeOK, StartRecovery, Reserve, RecoverReserve, Goto, Step,
         RecoveryStep, dbVars, gitVars, clientVars
<1>2. /\ UNCHANGED <<journals, requests, lease>> /\ OthersKeep(w)
      /\ pc'[w] \in {"preflight", "reserve", "admit", "r-reserve", "r-lease"}
      /\ task'[w] \in {task[w], RecoverTask}
  BY DEF TypeInv, TypeOK, StartRecovery, Reserve, RecoverReserve, Goto, OthersKeep, dbVars
<1> QED
  BY <1>1, <1>2, FreeStepType

\* Admit preserves the type invariant.
LEMMA AdmitType ==
  ASSUME TypeInv, NEW w \in Worker, Admit(w)
  PROVE  TypeInv'
<1>0. TypeOK /\ UNCHANGED <<dbVars, gitVars, clientVars>>
  BY DEF TypeInv, Admit
<1>1. CASE Finish(w)
  BY <1>0, <1>1, FailType
<1>2. CASE /\ Goto(w, "r-reserve")
           /\ UNCHANGED <<task, op, facts, seen, recovered, permits, lease>>
  <2>1. TypeOK'
    BY <1>0, <1>2 DEF TypeOK, Goto, Step, RecoveryStep, dbVars, gitVars, clientVars
  <2>2. pc'[w] = "r-reserve" /\ OthersKeep(w) /\ UNCHANGED <<journals, requests, lease, task>>
    BY <1>0, <1>2 DEF TypeOK, Goto, OthersKeep, dbVars
  <2> QED
    BY <2>1, <2>2, FreeStepType
<1>3. CASE /\ UNCHANGED <<task, op, seen, permits>> /\ recovered' = recovered \ {w}
           /\ Goto(w, "reserve") /\ UNCHANGED <<facts, lease>>
  <2>1. TypeOK'
    BY <1>0, <1>3 DEF TypeOK, Goto, Step, dbVars, gitVars, clientVars
  <2>2. pc'[w] = "reserve" /\ OthersKeep(w) /\ UNCHANGED <<journals, requests, lease, task>>
    BY <1>0, <1>3 DEF TypeOK, Goto, OthersKeep, dbVars
  <2> QED
    BY <2>1, <2>2, FreeStepType
<1>4. CASE /\ UNCHANGED <<task, op, seen, permits>> /\ recovered' = recovered \ {w}
           /\ Goto(w, Admitted(task[w].kind)) /\ lease' = w
           /\ facts' = [facts EXCEPT ![w] = dbMain]
  <2>1. Admitted(task[w].kind) \in {"inspect", "receive-check", "validate-head", "apply"}
    BY DEF Admitted
  <2>2. TypeOK'
    BY <1>0, <1>4, <2>1 DEF TypeOK, Goto, Step, dbVars, gitVars, clientVars
  <2>3. /\ pc'[w] = Admitted(task[w].kind) /\ OthersKeep(w)
        /\ UNCHANGED <<journals, requests, task>>
    BY <1>0, <1>4 DEF TypeOK, Goto, OthersKeep, dbVars
  <2>4. task[w] \in Task /\ WorkerInv(w)
    BY <1>0 DEF TypeOK, TypeInv
  <2>5. TaskInv(w)'
    BY <2>3, <2>4, TaskKinds DEF WorkerInv, TaskInv, Admitted, AcceptStep
  <2>6. OpInv(w)' /\ LeaseInv(w)'
    BY <2>1, <2>3 DEF OpInv, LeaseInv, JournalStep
  <2> QED
    BY <1>4, <2>2, <2>3, <2>5, <2>6, QuietLemma DEF WorkerInv
<1> QED
  BY <1>1, <1>2, <1>3, <1>4 DEF Admit

\* Inspect preserves the type invariant.
LEMMA InspectType ==
  ASSUME TypeInv, NEW w \in Worker, Inspect(w)
  PROVE  TypeInv'
<1> DEFINE in == task[w]
           stored == idem[<<in.actor, in.key>>]
<1>0. TypeOK /\ UNCHANGED <<dbVars, gitVars, sent, started, faults, gitFailed>> /\ pc[w] = "inspect"
  BY DEF TypeInv, Inspect
<1>1. in \in AcceptInput
  BY <1>0 DEF TypeInv, WorkerInv, TaskInv, AcceptStep
<1>2. CASE IdempotencyFind(in) = "replay" /\ Reply(w, stored.result) /\ Finish(w)
  <2>1. in.actor \in Member /\ in.key \in Key
    BY <1>1 DEF AcceptInput
  <2>2. stored # NoInput
    BY <1>2 DEF IdempotencyFind
  <2>3. stored.result \in Oid
    BY <1>0, <2>1, <2>2 DEF TypeOK
  <2>4. replies' \subseteq [in: AcceptInput, result: Oid]
    BY <1>0, <1>1, <1>2, <2>3 DEF TypeOK, Reply
  <2>5. TypeOK'
    BY <1>0, <1>2, <2>4, FinishType DEF TypeOK, dbVars, gitVars
  <2> QED
    BY <1>0, <1>2, <2>5, FinishQuiet DEF dbVars
<1>3. CASE UNCHANGED replies /\ Finish(w)
  BY <1>0, <1>3, FailType DEF clientVars
<1>4. CASE UNCHANGED replies /\ Local(w, "prepare")
  <2>1. UNCHANGED <<dbVars, gitVars, clientVars>>
    BY <1>0, <1>4 DEF clientVars
  <2> QED
    BY <1>0, <1>1, <1>4, <2>1, LocalType
       DEF Step, AcceptStep, JournalStep, ResultStep, UpdateStep, RecoveryStep
<1> QED
  BY <1>2, <1>3, <1>4 DEF Inspect

\* A refused Accept step preserves the type invariant.
LEMMA RejectType ==
  ASSUME TypeInv, NEW w \in Worker, Reject(w), UNCHANGED <<dbVars, gitVars, clientVars>>,
         pc[w] \in JournalStep
  PROVE  TypeInv'
<1>1. CASE pc[w] \in RecoveryStep
  <2>1. Local(w, "r-classify")
    BY <1>1 DEF Reject
  <2> QED
    BY <1>1, <2>1, LocalType
       DEF Step, AcceptStep, JournalStep, ResultStep, UpdateStep, RecoveryStep
<1>2. CASE pc[w] \notin RecoveryStep
  BY <1>2, FailType DEF Reject
<1> QED
  BY <1>1, <1>2

\* Materialize preserves the type invariant.
LEMMA MaterializeType ==
  ASSUME TypeInv, NEW w \in Worker, Materialize(w)
  PROVE  TypeInv'
<1>0. /\ pc[w] \in {"materialize", "r-materialize", "r-rematerialize"}
      /\ UNCHANGED <<dbVars, gitVars, clientVars>> /\ WorkerInv(w)
  BY DEF Materialize, TypeInv
<1>1. CASE CanMaterialize(op[w])
  <2>1. CASE pc[w] = "materialize"
    <3>1. Local(w, "persist")
      BY <1>1, <2>1 DEF Materialize
    <3> QED
      BY <1>0, <2>1, <3>1, LocalType DEF WorkerInv, TaskInv,
         Step, AcceptStep, JournalStep, ResultStep, UpdateStep, RecoveryStep
  <2>2. CASE pc[w] = "r-materialize"
    <3>1. Local(w, "r-persist")
      BY <1>1, <2>2 DEF Materialize
    <3> QED
      BY <1>0, <2>2, <3>1, LocalType DEF WorkerInv, TaskInv,
         Step, AcceptStep, JournalStep, ResultStep, UpdateStep, RecoveryStep
  <2>3. CASE pc[w] = "r-rematerialize"
    <3>1. Local(w, "r-settle")
      BY <1>1, <2>3 DEF Materialize
    <3>2. journals[op[w]].result = PlanResult(op[w])
      BY <1>0, <2>3 DEF WorkerInv, OpInv, JournalStep, ResultStep
    <3> QED
      BY <1>0, <2>3, <3>1, <3>2, LocalType DEF
         Step, AcceptStep, JournalStep, ResultStep, UpdateStep, RecoveryStep
  <2> QED
    BY <1>0, <2>1, <2>2, <2>3
<1>2. CASE ~CanMaterialize(op[w])
  BY <1>0, <1>2, RejectType DEF Materialize, JournalStep
<1> QED
  BY <1>1, <1>2

\* A transaction of w that changes journals or requests under its lease.
LEMMA TransactionType ==
  ASSUME TypeInv, NEW w \in Worker, TypeOK', OthersKeep(w), JournalsKeep, RequestsKeep,
         lease' \in {w, NoWorker}, ResultInv', WorkerInv(w)'
  PROVE  TypeInv'
<1>1. LeaseKeep(w)
  BY ConstantAssumption DEF LeaseKeep
<1> QED
  BY <1>1, OthersLemma DEF TypeInv, Keeps

\* Prepare preserves the type invariant.
LEMMA PrepareType ==
  ASSUME TypeInv, NEW w \in Worker, Prepare(w)
  PROVE  TypeInv'
<1> DEFINE in == task[w]
<1>0. TypeOK /\ pc[w] = "prepare" /\ lease = w /\ WorkerInv(w)
  BY DEF TypeInv, Prepare, Revalidate
<1>1. in \in AcceptInput
  BY <1>0 DEF WorkerInv, TaskInv, AcceptStep
<1>2. CASE ~(ValidRequest(in) /\ dbMain = in.main)
  <2>1. Fail(w)
    BY <1>2 DEF Prepare
  <2> QED
    BY <2>1, FailType DEF Fail, clientVars
<1>3. CASE ValidRequest(in) /\ dbMain = in.main
  <2> DEFINE j == [phase |-> "prepared", from |-> "none",
                   kind |-> IF in.head \subseteq in.main THEN "contained" ELSE "merge",
                   in |-> in, owner |-> requests[in.req].owner, result |-> NoOid]
  <2>1. PICK o \in Op :
          /\ journals[o] = NoJournal
          /\ journals' = [journals EXCEPT ![o] = j]
          /\ candidate' = o
          /\ op' = [op EXCEPT ![w] = o]
          /\ Goto(w, "materialize")
          /\ UNCHANGED <<task, facts, seen, recovered, permits, lease, gitVars, clientVars,
                         dbMain, service, requests, tickets, idem, events>>
    BY <1>3 DEF Prepare
  <2>2. requests[in.req] # NoRequest /\ in.req \in Request
    BY <1>1, <1>3 DEF ValidRequest, AcceptInput
  <2>3. requests[in.req].owner \in Member
    BY <1>0, <2>2 DEF TypeOK, RequestRow
  <2>4. j \in Journal
    BY <1>1, <2>3 DEF Journal, Phase, ActivePhase
  <2>5. TypeOK'
    <3> HIDE DEF j
    <3> QED
      BY <1>0, <2>1, <2>4 DEF TypeOK, Goto, Step, gitVars, clientVars
  <2>6. journals'[o] = j /\ \A p \in Op \ {o} : journals'[p] = journals[p]
    BY <1>0, <2>1 DEF TypeOK
  <2>7. journals'[o] # NoJournal /\ journals'[o] \in Journal
    BY <2>4, <2>6, AbsentAssumption
  <2>8. JournalsKeep
    BY <2>1, <2>6 DEF JournalsKeep
  <2>9. OthersKeep(w) /\ pc'[w] = "materialize" /\ op'[w] = o /\ task'[w] = in
    BY <1>0, <2>1 DEF TypeOK, Goto, OthersKeep
  <2>10. ResultInv'
    BY <2>6 DEF TypeInv, ResultInv, PlanResult, MergeCommit
  <2>11. WorkerInv(w)'
    BY <1>0, <1>1, <2>1, <2>7, <2>9 DEF WorkerInv, TaskInv, OpInv, LeaseInv,
         JournalStep, ResultStep, UpdateStep, RecoveryStep
  <2> QED
    BY <1>0, <2>1, <2>5, <2>8, <2>9, <2>10, <2>11, TransactionType DEF RequestsKeep
<1> QED
  BY <1>2, <1>3

\* Facts about a worker at a journal step.
LEMMA AtJournal ==
  ASSUME TypeInv, NEW w \in Worker, pc[w] \in JournalStep
  PROVE  /\ op[w] \in Op /\ journals[op[w]] # NoJournal /\ journals[op[w]] \in Journal
         /\ PlanResult(op[w]) \in Oid
         /\ pc[w] \in ResultStep => journals[op[w]].result = PlanResult(op[w])
         /\ pc[w] \in UpdateStep => journals[op[w]].kind = "merge"
         /\ pc[w] \notin RecoveryStep => task[w] \in AcceptInput
         /\ task[w] \in EditTask => requests[task[w].req] # NoRequest
         /\ pc[w] \in RecoveryStep /\ lease = w => journals[op[w]].phase \in ActivePhase
<1>1. TypeOK /\ WorkerInv(w)
  BY DEF TypeInv
<1>2. op[w] \in Op /\ journals[op[w]] # NoJournal
  BY <1>1 DEF WorkerInv, OpInv
<1>3. journals[op[w]] \in Journal /\ PlanResult(op[w]) \in Oid
  BY <1>1, <1>2, PlanResultType
<1> QED
  BY <1>1, <1>2, <1>3
     DEF WorkerInv, OpInv, TaskInv, LeaseInv, JournalStep, RecoveryStep, AcceptStep

\* Changing the phase, the origin or the result of one journal to its plan's.
Moved(o, phase, from, result) ==
  journals' = [journals EXCEPT ![o] = [@ EXCEPT !.phase = phase, !.from = from,
                                                !.result = result]]

\* Such a change keeps the plan, the type and the result of every journal.
LEMMA PhaseChange ==
  ASSUME TypeInv, NEW o \in Op, journals[o] # NoJournal, NEW phase \in Phase,
         NEW from \in ActivePhase \cup {"none"},
         NEW result \in {journals[o].result, PlanResult(o)},
         Moved(o, phase, from, result),
         phase \in {"result-persisted", "main-updated", "completed"} => result = PlanResult(o),
         from = "main-updated" => result = PlanResult(o)
  PROVE  /\ journals' \in [Op -> Journal \cup {NoJournal}]
         /\ JournalsKeep /\ ResultInv'
         /\ journals'[o] \in Journal /\ journals'[o] # NoJournal
         /\ journals'[o].phase = phase /\ journals'[o].from = from
         /\ journals'[o].result = result /\ journals'[o].kind = journals[o].kind
         /\ journals'[o].in = journals[o].in /\ journals'[o].owner = journals[o].owner
         /\ PlanResult(o)' = PlanResult(o)
         /\ \A p \in Op \ {o} : journals'[p] = journals[p]
<1> DEFINE k == [journals[o] EXCEPT !.phase = phase, !.from = from, !.result = result]
<1>1. journals[o] \in Journal /\ PlanResult(o) \in Oid /\ journals \in [Op -> Journal \cup {NoJournal}]
  BY PlanResultType DEF TypeInv, TypeOK
<1>2. /\ k.phase = phase /\ k.from = from /\ k.result = result
      /\ k.kind = journals[o].kind /\ k.in = journals[o].in /\ k.owner = journals[o].owner
  BY <1>1 DEF Journal
<1>3. k \in Journal
  BY <1>1 DEF Journal
<1>4. journals'[o] = k /\ \A p \in Op \ {o} : journals'[p] = journals[p]
  BY <1>1 DEF Moved
<1>5. journals' \in [Op -> Journal \cup {NoJournal}]
  BY <1>1, <1>3 DEF Moved
<1>6. k # NoJournal
  BY <1>3, AbsentAssumption
<1>7. PlanResult(o)' = PlanResult(o)
  BY <1>2, <1>4 DEF PlanResult, MergeCommit
<1> HIDE DEF k
<1>8. JournalsKeep
  BY <1>2, <1>4, <1>6 DEF JournalsKeep
<1>9. ResultInv'
  <2>1. ResultInv
    BY DEF TypeInv
  <2>2. \A p \in Op \ {o} : PlanResult(p)' = PlanResult(p)
    BY <1>4 DEF PlanResult, MergeCommit
  <2> QED
    BY <1>2, <1>4, <1>7, <2>1, <2>2 DEF ResultInv
<1> QED
  BY <1>2, <1>3, <1>4, <1>5, <1>6, <1>7, <1>8, <1>9

\* PersistResult preserves the type invariant.
LEMMA PersistResultType ==
  ASSUME TypeInv, NEW w \in Worker, PersistResult(w)
  PROVE  TypeInv'
<1> DEFINE step == IF pc[w] = "persist" THEN "settle" ELSE "r-rematerialize"
<1>0. /\ TypeOK /\ pc[w] \in {"persist", "r-persist"} /\ lease = w
      /\ UNCHANGED <<gitVars, clientVars, dbMain, service, requests, tickets, idem, events>>
  BY DEF TypeInv, PersistResult, Transact, Revalidate
<1>a. op[w] \in Op
  BY <1>0, AtJournal DEF JournalStep
<1> PICK o \in Op : o = op[w]
  BY <1>a
<1>1. /\ o \in Op /\ journals[o] # NoJournal /\ journals[o] \in Journal
      /\ PlanResult(o) \in Oid
      /\ pc[w] = "persist" => task[w] \in AcceptInput
      /\ task[w] \in EditTask => requests[task[w].req] # NoRequest
  BY <1>0, AtJournal DEF JournalStep, RecoveryStep
<1>2. CASE journals[o].phase = "prepared"
  <2>1. /\ Moved(o, "result-persisted", journals[o].from, PlanResult(o))
        /\ candidate' = o /\ Local(w, step)
    <3>1. /\ journals' = [journals EXCEPT ![o].phase = "result-persisted",
                                         ![o].result = PlanResult(o)]
          /\ candidate' = o /\ Local(w, step)
      BY <1>2 DEF PersistResult
    <3> QED
      BY <1>1, <3>1 DEF Journal, Moved
  <2>a. /\ journals[o].from \in ActivePhase \cup {"none"}
        /\ {"result-persisted", "main-updated"} \subseteq Phase
    BY <1>1 DEF Journal, Phase, ActivePhase
  <2>2. /\ journals' \in [Op -> Journal \cup {NoJournal}]
        /\ JournalsKeep /\ ResultInv' /\ journals'[o] # NoJournal
        /\ journals'[o].phase = "result-persisted"
        /\ journals'[o].result = PlanResult(o)' /\ journals'[o].kind = journals[o].kind
    BY <1>1, <2>1, <2>a, PhaseChange
  <2>3. TypeOK'
    BY <1>0, <1>1, <2>1, <2>2 DEF TypeOK, Local, Goto, Step, RecoveryStep, gitVars, clientVars
  <2>4. /\ OthersKeep(w) /\ pc'[w] = step
        /\ UNCHANGED <<op, task, lease, requests>>
    BY <1>0, <2>1 DEF TypeOK, Local, Goto, OthersKeep
  <2>5. WorkerInv(w)'
    BY <1>0, <1>1, <2>2, <2>4 DEF WorkerInv, TaskInv, OpInv, LeaseInv, JournalStep,
       ResultStep, UpdateStep, RecoveryStep, ActivePhase, AcceptStep
  <2> QED
    BY <1>0, <2>2, <2>3, <2>4, <2>5, TransactionType DEF RequestsKeep
<1>3. CASE journals[o].phase # "prepared"
  <2>1. Reject(w) /\ UNCHANGED <<dbVars, gitVars, clientVars>>
    BY <1>0, <1>3 DEF PersistResult, dbVars
  <2> QED
    BY <1>0, <2>1, RejectType DEF JournalStep
<1> QED
  BY <1>2, <1>3

\* MarkMainUpdated preserves the type invariant.
LEMMA MarkMainUpdatedType ==
  ASSUME TypeInv, NEW w \in Worker, MarkMainUpdated(w)
  PROVE  TypeInv'
<1> DEFINE step == IF pc[w] = "mark" THEN "complete" ELSE "r-resettle"
<1>0. /\ TypeOK /\ pc[w] \in {"mark", "r-mark"} /\ lease = w
      /\ UNCHANGED <<gitVars, clientVars, dbMain, service, requests, tickets, idem, events>>
  BY DEF TypeInv, MarkMainUpdated, Transact, Revalidate
<1>a. op[w] \in Op
  BY <1>0, AtJournal DEF JournalStep
<1> PICK o \in Op : o = op[w]
  BY <1>a
<1>1. /\ o \in Op /\ journals[o] # NoJournal /\ journals[o] \in Journal
      /\ journals[o].result = PlanResult(o)
      /\ pc[w] = "mark" => task[w] \in AcceptInput
      /\ task[w] \in EditTask => requests[task[w].req] # NoRequest
  BY <1>0, AtJournal DEF JournalStep, RecoveryStep, ResultStep
<1>2. CASE journals[o].phase = "result-persisted"
  <2>1. /\ Moved(o, "main-updated", journals[o].from, journals[o].result)
        /\ candidate' = o /\ Local(w, step)
    <3>1. /\ journals' = [journals EXCEPT ![o].phase = "main-updated"]
          /\ candidate' = o /\ Local(w, step)
      BY <1>2 DEF MarkMainUpdated
    <3> QED
      BY <1>1, <3>1 DEF Journal, Moved
  <2>a. /\ journals[o].from \in ActivePhase \cup {"none"}
        /\ {"result-persisted", "main-updated"} \subseteq Phase
    BY <1>1 DEF Journal, Phase, ActivePhase
  <2>2. /\ journals' \in [Op -> Journal \cup {NoJournal}]
        /\ JournalsKeep /\ ResultInv' /\ journals'[o] # NoJournal
        /\ journals'[o].phase = "main-updated"
        /\ journals'[o].result = PlanResult(o)' /\ journals'[o].kind = journals[o].kind
    BY <1>1, <2>1, <2>a, PhaseChange
  <2>3. TypeOK'
    BY <1>0, <1>1, <2>1, <2>2 DEF TypeOK, Local, Goto, Step, RecoveryStep, gitVars, clientVars
  <2>4. /\ OthersKeep(w) /\ pc'[w] = step
        /\ UNCHANGED <<op, task, lease, requests>>
    BY <1>0, <2>1 DEF TypeOK, Local, Goto, OthersKeep
  <2>5. WorkerInv(w)'
    BY <1>0, <1>1, <2>2, <2>4 DEF WorkerInv, TaskInv, OpInv, LeaseInv, JournalStep,
       ResultStep, UpdateStep, RecoveryStep, ActivePhase, AcceptStep
  <2> QED
    BY <1>0, <2>2, <2>3, <2>4, <2>5, TransactionType DEF RequestsKeep
<1>3. CASE journals[o].phase # "result-persisted"
  <2>1. Reject(w) /\ UNCHANGED <<dbVars, gitVars, clientVars>>
    BY <1>0, <1>3 DEF MarkMainUpdated, dbVars
  <2> QED
    BY <1>0, <2>1, RejectType DEF JournalStep
<1> QED
  BY <1>2, <1>3

\* The steps that settleAcceptMain moves between.
LEMMA SettledSteps ==
  ASSUME TypeInv, NEW w \in Worker,
         pc[w] \in {"settle", "r-settle", "r-resettle"} \cup UpdateStep, Settled(w)
  PROVE  /\ pc' \in [Worker -> Step] /\ \A v \in Worker \ {w} : pc'[v] = pc[v]
         /\ pc'[w] \in {"mark", "r-mark", "r-complete"}
         /\ pc'[w] \in RecoveryStep <=> pc[w] \in RecoveryStep
BY DEF TypeInv, TypeOK, Settled, Goto, UpdateStep, Step, RecoveryStep

\* A Git step of w at a journal step, which stays at a journal step.
LEMMA GitStepType ==
  ASSUME TypeInv, NEW w \in Worker, pc[w] \in ResultStep, pc' \in [Worker -> Step],
         \A v \in Worker \ {w} : pc'[v] = pc[v],
         pc'[w] \in ResultStep, pc'[w] \in RecoveryStep <=> pc[w] \in RecoveryStep,
         pc'[w] \in UpdateStep => journals[op[w]].kind = "merge",
         gitMain' \in Oid, seen' \in [Worker -> SUBSET [Member -> Oid]],
         UNCHANGED <<dbVars, refs, task, op, facts, recovered, permits, lease, clientVars>>
  PROVE  TypeInv'
<1>1. TypeOK'
  BY DEF TypeInv, TypeOK, dbVars, clientVars
<1>2. OthersKeep(w) /\ UNCHANGED <<journals, requests, task, op, lease>>
  BY DEF OthersKeep, dbVars
<1>3. WorkerInv(w) /\ pc[w] \in JournalStep /\ pc'[w] \in JournalStep
  BY DEF TypeInv, ResultStep, JournalStep
<1>4. TaskInv(w)'
  BY <1>2, <1>3, AtJournal DEF WorkerInv, TaskInv, AcceptStep, JournalStep, RecoveryStep
<1>5. OpInv(w)'
  BY <1>2, <1>3 DEF WorkerInv, OpInv, PlanResult, MergeCommit
<1>6. LeaseInv(w)'
  BY <1>2, <1>3 DEF WorkerInv, LeaseInv
<1> QED
  BY <1>1, <1>2, <1>4, <1>5, <1>6, QuietLemma DEF WorkerInv

\* SettleMain preserves the type invariant.
LEMMA SettleMainType ==
  ASSUME TypeInv, NEW w \in Worker, SettleMain(w)
  PROVE  TypeInv'
<1> DEFINE j == journals[op[w]]
<1>0. /\ TypeOK /\ pc[w] \in {"settle", "r-settle", "r-resettle"}
      /\ UNCHANGED <<dbVars, gitVars, clientVars>> /\ pc[w] \in ResultStep
      /\ gitMain' \in Oid /\ UNCHANGED refs
  BY DEF TypeInv, TypeOK, SettleMain, ResultStep, gitVars
<1>1. CASE Settled(w) /\ UNCHANGED <<task, op, facts, seen, recovered, permits, lease>>
  <2>1. seen' \in [Worker -> SUBSET [Member -> Oid]]
    BY <1>0, <1>1 DEF TypeOK
  <2> QED
    BY <1>0, <1>1, <2>1, SettledSteps, GitStepType DEF ResultStep, UpdateStep
<1>2. CASE /\ j.kind = "merge"
           /\ Goto(w, CASE pc[w] = "settle" -> "update-ref"
                       [] pc[w] = "r-settle" -> "r-update-ref"
                       [] pc[w] = "r-resettle" -> "r-reupdate-ref")
           /\ seen' = [seen EXCEPT ![w] = {refs}]
           /\ UNCHANGED <<task, op, facts, recovered, permits, lease>>
  <2>1. seen' \in [Worker -> SUBSET [Member -> Oid]]
    BY <1>0, <1>2 DEF TypeOK
  <2>2. /\ pc' \in [Worker -> Step] /\ \A v \in Worker \ {w} : pc'[v] = pc[v]
        /\ pc'[w] \in UpdateStep /\ (pc'[w] \in RecoveryStep <=> pc[w] \in RecoveryStep)
    BY <1>0, <1>2 DEF TypeOK, Goto, Step, RecoveryStep, UpdateStep
  <2>3. pc'[w] \in ResultStep
    BY <2>2 DEF ResultStep, UpdateStep
  <2> QED
    BY <1>0, <1>2, <2>1, <2>2, <2>3, GitStepType
<1>3. CASE Reject(w)
  BY <1>0, <1>3, RejectType DEF JournalStep
<1> QED
  BY <1>1, <1>2, <1>3 DEF SettleMain

\* UpdateRef preserves the type invariant.
LEMMA UpdateRefType ==
  ASSUME TypeInv, NEW w \in Worker, UpdateRef(w)
  PROVE  TypeInv'
<1> DEFINE j == journals[op[w]]
<1>0. /\ TypeOK /\ pc[w] \in UpdateStep /\ pc[w] \in ResultStep /\ pc[w] \in JournalStep
      /\ UNCHANGED <<dbVars, refs, clientVars>> /\ gitMain' = CasMain(j)
  BY DEF TypeInv, UpdateRef, ResultStep, UpdateStep, JournalStep
<1>1. j.result \in Oid
  BY <1>0, AtJournal
<1>2. gitMain' \in Oid
  BY <1>0, <1>1 DEF TypeOK, CasMain
<1>3. CASE /\ Settled(w) /\ seen' = [seen EXCEPT ![w] = {}]
           /\ UNCHANGED <<task, op, facts, recovered, permits, lease>>
  <2>1. seen' \in [Worker -> SUBSET [Member -> Oid]]
    BY <1>0, <1>3 DEF TypeOK
  <2> QED
    BY <1>0, <1>2, <1>3, <2>1, SettledSteps, GitStepType DEF ResultStep, UpdateStep
<1>4. CASE Reject(w)
  <2>1. CASE pc[w] \in RecoveryStep
    <3>1. Local(w, "r-classify")
      BY <1>4, <2>1 DEF Reject
    <3>2. TypeOK'
      BY <1>0, <1>2, <3>1 DEF TypeOK, Local, Goto, Step, RecoveryStep, dbVars, clientVars
    <3>3. /\ OthersKeep(w) /\ pc'[w] = "r-classify"
          /\ UNCHANGED <<journals, requests, task, op, lease>>
      BY <1>0, <3>1 DEF TypeOK, Local, Goto, OthersKeep, dbVars
    <3>4. WorkerInv(w)'
      BY <1>0, <2>1, <3>3, AtJournal DEF WorkerInv, TaskInv, OpInv, LeaseInv, AcceptStep,
         JournalStep, ResultStep, UpdateStep, RecoveryStep
    <3> QED
      BY <3>2, <3>3, <3>4, QuietLemma
  <2>2. CASE pc[w] \notin RecoveryStep
    <3>1. Finish(w)
      BY <1>4, <2>2 DEF Reject
    <3>2. TypeOK'
      BY <1>0, <1>2, <3>1, FinishType DEF TypeOK, dbVars, clientVars
    <3> QED
      BY <1>0, <3>1, <3>2, FinishQuiet DEF dbVars
  <2> QED
    BY <2>1, <2>2
<1> QED
  BY <1>3, <1>4 DEF UpdateRef

\* A failed Git step preserves the type invariant.
LEMMA GitFailsType ==
  ASSUME TypeInv, NEW w \in Worker, GitFails(w)
  PROVE  TypeInv'
<1>0. TypeOK /\ WorkerInv(w) /\ MaxFaults \in Nat
  BY ConstantAssumption DEF TypeInv
<1>1. /\ pc[w] \in JournalStep /\ pc[w] \in RecoveryStep /\ pc'[w] = "r-classify"
      /\ OthersKeep(w)
      /\ UNCHANGED <<dbVars, refs, sent, replies, started, task, op, facts, seen, recovered,
                     permits, lease>>
      /\ \/ UNCHANGED gitMain
         \/ pc[w] \in UpdateStep /\ gitMain' = CasMain(journals[op[w]])
  BY <1>0, GitFailsStep
<1>2. op[w] \in Op
  BY <1>1, AtJournal
<1>3. gitMain' \in Oid
  <2>1. CASE pc[w] \in UpdateStep
    <3>1. pc[w] \in ResultStep
      BY <2>1 DEF UpdateStep, ResultStep
    <3>2. journals[op[w]].result \in Oid
      BY <1>1, <3>1, AtJournal
    <3> QED
      BY <1>0, <1>1, <3>2 DEF TypeOK, CasMain
  <2> QED
    BY <1>0, <1>1, <2>1 DEF TypeOK
<1>4. pc' \in [Worker -> Step]
  BY <1>0 DEF TypeOK, GitFails, Local, Goto, Step, RecoveryStep
<1>5. TypeOK'
  BY <1>0, <1>1, <1>2, <1>3, <1>4 DEF TypeOK, GitFails, dbVars
<1>6. WorkerInv(w)'
  BY <1>0, <1>1, AtJournal DEF WorkerInv, TaskInv, OpInv, LeaseInv, AcceptStep,
     JournalStep, ResultStep, UpdateStep, RecoveryStep, dbVars
<1> QED
  BY <1>1, <1>5, <1>6, QuietLemma DEF dbVars

\* The recovery's end: its worker is free of journal obligations.
LEMMA ResumeType ==
  ASSUME TypeInv, NEW w \in Worker, Resume(w), pc[w] \in RecoveryStep, RequestsKeep
  PROVE  /\ pc' \in [Worker -> Step] /\ task' \in [Worker -> Task]
         /\ op' \in [Worker -> Op \cup {NoOp}] /\ facts' \in [Worker -> {NoOid} \cup Oid]
         /\ seen' \in [Worker -> SUBSET [Member -> Oid]]
         /\ recovered' \subseteq Worker
         /\ permits' \subseteq Worker \X {"operation", "recovery"}
         /\ lease' \in {lease, NoWorker} /\ lease' # w
         /\ OthersKeep(w) /\ WorkerInv(w)'
<1>0. TypeOK /\ WorkerInv(w) /\ NoWorker \notin Worker
  BY ConstantAssumption DEF TypeInv
<1>1. CASE task[w].kind = "recover"
  <2>1. Finish(w)
    BY <1>1 DEF Resume
  <2>2. OthersKeep(w) /\ lease' \in {lease, NoWorker} /\ lease' # w
    BY <1>0, <2>1 DEF TypeOK, Finish, OthersKeep
  <2>3. WorkerInv(w)'
    BY <1>0, <2>1, FinishType, TaskTypes
       DEF WorkerInv, TaskInv, OpInv, LeaseInv, AcceptStep, JournalStep
  <2> QED
    BY <1>0, <2>1, <2>2, <2>3, FinishType
<1>2. CASE task[w].kind # "recover"
  <2>1. /\ pc'[w] \in {"preflight", "admit"} /\ pc' \in [Worker -> Step]
        /\ UNCHANGED <<task, facts>> /\ OthersKeep(w)
        /\ op' \in [Worker -> Op \cup {NoOp}] /\ seen' \in [Worker -> SUBSET [Member -> Oid]]
        /\ recovered' \subseteq Worker
        /\ permits' \subseteq Worker \X {"operation", "recovery"}
        /\ lease' \in {lease, NoWorker} /\ lease' # w
    BY <1>0, <1>2 DEF TypeOK, Resume, Goto, Step, OthersKeep
  <2>2. ASSUME task[w] \in EditTask PROVE task[w].req \in Request
    BY <2>2 DEF EditTask
  <2>3. TaskInv(w)'
    BY <1>0, <2>1, <2>2 DEF WorkerInv, TaskInv, AcceptStep, RequestsKeep
  <2>4. OpInv(w)' /\ LeaseInv(w)'
    BY <2>1 DEF OpInv, LeaseInv, JournalStep
  <2> QED
    BY <1>0, <2>1, <2>3, <2>4 DEF WorkerInv, TypeOK
<1> QED
  BY <1>1, <1>2

\* One transaction of complete leaves the database well typed.
LEMMA SettleJournalType ==
  ASSUME TypeInv, NEW o \in Op, journals[o] # NoJournal, journals[o].phase = "main-updated",
         ValidRequest(journals[o].in), SettleJournal(o)
  PROVE  /\ dbMain' \in Oid /\ service' = service
         /\ journals' \in [Op -> Journal \cup {NoJournal}]
         /\ requests' \in [Request -> RequestRow \cup {NoRequest}]
         /\ tickets' \in [Ticket -> TicketRow]
         /\ idem' \in [Member \X Key -> [in: AcceptInput, result: Oid] \cup {NoInput}]
         /\ candidate' \in Op \cup {NoOp} /\ events' \subseteq [op: Op, main: Oid]
         /\ JournalsKeep /\ RequestsKeep /\ ResultInv' /\ journals[o].result \in Oid
         /\ journals'[o].phase = "completed"
<1> DEFINE j == journals[o]
<1>0. TypeOK /\ j \in Journal /\ PlanResult(o) \in Oid
  BY PlanResultType DEF TypeInv
<1>1. j.result = PlanResult(o)
  BY DEF TypeInv, ResultInv
<1>2. j.in \in AcceptInput /\ j.from \in ActivePhase \cup {"none"} /\ "completed" \in Phase
  BY <1>0 DEF Journal, Phase
<1>3. j.in.req \in Request /\ requests[j.in.req] # NoRequest /\ j.in.actor \in Member
        /\ j.in.key \in Key
  BY <1>2 DEF AcceptInput, ValidRequest
<1>4. requests[j.in.req] \in RequestRow
  BY <1>0, <1>3 DEF TypeOK
<1>5. MergeRow(requests[j.in.req], j.result) \in RequestRow
  BY <1>0, <1>1, <1>4 DEF MergeRow, RequestRow
<1>6. requests' = [requests EXCEPT ![j.in.req] = MergeRow(requests[j.in.req], j.result)]
  BY DEF SettleJournal
<1>7. requests' \in [Request -> RequestRow \cup {NoRequest}] /\ RequestsKeep
  BY <1>0, <1>3, <1>5, <1>6, AbsentAssumption DEF TypeOK, RequestsKeep
<1>8. tickets' \in [Ticket -> TicketRow]
  BY <1>0 DEF TypeOK, SettleJournal, TicketRow
<1>9. Moved(o, "completed", j.from, j.result)
  BY <1>0 DEF SettleJournal, Moved, Journal
<1>10. /\ journals' \in [Op -> Journal \cup {NoJournal}] /\ JournalsKeep /\ ResultInv'
       /\ journals'[o].phase = "completed"
  BY <1>1, <1>2, <1>9, PhaseChange
<1>11. [in |-> j.in, result |-> j.result] \in [in: AcceptInput, result: Oid]
  BY <1>0, <1>1, <1>2
<1>12. idem' \in [Member \X Key -> [in: AcceptInput, result: Oid] \cup {NoInput}]
  BY <1>0, <1>11 DEF TypeOK, SettleJournal
<1>13. events' \subseteq [op: Op, main: Oid] /\ dbMain' \in Oid /\ service' = service
       /\ candidate' \in Op \cup {NoOp}
  BY <1>0, <1>1 DEF TypeOK, SettleJournal, RemoveCandidate
<1> QED
  BY <1>0, <1>1, <1>7, <1>8, <1>10, <1>12, <1>13

\* Complete preserves the type invariant.
LEMMA CompleteType ==
  ASSUME TypeInv, NEW w \in Worker, Complete(w)
  PROVE  TypeInv'
<1>0. /\ TypeOK /\ pc[w] \in {"complete", "r-complete"} /\ lease = w
      /\ UNCHANGED <<gitVars, sent, started, faults, gitFailed>>
  BY DEF TypeInv, Complete, Transact, Revalidate
<1>a. op[w] \in Op
  BY <1>0, AtJournal DEF JournalStep
<1> PICK o \in Op : o = op[w]
  BY <1>a
<1>1. journals[o] # NoJournal /\ (pc[w] = "complete" => task[w] \in AcceptInput)
  BY <1>0, AtJournal DEF JournalStep, RecoveryStep
<1>2. CASE /\ journals[o].phase = "main-updated" /\ CompletionFences(o)
           /\ ResolvedTicketsOpen(o) /\ IdempotencyFree(o)
  <2>1. SettleJournal(o)
    BY <1>2 DEF Complete
  <2>2. /\ dbMain' \in Oid /\ service' = service
        /\ journals' \in [Op -> Journal \cup {NoJournal}]
        /\ requests' \in [Request -> RequestRow \cup {NoRequest}]
        /\ tickets' \in [Ticket -> TicketRow]
        /\ idem' \in [Member \X Key -> [in: AcceptInput, result: Oid] \cup {NoInput}]
        /\ candidate' \in Op \cup {NoOp} /\ events' \subseteq [op: Op, main: Oid]
        /\ JournalsKeep /\ RequestsKeep /\ ResultInv' /\ journals[o].result \in Oid
    BY <1>1, <1>2, <2>1, SettleJournalType DEF CompletionFences
  <2>3. CASE pc[w] = "complete"
    <3>1. Finish(w) /\ Reply(w, journals[o].result)
      BY <1>2, <2>3 DEF Complete
    <3>2. replies' \subseteq [in: AcceptInput, result: Oid]
      BY <1>0, <1>1, <2>2, <2>3, <3>1 DEF TypeOK, Reply
    <3>3. TypeOK'
      BY <1>0, <2>2, <3>1, <3>2, FinishType DEF TypeOK, gitVars
    <3>4. OthersKeep(w) /\ lease' = NoWorker
      BY <1>0, <3>1 DEF TypeOK, Finish, OthersKeep
    <3>5. WorkerInv(w)'
      BY <1>0, <3>1, FinishType, TaskTypes
         DEF WorkerInv, TaskInv, OpInv, LeaseInv, AcceptStep, JournalStep
    <3> QED
      BY <2>2, <3>3, <3>4, <3>5, TransactionType
  <2>4. CASE pc[w] = "r-complete"
    <3>1. Resume(w) /\ UNCHANGED replies
      BY <1>2, <2>4 DEF Complete
    <3>2. pc[w] \in RecoveryStep
      BY <2>4 DEF RecoveryStep
    <3>3. lease' = NoWorker /\ OthersKeep(w) /\ WorkerInv(w)'
      BY <1>0, <2>2, <3>1, <3>2, ResumeType
    <3>4. TypeOK'
      BY <1>0, <2>2, <3>1, <3>2, <3>3, ResumeType DEF TypeOK, gitVars
    <3> QED
      BY <2>2, <3>3, <3>4, TransactionType
  <2> QED
    BY <1>0, <2>3, <2>4
<1>3. CASE ~(/\ journals[o].phase = "main-updated" /\ CompletionFences(o)
             /\ ResolvedTicketsOpen(o) /\ IdempotencyFree(o))
  <2>1. Reject(w) /\ UNCHANGED <<dbVars, gitVars, clientVars>>
    BY <1>0, <1>3 DEF Complete, clientVars
  <2> QED
    BY <1>0, <2>1, RejectType DEF JournalStep
<1> QED
  BY <1>2, <1>3

\* Classify preserves the type invariant.
LEMMA ClassifyType ==
  ASSUME TypeInv, NEW w \in Worker, Classify(w)
  PROVE  TypeInv'
<1>0. /\ TypeOK /\ pc[w] = "r-classify" /\ lease = w /\ Finish(w)
      /\ service' = "recovery-required" /\ candidate' = RemoveCandidate(op[w])
      /\ UNCHANGED <<dbMain, requests, tickets, idem, events, gitVars, clientVars>>
  BY DEF TypeInv, Classify
<1>a. op[w] \in Op
  BY <1>0, AtJournal DEF JournalStep
<1> PICK o \in Op : o = op[w]
  BY <1>a
<1>1. journals[o] # NoJournal /\ journals[o] \in Journal /\ journals[o].phase \in ActivePhase
  BY <1>0, AtJournal DEF JournalStep, RecoveryStep
<1>2. Moved(o, "recovery-required", journals[o].phase, journals[o].result)
  <2>1. journals' = [journals EXCEPT ![o].phase = "recovery-required",
                                     ![o].from = journals[o].phase]
    BY DEF Classify
  <2> QED
    BY <1>1, <2>1 DEF Moved, Journal
<1>3. /\ journals[o].phase = "main-updated" => journals[o].result = PlanResult(o)
      /\ "recovery-required" \in Phase
  BY <1>1 DEF TypeInv, ResultInv, Phase
<1>4. journals' \in [Op -> Journal \cup {NoJournal}] /\ JournalsKeep /\ ResultInv'
  BY <1>1, <1>2, <1>3, PhaseChange
<1>5. TypeOK'
  BY <1>0, <1>4, FinishType DEF TypeOK, RemoveCandidate, gitVars, clientVars
<1>6. OthersKeep(w) /\ lease' = NoWorker
  BY <1>0 DEF TypeOK, Finish, OthersKeep
<1>7. WorkerInv(w)'
  BY <1>0, FinishType, TaskTypes
     DEF WorkerInv, TaskInv, OpInv, LeaseInv, AcceptStep, JournalStep
<1> QED
  BY <1>0, <1>4, <1>5, <1>6, <1>7, TransactionType DEF RequestsKeep

\* RecoverLease preserves the type invariant.
LEMMA RecoverLeaseType ==
  ASSUME TypeInv, NEW w \in Worker, RecoverLease(w)
  PROVE  TypeInv'
<1>0. /\ TypeOK /\ pc[w] = "r-lease" /\ lease = NoWorker /\ WorkerInv(w)
      /\ UNCHANGED <<dbVars, gitVars, clientVars>> /\ pc[w] \in RecoveryStep
  BY DEF TypeInv, RecoverLease, RecoveryStep
<1>1. CASE Resume(w)
  <2>1. RequestsKeep /\ UNCHANGED <<journals, requests>>
    BY <1>0 DEF RequestsKeep, dbVars
  <2>2. lease' \in {lease, NoWorker} /\ OthersKeep(w) /\ WorkerInv(w)'
    BY <1>0, <1>1, <2>1, ResumeType
  <2>3. TypeOK'
    BY <1>0, <1>1, <2>1, <2>2, ResumeType DEF TypeOK, dbVars, gitVars, clientVars
  <2> QED
    BY <2>1, <2>2, <2>3, QuietLemma
<1>2. CASE Finish(w)
  BY <1>0, <1>2, FailType
<1>3. ASSUME NEW o \in Nonterminal, journals[o].phase # "recovery-required",
             op' = [op EXCEPT ![w] = o],
             Goto(w, CASE journals[o].phase = "prepared" -> "r-materialize"
                       [] journals[o].phase = "result-persisted" -> "r-rematerialize"
                       [] journals[o].phase = "main-updated" -> "r-resettle"),
             lease' = w, UNCHANGED <<task, facts, seen, recovered, permits>>
      PROVE  TypeInv'
  <2>1. o \in Op /\ journals[o] # NoJournal /\ journals[o].phase # "completed"
    BY DEF Nonterminal
  <2>2. journals[o].phase \in ActivePhase
    BY <1>0, <1>3, <2>1 DEF TypeOK, Journal, Phase
  <2>3. /\ pc'[w] \in {"r-materialize", "r-rematerialize", "r-resettle"}
        /\ journals[o].phase = "prepared" => pc'[w] = "r-materialize"
        /\ pc' \in [Worker -> Step] /\ op'[w] = o /\ OthersKeep(w)
    BY <1>0, <1>3, <2>2 DEF TypeOK, Goto, ActivePhase, Step, RecoveryStep, OthersKeep
  <2>4. TypeOK'
    BY <1>0, <1>3, <2>1, <2>3 DEF TypeOK, dbVars, gitVars, clientVars
  <2>5. journals[o].phase # "prepared" => journals[o].result = PlanResult(o)
    BY <2>1, <2>2 DEF TypeInv, ResultInv, ActivePhase
  <2>6. UNCHANGED <<journals, requests, task>> /\ PlanResult(o)' = PlanResult(o)
    BY <1>0, <1>3 DEF dbVars, PlanResult, MergeCommit
  <2>7. WorkerInv(w)'
    BY <1>0, <2>1, <2>2, <2>3, <2>5, <2>6 DEF WorkerInv, TaskInv, OpInv, LeaseInv,
       AcceptStep, JournalStep, ResultStep, UpdateStep, ActivePhase
  <2> QED
    BY <1>3, <2>3, <2>4, <2>6, <2>7, QuietLemma
<1> QED
  BY <1>1, <1>2, <1>3 DEF RecoverLease

\* The Git steps of the other writers preserve the type invariant.
LEMMA ReceiveType ==
  ASSUME TypeInv, NEW w \in Worker, ReceiveCheck(w) \/ Receive(w) \/ ValidateHead(w)
  PROVE  TypeInv'
<1>0. TypeOK /\ WorkerInv(w)
  BY DEF TypeInv
<1>1. CASE ReceiveCheck(w)
  <2>1. CASE Local(w, "receive") /\ UNCHANGED <<dbVars, gitVars, clientVars>>
    BY <1>0, <1>1, <2>1, LocalType DEF ReceiveCheck, WorkerInv, TaskInv,
       Step, AcceptStep, JournalStep, ResultStep, UpdateStep, RecoveryStep
  <2>2. CASE Fail(w)
    BY <2>2, FailType DEF Fail, clientVars
  <2> QED
    BY <1>1, <2>1, <2>2 DEF ReceiveCheck
<1>2. CASE Receive(w)
  <2>1. /\ pc[w] = "receive" /\ Finish(w) /\ UNCHANGED <<dbVars, gitMain, clientVars>>
        /\ refs' \in {refs, [refs EXCEPT ![task[w].actor] = task[w].new]}
    BY <1>2 DEF Receive
  <2>2. task[w].new \in Oid
    BY <1>0, <2>1 DEF WorkerInv, TaskInv, PushTask
  <2>3. refs' \in [Member -> Oid]
    BY <1>0, <2>1, <2>2 DEF TypeOK
  <2>4. TypeOK'
    BY <1>0, <2>1, <2>3, FinishType DEF TypeOK, dbVars, clientVars
  <2> QED
    BY <2>1, <2>4, FinishQuiet DEF dbVars
<1>3. CASE ValidateHead(w)
  <2>1. CASE Local(w, "apply") /\ UNCHANGED <<dbVars, gitVars, clientVars>>
    BY <1>0, <1>3, <2>1, LocalType DEF ValidateHead, WorkerInv, TaskInv,
       Step, AcceptStep, JournalStep, ResultStep, UpdateStep, RecoveryStep
  <2>2. CASE Fail(w)
    BY <2>2, FailType DEF Fail, clientVars
  <2> QED
    BY <1>3, <2>1, <2>2 DEF ValidateHead
<1> QED
  BY <1>1, <1>2, <1>3

\* A published request is rewritten, never removed.
LEMMA UpdateOpenType ==
  ASSUME TypeOK, NEW r \in Request, requests[r] # NoRequest, NEW head \in Oid,
         NEW resolves \in SUBSET Ticket, UpdateOpen(r, head, resolves)
  PROVE  requests' \in [Request -> RequestRow \cup {NoRequest}] /\ RequestsKeep
<1>1. requests[r] \in RequestRow
  BY DEF TypeOK
<1>2. CASE requests' = [requests EXCEPT ![r].head = head, ![r].resolves = resolves,
                                        ![r].rev = @ + 1]
  <2> DEFINE row == [owner |-> requests[r].owner, head |-> head, rev |-> requests[r].rev + 1,
                     status |-> requests[r].status, resolves |-> resolves,
                     merged |-> requests[r].merged]
  <2>1. row \in RequestRow
    BY <1>1 DEF RequestRow
  <2>2. requests' = [requests EXCEPT ![r] = row]
    BY <1>1, <1>2 DEF RequestRow, TypeOK
  <2> HIDE DEF row
  <2> QED
    BY <2>1, <2>2, AbsentAssumption DEF TypeOK, RequestsKeep
<1>3. CASE UNCHANGED requests
  BY <1>3 DEF TypeOK, RequestsKeep
<1> QED
  BY <1>2, <1>3 DEF UpdateOpen

\* An operation that ends after changing requests alone.
LEMMA RequestWriteType ==
  ASSUME TypeInv, NEW w \in Worker, Finish(w), lease = w, RequestsKeep,
         requests' \in [Request -> RequestRow \cup {NoRequest}],
         UNCHANGED <<dbMain, service, journals, tickets, idem, candidate, events,
                     gitVars, clientVars>>
  PROVE  TypeInv'
<1>1. TypeOK'
  BY FinishType DEF TypeInv, TypeOK, gitVars, clientVars
<1>2. OthersKeep(w) /\ lease' = NoWorker
  BY DEF TypeInv, TypeOK, Finish, OthersKeep
<1>3. WorkerInv(w)'
  BY FinishType, TaskTypes
     DEF TypeInv, WorkerInv, TaskInv, OpInv, LeaseInv, AcceptStep, JournalStep
<1>4. JournalsKeep /\ ResultInv'
  BY DEF JournalsKeep, TypeInv, ResultInv, PlanResult, MergeCommit
<1> QED
  BY <1>1, <1>2, <1>3, <1>4, TransactionType

\* The transactions of the other writers preserve the type invariant.
LEMMA ApplyType ==
  ASSUME TypeInv, NEW w \in Worker, ApplyEnsure(w) \/ ApplyEdit(w) \/ ApplyTicket(w)
  PROVE  TypeInv'
<1> DEFINE t == task[w]
<1>0. TypeOK /\ WorkerInv(w) /\ t \in Task
  BY DEF TypeInv, TypeOK
<1>1. CASE ApplyEnsure(w)
  <2>1. t \in EnsureTask /\ lease = w
    BY <1>0, <1>1, TaskKinds DEF ApplyEnsure, Revalidate
  <2>2. t.actor \in Member /\ t.head \in Oid /\ t.resolves \in SUBSET Ticket
    BY <2>1 DEF EnsureTask
  <2>3. requests' \in [Request -> RequestRow \cup {NoRequest}] /\ RequestsKeep
    <3>1. ASSUME NEW r \in Request, requests[r] = NoRequest,
                 requests' = [requests EXCEPT ![r] =
                   [owner |-> t.actor, head |-> t.head, rev |-> 1, status |-> "open",
                    resolves |-> t.resolves, merged |-> NoOid]]
          PROVE  requests' \in [Request -> RequestRow \cup {NoRequest}] /\ RequestsKeep
      <4>1. [owner |-> t.actor, head |-> t.head, rev |-> 1, status |-> "open",
             resolves |-> t.resolves, merged |-> NoOid] \in RequestRow
        BY <2>2 DEF RequestRow
      <4> QED
        BY <1>0, <3>1, <4>1 DEF TypeOK, RequestsKeep
    <3>2. ASSUME NEW r \in OpenRequest(t.actor), UpdateOpen(r, t.head, t.resolves)
          PROVE  requests' \in [Request -> RequestRow \cup {NoRequest}] /\ RequestsKeep
      BY <1>0, <2>2, <3>2, UpdateOpenType DEF OpenRequest
    <3> QED
      BY <1>1, <3>1, <3>2 DEF ApplyEnsure
  <2> QED
    BY <1>1, <2>1, <2>3, RequestWriteType DEF ApplyEnsure
<1>2. CASE ApplyEdit(w)
  <2>1. t \in EditTask /\ lease = w
    BY <1>0, <1>2, TaskKinds DEF ApplyEdit, Revalidate
  <2>2. /\ t.req \in Request /\ t.head \in Oid /\ t.resolves \in SUBSET Ticket
        /\ requests[t.req] # NoRequest
    BY <1>0, <2>1 DEF EditTask, WorkerInv, TaskInv
  <2>3. CASE UpdateOpen(t.req, t.head, t.resolves)
    BY <1>0, <1>2, <2>1, <2>2, <2>3, UpdateOpenType, RequestWriteType DEF ApplyEdit
  <2>4. CASE UNCHANGED requests
    <3>1. requests' \in [Request -> RequestRow \cup {NoRequest}] /\ RequestsKeep
      BY <1>0, <2>4 DEF TypeOK, RequestsKeep
    <3> QED
      BY <1>2, <2>1, <3>1, RequestWriteType DEF ApplyEdit
  <2> QED
    BY <1>2, <2>3, <2>4 DEF ApplyEdit
<1>3. CASE ApplyTicket(w)
  <2>1. t \in TicketTask
    BY <1>0, <1>3, TaskKinds DEF ApplyTicket
  <2>2. tickets' \in [Ticket -> TicketRow]
    BY <1>0, <1>3, <2>1 DEF TypeOK, ApplyTicket, TicketRow, TicketTask
  <2>3. TypeOK'
    BY <1>0, <1>3, <2>2, FinishType DEF TypeOK, ApplyTicket, gitVars, clientVars
  <2> QED
    BY <1>3, <2>3, FinishQuiet DEF ApplyTicket
<1> QED
  BY <1>1, <1>2, <1>3

\* Failed transactions, timeouts and cancellations preserve the type invariant.
LEMMA FaultType ==
  ASSUME TypeInv, NEW w \in Worker,
         TransactFails(w) \/ WaitTimeout(w) \/ Interrupt(w) \/ AbandonRecovery(w)
  PROVE  TypeInv'
<1>0. TypeOK /\ WorkerInv(w) /\ MaxFaults \in Nat
  BY ConstantAssumption DEF TypeInv
<1>1. CASE TransactFails(w) \/ WaitTimeout(w)
  BY <1>1, FailType DEF TransactFails, WaitTimeout, Fail, clientVars
<1>2. CASE Interrupt(w)
  <2>1. TypeOK'
    BY <1>0, <1>2, FinishType DEF TypeOK, Interrupt, dbVars, gitVars
  <2> QED
    BY <1>2, <2>1, FinishQuiet DEF Interrupt, dbVars
<1>3. CASE AbandonRecovery(w)
  <2>1. TypeOK'
    BY <1>0, <1>3, TaskTypes DEF TypeOK, AbandonRecovery, dbVars, gitVars
  <2>2. /\ OthersKeep(w) /\ task'[w] = RecoverTask /\ pc[w] \in RecoveryStep
        /\ UNCHANGED <<journals, requests, pc, op, lease>>
    BY <1>0, <1>3 DEF TypeOK, AbandonRecovery, OthersKeep, dbVars
  <2>3. TaskInv(w)'
    BY <2>2, TaskTypes DEF TaskInv, AcceptStep, RecoveryStep
  <2>4. OpInv(w)'
    BY <1>0, <2>2 DEF WorkerInv, OpInv, PlanResult, MergeCommit
  <2>5. LeaseInv(w)'
    BY <1>0, <2>2 DEF WorkerInv, LeaseInv
  <2> QED
    BY <2>1, <2>2, <2>3, <2>4, <2>5, QuietLemma DEF WorkerInv
<1> QED
  BY <1>1, <1>2, <1>3

\* A lost lease and a crash preserve the type invariant.
LEMMA CrashType ==
  ASSUME TypeInv, LeaseLost \/ Crash
  PROVE  TypeInv'
<1>0. TypeOK /\ ResultInv /\ (\A w \in Worker : WorkerInv(w)) /\ MaxFaults \in Nat
  BY ConstantAssumption DEF TypeInv
<1>1. UNCHANGED <<journals, requests>> /\ lease' = NoWorker
  BY DEF LeaseLost, Crash, dbVars
<1>2. ResultInv'
  BY <1>0, <1>1 DEF ResultInv, PlanResult, MergeCommit
<1>3. CASE LeaseLost
  <2>1. TypeOK'
    BY <1>0, <1>3 DEF TypeOK, LeaseLost, dbVars, gitVars
  <2>2. ASSUME NEW w \in Worker PROVE WorkerInv(w)'
    BY <1>0, <1>1, <1>3, ConstantAssumption DEF LeaseLost, WorkerInv, TaskInv, OpInv,
       LeaseInv, PlanResult, MergeCommit
  <2> QED
    BY <1>2, <2>1, <2>2 DEF TypeInv
<1>4. CASE Crash
  <2>1. TypeOK'
    BY <1>0, <1>4, TaskTypes DEF TypeOK, Crash, Step, dbVars, gitVars
  <2>2. ASSUME NEW w \in Worker PROVE WorkerInv(w)'
    <3>1. pc'[w] = "idle" /\ task'[w] = NoTask
      BY <1>4 DEF Crash
    <3> QED
      BY <3>1, TaskTypes
         DEF WorkerInv, TaskInv, OpInv, LeaseInv, AcceptStep, JournalStep
  <2> QED
    BY <1>2, <2>1, <2>2 DEF TypeInv
<1> QED
  BY <1>3, <1>4

\* The type invariant holds initially.
LEMMA TypeInit ==
  ASSUME Init
  PROVE  TypeInv
<1>1. TypeOK
  BY ConstantAssumption, TaskTypes DEF Init, InitWith, TypeOK, Oid, Step, TicketRow
<1>2. ResultInv
  BY DEF Init, InitWith, ResultInv
<1>3. ASSUME NEW w \in Worker PROVE WorkerInv(w)
  <2>1. pc[w] = "idle" /\ task[w] = NoTask
    BY DEF Init, InitWith
  <2> QED
    BY <2>1, TaskTypes DEF WorkerInv, TaskInv, OpInv, LeaseInv, AcceptStep, JournalStep
<1> QED
  BY <1>1, <1>2, <1>3 DEF TypeInv

\* Every step preserves the type invariant.
LEMMA TypeNext ==
  ASSUME TypeInv, [Next]_vars
  PROVE  TypeInv'
<1>1. ASSUME NEW w \in Worker, ClientStart(w) PROVE TypeInv'
  BY <1>1, ClientStartType
<1>2. ASSUME NEW w \in Worker, StartRecovery(w) PROVE TypeInv'
  BY <1>2, ReserveType
<1>3. ASSUME NEW w \in Worker, Progress(w) PROVE TypeInv'
  BY <1>3, ReserveType, AdmitType, InspectType, PrepareType, MaterializeType,
     PersistResultType, SettleMainType, UpdateRefType, MarkMainUpdatedType, CompleteType,
     RecoverLeaseType, ClassifyType, ReceiveType, ApplyType, FaultType DEF Progress
<1>4. ASSUME NEW w \in Worker, Interrupt(w) \/ GitFails(w) \/ AbandonRecovery(w)
      PROVE  TypeInv'
  BY <1>4, FaultType, GitFailsType
<1>5. CASE LeaseLost \/ Crash
  BY <1>5, CrashType
<1>6. CASE UNCHANGED vars
  <2>1. UNCHANGED <<dbVars, gitVars, procVars, clientVars>>
    BY <1>6 DEF vars
  <2>2. TypeOK'
    BY <2>1 DEF TypeInv, TypeOK, dbVars, gitVars, procVars, clientVars
  <2>3. ResultInv' /\ \A w \in Worker : WorkerInv(w)'
    BY <2>1 DEF TypeInv, ResultInv, WorkerInv, TaskInv, OpInv, LeaseInv, PlanResult,
       MergeCommit, dbVars, procVars
  <2> QED
    BY <2>2, <2>3 DEF TypeInv
<1> QED
  BY <1>1, <1>2, <1>3, <1>4, <1>5, <1>6 DEF Next

\* Every reachable state of the Accept protocol is well typed.
THEOREM TypeCorrect == Spec => []TypeOK
<1>1. Init => TypeInv
  BY TypeInit
<1>2. TypeInv /\ [Next]_vars => TypeInv'
  BY TypeNext
<1>3. TypeInv => TypeOK
  BY DEF TypeInv
<1> QED
  BY <1>1, <1>2, <1>3, PTL DEF Spec

-----------------------------------------------------------------------------
(* The stores agree: the inductive invariant. *)

\* The commits that exist: what Members pushed and what a journal planned.
Known == Change \cup {o \in Op : journals[o] # NoJournal}

\* Main, in both stores, is accounted for by the journals; a merge commit is
\* new when it is planned and on main once its journal is completed.
StoreInv ==
  /\ SingleJournal
  /\ MainAgreement
  /\ gitMain \subseteq Known /\ dbMain \subseteq Known
  /\ \A o \in Unsettled : journals[o].in.main = dbMain
  /\ \A o \in Op : journals[o] # NoJournal =>
       /\ o \notin journals[o].in.main
       /\ journals[o].in.main \subseteq Known /\ journals[o].in.head \subseteq Known
       /\ journals[o].kind = "merge" /\ journals[o].phase = "completed" => o \in gitMain

\* No ref, request or input names a commit that does not exist.
OidInv ==
  /\ \A m \in Member : refs[m] \subseteq Known
  /\ \A r \in Request : requests[r] # NoRequest => requests[r].head \subseteq Known
  /\ \A in \in sent : in.head \subseteq Known /\ in.main \subseteq Known

TaskOidInv(w) ==
  /\ task[w] \in AcceptInput => task[w] \in sent
  /\ task[w] \in PushTask => task[w].new \subseteq Known
  /\ task[w] \in EnsureTask \cup EditTask => task[w].head \subseteq Known

\* A worker about to mark or complete an unsettled journal has seen main moved,
\* and nothing has moved it since.
MarkInv(w) ==
  pc[w] \in MarkedStep /\ op[w] \in Unsettled => gitMain = journals[op[w]].result

SafetyInv ==
  TypeInv /\ StoreInv /\ OidInv /\ \A w \in Worker : TaskOidInv(w) /\ MarkInv(w)

\* The unsettled journals are the ones admission sees as nonterminal.
LEMMA SameJournals == Unsettled = Nonterminal
BY DEF Unsettled, Nonterminal

\* A step that leaves main and the journals alone.
LEMMA QuietSafe ==
  ASSUME SafetyInv, TypeInv', UNCHANGED <<dbMain, gitMain, journals>>, OidInv',
         \A v \in Worker : TaskOidInv(v)' /\ MarkInv(v)'
  PROVE  SafetyInv'
<1>1. StoreInv'
  BY DEF SafetyInv, StoreInv, SingleJournal, MainAgreement, Unsettled, Known
<1> QED
  BY <1>1 DEF SafetyInv

OidKeep == UNCHANGED <<refs, requests, sent>>
TaskKeep == \A v \in Worker : task'[v] \in {task[v], NoTask, RecoverTask}
MarkKeep == \A v \in Worker : pc'[v] \in MarkedStep => pc'[v] = pc[v] /\ op'[v] = op[v]

\* The two marker tasks carry no input.
LEMMA NoOtherTask ==
  /\ NoTask \notin AcceptInput /\ NoTask \notin PushTask
  /\ NoTask \notin EnsureTask \cup EditTask
  /\ RecoverTask \notin AcceptInput /\ RecoverTask \notin PushTask
  /\ RecoverTask \notin EnsureTask \cup EditTask
BY DEF NoTask, RecoverTask, AcceptInput, PushTask, EnsureTask, EditTask

\* Unchanged refs, requests and inputs still name existing commits.
LEMMA OidQuiet ==
  ASSUME SafetyInv, OidKeep, UNCHANGED journals
  PROVE  OidInv'
BY DEF SafetyInv, OidKeep, OidInv, Known

\* Tasks that are unchanged or ended still name existing commits.
LEMMA TaskQuiet ==
  ASSUME SafetyInv, TaskKeep, UNCHANGED journals, sent \subseteq sent', NEW v \in Worker
  PROVE  TaskOidInv(v)'
BY NoOtherTask DEF SafetyInv, TaskKeep, TaskOidInv, Known

\* While main and journals stay, a marked step stays justified.
LEMMA MarkQuiet ==
  ASSUME SafetyInv, MarkKeep, UNCHANGED <<gitMain, journals>>, NEW v \in Worker
  PROVE  MarkInv(v)'
BY DEF SafetyInv, MarkKeep, MarkInv, Unsettled

\* Finish and Local change no other worker's control and reach no marked step.
LEMMA FinishKeep ==
  ASSUME TypeOK, NEW w \in Worker, Finish(w)
  PROVE  TaskKeep /\ MarkKeep
BY DEF TypeOK, Finish, TaskKeep, MarkKeep, MarkedStep

\* A local step outside the marked steps keeps tasks and marks.
LEMMA LocalKeep ==
  ASSUME TypeOK, NEW w \in Worker, NEW step \in Step \ MarkedStep, Local(w, step)
  PROVE  TaskKeep /\ MarkKeep
BY DEF TypeOK, Local, Goto, TaskKeep, MarkKeep

\* A refused Accept step keeps tasks and marks.
LEMMA RejectKeep ==
  ASSUME TypeOK, NEW w \in Worker, Reject(w)
  PROVE  TaskKeep /\ MarkKeep
BY FinishKeep, LocalKeep DEF Reject, Step, RecoveryStep, MarkedStep

\* A step that keeps all of these preserves the safety invariant.
LEMMA KeepSafe ==
  ASSUME SafetyInv, TypeInv', OidKeep, TaskKeep, MarkKeep,
         UNCHANGED <<dbMain, gitMain, journals>>
  PROVE  SafetyInv'
<1>1. sent \subseteq sent'
  BY DEF OidKeep
<1> QED
  BY <1>1, OidQuiet, TaskQuiet, MarkQuiet, QuietSafe

\* The steps that touch neither main nor journals, refs, requests or inputs.
LEMMA ControlSafe ==
  ASSUME SafetyInv, TypeInv', NEW w \in Worker,
         \/ StartRecovery(w) \/ Reserve(w) \/ RecoverReserve(w) \/ Admit(w) \/ Inspect(w)
         \/ Materialize(w) \/ RecoverLease(w) \/ ReceiveCheck(w) \/ ValidateHead(w)
         \/ ApplyTicket(w) \/ TransactFails(w) \/ WaitTimeout(w) \/ Interrupt(w)
         \/ AbandonRecovery(w)
  PROVE  SafetyInv'
<1>0. TypeOK
  BY DEF SafetyInv, TypeInv
<1>1. OidKeep /\ UNCHANGED <<dbMain, gitMain, journals>>
  BY DEF OidKeep, StartRecovery, Reserve, RecoverReserve, Admit, Inspect, Materialize,
     RecoverLease, ReceiveCheck, ValidateHead, ApplyTicket, TransactFails, WaitTimeout,
     Interrupt, AbandonRecovery, Fail, dbVars, gitVars, clientVars
<1>2. CASE StartRecovery(w) \/ Reserve(w) \/ RecoverReserve(w) \/ AbandonRecovery(w)
  <2>1. TaskKeep /\ MarkKeep
    BY <1>0, <1>2 DEF TypeOK, StartRecovery, Reserve, RecoverReserve, AbandonRecovery,
       Goto, TaskKeep, MarkKeep, MarkedStep
  <2> QED
    BY <1>1, <2>1, KeepSafe
<1>3. CASE Admit(w)
  <2>1. Admitted(task[w].kind) \notin MarkedStep
    BY DEF Admitted, MarkedStep
  <2>2. CASE Finish(w)
    BY <1>0, <1>1, <2>2, FinishKeep, KeepSafe
  <2>3. CASE ~Finish(w)
    <3>1. TaskKeep /\ MarkKeep
      BY <1>0, <1>3, <2>1, <2>3 DEF TypeOK, Admit, Goto, TaskKeep, MarkKeep, MarkedStep
    <3> QED
      BY <1>1, <3>1, KeepSafe
  <2> QED
    BY <2>2, <2>3
<1>4. CASE Inspect(w) \/ ReceiveCheck(w) \/ ValidateHead(w)
  <2>1. Finish(w) \/ \E step \in {"prepare", "receive", "apply"} : Local(w, step)
    BY <1>4 DEF Inspect, ReceiveCheck, ValidateHead, Fail
  <2>2. TaskKeep /\ MarkKeep
    BY <1>0, <2>1, FinishKeep, LocalKeep DEF Step, MarkedStep
  <2> QED
    BY <1>1, <2>2, KeepSafe
<1>5. CASE Materialize(w)
  <2>1. Reject(w) \/ \E step \in {"persist", "r-persist", "r-settle"} : Local(w, step)
    BY <1>5 DEF Materialize
  <2>2. TaskKeep /\ MarkKeep
    BY <1>0, <2>1, RejectKeep, LocalKeep DEF Step, RecoveryStep, MarkedStep
  <2> QED
    BY <1>1, <2>2, KeepSafe
<1>6. CASE RecoverLease(w)
  <2>1. CASE Finish(w)
    BY <1>0, <1>1, <2>1, FinishKeep, KeepSafe
  <2>2. CASE Resume(w) /\ ~Finish(w)
    <3>1. TaskKeep /\ MarkKeep
      BY <1>0, <2>2 DEF TypeOK, Resume, Goto, TaskKeep, MarkKeep, MarkedStep
    <3> QED
      BY <1>1, <3>1, KeepSafe
  <2>3. ASSUME NEW o \in Nonterminal, journals[o].phase # "recovery-required",
               op' = [op EXCEPT ![w] = o],
               Goto(w, CASE journals[o].phase = "prepared" -> "r-materialize"
                         [] journals[o].phase = "result-persisted" -> "r-rematerialize"
                         [] journals[o].phase = "main-updated" -> "r-resettle"),
               UNCHANGED task
        PROVE  SafetyInv'
    <3>1. journals[o].phase \in ActivePhase
      BY <1>0, <2>3 DEF TypeOK, Nonterminal, Journal, Phase
    <3>2. TaskKeep /\ MarkKeep
      BY <1>0, <2>3, <3>1 DEF TypeOK, Goto, ActivePhase, TaskKeep, MarkKeep, MarkedStep
    <3> QED
      BY <1>1, <3>2, KeepSafe
  <2> QED
    BY <1>6, <2>1, <2>2, <2>3 DEF RecoverLease
<1>7. CASE ApplyTicket(w) \/ TransactFails(w) \/ WaitTimeout(w) \/ Interrupt(w)
  <2>1. Finish(w)
    BY <1>7 DEF ApplyTicket, TransactFails, WaitTimeout, Interrupt, Fail
  <2> QED
    BY <1>0, <1>1, <2>1, FinishKeep, KeepSafe
<1> QED
  BY <1>2, <1>3, <1>4, <1>5, <1>6, <1>7

\* A new task names only commits that exist.
LEMMA StartSafe ==
  ASSUME SafetyInv, TypeInv', NEW w \in Worker, NEW t \in Task, NEW step \in {"preflight", "reserve", "admit"},
         Start(w, t, step), sent \subseteq sent',
         \A in \in sent' : in.head \subseteq Known /\ in.main \subseteq Known,
         t \in AcceptInput => t \in sent', t \in PushTask => t.new \subseteq Known,
         t \in EnsureTask \cup EditTask => t.head \subseteq Known
  PROVE  SafetyInv'
<1>0. TypeOK /\ UNCHANGED <<dbMain, gitMain, journals, refs, requests, op>> /\ Known' = Known
  BY DEF SafetyInv, TypeInv, Start, dbVars, gitVars, Known
<1>1. OidInv'
  BY <1>0 DEF SafetyInv, OidInv
<1>2. MarkKeep
  BY <1>0 DEF TypeOK, Start, MarkKeep, MarkedStep
<1>3. ASSUME NEW v \in Worker PROVE TaskOidInv(v)'
  <2>1. TaskOidInv(v) /\ task'[v] = IF v = w THEN t ELSE task[v]
    BY <1>0 DEF SafetyInv, TypeOK, Start
  <2> QED
    BY <1>0, <2>1 DEF TaskOidInv
<1> QED
  BY <1>0, <1>1, <1>2, <1>3, MarkQuiet, QuietSafe

\* A client that starts an operation preserves the safety invariant.
LEMMA ClientStartSafe ==
  ASSUME SafetyInv, TypeInv', NEW w \in Worker, ClientStart(w)
  PROVE  SafetyInv'
<1>0. TypeOK /\ OidInv /\ dbMain \subseteq Known /\ gitMain \subseteq Known
  BY DEF SafetyInv, TypeInv, StoreInv
<1>1. CASE StartAccept(w)
  <2>1. PICK in \in {CurrentInput(a, k, r) : a \in Member, k \in Key,
                     r \in {q \in Request : requests[q] # NoRequest}} \cup sent :
           Start(w, in, "reserve") /\ sent' = sent \cup {in}
    BY <1>1 DEF StartAccept
  <2>2. in \in AcceptInput
    BY <1>0, <2>1, CurrentInputType DEF TypeOK
  <2>3. in.head \subseteq Known /\ in.main \subseteq Known
    BY <1>0, <2>1 DEF OidInv, CurrentInput
  <2>4. in \in Task /\ in \notin PushTask /\ in \notin EnsureTask \cup EditTask
    BY <2>2, TaskTypes DEF AcceptInput, PushTask, EnsureTask, EditTask
  <2>5. \A x \in sent' : x.head \subseteq Known /\ x.main \subseteq Known
    BY <1>0, <2>1, <2>3 DEF OidInv
  <2> QED
    BY <2>1, <2>4, <2>5, StartSafe
<1>2. CASE StartPush(w)
  <2>0. PICK m \in Member :
          \E new \in {refs[m] \cup {c} : c \in FreshChange} \cup {gitMain}
                      \cup {refs[m] \cup gitMain \cup {c} : c \in FreshChange} :
            /\ Start(w, [kind |-> "push", actor |-> m, old |-> refs[m], new |-> new],
                     "preflight")
            /\ UNCHANGED sent
    BY <1>2 DEF StartPush
  <2>1. PICK new \in {refs[m] \cup {c} : c \in FreshChange} \cup {gitMain}
                     \cup {refs[m] \cup gitMain \cup {c} : c \in FreshChange} :
          /\ Start(w, [kind |-> "push", actor |-> m, old |-> refs[m], new |-> new],
                  "preflight")
          /\ UNCHANGED sent
    BY <2>0
  <2>2. FreshChange \subseteq Known
    BY DEF FreshChange, Known
  <2>3. new \subseteq Known /\ new \in Oid /\ refs[m] \in Oid
    BY <1>0, <2>1, <2>2 DEF OidInv, TypeOK, FreshChange, Oid, Atom
  <2> DEFINE t == [kind |-> "push", actor |-> m, old |-> refs[m], new |-> new]
  <2>4. t \in PushTask /\ t.new = new
    BY <2>3 DEF PushTask
  <2>5. t \in Task /\ t \notin AcceptInput /\ t \notin EnsureTask \cup EditTask
    BY <2>4, TaskTypes DEF AcceptInput, EnsureTask, EditTask
  <2> HIDE DEF t
  <2>6. Start(w, t, "preflight") /\ UNCHANGED sent
    BY <2>1 DEF t
  <2> QED
    BY <1>0, <2>3, <2>4, <2>5, <2>6, StartSafe DEF OidInv
<1>3. CASE StartEnsure(w)
  <2>1. PICK m \in Member, ts \in SUBSET Ticket :
          /\ Start(w, [kind |-> "ensure", actor |-> m, head |-> refs[m], main |-> dbMain,
                      resolves |-> ts], "preflight")
          /\ UNCHANGED sent
    BY <1>3 DEF StartEnsure
  <2> DEFINE t == [kind |-> "ensure", actor |-> m, head |-> refs[m], main |-> dbMain,
                   resolves |-> ts]
  <2>2. t \in EnsureTask /\ t.head \subseteq Known
    BY <1>0 DEF EnsureTask, TypeOK, OidInv
  <2>3. t \in Task /\ t \notin AcceptInput /\ t \notin PushTask
    BY <2>2, TaskTypes DEF AcceptInput, PushTask
  <2> HIDE DEF t
  <2>4. Start(w, t, "preflight") /\ UNCHANGED sent
    BY <2>1 DEF t
  <2> QED
    BY <1>0, <2>2, <2>3, <2>4, StartSafe DEF OidInv
<1>4. CASE StartEdit(w)
  <2>1. PICK m \in Member, ts \in SUBSET Ticket : \E r \in OpenRequest(m) :
          /\ Start(w, [kind |-> "edit", actor |-> m, req |-> r, head |-> requests[r].head,
                      rev |-> requests[r].rev, resolves |-> ts], "admit")
          /\ UNCHANGED sent
    BY <1>4 DEF StartEdit
  <2>2. PICK r \in OpenRequest(m) :
          /\ Start(w, [kind |-> "edit", actor |-> m, req |-> r, head |-> requests[r].head,
                      rev |-> requests[r].rev, resolves |-> ts], "admit")
          /\ UNCHANGED sent
    BY <2>1
  <2> DEFINE t == [kind |-> "edit", actor |-> m, req |-> r, head |-> requests[r].head,
                   rev |-> requests[r].rev, resolves |-> ts]
  <2>3. r \in Request /\ requests[r] # NoRequest /\ requests[r] \in RequestRow
    BY <1>0, <2>2 DEF OpenRequest, TypeOK
  <2>4. t \in EditTask /\ t.head \subseteq Known
    BY <1>0, <2>3 DEF EditTask, RequestRow, OidInv
  <2>5. t \in Task /\ t \notin AcceptInput /\ t \notin PushTask
    BY <2>4, TaskTypes DEF AcceptInput, PushTask
  <2> HIDE DEF t
  <2>6. Start(w, t, "admit") /\ UNCHANGED sent
    BY <2>2 DEF t
  <2> QED
    BY <1>0, <2>4, <2>5, <2>6, StartSafe DEF OidInv
<1>5. CASE StartTicket(w)
  <2>1. PICK k \in Ticket, s \in {"open", "closed", "content"} :
          /\ Start(w, [kind |-> "ticket", ticket |-> k, rev |-> tickets[k].rev, status |-> s],
                   "admit")
          /\ UNCHANGED sent
    BY <1>5 DEF StartTicket
  <2> DEFINE t == [kind |-> "ticket", ticket |-> k, rev |-> tickets[k].rev, status |-> s]
  <2>2. t \in TicketTask
    BY <1>0 DEF TicketTask, TypeOK, TicketRow
  <2>3. t \in Task /\ t \notin AcceptInput /\ t \notin PushTask /\ t \notin EnsureTask \cup EditTask
    BY <2>2, TaskTypes DEF AcceptInput, PushTask, EnsureTask, EditTask
  <2> HIDE DEF t
  <2>4. Start(w, t, "admit") /\ UNCHANGED sent
    BY <2>1 DEF t
  <2> QED
    BY <1>0, <2>3, <2>4, StartSafe DEF OidInv
<1> QED
  BY <1>1, <1>2, <1>3, <1>4, <1>5 DEF ClientStart

\* settleAcceptMain reaches the mark step only when main is the result.
LEMMA SettleMainSafe ==
  ASSUME SafetyInv, TypeInv', NEW w \in Worker, SettleMain(w)
  PROVE  SafetyInv'
<1>0. /\ TypeOK /\ OidKeep /\ UNCHANGED <<dbMain, gitMain, journals>>
      /\ pc[w] \in {"settle", "r-settle", "r-resettle"}
  BY DEF SafetyInv, TypeInv, SettleMain, OidKeep, dbVars, gitVars, clientVars
<1>1. CASE Reject(w)
  BY <1>0, <1>1, RejectKeep, KeepSafe
<1>2. CASE ~Reject(w)
  <2>1. /\ TaskKeep /\ op' = op /\ \A v \in Worker \ {w} : pc'[v] = pc[v]
        /\ pc'[w] \in MarkedStep => gitMain = journals[op[w]].result
    BY <1>0, <1>2 DEF TypeOK, SettleMain, MainSettled, Settled, Goto, TaskKeep, MarkedStep
  <2>2. ASSUME NEW v \in Worker PROVE MarkInv(v)'
    BY <1>0, <2>1 DEF SafetyInv, MarkInv, Unsettled
  <2>3. ASSUME NEW v \in Worker PROVE TaskOidInv(v)'
    BY <1>0, <2>1, TaskQuiet DEF OidKeep
  <2> QED
    BY <1>0, <2>2, <2>3, OidQuiet, QuietSafe
<1> QED
  BY <1>1, <1>2

\* receive-pack and the request writers move refs and heads to existing commits.
LEMMA WriterSafe ==
  ASSUME SafetyInv, TypeInv', NEW w \in Worker, Receive(w) \/ ApplyEnsure(w) \/ ApplyEdit(w)
  PROVE  SafetyInv'
<1>0. /\ TypeOK /\ WorkerInv(w) /\ Finish(w) /\ UNCHANGED <<dbMain, gitMain, journals, sent>>
      /\ OidInv /\ TaskOidInv(w) /\ task[w] \in Task /\ Known' = Known
  BY DEF SafetyInv, TypeInv, TypeOK, Receive, ApplyEnsure, ApplyEdit, dbVars, gitVars,
     clientVars, Known
<1>1. TaskKeep /\ MarkKeep
  BY <1>0, FinishKeep
<1>2. OidInv'
  <2>1. CASE Receive(w)
    <3>1. task[w].new \subseteq Known
      BY <1>0, <2>1 DEF Receive, WorkerInv, TaskInv, TaskOidInv
    <3>2. \A m \in Member : refs'[m] \subseteq Known
      BY <1>0, <2>1, <3>1 DEF Receive, TypeOK, OidInv
    <3>3. UNCHANGED <<requests, sent>>
      BY <2>1 DEF Receive, dbVars, clientVars
    <3> QED
      BY <1>0, <3>2, <3>3 DEF OidInv
  <2>2. ASSUME NEW r \in Request, requests[r] # NoRequest,
               UpdateOpen(r, task[w].head, task[w].resolves), task[w].head \subseteq Known
        PROVE  \A q \in Request : requests'[q] # NoRequest => requests'[q].head \subseteq Known
    <3>1. requests[r] \in RequestRow
      BY <1>0, <2>2 DEF TypeOK
    <3> QED
      BY <1>0, <2>2, <3>1 DEF UpdateOpen, TypeOK, OidInv, RequestRow
  <2>3. CASE ApplyEnsure(w)
    <3>1. task[w] \in EnsureTask
      BY <1>0, <2>3, TaskKinds DEF ApplyEnsure
    <3>2. task[w].head \subseteq Known
      BY <1>0, <3>1 DEF TaskOidInv
    <3>3. \A q \in Request : requests'[q] # NoRequest => requests'[q].head \subseteq Known
      <4>1. CASE OpenRequest(task[w].actor) = {}
        BY <1>0, <2>3, <3>2, <4>1 DEF ApplyEnsure, TypeOK, OidInv
      <4>2. CASE OpenRequest(task[w].actor) # {}
        BY <2>2, <2>3, <3>2, <4>2 DEF ApplyEnsure, OpenRequest
      <4> QED
        BY <4>1, <4>2
    <3>4. UNCHANGED refs
      BY <2>3 DEF ApplyEnsure, gitVars
    <3> QED
      BY <1>0, <3>3, <3>4 DEF OidInv
  <2>4. CASE ApplyEdit(w)
    <3>1. task[w] \in EditTask
      BY <1>0, <2>4, TaskKinds DEF ApplyEdit
    <3>2. /\ task[w].head \subseteq Known /\ task[w].req \in Request
          /\ requests[task[w].req] # NoRequest
      BY <1>0, <3>1 DEF TaskOidInv, EditTask, WorkerInv, TaskInv
    <3>3. \A q \in Request : requests'[q] # NoRequest => requests'[q].head \subseteq Known
      BY <1>0, <2>2, <2>4, <3>2 DEF ApplyEdit, OidInv
    <3>4. UNCHANGED refs
      BY <2>4 DEF ApplyEdit, gitVars
    <3> QED
      BY <1>0, <3>3, <3>4 DEF OidInv
  <2> QED
    BY <2>1, <2>3, <2>4
<1> QED
  BY <1>0, <1>1, <1>2, TaskQuiet, MarkQuiet, QuietSafe

\* A lost lease and a crash preserve the safety invariant.
LEMMA CrashSafe ==
  ASSUME SafetyInv, TypeInv', LeaseLost \/ Crash
  PROVE  SafetyInv'
<1>1. TaskKeep /\ MarkKeep /\ OidKeep /\ UNCHANGED <<dbMain, gitMain, journals>>
  BY DEF LeaseLost, Crash, TaskKeep, MarkKeep, OidKeep, MarkedStep, dbVars, gitVars
<1> QED
  BY <1>1, KeepSafe

MarkStay == \A v \in Worker : pc'[v] \in MarkedStep => pc[v] \in MarkedStep /\ op'[v] = op[v]

\* A phase change that does not complete the journal.
LEMMA MovedSafe ==
  ASSUME SafetyInv, TypeInv', NEW o \in Unsettled, NEW phase \in Phase \ {"completed"},
         NEW from \in ActivePhase \cup {"none"},
         NEW result \in {journals[o].result, PlanResult(o)},
         Moved(o, phase, from, result),
         phase \in {"result-persisted", "main-updated"} => result = PlanResult(o),
         from = "main-updated" => result = PlanResult(o),
         phase = "main-updated" \/ (phase = "recovery-required" /\ from = "main-updated")
           => gitMain = result,
         UNCHANGED <<gitMain, dbMain>>, OidKeep, TaskKeep, MarkStay
  PROVE  SafetyInv'
<1>0. o \in Op /\ journals[o] # NoJournal /\ TypeInv /\ StoreInv /\ TypeOK
  BY DEF Unsettled, SafetyInv, TypeInv
<1>1. /\ journals'[o] # NoJournal
      /\ journals'[o].phase = phase /\ journals'[o].from = from
      /\ journals'[o].result = result /\ journals'[o].kind = journals[o].kind
      /\ journals'[o].in = journals[o].in
      /\ \A p \in Op \ {o} : journals'[p] = journals[p]
  BY <1>0, PhaseChange
<1>2. Known' = Known /\ Unsettled' = Unsettled
  BY <1>0, <1>1 DEF Known, Unsettled
<1>3. \A p \in Unsettled : p = o
  BY <1>0 DEF StoreInv, SingleJournal
<1>4. journals[o].result \in Oid => journals'[o].result = journals[o].result
  BY <1>0, <1>1, ConstantAssumption DEF TypeInv, ResultInv
<1>5. StoreInv'
  <2>1. SingleJournal'
    BY <1>2, <1>3 DEF SingleJournal
  <2>2. MainAgreement'
    <3>1. gitMain \in Oid
      BY <1>0 DEF TypeOK
    <3>2. gitMain = dbMain \/ (journals[o].in.main = dbMain /\ journals[o].result = gitMain)
      BY <1>0, <1>3 DEF StoreInv, MainAgreement
    <3>3. gitMain = dbMain \/ (journals'[o].in.main = dbMain /\ journals'[o].result = gitMain)
      BY <1>1, <1>4, <3>1, <3>2
    <3> QED
      BY <1>1, <1>2, <1>3, <3>3 DEF MainAgreement
  <2>3. \A p \in Unsettled' : journals'[p].in.main = dbMain'
    BY <1>0, <1>1, <1>2, <1>3 DEF StoreInv
  <2>4. ASSUME NEW p \in Op, journals'[p] # NoJournal
        PROVE  /\ p \notin journals'[p].in.main
               /\ journals'[p].in.main \subseteq Known' /\ journals'[p].in.head \subseteq Known'
               /\ journals'[p].kind = "merge" /\ journals'[p].phase = "completed" => p \in gitMain'
    BY <1>0, <1>1, <1>2, <2>4 DEF StoreInv
  <2> QED
    BY <1>0, <1>2, <2>1, <2>2, <2>3, <2>4 DEF StoreInv
<1>6. OidInv' /\ \A v \in Worker : TaskOidInv(v)'
  BY <1>2, NoOtherTask DEF SafetyInv, OidInv, OidKeep, TaskOidInv, TaskKeep
<1>7. ASSUME NEW v \in Worker PROVE MarkInv(v)'
  <2>1. SUFFICES ASSUME pc'[v] \in MarkedStep, op'[v] \in Unsettled'
                 PROVE  gitMain' = journals'[op'[v]].result
    BY DEF MarkInv
  <2>2. pc[v] \in MarkedStep /\ op[v] = o /\ op'[v] = o
    BY <1>2, <1>3, <2>1 DEF MarkStay
  <2>3. gitMain = journals[o].result
    BY <2>2 DEF SafetyInv, MarkInv
  <2> QED
    BY <1>0, <1>4, <2>2, <2>3 DEF TypeOK
<1> QED
  BY <1>5, <1>6, <1>7 DEF SafetyInv

\* Prepare preserves the safety invariant.
LEMMA PrepareSafe ==
  ASSUME SafetyInv, TypeInv', NEW w \in Worker, Prepare(w)
  PROVE  SafetyInv'
<1> DEFINE in == task[w]
<1>0. /\ TypeOK /\ TypeInv /\ StoreInv /\ OidInv /\ pc[w] = "prepare" /\ WorkerInv(w)
      /\ TaskOidInv(w)
  BY DEF SafetyInv, TypeInv, Prepare
<1>1. in \in AcceptInput /\ in \in sent /\ in.head \subseteq Known /\ in.main \subseteq Known
  BY <1>0 DEF WorkerInv, TaskInv, TaskOidInv, OidInv, AcceptStep
<1>2. CASE Fail(w)
  BY <1>0, <1>2, FinishKeep, KeepSafe DEF Fail, OidKeep, dbVars, gitVars, clientVars
<1>3. CASE ~Fail(w)
  <2>1. PICK o \in Op :
          /\ journals[o] = NoJournal
          /\ journals' = [journals EXCEPT ![o] =
               [phase |-> "prepared", from |-> "none",
                kind |-> IF in.head \subseteq in.main THEN "contained" ELSE "merge",
                in |-> in, owner |-> requests[in.req].owner, result |-> NoOid]]
          /\ op' = [op EXCEPT ![w] = o]
          /\ Goto(w, "materialize")
          /\ UNCHANGED <<task, gitVars, clientVars, dbMain, requests>>
    BY <1>3 DEF Prepare
  <2>2. in.main = dbMain /\ Unsettled = {}
    BY <1>3, ConstantAssumption, SameJournals DEF Prepare, Revalidate, Nonterminal
  <2>3. /\ journals'[o].phase = "prepared" /\ journals'[o].from = "none"
        /\ journals'[o].in = in /\ \A p \in Op \ {o} : journals'[p] = journals[p]
    BY <1>0, <2>1 DEF TypeOK
  <2>4. o \notin Known
    BY <2>1, ConstantAssumption DEF Known
  <2>5. Unsettled' \subseteq {o} /\ Known \subseteq Known'
    BY <2>1, <2>2, <2>3 DEF Unsettled, Known
  <2>6. gitMain = dbMain /\ UNCHANGED <<gitMain, dbMain, refs, sent, task, requests>>
    BY <1>0, <2>1, <2>2 DEF StoreInv, MainAgreement, gitVars, clientVars
  <2>7. StoreInv'
    <3>1. SingleJournal' /\ MainAgreement'
      BY <2>3, <2>5, <2>6 DEF SingleJournal, MainAgreement
    <3>2. \A p \in Unsettled' : journals'[p].in.main = dbMain'
      BY <2>2, <2>3, <2>5, <2>6
    <3>3. ASSUME NEW p \in Op, journals'[p] # NoJournal
          PROVE  /\ p \notin journals'[p].in.main
                 /\ journals'[p].in.main \subseteq Known'
                 /\ journals'[p].in.head \subseteq Known'
                 /\ journals'[p].kind = "merge" /\ journals'[p].phase = "completed"
                      => p \in gitMain'
      <4>1. CASE p = o
        BY <1>1, <2>3, <2>4, <2>5, <4>1
      <4>2. CASE p # o
        BY <1>0, <2>3, <2>5, <2>6, <3>3, <4>2 DEF StoreInv
      <4> QED
        BY <4>1, <4>2
    <3> QED
      BY <1>0, <2>5, <2>6, <3>1, <3>2, <3>3 DEF StoreInv
  <2>8. OidInv' /\ \A v \in Worker : TaskOidInv(v)'
    BY <2>5, <2>6 DEF SafetyInv, OidInv, TaskOidInv
  <2>9. ASSUME NEW v \in Worker PROVE MarkInv(v)'
    <3>1. SUFFICES ASSUME pc'[v] \in MarkedStep, op'[v] = o PROVE FALSE
      BY <2>5 DEF MarkInv
    <3>2. v # w /\ pc[v] \in MarkedStep /\ op[v] = o
      BY <1>0, <2>1, <3>1 DEF TypeOK, Goto, MarkedStep
    <3>3. pc[v] \in JournalStep
      BY <3>2 DEF MarkedStep, JournalStep
    <3> QED
      BY <1>0, <2>1, <3>2, <3>3, AtJournal
  <2> QED
    BY <2>7, <2>8, <2>9 DEF SafetyInv
<1> QED
  BY <1>2, <1>3

\* PersistResult preserves the safety invariant.
LEMMA PersistResultSafe ==
  ASSUME SafetyInv, TypeInv', NEW w \in Worker, PersistResult(w)
  PROVE  SafetyInv'
<1>0. /\ TypeOK /\ TypeInv /\ pc[w] \in {"persist", "r-persist"} /\ OidKeep
      /\ UNCHANGED <<gitMain, dbMain>>
  BY DEF SafetyInv, TypeInv, PersistResult, OidKeep, gitVars, clientVars
<1>a. op[w] \in Op
  BY <1>0, AtJournal DEF JournalStep
<1> PICK o \in Op : o = op[w]
  BY <1>a
<1>1. journals[o] # NoJournal /\ journals[o] \in Journal
  BY <1>0, AtJournal DEF JournalStep
<1>2. CASE journals[o].phase = "prepared"
  <2>1. /\ journals' = [journals EXCEPT ![o].phase = "result-persisted",
                                        ![o].result = PlanResult(o)]
        /\ Local(w, IF pc[w] = "persist" THEN "settle" ELSE "r-rematerialize")
    BY <1>2 DEF PersistResult
  <2>2. Moved(o, "result-persisted", journals[o].from, PlanResult(o))
    BY <1>1, <2>1 DEF Journal, Moved
  <2>3. /\ journals[o].from \in ActivePhase \cup {"none"} /\ o \in Unsettled
        /\ "result-persisted" \in Phase \ {"completed"}
    BY <1>1, <1>2 DEF Journal, Phase, ActivePhase, Unsettled
  <2>4. TaskKeep /\ MarkKeep
    BY <1>0, <2>1, LocalKeep DEF Step, RecoveryStep, MarkedStep
  <2> QED
    BY <1>0, <2>2, <2>3, <2>4, MovedSafe DEF MarkKeep, MarkStay
<1>3. CASE journals[o].phase # "prepared"
  <2>1. Reject(w) /\ UNCHANGED journals
    BY <1>3 DEF PersistResult
  <2> QED
    BY <1>0, <2>1, RejectKeep, KeepSafe
<1> QED
  BY <1>2, <1>3

\* MarkMainUpdated preserves the safety invariant.
LEMMA MarkMainUpdatedSafe ==
  ASSUME SafetyInv, TypeInv', NEW w \in Worker, MarkMainUpdated(w)
  PROVE  SafetyInv'
<1>0. /\ TypeOK /\ TypeInv /\ pc[w] \in {"mark", "r-mark"} /\ OidKeep
      /\ UNCHANGED <<gitMain, dbMain>>
  BY DEF SafetyInv, TypeInv, MarkMainUpdated, OidKeep, gitVars, clientVars
<1>a. op[w] \in Op
  BY <1>0, AtJournal DEF JournalStep
<1> PICK o \in Op : o = op[w]
  BY <1>a
<1>1. /\ journals[o] # NoJournal /\ journals[o] \in Journal
      /\ journals[o].result = PlanResult(o)
  BY <1>0, AtJournal DEF JournalStep, ResultStep
<1>2. CASE journals[o].phase = "result-persisted"
  <2>1. /\ journals' = [journals EXCEPT ![o].phase = "main-updated"]
        /\ Local(w, IF pc[w] = "mark" THEN "complete" ELSE "r-resettle")
    BY <1>2 DEF MarkMainUpdated
  <2>2. Moved(o, "main-updated", journals[o].from, journals[o].result)
    BY <1>1, <2>1 DEF Journal, Moved
  <2>3. /\ journals[o].from \in ActivePhase \cup {"none"} /\ o \in Unsettled
        /\ "main-updated" \in Phase \ {"completed"}
    BY <1>1, <1>2 DEF Journal, Phase, ActivePhase, Unsettled
  <2>4. TaskKeep /\ MarkStay
    BY <1>0, <2>1 DEF TypeOK, Local, Goto, TaskKeep, MarkStay, MarkedStep
  <2>5. gitMain = journals[o].result
    BY <1>0, <2>3 DEF SafetyInv, MarkInv, MarkedStep
  <2> QED
    BY <1>0, <1>1, <2>2, <2>3, <2>4, <2>5, MovedSafe
<1>3. CASE journals[o].phase # "result-persisted"
  <2>1. Reject(w) /\ UNCHANGED journals
    BY <1>3 DEF MarkMainUpdated
  <2> QED
    BY <1>0, <2>1, RejectKeep, KeepSafe
<1> QED
  BY <1>2, <1>3

\* Classify preserves the safety invariant.
LEMMA ClassifySafe ==
  ASSUME SafetyInv, TypeInv', NEW w \in Worker, Classify(w)
  PROVE  SafetyInv'
<1>0. /\ TypeOK /\ TypeInv /\ StoreInv /\ pc[w] = "r-classify" /\ lease = w /\ OidKeep
      /\ UNCHANGED <<gitMain, dbMain>> /\ Finish(w)
  BY DEF SafetyInv, TypeInv, Classify, OidKeep, gitVars, clientVars
<1>a. op[w] \in Op
  BY <1>0, AtJournal DEF JournalStep
<1> PICK o \in Op : o = op[w]
  BY <1>a
<1>1. journals[o] # NoJournal /\ journals[o] \in Journal /\ journals[o].phase \in ActivePhase
  BY <1>0, AtJournal DEF JournalStep, RecoveryStep
<1>2. Moved(o, "recovery-required", journals[o].phase, journals[o].result)
  <2>1. journals' = [journals EXCEPT ![o].phase = "recovery-required",
                                     ![o].from = journals[o].phase]
    BY DEF Classify
  <2> QED
    BY <1>1, <2>1 DEF Moved, Journal
<1>3. o \in Unsettled /\ "recovery-required" \in Phase \ {"completed"}
  BY <1>1 DEF Unsettled, ActivePhase, Phase
<1>4. journals[o].phase = "main-updated" =>
        journals[o].result = PlanResult(o) /\ gitMain = journals[o].result
  BY <1>0, <1>1, <1>3 DEF TypeInv, ResultInv, StoreInv, MainAgreement
<1>5. TaskKeep /\ MarkStay
  BY <1>0, FinishKeep DEF MarkKeep, MarkStay
<1> QED
  BY <1>0, <1>1, <1>2, <1>3, <1>4, <1>5, MovedSafe

\* When update-ref finds the planned main, its journal is still unsettled: the
\* merge commit of a completed journal is on main, and it is not on the main
\* that its plan names.
LEMMA CasUnsettled ==
  ASSUME SafetyInv, NEW w \in Worker, pc[w] \in UpdateStep,
         gitMain = journals[op[w]].in.main
  PROVE  /\ op[w] \in Unsettled /\ op[w] \in Op
         /\ journals[op[w]].result = MergeCommit(op[w])
         /\ gitMain \subseteq journals[op[w]].result
<1>0. TypeInv /\ StoreInv /\ pc[w] \in JournalStep /\ pc[w] \in ResultStep
  BY DEF SafetyInv, UpdateStep, JournalStep, ResultStep
<1>1. /\ op[w] \in Op /\ journals[op[w]] # NoJournal /\ journals[op[w]].kind = "merge"
      /\ journals[op[w]].result = PlanResult(op[w])
  BY <1>0, AtJournal
<1>2. op[w] \notin gitMain
  BY <1>0, <1>1 DEF StoreInv
<1>3. journals[op[w]].phase # "completed"
  BY <1>0, <1>1, <1>2 DEF StoreInv
<1> QED
  BY <1>1, <1>3 DEF Unsettled, PlanResult, MergeCommit

\* A step that compares and swaps main, and marks its journal only when main is
\* the result, preserves the safety invariant.
LEMMA CasSafe ==
  ASSUME SafetyInv, TypeInv', NEW w \in Worker, pc[w] \in UpdateStep, OidKeep, TaskKeep,
         UNCHANGED <<dbMain, journals>>, gitMain' = CasMain(journals[op[w]]),
         \A v \in Worker \ {w} : pc'[v] = pc[v] /\ op'[v] = op[v],
         pc'[w] \in MarkedStep => op'[w] = op[w] /\ gitMain' = journals[op[w]].result
  PROVE  SafetyInv'
<1>0. TypeOK /\ TypeInv /\ StoreInv
  BY DEF SafetyInv, TypeInv
<1>2. CASE gitMain = journals[op[w]].in.main
  <2>1. /\ op[w] \in Unsettled /\ op[w] \in Op
        /\ journals[op[w]].result = MergeCommit(op[w])
        /\ gitMain \subseteq journals[op[w]].result
    BY <1>0, <1>2, CasUnsettled
  <2>2. gitMain' = journals[op[w]].result
    BY <1>0, <1>2 DEF CasMain
  <2>3. Unsettled' = Unsettled /\ Known' = Known /\ \A p \in Unsettled : p = op[w]
    BY <1>0, <2>1 DEF Unsettled, Known, StoreInv, SingleJournal
  <2>4. gitMain' \subseteq Known
    BY <1>0, <2>1, <2>2 DEF StoreInv, MergeCommit, Unsettled, Known
  <2>5. dbMain = journals[op[w]].in.main
    BY <1>0, <2>1 DEF StoreInv
  <2>6. MainAgreement'
    BY <1>0, <2>1, <2>2, <2>3, <2>5 DEF MainAgreement
  <2>7. StoreInv'
    BY <1>0, <2>1, <2>2, <2>3, <2>4, <2>6 DEF StoreInv, SingleJournal
  <2>8. ASSUME NEW v \in Worker PROVE MarkInv(v)'
    BY <2>2, <2>3 DEF MarkInv
  <2>9. OidInv' /\ \A v \in Worker : TaskOidInv(v)'
    BY OidQuiet, TaskQuiet DEF OidKeep
  <2> QED
    BY <2>7, <2>8, <2>9 DEF SafetyInv
<1>3. CASE gitMain # journals[op[w]].in.main
  <2>1. UNCHANGED gitMain
    BY <1>0, <1>3 DEF CasMain
  <2>3. ASSUME NEW v \in Worker PROVE MarkInv(v)'
    BY <2>1 DEF SafetyInv, MarkInv, Unsettled
  <2>4. OidInv' /\ \A v \in Worker : TaskOidInv(v)'
    BY OidQuiet, TaskQuiet DEF OidKeep
  <2> QED
    BY <1>0, <2>1, <2>3, <2>4, QuietSafe
<1> QED
  BY <1>2, <1>3

\* UpdateRef preserves the safety invariant.
LEMMA UpdateRefSafe ==
  ASSUME SafetyInv, TypeInv', NEW w \in Worker, UpdateRef(w)
  PROVE  SafetyInv'
<1>0. /\ TypeOK /\ pc[w] \in UpdateStep /\ OidKeep
      /\ UNCHANGED <<dbMain, journals>> /\ gitMain' = CasMain(journals[op[w]])
  BY DEF SafetyInv, TypeInv, UpdateRef, UpdateStep, OidKeep, dbVars, clientVars
<1>1. /\ TaskKeep /\ \A v \in Worker \ {w} : pc'[v] = pc[v] /\ op'[v] = op[v]
      /\ pc'[w] \in MarkedStep => op'[w] = op[w]
  <2>1. CASE Reject(w)
    BY <1>0, <2>1 DEF TypeOK, Reject, Local, Goto, Finish, TaskKeep, MarkedStep
  <2>2. CASE Settled(w) /\ UNCHANGED <<task, op>>
    BY <1>0, <2>2 DEF TypeOK, Settled, Goto, TaskKeep
  <2> QED
    BY <2>1, <2>2 DEF UpdateRef
<1>2. pc'[w] \in MarkedStep => gitMain' = journals[op[w]].result
  BY <1>0 DEF TypeOK, UpdateRef, CasMain, Reject, Finish, Local, Goto, MarkedStep
<1> QED
  BY <1>0, <1>1, <1>2, CasSafe

\* A failed Git step preserves the safety invariant.
LEMMA GitFailsSafe ==
  ASSUME SafetyInv, TypeInv', NEW w \in Worker, GitFails(w)
  PROVE  SafetyInv'
<1>1. /\ pc'[w] = "r-classify" /\ OthersKeep(w)
      /\ UNCHANGED <<dbVars, refs, sent, replies, started, task, op, facts, seen, recovered,
                     permits, lease>>
      /\ \/ UNCHANGED gitMain
         \/ pc[w] \in UpdateStep /\ gitMain' = CasMain(journals[op[w]])
  BY GitFailsStep DEF SafetyInv, TypeInv
<1>2. OidKeep /\ TaskKeep /\ MarkKeep /\ UNCHANGED <<dbMain, journals>>
  BY <1>1 DEF OidKeep, TaskKeep, MarkKeep, MarkedStep, OthersKeep, dbVars
<1>3. \A v \in Worker \ {w} : pc'[v] = pc[v] /\ op'[v] = op[v]
  BY <1>1 DEF OthersKeep
<1> QED
  BY <1>1, <1>2, <1>3, KeepSafe, CasSafe DEF MarkedStep

\* Complete preserves the safety invariant.
LEMMA CompleteSafe ==
  ASSUME SafetyInv, TypeInv', NEW w \in Worker, Complete(w)
  PROVE  SafetyInv'
<1>0. /\ TypeOK /\ TypeInv /\ StoreInv /\ OidInv /\ pc[w] \in {"complete", "r-complete"}
      /\ UNCHANGED <<gitMain, refs, sent>>
  BY DEF SafetyInv, TypeInv, Complete, gitVars
<1>a. op[w] \in Op
  BY <1>0, AtJournal DEF JournalStep
<1> PICK o \in Op : o = op[w]
  BY <1>a
<1>1. journals[o] # NoJournal /\ journals[o] \in Journal
  BY <1>0, AtJournal DEF JournalStep
<1>2. CASE /\ journals[o].phase = "main-updated" /\ CompletionFences(o)
           /\ ResolvedTicketsOpen(o) /\ IdempotencyFree(o)
  <2>1. SettleJournal(o)
    BY <1>2 DEF Complete
  <2>2. o \in Unsettled /\ (\A p \in Unsettled : p = o) /\ gitMain = journals[o].result
    BY <1>0, <1>1, <1>2 DEF Unsettled, StoreInv, SingleJournal, MainAgreement
  <2>3. /\ journals' = [journals EXCEPT ![o].phase = "completed"]
        /\ dbMain' = journals[o].result
        /\ requests' = [requests EXCEPT ![journals[o].in.req] = MergeRow(@, journals[o].result)]
    BY <2>1 DEF SettleJournal
  <2>4. /\ journals'[o].phase = "completed" /\ journals'[o].in = journals[o].in
        /\ journals'[o].kind = journals[o].kind
        /\ \A p \in Op \ {o} : journals'[p] = journals[p]
    BY <1>0, <1>1, <2>3 DEF TypeOK, Journal
  <2>5. Moved(o, "completed", journals[o].from, journals[o].result)
    BY <1>1, <2>3 DEF Moved, Journal
  <2>6. journals'[o] # NoJournal /\ journals[o].result = PlanResult(o)
    <3>1. journals[o].from \in ActivePhase \cup {"none"} /\ "completed" \in Phase
      BY <1>1 DEF Journal, Phase
    <3>2. journals[o].result = PlanResult(o)
      BY <1>0, <1>1, <1>2 DEF TypeInv, ResultInv
    <3> QED
      BY <1>0, <1>1, <2>5, <3>1, <3>2, PhaseChange
  <2>7. Unsettled' = {} /\ Known' = Known
    BY <1>1, <2>2, <2>4, <2>6 DEF Unsettled, Known
  <2>8. journals[o].kind = "merge" => o \in gitMain
    BY <2>2, <2>6 DEF PlanResult, MergeCommit
  <2>9. StoreInv'
    <3>1. SingleJournal' /\ MainAgreement'
      BY <1>0, <2>2, <2>3, <2>7 DEF SingleJournal, MainAgreement
    <3>2. ASSUME NEW p \in Op, journals'[p] # NoJournal
          PROVE  /\ p \notin journals'[p].in.main
                 /\ journals'[p].in.main \subseteq Known'
                 /\ journals'[p].in.head \subseteq Known'
                 /\ journals'[p].kind = "merge" /\ journals'[p].phase = "completed"
                      => p \in gitMain'
      <4>1. CASE p = o
        BY <1>0, <1>1, <2>4, <2>7, <2>8, <4>1 DEF StoreInv
      <4>2. CASE p # o
        BY <1>0, <2>4, <2>7, <3>2, <4>2 DEF StoreInv
      <4> QED
        BY <4>1, <4>2
    <3> QED
      BY <1>0, <2>2, <2>3, <2>7, <3>1, <3>2 DEF StoreInv
  <2>10. OidInv'
    <3>1. journals[o].in.req \in Request /\ requests[journals[o].in.req] # NoRequest
      BY <1>1, <1>2 DEF CompletionFences, ValidRequest, Journal, AcceptInput
    <3>2. requests[journals[o].in.req] \in RequestRow
      BY <1>0, <3>1 DEF TypeOK
    <3>3. MergeRow(requests[journals[o].in.req], journals[o].result).head
            = requests[journals[o].in.req].head
      BY <3>2 DEF MergeRow, RequestRow
    <3>4. ASSUME NEW r \in Request, requests'[r] # NoRequest
          PROVE  requests'[r].head \subseteq Known
      BY <1>0, <2>3, <3>1, <3>3, <3>4 DEF TypeOK, OidInv
    <3> QED
      BY <1>0, <2>7, <3>4 DEF OidInv
  <2>11. TaskKeep
    <3>1. CASE Finish(w)
      BY <1>0, <3>1, FinishKeep
    <3>2. CASE Resume(w) /\ ~Finish(w)
      BY <3>2 DEF Resume, TaskKeep
    <3> QED
      BY <1>2, <3>1, <3>2 DEF Complete
  <2>12. \A v \in Worker : TaskOidInv(v)' /\ MarkInv(v)'
    BY <1>0, <2>7, <2>11, NoOtherTask DEF SafetyInv, TaskOidInv, TaskKeep, MarkInv
  <2> QED
    BY <2>9, <2>10, <2>12 DEF SafetyInv
<1>3. CASE ~(/\ journals[o].phase = "main-updated" /\ CompletionFences(o)
             /\ ResolvedTicketsOpen(o) /\ IdempotencyFree(o))
  <2>1. Reject(w) /\ UNCHANGED dbVars
    BY <1>3 DEF Complete
  <2>2. OidKeep /\ UNCHANGED <<dbMain, journals>>
    BY <1>0, <2>1 DEF OidKeep, dbVars
  <2> QED
    BY <1>0, <2>1, <2>2, RejectKeep, KeepSafe
<1> QED
  BY <1>2, <1>3

\* The safety invariant holds initially.
LEMMA SafetyInit ==
  ASSUME Init
  PROVE  SafetyInv
<1>1. TypeInv
  BY TypeInit
<1>2. Unsettled = {}
  BY DEF Init, InitWith, Unsettled
<1>3. StoreInv
  BY <1>2 DEF Init, InitWith, StoreInv, SingleJournal, MainAgreement
<1>4. OidInv
  BY DEF Init, InitWith, OidInv
<1>5. ASSUME NEW w \in Worker PROVE TaskOidInv(w) /\ MarkInv(w)
  BY NoOtherTask DEF Init, InitWith, TaskOidInv, MarkInv, MarkedStep
<1> QED
  BY <1>1, <1>3, <1>4, <1>5 DEF SafetyInv

\* Every step preserves the safety invariant.
LEMMA SafetyNext ==
  ASSUME SafetyInv, [Next]_vars
  PROVE  SafetyInv'
<1>0. TypeInv'
  BY TypeNext DEF SafetyInv
<1>1. ASSUME NEW w \in Worker, ClientStart(w) PROVE SafetyInv'
  BY <1>0, <1>1, ClientStartSafe
<1>2. ASSUME NEW w \in Worker, StartRecovery(w) PROVE SafetyInv'
  BY <1>0, <1>2, ControlSafe
<1>3. ASSUME NEW w \in Worker, Progress(w) PROVE SafetyInv'
  BY <1>0, <1>3, ControlSafe, PrepareSafe, PersistResultSafe, SettleMainSafe, UpdateRefSafe,
     MarkMainUpdatedSafe, CompleteSafe, ClassifySafe, WriterSafe DEF Progress
<1>4. ASSUME NEW w \in Worker, Interrupt(w) \/ GitFails(w) \/ AbandonRecovery(w)
      PROVE  SafetyInv'
  BY <1>0, <1>4, ControlSafe, GitFailsSafe
<1>5. CASE LeaseLost \/ Crash
  BY <1>0, <1>5, CrashSafe
<1>6. CASE UNCHANGED vars
  <2>1. OidKeep /\ UNCHANGED <<dbMain, gitMain, journals, task, pc, op>>
    BY <1>6 DEF vars, OidKeep, dbVars, gitVars, procVars, clientVars
  <2>2. TaskKeep /\ MarkKeep
    BY <2>1 DEF TaskKeep, MarkKeep
  <2> QED
    BY <1>0, <2>1, <2>2, KeepSafe
<1> QED
  BY <1>1, <1>2, <1>3, <1>4, <1>5, <1>6 DEF Next

-----------------------------------------------------------------------------
(* The theorems. *)

\* The Git main ref and the main that PostgreSQL records agree up to one
\* journal that explains the difference, whatever is cancelled or crashes.
THEOREM StoresAgree == Spec => []MainAgreement
<1>1. Init => SafetyInv
  BY SafetyInit
<1>2. SafetyInv /\ [Next]_vars => SafetyInv'
  BY SafetyNext
<1>3. SafetyInv => MainAgreement
  BY DEF SafetyInv, StoreInv
<1> QED
  BY <1>1, <1>2, <1>3, PTL DEF Spec

\* A Project never has two unresolved Accept journals.
THEOREM OneJournal == Spec => []SingleJournal
<1>1. Init => SafetyInv
  BY SafetyInit
<1>2. SafetyInv /\ [Next]_vars => SafetyInv'
  BY SafetyNext
<1>3. SafetyInv => SingleJournal
  BY DEF SafetyInv, StoreInv
<1> QED
  BY <1>1, <1>2, <1>3, PTL DEF Spec

\* Every step other than update-ref, failed or not, leaves the Git main ref alone.
LEMMA OnlyUpdateRef ==
  ASSUME NEW w \in Worker,
         \/ ClientStart(w) \/ StartRecovery(w) \/ (Progress(w) /\ ~UpdateRef(w))
         \/ Interrupt(w) \/ AbandonRecovery(w)
  PROVE  UNCHANGED gitMain
<1>1. CASE ClientStart(w)
  BY <1>1 DEF ClientStart, StartAccept, StartPush, StartEnsure, StartEdit, StartTicket,
     Start, gitVars
<1>2. CASE \/ StartRecovery(w) \/ Interrupt(w) \/ AbandonRecovery(w) \/ Reserve(w)
           \/ Admit(w) \/ Inspect(w) \/ Materialize(w) \/ RecoverReserve(w) \/ RecoverLease(w)
  BY <1>2 DEF StartRecovery, Interrupt, AbandonRecovery, Reserve, Admit, Inspect,
     Materialize, RecoverReserve, RecoverLease, gitVars
<1>3. CASE \/ Prepare(w) \/ PersistResult(w) \/ SettleMain(w) \/ MarkMainUpdated(w)
           \/ Complete(w) \/ Classify(w)
  BY <1>3 DEF Prepare, PersistResult, SettleMain, MarkMainUpdated, Complete, Classify,
     Fail, gitVars
<1>4. CASE \/ ReceiveCheck(w) \/ Receive(w) \/ ValidateHead(w) \/ ApplyEnsure(w)
           \/ ApplyEdit(w) \/ ApplyTicket(w) \/ TransactFails(w) \/ WaitTimeout(w)
  BY <1>4 DEF ReceiveCheck, Receive, ValidateHead, ApplyEnsure, ApplyEdit, ApplyTicket,
     TransactFails, WaitTimeout, Fail, gitVars
<1> QED
  BY <1>1, <1>2, <1>3, <1>4 DEF Progress

\* Only the compare-and-swap of an unsettled journal moves main, to its result.
LEMMA MainStep ==
  ASSUME SafetyInv, [Next]_vars
  PROVE  MainMove
<1> SUFFICES ASSUME gitMain' # gitMain
             PROVE  \E o \in Unsettled : /\ gitMain = journals[o].in.main
                                         /\ gitMain' = journals[o].result
                                         /\ gitMain \subseteq gitMain'
  BY DEF MainMove
<1>1. PICK w \in Worker : UpdateRef(w) \/ GitFails(w)
  <2>1. ~UNCHANGED vars /\ ~LeaseLost /\ ~Crash
    BY DEF vars, gitVars, LeaseLost, Crash
  <2> QED
    BY <2>1, OnlyUpdateRef DEF Next
<1>2. pc[w] \in UpdateStep /\ gitMain' = CasMain(journals[op[w]])
  <2>1. CASE UpdateRef(w)
    BY <2>1 DEF UpdateRef, UpdateStep
  <2>2. CASE GitFails(w)
    BY <2>2, GitFailsStep DEF SafetyInv, TypeInv
  <2> QED
    BY <1>1, <2>1, <2>2
<1>3. gitMain = journals[op[w]].in.main /\ gitMain' = journals[op[w]].result
  BY <1>2 DEF CasMain
<1> QED
  BY <1>2, <1>3, CasUnsettled

\* Main only grows, by one journaled result at a time.
THEOREM MainMoves == Spec => MainMovesByJournal
<1>1. Init => SafetyInv
  BY SafetyInit
<1>2. SafetyInv /\ [Next]_vars => SafetyInv'
  BY SafetyNext
<1>3. SafetyInv /\ [Next]_vars => MainMove
  BY MainStep
<1> QED
  BY <1>1, <1>2, <1>3, PTL DEF Spec, MainMovesByJournal

-----------------------------------------------------------------------------
(* An intent takes effect once: the inductive invariant. *)

LateStep == AcceptStep \ {"inspect", "prepare"}

Intent(o) == <<journals[o].in.actor, journals[o].in.key>>
Outcome(o) == [in |-> journals[o].in, result |-> journals[o].result]
Journaled == {o \in Op : journals[o] # NoJournal}
Completed == {o \in Op : journals[o] # NoJournal /\ journals[o].phase = "completed"}

\* An intent has one journal, and its stored response once that is completed.
IntentInv ==
  /\ \A o, p \in Journaled : Intent(o) = Intent(p) => o = p
  /\ \A o \in Completed : idem[Intent(o)] = Outcome(o)
  /\ \A o \in Unsettled : idem[Intent(o)] = NoInput
  /\ \A x \in Member \X Key : idem[x] # NoInput => \E o \in Completed : Intent(o) = x
  /\ \A x \in replies : \E o \in Completed : x = Outcome(o)

\* What a journal planned, and how far it has come, show in main and its request.
PlanInv ==
  /\ \A o \in Journaled :
       /\ journals[o].kind = "contained" => journals[o].in.head \subseteq journals[o].in.main
       /\ journals[o].from = "main-updated" => journals[o].phase = "recovery-required"
       /\ o \in gitMain => journals[o].result = PlanResult(o)
       /\ requests[journals[o].in.req] # NoRequest
  /\ \A o \in Completed : /\ journals[o].result \subseteq gitMain
                          /\ requests[journals[o].in.req].status = "merged"
  /\ \A o \in Unsettled : /\ requests[journals[o].in.req].status = "open"
                          /\ requests[journals[o].in.req].head = journals[o].in.head

MergedInv ==
  \A r \in Request : requests[r] # NoRequest /\ requests[r].status = "merged" =>
    requests[r].head \subseteq dbMain /\ requests[r].merged \subseteq gitMain

\* A merge commit is named by refs, requests, plans and inputs only once it is
\* on main.
Reached == Change \cup gitMain

ReachInv ==
  /\ \A m \in Member : refs[m] \subseteq Reached
  /\ \A r \in Request : requests[r] # NoRequest => requests[r].head \subseteq Reached
  /\ \A in \in sent : in.head \subseteq Reached
  /\ \A o \in Journaled : journals[o].in.head \subseteq Reached
  /\ \A w \in Worker : /\ task[w] \in PushTask => task[w].new \subseteq Reached
                       /\ task[w] \in EnsureTask \cup EditTask => task[w].head \subseteq Reached

\* A worker that has its journal works for the input of that journal; one that
\* is about to prepare has found no response stored for its intent.
CallInv(w) ==
  /\ pc[w] \in LateStep => journals[op[w]].in = task[w]
  /\ pc[w] = "prepare" /\ lease = w => idem[<<task[w].actor, task[w].key>>] = NoInput

OnceInv ==
  SafetyInv /\ IntentInv /\ PlanInv /\ MergedInv /\ ReachInv /\ \A w \in Worker : CallInv(w)

-----------------------------------------------------------------------------
(* One Git permit fences an active journal: the inductive invariant. *)

Exclusive == permits = {} \/ \E p \in permits : permits = {p}

\* Which steps hold which permit.
PermitInv(w) ==
  /\ pc[w] = "preflight" => task[w].kind # "accept"
  /\ \/ pc[w] \in RecoveryStep \cup {"admit"} /\ task[w].kind = "accept"
     \/ pc[w] = "admit" /\ task[w].kind \in {"push", "ensure"}
     \/ pc[w] \in AcceptStep \cup {"receive-check", "receive", "validate-head"}
     => <<w, "operation">> \in permits
  /\ pc[w] \in RecoveryStep \ {"r-reserve"} => <<w, "recovery">> \in permits

\* What a worker has read of the refs stays true while it holds its permit.
ReadInv(w) ==
  /\ pc[w] = "receive" => Unsettled = {}
  /\ pc[w] = "prepare" => /\ requests[task[w].req] # NoRequest
                          /\ refs[requests[task[w].req].owner] = task[w].head
  /\ pc[w] \in UpdateStep => seen[w] = {refs}

ClosedTicket(o) == \E x \in journals[o].in.tix : tickets[x[1]].status = "closed"

\* The phase of the journal a recovery works on, while it holds the lease.
StageInv(w) ==
  lease = w =>
    /\ pc[w] \in {"r-materialize", "r-persist"} => journals[op[w]].phase = "prepared"
    /\ pc[w] \in {"r-rematerialize", "r-settle", "r-update-ref", "r-mark"}
         => journals[op[w]].phase = "result-persisted"
    /\ pc[w] \in {"r-resettle", "r-reupdate-ref", "r-complete"}
         => journals[op[w]].phase = "main-updated"
    /\ pc[w] = "r-classify" =>
         \/ op[w] \in gitFailed
         \/ journals[op[w]].phase = "main-updated" /\ ClosedTicket(op[w])

FenceInv ==
  /\ OnceInv /\ Exclusive /\ FencedByJournal /\ IsolationExplained
  /\ \A w \in Worker : PermitInv(w) /\ ReadInv(w) /\ StageInv(w)

-----------------------------------------------------------------------------
(* What one step writes. *)

\* A step of one worker.
Acts(w) == \/ ClientStart(w) \/ StartRecovery(w) \/ Progress(w)
           \/ Interrupt(w) \/ GitFails(w) \/ AbandonRecovery(w)

JournalWriter(w) == \/ Prepare(w) \/ PersistResult(w) \/ MarkMainUpdated(w)
                    \/ Complete(w) \/ Classify(w)

\* The actions that write each part of the two stores and of the replies.
LEMMA Writers ==
  ASSUME NEW w \in Worker, Acts(w)
  PROVE  /\ UNCHANGED <<journals, candidate>> \/ JournalWriter(w)
         /\ UNCHANGED <<idem, dbMain>> \/ Complete(w)
         /\ UNCHANGED service \/ Classify(w)
         /\ UNCHANGED requests \/ ApplyEnsure(w) \/ ApplyEdit(w) \/ Complete(w)
         /\ UNCHANGED tickets \/ ApplyTicket(w) \/ Complete(w)
         /\ UNCHANGED refs \/ Receive(w)
         /\ UNCHANGED gitMain \/ UpdateRef(w) \/ GitFails(w)
         /\ UNCHANGED replies \/ Inspect(w) \/ Complete(w)
<1>1. CASE ClientStart(w)
  BY <1>1 DEF ClientStart, StartAccept, StartPush, StartEnsure, StartEdit, StartTicket,
     Start, gitVars, dbVars
<1>2. CASE \/ StartRecovery(w) \/ Interrupt(w) \/ AbandonRecovery(w) \/ Reserve(w)
           \/ Admit(w) \/ Materialize(w) \/ RecoverReserve(w) \/ RecoverLease(w) \/ SettleMain(w)
  BY <1>2 DEF StartRecovery, Interrupt, AbandonRecovery, Reserve, Admit, SettleMain,
     Materialize, RecoverReserve, RecoverLease, gitVars, dbVars, clientVars
<1>3. CASE Prepare(w) \/ PersistResult(w) \/ MarkMainUpdated(w) \/ Classify(w)
  BY <1>3 DEF JournalWriter, Prepare, PersistResult, MarkMainUpdated, Classify,
     Fail, gitVars, dbVars, clientVars
<1>4. CASE Complete(w)
  BY <1>4 DEF JournalWriter, Complete, SettleJournal, gitVars, dbVars, clientVars
<1>5. CASE Inspect(w) \/ UpdateRef(w)
  BY <1>5 DEF Inspect, UpdateRef, gitVars, dbVars, clientVars
<1>6. CASE \/ ReceiveCheck(w) \/ Receive(w) \/ ValidateHead(w) \/ ApplyEnsure(w)
           \/ ApplyEdit(w) \/ ApplyTicket(w) \/ TransactFails(w) \/ WaitTimeout(w)
  BY <1>6 DEF ReceiveCheck, Receive, ValidateHead, ApplyEnsure, ApplyEdit, ApplyTicket,
     TransactFails, WaitTimeout, Fail, gitVars, dbVars, clientVars
<1>7. CASE GitFails(w)
  BY <1>7 DEF GitFails, dbVars
<1> QED
  BY <1>1, <1>2, <1>3, <1>4, <1>5, <1>6, <1>7 DEF Acts, Progress

\* Of the steps of no worker, only a crash and a lost lease touch anything, and
\* they touch neither store.
LEMMA WorkerSteps ==
  ASSUME [Next]_vars
  PROVE  \/ \E w \in Worker : Acts(w)
         \/ /\ UNCHANGED <<dbVars, gitVars, sent, replies>>
            /\ UNCHANGED <<pc, task, op, facts, seen, permits, recovered>>
                 \/ \A w \in Worker : /\ pc'[w] = "idle" /\ task'[w] = NoTask
                                      /\ permits' = {}
            /\ lease' \in {lease, NoWorker}
BY DEF Next, Acts, LeaseLost, Crash, vars, procVars, clientVars

\* What a recovery saw fail is remembered.
LEMMA FailuresStay ==
  ASSUME [Next]_vars
  PROVE  gitFailed \subseteq gitFailed'
<1>1. ASSUME NEW w \in Worker, Acts(w) PROVE gitFailed \subseteq gitFailed'
  <2>1. CASE ClientStart(w)
    BY <2>1 DEF ClientStart, StartAccept, StartPush, StartEnsure, StartEdit, StartTicket, Start
  <2>2. CASE \/ StartRecovery(w) \/ Interrupt(w) \/ GitFails(w) \/ AbandonRecovery(w)
    BY <2>2 DEF StartRecovery, Interrupt, GitFails, AbandonRecovery, clientVars
  <2>3. CASE Progress(w)
    BY <2>3 DEF Progress, Reserve, Admit, Inspect, Prepare, Materialize, PersistResult, SettleMain,
       UpdateRef, MarkMainUpdated, Complete, RecoverReserve, RecoverLease, Classify,
       ReceiveCheck, Receive, ValidateHead, ApplyEnsure, ApplyEdit, ApplyTicket,
       TransactFails, WaitTimeout, Fail, clientVars
  <2> QED
    BY <1>1, <2>1, <2>2, <2>3 DEF Acts
<1> QED
  BY <1>1 DEF Next, Acts, LeaseLost, Crash, vars, clientVars

Advances(w, o) ==
  /\ op[w] = o /\ o \in Unsettled /\ journals[o].phase \in ActivePhase
  /\ lease = w /\ pc[w] \in JournalStep
  /\ journals'[o] # NoJournal
  /\ journals'[o].in = journals[o].in /\ journals'[o].kind = journals[o].kind
  /\ journals'[o].owner = journals[o].owner
  /\ \A p \in Op \ {o} : journals'[p] = journals[p]


\* Prepare opens a journal for a request that its transaction found unchanged.
Opens(w, o) ==
  /\ pc[w] = "prepare" /\ lease = w /\ Unsettled = {} /\ service = "active"
  /\ task[w] \in AcceptInput /\ ValidRequest(task[w]) /\ dbMain = task[w].main
  /\ journals[o] = NoJournal /\ journals'[o] # NoJournal
  /\ journals'[o].phase = "prepared" /\ journals'[o].from = "none"
  /\ journals'[o].in = task[w] /\ journals'[o].owner = requests[task[w].req].owner
  /\ journals'[o].result = NoOid
  /\ journals'[o].kind = IF task[w].head \subseteq task[w].main THEN "contained" ELSE "merge"
  /\ \A p \in Op \ {o} : journals'[p] = journals[p]
  /\ pc'[w] = "materialize" /\ op'[w] = o /\ candidate' = o
  /\ UNCHANGED <<idem, dbMain, service, requests, tickets, refs, gitMain, replies, task, lease,
                 sent>>

Quiet == UNCHANGED <<idem, dbMain, service, requests, tickets, refs, gitMain, replies, sent>>

Persists(w, o) ==
  /\ Advances(w, o) /\ Quiet /\ lease' = lease
  /\ journals[o].phase = "prepared" /\ journals'[o].phase = "result-persisted"
  /\ journals'[o].result = PlanResult(o) /\ journals'[o].from = journals[o].from
  /\ candidate' = o

Marks(w, o) ==
  /\ Advances(w, o) /\ Quiet /\ lease' = lease
  /\ journals[o].phase = "result-persisted" /\ journals'[o].phase = "main-updated"
  /\ journals[o].result = PlanResult(o) /\ journals'[o].result = journals[o].result
  /\ journals'[o].from = journals[o].from /\ gitMain = journals[o].result
  /\ candidate' = o

Isolates(w, o) ==
  /\ Advances(w, o) /\ UNCHANGED <<idem, dbMain, requests, tickets, refs, gitMain, replies, sent>>
  /\ pc[w] = "r-classify"
  /\ journals'[o].phase = "recovery-required" /\ journals'[o].from = journals[o].phase
  /\ journals'[o].result = journals[o].result
  /\ service' = "recovery-required" /\ candidate' # o

Completes(w, o) ==
  /\ Advances(w, o) /\ UNCHANGED <<service, refs, gitMain, sent>>
  /\ journals[o].phase = "main-updated" /\ journals'[o].phase = "completed"
  /\ journals[o].result = PlanResult(o) /\ journals'[o].result = journals[o].result
  /\ journals'[o].from = journals[o].from /\ gitMain = journals[o].result
  /\ CompletionFences(o) /\ ResolvedTicketsOpen(o) /\ SettleJournal(o)
  /\ \/ UNCHANGED replies
     \/ pc[w] = "complete" /\ replies' = replies \cup {[in |-> task[w], result |-> journals[o].result]}

\* What Prepare writes.
LEMMA OpensStep ==
  ASSUME SafetyInv, NEW w \in Worker, Prepare(w)
  PROVE  Fail(w) \/ \E o \in Op : Opens(w, o)
<1>0. /\ TypeOK /\ pc[w] = "prepare" /\ lease = w /\ service = "active" /\ Unsettled = {}
      /\ WorkerInv(w)
  BY SameJournals, ConstantAssumption
     DEF SafetyInv, TypeInv, Prepare, Revalidate, Nonterminal
<1>1. task[w] \in AcceptInput
  BY <1>0 DEF WorkerInv, TaskInv, AcceptStep
<1>3. CASE ~Fail(w)
  <2> DEFINE j == [phase |-> "prepared", from |-> "none",
                   kind |-> IF task[w].head \subseteq task[w].main THEN "contained" ELSE "merge",
                   in |-> task[w], owner |-> requests[task[w].req].owner, result |-> NoOid]
  <2>1. ValidRequest(task[w]) /\ dbMain = task[w].main
    BY <1>3 DEF Prepare
  <2>2. PICK o \in Op :
          /\ journals[o] = NoJournal
          /\ journals' = [journals EXCEPT ![o] = j]
          /\ candidate' = o
          /\ op' = [op EXCEPT ![w] = o]
          /\ Goto(w, "materialize")
          /\ UNCHANGED <<task, lease, gitVars, clientVars, dbMain, service, requests, tickets, idem>>
    BY <1>3, <2>1 DEF Prepare
  <2>3. task[w].req \in Request /\ requests[task[w].req] # NoRequest
    BY <1>1, <2>1 DEF ValidRequest, AcceptInput
  <2>4. requests[task[w].req].owner \in Member
    BY <1>0, <2>3 DEF TypeOK, RequestRow
  <2>5. j \in Journal
    BY <1>1, <2>4 DEF Journal, Phase, ActivePhase
  <2>6. j # NoJournal
    BY <2>5, AbsentAssumption
  <2>7. journals'[o] = j /\ \A p \in Op \ {o} : journals'[p] = journals[p]
    BY <1>0, <2>2 DEF TypeOK
  <2>8. pc'[w] = "materialize" /\ op'[w] = o
    BY <1>0, <2>2 DEF TypeOK, Goto
  <2>9. Opens(w, o)
    BY <1>0, <1>1, <2>1, <2>2, <2>6, <2>7, <2>8 DEF Opens, gitVars, clientVars
  <2> QED
    BY <2>9
<1> QED
  BY <1>3

\* What the steps of a journal know of it.
LEMMA AtOp ==
  ASSUME SafetyInv, NEW w \in Worker, pc[w] \in JournalStep
  PROVE  /\ op[w] \in Op /\ journals[op[w]] # NoJournal /\ journals[op[w]] \in Journal
         /\ op[w] \in Journaled
         /\ pc[w] \in ResultStep => journals[op[w]].result = PlanResult(op[w])
         /\ pc[w] \in MarkedStep /\ op[w] \in Unsettled => gitMain = journals[op[w]].result
         /\ pc[w] \in RecoveryStep /\ lease = w => journals[op[w]].phase \in ActivePhase
         /\ journals[op[w]].phase \in ActivePhase => op[w] \in Unsettled
<1>1. /\ op[w] \in Op /\ journals[op[w]] # NoJournal /\ journals[op[w]] \in Journal
      /\ pc[w] \in ResultStep => journals[op[w]].result = PlanResult(op[w])
      /\ pc[w] \in RecoveryStep /\ lease = w => journals[op[w]].phase \in ActivePhase
  BY AtJournal DEF SafetyInv
<1>2. journals[op[w]].phase \in ActivePhase => op[w] \in Unsettled
  BY <1>1 DEF Unsettled, ActivePhase
<1> QED
  BY <1>1, <1>2 DEF SafetyInv, MarkInv, Journaled

\* What PersistResult and MarkMainUpdated write.
LEMMA PersistsStep ==
  ASSUME SafetyInv, NEW w \in Worker, PersistResult(w) \/ MarkMainUpdated(w)
  PROVE  \/ UNCHANGED <<journals, candidate>>
         \/ \E o \in Op : Persists(w, o) \/ Marks(w, o)
<1> DEFINE o == op[w]
<1>0. /\ TypeOK /\ TypeInv /\ pc[w] \in {"persist", "r-persist", "mark", "r-mark"} /\ lease = w
      /\ UNCHANGED <<gitVars, clientVars, dbMain, service, requests, tickets, idem, events>>
  BY DEF SafetyInv, TypeInv, PersistResult, MarkMainUpdated, Transact, Revalidate
<1>1. pc[w] \in JournalStep
  BY <1>0 DEF JournalStep
<1>2. /\ o \in Op /\ journals[o] # NoJournal /\ journals[o] \in Journal
      /\ pc[w] \in ResultStep => journals[o].result = PlanResult(o)
      /\ pc[w] \in MarkedStep /\ o \in Unsettled => gitMain = journals[o].result
      /\ journals[o].phase \in ActivePhase => o \in Unsettled
      /\ PlanResult(o) \in Oid
  BY <1>0, <1>1, AtOp, PlanResultType
<1>3. CASE PersistResult(w) /\ journals[o].phase = "prepared"
  <2>1. /\ journals' = [journals EXCEPT ![o].phase = "result-persisted",
                                        ![o].result = PlanResult(o)]
        /\ candidate' = o
        /\ Local(w, IF pc[w] = "persist" THEN "settle" ELSE "r-rematerialize")
    BY <1>3 DEF PersistResult
  <2>2. Moved(o, "result-persisted", journals[o].from, PlanResult(o))
    BY <1>2, <2>1 DEF Journal, Moved
  <2>3. journals[o].from \in ActivePhase \cup {"none"} /\ "result-persisted" \in Phase
    BY <1>2 DEF Journal, Phase, ActivePhase
  <2>4. lease' = lease /\ journals[o].phase \in ActivePhase
    BY <1>3, <2>1 DEF Local, ActivePhase
  <2> HIDE DEF o
  <2>5. /\ journals'[o] # NoJournal
        /\ journals'[o].in = journals[o].in /\ journals'[o].kind = journals[o].kind
        /\ journals'[o].owner = journals[o].owner
        /\ journals'[o].phase = "result-persisted" /\ journals'[o].from = journals[o].from
        /\ journals'[o].result = PlanResult(o)
        /\ \A p \in Op \ {o} : journals'[p] = journals[p]
    BY <1>0, <1>2, <2>2, <2>3, PhaseChange
  <2>6. Persists(w, o)
    BY <1>0, <1>1, <1>2, <1>3, <2>1, <2>4, <2>5
       DEF o, Persists, Advances, Quiet, gitVars, clientVars
  <2> QED
    BY <1>2, <2>6
<1>4. CASE MarkMainUpdated(w) /\ journals[o].phase = "result-persisted"
  <2>1. /\ journals' = [journals EXCEPT ![o].phase = "main-updated"]
        /\ candidate' = o
        /\ Local(w, IF pc[w] = "mark" THEN "complete" ELSE "r-resettle")
        /\ pc[w] \in ResultStep /\ pc[w] \in MarkedStep
    BY <1>4 DEF MarkMainUpdated, ResultStep, MarkedStep
  <2>2. Moved(o, "main-updated", journals[o].from, journals[o].result)
    BY <1>2, <2>1 DEF Journal, Moved
  <2>3. /\ journals[o].from \in ActivePhase \cup {"none"} /\ "main-updated" \in Phase
        /\ journals[o].result \in {NoOid} \cup Oid
    BY <1>2 DEF Journal, Phase, ActivePhase
  <2>4. lease' = lease /\ journals[o].phase \in ActivePhase
    BY <1>4, <2>1 DEF Local, ActivePhase
  <2>p. journals[o].result = PlanResult(o) /\ gitMain = journals[o].result
    BY <1>2, <2>1, <2>4
  <2> HIDE DEF o
  <2>5. /\ journals'[o] # NoJournal
        /\ journals'[o].in = journals[o].in /\ journals'[o].kind = journals[o].kind
        /\ journals'[o].owner = journals[o].owner
        /\ journals'[o].phase = "main-updated" /\ journals'[o].from = journals[o].from
        /\ journals'[o].result = journals[o].result
        /\ \A p \in Op \ {o} : journals'[p] = journals[p]
    BY <1>0, <1>2, <2>2, <2>3, <2>p, PhaseChange
  <2>6. Marks(w, o)
    BY <1>0, <1>1, <1>2, <1>4, <2>1, <2>4, <2>5, <2>p
       DEF o, Marks, Advances, Quiet, gitVars, clientVars
  <2> QED
    BY <1>2, <2>6
<1> QED
  BY <1>3, <1>4 DEF PersistResult, MarkMainUpdated


\* What Classify writes.
LEMMA IsolatesStep ==
  ASSUME SafetyInv, NEW w \in Worker, Classify(w)
  PROVE  \E o \in Op : Isolates(w, o)
<1> DEFINE o == op[w]
<1>0. /\ TypeOK /\ TypeInv /\ pc[w] = "r-classify" /\ lease = w /\ service' = "recovery-required"
      /\ UNCHANGED <<dbMain, requests, tickets, idem, events, gitVars, clientVars>>
      /\ journals' = [journals EXCEPT ![o].phase = "recovery-required",
                                      ![o].from = journals[o].phase]
      /\ candidate' = RemoveCandidate(o)
  BY DEF SafetyInv, TypeInv, Classify
<1>1. pc[w] \in JournalStep /\ pc[w] \in RecoveryStep
  BY <1>0 DEF JournalStep, RecoveryStep
<1>2. /\ o \in Op /\ journals[o] # NoJournal /\ journals[o] \in Journal
      /\ journals[o].phase \in ActivePhase /\ o \in Unsettled
  BY <1>0, <1>1, AtOp
<1>3. Moved(o, "recovery-required", journals[o].phase, journals[o].result)
  BY <1>0, <1>2 DEF Journal, Moved
<1>4. journals[o].phase = "main-updated" => journals[o].result = PlanResult(o)
  BY <1>0, <1>2 DEF TypeInv, ResultInv
<1>5. "recovery-required" \in Phase /\ journals[o].phase \in ActivePhase \cup {"none"}
  BY <1>2 DEF Phase
<1> HIDE DEF o
<1>8. candidate' # o
  BY <1>0, <1>2, ConstantAssumption DEF RemoveCandidate
<1>6. /\ journals'[o] # NoJournal
      /\ journals'[o].in = journals[o].in /\ journals'[o].kind = journals[o].kind
      /\ journals'[o].owner = journals[o].owner
      /\ journals'[o].phase = "recovery-required" /\ journals'[o].from = journals[o].phase
      /\ journals'[o].result = journals[o].result
      /\ \A p \in Op \ {o} : journals'[p] = journals[p]
  <2> DEFINE from == journals[o].phase
             result == journals[o].result
  <2>1. /\ from = "main-updated" => result = PlanResult(o)
        /\ from \in ActivePhase \cup {"none"} /\ result \in {journals[o].result, PlanResult(o)}
        /\ Moved(o, "recovery-required", from, result)
        /\ TypeInv /\ o \in Op /\ journals[o] # NoJournal
        /\ "recovery-required" \notin {"result-persisted", "main-updated", "completed"}
    BY <1>0, <1>2, <1>3, <1>4, <1>5
  <2> HIDE DEF from, result
  <2>2. /\ journals'[o] # NoJournal
        /\ journals'[o].in = journals[o].in /\ journals'[o].kind = journals[o].kind
        /\ journals'[o].owner = journals[o].owner
        /\ journals'[o].phase = "recovery-required" /\ journals'[o].from = from
        /\ journals'[o].result = result
        /\ \A p \in Op \ {o} : journals'[p] = journals[p]
    BY <1>5, <2>1, PhaseChange
  <2> QED
    BY <2>2 DEF from, result
<1>7. Isolates(w, o)
  BY <1>0, <1>1, <1>2, <1>6, <1>8 DEF o, Isolates, Advances, gitVars, clientVars
<1> QED
  BY <1>2, <1>7

\* What Complete writes.
LEMMA CompletesStep ==
  ASSUME SafetyInv, NEW w \in Worker, Complete(w)
  PROVE  \/ UNCHANGED <<dbVars, replies>>
         \/ \E o \in Op : Completes(w, o)
<1> DEFINE o == op[w]
<1>0. /\ TypeOK /\ TypeInv /\ StoreInv /\ pc[w] \in {"complete", "r-complete"} /\ lease = w
      /\ UNCHANGED <<gitVars, sent>>
  BY DEF SafetyInv, TypeInv, Complete, Transact, Revalidate
<1>1. pc[w] \in JournalStep
  BY <1>0 DEF JournalStep
<1>2. /\ o \in Op /\ journals[o] # NoJournal /\ journals[o] \in Journal
      /\ journals[o].phase \in ActivePhase => o \in Unsettled
  BY <1>0, <1>1, AtOp
<1>3. CASE /\ journals[o].phase = "main-updated" /\ CompletionFences(o)
           /\ ResolvedTicketsOpen(o) /\ IdempotencyFree(o)
  <2>1. /\ SettleJournal(o)
        /\ \/ UNCHANGED replies
           \/ pc[w] = "complete" /\ Reply(w, journals[o].result)
    BY <1>3 DEF Complete
  <2>2. Moved(o, "completed", journals[o].from, journals[o].result)
    BY <1>2, <2>1 DEF SettleJournal, Journal, Moved
  <2>3. /\ o \in Unsettled /\ journals[o].result = PlanResult(o)
        /\ gitMain = journals[o].result /\ journals[o].phase \in ActivePhase
    BY <1>0, <1>2, <1>3 DEF TypeInv, ResultInv, ActivePhase, StoreInv, MainAgreement
  <2>4. "completed" \in Phase /\ journals[o].from \in ActivePhase \cup {"none"}
    BY <1>2 DEF Phase, Journal
  <2>5. UNCHANGED service
    BY <2>1 DEF SettleJournal
  <2> HIDE DEF o
  <2>6. /\ journals'[o] # NoJournal
        /\ journals'[o].in = journals[o].in /\ journals'[o].kind = journals[o].kind
        /\ journals'[o].owner = journals[o].owner
        /\ journals'[o].phase = "completed" /\ journals'[o].from = journals[o].from
        /\ journals'[o].result = journals[o].result
        /\ \A p \in Op \ {o} : journals'[p] = journals[p]
    BY <1>0, <1>2, <2>2, <2>3, <2>4, PhaseChange
  <2>7. Completes(w, o)
    BY <1>0, <1>1, <1>2, <1>3, <2>1, <2>3, <2>5, <2>6
       DEF o, Completes, Advances, gitVars, Reply
  <2> QED
    BY <1>2, <2>7
<1> QED
  BY <1>3 DEF Complete

JournalMove == \E w \in Worker, o \in Op :
  Opens(w, o) \/ Persists(w, o) \/ Marks(w, o) \/ Isolates(w, o) \/ Completes(w, o)

\* Whatever writes a journal is one of these.
LEMMA JournalMoves ==
  ASSUME SafetyInv, [Next]_vars
  PROVE  UNCHANGED <<journals, candidate, idem, dbMain, service>> \/ JournalMove
<1>1. ASSUME NEW w \in Worker, Acts(w)
      PROVE  UNCHANGED <<journals, candidate, idem, dbMain, service>> \/ JournalMove
  <2>1. CASE Prepare(w)
    BY <2>1, OpensStep DEF JournalMove, Prepare, Fail, dbVars
  <2>2. CASE PersistResult(w) \/ MarkMainUpdated(w)
    BY <2>2, PersistsStep DEF JournalMove, PersistResult, MarkMainUpdated
  <2>3. CASE Classify(w)
    BY <2>3, IsolatesStep DEF JournalMove
  <2>4. CASE Complete(w)
    BY <2>4, CompletesStep DEF JournalMove, dbVars
  <2> QED
    BY <1>1, <2>1, <2>2, <2>3, <2>4, Writers DEF JournalWriter
<1> QED
  BY <1>1, WorkerSteps DEF dbVars


-----------------------------------------------------------------------------
(* An intent takes effect once: each conjunct in turn. *)

\* Every journal is completed or unsettled.
LEMMA Sorted ==
  /\ Journaled = Completed \cup Unsettled
  /\ Completed \cap Unsettled = {}
  /\ Journaled \subseteq Op
BY DEF Journaled, Completed, Unsettled

\* How the journals are sorted after one of them moves.
LEMMA SortedNext ==
  ASSUME SafetyInv, NEW w \in Worker, NEW o \in Op
  PROVE  /\ Opens(w, o) =>
              /\ Journaled' = Journaled \cup {o} /\ o \notin Journaled
              /\ Completed' = Completed /\ Unsettled' = {o} /\ Unsettled = {}
         /\ Persists(w, o) \/ Marks(w, o) \/ Isolates(w, o) =>
              /\ Journaled' = Journaled /\ Completed' = Completed /\ Unsettled' = Unsettled
              /\ Unsettled = {o}
         /\ Completes(w, o) =>
              /\ Journaled' = Journaled /\ Completed' = Completed \cup {o}
              /\ Unsettled' = {} /\ Unsettled = {o} /\ o \notin Completed
<1>1. Opens(w, o) =>
        /\ Journaled' = Journaled \cup {o} /\ o \notin Journaled
        /\ Completed' = Completed /\ Unsettled' = {o} /\ Unsettled = {}
  BY DEF Opens, Journaled, Completed, Unsettled
<1>2. o \in Unsettled => Unsettled = {o}
  BY DEF SafetyInv, StoreInv, SingleJournal
<1>3. Persists(w, o) \/ Marks(w, o) \/ Isolates(w, o) =>
        /\ Journaled' = Journaled /\ Completed' = Completed /\ Unsettled' = Unsettled
        /\ o \in Unsettled
  BY DEF Persists, Marks, Isolates, Advances, Journaled, Completed, Unsettled, ActivePhase
<1>4. Completes(w, o) =>
        /\ Journaled' = Journaled /\ Completed' = Completed \cup {o}
        /\ Unsettled' = Unsettled \ {o} /\ o \in Unsettled /\ o \notin Completed
  BY DEF Completes, Advances, Journaled, Completed, Unsettled
<1> QED
  BY <1>1, <1>2, <1>3, <1>4

\* A journal keeps its plan while it or another one moves.
LEMMA PlansKept ==
  ASSUME SafetyInv, [Next]_vars, NEW o \in Journaled
  PROVE  /\ o \in Journaled'
         /\ journals'[o].in = journals[o].in /\ journals'[o].kind = journals[o].kind
         /\ journals'[o].owner = journals[o].owner
         /\ Intent(o)' = Intent(o) /\ PlanResult(o)' = PlanResult(o)
         /\ o \in Completed => journals'[o] = journals[o]
<1>1. /\ o \in Op /\ journals[o] # NoJournal /\ journals'[o] # NoJournal
      /\ journals'[o].in = journals[o].in /\ journals'[o].kind = journals[o].kind
      /\ journals'[o].owner = journals[o].owner
      /\ o \in Completed => journals'[o] = journals[o]
  <2>1. CASE UNCHANGED journals
    BY <2>1 DEF Journaled
  <2>2. CASE JournalMove
    BY <2>2, Sorted DEF JournalMove, Opens, Persists, Marks, Isolates, Completes, Advances, Journaled
  <2> QED
    BY <2>1, <2>2, JournalMoves
<1> QED
  BY <1>1 DEF Journaled, Intent, PlanResult, MergeCommit

\* A reply replays the stored response, or it is the one of a completed journal.
LEMMA Replies ==
  ASSUME SafetyInv, [Next]_vars
  PROVE  \/ UNCHANGED replies
         \/ \E w \in Worker, o \in Op : Completes(w, o)
         \/ /\ UNCHANGED <<journals, gitMain>>
            /\ \E in \in AcceptInput :
                 /\ idem[<<in.actor, in.key>>] # NoInput /\ idem[<<in.actor, in.key>>].in = in
                 /\ replies' = replies \cup {[in |-> in,
                                              result |-> idem[<<in.actor, in.key>>].result]}
<1>1. ASSUME NEW w \in Worker, Inspect(w), ~UNCHANGED replies
      PROVE  /\ UNCHANGED <<journals, gitMain>> /\ task[w] \in AcceptInput
             /\ idem[<<task[w].actor, task[w].key>>] # NoInput
             /\ idem[<<task[w].actor, task[w].key>>].in = task[w]
             /\ replies' = replies \cup {[in |-> task[w],
                              result |-> idem[<<task[w].actor, task[w].key>>].result]}
  <2>1. task[w] \in AcceptInput
    BY <1>1 DEF SafetyInv, TypeInv, WorkerInv, TaskInv, Inspect, AcceptStep
  <2>2. IdempotencyFind(task[w]) = "replay" /\ Reply(w, idem[<<task[w].actor, task[w].key>>].result)
    BY <1>1 DEF Inspect
  <2> QED
    BY <1>1, <2>1, <2>2 DEF Inspect, IdempotencyFind, Reply, dbVars, gitVars
<1>2. ASSUME NEW w \in Worker, Complete(w), ~UNCHANGED replies
      PROVE  \E o \in Op : Completes(w, o)
  BY <1>2, CompletesStep
<1> QED
  BY <1>1, <1>2, WorkerSteps, Writers

\* Every step keeps an intent to one journal and one response.
LEMMA IntentNext ==
  ASSUME OnceInv, [Next]_vars
  PROVE  IntentInv'
<1>0. SafetyInv /\ IntentInv /\ TypeOK /\ (\A w \in Worker : CallInv(w))
  BY DEF OnceInv, SafetyInv, TypeInv
<1>1. \A o \in Journaled : o \in Journaled' /\ Intent(o)' = Intent(o)
                             /\ (o \in Completed => Outcome(o)' = Outcome(o) /\ o \in Completed')
  BY <1>0, PlansKept, Sorted DEF Outcome, Completed, Journaled
<1>t. ASSUME NEW o \in Journaled PROVE Intent(o) \in Member \X Key
  BY <1>0 DEF TypeOK, Journaled, Journal, AcceptInput, Intent
<1>2. CASE UNCHANGED <<journals, idem>>
  <2>1. ASSUME NEW x \in replies' PROVE \E o \in Completed' : x = Outcome(o)'
    <3>1. CASE x \in replies
      BY <1>0, <1>1, <3>1, Sorted DEF IntentInv
    <3>2. CASE x \notin replies
      <4>1. ~\E w \in Worker, o \in Op : Completes(w, o)
        BY <1>2 DEF Completes
      <4>2. PICK in \in AcceptInput :
              /\ idem[<<in.actor, in.key>>] # NoInput /\ idem[<<in.actor, in.key>>].in = in
              /\ x = [in |-> in, result |-> idem[<<in.actor, in.key>>].result]
        BY <1>0, <2>1, <3>2, <4>1, Replies
      <4>3. <<in.actor, in.key>> \in Member \X Key
        BY DEF AcceptInput
      <4>4. PICK o \in Completed : Intent(o) = <<in.actor, in.key>>
        BY <1>0, <4>2, <4>3 DEF IntentInv
      <4>5. idem[<<in.actor, in.key>>] = Outcome(o)
        BY <1>0, <4>4 DEF IntentInv
      <4>6. x = Outcome(o)
        BY <4>2, <4>5 DEF Outcome
      <4> QED
        BY <1>1, <4>4, <4>6, Sorted
    <3> QED
      BY <3>1, <3>2
  <2>2. Journaled' = Journaled /\ Completed' = Completed /\ Unsettled' = Unsettled
    BY <1>2 DEF Journaled, Completed, Unsettled
  <2> QED
    BY <1>0, <1>1, <1>2, <2>1, <2>2, Sorted DEF IntentInv
<1>3. ASSUME NEW w \in Worker, NEW o \in Op, Opens(w, o) PROVE IntentInv'
  <2>1. /\ Journaled' = Journaled \cup {o} /\ o \notin Journaled
        /\ Completed' = Completed /\ Unsettled' = {o} /\ Unsettled = {}
    BY <1>0, <1>3, SortedNext
  <2>2. Intent(o)' = <<task[w].actor, task[w].key>> /\ idem[Intent(o)'] = NoInput
    BY <1>0, <1>3 DEF Opens, Intent, CallInv
  <2>3. \A p \in Journaled : idem[Intent(p)] # NoInput
    <3>1. ASSUME NEW p \in Completed PROVE idem[Intent(p)] # NoInput
      <4>1. idem[Intent(p)] = Outcome(p)
        BY <1>0 DEF IntentInv
      <4>2. journals[p].in \in AcceptInput /\ journals[p].result \in Oid
        BY <1>0, PlanResultType DEF Completed, TypeOK, Journal, SafetyInv, TypeInv, ResultInv
      <4> QED
        BY <4>1, <4>2, AbsentAssumption DEF Outcome
    <3> QED
      BY <2>1, <3>1, Sorted
  <2> QED
    BY <1>0, <1>1, <1>3, <2>1, <2>2, <2>3, Sorted DEF IntentInv, Opens
<1>4. ASSUME NEW w \in Worker, NEW o \in Op, Persists(w, o) \/ Marks(w, o) \/ Isolates(w, o)
      PROVE  IntentInv'
  <2>1. /\ Journaled' = Journaled /\ Completed' = Completed /\ Unsettled' = Unsettled
        /\ UNCHANGED <<idem, replies>>
    BY <1>0, <1>4, SortedNext DEF Persists, Marks, Isolates, Quiet
  <2> QED
    BY <1>0, <1>1, <2>1, Sorted DEF IntentInv
<1>5. ASSUME NEW w \in Worker, NEW o \in Op, Completes(w, o) PROVE IntentInv'
  <2>1. /\ Journaled' = Journaled /\ Completed' = Completed \cup {o}
        /\ Unsettled' = {} /\ Unsettled = {o} /\ o \notin Completed
    BY <1>0, <1>5, SortedNext
  <2>2. Outcome(o)' = Outcome(o) /\ Intent(o) \in Member \X Key
    BY <1>5, <1>t, <2>1, Sorted DEF Completes, Advances, Outcome
  <2>3. idem' = [idem EXCEPT ![Intent(o)] = Outcome(o)]
    BY <1>5 DEF Completes, SettleJournal, Intent, Outcome
  <2>4. \A x \in replies' : x \in replies \/ x = Outcome(o)
    <3>1. pc[w] = "complete" => task[w] = journals[o].in
      BY <1>0, <1>5 DEF Completes, Advances, CallInv, LateStep, AcceptStep
    <3>2. \/ UNCHANGED replies
          \/ /\ pc[w] = "complete"
             /\ replies' = replies \cup {[in |-> task[w], result |-> journals[o].result]}
      BY <1>5 DEF Completes
    <3> QED
      BY <3>1, <3>2 DEF Outcome
  <2>5. idem \in [Member \X Key -> [in: AcceptInput, result: Oid] \cup {NoInput}]
    BY <1>0 DEF TypeOK
  <2>6. \A p \in Journaled : p # o => Intent(p) # Intent(o) /\ p \in Completed
    BY <1>0, <2>1, Sorted DEF IntentInv
  <2> HIDE DEF Intent, Outcome
  <2>7. \A p \in Completed' : idem'[Intent(p)'] = Outcome(p)'
    BY <1>0, <1>1, <1>t, <2>1, <2>2, <2>3, <2>5, <2>6, Sorted DEF IntentInv
  <2>8. \A x \in Member \X Key : idem'[x] # NoInput => \E p \in Completed' : Intent(p)' = x
    BY <1>0, <1>1, <2>1, <2>2, <2>3, <2>5, Sorted DEF IntentInv
  <2> QED
    BY <1>0, <1>1, <2>1, <2>2, <2>4, <2>7, <2>8, Sorted DEF IntentInv
<1> QED
  BY <1>0, <1>2, <1>3, <1>4, <1>5, JournalMoves DEF JournalMove


\* Main stays, or update-ref merges the head of an unsettled journal into it.
LEMMA MainMerges ==
  ASSUME SafetyInv, [Next]_vars
  PROVE  \/ UNCHANGED gitMain
         \/ \E o \in Unsettled :
              /\ journals[o].kind = "merge" /\ gitMain = journals[o].in.main
              /\ journals[o].result = PlanResult(o)
              /\ gitMain' = journals[o].result
              /\ gitMain' = gitMain \cup journals[o].in.head \cup {o}
              /\ UNCHANGED <<dbVars, refs, sent, replies>>
<1> SUFFICES ASSUME ~UNCHANGED gitMain
             PROVE  \E o \in Unsettled :
                      /\ journals[o].kind = "merge" /\ gitMain = journals[o].in.main
                      /\ journals[o].result = PlanResult(o)
                      /\ gitMain' = journals[o].result
                      /\ gitMain' = gitMain \cup journals[o].in.head \cup {o}
                      /\ UNCHANGED <<dbVars, refs, sent, replies>>
  OBVIOUS
<1>1. PICK w \in Worker : UpdateRef(w) \/ GitFails(w)
  BY WorkerSteps, Writers DEF gitVars
<1>2. /\ pc[w] \in UpdateStep /\ gitMain' = CasMain(journals[op[w]])
      /\ UNCHANGED <<dbVars, refs, sent, replies>>
  <2>1. CASE UpdateRef(w)
    BY <2>1 DEF UpdateRef, UpdateStep, clientVars
  <2>2. CASE GitFails(w)
    BY <2>2, GitFailsStep DEF SafetyInv, TypeInv
  <2> QED
    BY <1>1, <2>1, <2>2
<1>3. gitMain = journals[op[w]].in.main /\ gitMain' = journals[op[w]].result
  BY <1>2 DEF CasMain
<1>4. /\ op[w] \in Unsettled /\ journals[op[w]].result = MergeCommit(op[w])
  BY <1>2, <1>3, CasUnsettled
<1>5. journals[op[w]].kind = "merge" /\ journals[op[w]].result = PlanResult(op[w])
  <2>1. pc[w] \in JournalStep /\ pc[w] \in ResultStep
    BY <1>2 DEF UpdateStep, JournalStep, ResultStep
  <2> QED
    BY <1>2, <2>1, AtJournal DEF SafetyInv
<1> QED
  BY <1>2, <1>3, <1>4, <1>5 DEF MergeCommit

\* A request is published or edited while the Project has no journal.
Edits(w, r) ==
  /\ Unsettled = {} /\ service = "active" /\ task[w] \in EnsureTask \cup EditTask
  /\ requests[r] # NoRequest => /\ requests[r].status = "open"
                                /\ requests'[r].owner = requests[r].owner
  /\ requests'[r] # NoRequest /\ requests'[r].status = "open"
  /\ requests'[r].head = task[w].head
  /\ UNCHANGED <<journals, idem, dbMain, gitMain, tickets, service, refs>>

\* What writes a request: an edit, or the completion of its journal.
LEMMA RequestMoves ==
  ASSUME SafetyInv, [Next]_vars, NEW r \in Request
  PROVE  \/ UNCHANGED requests[r]
         \/ \E w \in Worker : Edits(w, r)
         \/ \E w \in Worker, o \in Op :
              /\ Completes(w, o) /\ r = journals[o].in.req
              /\ requests[r] # NoRequest /\ requests'[r] # NoRequest
              /\ requests'[r].owner = requests[r].owner /\ requests'[r].head = requests[r].head
              /\ requests'[r].status = "merged" /\ requests'[r].merged = journals[o].result
<1>0. TypeOK
  BY DEF SafetyInv, TypeInv
<1>1. ASSUME NEW w \in Worker, ApplyEnsure(w) \/ ApplyEdit(w), ~UNCHANGED requests[r]
      PROVE  Edits(w, r)
  <2>1. /\ Unsettled = {} /\ service = "active" /\ task[w] \in EnsureTask \cup EditTask
        /\ UNCHANGED <<journals, idem, dbMain, gitMain, tickets, service, refs>>
    <3>1. Revalidate(w, NoOp) /\ task[w].kind \in {"ensure", "edit"}
      BY <1>1 DEF ApplyEnsure, ApplyEdit
    <3>2. Unsettled = {} /\ service = "active"
      BY <3>1, SameJournals, ConstantAssumption DEF Revalidate, Nonterminal
    <3>3. task[w] \in EnsureTask \cup EditTask
      BY <1>0, <3>1, TaskKinds DEF TypeOK
    <3> QED
      BY <1>1, <3>2, <3>3 DEF ApplyEnsure, ApplyEdit, gitVars
  <2>2. ASSUME NEW q \in Request, requests[q] # NoRequest, requests[q].status = "open",
               UpdateOpen(q, task[w].head, task[w].resolves)
        PROVE  Edits(w, r)
    <3>1. requests[q] \in RequestRow
      BY <1>0, <2>2 DEF TypeOK
    <3>2. requests' = [requests EXCEPT ![q].head = task[w].head,
                                       ![q].resolves = task[w].resolves, ![q].rev = @ + 1]
      BY <1>1, <2>2 DEF UpdateOpen
    <3>3. r = q
      BY <1>0, <1>1, <3>2 DEF TypeOK
    <3>4. /\ requests'[q].owner = requests[q].owner /\ requests'[q].status = "open"
          /\ requests'[q].head = task[w].head
      BY <1>0, <2>2, <3>1, <3>2 DEF TypeOK, RequestRow
    <3>5. requests'[q] \in RequestRow
      <4>1. task[w].head \in Oid /\ task[w].resolves \in SUBSET Ticket
        BY <2>1 DEF EnsureTask, EditTask
      <4> QED
        BY <1>0, <3>1, <3>2, <4>1 DEF TypeOK, RequestRow
    <3> QED
      BY <2>1, <2>2, <3>3, <3>4, <3>5, AbsentAssumption DEF Edits
  <2>3. CASE ApplyEnsure(w)
    <3>1. task[w] \in EnsureTask
      BY <1>0, <2>3, TaskKinds DEF TypeOK, ApplyEnsure
    <3>2. CASE OpenRequest(task[w].actor) = {}
      <4> DEFINE row == [owner |-> task[w].actor, head |-> task[w].head, rev |-> 1,
                         status |-> "open", resolves |-> task[w].resolves, merged |-> NoOid]
      <4>1. PICK q \in Request : requests[q] = NoRequest /\ requests' = [requests EXCEPT ![q] = row]
        BY <2>3, <3>2 DEF ApplyEnsure
      <4>2. row \in RequestRow
        BY <3>1 DEF EnsureTask, RequestRow
      <4>3. r = q /\ requests'[q] = row
        BY <1>0, <1>1, <4>1 DEF TypeOK
      <4> QED
        BY <2>1, <4>1, <4>2, <4>3, AbsentAssumption DEF Edits
    <3>3. CASE OpenRequest(task[w].actor) # {}
      BY <2>2, <2>3, <3>3 DEF ApplyEnsure, OpenRequest
    <3> QED
      BY <3>2, <3>3
  <2>4. CASE ApplyEdit(w)
    <3>1. task[w] \in EditTask /\ WorkerInv(w)
      BY <1>0, <2>4, TaskKinds DEF TypeOK, ApplyEdit, SafetyInv, TypeInv
    <3>2. task[w].req \in Request /\ requests[task[w].req] # NoRequest
      BY <3>1 DEF EditTask, WorkerInv, TaskInv
    <3> QED
      BY <1>1, <2>2, <2>4, <3>2 DEF ApplyEdit
  <2> QED
    BY <1>1, <2>3, <2>4
<1>2. ASSUME NEW w \in Worker, Complete(w), ~UNCHANGED requests[r]
      PROVE  \E o \in Op :
              /\ Completes(w, o) /\ r = journals[o].in.req
              /\ requests[r] # NoRequest /\ requests'[r] # NoRequest
              /\ requests'[r].owner = requests[r].owner /\ requests'[r].head = requests[r].head
              /\ requests'[r].status = "merged" /\ requests'[r].merged = journals[o].result
  <2>1. PICK o \in Op : Completes(w, o)
    BY <1>2, CompletesStep DEF dbVars
  <2>2. /\ requests' = [requests EXCEPT ![journals[o].in.req] = MergeRow(@, journals[o].result)]
        /\ requests[journals[o].in.req] # NoRequest /\ journals[o] \in Journal
    BY <1>0, <2>1 DEF Completes, Advances, SettleJournal, CompletionFences, ValidRequest,
       TypeOK, Unsettled
  <2>3. r = journals[o].in.req /\ requests[r] \in RequestRow
        /\ requests'[r] = MergeRow(requests[r], journals[o].result)
    BY <1>0, <1>2, <2>2 DEF TypeOK
  <2>4. journals[o].result \in {NoOid} \cup Oid
    BY <2>2 DEF Journal
  <2>5. /\ requests'[r].owner = requests[r].owner /\ requests'[r].head = requests[r].head
        /\ requests'[r].status = "merged" /\ requests'[r].merged = journals[o].result
        /\ requests'[r] \in RequestRow
    BY <2>3, <2>4 DEF MergeRow, RequestRow
  <2> QED
    BY <2>1, <2>2, <2>3, <2>5, AbsentAssumption
<1> QED
  BY <1>1, <1>2, WorkerSteps, Writers DEF dbVars


-----------------------------------------------------------------------------
(* What one step moves. *)

\* The step of one worker leaves the others where they are.
LEMMA OthersStay ==
  ASSUME SafetyInv, NEW w \in Worker, Acts(w), NEW v \in Worker \ {w}
  PROVE  /\ pc'[v] = pc[v] /\ task'[v] = task[v] /\ op'[v] = op[v]
         /\ seen'[v] = seen[v]
         /\ lease' = v => lease = v
<1>0. TypeOK /\ w # NoWorker /\ v # NoWorker
  BY ConstantAssumption DEF SafetyInv, TypeInv
<1>1. CASE ClientStart(w)
  BY <1>0, <1>1 DEF TypeOK, ClientStart, StartAccept, StartPush, StartEnsure, StartEdit,
     StartTicket, Start
<1>2. CASE \/ StartRecovery(w) \/ AbandonRecovery(w) \/ Reserve(w) \/ RecoverReserve(w)
  BY <1>0, <1>2 DEF TypeOK, StartRecovery, AbandonRecovery, Reserve, RecoverReserve, Goto
<1>3. ASSUME Finish(w)
      PROVE  /\ pc'[v] = pc[v] /\ task'[v] = task[v] /\ op'[v] = op[v]
             /\ seen'[v] = seen[v]
             /\ lease' = v => lease = v
  BY <1>0, <1>3 DEF TypeOK, Finish
<1>4. ASSUME NEW step, Local(w, step)
      PROVE  /\ pc'[v] = pc[v] /\ task'[v] = task[v] /\ op'[v] = op[v]
             /\ seen'[v] = seen[v]
             /\ lease' = v => lease = v
  BY <1>0, <1>4 DEF TypeOK, Local, Goto
<1>5. CASE Interrupt(w) \/ Receive(w) \/ TransactFails(w) \/ WaitTimeout(w) \/ Classify(w)
           \/ ApplyEnsure(w) \/ ApplyEdit(w) \/ ApplyTicket(w)
  BY <1>3, <1>5 DEF Interrupt, Receive, TransactFails, WaitTimeout, Classify, Fail,
     ApplyEnsure, ApplyEdit, ApplyTicket
<1>6. CASE \/ Inspect(w) \/ Materialize(w) \/ PersistResult(w) \/ MarkMainUpdated(w)
           \/ ReceiveCheck(w) \/ ValidateHead(w)
  BY <1>3, <1>4, <1>6 DEF Inspect, Materialize, PersistResult, MarkMainUpdated, ReceiveCheck,
     ValidateHead, Reject, Fail
<1>7. CASE Prepare(w)
  BY <1>0, <1>3, <1>7 DEF TypeOK, Prepare, Fail, Goto
<1>8. CASE SettleMain(w) \/ UpdateRef(w)
  BY <1>0, <1>3, <1>4, <1>8 DEF TypeOK, SettleMain, UpdateRef, Reject, Settled, Goto
<1>9. CASE Admit(w) \/ RecoverLease(w)
  BY <1>0, <1>3, <1>9 DEF TypeOK, Admit, RecoverLease, Resume, Goto
<1>10. CASE Complete(w)
  BY <1>0, <1>3, <1>4, <1>10 DEF TypeOK, Complete, Reject, Resume, Goto
<1>11. CASE GitFails(w)
  BY <1>4, <1>11 DEF GitFails
<1> QED
  BY <1>1, <1>2, <1>5, <1>6, <1>7, <1>8, <1>9, <1>10, <1>11 DEF Acts, Progress

StoreStep == {"materialize", "persist", "settle", "update-ref", "mark", "complete"}

\* How a worker comes to the steps that rely on what it has read.
LEMMA Arrivals ==
  ASSUME SafetyInv, NEW w \in Worker, Acts(w), ~AbandonRecovery(w)
  PROVE  /\ pc'[w] \in LateStep =>
              \/ \E o \in Op : Opens(w, o)
              \/ pc[w] \in LateStep /\ op'[w] = op[w] /\ task'[w] = task[w]
         /\ pc'[w] = "prepare" => Inspect(w) /\ ~Finish(w)
         /\ pc'[w] = "receive" => ReceiveCheck(w) /\ ~Fail(w)
         /\ pc'[w] \in UpdateStep => SettleMain(w)
<1> DEFINE Early == pc'[w] \notin LateStep \cup {"prepare", "receive"} \cup UpdateStep
<1>0. TypeOK
  BY DEF SafetyInv, TypeInv
<1>l. LateStep = StoreStep
  BY DEF LateStep, AcceptStep, StoreStep
<1>1. Finish(w) => pc'[w] = "idle"
  BY <1>0 DEF TypeOK, Finish
<1>2. Finish(w) => Early
  BY <1>1, <1>l DEF StoreStep, UpdateStep
<1>3. CASE ClientStart(w)
  BY <1>0, <1>3, <1>l DEF TypeOK, ClientStart, StartAccept, StartPush, StartEnsure, StartEdit,
     StartTicket, Start, StoreStep, UpdateStep
<1>4. CASE \/ StartRecovery(w) \/ Reserve(w) \/ RecoverReserve(w)
  BY <1>0, <1>4, <1>l DEF TypeOK, StartRecovery, Reserve, RecoverReserve, Goto, StoreStep,
     UpdateStep
<1>5. CASE Interrupt(w) \/ Receive(w) \/ TransactFails(w) \/ WaitTimeout(w) \/ Classify(w)
           \/ ApplyEnsure(w) \/ ApplyEdit(w) \/ ApplyTicket(w)
  BY <1>2, <1>5 DEF Interrupt, Receive, TransactFails, WaitTimeout, Classify, Fail,
     ApplyEnsure, ApplyEdit, ApplyTicket
<1>6. CASE Admit(w)
  <2>1. Admitted(task[w].kind) \in {"inspect", "receive-check", "validate-head", "apply"}
    BY DEF Admitted
  <2>2. CASE ~Finish(w)
    BY <1>0, <1>6, <1>l, <2>1, <2>2 DEF TypeOK, Admit, Goto, StoreStep, UpdateStep
  <2> QED
    BY <1>2, <2>2
<1>7. CASE RecoverLease(w)
  <2>1. ASSUME NEW o \in Nonterminal, journals[o].phase # "recovery-required"
        PROVE  journals[o].phase \in ActivePhase
    BY <1>0, <2>1 DEF TypeOK, Nonterminal, Journal, Phase
  <2>2. CASE ~Finish(w)
    BY <1>0, <1>7, <1>l, <2>1, <2>2
       DEF TypeOK, RecoverLease, Resume, Goto, StoreStep, UpdateStep, ActivePhase
  <2> QED
    BY <1>2, <2>2
<1>8. CASE Inspect(w)
  <2>1. Finish(w) \/ pc'[w] = "prepare"
    BY <1>0, <1>8 DEF TypeOK, Inspect, Local, Goto
  <2> QED
    BY <1>1, <1>2, <1>8, <1>l, <2>1 DEF StoreStep, UpdateStep
<1>9. CASE ReceiveCheck(w) \/ ValidateHead(w)
  <2>1. \/ Finish(w)
        \/ ReceiveCheck(w) /\ pc'[w] = "receive"
        \/ pc'[w] = "apply"
    BY <1>0, <1>9 DEF TypeOK, ReceiveCheck, ValidateHead, Local, Goto, Fail
  <2> QED
    BY <1>1, <1>2, <1>l, <2>1 DEF StoreStep, UpdateStep, Fail
<1>10. CASE Prepare(w)
  <2>1. CASE Finish(w)
    BY <1>2, <2>1
  <2>2. CASE ~Finish(w)
    <3>1. pc'[w] = "materialize"
      BY <1>0, <1>10, <2>2 DEF TypeOK, Prepare, Fail, Goto
    <3> QED
      BY <1>10, <2>2, <3>1, OpensStep, <1>l DEF Fail, UpdateStep
  <2> QED
    BY <2>1, <2>2
<1>11. CASE \/ Materialize(w) \/ PersistResult(w) \/ MarkMainUpdated(w)
  <2>1. \/ Finish(w)
        \/ UNCHANGED <<op, task>>
             /\ \/ pc[w] \in StoreStep /\ pc'[w] \in {"persist", "settle", "complete"}
                \/ pc'[w] \in {"r-persist", "r-settle", "r-rematerialize", "r-resettle", "r-classify"}
    BY <1>0, <1>11 DEF TypeOK, Materialize, PersistResult, MarkMainUpdated, Reject, Local, Goto,
       StoreStep, RecoveryStep
  <2> QED
    BY <1>2, <1>l, <2>1 DEF StoreStep, UpdateStep
<1>12. CASE SettleMain(w) \/ UpdateRef(w)
  <2>1. \/ Finish(w)
        \/ UNCHANGED <<op, task>>
             /\ \/ pc[w] \in StoreStep /\ pc'[w] = "mark"
                \/ SettleMain(w) /\ pc[w] \in StoreStep /\ pc'[w] = "update-ref"
                \/ SettleMain(w) /\ pc'[w] \in {"r-update-ref", "r-reupdate-ref"}
                \/ pc'[w] \in {"r-mark", "r-complete", "r-classify"}
    BY <1>0, <1>12 DEF TypeOK, SettleMain, UpdateRef, Settled, Reject, Local, Goto,
       StoreStep, RecoveryStep
  <2> QED
    BY <1>2, <1>l, <2>1 DEF StoreStep, UpdateStep
<1>13. CASE Complete(w)
  <2>1. Finish(w) \/ pc'[w] \in {"preflight", "admit", "r-classify"}
    BY <1>0, <1>13 DEF TypeOK, Complete, Resume, Reject, Local, Goto
  <2> QED
    BY <1>2, <1>l, <2>1 DEF StoreStep, UpdateStep
<1>14. CASE GitFails(w)
  <2>1. pc'[w] = "r-classify"
    BY <1>0, <1>14, GitFailsStep
  <2> QED
    BY <1>l, <2>1 DEF StoreStep, UpdateStep
<1> QED
  BY <1>3, <1>4, <1>5, <1>6, <1>7, <1>8, <1>9, <1>10, <1>11, <1>12, <1>13, <1>14
     DEF Acts, Progress


\* A worker's task changes when a client starts it and when it ends.
LEMMA TaskStays ==
  ASSUME SafetyInv, NEW w \in Worker, Acts(w), ~ClientStart(w)
  PROVE  task'[w] \in {task[w], NoTask, RecoverTask} /\ UNCHANGED sent
<1>0. TypeOK
  BY DEF SafetyInv, TypeInv
<1>1. Finish(w) => task'[w] = NoTask
  BY <1>0 DEF TypeOK, Finish
<1>2. CASE StartRecovery(w) \/ AbandonRecovery(w) \/ Reserve(w) \/ RecoverReserve(w)
  BY <1>0, <1>2 DEF TypeOK, StartRecovery, AbandonRecovery, Reserve, RecoverReserve, clientVars
<1>3. CASE \/ Interrupt(w) \/ Receive(w) \/ TransactFails(w) \/ WaitTimeout(w) \/ Classify(w)
           \/ ApplyEnsure(w) \/ ApplyEdit(w) \/ ApplyTicket(w)
  BY <1>1, <1>3 DEF Interrupt, Receive, TransactFails, WaitTimeout, Classify, Fail,
     ApplyEnsure, ApplyEdit, ApplyTicket, clientVars
<1>4. CASE \/ Inspect(w) \/ Materialize(w) \/ PersistResult(w) \/ MarkMainUpdated(w)
           \/ ReceiveCheck(w) \/ ValidateHead(w) \/ Prepare(w)
  BY <1>1, <1>4 DEF Inspect, Materialize, PersistResult, MarkMainUpdated, ReceiveCheck,
     ValidateHead, Prepare, Reject, Fail, Local, clientVars
<1>5. CASE \/ SettleMain(w) \/ UpdateRef(w) \/ Admit(w) \/ RecoverLease(w) \/ Complete(w)
  BY <1>1, <1>5 DEF SettleMain, UpdateRef, Admit, RecoverLease, Complete, Reject, Local, Resume,
     clientVars
<1>6. CASE GitFails(w)
  BY <1>0, <1>6, GitFailsStep
<1> QED
  BY <1>2, <1>3, <1>4, <1>5, <1>6 DEF Acts, Progress

\* A worker that has its journal, or is about to write it, knows its intent.
LEMMA CallNext ==
  ASSUME OnceInv, [Next]_vars, NEW v \in Worker
  PROVE  CallInv(v)'
<1>0. SafetyInv /\ TypeOK /\ CallInv(v) /\ v # NoWorker
  BY ConstantAssumption DEF OnceInv, SafetyInv, TypeInv
<1>1. pc[v] \in LateStep => op[v] \in Journaled
  BY <1>0, AtOp DEF LateStep, AcceptStep, JournalStep
<1>2. pc[v] \in LateStep /\ op'[v] = op[v] /\ task'[v] = task[v] =>
        journals'[op'[v]].in = task'[v]
  BY <1>0, <1>1, PlansKept DEF CallInv
<1>3. pc[v] = "prepare" /\ lease = v => UNCHANGED idem
  <2>1. lease = v /\ JournalMove /\ pc[v] = "prepare" => UNCHANGED idem
    BY DEF JournalMove, Opens, Persists, Marks, Isolates, Completes, Advances, Quiet, JournalStep
  <2> QED
    BY <1>0, <2>1, JournalMoves
<1>4. CASE pc'[v] = pc[v] /\ task'[v] = task[v] /\ op'[v] = op[v] /\ (lease' = v => lease = v)
  BY <1>0, <1>2, <1>3, <1>4 DEF CallInv
<1>5. ASSUME Acts(v), ~AbandonRecovery(v) PROVE CallInv(v)'
  <2>1. pc'[v] \in LateStep => journals'[op'[v]].in = task'[v]
    BY <1>0, <1>2, <1>5, Arrivals DEF Opens
  <2>2. pc'[v] = "prepare" => idem'[<<task'[v].actor, task'[v].key>>] = NoInput
    <3>1. SUFFICES ASSUME Inspect(v), ~Finish(v)
                   PROVE  idem'[<<task'[v].actor, task'[v].key>>] = NoInput
      BY <1>0, <1>5, Arrivals
    <3>2. IdempotencyFind(task[v]) = "missing" /\ UNCHANGED <<idem, task>>
      BY <3>1 DEF Inspect, Local, dbVars
    <3> QED
      BY <3>2 DEF IdempotencyFind
  <2> QED
    BY <2>1, <2>2 DEF CallInv
<1>6. ASSUME AbandonRecovery(v) PROVE CallInv(v)'
  BY <1>6 DEF AbandonRecovery, CallInv, RecoveryStep, LateStep, AcceptStep
<1>7. ASSUME NEW w \in Worker \ {v}, Acts(w) PROVE CallInv(v)'
  BY <1>0, <1>4, <1>7, OthersStay
<1>8. ASSUME pc'[v] = "idle" PROVE CallInv(v)'
  BY <1>8 DEF CallInv, LateStep, AcceptStep
<1> QED
  BY <1>0, <1>4, <1>5, <1>6, <1>7, <1>8, WorkerSteps

\* Main only grows, and the recorded main with it.
LEMMA MainsGrow ==
  ASSUME SafetyInv, [Next]_vars
  PROVE  gitMain \subseteq gitMain' /\ dbMain \subseteq dbMain'
<1>1. gitMain \subseteq gitMain'
  BY MainMerges
<1>2. ASSUME NEW w \in Worker, NEW o \in Op, Completes(w, o) PROVE dbMain \subseteq dbMain'
  <2>1. dbMain = journals[o].in.main /\ dbMain' = PlanResult(o)
    BY <1>2 DEF Completes, CompletionFences, SettleJournal
  <2> QED
    BY <2>1 DEF PlanResult, MergeCommit
<1>3. UNCHANGED dbMain \/ \E w \in Worker, o \in Op : Completes(w, o)
  BY JournalMoves DEF JournalMove, Opens, Persists, Marks, Isolates, Quiet
<1> QED
  BY <1>1, <1>2, <1>3

\* The head of an accepted request is in the result of its plan.
LEMMA HeadInResult ==
  ASSUME PlanInv, NEW o \in Journaled
  PROVE  journals[o].in.head \subseteq PlanResult(o) /\ journals[o].in.main \subseteq PlanResult(o)
BY DEF PlanInv, PlanResult, MergeCommit

\* A merged request stays on main.
LEMMA MergedNext ==
  ASSUME OnceInv, [Next]_vars
  PROVE  MergedInv'
<1>0. SafetyInv /\ MergedInv /\ PlanInv
  BY DEF OnceInv
<1>1. gitMain \subseteq gitMain' /\ dbMain \subseteq dbMain'
  BY <1>0, MainsGrow
<1> SUFFICES ASSUME NEW r \in Request, requests'[r] # NoRequest, requests'[r].status = "merged"
             PROVE  requests'[r].head \subseteq dbMain' /\ requests'[r].merged \subseteq gitMain'
  BY DEF MergedInv
<1>2. CASE UNCHANGED requests[r]
  BY <1>0, <1>1, <1>2 DEF MergedInv
<1>3. ASSUME NEW w \in Worker, Edits(w, r) PROVE FALSE
  BY <1>3 DEF Edits
<1>4. ASSUME NEW w \in Worker, NEW o \in Op, Completes(w, o), r = journals[o].in.req,
             requests'[r].head = requests[r].head, requests'[r].merged = journals[o].result
      PROVE  requests'[r].head \subseteq dbMain' /\ requests'[r].merged \subseteq gitMain'
  <2>1. o \in Unsettled /\ o \in Journaled /\ dbMain' = PlanResult(o) /\ gitMain = journals[o].result
    BY <1>4, Sorted DEF Completes, Advances, SettleJournal
  <2> QED
    BY <1>0, <1>1, <1>4, <2>1, HeadInResult DEF PlanInv
<1> QED
  BY <1>0, <1>2, <1>3, <1>4, RequestMoves


\* What each journal says of itself stays true.
LEMMA PlanNext ==
  ASSUME OnceInv, [Next]_vars
  PROVE  PlanInv'
<1>0. SafetyInv /\ TypeOK /\ PlanInv /\ ReachInv /\ StoreInv
  BY DEF OnceInv, SafetyInv, TypeInv
<1>g. gitMain \subseteq gitMain'
  BY <1>0, MainsGrow
<1>j. \A o \in Journaled : /\ o \in Journaled'
                           /\ journals'[o].in = journals[o].in /\ journals'[o].kind = journals[o].kind
                           /\ PlanResult(o)' = PlanResult(o)
                           /\ journals[o].in.req \in Request
  BY <1>0, PlansKept DEF Journaled, TypeOK, Journal, AcceptInput
\* The rows of planned requests.
<1>r. ASSUME NEW o \in Journaled
      PROVE  /\ requests'[journals[o].in.req] # NoRequest
             /\ o \in Completed => requests'[journals[o].in.req].status = "merged"
             /\ \/ requests'[journals[o].in.req] = requests[journals[o].in.req]
                \/ Unsettled = {}
                \/ \E w \in Worker, p \in Op : Completes(w, p)
  <2> PICK r \in Request : r = journals[o].in.req
    BY <1>j
  <2>1. /\ r \in Request /\ requests[r] # NoRequest
        /\ o \in Completed => requests[r].status = "merged"
    BY <1>0, <1>j, Sorted DEF PlanInv
  <2>2. \/ requests'[r] = requests[r]
        \/ \E w \in Worker : Edits(w, r)
        \/ (\E w \in Worker, p \in Op : Completes(w, p))
             /\ requests'[r] # NoRequest /\ requests'[r].status = "merged"
    BY <1>0, <2>1, RequestMoves
  <2>3. /\ requests'[r] # NoRequest
        /\ o \in Completed => requests'[r].status = "merged"
        /\ \/ requests'[r] = requests[r] \/ Unsettled = {}
           \/ \E w \in Worker, p \in Op : Completes(w, p)
    BY <2>1, <2>2 DEF Edits
  <2> QED
    BY <2>3
\* A merge commit that comes to main is the one that update-ref has merged.
<1>m. ASSUME NEW o \in Journaled, o \in gitMain', o \notin gitMain
      PROVE  journals[o].result = PlanResult(o) /\ UNCHANGED journals
  <2>1. PICK p \in Unsettled :
          /\ journals[p].result = PlanResult(p)
          /\ gitMain' = gitMain \cup journals[p].in.head \cup {p}
          /\ UNCHANGED dbVars
    BY <1>0, <1>m, MainMerges
  <2>2. o \notin journals[p].in.head
    BY <1>0, <1>m, Sorted, ConstantAssumption DEF ReachInv, Reached
  <2> QED
    BY <1>m, <2>1, <2>2 DEF dbVars
<1>2. CASE UNCHANGED journals
  <2>1. Journaled' = Journaled /\ Completed' = Completed /\ Unsettled' = Unsettled
    BY <1>2 DEF Journaled, Completed, Unsettled
  <2>2. ~\E w \in Worker, p \in Op : Completes(w, p)
    BY <1>2 DEF Completes
  <2>3. ASSUME NEW o \in Journaled
        PROVE  /\ journals'[o].kind = "contained" => journals'[o].in.head \subseteq journals'[o].in.main
               /\ journals'[o].from = "main-updated" => journals'[o].phase = "recovery-required"
               /\ o \in gitMain' => journals'[o].result = PlanResult(o)'
               /\ requests'[journals'[o].in.req] # NoRequest
    BY <1>0, <1>2, <1>j, <1>m, <1>r DEF PlanInv
  <2>4. ASSUME NEW o \in Completed
        PROVE  /\ journals'[o].result \subseteq gitMain'
               /\ requests'[journals'[o].in.req].status = "merged"
    BY <1>0, <1>2, <1>g, <1>r, Sorted DEF PlanInv
  <2>5. ASSUME NEW o \in Unsettled
        PROVE  /\ requests'[journals'[o].in.req].status = "open"
               /\ requests'[journals'[o].in.req].head = journals'[o].in.head
    BY <1>0, <1>2, <1>r, <2>2, Sorted DEF PlanInv
  <2> QED
    BY <2>1, <2>3, <2>4, <2>5 DEF PlanInv
<1>3. ASSUME NEW w \in Worker, NEW o \in Op, Opens(w, o) PROVE PlanInv'
  <2>1. /\ Journaled' = Journaled \cup {o} /\ o \notin Journaled
        /\ Completed' = Completed /\ Unsettled' = {o} /\ Unsettled = {}
    BY <1>0, <1>3, SortedNext
  <2>2. /\ \A p \in Journaled : journals'[p] = journals[p]
        /\ UNCHANGED <<requests, gitMain>>
    BY <1>3, <2>1, Sorted DEF Opens
  <2>3. o \notin gitMain
    BY <1>0, <2>1, ConstantAssumption DEF StoreInv, Known, Journaled
  <2>4. /\ journals'[o].kind = "contained" => journals'[o].in.head \subseteq journals'[o].in.main
        /\ journals'[o].from # "main-updated"
        /\ requests[journals'[o].in.req] # NoRequest
        /\ requests[journals'[o].in.req].status = "open"
        /\ requests[journals'[o].in.req].head = journals'[o].in.head
    BY <1>3 DEF Opens, ValidRequest
  <2> QED
    BY <1>0, <1>j, <2>1, <2>2, <2>3, <2>4, Sorted DEF PlanInv
<1>4. ASSUME NEW w \in Worker, NEW o \in Op, Persists(w, o) \/ Marks(w, o) \/ Isolates(w, o)
      PROVE  PlanInv'
  <2>1. /\ Journaled' = Journaled /\ Completed' = Completed /\ Unsettled' = Unsettled
        /\ UNCHANGED <<requests, gitMain>> /\ Unsettled = {o} /\ o \in Journaled
        /\ \A p \in Journaled \ {o} : journals'[p] = journals[p]
    BY <1>0, <1>4, SortedNext, Sorted DEF Persists, Marks, Isolates, Quiet, Advances
  <2>2. journals'[o].from = "main-updated" => journals'[o].phase = "recovery-required"
    BY <1>0, <1>4, <2>1 DEF Persists, Marks, Isolates, PlanInv
  <2>3. journals'[o].result \in {journals[o].result, PlanResult(o)}
    BY <1>4 DEF Persists, Marks, Isolates
  <2>4. ASSUME NEW p \in Journaled
        PROVE  /\ journals'[p].kind = "contained" => journals'[p].in.head \subseteq journals'[p].in.main
               /\ journals'[p].from = "main-updated" => journals'[p].phase = "recovery-required"
               /\ p \in gitMain' => journals'[p].result = PlanResult(p)'
               /\ requests'[journals'[p].in.req] # NoRequest
    BY <1>0, <1>j, <2>1, <2>2, <2>3 DEF PlanInv
  <2>5. \A p \in Completed : p \in Journaled \ {o}
    BY <2>1, Sorted
  <2> QED
    BY <1>0, <1>j, <2>1, <2>4, <2>5 DEF PlanInv
<1>5. ASSUME NEW w \in Worker, NEW o \in Op, Completes(w, o) PROVE PlanInv'
  <2>1. /\ Journaled' = Journaled /\ Completed' = Completed \cup {o}
        /\ Unsettled' = {} /\ Unsettled = {o} /\ o \in Journaled
        /\ \A p \in Journaled \ {o} : journals'[p] = journals[p]
        /\ UNCHANGED gitMain
    BY <1>0, <1>5, SortedNext, Sorted DEF Completes, Advances
  <2>2. /\ journals'[o].from = journals[o].from /\ journals[o].phase = "main-updated"
        /\ journals'[o].result = journals[o].result /\ journals'[o].result = gitMain
        /\ journals[o].result = PlanResult(o)
    BY <1>5 DEF Completes
  <2>3. requests'[journals[o].in.req].status = "merged"
    <3>1. /\ requests' = [requests EXCEPT ![journals[o].in.req] = MergeRow(@, journals[o].result)]
          /\ requests[journals[o].in.req] # NoRequest
      BY <1>5 DEF Completes, SettleJournal, CompletionFences, ValidRequest
    <3>2. requests[journals[o].in.req] \in RequestRow /\ journals[o].in.req \in Request
      BY <1>0, <1>j, <2>1, <3>1 DEF TypeOK
    <3> QED
      BY <1>0, <3>1, <3>2 DEF TypeOK, MergeRow, RequestRow
  <2>4. ASSUME NEW p \in Journaled
        PROVE  /\ journals'[p].kind = "contained" => journals'[p].in.head \subseteq journals'[p].in.main
               /\ journals'[p].from = "main-updated" => journals'[p].phase = "recovery-required"
               /\ p \in gitMain' => journals'[p].result = PlanResult(p)'
               /\ requests'[journals'[p].in.req] # NoRequest
    <3>1. CASE p = o
      BY <1>0, <1>j, <1>r, <2>2, <3>1 DEF PlanInv
    <3>2. CASE p # o
      BY <1>0, <1>j, <1>r, <2>1, <3>2 DEF PlanInv
    <3> QED
      BY <3>1, <3>2
  <2>5. ASSUME NEW p \in Completed'
        PROVE  /\ journals'[p].result \subseteq gitMain'
               /\ requests'[journals'[p].in.req].status = "merged"
    <3>1. CASE p = o
      BY <1>j, <2>1, <2>2, <2>3, <3>1
    <3>2. CASE p # o
      BY <1>0, <1>r, <2>1, <2>5, <3>2, Sorted DEF PlanInv
    <3> QED
      BY <3>1, <3>2
  <2> QED
    BY <2>1, <2>4, <2>5 DEF PlanInv
<1> QED
  BY <1>0, <1>2, <1>3, <1>4, <1>5, JournalMoves DEF JournalMove


\* A client starts an operation only over commits that are on main or pushed.
LEMMA StartReaches ==
  ASSUME SafetyInv, ReachInv, NEW w \in Worker, ClientStart(w)
  PROVE  /\ \A in \in sent' : in.head \subseteq Reached
         /\ task'[w] \in PushTask => task'[w].new \subseteq Reached
         /\ task'[w] \in EnsureTask \cup EditTask => task'[w].head \subseteq Reached
<1>0. TypeOK
  BY DEF SafetyInv, TypeInv
<1>1. ASSUME NEW t, NEW step, Start(w, t, step) PROVE task'[w] = t
  BY <1>0, <1>1 DEF TypeOK, Start
<1>2. CASE StartAccept(w)
  <2>1. PICK in \in {CurrentInput(a, k, r) : a \in Member, k \in Key,
                     r \in {q \in Request : requests[q] # NoRequest}} \cup sent :
           Start(w, in, "reserve") /\ sent' = sent \cup {in}
    BY <1>2 DEF StartAccept
  <2>2. in \in AcceptInput
    BY <1>0, <2>1, CurrentInputType DEF TypeOK
  <2>3. in.head \subseteq Reached
    BY <2>1 DEF ReachInv, CurrentInput
  <2>4. in \notin PushTask /\ in \notin EnsureTask \cup EditTask
    BY <2>2 DEF AcceptInput, PushTask, EnsureTask, EditTask
  <2>5. task'[w] = in
    BY <1>1, <2>1
  <2> QED
    BY <2>1, <2>3, <2>4, <2>5 DEF ReachInv
<1>3. CASE StartPush(w)
  <2>0. PICK m \in Member :
          \E new \in {refs[m] \cup {c} : c \in FreshChange} \cup {gitMain}
                      \cup {refs[m] \cup gitMain \cup {c} : c \in FreshChange} :
            /\ Start(w, [kind |-> "push", actor |-> m, old |-> refs[m], new |-> new],
                     "preflight")
            /\ UNCHANGED sent
    BY <1>3 DEF StartPush
  <2>1. PICK new \in {refs[m] \cup {c} : c \in FreshChange} \cup {gitMain}
                     \cup {refs[m] \cup gitMain \cup {c} : c \in FreshChange} :
          /\ Start(w, [kind |-> "push", actor |-> m, old |-> refs[m], new |-> new],
                  "preflight")
          /\ UNCHANGED sent
    BY <2>0
  <2>2. new \subseteq Reached
    BY <2>1 DEF ReachInv, Reached, FreshChange
  <2>3. task'[w] = [kind |-> "push", actor |-> m, old |-> refs[m], new |-> new]
    BY <1>1, <2>1
  <2>4. task'[w].new = new /\ task'[w] \notin EnsureTask \cup EditTask
    BY <2>3 DEF EnsureTask, EditTask
  <2> QED
    BY <2>1, <2>2, <2>4 DEF ReachInv
<1>4. CASE StartEnsure(w)
  <2>1. PICK m \in Member, ts \in SUBSET Ticket :
          /\ Start(w, [kind |-> "ensure", actor |-> m, head |-> refs[m], main |-> dbMain,
                      resolves |-> ts], "preflight")
          /\ UNCHANGED sent
    BY <1>4 DEF StartEnsure
  <2>2. task'[w] = [kind |-> "ensure", actor |-> m, head |-> refs[m], main |-> dbMain,
                    resolves |-> ts]
    BY <1>1, <2>1
  <2>3. task'[w].head = refs[m] /\ task'[w] \notin PushTask
    BY <2>2 DEF PushTask
  <2> QED
    BY <2>1, <2>3 DEF ReachInv
<1>5. CASE StartEdit(w)
  <2>1. PICK m \in Member, ts \in SUBSET Ticket : \E r \in OpenRequest(m) :
          /\ Start(w, [kind |-> "edit", actor |-> m, req |-> r, head |-> requests[r].head,
                      rev |-> requests[r].rev, resolves |-> ts], "admit")
          /\ UNCHANGED sent
    BY <1>5 DEF StartEdit
  <2>2. PICK r \in OpenRequest(m) :
          /\ Start(w, [kind |-> "edit", actor |-> m, req |-> r, head |-> requests[r].head,
                      rev |-> requests[r].rev, resolves |-> ts], "admit")
          /\ UNCHANGED sent
    BY <2>1
  <2>3. task'[w] = [kind |-> "edit", actor |-> m, req |-> r, head |-> requests[r].head,
                    rev |-> requests[r].rev, resolves |-> ts]
    BY <1>1, <2>2
  <2>4. task'[w].head = requests[r].head /\ task'[w] \notin PushTask
    BY <2>3 DEF PushTask
  <2>5. requests[r].head \subseteq Reached
    BY DEF OpenRequest, ReachInv
  <2> QED
    BY <2>2, <2>4, <2>5 DEF ReachInv
<1>6. CASE StartTicket(w)
  <2>1. PICK k \in Ticket, s \in {"open", "closed", "content"} :
          /\ Start(w, [kind |-> "ticket", ticket |-> k, rev |-> tickets[k].rev, status |-> s],
                   "admit")
          /\ UNCHANGED sent
    BY <1>6 DEF StartTicket
  <2>2. task'[w] = [kind |-> "ticket", ticket |-> k, rev |-> tickets[k].rev, status |-> s]
    BY <1>1, <2>1
  <2>3. task'[w] \notin PushTask /\ task'[w] \notin EnsureTask \cup EditTask
    BY <2>2 DEF PushTask, EnsureTask, EditTask
  <2> QED
    BY <2>1, <2>3 DEF ReachInv
<1> QED
  BY <1>2, <1>3, <1>4, <1>5, <1>6 DEF ClientStart

\* Nothing names a merge commit that is not on main.
LEMMA ReachNext ==
  ASSUME OnceInv, [Next]_vars
  PROVE  ReachInv'
<1>0. SafetyInv /\ TypeOK /\ ReachInv
  BY DEF OnceInv, SafetyInv, TypeInv
<1>1. Reached \subseteq Reached'
  BY <1>0, MainsGrow DEF Reached
<1>2. ASSUME NEW m \in Member PROVE refs'[m] \subseteq Reached
  <2>1. ASSUME NEW w \in Worker, Receive(w) PROVE refs'[m] \subseteq Reached
    <3>1. task[w] \in PushTask
      BY <1>0, <2>1 DEF SafetyInv, TypeInv, WorkerInv, TaskInv, Receive
    <3> QED
      BY <1>0, <2>1, <3>1 DEF Receive, TypeOK, ReachInv
  <2> QED
    BY <1>0, <2>1, WorkerSteps, Writers DEF ReachInv, gitVars
<1>3. ASSUME NEW r \in Request, requests'[r] # NoRequest PROVE requests'[r].head \subseteq Reached
  <2>1. ASSUME NEW w \in Worker, Edits(w, r) PROVE requests'[r].head \subseteq Reached
    BY <1>0, <2>1 DEF Edits, ReachInv
  <2> QED
    BY <1>0, <1>3, <2>1, RequestMoves DEF ReachInv
<1>4. \A in \in sent' : in.head \subseteq Reached
  <2>1. ASSUME NEW w \in Worker, Acts(w) PROVE \A in \in sent' : in.head \subseteq Reached
    BY <1>0, <2>1, StartReaches, TaskStays DEF ReachInv
  <2> QED
    BY <1>0, <2>1, WorkerSteps DEF ReachInv
<1>5. ASSUME NEW o \in Journaled' PROVE journals'[o].in.head \subseteq Reached
  <2>1. ASSUME NEW w \in Worker, Opens(w, o) PROVE journals'[o].in.head \subseteq Reached
    <3>1. task[w] \in sent
      BY <1>0, <2>1 DEF Opens, SafetyInv, TaskOidInv
    <3> QED
      BY <1>0, <2>1, <3>1 DEF Opens, ReachInv
  <2>2. o \in Journaled \/ \E w \in Worker : Opens(w, o)
    <3>1. CASE UNCHANGED journals
      BY <3>1 DEF Journaled
    <3>2. ASSUME NEW w \in Worker, NEW p \in Op,
                 Opens(w, p) \/ Persists(w, p) \/ Marks(w, p) \/ Isolates(w, p) \/ Completes(w, p)
          PROVE  o \in Journaled \/ \E v \in Worker : Opens(v, o)
      <4>1. Journaled' = Journaled \/ (Opens(w, p) /\ Journaled' = Journaled \cup {p})
        BY <1>0, <3>2, SortedNext
      <4> QED
        BY <4>1
    <3> QED
      BY <1>0, <3>1, <3>2, JournalMoves DEF JournalMove
  <2> QED
    BY <1>0, <2>1, <2>2, PlansKept DEF ReachInv
<1>6. ASSUME NEW v \in Worker
      PROVE  /\ task'[v] \in PushTask => task'[v].new \subseteq Reached
             /\ task'[v] \in EnsureTask \cup EditTask => task'[v].head \subseteq Reached
  <2>1. CASE task'[v] \in {task[v], NoTask, RecoverTask}
    BY <1>0, <2>1, NoOtherTask DEF ReachInv
  <2>2. CASE Acts(v)
    BY <1>0, <2>1, <2>2, StartReaches, TaskStays
  <2>3. ASSUME NEW w \in Worker \ {v}, Acts(w) PROVE task'[v] = task[v]
    BY <1>0, <2>3, OthersStay
  <2> QED
    BY <2>1, <2>2, <2>3, WorkerSteps
<1> QED
  BY <1>1, <1>2, <1>3, <1>4, <1>5, <1>6 DEF ReachInv

\* The once-only invariant holds initially.
LEMMA OnceInit ==
  ASSUME Init
  PROVE  OnceInv
<1>1. SafetyInv
  BY SafetyInit
<1>2. Journaled = {} /\ Completed = {} /\ Unsettled = {}
  BY DEF Init, InitWith, Journaled, Completed, Unsettled
<1>3. IntentInv /\ PlanInv /\ MergedInv
  BY <1>2 DEF Init, InitWith, IntentInv, PlanInv, MergedInv
<1>4. ReachInv
  BY <1>2, NoOtherTask DEF Init, InitWith, ReachInv
<1>5. ASSUME NEW w \in Worker PROVE CallInv(w)
  BY DEF Init, InitWith, CallInv, LateStep, AcceptStep
<1> QED
  BY <1>1, <1>3, <1>4, <1>5 DEF OnceInv

\* Every step preserves it.
LEMMA OnceNext ==
  ASSUME OnceInv, [Next]_vars
  PROVE  OnceInv'
<1>1. SafetyInv'
  BY SafetyNext DEF OnceInv
<1> QED
  BY <1>1, IntentNext, PlanNext, MergedNext, ReachNext, CallNext DEF OnceInv

\* It gives what clients were promised.
LEMMA OnceEnough ==
  ASSUME OnceInv
  PROVE  AcceptedOnce
<1>0. IntentInv /\ PlanInv /\ MergedInv /\ ResultInv
  BY DEF OnceInv, SafetyInv, TypeInv
<1>1. \A o, p \in Op : /\ journals[o] # NoJournal /\ journals[p] # NoJournal
                       /\ journals[o].in.key = journals[p].in.key
                       /\ journals[o].in.actor = journals[p].in.actor
                       => o = p
  BY <1>0 DEF IntentInv, Intent, Journaled
<1>2. ASSUME NEW x \in replies, NEW y \in replies, x.in.key = y.in.key, x.in.actor = y.in.actor
      PROVE  x = y
  <2>1. PICK o \in Completed : x = Outcome(o)
    BY <1>0 DEF IntentInv
  <2>2. PICK p \in Completed : y = Outcome(p)
    BY <1>0 DEF IntentInv
  <2>3. o = p
    BY <1>1, <1>2, <2>1, <2>2 DEF Outcome, Completed
  <2> QED
    BY <2>1, <2>2, <2>3
<1>3. ASSUME NEW x \in replies
      PROVE  x.result \subseteq gitMain /\ x.in.head \subseteq x.result
  <2>1. PICK o \in Completed : x = Outcome(o)
    BY <1>0 DEF IntentInv
  <2>2. x.in = journals[o].in /\ x.result = journals[o].result /\ o \in Journaled
    BY <2>1, Sorted DEF Outcome
  <2>3. journals[o].result = PlanResult(o) /\ journals[o].result \subseteq gitMain
    BY <1>0 DEF ResultInv, Completed, PlanInv
  <2> QED
    BY <1>0, <2>2, <2>3, HeadInResult
<1> QED
  BY <1>0, <1>1, <1>2, <1>3 DEF AcceptedOnce, MergedInv

\* An intent to accept takes effect once, every reply to it is the same, and
\* what was acknowledged or merged is on main, in both stores.
THEOREM IntentsTakeEffectOnce == Spec => []AcceptedOnce
<1>1. Init => OnceInv
  BY OnceInit
<1>2. OnceInv /\ [Next]_vars => OnceInv'
  BY OnceNext
<1>3. OnceInv => AcceptedOnce
  BY OnceEnough
<1> QED
  BY <1>1, <1>2, <1>3, PTL DEF Spec


-----------------------------------------------------------------------------
(* Accept is atomic to its observers. *)

Effected == {o \in Op : Effective(o)}
Accepted == {Outcome(o) : o \in Effected}

\* A journal that took effect has the result of its plan, and every completed
\* journal took effect.
LEMMA EffectedFacts ==
  ASSUME OnceInv
  PROVE  /\ Effected \subseteq Journaled /\ Completed \subseteq Effected
         /\ \A o \in Effected : journals[o].result = PlanResult(o)
<1>0. TypeOK /\ ResultInv /\ PlanInv /\ StoreInv
  BY DEF OnceInv, SafetyInv, TypeInv
<1>1. Effected \subseteq Journaled
  BY DEF Effected, Effective, Journaled
<1>2. ASSUME NEW o \in Effected PROVE journals[o].result = PlanResult(o)
  <2>1. o \in Journaled /\ journals[o] \in Journal
    BY <1>0, <1>1 DEF Journaled, TypeOK
  <2>2. CASE journals[o].kind = "merge"
    BY <1>0, <2>1, <2>2 DEF Effected, Effective, PlanInv
  <2>3. CASE journals[o].kind # "merge"
    BY <1>0, <2>1, <2>3 DEF Effected, Effective, ResultInv
  <2> QED
    BY <2>2, <2>3
<1>3. Completed \subseteq Effected
  BY <1>0 DEF Completed, Effected, Effective, StoreInv
<1> QED
  BY <1>1, <1>2, <1>3

\* A result that the plan determines stays.
LEMMA ResultsKept ==
  ASSUME SafetyInv, [Next]_vars, NEW o \in Journaled, journals[o].result = PlanResult(o)
  PROVE  journals'[o].result = journals[o].result
<1>1. o \in Op /\ journals[o] # NoJournal
  BY DEF Journaled
<1>2. CASE UNCHANGED journals
  BY <1>2
<1>3. ASSUME NEW w \in Worker, NEW p \in Op,
             Opens(w, p) \/ Persists(w, p) \/ Marks(w, p) \/ Isolates(w, p) \/ Completes(w, p)
      PROVE  journals'[o].result = journals[o].result
  BY <1>1, <1>3 DEF Opens, Persists, Marks, Isolates, Completes, Advances
<1> QED
  BY <1>2, <1>3, JournalMoves DEF JournalMove

\* What took effect stays so, and the next to take effect is an unsettled
\* journal, whose result main becomes.
TakesEffect(o) ==
  /\ o \in Unsettled /\ o \notin Effected
  /\ Effected' = Effected \cup {o}
  /\ journals'[o].result = PlanResult(o)
  /\ gitMain = journals[o].in.main /\ gitMain' = PlanResult(o)
  /\ UNCHANGED replies

\* Every step puts one unsettled journal into effect, or none.
LEMMA EffectSteps ==
  ASSUME OnceInv, [Next]_vars
  PROVE  \/ Effected' = Effected /\ UNCHANGED gitMain
         \/ \E o \in Op : TakesEffect(o)
<1>0. SafetyInv /\ TypeOK /\ PlanInv /\ ReachInv /\ StoreInv
  BY DEF OnceInv, SafetyInv, TypeInv
<1>1. CASE ~UNCHANGED gitMain
  <2>1. PICK o \in Unsettled :
          /\ journals[o].kind = "merge" /\ gitMain = journals[o].in.main
          /\ journals[o].result = PlanResult(o)
          /\ gitMain' = journals[o].result
          /\ gitMain' = gitMain \cup journals[o].in.head \cup {o}
          /\ UNCHANGED <<dbVars, refs, sent, replies>>
    BY <1>0, <1>1, MainMerges
  <2>2. UNCHANGED journals /\ o \in Journaled /\ o \in Op
    BY <2>1, Sorted DEF dbVars
  <2>3. o \notin gitMain
    BY <1>0, <2>1, <2>2 DEF StoreInv, Journaled
  <2>4. \A p \in Op : p \in gitMain' <=> p \in gitMain \/ p = o
    <3>1. journals[o].in.head \subseteq Change \cup gitMain
      BY <1>0, <2>2 DEF ReachInv, Reached
    <3> QED
      BY <2>1, <3>1, ConstantAssumption
  <2>5. ASSUME NEW p \in Op PROVE Effective(p)' <=> Effective(p) \/ p = o
    BY <2>1, <2>2, <2>4 DEF Effective, Journaled
  <2>6. ~Effective(o)
    BY <2>1, <2>2, <2>3 DEF Effective, Journaled
  <2>7. Effected' = Effected \cup {o} /\ o \notin Effected
    BY <2>2, <2>5, <2>6 DEF Effected
  <2> QED
    BY <2>1, <2>2, <2>7 DEF TakesEffect
<1>2. CASE UNCHANGED gitMain /\ UNCHANGED journals
  BY <1>2 DEF Effected, Effective
<1>3. ASSUME UNCHANGED gitMain, NEW w \in Worker, NEW o \in Op, Opens(w, o)
      PROVE  Effected' = Effected
  <2>1. o \notin gitMain
    BY <1>0, <1>3, ConstantAssumption DEF StoreInv, Known, Opens
  <2>2. ~Effective(o)' /\ ~Effective(o)
    BY <1>3, <2>1 DEF Opens, Effective
  <2>3. \A p \in Op \ {o} : Effective(p)' <=> Effective(p)
    BY <1>3 DEF Opens, Effective
  <2> QED
    BY <2>2, <2>3 DEF Effected
<1>4. ASSUME UNCHANGED gitMain, NEW w \in Worker, NEW o \in Op,
             Persists(w, o) \/ Marks(w, o) \/ Isolates(w, o) \/ Completes(w, o)
      PROVE  Effected' = Effected \/ TakesEffect(o)
  <2>1. /\ o \in Unsettled /\ o \in Journaled /\ journals[o].phase \in ActivePhase
        /\ journals'[o] # NoJournal /\ journals'[o].kind = journals[o].kind
        /\ \A p \in Op \ {o} : journals'[p] = journals[p]
    BY <1>4, Sorted DEF Persists, Marks, Isolates, Completes, Advances
  <2>2. journals[o].from # "main-updated"
    BY <1>0, <2>1 DEF PlanInv, ActivePhase
  <2>3. \A p \in Op \ {o} : Effective(p)' <=> Effective(p)
    BY <1>4, <2>1 DEF Effective
  <2>4. journals[o] # NoJournal /\ journals[o].kind \in {"merge", "contained"}
    BY <1>0, <2>1 DEF Journaled, TypeOK, Journal
  <2>5. CASE journals[o].kind = "merge"
    <3>1. Effective(o)' <=> Effective(o)
      BY <1>4, <2>1, <2>4, <2>5 DEF Effective
    <3> QED
      BY <2>3, <3>1 DEF Effected
  <2>6. CASE journals[o].kind = "contained" /\ ~Marks(w, o)
    <3>1. Effective(o)' <=> Effective(o)
      BY <1>4, <2>1, <2>2, <2>4, <2>6
         DEF Effective, Persists, Isolates, Completes, ActivePhase
    <3> QED
      BY <2>3, <3>1 DEF Effected
  <2>7. CASE journals[o].kind = "contained" /\ Marks(w, o)
    <3>1. Effective(o)' /\ ~Effective(o)
      BY <2>1, <2>2, <2>4, <2>7 DEF Effective, Marks
    <3>2. Effected' = Effected \cup {o} /\ o \notin Effected
      BY <2>3, <3>1 DEF Effected
    <3>3. gitMain = journals[o].in.main /\ gitMain = PlanResult(o)
      BY <2>7 DEF Marks, PlanResult
    <3> QED
      BY <1>4, <2>1, <2>7, <3>2, <3>3 DEF TakesEffect, Marks, Quiet
  <2> QED
    BY <2>4, <2>5, <2>6, <2>7
<1> QED
  BY <1>0, <1>1, <1>2, <1>3, <1>4, JournalMoves DEF JournalMove

\* A new reply acknowledges an intent that took effect before this step.
LEMMA ReplySteps ==
  ASSUME OnceInv, [Next]_vars
  PROVE  UNCHANGED replies \/ \E o \in Effected : replies' = replies \cup {Outcome(o)}
<1>0. SafetyInv /\ IntentInv /\ PlanInv
  BY DEF OnceInv
<1>1. ASSUME NEW w \in Worker, NEW o \in Op, Completes(w, o), ~UNCHANGED replies
      PROVE  \E p \in Effected : replies' = replies \cup {Outcome(p)}
  <2>1. /\ pc[w] = "complete" /\ op[w] = o /\ o \in Journaled
        /\ replies' = replies \cup {[in |-> task[w], result |-> journals[o].result]}
        /\ journals[o].phase = "main-updated" /\ gitMain = PlanResult(o)
    BY <1>1, Sorted DEF Completes, Advances
  <2>2. task[w] = journals[o].in
    BY <2>1 DEF OnceInv, CallInv, LateStep, AcceptStep
  <2>3. o \in Effected
    BY <2>1 DEF Effected, Effective, Journaled, PlanResult, MergeCommit
  <2> QED
    BY <2>1, <2>2, <2>3 DEF Outcome
<1>2. ASSUME NEW in \in AcceptInput,
             idem[<<in.actor, in.key>>] # NoInput, idem[<<in.actor, in.key>>].in = in,
             replies' = replies \cup {[in |-> in, result |-> idem[<<in.actor, in.key>>].result]}
      PROVE  \E o \in Effected : replies' = replies \cup {Outcome(o)}
  <2>1. <<in.actor, in.key>> \in Member \X Key
    BY DEF AcceptInput
  <2>2. PICK o \in Completed : Intent(o) = <<in.actor, in.key>>
    BY <1>0, <1>2, <2>1 DEF IntentInv
  <2>3. idem[<<in.actor, in.key>>] = Outcome(o) /\ o \in Effected
    BY <1>0, <2>2, EffectedFacts DEF IntentInv
  <2> QED
    BY <1>2, <2>3 DEF Outcome
<1> QED
  BY <1>0, <1>1, <1>2, Replies

\* A journal that takes effect is the first of its intent and of its request.
LEMMA FirstOfItsKind ==
  ASSUME OnceInv, NEW o \in Unsettled, o \notin Effected, NEW a \in Accepted
  PROVE  /\ <<a.in.actor, a.in.key>> # <<journals[o].in.actor, journals[o].in.key>>
         /\ a.in.req # journals[o].in.req
<1>0. SafetyInv /\ IntentInv /\ PlanInv /\ StoreInv
  BY DEF OnceInv, SafetyInv
<1>1. PICK p \in Effected : a = Outcome(p)
  BY DEF Accepted
<1>2. a.in = journals[p].in /\ p \in Journaled /\ p # o /\ o \in Journaled
  BY <1>1, EffectedFacts, Sorted DEF Outcome
<1>3. Intent(p) # Intent(o)
  BY <1>0, <1>2 DEF IntentInv
<1>4. p \in Completed
  BY <1>0, <1>2, Sorted DEF StoreInv, SingleJournal
<1>5. journals[p].in.req # journals[o].in.req
  BY <1>0, <1>4 DEF PlanInv
<1> QED
  BY <1>2, <1>3, <1>5 DEF Intent

\* Every step of the protocol is a step of the atomic Accept, or none of its.
LEMMA AtomicStep ==
  ASSUME OnceInv, [Next]_vars
  PROVE  [Atomic!Next]_(Atomic!vars)
<1>0. SafetyInv /\ PlanInv
  BY DEF OnceInv
<1>1. \A o \in Effected : Outcome(o)' = Outcome(o)
  BY <1>0, EffectedFacts, PlansKept, ResultsKept DEF Outcome
<1>2. CASE Effected' = Effected /\ UNCHANGED gitMain
  <2>1. Accepted' = Accepted
    BY <1>1, <1>2 DEF Accepted
  <2>2. UNCHANGED replies \/ \E a \in Accepted : replies' = replies \cup {a}
    BY ReplySteps DEF Accepted
  <2> QED
    BY <1>2, <2>1, <2>2 DEF Accepted, Effected, Outcome, Atomic!Next, Atomic!Acknowledge, Atomic!vars
<1>3. ASSUME NEW o \in Op, TakesEffect(o) PROVE Atomic!Accept
  <2> DEFINE a == Outcome(o)'
  <2>1. o \in Unsettled /\ o \notin Effected /\ o \in Journaled /\ UNCHANGED replies
    BY <1>3, Sorted DEF TakesEffect
  <2>2. Accepted' = Accepted \cup {a}
    BY <1>1, <1>3 DEF TakesEffect, Accepted
  <2>3. a.in = journals[o].in /\ a.result = PlanResult(o)
    BY <1>0, <1>3, <2>1, PlansKept DEF TakesEffect, Outcome
  <2>4. /\ a.in.main = gitMain /\ gitMain' = a.result
        /\ a.in.head \subseteq a.result /\ gitMain \subseteq a.result
    BY <1>0, <1>3, <2>1, <2>3, HeadInResult DEF TakesEffect
  <2>5. \A b \in Accepted : /\ <<b.in.actor, b.in.key>> # <<a.in.actor, a.in.key>>
                            /\ b.in.req # a.in.req
    BY <2>1, <2>3, FirstOfItsKind
  <2>6. a \in Accepted' \ Accepted
    BY <2>2, <2>5
  <2> HIDE DEF a
  <2>7. \E b \in Accepted' \ Accepted :
          /\ Accepted' = Accepted \cup {b}
          /\ \A c \in Accepted : /\ <<c.in.actor, c.in.key>> # <<b.in.actor, b.in.key>>
                                 /\ c.in.req # b.in.req
          /\ b.in.main = gitMain
          /\ b.in.head \subseteq b.result /\ gitMain \subseteq b.result
          /\ gitMain' = b.result
    BY <2>2, <2>4, <2>5, <2>6
  <2> QED
    BY <2>1, <2>7 DEF Accepted, Effected, Outcome, Atomic!Accept, Atomic!New
<1> QED
  BY <1>2, <1>3, EffectSteps DEF Atomic!Next

\* The initial state of the protocol is the initial state of the atomic Accept.
LEMMA AtomicInit ==
  ASSUME Init
  PROVE  Atomic!Init
BY DEF Init, InitWith, Effective, Atomic!Init

\* To its observers, the journaled Accept of two stores that do not commit
\* together happens in one step.
THEOREM AcceptIsAtomic == Spec => ImplementsAtomicAccept
<1>1. Init => OnceInv
  BY OnceInit
<1>2. OnceInv /\ [Next]_vars => OnceInv'
  BY OnceNext
<1>3. Init => Atomic!Init
  BY AtomicInit
<1>4. OnceInv /\ [Next]_vars => [Atomic!Next]_(Atomic!vars)
  BY AtomicStep
<1> QED
  BY <1>1, <1>2, <1>3, <1>4, PTL DEF Spec, ImplementsAtomicAccept, Atomic!Spec


-----------------------------------------------------------------------------
(* One Git permit fences an active journal: each conjunct in turn. *)

Holding(w) == \/ pc[w] \in AcceptStep \cup {"receive-check", "receive", "validate-head"}
              \/ pc[w] \in RecoveryStep \ {"r-reserve"}

\* Two workers that hold a permit are one.
LEMMA OneHolder ==
  ASSUME FenceInv, NEW v \in Worker, NEW w \in Worker, Holding(v), Holding(w)
  PROVE  v = w
<1>1. PermitInv(v) /\ PermitInv(w) /\ Exclusive
  BY DEF FenceInv
<1>2. PICK k \in {"operation", "recovery"} : <<v, k>> \in permits
  BY <1>1 DEF PermitInv, Holding
<1>3. PICK l \in {"operation", "recovery"} : <<w, l>> \in permits
  BY <1>1 DEF PermitInv, Holding
<1>4. <<v, k>> = <<w, l>>
  BY <1>1, <1>2, <1>3 DEF Exclusive
<1> QED
  BY <1>4

\* While a worker holds the permit, only its own receive-pack moves a ref.
LEMMA RefsFixed ==
  ASSUME FenceInv, [Next]_vars, NEW v \in Worker, Holding(v), pc[v] # "receive"
  PROVE  UNCHANGED refs
<1>1. ASSUME NEW w \in Worker, Receive(w) PROVE FALSE
  <2>1. pc[w] = "receive"
    BY <1>1 DEF Receive
  <2> QED
    BY <2>1, OneHolder DEF Holding
<1> QED
  BY <1>1, WorkerSteps, Writers DEF gitVars

\* Tickets change under the lease, outside a journal or with its completion.
LEMMA TicketMoves ==
  ASSUME SafetyInv, NEW w \in Worker, Acts(w)
  PROVE  \/ UNCHANGED tickets
         \/ lease = w /\ (Unsettled = {} \/ \E o \in Op : Completes(w, o))
<1>1. CASE ApplyTicket(w)
  BY <1>1, SameJournals, ConstantAssumption DEF ApplyTicket, Revalidate, Nonterminal
<1>2. ASSUME Complete(w), ~UNCHANGED tickets PROVE lease = w /\ \E o \in Op : Completes(w, o)
  <2>1. \E o \in Op : Completes(w, o)
    BY <1>2, CompletesStep DEF dbVars
  <2> QED
    BY <2>1 DEF Completes, Advances
<1> QED
  BY <1>1, <1>2, Writers

\* A step that leaves an unsettled journal alone leaves all it relies on.
LEMMA FencedStay ==
  ASSUME FenceInv, [Next]_vars, Unsettled # {}, UNCHANGED journals
  PROVE  UNCHANGED <<requests, tickets, refs>>
<1>0. SafetyInv /\ TypeOK /\ TypeOK'
  BY TypeNext DEF FenceInv, OnceInv, SafetyInv, TypeInv
<1>1. ~\E w \in Worker, o \in Op : Completes(w, o)
  BY DEF Completes
<1>2. \A r \in Request : requests'[r] = requests[r]
  <2> TAKE r \in Request
  <2>1. ~\E w \in Worker : Edits(w, r)
    BY DEF Edits
  <2> QED
    BY <1>0, <1>1, <2>1, RequestMoves
<1>3. UNCHANGED requests
  BY <1>0, <1>2 DEF TypeOK
<1>4. UNCHANGED tickets
  BY <1>0, <1>1, TicketMoves, WorkerSteps DEF dbVars
<1>5. ASSUME NEW w \in Worker, Receive(w) PROVE FALSE
  BY <1>5 DEF Receive, FenceInv, ReadInv
<1>6. UNCHANGED refs
  BY <1>5, WorkerSteps, Writers DEF gitVars
<1> QED
  BY <1>3, <1>4, <1>6

\* What an unsettled journal relies on, and where the Project is with it.
Fenced(o) ==
  /\ dbMain = journals[o].in.main /\ ValidRequest(journals[o].in)
  /\ refs[journals[o].owner] = journals[o].in.head
  /\ journals[o].phase \in ActivePhase => service = "active" /\ candidate = o
  /\ journals[o].phase = "recovery-required" =>
       service = "recovery-required" /\ candidate # o

\* Nothing passes an unsettled journal.
LEMMA FencedNext ==
  ASSUME FenceInv, [Next]_vars
  PROVE  FencedByJournal'
<1>0. SafetyInv /\ FencedByJournal
  BY DEF FenceInv, OnceInv
<1> SUFFICES ASSUME NEW o \in Unsettled'
             PROVE  Fenced(o)'
  BY DEF FencedByJournal, Fenced
<1>1. CASE UNCHANGED <<journals, candidate, idem, dbMain, service>>
  <2>1. o \in Unsettled
    BY <1>1 DEF Unsettled
  <2>2. UNCHANGED <<requests, tickets, refs>>
    BY <1>1, <2>1, FencedStay
  <2> QED
    BY <1>0, <1>1, <2>1, <2>2 DEF FencedByJournal, Fenced, ValidRequest, ResolvingTickets
<1>2. ASSUME NEW w \in Worker, NEW p \in Op, Opens(w, p)
      PROVE  Fenced(o)'
  <2>1. o = p
    BY <1>0, <1>2, SortedNext
  <2>2. refs[requests[task[w].req].owner] = task[w].head
    BY <1>2 DEF Opens, FenceInv, ReadInv
  <2> QED
    BY <1>2, <2>1, <2>2 DEF Opens, Fenced, ValidRequest, ResolvingTickets
<1>3. ASSUME NEW w \in Worker, NEW p \in Op, Persists(w, p) \/ Marks(w, p)
      PROVE  Fenced(o)'
  <2>1. /\ o = p /\ o \in Unsettled /\ journals[o].phase \in ActivePhase
        /\ journals'[o].in = journals[o].in /\ journals'[o].owner = journals[o].owner
        /\ journals'[o].phase # "recovery-required"
        /\ UNCHANGED <<dbMain, service, requests, tickets, refs>> /\ candidate' = o
    BY <1>0, <1>3, SortedNext DEF Persists, Marks, Advances, Quiet
  <2> QED
    BY <1>0, <2>1 DEF FencedByJournal, Fenced, ValidRequest, ResolvingTickets
<1>4. ASSUME NEW w \in Worker, NEW p \in Op, Isolates(w, p)
      PROVE  Fenced(o)'
  <2>1. o = p /\ o \in Unsettled
    BY <1>0, <1>4, SortedNext
  <2>2. /\ journals'[o].in = journals[o].in /\ journals'[o].owner = journals[o].owner
        /\ journals'[o].phase = "recovery-required"
        /\ service' = "recovery-required" /\ candidate' # o
        /\ UNCHANGED <<dbMain, requests, tickets, refs>>
    BY <1>4, <2>1 DEF Isolates, Advances
  <2> QED
    BY <1>0, <2>1, <2>2 DEF FencedByJournal, Fenced, ValidRequest, ResolvingTickets, ActivePhase
<1>5. ASSUME NEW w \in Worker, NEW p \in Op, Completes(w, p) PROVE FALSE
  BY <1>0, <1>5, SortedNext
<1> QED
  BY <1>0, <1>1, <1>2, <1>3, <1>4, <1>5, JournalMoves DEF JournalMove

\* Why a journal was given up.
Explained(o) ==
  \/ o \in gitFailed
  \/ journals[o].from = "main-updated" /\ ClosedTicket(o)

\* A journal is given up over a failed Git step or a closed ticket, and stays so.
LEMMA IsolationNext ==
  ASSUME FenceInv, [Next]_vars
  PROVE  IsolationExplained'
<1>0. SafetyInv /\ IsolationExplained /\ StoreInv /\ FencedByJournal
  BY DEF FenceInv, OnceInv, SafetyInv
<1>1. CASE UNCHANGED <<journals, candidate, idem, dbMain, service>>
  <2>1. Unsettled' = Unsettled
    BY <1>1 DEF Unsettled
  <2>2. Unsettled # {} => UNCHANGED tickets
    BY <1>1, FencedStay
  <2> QED
    BY <1>0, <1>1, <2>1, <2>2, FailuresStay DEF IsolationExplained
<1>2. ASSUME NEW w \in Worker, NEW p \in Op, Isolates(w, p)
      PROVE  IsolationExplained'
  <2>1. Unsettled' = {p} /\ Unsettled = {p}
    BY <1>0, <1>2, SortedNext
  <2>2. Explained(p)'
    <3>1. \/ p \in gitFailed
          \/ journals[p].phase = "main-updated" /\ ClosedTicket(p)
      BY <1>2 DEF Isolates, Advances, FenceInv, StageInv
    <3> QED
      BY <1>2, <3>1, FailuresStay DEF Isolates, Advances, Explained, ClosedTicket
  <2> QED
    BY <1>2, <2>1, <2>2 DEF IsolationExplained, Explained, ClosedTicket, Isolates
<1>3. ASSUME NEW w \in Worker, NEW p \in Op,
             Opens(w, p) \/ Persists(w, p) \/ Marks(w, p) \/ Completes(w, p)
      PROVE  IsolationExplained'
  <2>1. service = "active" /\ service' = service
    <3>1. CASE Opens(w, p)
      BY <3>1 DEF Opens
    <3>2. CASE Persists(w, p) \/ Marks(w, p) \/ Completes(w, p)
      BY <1>0, <3>2 DEF Persists, Marks, Completes, Quiet, Advances, FencedByJournal
    <3> QED
      BY <1>3, <3>1, <3>2
  <2>2. ASSUME NEW o \in Unsettled' PROVE journals'[o].phase # "recovery-required"
    <3>1. Completes(w, p) => FALSE
      BY <1>0, SortedNext
    <3>2. o = p
      BY <1>0, <1>3, <3>1, SortedNext
    <3> QED
      BY <1>3, <3>1, <3>2 DEF Opens, Persists, Marks
  <2> QED
    BY <2>1, <2>2 DEF IsolationExplained
<1> QED
  BY <1>0, <1>1, <1>2, <1>3, JournalMoves DEF JournalMove


\* What one step does to the permits.
LEMMA PermitMoves ==
  ASSUME SafetyInv, NEW w \in Worker, Acts(w)
  PROVE  \/ permits' \in {permits, Release(w), permits \ {<<w, "recovery">>},
                          permits \ {<<w, "operation">>}}
         \/ PermitFree /\ permits' \in {permits \cup {<<w, "operation">>},
                                        permits \cup {<<w, "recovery">>}}
<1>1. CASE ClientStart(w)
  BY <1>1 DEF ClientStart, StartAccept, StartPush, StartEnsure, StartEdit, StartTicket, Start
<1>2. CASE \/ StartRecovery(w) \/ AbandonRecovery(w) \/ Reserve(w) \/ RecoverReserve(w)
  BY <1>2 DEF StartRecovery, AbandonRecovery, Reserve, RecoverReserve
<1>3. CASE \/ Interrupt(w) \/ Receive(w) \/ TransactFails(w) \/ WaitTimeout(w) \/ Classify(w)
           \/ ApplyEnsure(w) \/ ApplyEdit(w) \/ ApplyTicket(w)
  BY <1>3 DEF Interrupt, Receive, TransactFails, WaitTimeout, Classify, Fail,
     ApplyEnsure, ApplyEdit, ApplyTicket, Finish
<1>4. CASE \/ Inspect(w) \/ Materialize(w) \/ PersistResult(w) \/ MarkMainUpdated(w)
           \/ ReceiveCheck(w) \/ ValidateHead(w) \/ Prepare(w)
  BY <1>4 DEF Inspect, Materialize, PersistResult, MarkMainUpdated, ReceiveCheck,
     ValidateHead, Prepare, Reject, Fail, Local, Finish
<1>5. CASE \/ SettleMain(w) \/ UpdateRef(w) \/ Admit(w) \/ RecoverLease(w) \/ Complete(w)
  BY <1>5 DEF SettleMain, UpdateRef, Admit, RecoverLease, Complete, Reject, Local, Resume, Finish
<1>6. CASE GitFails(w)
  BY <1>6 DEF GitFails, Local
<1> QED
  BY <1>1, <1>2, <1>3, <1>4, <1>5, <1>6 DEF Acts, Progress

\* With one permit per Project, at most one is held.
LEMMA ExclusiveNext ==
  ASSUME MaxPerProject = 1, FenceInv, [Next]_vars
  PROVE  Exclusive'
<1>0. SafetyInv /\ Exclusive
  BY DEF FenceInv, OnceInv
<1>1. ASSUME permits' \subseteq permits PROVE Exclusive'
  BY <1>0, <1>1 DEF Exclusive
<1>2. ASSUME PermitFree, NEW p, permits' = permits \cup {p} PROVE Exclusive'
  <2>1. permits = {}
    <3>1. ASSUME NEW q, permits = {q} PROVE FALSE
      <4>1. Cardinality(permits) = 1
        BY <3>1, FS_Singleton
      <4> QED
        BY <1>2, <4>1 DEF PermitFree
    <3> QED
      BY <1>0, <3>1 DEF Exclusive
  <2> QED
    BY <1>2, <2>1 DEF Exclusive
<1>3. ASSUME NEW w \in Worker, Acts(w) PROVE Exclusive'
  <2>1. Release(w) \subseteq permits
    BY DEF Release
  <2> QED
    BY <1>0, <1>1, <1>2, <1>3, <2>1, PermitMoves
<1>4. permits' = permits \/ permits' = {} => Exclusive'
  BY <1>0 DEF Exclusive
<1>5. (\A w \in Worker : permits' = {}) => permits' = {}
  BY ConstantAssumption
<1> QED
  BY <1>3, <1>4, <1>5, WorkerSteps

\* A worker's own steps keep the permits that they need.
LEMMA OwnPermits ==
  ASSUME FenceInv, NEW w \in Worker, Acts(w)
  PROVE  PermitInv(w)'
<1> DEFINE A == <<w, "operation">>
           R == <<w, "recovery">>
           Needs == PermitInv(w)'
<1>0. TypeOK /\ PermitInv(w) /\ WorkerInv(w) /\ SafetyInv /\ A # R
  BY DEF FenceInv, OnceInv, SafetyInv, TypeInv
<1>1. ASSUME pc'[w] \in {"idle", "reserve", "apply"} PROVE Needs
  BY <1>1 DEF PermitInv, RecoveryStep, AcceptStep
<1>2. Finish(w) => Needs
  BY <1>0, <1>1 DEF TypeOK, Finish
<1>3. CASE ClientStart(w)
  <2>1. ASSUME NEW t, NEW step, Start(w, t, step) PROVE task'[w] = t /\ pc'[w] = step
    BY <1>0, <2>1 DEF TypeOK, Start
  <2>2. CASE StartAccept(w)
    BY <1>1, <2>1, <2>2 DEF StartAccept
  <2>3. ASSUME NEW t, t.kind \in {"push", "ensure"}, Start(w, t, "preflight") PROVE Needs
    <3>1. task'[w].kind \in {"push", "ensure"} /\ pc'[w] = "preflight"
      BY <2>1, <2>3
    <3> QED
      BY <3>1 DEF PermitInv, RecoveryStep, AcceptStep
  <2>4. ASSUME NEW t, t.kind \in {"edit", "ticket"}, Start(w, t, "admit") PROVE Needs
    <3>1. task'[w].kind \in {"edit", "ticket"} /\ pc'[w] = "admit"
      BY <2>1, <2>4
    <3> QED
      BY <3>1 DEF PermitInv, RecoveryStep, AcceptStep
  <2>5. CASE StartPush(w)
    <3>1. PICK m, new : Start(w, [kind |-> "push", actor |-> m, old |-> refs[m],
                                            new |-> new], "preflight")
      BY <2>5 DEF StartPush
    <3> QED
      BY <2>3, <3>1
  <2>6. CASE StartEnsure(w)
    <3>1. PICK m \in Member, ts \in SUBSET Ticket :
            Start(w, [kind |-> "ensure", actor |-> m, head |-> refs[m], main |-> dbMain,
                      resolves |-> ts], "preflight")
      BY <2>6 DEF StartEnsure
    <3> QED
      BY <2>3, <3>1
  <2>7. CASE StartEdit(w)
    <3>1. PICK m, ts, r :
            Start(w, [kind |-> "edit", actor |-> m, req |-> r, head |-> requests[r].head,
                      rev |-> requests[r].rev, resolves |-> ts], "admit")
      BY <2>7 DEF StartEdit
    <3> QED
      BY <2>4, <3>1
  <2>8. CASE StartTicket(w)
    <3>1. PICK t \in Ticket, s \in {"open", "closed", "content"} :
            Start(w, [kind |-> "ticket", ticket |-> t, rev |-> tickets[t].rev, status |-> s],
                  "admit")
      BY <2>8 DEF StartTicket
    <3> QED
      BY <2>4, <3>1
  <2> QED
    BY <1>3, <2>2, <2>5, <2>6, <2>7, <2>8 DEF ClientStart
<1>4. CASE StartRecovery(w)
  <2>1. task'[w].kind = "recover" /\ pc'[w] = "r-reserve"
    BY <1>0, <1>4 DEF TypeOK, StartRecovery, RecoverTask, Goto
  <2> QED
    BY <2>1 DEF PermitInv, AcceptStep
<1>5. CASE AbandonRecovery(w)
  <2>1. /\ task'[w].kind = "recover" /\ pc'[w] = pc[w] /\ pc[w] \in RecoveryStep
        /\ permits' = permits \ {A}
    BY <1>0, <1>5 DEF TypeOK, AbandonRecovery, RecoverTask
  <2> QED
    BY <1>0, <2>1 DEF PermitInv, AcceptStep, RecoveryStep
<1>6. CASE Reserve(w)
  <2>1. pc'[w] = "admit" /\ A \in permits'
    BY <1>0, <1>6 DEF TypeOK, Reserve, Goto
  <2> QED
    BY <2>1 DEF PermitInv, AcceptStep, RecoveryStep
<1>7. CASE RecoverReserve(w)
  <2>1. /\ pc'[w] = "r-lease" /\ permits' = permits \cup {R} /\ task'[w] = task[w]
        /\ pc[w] = "r-reserve"
    BY <1>0, <1>7 DEF TypeOK, RecoverReserve, Goto
  <2> QED
    BY <1>0, <2>1 DEF PermitInv, AcceptStep, RecoveryStep
<1>8. CASE Admit(w) /\ ~Finish(w)
  <2>1. /\ permits' = permits /\ task'[w] = task[w] /\ pc[w] \in {"preflight", "admit"}
        /\ \/ pc'[w] = "reserve" \/ pc'[w] = "r-reserve"
           \/ pc[w] = "admit" /\ pc'[w] = Admitted(task[w].kind)
    BY <1>0, <1>8 DEF TypeOK, Admit, Goto
  <2>2. CASE pc'[w] = "r-reserve"
    BY <1>0, <2>1, <2>2 DEF PermitInv, AcceptStep, RecoveryStep
  <2>3. CASE pc[w] = "admit" /\ pc'[w] = Admitted(task[w].kind)
    <3>1. task[w].kind \in {"accept", "push", "ensure"} => A \in permits
      BY <1>0, <2>3 DEF PermitInv
    <3>2. CASE task[w].kind = "accept"
      BY <2>1, <2>3, <3>1, <3>2 DEF Admitted, PermitInv, RecoveryStep
    <3>3. CASE task[w].kind \in {"push", "ensure"}
      BY <2>1, <2>3, <3>1, <3>3 DEF Admitted, PermitInv, RecoveryStep
    <3>4. CASE task[w].kind \notin {"accept", "push", "ensure"}
      <4>1. pc'[w] = "apply"
        BY <2>3, <3>4 DEF Admitted
      <4> QED
        BY <1>1, <4>1
    <3> QED
      BY <3>2, <3>3, <3>4
  <2> QED
    BY <1>1, <2>1, <2>2, <2>3
\* The steps of an Accept, of a recovery, and of the other writers.
<1>9. ASSUME permits' = permits, task'[w] = task[w],
             \/ pc[w] \in AcceptStep /\ pc'[w] \in AcceptStep
             \/ pc[w] \in RecoveryStep \ {"r-reserve"} /\ pc'[w] \in RecoveryStep \ {"r-reserve"}
             \/ pc[w] = "receive-check" /\ pc'[w] = "receive"
             \/ pc'[w] = "apply"
      PROVE  Needs
  BY <1>0, <1>9 DEF PermitInv, AcceptStep, RecoveryStep
<1>10. CASE \/ Inspect(w) \/ Materialize(w) \/ PersistResult(w) \/ MarkMainUpdated(w)
            \/ ReceiveCheck(w) \/ ValidateHead(w)
  <2>1. \/ Finish(w)
        \/ /\ permits' = permits /\ task'[w] = task[w]
           /\ \/ pc[w] \in AcceptStep /\ pc'[w] \in AcceptStep
              \/ pc[w] \in RecoveryStep \ {"r-reserve"} /\ pc'[w] \in RecoveryStep \ {"r-reserve"}
              \/ pc[w] = "receive-check" /\ pc'[w] = "receive"
              \/ pc'[w] = "apply"
    BY <1>0, <1>10 DEF TypeOK, Inspect, Materialize, PersistResult, MarkMainUpdated, ReceiveCheck,
       ValidateHead, Reject, Fail, Local, Goto, AcceptStep, RecoveryStep
  <2> QED
    BY <1>2, <1>9, <2>1
<1>11. CASE \/ Prepare(w) \/ SettleMain(w) \/ UpdateRef(w)
  <2>1. \/ Finish(w)
        \/ /\ permits' = permits /\ task'[w] = task[w]
           /\ \/ pc[w] \in AcceptStep /\ pc'[w] \in AcceptStep
              \/ pc[w] \in RecoveryStep \ {"r-reserve"} /\ pc'[w] \in RecoveryStep \ {"r-reserve"}
    BY <1>0, <1>11 DEF TypeOK, Prepare, SettleMain, UpdateRef, Settled, Reject, Fail, Local, Goto,
       AcceptStep, RecoveryStep
  <2> QED
    BY <1>2, <1>9, <2>1
<1>12. ASSUME Resume(w), pc[w] \in RecoveryStep PROVE Needs
  <2>1. CASE ~Finish(w)
    <3>1. /\ task'[w] = task[w] /\ permits' = permits \ {R}
          /\ pc'[w] = IF task[w].kind \in {"push", "ensure"} THEN "preflight" ELSE "admit"
      BY <1>0, <1>12, <2>1 DEF TypeOK, Resume, Goto
    <3>2. task[w].kind = "accept" => A \in permits'
      BY <1>0, <1>12, <3>1 DEF PermitInv
    <3> QED
      BY <3>1, <3>2 DEF PermitInv, AcceptStep, RecoveryStep
  <2> QED
    BY <1>2, <2>1
<1>13. CASE RecoverLease(w)
  <2>1. ASSUME NEW o \in Nonterminal, journals[o].phase # "recovery-required"
        PROVE  journals[o].phase \in ActivePhase
    BY <1>0, <2>1 DEF TypeOK, Nonterminal, Journal, Phase
  <2>2. \/ Resume(w) \/ Finish(w)
        \/ /\ permits' = permits /\ task'[w] = task[w]
           /\ pc'[w] \in {"r-materialize", "r-rematerialize", "r-resettle"}
    BY <1>0, <1>13, <2>1 DEF TypeOK, RecoverLease, Goto, ActivePhase
  <2>3. pc[w] \in RecoveryStep /\ pc[w] # "r-reserve"
    BY <1>13 DEF RecoverLease, RecoveryStep
  <2>4. {"r-materialize", "r-rematerialize", "r-resettle"} \subseteq RecoveryStep \ {"r-reserve"}
    BY DEF RecoveryStep
  <2> QED
    BY <1>2, <1>9, <1>12, <2>2, <2>3, <2>4
<1>14. CASE Complete(w)
  <2>1. \/ Finish(w)
        \/ Resume(w) /\ pc[w] \in RecoveryStep
        \/ Local(w, "r-classify") /\ pc[w] \in RecoveryStep
    BY <1>14 DEF Complete, Reject, RecoveryStep
  <2>2. Local(w, "r-classify") /\ pc[w] \in RecoveryStep => Needs
    <3>1. Local(w, "r-classify") => permits' = permits /\ task'[w] = task[w] /\ pc'[w] = "r-classify"
      BY <1>0 DEF TypeOK, Local, Goto
    <3>2. pc[w] \in RecoveryStep => pc[w] \in RecoveryStep \ {"r-reserve"}
      BY <1>14 DEF Complete
    <3>3. "r-classify" \in RecoveryStep \ {"r-reserve"}
      BY DEF RecoveryStep
    <3> QED
      BY <1>9, <3>1, <3>2, <3>3
  <2> QED
    BY <1>2, <1>12, <2>1, <2>2
<1>15. CASE \/ Interrupt(w) \/ Receive(w) \/ TransactFails(w) \/ WaitTimeout(w) \/ Classify(w)
            \/ ApplyEnsure(w) \/ ApplyEdit(w) \/ ApplyTicket(w)
  BY <1>2, <1>15 DEF Interrupt, Receive, TransactFails, WaitTimeout, Classify, Fail,
     ApplyEnsure, ApplyEdit, ApplyTicket
<1>16. CASE GitFails(w)
  <2>1. /\ permits' = permits /\ task'[w] = task[w] /\ pc'[w] = "r-classify"
        /\ pc[w] \in RecoveryStep \ {"r-reserve"}
    BY <1>0, <1>16 DEF TypeOK, GitFails, Local, Goto, RecoveryGit, RecoveryUpdate, RecoveryStep
  <2> QED
    BY <1>9, <2>1 DEF RecoveryStep
<1> QED
  BY <1>2, <1>3, <1>4, <1>5, <1>6, <1>7, <1>8, <1>10, <1>11, <1>13, <1>14, <1>15, <1>16
     DEF Acts, Progress


\* Every worker keeps the permits that its step needs.
LEMMA PermitNext ==
  ASSUME FenceInv, [Next]_vars, NEW v \in Worker
  PROVE  PermitInv(v)'
<1>0. SafetyInv /\ PermitInv(v)
  BY DEF FenceInv, OnceInv
<1>1. ASSUME pc'[v] = pc[v], task'[v] = task[v],
             \A k \in {"operation", "recovery"} : <<v, k>> \in permits => <<v, k>> \in permits'
      PROVE  PermitInv(v)'
  BY <1>0, <1>1 DEF PermitInv
<1>2. ASSUME NEW w \in Worker \ {v}, Acts(w) PROVE PermitInv(v)'
  <2>1. pc'[v] = pc[v] /\ task'[v] = task[v]
    BY <1>0, <1>2, OthersStay
  <2>2. ASSUME NEW k \in {"operation", "recovery"}, <<v, k>> \in permits
        PROVE  <<v, k>> \in permits'
    BY <1>0, <1>2, <2>2, PermitMoves DEF Release
  <2> QED
    BY <1>1, <2>1, <2>2
<1>3. ASSUME pc'[v] = "idle" PROVE PermitInv(v)'
  BY <1>3 DEF PermitInv, RecoveryStep, AcceptStep
<1> QED
  BY <1>1, <1>2, <1>3, OwnPermits, WorkerSteps

\* What a worker has read of the refs stays true as long as it relies on it.
LEMMA ReadNext ==
  ASSUME FenceInv, [Next]_vars, NEW v \in Worker
  PROVE  ReadInv(v)'
<1>0. SafetyInv /\ TypeOK /\ ReadInv(v) /\ WorkerInv(v)
  BY DEF FenceInv, OnceInv, SafetyInv, TypeInv
<1>1. ASSUME pc'[v] = pc[v], task'[v] = task[v], seen'[v] = seen[v], ~Acts(v) PROVE ReadInv(v)'
  <2>1. CASE pc[v] = "receive"
    <3>1. Unsettled = {}
      BY <1>0, <2>1 DEF ReadInv
    <3>2. ASSUME NEW u \in Worker, NEW o \in Op, Opens(u, o) PROVE FALSE
      BY <2>1, <3>2, OneHolder DEF Opens, Holding, AcceptStep
    <3>3. UNCHANGED journals
      BY <1>0, <3>1, <3>2, JournalMoves
         DEF JournalMove, Persists, Marks, Isolates, Completes, Advances
    <3> QED
      BY <1>1, <2>1, <3>1, <3>3 DEF ReadInv, Unsettled, UpdateStep
  <2>2. CASE pc[v] = "prepare"
    <3>1. UNCHANGED refs
      BY <2>2, RefsFixed DEF Holding, AcceptStep
    <3>2. task[v].req \in Request
      BY <1>0, <2>2 DEF WorkerInv, TaskInv, AcceptStep, AcceptInput
    <3>3. requests[task[v].req] # NoRequest
      BY <1>0, <2>2 DEF ReadInv
    <3>4. /\ requests'[task[v].req] # NoRequest
          /\ requests'[task[v].req].owner = requests[task[v].req].owner
      BY <1>0, <3>2, <3>3, RequestMoves DEF Edits
    <3> QED
      BY <1>0, <1>1, <2>2, <3>1, <3>4 DEF ReadInv, UpdateStep
  <2>3. CASE pc[v] \in UpdateStep
    <3>1. UNCHANGED refs
      BY <2>3, RefsFixed DEF Holding, AcceptStep, UpdateStep, RecoveryStep
    <3> QED
      BY <1>0, <1>1, <2>3, <3>1 DEF ReadInv, UpdateStep
  <2> QED
    BY <1>1, <2>1, <2>2, <2>3 DEF ReadInv
<1>2. ASSUME AbandonRecovery(v) PROVE ReadInv(v)'
  <2>1. UNCHANGED <<pc, seen, refs>> /\ pc[v] \in RecoveryStep
    BY <1>2 DEF AbandonRecovery, gitVars
  <2> QED
    BY <1>0, <2>1 DEF ReadInv, RecoveryStep
<1>3. ASSUME Acts(v), ~AbandonRecovery(v) PROVE ReadInv(v)'
  <2>1. ASSUME pc'[v] = "receive" PROVE Unsettled' = {}
    <3>1. ReceiveCheck(v) /\ ~Fail(v)
      BY <1>0, <1>3, <2>1, Arrivals
    <3> QED
      BY <3>1, ConstantAssumption DEF ReceiveCheck, Revalidate, Nonterminal, Unsettled, dbVars
  <2>2. ASSUME pc'[v] = "prepare"
        PROVE  /\ requests'[task'[v].req] # NoRequest
               /\ refs'[requests'[task'[v].req].owner] = task'[v].head
    <3>1. Inspect(v) /\ ~Finish(v)
      BY <1>0, <1>3, <2>2, Arrivals
    <3> QED
      BY <3>1 DEF Inspect, Local, ValidRequest, dbVars, gitVars
  <2>3. ASSUME pc'[v] \in UpdateStep PROVE seen'[v] = {refs'}
    <3>1. SettleMain(v)
      BY <1>0, <1>3, <2>3, Arrivals
    <3>2. Finish(v) => pc'[v] = "idle"
      BY <1>0 DEF TypeOK, Finish
    <3>3. Local(v, "r-classify") => pc'[v] = "r-classify"
      BY <1>0 DEF TypeOK, Local, Goto
    <3>4. ~Reject(v)
      BY <2>3, <3>2, <3>3 DEF Reject, UpdateStep
    <3>5. pc[v] \in {"settle", "r-settle", "r-resettle"}
      BY <3>1 DEF SettleMain
    <3>6. ~Settled(v)
      BY <1>0, <2>3, <3>5 DEF Settled, Goto, TypeOK, UpdateStep
    <3> QED
      BY <1>0, <3>1, <3>4, <3>6 DEF SettleMain, TypeOK, gitVars
  <2> QED
    BY <2>1, <2>2, <2>3 DEF ReadInv
<1>4. ASSUME NEW w \in Worker \ {v}, Acts(w), ~Acts(v) PROVE ReadInv(v)'
  BY <1>0, <1>1, <1>4, OthersStay
<1>5. ASSUME pc'[v] = "idle" PROVE ReadInv(v)'
  BY <1>5 DEF ReadInv, UpdateStep
<1> QED
  BY <1>1, <1>2, <1>3, <1>4, <1>5, WorkerSteps


\* A recovery that holds the lease can take its next step: nothing has passed
\* its journal, and only a closed ticket can stop it from completing.
LEMMA CanGoOn ==
  ASSUME FenceInv, NEW w \in Worker, lease = w, pc[w] \in RecoveryStep, pc[w] \in JournalStep
  PROVE  /\ op[w] \in Op /\ CanMaterialize(op[w]) /\ CompletionFences(op[w])
         /\ IdempotencyFree(op[w])
         /\ refs[journals[op[w]].owner] = journals[op[w]].in.head
         /\ journals[op[w]].kind \in {"merge", "contained"}
         /\ pc[w] \in ResultStep => /\ journals[op[w]].result = PlanResult(op[w])
                                    /\ gitMain \in {journals[op[w]].in.main, journals[op[w]].result}
         /\ ~ResolvedTicketsOpen(op[w]) => ClosedTicket(op[w])
<1> DEFINE o == op[w]
           in == journals[o].in
<1>0. SafetyInv /\ TypeOK /\ FencedByJournal /\ ResultInv /\ StoreInv /\ IntentInv
  BY DEF FenceInv, OnceInv, SafetyInv, TypeInv
<1>1. /\ o \in Op /\ o \in Unsettled /\ journals[o].phase \in ActivePhase
      /\ journals[o] # NoJournal /\ journals[o] \in Journal
      /\ pc[w] \in ResultStep => journals[o].result = PlanResult(o)
  BY <1>0, AtOp
<1>2. /\ CompletionFences(o) /\ refs[journals[o].owner] = in.head
  BY <1>0, <1>1 DEF FencedByJournal, CompletionFences
<1>3. gitMain \in {in.main, PlanResult(o)}
  <2>1. dbMain = in.main
    BY <1>2 DEF CompletionFences
  <2>2. ASSUME NEW p \in Unsettled, journals[p].result = gitMain PROVE gitMain = PlanResult(o)
    <3>1. p = o
      BY <1>0, <1>1, <2>2 DEF StoreInv, SingleJournal
    <3>2. gitMain # NoOid
      BY <1>0, ConstantAssumption DEF TypeOK
    <3> QED
      BY <1>0, <1>1, <2>2, <3>1, <3>2 DEF ResultInv
  <2> QED
    BY <1>0, <2>1, <2>2 DEF StoreInv, MainAgreement
<1>4. IdempotencyFree(o)
  BY <1>0, <1>1 DEF IntentInv, Intent, IdempotencyFree
<1>5. ASSUME ~ResolvedTicketsOpen(o) PROVE ClosedTicket(o)
  <2>1. PICK x \in in.tix : tickets[x[1]] # [status |-> "open", rev |-> x[2]]
    BY <1>5 DEF ResolvedTicketsOpen
  <2>2. /\ requests[in.req] # NoRequest /\ ResolvingTickets(in.req) = in.tix
        /\ in.req \in Request
    BY <1>1, <1>2 DEF CompletionFences, ValidRequest, Journal, AcceptInput
  <2>3. requests[in.req].resolves \subseteq Ticket
    BY <1>0, <2>2 DEF TypeOK, RequestRow
  <2>4. PICK t \in Ticket : x = <<t, tickets[t].rev>>
    BY <2>1, <2>2, <2>3 DEF ResolvingTickets
  <2>5. tickets[t] \in TicketRow
    BY <1>0 DEF TypeOK
  <2>6. tickets[t] = [status |-> tickets[t].status, rev |-> tickets[t].rev]
    BY <2>5 DEF TicketRow
  <2>7. tickets[t].status = "closed"
    BY <2>1, <2>4, <2>5, <2>6 DEF TicketRow
  <2> QED
    BY <2>1, <2>4, <2>7 DEF ClosedTicket
<1>6. journals[o].kind \in {"merge", "contained"}
  BY <1>1 DEF Journal
<1> QED
  BY <1>1, <1>2, <1>3, <1>4, <1>5, <1>6 DEF CanMaterialize

\* A recovery is at the phase of its journal, after each of its own steps.
LEMMA OwnStage ==
  ASSUME FenceInv, NEW w \in Worker, Acts(w)
  PROVE  StageInv(w)'
<1> DEFINE Stages == RecoveryStep \ {"r-reserve", "r-lease"}
           o == op[w]
<1>0. /\ TypeOK /\ StageInv(w) /\ SafetyInv
      /\ w # NoWorker /\ ReadInv(w)
  BY ConstantAssumption DEF FenceInv, OnceInv, SafetyInv, TypeInv
<1>1. ASSUME pc'[w] \notin Stages PROVE StageInv(w)'
  BY <1>1 DEF StageInv, RecoveryStep
<1>2. Finish(w) => StageInv(w)'
  BY <1>0, <1>1 DEF TypeOK, Finish, RecoveryStep
<1>3. CASE ClientStart(w)
  BY <1>0, <1>1, <1>3 DEF TypeOK, ClientStart, StartAccept, StartPush, StartEnsure, StartEdit,
     StartTicket, Start, RecoveryStep
<1>4. CASE StartRecovery(w) \/ Reserve(w) \/ RecoverReserve(w)
  BY <1>0, <1>1, <1>4 DEF TypeOK, StartRecovery, Reserve, RecoverReserve, Goto, RecoveryStep
<1>5. CASE AbandonRecovery(w)
  BY <1>0, <1>5 DEF AbandonRecovery, dbVars, StageInv, ClosedTicket
<1>19. CASE GitFails(w)
  <2>1. pc'[w] = "r-classify" /\ op'[w] \in gitFailed'
    BY <1>0, <1>19 DEF TypeOK, GitFails, Local, Goto
  <2> QED
    BY <2>1 DEF StageInv
<1>6. CASE Admit(w) /\ ~Finish(w)
  <2>1. Admitted(task[w].kind) \in {"inspect", "receive-check", "validate-head", "apply"}
    BY DEF Admitted
  <2> QED
    BY <1>0, <1>1, <1>6, <2>1 DEF TypeOK, Admit, Goto, RecoveryStep
<1>7. CASE \/ Interrupt(w) \/ Receive(w) \/ TransactFails(w) \/ WaitTimeout(w) \/ Classify(w)
           \/ ApplyEnsure(w) \/ ApplyEdit(w) \/ ApplyTicket(w)
  BY <1>2, <1>7 DEF Interrupt, Receive, TransactFails, WaitTimeout, Classify, Fail,
     ApplyEnsure, ApplyEdit, ApplyTicket
<1>8. CASE Inspect(w) \/ ReceiveCheck(w) \/ ValidateHead(w) \/ Prepare(w)
  <2>1. Finish(w) \/ pc'[w] \in {"prepare", "receive", "apply", "materialize"}
    BY <1>0, <1>8 DEF TypeOK, Inspect, ReceiveCheck, ValidateHead, Prepare, Local, Goto, Fail
  <2> QED
    BY <1>1, <1>2, <2>1 DEF RecoveryStep
\* The steps of a journal, of an Accept and of a recovery.
<1>9. ASSUME pc[w] \notin RecoveryStep,
             \/ Materialize(w) \/ PersistResult(w) \/ MarkMainUpdated(w)
             \/ SettleMain(w) \/ UpdateRef(w) \/ Complete(w)
      PROVE  StageInv(w)'
  <2>1. Finish(w) \/ pc'[w] \in {"persist", "settle", "complete", "mark", "update-ref"}
    BY <1>0, <1>9 DEF TypeOK, Materialize, PersistResult, MarkMainUpdated, SettleMain, UpdateRef,
       Complete, Settled, Reject, Local, Goto, RecoveryStep
  <2> QED
    BY <1>1, <1>2, <2>1 DEF RecoveryStep
<1>10. ASSUME pc[w] \in JournalStep, pc[w] \in RecoveryStep, lease' = w, lease' = lease
       PROVE  /\ lease = w /\ o \in Op /\ CanMaterialize(o) /\ CompletionFences(o)
              /\ IdempotencyFree(o)
              /\ refs[journals[o].owner] = journals[o].in.head
              /\ journals[o].kind \in {"merge", "contained"}
              /\ pc[w] \in ResultStep =>
                   /\ journals[o].result = PlanResult(o)
                   /\ gitMain \in {journals[o].in.main, journals[o].result}
              /\ ~ResolvedTicketsOpen(o) => ClosedTicket(o)
  BY <1>10, CanGoOn
<1>11. ASSUME lease' # w PROVE StageInv(w)'
  BY <1>11 DEF StageInv
<1>12. CASE Materialize(w) /\ pc[w] \in RecoveryStep /\ lease' = w /\ ~Finish(w)
  <2>1. pc[w] \in {"r-materialize", "r-rematerialize"} /\ lease' = lease
    BY <1>12 DEF Materialize, RecoveryStep, Local, Reject
  <2>2. CanMaterialize(o) /\ lease = w
    BY <1>10, <1>12, <2>1 DEF JournalStep
  <2>3. /\ pc'[w] = IF pc[w] = "r-materialize" THEN "r-persist" ELSE "r-settle"
        /\ UNCHANGED <<journals, op>>
    BY <1>0, <1>12, <2>1, <2>2 DEF Materialize, Local, Goto, TypeOK, dbVars
  <2> QED
    BY <1>0, <2>1, <2>2, <2>3 DEF StageInv
<1>13. CASE PersistResult(w) /\ pc[w] \in RecoveryStep /\ lease' = w
  <2>1. pc[w] = "r-persist" /\ lease = w
    BY <1>13 DEF PersistResult, RecoveryStep, Transact
  <2>2. journals[o].phase = "prepared"
    BY <1>0, <2>1 DEF StageInv
  <2>3. o \in Op /\ journals[o] \in Journal
    BY <1>0, <2>1, AtOp DEF JournalStep
  <2>4. /\ pc'[w] = "r-rematerialize" /\ op' = op
        /\ journals' = [journals EXCEPT ![o].phase = "result-persisted", ![o].result = PlanResult(o)]
    BY <1>0, <1>13, <2>1, <2>2 DEF PersistResult, Local, Goto, TypeOK
  <2>5. journals'[o].phase = "result-persisted"
    BY <1>0, <2>3, <2>4 DEF TypeOK, Journal
  <2> QED
    BY <2>4, <2>5 DEF StageInv
<1>14. CASE MarkMainUpdated(w) /\ pc[w] \in RecoveryStep /\ lease' = w
  <2>1. pc[w] = "r-mark" /\ lease = w
    BY <1>14 DEF MarkMainUpdated, RecoveryStep, Transact
  <2>2. journals[o].phase = "result-persisted"
    BY <1>0, <2>1 DEF StageInv
  <2>3. o \in Op /\ journals[o] \in Journal
    BY <1>0, <2>1, AtOp DEF JournalStep
  <2>4. /\ pc'[w] = "r-resettle" /\ op' = op
        /\ journals' = [journals EXCEPT ![o].phase = "main-updated"]
    BY <1>0, <1>14, <2>1, <2>2 DEF MarkMainUpdated, Local, Goto, TypeOK
  <2>5. journals'[o].phase = "main-updated"
    BY <1>0, <2>3, <2>4 DEF TypeOK, Journal
  <2> QED
    BY <2>4, <2>5 DEF StageInv
<1>15. CASE SettleMain(w) /\ pc[w] \in RecoveryStep /\ lease' = w /\ ~Finish(w)
  <2>1. pc[w] \in {"r-settle", "r-resettle"} /\ lease' = lease
    BY <1>15 DEF SettleMain, RecoveryStep, Local, Reject
  <2>2. /\ lease = w /\ refs[journals[o].owner] = journals[o].in.head
        /\ journals[o].kind \in {"merge", "contained"}
        /\ journals[o].result = PlanResult(o)
        /\ gitMain \in {journals[o].in.main, journals[o].result}
    BY <1>10, <1>15, <2>1 DEF JournalStep, ResultStep
  <2>3. \/ MainSettled(journals[o])
        \/ gitMain = journals[o].in.main /\ journals[o].kind = "merge"
    <3>1. CASE journals[o].kind = "merge"
      BY <2>2, <3>1 DEF MainSettled
    <3>2. CASE journals[o].kind = "contained"
      <4>1. journals[o].result = journals[o].in.main
        BY <2>2, <3>2 DEF PlanResult
      <4> QED
        BY <2>2, <4>1 DEF MainSettled
    <3> QED
      BY <2>2, <3>1, <3>2
  <2>4. /\ pc[w] = "r-settle" => pc'[w] \in {"r-mark", "r-update-ref"}
        /\ pc[w] = "r-resettle" => pc'[w] \in {"r-complete", "r-reupdate-ref"}
        /\ UNCHANGED <<journals, op>>
    BY <1>0, <1>15, <2>1, <2>2, <2>3 DEF SettleMain, Settled, Goto, TypeOK, dbVars
  <2> QED
    BY <1>0, <2>1, <2>2, <2>4 DEF StageInv
<1>16. CASE UpdateRef(w) /\ pc[w] \in RecoveryStep /\ lease' = w /\ ~Finish(w)
  <2>1. pc[w] \in {"r-update-ref", "r-reupdate-ref"} /\ lease' = lease
    BY <1>16 DEF UpdateRef, RecoveryStep, Local, Reject
  <2>2. lease = w /\ gitMain \in {journals[o].in.main, journals[o].result}
    BY <1>10, <1>16, <2>1 DEF JournalStep, ResultStep
  <2>3. seen[w] = {refs}
    BY <1>0, <2>1 DEF ReadInv, UpdateStep
  <2>4. /\ pc[w] = "r-update-ref" => pc'[w] = "r-mark"
        /\ pc[w] = "r-reupdate-ref" => pc'[w] = "r-complete"
        /\ UNCHANGED <<journals, op>>
    BY <1>0, <1>16, <2>1, <2>2, <2>3 DEF UpdateRef, Settled, Goto, TypeOK, dbVars
  <2> QED
    BY <1>0, <2>1, <2>2, <2>4 DEF StageInv
<1>17. CASE Complete(w) /\ pc[w] \in RecoveryStep /\ lease' = w /\ ~Finish(w)
  <2>1. pc[w] = "r-complete" /\ lease = w
    BY <1>17 DEF Complete, RecoveryStep, Transact
  <2>2. journals[o].phase = "main-updated"
    BY <1>0, <2>1 DEF StageInv
  <2>3. /\ CompletionFences(o) /\ IdempotencyFree(o)
        /\ ~ResolvedTicketsOpen(o) => ClosedTicket(o)
    BY <2>1, CanGoOn, <1>17 DEF JournalStep
  <2>4. CASE ResolvedTicketsOpen(o)
    <3>1. pc'[w] \in {"preflight", "admit"}
      BY <1>0, <1>17, <2>1, <2>2, <2>3, <2>4 DEF Complete, Resume, Goto, TypeOK
    <3> QED
      BY <1>1, <3>1 DEF RecoveryStep
  <2>5. CASE ~ResolvedTicketsOpen(o)
    <3>1. pc'[w] = "r-classify" /\ UNCHANGED <<journals, tickets, op>>
      BY <1>0, <1>17, <2>1, <2>5 DEF Complete, Reject, RecoveryStep, Local, Goto, TypeOK, dbVars
    <3> QED
      BY <2>2, <2>3, <2>5, <3>1 DEF StageInv, ClosedTicket
  <2> QED
    BY <2>4, <2>5
<1>18. CASE RecoverLease(w) /\ ~Finish(w)
  <2>1. CASE Resume(w)
    <3>1. pc'[w] \in {"preflight", "admit"}
      BY <1>0, <1>18, <2>1 DEF Resume, Goto, TypeOK
    <3> QED
      BY <1>1, <3>1 DEF RecoveryStep
  <2>2. CASE ~Resume(w)
    <3>1. PICK q \in Nonterminal :
            /\ journals[q].phase # "recovery-required"
            /\ op' = [op EXCEPT ![w] = q]
            /\ Goto(w, CASE journals[q].phase = "prepared" -> "r-materialize"
                         [] journals[q].phase = "result-persisted" -> "r-rematerialize"
                         [] journals[q].phase = "main-updated" -> "r-resettle")
      BY <1>18, <2>2 DEF RecoverLease
    <3>2. op'[w] = q /\ UNCHANGED journals
      BY <1>0, <1>18, <3>1 DEF TypeOK, RecoverLease, dbVars
    <3>3. journals[q].phase \in {"prepared", "result-persisted", "main-updated"}
      BY <1>0, <3>1 DEF TypeOK, Nonterminal, Journal, Phase, ActivePhase
    <3>4. pc'[w] = CASE journals[q].phase = "prepared" -> "r-materialize"
                     [] journals[q].phase = "result-persisted" -> "r-rematerialize"
                     [] journals[q].phase = "main-updated" -> "r-resettle"
      BY <1>0, <3>1 DEF TypeOK, Goto
    <3> QED
      BY <3>2, <3>3, <3>4 DEF StageInv
  <2> QED
    BY <2>1, <2>2
<1> QED
  BY <1>2, <1>3, <1>4, <1>5, <1>6, <1>7, <1>8, <1>9, <1>11, <1>12, <1>13, <1>14, <1>15, <1>16,
     <1>17, <1>18, <1>19 DEF Acts, Progress

\* A recovery stays at the phase of its journal while others run.
LEMMA StageNext ==
  ASSUME FenceInv, [Next]_vars, NEW v \in Worker
  PROVE  StageInv(v)'
<1>0. SafetyInv /\ StageInv(v) /\ v # NoWorker
  BY ConstantAssumption DEF FenceInv, OnceInv
<1>1. ASSUME NEW w \in Worker \ {v}, Acts(w), lease' = v PROVE StageInv(v)'
  <2>1. pc'[v] = pc[v] /\ op'[v] = op[v] /\ lease = v
    BY <1>0, <1>1, OthersStay
  <2>2. UNCHANGED journals \/ JournalWriter(w)
    BY <1>1, Writers
  <2>3. UNCHANGED <<journals, tickets>>
    <3>1. JournalWriter(w) => UNCHANGED journals \/ lease = w
      BY <1>0, OpensStep, PersistsStep, IsolatesStep, CompletesStep
         DEF JournalWriter, Opens, Persists, Marks, Isolates, Completes, Advances, Fail, dbVars
    <3> QED
      BY <1>0, <1>1, <2>1, <2>2, <3>1, TicketMoves
  <2> QED
    BY <1>0, <2>1, <2>3, FailuresStay DEF StageInv, ClosedTicket
<1>2. ASSUME lease' # v PROVE StageInv(v)'
  BY <1>2 DEF StageInv
<1>3. ASSUME UNCHANGED <<dbVars, pc, op, lease>> PROVE StageInv(v)'
  BY <1>0, <1>3, FailuresStay DEF StageInv, ClosedTicket, dbVars
<1>4. ASSUME pc'[v] = "idle" PROVE StageInv(v)'
  BY <1>4 DEF StageInv
<1> QED
  BY <1>0, <1>1, <1>2, <1>3, <1>4, OwnStage, WorkerSteps


\* The fencing invariant holds initially.
LEMMA FenceInit ==
  ASSUME Init
  PROVE  FenceInv
<1>1. OnceInv
  BY OnceInit
<1>2. Exclusive /\ IsolationExplained /\ FencedByJournal
  BY DEF Init, InitWith, Exclusive, IsolationExplained, FencedByJournal, Unsettled
<1>3. ASSUME NEW w \in Worker PROVE PermitInv(w) /\ ReadInv(w) /\ StageInv(w)
  BY DEF Init, InitWith, PermitInv, ReadInv, StageInv, RecoveryStep, AcceptStep, UpdateStep
<1> QED
  BY <1>1, <1>2, <1>3 DEF FenceInv

\* Every step preserves it when the Project has one Git permit.
LEMMA FenceNext ==
  ASSUME MaxPerProject = 1, FenceInv, [Next]_vars
  PROVE  FenceInv'
<1>1. OnceInv'
  BY OnceNext DEF FenceInv
<1> QED
  BY <1>1, ExclusiveNext, FencedNext, IsolationNext, PermitNext, ReadNext, StageNext DEF FenceInv

\* With the one Git permit that a Project has by default, nothing passes an
\* unsettled journal: its request, its tickets' relations, the recorded main and
\* the personal ref stay as Accept planned them, so that an interrupted Accept can
\* go on, or be settled by hand. Recovery gives a journal up only over a failed Git
\* step of its own or a ticket that was closed under the journal, and never over
\* what another writer, a crash, a lost lease or a timeout of a queue did.
THEOREM JournalsAreFenced == MaxPerProject = 1 => (Spec => []JournalFenced)
<1> SUFFICES ASSUME MaxPerProject = 1
             PROVE  Spec => []JournalFenced
  OBVIOUS
<1>1. Init => FenceInv
  BY FenceInit
<1>2. FenceInv /\ [Next]_vars => FenceInv'
  BY FenceNext
<1>3. FenceInv => JournalFenced
  BY DEF FenceInv, OnceInv, SafetyInv, TypeInv, JournalFenced
<1> QED
  BY <1>1, <1>2, <1>3, PTL DEF Spec

=============================================================================

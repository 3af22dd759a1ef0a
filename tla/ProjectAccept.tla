--------------------------- MODULE ProjectAccept ---------------------------
(***************************************************************************)
(* Accept of one Project: the cross-store protocol that moves the          *)
(* protected main ref in Git and the collaboration state in PostgreSQL.    *)
(*                                                                         *)
(* ProjectAcceptCoordinator runs it, ProjectWriteAdmission fences it,      *)
(* PostgresAcceptPersistence keeps its journal and GitRepositoryAuthority  *)
(* performs its Git steps. The other writers of the same Project run       *)
(* beside it: receive-pack on a personal ref, ensureMyRequest, request     *)
(* metadata updates and ticket updates. The two stores do not commit       *)
(* atomically; requests are cancelled, PostgreSQL connections drop and     *)
(* with them the advisory lock, and the process crashes, between any two   *)
(* steps.                                                                  *)
(*                                                                         *)
(* A commit is the set of its ancestors' identities: a pushed commit adds  *)
(* a Change, a merge commit adds the Accept operation that made it.        *)
(***************************************************************************)
EXTENDS Naturals, FiniteSets

CONSTANTS
  Worker,          \* operations the server process runs concurrently
  Reconciler,      \* the worker of PeriodicReconciliation
  Member,          \* active Members; each owns one personal ref
  Manager,         \* the Members whose role is manager
  Key,             \* idempotency keys of acceptRequest
  Request,         \* change request ids
  Ticket,          \* ticket ids
  Change,          \* commits a Member can push
  Op,              \* ids the operationIdFactory can produce
  Conflict,        \* pairs {c, d} of Changes that merge-tree cannot merge
  MaxPerProject,   \* maxChildrenPerProject: Git permits of one Project
  NoWorker, NoOp, NoOid, NoJournal, NoRequest, NoInput,
  MaxOps,          \* bound: client operations started in a behaviour
  MaxFaults        \* bound: cancellations, failures and crashes

Atom == Change \cup Op
Oid  == SUBSET Atom

ASSUME ConstantAssumption ==
  /\ Reconciler \in Worker
  /\ Manager \subseteq Member
  /\ Change \cap Op = {}
  /\ NoWorker \notin Worker
  /\ NoOp \notin Op
  /\ \A x \in Oid : x # NoOid
  /\ MaxPerProject \in Nat \ {0}
  /\ MaxOps \in Nat
  /\ MaxFaults \in Nat

VARIABLES
  \* PostgreSQL, one Project
  dbMain,      \* projects.expected_main_oid
  service,     \* projects.service_state
  journals,    \* accept_journals with accept_journal_relations
  requests,    \* change_requests with request_ticket_relations
  tickets,     \* tickets: status and revision
  idem,        \* idempotency results of acceptRequest
  candidate,   \* the recovery_candidates row of kind 'accept'
  events,      \* operations whose main.updated event was appended, with the new main
  lease,       \* owner of the Project advisory lock
  \* Git
  gitMain,     \* the protected main ref
  refs,        \* the personal refs
  \* the server process
  pc, task, op, facts, seen, recovered,
  permits,     \* Git permits held: <<worker, "operation" or "recovery">>
  \* clients and bounds
  sent,        \* acceptRequest inputs sent so far; a client may resend one
  replies,     \* successful acceptRequest responses
  started, faults,
  gitFailed    \* history: journals whose recovery saw a Git step fail

dbVars     == <<dbMain, service, journals, requests, tickets, idem, candidate, events>>
gitVars    == <<gitMain, refs>>
procVars   == <<pc, task, op, facts, seen, recovered, permits, lease>>
clientVars == <<sent, replies, started, faults, gitFailed>>
vars       == <<dbVars, gitVars, procVars, clientVars>>

-----------------------------------------------------------------------------
(* Records. *)

ActivePhase == {"prepared", "result-persisted", "main-updated"}
Phase       == ActivePhase \cup {"recovery-required", "completed"}

\* AcceptRequest: what acceptFingerprint digests, with the actor and the key.
AcceptInput == [kind: {"accept"}, actor: Member, key: Key, req: Request,
                head: Oid, main: Oid, rev: Nat, tix: SUBSET (Ticket \X Nat)]

\* The plan that prepare persists, its progress and its result.
Journal == [phase: Phase, from: ActivePhase \cup {"none"},
            kind: {"merge", "contained"}, in: AcceptInput, owner: Member,
            result: {NoOid} \cup Oid]

RequestRow == [owner: Member, head: Oid, rev: Nat, status: {"open", "merged"},
               resolves: SUBSET Ticket, merged: {NoOid} \cup Oid]

TicketRow == [status: {"open", "closed"}, rev: Nat]

PushTask    == [kind: {"push"}, actor: Member, old: Oid, new: Oid]
EnsureTask  == [kind: {"ensure"}, actor: Member, head: Oid, main: Oid,
                resolves: SUBSET Ticket]
EditTask    == [kind: {"edit"}, actor: Member, req: Request, head: Oid, rev: Nat,
                resolves: SUBSET Ticket]
TicketTask  == [kind: {"ticket"}, ticket: Ticket, rev: Nat,
                status: {"open", "closed", "content"}]
RecoverTask == [kind |-> "recover"]
NoTask      == [kind |-> "none"]
Task == AcceptInput \cup PushTask \cup EnsureTask \cup EditTask \cup TicketTask
          \cup {RecoverTask, NoTask}

\* An absent row is told from a row.
ASSUME AbsentAssumption ==
  /\ NoJournal \notin Journal /\ NoRequest \notin RequestRow
  /\ NoInput \notin [in: AcceptInput, result: Oid]

-----------------------------------------------------------------------------
(* What the tables and the repository say. *)

\* getNonterminal: the rows whose phase is not 'completed'.
Nonterminal == {o \in Op : journals[o] # NoJournal /\ journals[o].phase # "completed"}

OpenRequest(m) ==
  {r \in Request : requests[r] # NoRequest /\ requests[r].status = "open"
                     /\ requests[r].owner = m}

\* ticketRevision of a relation is joined from the ticket when it is read.
ResolvingTickets(r) == {<<t, tickets[t].rev>> : t \in requests[r].resolves}

\* validateRequest, and the request part of the prepare and completion fences.
ValidRequest(in) ==
  /\ requests[in.req] # NoRequest
  /\ requests[in.req].status = "open"
  /\ requests[in.req].head = in.head
  /\ requests[in.req].rev = in.rev
  /\ ResolvingTickets(in.req) = in.tix

Conflicting(main, head) ==
  \E c \in head \ main, d \in main \ head : {c, d} \in Conflict

MergeCommit_Mutant(o) == journals[o].in.main \cup {o}

\* acceptCommitBytes: the commit is a function of the persisted plan alone.
MergeCommit(o) == journals[o].in.main \cup journals[o].in.head \cup {o}

PlanResult(o) == IF journals[o].kind = "contained" THEN journals[o].in.main
                                                   ELSE MergeCommit(o)

PermitFree_Mutant == TRUE

\* acquireGitChild can grant a permit of this Project.
PermitFree == Cardinality(permits) < MaxPerProject

-----------------------------------------------------------------------------
(* Control of one worker. *)

RecoveryStep == {"r-reserve", "r-lease", "r-materialize", "r-persist",
                 "r-rematerialize", "r-settle", "r-update-ref", "r-mark",
                 "r-resettle", "r-reupdate-ref", "r-complete", "r-classify"}
Step == {"idle", "preflight", "reserve", "admit", "inspect", "prepare",
         "materialize", "persist", "settle", "update-ref", "mark", "complete",
         "receive-check", "receive", "validate-head", "apply"} \cup RecoveryStep

Goto(w, step) == pc' = [pc EXCEPT ![w] = step]

Release(w) == {p \in permits : p[1] # w}

\* The operation ends: its lease is closed, then its reservation.
Finish(w) ==
  /\ pc' = [pc EXCEPT ![w] = "idle"]
  /\ task' = [task EXCEPT ![w] = NoTask]
  /\ op' = [op EXCEPT ![w] = NoOp]
  /\ facts' = [facts EXCEPT ![w] = NoOid]
  /\ seen' = [seen EXCEPT ![w] = {}]
  /\ recovered' = recovered \ {w}
  /\ permits' = Release(w)
  /\ lease' = IF lease = w THEN NoWorker ELSE lease

Fail(w) == Finish(w) /\ UNCHANGED <<dbVars, gitVars, clientVars>>

Local(w, step) ==
  /\ Goto(w, step)
  /\ UNCHANGED <<task, op, facts, seen, recovered, permits, lease>>

\* revalidate of ProjectWriteAdmission, inside a transaction on w's lease.
Revalidate(w, o) ==
  /\ lease = w
  /\ service = "active"
  /\ Nonterminal \subseteq {o}
  /\ dbMain = facts[w]

Start(w, t, step) ==
  /\ pc[w] = "idle" /\ w # Reconciler
  /\ started < MaxOps
  /\ started' = started + 1
  /\ task' = [task EXCEPT ![w] = t]
  /\ pc' = [pc EXCEPT ![w] = step]
  /\ UNCHANGED <<op, facts, seen, recovered, permits, lease, dbVars, gitVars,
                 replies, faults, gitFailed>>

-----------------------------------------------------------------------------
(* Clients start operations. An input may be stale by the time it is used. *)

CurrentInput(a, k, r) ==
  [kind |-> "accept", actor |-> a, key |-> k, req |-> r,
   head |-> requests[r].head, main |-> dbMain, rev |-> requests[r].rev,
   tix |-> ResolvingTickets(r)]

\* Bounds: an Accept may need an unused operation id, a publication an unused
\* request id.
OpsLeft == Cardinality({o \in Op : journals[o] = NoJournal})
             > Cardinality({w \in Worker : task[w].kind = "accept"})
RequestsLeft == Cardinality({r \in Request : requests[r] = NoRequest})
                  > Cardinality({w \in Worker : task[w].kind = "ensure"})

StartAccept(w) ==
  /\ OpsLeft
  /\ \E in \in {CurrentInput(a, k, r) : a \in Member, k \in Key,
                     r \in {q \in Request : requests[q] # NoRequest}} \cup sent :
       /\ Start(w, in, "reserve")
       /\ sent' = sent \cup {in}

\* A pushed commit is new and descends from the ref the client fetched,
\* and perhaps from main; or the ref is fast-forwarded to main.
FreshChange ==
  {c \in Change : /\ c \notin gitMain
                  /\ \A m \in Member : c \notin refs[m]
                  /\ \A w \in Worker : task[w].kind = "push" => c \notin task[w].new}

StartPush(w) ==
  \E m \in Member :
    \E new \in {refs[m] \cup {c} : c \in FreshChange} \cup {gitMain}
                 \cup {refs[m] \cup gitMain \cup {c} : c \in FreshChange} :
      /\ refs[m] \subseteq new /\ refs[m] # new
      /\ Start(w, [kind |-> "push", actor |-> m, old |-> refs[m], new |-> new],
               "preflight")
      /\ UNCHANGED sent

StartEnsure(w) ==
  /\ RequestsLeft
  /\ \E m \in Member, ts \in SUBSET Ticket :
       /\ Start(w, [kind |-> "ensure", actor |-> m, head |-> refs[m], main |-> dbMain,
                    resolves |-> ts], "preflight")
       /\ UNCHANGED sent

StartEdit(w) ==
  \E m \in Member, ts \in SUBSET Ticket : \E r \in OpenRequest(m) :
    /\ Start(w, [kind |-> "edit", actor |-> m, req |-> r, head |-> requests[r].head,
                 rev |-> requests[r].rev, resolves |-> ts], "admit")
    /\ UNCHANGED sent

StartTicket(w) ==
  \E t \in Ticket, s \in {"open", "closed", "content"} :
    /\ Start(w, [kind |-> "ticket", ticket |-> t, rev |-> tickets[t].rev, status |-> s],
             "admit")
    /\ UNCHANGED sent

\* PeriodicReconciliation recovers the cataloged candidates.
StartRecovery(w) ==
  /\ w = Reconciler /\ pc[w] = "idle"
  /\ candidate # NoOp
  /\ task' = [task EXCEPT ![w] = RecoverTask]
  /\ Goto(w, "r-reserve")
  /\ UNCHANGED <<op, facts, seen, recovered, permits, lease, dbVars, gitVars, clientVars>>

-----------------------------------------------------------------------------
(* Capacity and admission. *)

Reserve(w) ==
  /\ pc[w] = "reserve"
  /\ PermitFree
  /\ permits' = permits \cup {<<w, "operation">>}
  /\ Goto(w, "admit")
  /\ UNCHANGED <<task, op, facts, seen, recovered, lease, dbVars, gitVars, clientVars>>

\* The step after admission, by operation.
Admitted(kind) == CASE kind = "accept" -> "inspect"
                    [] kind = "push" -> "receive-check"
                    [] kind = "ensure" -> "validate-head"
                    [] OTHER -> "apply"

\* runAfterPreflight does not recover; run and preflight do, once.
AllowRecovery(w) == pc[w] = "preflight" \/ task[w].kind \in {"accept", "edit", "ticket"}

\* ProjectWriteAdmission run: acquire the lease, read the nonterminal journals,
\* then authorize and go on, or close the lease and recover, or fail.
Admit(w) ==
  /\ pc[w] \in {"preflight", "admit"}
  /\ lease = NoWorker
  /\ UNCHANGED <<dbVars, gitVars, clientVars>>
  /\ IF Nonterminal = {}
     THEN IF service # "active" THEN Finish(w)
          ELSE /\ UNCHANGED <<task, op, seen, permits>>
               /\ recovered' = recovered \ {w}
               /\ IF pc[w] = "preflight"
                  THEN Goto(w, "reserve") /\ UNCHANGED <<facts, lease>>
                  ELSE /\ Goto(w, Admitted(task[w].kind))
                       /\ lease' = w
                       /\ facts' = [facts EXCEPT ![w] = dbMain]
     ELSE IF /\ AllowRecovery(w)
             /\ w \notin recovered
             /\ \A o \in Nonterminal : journals[o].phase # "recovery-required"
          THEN /\ Goto(w, "r-reserve")
               /\ UNCHANGED <<task, op, facts, seen, recovered, permits, lease>>
          ELSE Finish(w)

-----------------------------------------------------------------------------
(* Accept. *)

Reply(w, result) == replies' = replies \cup {[in |-> task[w], result |-> result]}

IdempotencyFind_Mutant(in) ==
  LET stored == idem[<<in.actor, in.key>>]
  IN  IF stored # NoInput /\ stored.in = in THEN "replay" ELSE "missing"

\* idempotency.find: by actor and key, then by fingerprint.
IdempotencyFind(in) ==
  LET stored == idem[<<in.actor, in.key>>]
  IN  IF stored = NoInput THEN "missing"
      ELSE IF stored.in = in THEN "replay" ELSE "conflict"

\* The idempotency lookup, the role, the request and main checks, inspectAccept.
Inspect(w) ==
  LET in == task[w]
      found == IdempotencyFind(in)
  IN  /\ pc[w] = "inspect"
      /\ Revalidate(w, NoOp)
      /\ UNCHANGED <<dbVars, gitVars, sent, started, faults, gitFailed>>
      /\ IF found = "replay"
         THEN Reply(w, idem[<<in.actor, in.key>>].result) /\ Finish(w)
         ELSE /\ UNCHANGED replies
              /\ IF /\ found = "missing"
                    /\ in.actor \in Manager
                    /\ ValidRequest(in)
                    /\ facts[w] = in.main
                    /\ gitMain = in.main
                    /\ refs[requests[in.req].owner] = in.head
                    /\ in.head \subseteq in.main \/ ~Conflicting(in.main, in.head)
                 THEN Local(w, "prepare")
                 ELSE Finish(w)

Prepare(w) ==
  LET in == task[w] IN
  /\ pc[w] = "prepare"
  /\ Revalidate(w, NoOp)
  /\ IF ValidRequest(in) /\ dbMain = in.main
     THEN \E o \in {x \in Op : journals[x] = NoJournal} :
            /\ journals' = [journals EXCEPT ![o] =
                 [phase |-> "prepared", from |-> "none",
                  kind |-> IF in.head \subseteq in.main THEN "contained" ELSE "merge",
                  in |-> in, owner |-> requests[in.req].owner, result |-> NoOid]]
            /\ candidate' = o
            /\ op' = [op EXCEPT ![w] = o]
            /\ Goto(w, "materialize")
            /\ UNCHANGED <<task, facts, seen, recovered, permits, lease, gitVars, clientVars,
                           dbMain, service, requests, tickets, idem, events>>
     ELSE Fail(w)

\* materializeAcceptResult succeeds for journal o.
CanMaterialize(o) ==
  /\ refs[journals[o].owner] = journals[o].in.head
  /\ gitMain \in {journals[o].in.main, PlanResult(o)}

\* An error fails an Accept, whose journal stays; recovery classifies it.
Reject(w) == IF pc[w] \in RecoveryStep THEN Local(w, "r-classify") ELSE Finish(w)

Materialize(w) ==
  /\ pc[w] \in {"materialize", "r-materialize", "r-rematerialize"}
  /\ UNCHANGED <<dbVars, gitVars, clientVars>>
  /\ IF CanMaterialize(op[w])
     THEN Local(w, CASE pc[w] = "materialize" -> "persist"
                     [] pc[w] = "r-materialize" -> "r-persist"
                     [] pc[w] = "r-rematerialize" -> "r-settle")
     ELSE Reject(w)

\* The transaction of a recovery step, or of an Accept step with its
\* acceptOperationId.
Transact(w) == IF pc[w] \in RecoveryStep THEN lease = w ELSE Revalidate(w, op[w])

PersistResult(w) ==
  LET o == op[w] IN
  /\ pc[w] \in {"persist", "r-persist"}
  /\ Transact(w)
  /\ UNCHANGED <<gitVars, clientVars, dbMain, service, requests, tickets, idem, events>>
  /\ IF journals[o].phase = "prepared"
     THEN /\ journals' = [journals EXCEPT ![o].phase = "result-persisted",
                                          ![o].result = PlanResult(o)]
          /\ candidate' = o
          /\ Local(w, IF pc[w] = "persist" THEN "settle" ELSE "r-rematerialize")
     ELSE Reject(w) /\ UNCHANGED <<journals, candidate>>

\* settleAcceptMain returned: 'replayed' or 'advanced'.
Settled(w) == Goto(w, CASE pc[w] \in {"settle", "update-ref"} -> "mark"
                        [] pc[w] \in {"r-settle", "r-update-ref"} -> "r-mark"
                        [] pc[w] \in {"r-resettle", "r-reupdate-ref"} -> "r-complete")

MainSettled_Mutant(j) == gitMain \in {j.in.main, j.result}

MainSettled(j) == gitMain = j.result

\* settleAcceptMain up to update-ref: one reading of the refs is compared.
SettleMain(w) ==
  LET j == journals[op[w]] IN
  /\ pc[w] \in {"settle", "r-settle", "r-resettle"}
  /\ UNCHANGED <<dbVars, gitVars, clientVars>>
  /\ IF refs[j.owner] = j.in.head /\ MainSettled(j)
     THEN Settled(w) /\ UNCHANGED <<task, op, facts, seen, recovered, permits, lease>>
     ELSE IF refs[j.owner] = j.in.head /\ gitMain = j.in.main /\ j.kind = "merge"
     THEN /\ Goto(w, CASE pc[w] = "settle" -> "update-ref"
                       [] pc[w] = "r-settle" -> "r-update-ref"
                       [] pc[w] = "r-resettle" -> "r-reupdate-ref")
          /\ seen' = [seen EXCEPT ![w] = {refs}]
          /\ UNCHANGED <<task, op, facts, recovered, permits, lease>>
     ELSE Reject(w)

CasMain_Mutant(j) == IF gitMain = j.in.main THEN j.in.head ELSE gitMain

\* git update-ref main result expected-main.
CasMain(j) == IF gitMain = j.in.main THEN j.result ELSE gitMain

\* update-ref and the readings after it. When it succeeds every other ref must
\* still be what it was; when it fails the main ref must be the result already.
UpdateRef(w) ==
  LET j == journals[op[w]]
      ok == IF gitMain = j.in.main THEN seen[w] = {refs} ELSE gitMain = j.result
  IN
  /\ pc[w] \in {"update-ref", "r-update-ref", "r-reupdate-ref"}
  /\ gitMain' = CasMain(j)
  /\ IF ok
     THEN /\ Settled(w)
          /\ seen' = [seen EXCEPT ![w] = {}]
          /\ UNCHANGED <<task, op, facts, recovered, permits, lease>>
     ELSE Reject(w)
  /\ UNCHANGED <<dbVars, refs, clientVars>>

MarkMainUpdated(w) ==
  LET o == op[w] IN
  /\ pc[w] \in {"mark", "r-mark"}
  /\ Transact(w)
  /\ UNCHANGED <<gitVars, clientVars, dbMain, service, requests, tickets, idem, events>>
  /\ IF journals[o].phase = "result-persisted"
     THEN /\ journals' = [journals EXCEPT ![o].phase = "main-updated"]
          /\ candidate' = o
          /\ Local(w, IF pc[w] = "mark" THEN "complete" ELSE "r-resettle")
     ELSE Reject(w) /\ UNCHANGED <<journals, candidate>>

\* assertLiveCompletionFences, and the row counts that complete insists on.
CompletionFences(o) ==
  LET in == journals[o].in IN
  /\ service = "active" /\ dbMain = in.main
  /\ ValidRequest(in)

ResolvedTicketsOpen(o) ==
  \A x \in journals[o].in.tix : tickets[x[1]] = [status |-> "open", rev |-> x[2]]

IdempotencyFree(o) ==
  idem[<<journals[o].in.actor, journals[o].in.key>>]
    \in {NoInput, [in |-> journals[o].in, result |-> journals[o].result]}

MergeRow(row, result) == [row EXCEPT !.status = "merged", !.merged = result]

RemoveCandidate(o) == IF candidate = o THEN NoOp ELSE candidate

\* complete: one transaction settles the request, its relations and tickets,
\* the Project's main, the stored response, the event, the journal and the
\* recovery candidate.
SettleJournal(o) ==
  LET j == journals[o] IN
  /\ tickets' = [t \in Ticket |->
       IF \E x \in j.in.tix : x[1] = t
       THEN [status |-> "closed", rev |-> tickets[t].rev + 1] ELSE tickets[t]]
  /\ requests' = [requests EXCEPT ![j.in.req] = MergeRow(@, j.result)]
  /\ dbMain' = j.result
  /\ idem' = [idem EXCEPT ![<<j.in.actor, j.in.key>>] = [in |-> j.in, result |-> j.result]]
  /\ events' = events \cup {[op |-> o, main |-> j.result]}
  /\ journals' = [journals EXCEPT ![o].phase = "completed"]
  /\ candidate' = RemoveCandidate(o)
  /\ UNCHANGED service

\* The recovery returns to the admission that waits for it, if any.
Resume(w) ==
  IF task[w].kind = "recover" THEN Finish(w)
  ELSE /\ Goto(w, IF task[w].kind \in {"push", "ensure"} THEN "preflight" ELSE "admit")
       /\ recovered' = recovered \cup {w}
       /\ permits' = permits \ {<<w, "recovery">>}
       /\ lease' = IF lease = w THEN NoWorker ELSE lease
       /\ op' = [op EXCEPT ![w] = NoOp]
       /\ seen' = [seen EXCEPT ![w] = {}]
       /\ UNCHANGED <<task, facts>>

Complete(w) ==
  LET o == op[w] IN
  /\ pc[w] \in {"complete", "r-complete"}
  /\ Transact(w)
  /\ UNCHANGED <<gitVars, sent, started, faults, gitFailed>>
  /\ IF /\ journals[o].phase = "main-updated"
        /\ CompletionFences(o) /\ ResolvedTicketsOpen(o) /\ IdempotencyFree(o)
     THEN /\ SettleJournal(o)
          /\ IF pc[w] = "complete"
             THEN Finish(w) /\ Reply(w, journals[o].result)
             ELSE Resume(w) /\ UNCHANGED replies
     ELSE Reject(w) /\ UNCHANGED <<dbVars, replies>>

-----------------------------------------------------------------------------
(* Recovery of the Project's nonterminal Accept. *)

RecoverReserve(w) ==
  /\ pc[w] = "r-reserve"
  /\ PermitFree
  /\ permits' = permits \cup {<<w, "recovery">>}
  /\ Goto(w, "r-lease")
  /\ UNCHANGED <<task, op, facts, seen, recovered, lease, dbVars, gitVars, clientVars>>

RecoverLease(w) ==
  /\ pc[w] = "r-lease"
  /\ lease = NoWorker
  /\ UNCHANGED <<dbVars, gitVars, clientVars>>
  /\ \/ Nonterminal = {} /\ Resume(w)
     \/ /\ \E o \in Nonterminal :
             /\ journals[o].phase # "recovery-required"
             /\ op' = [op EXCEPT ![w] = o]
             /\ Goto(w, CASE journals[o].phase = "prepared" -> "r-materialize"
                          [] journals[o].phase = "result-persisted" -> "r-rematerialize"
                          [] journals[o].phase = "main-updated" -> "r-resettle")
        /\ lease' = w
        /\ UNCHANGED <<task, facts, seen, recovered, permits>>
     \/ (\E o \in Nonterminal : journals[o].phase = "recovery-required") /\ Finish(w)

\* markRecoveryRequired isolates the Project; the recovery then fails.
Classify(w) ==
  LET o == op[w] IN
  /\ pc[w] = "r-classify"
  /\ lease = w
  /\ journals' = [journals EXCEPT ![o].phase = "recovery-required",
                                  ![o].from = journals[o].phase]
  /\ service' = "recovery-required"
  /\ candidate' = RemoveCandidate(o)
  /\ Finish(w)
  /\ UNCHANGED <<dbMain, requests, tickets, idem, events, gitVars, clientVars>>

-----------------------------------------------------------------------------
(* The other writers. *)

\* runReceivePack up to the child process: expected refs, then revalidation.
ReceiveCheck(w) ==
  /\ pc[w] = "receive-check"
  /\ Revalidate(w, NoOp)
  /\ IF gitMain = facts[w]
     THEN Local(w, "receive") /\ UNCHANGED <<dbVars, gitVars, clientVars>>
     ELSE Fail(w)

\* git receive-pack, under the receive policy: old is the ref, and a
\* fast-forward. The child process does not depend on the lease.
Receive(w) ==
  LET t == task[w] IN
  /\ pc[w] = "receive"
  /\ refs' = IF refs[t.actor] = t.old THEN [refs EXCEPT ![t.actor] = t.new] ELSE refs
  /\ Finish(w)
  /\ UNCHANGED <<dbVars, gitMain, clientVars>>

\* ensureMyRequest up to its transaction: main, then the pushed head.
ValidateHead(w) ==
  LET t == task[w] IN
  /\ pc[w] = "validate-head"
  /\ Revalidate(w, NoOp)
  /\ IF facts[w] = t.main /\ gitMain = t.main /\ refs[t.actor] = t.head
     THEN Local(w, "apply") /\ UNCHANGED <<dbVars, gitVars, clientVars>>
     ELSE Fail(w)

\* replacePendingRelations and updateOpen, unless nothing changes. A
\* description may change without its ticket relations.
UpdateOpen(r, head, resolves) ==
  \/ /\ requests' = [requests EXCEPT ![r].head = head, ![r].resolves = resolves,
                                     ![r].rev = @ + 1]
  \/ requests[r].head = head /\ requests[r].resolves = resolves /\ UNCHANGED requests

ApplyEnsure(w) ==
  LET t == task[w] IN
  /\ pc[w] = "apply" /\ t.kind = "ensure"
  /\ Revalidate(w, NoOp)
  /\ IF OpenRequest(t.actor) = {}
     THEN \E r \in {q \in Request : requests[q] = NoRequest} :
            requests' = [requests EXCEPT ![r] =
              [owner |-> t.actor, head |-> t.head, rev |-> 1, status |-> "open",
               resolves |-> t.resolves, merged |-> NoOid]]
     ELSE \E r \in OpenRequest(t.actor) : UpdateOpen(r, t.head, t.resolves)
  /\ Finish(w)
  /\ UNCHANGED <<dbMain, service, journals, tickets, idem, candidate, events,
                 gitVars, clientVars>>

ApplyEdit(w) ==
  LET t == task[w] IN
  /\ pc[w] = "apply" /\ t.kind = "edit"
  /\ Revalidate(w, NoOp)
  /\ IF /\ requests[t.req].status = "open"
        /\ requests[t.req].owner = t.actor
        /\ requests[t.req].head = t.head
        /\ requests[t.req].rev = t.rev
     THEN UpdateOpen(t.req, t.head, t.resolves)
     ELSE UNCHANGED requests
  /\ Finish(w)
  /\ UNCHANGED <<dbMain, service, journals, tickets, idem, candidate, events,
                 gitVars, clientVars>>

\* hasPendingResolve: an open request would resolve the ticket.
PendingResolve(t) ==
  \E r \in Request : /\ requests[r] # NoRequest
                     /\ requests[r].status = "open" /\ t \in requests[r].resolves

\* updateTicketContent, closeTicket and reopenTicket.
ApplyTicket(w) ==
  LET t == task[w]
      row == tickets[t.ticket]
  IN
  /\ pc[w] = "apply" /\ t.kind = "ticket"
  /\ Revalidate(w, NoOp)
  /\ tickets' = IF \/ row.rev # t.rev
                   \/ row.status = t.status
                   \/ t.status = "open" /\ PendingResolve(t.ticket)
                THEN tickets
                ELSE [tickets EXCEPT ![t.ticket] =
                       [status |-> IF t.status = "content" THEN row.status ELSE t.status,
                        rev |-> row.rev + 1]]
  /\ Finish(w)
  /\ UNCHANGED <<dbMain, service, journals, requests, idem, candidate, events,
                 gitVars, clientVars>>

-----------------------------------------------------------------------------
(* What goes wrong. *)

\* The pinned connection of w drops; PostgreSQL releases its advisory lock.
\* w finds out at its next transaction.
LeaseLost ==
  /\ lease # NoWorker
  /\ faults < MaxFaults
  /\ faults' = faults + 1
  /\ lease' = NoWorker
  /\ UNCHANGED <<dbVars, gitVars, pc, task, op, facts, seen, recovered, permits,
                 sent, replies, started, gitFailed>>

TransactionStep == {"inspect", "prepare", "persist", "mark", "complete", "receive-check",
                    "validate-head", "apply", "r-persist", "r-mark", "r-complete",
                    "r-classify"}

\* transact finds the client broken, or revalidate fails: the operation fails.
TransactFails(w) ==
  /\ pc[w] \in TransactionStep
  /\ IF pc[w] \in RecoveryStep THEN lease # w ELSE ~Revalidate(w, op[w])
  /\ Fail(w)

WaitTimeout_Mutant(w) ==
  /\ pc[w] \in {"preflight", "admit", "r-lease"} /\ lease # NoWorker
  /\ Fail(w)

\* The permit queue and the advisory lock are waited for with a timeout.
WaitTimeout(w) ==
  /\ \/ pc[w] \in {"reserve", "r-reserve"} /\ ~PermitFree
     \/ pc[w] \in {"preflight", "admit", "r-lease"} /\ lease # NoWorker
  /\ Fail(w)

\* The client cancels, or PostgreSQL or Git is unavailable for a moment.
Interrupt(w) ==
  /\ pc[w] # "idle"
  /\ faults < MaxFaults
  /\ faults' = faults + 1
  /\ Finish(w)
  /\ UNCHANGED <<dbVars, gitVars, sent, replies, started, gitFailed>>

\* The Git steps of a recovery, and those of them that run update-ref.
RecoveryUpdate == {"r-update-ref", "r-reupdate-ref"}
RecoveryGit == {"r-materialize", "r-rematerialize", "r-settle", "r-resettle"}
                 \cup RecoveryUpdate

\* A Git child of a recovery fails: it is killed, exits in error, meets a lock or
\* the supervisor's close; an update-ref also when it times out. The repository
\* authority reports 'state-conflict', for which the recovery gives the journal up.
\* The update may have moved main before a later reading failed.
GitFails(w) ==
  /\ pc[w] \in RecoveryGit
  /\ faults < MaxFaults
  /\ faults' = faults + 1
  /\ gitFailed' = gitFailed \cup {op[w]}
  /\ \/ UNCHANGED gitMain
     \/ pc[w] \in RecoveryUpdate /\ gitMain' = CasMain(journals[op[w]])
  /\ Local(w, "r-classify")
  /\ UNCHANGED <<dbVars, refs, sent, replies, started>>

\* waitForRecovery is cancelled: the operation ends, its recovery goes on.
AbandonRecovery(w) ==
  /\ pc[w] \in RecoveryStep /\ task[w].kind # "recover"
  /\ faults < MaxFaults
  /\ faults' = faults + 1
  /\ task' = [task EXCEPT ![w] = RecoverTask]
  /\ permits' = permits \ {<<w, "operation">>}
  /\ UNCHANGED <<dbVars, gitVars, pc, op, facts, seen, recovered, lease,
                 sent, replies, started, gitFailed>>

\* The process dies. Both stores keep what they committed.
Crash ==
  /\ \E w \in Worker : pc[w] # "idle"
  /\ faults < MaxFaults
  /\ faults' = faults + 1
  /\ pc' = [w \in Worker |-> "idle"]
  /\ task' = [w \in Worker |-> NoTask]
  /\ op' = [w \in Worker |-> NoOp]
  /\ facts' = [w \in Worker |-> NoOid]
  /\ seen' = [w \in Worker |-> {}]
  /\ recovered' = {}
  /\ permits' = {}
  /\ lease' = NoWorker
  /\ UNCHANGED <<dbVars, gitVars, sent, replies, started, gitFailed>>

-----------------------------------------------------------------------------
\* A Project with no journal, whose personal refs and requests are given.
InitWith(personal, published) ==
  /\ dbMain = {} /\ gitMain = {}
  /\ service = "active"
  /\ journals = [o \in Op |-> NoJournal]
  /\ requests = published
  /\ tickets = [t \in Ticket |-> [status |-> "open", rev |-> 1]]
  /\ idem = [x \in Member \X Key |-> NoInput]
  /\ candidate = NoOp
  /\ events = {}
  /\ refs = personal
  /\ pc = [w \in Worker |-> "idle"]
  /\ task = [w \in Worker |-> NoTask]
  /\ op = [w \in Worker |-> NoOp]
  /\ facts = [w \in Worker |-> NoOid]
  /\ seen = [w \in Worker |-> {}]
  /\ recovered = {} /\ permits = {} /\ lease = NoWorker
  /\ sent = {} /\ replies = {} /\ started = 0 /\ faults = 0 /\ gitFailed = {}

\* A new Project: every ref is the root commit.
Init == InitWith([m \in Member |-> {}], [r \in Request |-> NoRequest])

ClientStart(w) == StartAccept(w) \/ StartPush(w) \/ StartEnsure(w) \/ StartEdit(w)
                    \/ StartTicket(w)

\* Steps of the running server that it takes without being asked again.
Progress(w) ==
  \/ Reserve(w) \/ Admit(w)
  \/ Inspect(w) \/ Prepare(w) \/ Materialize(w) \/ PersistResult(w)
  \/ SettleMain(w) \/ UpdateRef(w) \/ MarkMainUpdated(w) \/ Complete(w)
  \/ RecoverReserve(w) \/ RecoverLease(w) \/ Classify(w)
  \/ ReceiveCheck(w) \/ Receive(w) \/ ValidateHead(w)
  \/ ApplyEnsure(w) \/ ApplyEdit(w) \/ ApplyTicket(w)
  \/ TransactFails(w) \/ WaitTimeout(w)

Next ==
  \/ \E w \in Worker : \/ ClientStart(w) \/ StartRecovery(w) \/ Progress(w)
                       \/ Interrupt(w) \/ GitFails(w) \/ AbandonRecovery(w)
  \/ LeaseLost \/ Crash

Spec == Init /\ [][Next]_vars

\* The process runs every operation it started, its waits time out, and the
\* periodic reconciliation fires again and again.
Fairness == (\A w \in Worker : WF_vars(Progress(w))) /\ WF_vars(StartRecovery(Reconciler))

-----------------------------------------------------------------------------
(* Properties. *)

\* The journals that are not completed.
Unsettled == {o \in Op : journals[o] # NoJournal /\ journals[o].phase # "completed"}

TypeOK ==
  /\ dbMain \in Oid /\ gitMain \in Oid
  /\ service \in {"active", "recovery-required"}
  /\ journals \in [Op -> Journal \cup {NoJournal}]
  /\ requests \in [Request -> RequestRow \cup {NoRequest}]
  /\ tickets \in [Ticket -> TicketRow]
  /\ idem \in [Member \X Key -> [in: AcceptInput, result: Oid] \cup {NoInput}]
  /\ candidate \in Op \cup {NoOp}
  /\ events \subseteq [op: Op, main: Oid]
  /\ lease \in Worker \cup {NoWorker}
  /\ refs \in [Member -> Oid]
  /\ pc \in [Worker -> Step]
  /\ task \in [Worker -> Task]
  /\ op \in [Worker -> Op \cup {NoOp}]
  /\ facts \in [Worker -> {NoOid} \cup Oid]
  /\ seen \in [Worker -> SUBSET [Member -> Oid]]
  /\ recovered \subseteq Worker
  /\ permits \subseteq Worker \X {"operation", "recovery"}
  /\ sent \subseteq AcceptInput
  /\ replies \subseteq [in: AcceptInput, result: Oid]
  /\ started \in 0..MaxOps /\ faults \in 0..MaxFaults /\ gitFailed \subseteq Op

\* The Git main ref and projects.expected_main_oid agree, unless one journal
\* explains how they differ: it fenced the recorded main, its result is
\* persisted, and the ref is its result. A journal that claims to have moved
\* main has moved it. However operations are cut short, main is never a commit
\* that no journal accounts for.
MainAgreement ==
  /\ gitMain = dbMain
       \/ \E o \in Unsettled : /\ journals[o].in.main = dbMain
                                 /\ journals[o].result = gitMain
  /\ \A o \in Unsettled :
       \/ journals[o].phase = "main-updated"
       \/ journals[o].phase = "recovery-required" /\ journals[o].from = "main-updated"
       => gitMain = journals[o].result

\* A Project never has two unresolved Accept journals: getNonterminal would
\* find two rows and every later operation would fail.
SingleJournal == \A o, p \in Unsettled : o = p

\* New mutations cannot pass an unresolved journal: what it expects of its
\* request, its tickets' revisions, the recorded main and the personal ref stays true
\* until it settles, and after it was given up. While it is active the recovery
\* catalog names it, so that recovery always finds it again and can repeat its Git
\* steps; once given up, the Project is out of service and the catalog forgets it.
FencedByJournal ==
  \A o \in Unsettled :
    /\ dbMain = journals[o].in.main
    /\ ValidRequest(journals[o].in)
    /\ refs[journals[o].owner] = journals[o].in.head
    /\ journals[o].phase \in ActivePhase => service = "active" /\ candidate = o
    /\ journals[o].phase = "recovery-required" =>
         service = "recovery-required" /\ candidate # o

\* The Project is isolated with its journal, and a journal is given up for two
\* reasons only: a Git step of its recovery failed, or its completion met a resolving
\* ticket that was already closed. Cancellations, crashes, lost leases, timeouts of
\* a queue and racing writers never lead there.
IsolationExplained ==
  /\ service = "recovery-required" =>
       \E o \in Unsettled : journals[o].phase = "recovery-required"
  /\ \A o \in Unsettled : journals[o].phase = "recovery-required" =>
       \/ o \in gitFailed
       \/ /\ journals[o].from = "main-updated"
          /\ \E x \in journals[o].in.tix : tickets[x[1]].status = "closed"

\* An interrupted Accept can go on from its journal, or be settled by hand: nothing
\* passes it, and it is given up only over a failed Git step or a ticket that was
\* closed under it.
JournalFenced == TypeOK /\ FencedByJournal /\ IsolationExplained

\* An acceptRequest intent (actor and key) takes effect at most once, every
\* reply to it is the same, and what a reply or a merged request names is on
\* main, in Git as in PostgreSQL.
AcceptedOnce ==
  /\ \A o, p \in Op : /\ journals[o] # NoJournal /\ journals[p] # NoJournal
                      /\ journals[o].in.key = journals[p].in.key
                      /\ journals[o].in.actor = journals[p].in.actor
                      => o = p
  /\ \A x, y \in replies : x.in.key = y.in.key /\ x.in.actor = y.in.actor => x = y
  /\ \A x \in replies : x.result \subseteq gitMain /\ x.in.head \subseteq x.result
  /\ \A r \in Request : requests[r] # NoRequest /\ requests[r].status = "merged" =>
       requests[r].head \subseteq dbMain /\ requests[r].merged \subseteq gitMain

\* When complete runs for a journal whose main is updated, every resolving
\* ticket is still open at its recorded revision, as complete asserts.
CompletionClosesTickets ==
  \A w \in Worker : /\ pc[w] \in {"complete", "r-complete"} /\ lease = w
                     /\ journals[op[w]].phase = "main-updated"
                     => ResolvedTicketsOpen(op[w])

MainMove ==
  gitMain' # gitMain =>
    \E o \in Unsettled : /\ gitMain = journals[o].in.main
                         /\ gitMain' = journals[o].result
                         /\ gitMain \subseteq gitMain'

\* Main only grows, by one journaled result at a time.
MainMovesByJournal == [][MainMove]_vars

\* No operation hangs, not even an Accept whose recovery waits for the
\* capacity the Accept holds: the queue timeout ends it.
OperationsEnd == \A w \in Worker : (pc[w] # "idle") ~> (pc[w] = "idle")

\* Every interrupted Accept is eventually settled or isolated, so that its journal
\* does not fence the Project for ever, and every operation ends.
JournalSettles ==
  /\ \A o \in Op : (o \in Unsettled) ~> (o \notin Unsettled \/ service # "active")
  /\ OperationsEnd

-----------------------------------------------------------------------------
(* Accept is atomic to its observers. A merge takes effect when main contains *)
(* its commit, a contained Accept when its journal is past its main step.     *)

Effective(o) ==
  /\ journals[o] # NoJournal
  /\ IF journals[o].kind = "merge" THEN o \in gitMain
     ELSE "main-updated" \in {journals[o].phase, journals[o].from}
            \/ journals[o].phase = "completed"

Atomic == INSTANCE AtomicAccept WITH
  main <- gitMain,
  accepted <- {[in |-> journals[o].in, result |-> journals[o].result]
                 : o \in {x \in Op : Effective(x)}},
  replied <- replies

\* The journaled protocol implements the atomic Accept.
ImplementsAtomicAccept == Atomic!Spec
=============================================================================

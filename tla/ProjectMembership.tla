------------------------- MODULE ProjectMembership -------------------------
(***************************************************************************)
(* The members of one Project: invitations, join, removal, leave, the      *)
(* manager set with its responsibility offers, and the recovery of the     *)
(* three journaled operations.  A join creates the member's personal ref,  *)
(* a removal and a leave delete it.                                        *)
(*                                                                         *)
(* One action is one transaction or one Git command of a coordinator       *)
(* (src/src/project-authority/membership, lifecycle/leave); operations     *)
(* that are a single transaction under the Project's lease are one action. *)
(* A principal is identified with the Member it is bound to: a principal   *)
(* with a binding never prepares a second join.                            *)
(***************************************************************************)
EXTENDS Naturals, FiniteSets

CONSTANTS
  Member,         \* everybody who is or may become a member
  Founder,        \* members of the Project at the start
  FirstManager,   \* their first manager
  Invitation, Offer,
  Author,         \* bound: the members that push and open change requests
  Intent,         \* idempotency keys of joins, removals and leaves
  Worker,         \* callers and the recovery loop
  Reconciler,     \* the worker that runs recovery
  MaxMembers,     \* maxProjectMembers
  MaxPerProject,  \* maxChildrenPerProject: Git permits of one Project
  NoWorker, NoOffer, NoJournal, NoCall,
  MaxGeneration,  \* bound: manager set changes
  MaxFaults       \* bound: interrupts, lost leases, crashes

ASSUME MembershipAssumption ==
  /\ FirstManager \in Founder /\ Founder \subseteq Member
  /\ IsFiniteSet(Member) /\ IsFiniteSet(Invitation)
  /\ Author \subseteq Member
  /\ Reconciler \in Worker /\ NoWorker \notin Worker
  /\ NoOffer \notin Offer
  /\ MaxMembers \in Nat /\ Cardinality(Founder) <= MaxMembers
  /\ MaxPerProject \in Nat \ {0}
  /\ MaxGeneration \in Nat /\ MaxFaults \in Nat
  /\ Invitation \cap (Offer \cup {NoOffer}) = {}

VARIABLES
  members,      \* project_memberships: status, role, revision
  bindings,     \* project_principal_bindings.state
  generation,   \* projects.manager_set_generation
  invitations,  \* project_invitations.state, and whether expires_at has passed
  offers,       \* manager_responsibility_offers
  openRequests, \* members with an open change request
  journals,     \* join, removal and leave journals by intent
  candidates,   \* recovery_candidates
  refs,         \* personal refs in the bare repository
  lease,        \* holder of the Project's advisory lock
  permits,      \* workers that hold a Git permit
  pc,           \* position of each worker
  call,         \* the request it serves
  seen,         \* the journal phase it read last
  faults

rowVars == <<members, bindings, generation, openRequests>>
termVars == <<invitations, offers>>
procVars == <<lease, permits, pc, call, seen>>
vars == <<rowVars, termVars, journals, candidates, refs, procVars, faults>>

-----------------------------------------------------------------------------
\* Rows.

Status == {"none", "pending", "active", "left", "revoked"}
Oid == {"none", "base", "pushed"}

Active(m) == members[m].status = "active"
IsManager(m) == Active(m) /\ members[m].role = "manager"
IsPlainMember(m) == Active(m) /\ members[m].role = "member"

\* activeManagerCount > 1, seen from one of the managers.
OtherManager(m) == \E n \in Member \ {m} : IsManager(n)

\* The membership journals; one stays unresolved until it is completed.
Unresolved(i) == journals[i] # NoJournal /\ journals[i].phase # "completed"
\* Mutant of HasNonterminalMutation: a leave fences nothing.
HasNonterminalMutation_Mutant ==
  \E i \in Intent : Unresolved(i) /\ journals[i].req.kind # "leave"

HasNonterminalMutation == \E i \in Intent : Unresolved(i)

\* Seats taken or promised.
Seated == {m \in Member : members[m].status \in {"active", "pending"}}
JoinOf(v) == {i \in Intent : journals[i] # NoJournal /\ journals[i].req.kind = "join"
                               /\ journals[i].req.token = v}
PromisedBy(v) ==
  \/ invitations[v].state = "active"
  \/ /\ invitations[v].state = "redeeming"
     /\ ~ \E i \in JoinOf(v) :
            /\ journals[i].phase \in {"membership-pending", "personal-ref-created"}
            /\ members[journals[i].req.member].status = "pending"
Promised == {v \in Invitation : PromisedBy(v)}
ReservationCount == Cardinality(Seated) + Cardinality(Promised)

LiveOffer(o) == offers[o].state \in {"offered", "acknowledged"}

\* Mutant of ExpiredInvitations: an invitation that a join has reserved expires too.
ExpiredInvitations_Mutant ==
  [v \in Invitation |->
     IF invitations[v].state \in {"active", "redeeming"} /\ invitations[v].due
     THEN [invitations[v] EXCEPT !.state = "expired"] ELSE invitations[v]]

\* The clock is a flag on each row with a term: due once the term has passed.
ExpiredInvitations ==
  [v \in Invitation |->
     IF invitations[v].state = "active" /\ invitations[v].due
     THEN [invitations[v] EXCEPT !.state = "expired"] ELSE invitations[v]]
ExpiredOffers ==
  [o \in Offer |->
     IF LiveOffer(o) /\ offers[o].due
     THEN [offers[o] EXCEPT !.state = "expired"] ELSE offers[o]]

\* The live offers among S end as cancelled.
CancelOffers(current, S) ==
  [o \in Offer |->
     IF o \in S /\ current[o].state \in {"offered", "acknowledged"}
     THEN [current[o] EXCEPT !.state = "cancelled"] ELSE current[o]]

-----------------------------------------------------------------------------
\* Administration: a single transaction under a fresh lease, behind the write
\* admission, which lets nothing pass an unresolved journal.

Admitted == lease = NoWorker /\ ~HasNonterminalMutation

WithinQuota(count) == count < MaxMembers

\* expireInvitations, then the count, then the row; a refusal keeps the expiry.
CreateInvitation ==
  /\ Admitted /\ \E m \in Member : IsManager(m)
  /\ \E v \in Invitation :
       /\ invitations[v].state = "none"
       /\ LET expired == {x \in Invitation : invitations[x].state = "active"
                                               /\ invitations[x].due}
          IN invitations' =
               IF WithinQuota(ReservationCount - Cardinality(expired))
               THEN [ExpiredInvitations EXCEPT ![v].state = "active"]
               ELSE ExpiredInvitations
  /\ UNCHANGED <<rowVars, offers, journals, candidates, refs, procVars, faults>>

RevokeInvitation(v) ==
  /\ Admitted /\ \E m \in Member : IsManager(m)
  /\ invitations[v].state = "active" /\ ~invitations[v].due
  /\ invitations' = [ExpiredInvitations EXCEPT ![v].state = "revoked"]
  /\ UNCHANGED <<rowVars, offers, journals, candidates, refs, procVars, faults>>

\* A list, or a refused request, only settles the expired terms it meets.
ListInvitations ==
  /\ Admitted
  /\ invitations' = ExpiredInvitations
  /\ UNCHANGED <<rowVars, offers, journals, candidates, refs, procVars, faults>>
ListOffers ==
  /\ Admitted
  /\ offers' = ExpiredOffers
  /\ UNCHANGED <<rowVars, invitations, journals, candidates, refs, procVars, faults>>

\* Every change of the manager set supersedes the offers of its generation.
SupersededOffers(current) ==
  CancelOffers(current, {o \in Offer : current[o].generation = generation})

ApplyManagerRoleChange(t, role, current) ==
  /\ generation < MaxGeneration
  /\ generation' = generation + 1
  /\ members' = [members EXCEPT ![t].role = role, ![t].rev = @ + 1]
  /\ offers' = SupersededOffers(current)
  /\ UNCHANGED <<bindings, openRequests, invitations, journals, candidates, refs,
                 procVars, faults>>

PromoteManager(m, t) ==
  /\ Admitted /\ IsManager(m) /\ IsPlainMember(t)
  /\ ApplyManagerRoleChange(t, "manager", ExpiredOffers)

NotFinalManager(m, t) == m # t /\ IsManager(t) /\ OtherManager(t)

DemoteManager(m, t) ==
  /\ Admitted /\ IsManager(m) /\ NotFinalManager(m, t)
  /\ ApplyManagerRoleChange(t, "member", offers)

ConflictingOffer(current, m, t) ==
  \E o \in Offer : /\ current[o].state \in {"offered", "acknowledged"}
                   /\ (current[o].source = m \/ current[o].target = t)

CreateOffer(m, t) ==
  /\ Admitted /\ IsManager(m) /\ IsPlainMember(t)
  /\ ~ConflictingOffer(ExpiredOffers, m, t)
  /\ \E o \in Offer, purpose \in {"manager-leave", "manager-promotion"} :
       /\ offers[o].state = "none"
       /\ offers' = [ExpiredOffers EXCEPT ![o] =
            [state |-> "offered", source |-> m, target |-> t, purpose |-> purpose,
             generation |-> generation, targetRev |-> members[t].rev, due |-> FALSE]]
  /\ UNCHANGED <<rowVars, invitations, journals, candidates, refs, procVars, faults>>

\* The target acknowledges or declines, the source cancels.
TransitionOffer(m, o) ==
  /\ Admitted /\ Active(m) /\ LiveOffer(o) /\ ~offers[o].due
  /\ \E next \in {"acknowledged", "declined", "cancelled"} :
       /\ IF next = "cancelled"
          THEN IsManager(m) /\ offers[o].source = m
          ELSE offers[o].target = m /\ offers[o].state = "offered"
       /\ offers' = [ExpiredOffers EXCEPT ![o].state = next]
  /\ UNCHANGED <<rowVars, invitations, journals, candidates, refs, procVars, faults>>

-----------------------------------------------------------------------------
\* Work of other components that the journals fence: a member opens a request,
\* and pushes to its own ref with a Git permit.

EnsureRequest(m) ==
  /\ Admitted /\ Active(m) /\ refs[m] = "pushed"
  /\ openRequests' = openRequests \cup {m}
  /\ UNCHANGED <<members, bindings, generation, termVars, journals, candidates, refs,
                 procVars, faults>>

PermitFree == Cardinality(permits) < MaxPerProject

Push(m) ==
  /\ Admitted /\ PermitFree /\ Active(m) /\ refs[m] = "base"
  /\ refs' = [refs EXCEPT ![m] = "pushed"]
  /\ UNCHANGED <<rowVars, termVars, journals, candidates, procVars, faults>>

-----------------------------------------------------------------------------
\* A journaled call: Git permit, then lease, then the journal of its intent.

\* What clients send.  A retry of an intent repeats its first request.
Kind == {"join", "remove", "leave"}
Requests(i) ==
  IF journals[i] # NoJournal THEN {journals[i].req}
  ELSE {[intent |-> i, kind |-> "join", actor |-> m, member |-> m, token |-> v,
         gen |-> 0, rev |-> 0] :
          m \in {n \in Member : bindings[n] = "none"},
          v \in {x \in Invitation : invitations[x].state # "none"}}
       \cup {[intent |-> i, kind |-> "remove", actor |-> p[1], member |-> p[2],
              token |-> NoOffer, gen |-> generation, rev |-> members[p[2]].rev] :
               p \in {q \in Member \X Member : q[1] # q[2] /\ IsManager(q[1])
                                                 /\ Active(q[2])}}
       \cup {[intent |-> i, kind |-> "leave", actor |-> p[1], member |-> p[1],
              token |-> p[2], gen |-> generation, rev |-> members[p[1]].rev] :
               p \in {q \in Member \X (Offer \cup {NoOffer}) :
                        Active(q[1]) /\ (q[2] # NoOffer => offers[q[2]].source = q[1])}}

\* join(), remove() and leave() begin once they have a Git permit: until then they have
\* read nothing.
Start(w) ==
  /\ w # Reconciler /\ pc[w] = "idle" /\ PermitFree
  /\ \E i \in Intent : \E r \in Requests(i) : call' = [call EXCEPT ![w] = r]
  /\ permits' = permits \cup {w}
  /\ pc' = [pc EXCEPT ![w] = "lane"]
  /\ UNCHANGED <<rowVars, termVars, journals, candidates, refs, lease, seen, faults>>

\* The recovery pass, or a write that meets the journal, begins to recover.
StartRecovery(w) ==
  /\ w = Reconciler /\ pc[w] = "idle" /\ candidates # {} /\ PermitFree
  /\ permits' = permits \cup {w}
  /\ pc' = [pc EXCEPT ![w] = "lane"]
  /\ UNCHANGED <<rowVars, termVars, journals, candidates, refs, lease, call, seen, faults>>

AcquireLease(w) ==
  /\ pc[w] = "lane" /\ lease = NoWorker
  /\ lease' = w
  /\ pc' = [pc EXCEPT ![w] = "find"]
  /\ UNCHANGED <<rowVars, termVars, journals, candidates, refs, permits, call, seen, faults>>

\* The finally blocks: lease, then permit.
Release(w) ==
  /\ lease' = IF lease = w THEN NoWorker ELSE lease
  /\ permits' = permits \ {w}
  /\ pc' = [pc EXCEPT ![w] = "idle"]
  /\ call' = [call EXCEPT ![w] = NoCall]
  /\ seen' = [seen EXCEPT ![w] = "none"]

\* The Git command that comes before the transaction of a phase.
GitBefore(kind, phase) ==
  CASE kind = "join" /\ phase = "membership-pending" -> "create"
    [] kind # "join" /\ phase = "prepared" -> "verify"
    [] kind # "join" /\ phase \in {"membership-revoked", "membership-left"} -> "delete"
    [] OTHER -> "commit"

\* A worker goes on from the phase it has just read.
GoOn(w, kind, phase) ==
  /\ pc' = [pc EXCEPT ![w] = GitBefore(kind, phase)]
  /\ seen' = [seen EXCEPT ![w] = phase]

-----------------------------------------------------------------------------
\* Finding or preparing the journal.  The reads before a preparation are in its
\* lane, so they are one step with its transaction.

Finding(w) == pc[w] = "find" /\ lease = w

\* remove() asks for an active binding before it looks for the journal.
MayReplay(r) == r.kind = "remove" => bindings[r.actor] = "active"
Settled(phase) == phase \in {"completed", "recovery-required"}

Replays(w) ==
  /\ Finding(w) /\ w # Reconciler
  /\ LET i == call[w].intent IN
       /\ journals[i] # NoJournal /\ ~Settled(journals[i].phase)
       /\ journals[i].req = call[w] /\ MayReplay(call[w])
Replay(w) ==
  /\ Replays(w)
  /\ GoOn(w, call[w].kind, journals[call[w].intent].phase)
  /\ UNCHANGED <<rowVars, termVars, journals, candidates, refs, lease, permits, call, faults>>

Recoverable == {i \in Intent : journals[i] # NoJournal /\ ~Settled(journals[i].phase)}
Recover(w) ==
  /\ Finding(w) /\ w = Reconciler
  /\ \E i \in Recoverable :
       /\ call' = [call EXCEPT ![w] = journals[i].req]
       /\ GoOn(w, journals[i].req.kind, journals[i].phase)
  /\ UNCHANGED <<rowVars, termVars, journals, candidates, refs, lease, permits, faults>>

Fresh(w) ==
  /\ Finding(w) /\ w # Reconciler
  /\ journals[call[w].intent] = NoJournal /\ ~HasNonterminalMutation

\* Mutant of Prepared: recovery is not told.
Prepared_Mutant(w, oid) ==
  /\ journals' = [journals EXCEPT ![call[w].intent] =
                    [req |-> call[w], phase |-> "prepared", oid |-> oid]]
  /\ UNCHANGED candidates
  /\ GoOn(w, call[w].kind, "prepared")

Prepared(w, oid) ==
  /\ journals' = [journals EXCEPT ![call[w].intent] =
                    [req |-> call[w], phase |-> "prepared", oid |-> oid]]
  /\ candidates' = candidates \cup {call[w].intent}
  /\ GoOn(w, call[w].kind, "prepared")

\* prepareJoin: findInvitationForJoin expires first; the invitation is reserved.
JoinAdmitted(r) ==
  /\ bindings[r.member] = "none"
  /\ invitations[r.token].state = "active" /\ ~invitations[r.token].due

PrepareJoin(w) ==
  /\ Fresh(w) /\ call[w].kind = "join" /\ JoinAdmitted(call[w])
  /\ invitations' = [ExpiredInvitations EXCEPT ![call[w].token].state = "redeeming"]
  /\ Prepared(w, "base")
  /\ UNCHANGED <<rowVars, offers, refs, lease, permits, call, faults>>

\* admitRemoval, and the same facts again when the removal settles.
RemovalAccepted(r) ==
  /\ IsManager(r.actor) /\ r.actor # r.member
  /\ Active(r.member) /\ members[r.member].rev = r.rev /\ generation = r.gen
  /\ IsManager(r.member) => OtherManager(r.member)

PrepareRemoval(w) ==
  /\ Fresh(w) /\ call[w].kind = "remove"
  /\ bindings[call[w].actor] = "active" /\ RemovalAccepted(call[w])
  /\ Prepared(w, refs[call[w].member])
  /\ UNCHANGED <<rowVars, termVars, refs, lease, permits, call, faults>>

\* decideLeaveSuccession: only the last manager needs a successor, and needs one
\* that acknowledged an offer which still describes both of them.
NeedsSuccessor(m) == IsManager(m) /\ ~OtherManager(m)
SuccessorOffered(current, r) ==
  /\ r.token # NoOffer
  /\ LET f == current[r.token] IN
       /\ f.state = "acknowledged" /\ f.source = r.member /\ f.purpose = "manager-leave"
       /\ f.generation = r.gen
       /\ IsPlainMember(f.target) /\ members[f.target].rev = f.targetRev

\* Mutant of SuccessionAccepted: the last manager may go without a successor.
SuccessionAccepted_Mutant(current, r) == r.token = NoOffer \/ SuccessorOffered(current, r)

SuccessionAccepted(current, r) ==
  IF NeedsSuccessor(r.member) THEN SuccessorOffered(current, r) ELSE r.token = NoOffer

LeaveAccepted(current, r) ==
  /\ Active(r.member) /\ members[r.member].rev = r.rev /\ generation = r.gen
  /\ SuccessionAccepted(current, r)

\* The offer is read after the offers whose term has passed were expired.
OffersRead(r) == IF NeedsSuccessor(r.member) THEN ExpiredOffers ELSE offers

PrepareLeave(w) ==
  /\ Fresh(w) /\ call[w].kind = "leave"
  /\ bindings[call[w].actor] = "active"
  /\ LeaveAccepted(OffersRead(call[w]), call[w])
  /\ offers' = OffersRead(call[w])
  /\ Prepared(w, refs[call[w].member])
  /\ UNCHANGED <<rowVars, invitations, refs, lease, permits, call, faults>>

\* Every other outcome of the search: a refusal, a stored answer, nothing to recover.
\* A refused join has already expired the invitations whose term has passed.
Prepares(w) ==
  /\ Fresh(w)
  /\ LET r == call[w] IN
       \/ r.kind = "join" /\ JoinAdmitted(r)
       \/ r.kind = "remove" /\ bindings[r.actor] = "active" /\ RemovalAccepted(r)
       \/ /\ r.kind = "leave" /\ bindings[r.actor] = "active"
          /\ LeaveAccepted(OffersRead(r), r)

Refuse(w) ==
  /\ Finding(w)
  /\ IF w = Reconciler THEN Recoverable = {} ELSE ~Replays(w) /\ ~Prepares(w)
  /\ invitations' = IF w # Reconciler /\ Fresh(w) /\ call[w].kind = "join"
                    THEN ExpiredInvitations ELSE invitations
  /\ Release(w)
  /\ UNCHANGED <<rowVars, offers, journals, candidates, refs, faults>>

-----------------------------------------------------------------------------
\* Git commands.  They hold the permit; nothing checks that the lease is still held.

Journal(w) == journals[call[w].intent]
Done(w) == pc' = [pc EXCEPT ![w] = "commit"]

CreateRef(w) ==
  /\ pc[w] = "create"
  /\ LET m == call[w].member IN
       refs' = [refs EXCEPT ![m] = IF @ = "none" THEN "base" ELSE @]
  /\ Done(w)
  /\ UNCHANGED <<rowVars, termVars, journals, candidates, lease, permits, call, seen, faults>>

VerifyRef(w) ==
  /\ pc[w] = "verify" /\ refs[call[w].member] = Journal(w).oid
  /\ Done(w)
  /\ UNCHANGED <<rowVars, termVars, journals, candidates, refs, lease, permits, call,
                 seen, faults>>

DeleteRef(w) ==
  /\ pc[w] = "delete" /\ refs[call[w].member] \in {"none", Journal(w).oid}
  /\ refs' = [refs EXCEPT ![call[w].member] = "none"]
  /\ Done(w)
  /\ UNCHANGED <<rowVars, termVars, journals, candidates, lease, permits, call, seen, faults>>

-----------------------------------------------------------------------------
\* Transactions.  Each needs the lease and the phase it expects.

Committing(w, kind, phase) ==
  /\ pc[w] = "commit" /\ lease = w
  /\ call[w].kind \in kind /\ seen[w] \in phase /\ Journal(w).phase = seen[w]

Advance(w, next) ==
  /\ journals' = [journals EXCEPT ![call[w].intent].phase = next]
  /\ GoOn(w, call[w].kind, next)
  /\ UNCHANGED <<lease, permits, call>>

\* advanceJoin inserts the pending member with its binding.
InsertPendingMember(w) ==
  /\ Committing(w, {"join"}, {"prepared"})
  /\ LET m == call[w].member IN
       /\ members' = [members EXCEPT ![m] = [status |-> "pending", role |-> "member", rev |-> 1]]
       /\ bindings' = [bindings EXCEPT ![m] = "pending"]
  /\ Advance(w, "membership-pending")
  /\ UNCHANGED <<generation, openRequests, termVars, candidates, refs, faults>>

RecordRefCreated(w) ==
  /\ Committing(w, {"join"}, {"membership-pending"})
  /\ Advance(w, "personal-ref-created")
  /\ UNCHANGED <<rowVars, termVars, candidates, refs, faults>>

ActivateJoin(w) ==
  /\ Committing(w, {"join"}, {"personal-ref-created"})
  /\ LET m == call[w].member IN
       /\ members[m].status = "pending" /\ bindings[m] = "pending"
       /\ invitations[call[w].token].state = "redeeming"
       /\ members' = [members EXCEPT ![m].status = "active", ![m].rev = 2]
       /\ bindings' = [bindings EXCEPT ![m] = "active"]
       /\ invitations' = [invitations EXCEPT ![call[w].token].state = "redeemed"]
  /\ Advance(w, "membership-active")
  /\ UNCHANGED <<generation, openRequests, offers, candidates, refs, faults>>

\* applyMemberExit: member, binding, request and offers go in one transaction.  An
\* exiting manager moves the generation on; a successor consumes its offer.
OffersAfterExit(m, consumed) ==
  LET current == IF consumed = NoOffer THEN offers
                 ELSE [offers EXCEPT ![consumed].state = "consumed"]
  IN CancelOffers(current, {o \in Offer :
       \/ current[o].source = m \/ current[o].target = m
       \/ IsManager(m) /\ current[o].generation = generation})

ApplyMemberExit(m, status, consumed) ==
  LET heir == IF consumed = NoOffer THEN {} ELSE {offers[consumed].target} IN
  /\ members' = [n \in Member |->
       IF n = m THEN [members[n] EXCEPT !.status = status, !.rev = @ + 1]
       ELSE IF n \in heir THEN [members[n] EXCEPT !.role = "manager", !.rev = @ + 1]
       ELSE members[n]]
  /\ bindings' = [bindings EXCEPT ![m] = "revoked"]
  /\ generation' = IF IsManager(m) THEN generation + 1 ELSE generation
  /\ openRequests' = openRequests \ {m}
  /\ offers' = OffersAfterExit(m, consumed)

SettleRemoval(w) ==
  /\ Committing(w, {"remove"}, {"prepared"}) /\ RemovalAccepted(call[w])
  /\ ApplyMemberExit(call[w].member, "revoked", NoOffer)
  /\ Advance(w, "membership-revoked")
  /\ UNCHANGED <<invitations, candidates, refs, faults>>

\* leftAt is the time of the preparation: no offer expires in this transaction.
SettleLeave(w) ==
  /\ Committing(w, {"leave"}, {"prepared"}) /\ LeaveAccepted(offers, call[w])
  /\ ApplyMemberExit(call[w].member, "left", call[w].token)
  /\ Advance(w, "membership-left")
  /\ UNCHANGED <<invitations, candidates, refs, faults>>

RecordRefRemoved(w) ==
  /\ Committing(w, {"remove", "leave"}, {"membership-revoked", "membership-left"})
  /\ Advance(w, "personal-ref-removed")
  /\ UNCHANGED <<rowVars, termVars, candidates, refs, faults>>

Complete(w) ==
  /\ Committing(w, Kind, {"membership-active", "personal-ref-removed"})
  /\ journals' = [journals EXCEPT ![call[w].intent].phase = "completed"]
  /\ candidates' = candidates \ {call[w].intent}
  /\ Release(w)
  /\ UNCHANGED <<rowVars, termVars, refs, faults>>

\* A step that fails ends the call and leaves the journal where it is: the lease is
\* gone, a settlement finds its facts changed, or a ref is not the expected one.  A
\* leave that cannot delete its ref marks its journal, which no call takes up again.
Unsettleable(w) ==
  /\ Committing(w, {"remove", "leave"}, {"prepared"})
  /\ IF call[w].kind = "remove" THEN ~RemovalAccepted(call[w])
                                ELSE ~LeaveAccepted(offers, call[w])
WrongRef(w) ==
  \/ pc[w] = "verify" /\ refs[call[w].member] # Journal(w).oid
  \/ pc[w] = "delete" /\ refs[call[w].member] \notin {"none", Journal(w).oid}

DeletesLeft(w) == pc[w] = "delete" /\ seen[w] = "membership-left" /\ lease = w
MarkLeave(w) == journals' = [journals EXCEPT ![call[w].intent].phase = "recovery-required"]

Fail(w) ==
  /\ \/ pc[w] \in {"find", "commit"} /\ lease # w
     \/ Unsettleable(w)
     \/ WrongRef(w)
  /\ IF WrongRef(w) /\ DeletesLeft(w) THEN MarkLeave(w) ELSE UNCHANGED journals
  /\ Release(w)
  /\ UNCHANGED <<rowVars, termVars, candidates, refs, faults>>

-----------------------------------------------------------------------------
\* Time and faults.

TermPasses ==
  /\ \/ /\ \E v \in Invitation :
             /\ invitations[v].state \in {"active", "redeeming"} /\ ~invitations[v].due
             /\ invitations' = [invitations EXCEPT ![v].due = TRUE]
        /\ UNCHANGED offers
     \/ /\ \E o \in Offer : LiveOffer(o) /\ ~offers[o].due
                              /\ offers' = [offers EXCEPT ![o].due = TRUE]
        /\ UNCHANGED invitations
  /\ UNCHANGED <<rowVars, journals, candidates, refs, procVars, faults>>

\* ProjectMembershipExpiryReconciler: under the lease, whatever the journals say.
ReconcileExpirations ==
  /\ lease = NoWorker
  /\ invitations' = ExpiredInvitations /\ offers' = ExpiredOffers
  /\ UNCHANGED <<rowVars, journals, candidates, refs, procVars, faults>>

Fault == faults < MaxFaults /\ faults' = faults + 1

\* A timeout, a cancelled request or a failed transaction.
Interrupt(w) ==
  /\ pc[w] # "idle" /\ Fault
  /\ Release(w)
  /\ UNCHANGED <<rowVars, termVars, journals, candidates, refs>>

\* A Git child of a leave's deletion is killed, exits in error or cannot run: mapGit calls
\* that 'repository-invalid' too, and the leave marks its journal.  The ref may be gone.
GitFails(w) ==
  /\ DeletesLeft(w) /\ Fault
  /\ \/ UNCHANGED refs
     \/ ~WrongRef(w) /\ refs' = [refs EXCEPT ![call[w].member] = "none"]
  /\ MarkLeave(w) /\ Release(w)
  /\ UNCHANGED <<rowVars, termVars, candidates>>

\* PostgreSQL drops the pinned connection.
LeaseLost ==
  /\ lease # NoWorker /\ Fault
  /\ lease' = NoWorker
  /\ UNCHANGED <<rowVars, termVars, journals, candidates, refs, permits, pc, call, seen>>

Crash ==
  /\ Fault
  /\ lease' = NoWorker /\ permits' = {}
  /\ pc' = [w \in Worker |-> "idle"] /\ call' = [w \in Worker |-> NoCall]
  /\ seen' = [w \in Worker |-> "none"]
  /\ UNCHANGED <<rowVars, termVars, journals, candidates, refs>>

-----------------------------------------------------------------------------
Init ==
  /\ members = [m \in Member |->
       [status |-> IF m \in Founder THEN "active" ELSE "none",
        role |-> IF m = FirstManager THEN "manager" ELSE "member",
        rev |-> IF m \in Founder THEN 1 ELSE 0]]
  /\ bindings = [m \in Member |-> IF m \in Founder THEN "active" ELSE "none"]
  /\ generation = 1
  /\ invitations = [v \in Invitation |-> [state |-> "none", due |-> FALSE]]
  /\ offers = [o \in Offer |->
       [state |-> "none", source |-> FirstManager, target |-> FirstManager,
        purpose |-> "manager-leave", generation |-> 0, targetRev |-> 0, due |-> FALSE]]
  /\ openRequests = {}
  /\ journals = [i \in Intent |-> NoJournal]
  /\ candidates = {}
  /\ refs = [m \in Member |-> IF m \in Founder THEN "base" ELSE "none"]
  /\ lease = NoWorker /\ permits = {}
  /\ pc = [w \in Worker |-> "idle"]
  /\ call = [w \in Worker |-> NoCall]
  /\ seen = [w \in Worker |-> "none"]
  /\ faults = 0

Administration ==
  \/ CreateInvitation \/ ListInvitations \/ ListOffers
  \/ \E v \in Invitation : RevokeInvitation(v)
  \/ \E m, t \in Member : PromoteManager(m, t) \/ DemoteManager(m, t) \/ CreateOffer(m, t)
  \/ \E m \in Member : \E o \in Offer : TransitionOffer(m, o)
  \/ \E m \in Author : EnsureRequest(m) \/ Push(m)

Step(w) ==
  \/ StartRecovery(w) \/ AcquireLease(w)
  \/ Replay(w) \/ Recover(w) \/ PrepareJoin(w) \/ PrepareRemoval(w) \/ PrepareLeave(w)
  \/ Refuse(w)
  \/ CreateRef(w) \/ VerifyRef(w) \/ DeleteRef(w)
  \/ InsertPendingMember(w) \/ RecordRefCreated(w) \/ ActivateJoin(w)
  \/ SettleRemoval(w) \/ SettleLeave(w) \/ RecordRefRemoved(w) \/ Complete(w)
  \/ Fail(w)

Next ==
  \/ Administration
  \/ \E w \in Worker : Start(w) \/ Step(w) \/ Interrupt(w) \/ GitFails(w)
  \/ TermPasses \/ ReconcileExpirations \/ LeaseLost \/ Crash

Spec == Init /\ [][Next]_vars

\* The queue of permits and the advisory lock are first come, first served, and the
\* recovery pass runs every minute.
Fairness ==
  \A w \in Worker : SF_vars(StartRecovery(w) \/ AcquireLease(w)) /\ WF_vars(Step(w))
FairSpec == Spec /\ Fairness

-----------------------------------------------------------------------------
\* Properties.

Phase == {"none", "prepared", "membership-pending", "personal-ref-created",
          "membership-active", "membership-revoked", "membership-left",
          "personal-ref-removed", "completed", "recovery-required"}
RequestType ==
  [intent : Intent, kind : Kind, actor : Member, member : Member,
   token : Invitation \cup Offer \cup {NoOffer}, gen : Nat, rev : Nat]
JournalType == [req : RequestType, phase : Phase \ {"none"}, oid : Oid]

ASSUME NoRowAssumption == NoJournal \notin JournalType /\ NoCall \notin RequestType

TypeOK ==
  /\ members \in [Member -> [status : Status, role : {"manager", "member"}, rev : Nat]]
  /\ bindings \in [Member -> {"none", "pending", "active", "revoked"}]
  /\ generation \in Nat
  /\ invitations \in [Invitation -> [state : {"none", "active", "redeeming", "redeemed",
                                              "revoked", "expired"}, due : BOOLEAN]]
  /\ offers \in [Offer -> [state : {"none", "offered", "acknowledged", "declined",
                                    "cancelled", "consumed", "expired"},
                           source : Member, target : Member,
                           purpose : {"manager-leave", "manager-promotion"},
                           generation : Nat, targetRev : Nat, due : BOOLEAN]]
  /\ openRequests \subseteq Member
  /\ journals \in [Intent -> JournalType \cup {NoJournal}]
  /\ candidates \subseteq Intent
  /\ refs \in [Member -> Oid]
  /\ lease \in Worker \cup {NoWorker}
  /\ permits \subseteq Worker /\ Cardinality(permits) <= MaxPerProject
  /\ pc \in [Worker -> {"idle", "lane", "find", "create", "verify", "delete",
                        "commit"}]
  /\ call \in [Worker -> RequestType \cup {NoCall}]
  /\ seen \in [Worker -> Phase]
  /\ faults \in 0 .. MaxFaults

\* A Project never loses its last active manager, whichever of promotion, demotion,
\* removal, leave and recovery come together.
AlwaysManaged == \E m \in Member : IsManager(m)

\* Seats are promised when an invitation is issued and taken when it is redeemed; no
\* order of the two, no crash between them and no expiry counts one twice or loses one.
SeatsBounded == ReservationCount <= MaxMembers

\* No seat is lost or given twice, and an invitation admits one member: it is reserved by
\* one join from its preparation on, neither expiry nor revocation takes it away, and it is
\* redeemed with the activation.
InvitationTracksJoin ==
  /\ TypeOK /\ SeatsBounded
  /\ \A v \in Invitation :
       /\ Cardinality(JoinOf(v)) <= 1
       /\ (invitations[v].state = "redeeming") <=>
            \E i \in JoinOf(v) : journals[i].phase \in
              {"prepared", "membership-pending", "personal-ref-created"}
       /\ (invitations[v].state = "redeemed") <=>
            \E i \in JoinOf(v) : journals[i].phase \in {"membership-active", "completed"}

\* The stores follow the membership: an active member has its ref; whoever is out of the
\* Project has no ref, no live binding and no open request. Only the journal that will
\* create or delete a ref, while it is unresolved, may hold the ref in between.
StoresFollowMembership ==
  \A m \in Member :
    LET resolving == \E i \in Intent : Unresolved(i) /\ journals[i].req.member = m IN
    /\ Active(m) => refs[m] # "none" /\ bindings[m] = "active"
    /\ ~Active(m) /\ ~resolving => refs[m] = "none"
    /\ members[m].status \in {"left", "revoked"} =>
         bindings[m] = "revoked" /\ m \notin openRequests

\* Invitations, members, bindings and refs say the same of who is in the Project, although
\* a join and an exit write PostgreSQL and Git in several transactions.
RowsFollowMembership == InvitationTracksJoin /\ StoresFollowMembership

\* A live offer describes the Project as it is: its source is a manager, its target a
\* plain member at the offered revision, and nobody gives or gets two.
OffersCurrent ==
  \A o \in Offer : LiveOffer(o) =>
    /\ IsManager(offers[o].source) /\ IsPlainMember(offers[o].target)
    /\ offers[o].generation = generation
    /\ members[offers[o].target].rev = offers[o].targetRev
    /\ \A p \in Offer \ {o} : LiveOffer(p) =>
         offers[p].source # offers[o].source /\ offers[p].target # offers[o].target

\* The leave of a last manager whose offer was expired after the leave was prepared:
\* the reconciler does not look at journals, and the settlement then finds no successor.
Stranded(i) ==
  /\ journals[i].req.kind = "leave" /\ journals[i].phase = "prepared"
  /\ journals[i].req.token # NoOffer /\ offers[journals[i].req.token].state = "expired"

\* What a removal or a leave was prepared for still holds when it settles, however late:
\* administration, joins and expiry leave it alone until then. The one exception is Stranded.
\* Offers, on which a leave may rest, stay current all the while.
PreparedExitsSettle ==
  /\ OffersCurrent
  /\ \A i \in Intent : journals[i] # NoJournal /\ journals[i].phase = "prepared" =>
       LET r == journals[i].req IN
       /\ r.kind = "remove" => RemovalAccepted(r)
       /\ r.kind = "leave" => LeaveAccepted(offers, r) \/ Stranded(i)

\* A leave that was marked when Git failed under its deletion: no call and no recovery takes
\* it up again and it fences the Project, but what is left to do by hand is what its journal
\* says: the ref is still the expected one, or gone.
GivenUp(i) ==
  /\ journals[i].phase = "recovery-required"
  /\ refs[journals[i].req.member] \in {"none", journals[i].oid}

\* Every journal is completed by its caller or by recovery, unless it is Stranded or GivenUp.
MembershipSettles ==
  \A i \in Intent : Unresolved(i) ~> (~Unresolved(i) \/ Stranded(i) \/ GivenUp(i))
=============================================================================

----------------------- MODULE ProjectMembership_proof -----------------------
(***************************************************************************)
(* Theorems about the members of a Project, for every set of Members,      *)
(* invitations, offers, intents and workers, any quota and any number of   *)
(* changes of the manager set, interrupts, lost leases and crashes.        *)
(***************************************************************************)
EXTENDS ProjectMembership, FiniteSetTheorems, TLAPS

-----------------------------------------------------------------------------
(* The inductive invariant. *)

JoinOpen    == {"prepared", "membership-pending", "personal-ref-created"}
JoinPhase   == JoinOpen \cup {"membership-active", "completed"}
RemovePhase == {"prepared", "membership-revoked", "personal-ref-removed", "completed"}
LeavePhase  == {"prepared", "membership-left", "personal-ref-removed", "completed",
                "recovery-required"}
ExitDone    == {"membership-revoked", "membership-left", "personal-ref-removed",
                "recovery-required"}

\* What a request is, from the client or from its journal.
Asked(r) ==
  /\ r \in RequestType
  /\ r.kind = "join" => r.token \in Invitation
  /\ r.kind = "leave" => r.token \in Offer \cup {NoOffer}

\* A journal keeps its request, and each kind of operation has its own phases.
JournalFits(i) ==
  LET r == journals[i].req
      phase == journals[i].phase
  IN /\ r.intent = i /\ Asked(r)
     /\ r.kind = "join" => phase \in JoinPhase
     /\ r.kind = "remove" => phase \in RemovePhase
     /\ r.kind = "leave" => phase \in LeavePhase

\* A worker works on the journal of its request, and whoever holds the lease knows the
\* journal's phase.
WorkStep == {"create", "verify", "delete", "commit"}
WorkerInv(w) ==
  /\ pc[w] \in {"lane", "find"} /\ w # Reconciler => Asked(call[w])
  /\ pc[w] \in WorkStep =>
       /\ call[w] \in RequestType /\ journals[call[w].intent] # NoJournal
       /\ journals[call[w].intent].req = call[w]
       /\ lease = w => seen[w] = Journal(w).phase

ControlInv ==
  /\ \A i \in Intent : journals[i] # NoJournal => JournalFits(i)
  /\ \A i, j \in Intent : Unresolved(i) /\ Unresolved(j) => i = j
  /\ \A w \in Worker : WorkerInv(w)
  /\ IsFiniteSet(permits)

\* A binding says the same as its member's row.
BindingInv ==
  \A m \in Member :
    /\ members[m].status = "none" <=> bindings[m] = "none"
    /\ members[m].status = "pending" <=> bindings[m] = "pending"
    /\ members[m].status = "active" <=> bindings[m] = "active"

\* What an unresolved journal has done to its member, and what it was prepared for.
JournalFacts(i) ==
  LET r == journals[i].req
      phase == journals[i].phase
  IN /\ r.kind = "join" =>
          /\ phase = "prepared" => members[r.member].status = "none"
          /\ phase \in {"membership-pending", "personal-ref-created"} =>
               members[r.member].status = "pending"
          /\ phase = "membership-active" => members[r.member].status = "active"
     /\ r.kind # "join" /\ phase \in ExitDone =>
          members[r.member].status \in {"left", "revoked"}
     /\ r.kind = "remove" /\ phase = "prepared" => RemovalAccepted(r)
     /\ r.kind = "leave" /\ phase = "prepared" => LeaveAccepted(offers, r) \/ Stranded(i)

RowInv ==
  /\ BindingInv /\ OffersCurrent /\ AlwaysManaged
  /\ \A i \in Intent : Unresolved(i) => JournalFacts(i)

\* An invitation is reserved by one join, and redeemed by it.
ReservedInv ==
  \A v \in Invitation :
    /\ \A i, j \in JoinOf(v) : i = j
    /\ (invitations[v].state = "redeeming") <=>
         \E i \in JoinOf(v) : journals[i].phase \in JoinOpen
    /\ (invitations[v].state = "redeemed") <=>
         \E i \in JoinOf(v) : journals[i].phase \in {"membership-active", "completed"}

IInv == TypeOK /\ ControlInv /\ RowInv /\ ReservedInv /\ SeatsBounded

\* With one Git permit for the Project one worker at a time is under way: the refs follow.
RefFacts(i) ==
  LET m == journals[i].req.member
      phase == journals[i].phase
  IN /\ phase = "personal-ref-created" => refs[m] # "none"
     /\ phase = "personal-ref-removed" => refs[m] = "none"

RefWorker(w) ==
  pc[w] \in WorkStep =>
    /\ seen[w] = Journal(w).phase
    /\ pc[w] \in {GitBefore(call[w].kind, seen[w]), "commit"}
    /\ pc[w] = "commit" /\ seen[w] = "membership-pending" => refs[call[w].member] # "none"
    /\ pc[w] = "commit" /\ seen[w] \in {"membership-revoked", "membership-left"} =>
         refs[call[w].member] = "none"

RefInv ==
  /\ permits = {w \in Worker : pc[w] # "idle"}
  /\ \A i \in Intent : Unresolved(i) => RefFacts(i)
  /\ \A w \in Worker : RefWorker(w)
  /\ StoresFollowMembership

-----------------------------------------------------------------------------
(* Types, store by store. *)

InvitationRow == [state : {"none", "active", "redeeming", "redeemed", "revoked", "expired"},
                  due : BOOLEAN]
OfferRow == [state : {"none", "offered", "acknowledged", "declined", "cancelled", "consumed",
                      "expired"},
             source : Member, target : Member,
             purpose : {"manager-leave", "manager-promotion"},
             generation : Nat, targetRev : Nat, due : BOOLEAN]
MemberRow == [status : Status, role : {"manager", "member"}, rev : Nat]

RowType ==
  /\ members \in [Member -> MemberRow]
  /\ bindings \in [Member -> {"none", "pending", "active", "revoked"}]
  /\ generation \in Nat
  /\ openRequests \subseteq Member
TermType ==
  /\ invitations \in [Invitation -> InvitationRow]
  /\ offers \in [Offer -> OfferRow]
JournalsType ==
  /\ journals \in [Intent -> JournalType \cup {NoJournal}]
  /\ candidates \subseteq Intent
RefType == refs \in [Member -> Oid]
ProcType ==
  /\ lease \in Worker \cup {NoWorker}
  /\ permits \subseteq Worker /\ Cardinality(permits) <= MaxPerProject
  /\ pc \in [Worker -> {"idle", "lane", "find", "create", "verify", "delete", "commit"}]
  /\ call \in [Worker -> RequestType \cup {NoCall}]
  /\ seen \in [Worker -> Phase]

LEMMA Types ==
  TypeOK <=> /\ RowType /\ TermType /\ JournalsType /\ RefType /\ ProcType
             /\ faults \in 0 .. MaxFaults
BY DEF TypeOK, RowType, TermType, JournalsType, RefType, ProcType, InvitationRow, OfferRow, MemberRow

LEMMA TypesAfter ==
  ASSUME RowType', TermType', JournalsType', RefType', ProcType', faults' \in 0 .. MaxFaults
  PROVE  TypeOK'
BY DEF TypeOK, RowType, TermType, JournalsType, RefType, ProcType, InvitationRow, OfferRow, MemberRow

\* A journal's row and its request.
LEMMA JournalRow ==
  ASSUME JournalsType, NEW i \in Intent, journals[i] # NoJournal
  PROVE  /\ journals[i] \in JournalType
         /\ journals[i].req \in RequestType /\ journals[i].phase \in Phase \ {"none"}
         /\ journals[i].oid \in Oid
         /\ journals[i].req.intent \in Intent /\ journals[i].req.member \in Member
         /\ journals[i].req.actor \in Member /\ journals[i].req.kind \in Kind
BY DEF JournalsType, JournalType, RequestType

\* Expired terms change their state only.
LEMMA ExpiredTypes ==
  ASSUME TermType
  PROVE  /\ ExpiredInvitations \in [Invitation -> InvitationRow]
         /\ ExpiredOffers \in [Offer -> OfferRow]
         /\ \A v \in Invitation :
              ExpiredInvitations[v].state =
                IF invitations[v].state = "active" /\ invitations[v].due THEN "expired"
                ELSE invitations[v].state
         /\ \A o \in Offer :
              /\ ExpiredOffers[o] = offers[o] \/ (ExpiredOffers[o].state = "expired" /\ LiveOffer(o))
              /\ ExpiredOffers[o].source = offers[o].source
              /\ ExpiredOffers[o].target = offers[o].target
              /\ ExpiredOffers[o].purpose = offers[o].purpose
              /\ ExpiredOffers[o].generation = offers[o].generation
              /\ ExpiredOffers[o].targetRev = offers[o].targetRev
<1>1. /\ ExpiredInvitations \in [Invitation -> InvitationRow]
      /\ \A v \in Invitation :
           ExpiredInvitations[v].state =
             IF invitations[v].state = "active" /\ invitations[v].due THEN "expired"
             ELSE invitations[v].state
  BY DEF TermType, ExpiredInvitations, InvitationRow
<1>2. ASSUME NEW o \in Offer
      PROVE  /\ ExpiredOffers[o] \in OfferRow
             /\ ExpiredOffers[o] = offers[o] \/ (ExpiredOffers[o].state = "expired" /\ LiveOffer(o))
             /\ ExpiredOffers[o].source = offers[o].source
             /\ ExpiredOffers[o].target = offers[o].target
             /\ ExpiredOffers[o].purpose = offers[o].purpose
             /\ ExpiredOffers[o].generation = offers[o].generation
             /\ ExpiredOffers[o].targetRev = offers[o].targetRev
  <2>1. offers[o] \in OfferRow
    BY DEF TermType
  <2>2. ExpiredOffers[o] = IF LiveOffer(o) /\ offers[o].due
                           THEN [offers[o] EXCEPT !.state = "expired"] ELSE offers[o]
    BY DEF ExpiredOffers
  <2> QED
    BY <2>1, <2>2 DEF OfferRow
<1>3. ExpiredOffers \in [Offer -> OfferRow]
  BY <1>2 DEF ExpiredOffers
<1> QED
  BY <1>1, <1>2, <1>3

\* Cancelled offers change their state only.
LEMMA CancelTypes ==
  ASSUME NEW current \in [Offer -> OfferRow], NEW S
  PROVE  /\ CancelOffers(current, S) \in [Offer -> OfferRow]
         /\ \A o \in Offer :
              LET next == CancelOffers(current, S)[o] IN
              /\ next = current[o] \/ next.state = "cancelled"
              /\ next.source = current[o].source /\ next.target = current[o].target
              /\ next.purpose = current[o].purpose /\ next.generation = current[o].generation
              /\ next.targetRev = current[o].targetRev
              /\ o \in S => next.state \notin {"offered", "acknowledged"}
<1>1. ASSUME NEW o \in Offer
      PROVE  /\ CancelOffers(current, S)[o] \in OfferRow
             /\ LET next == CancelOffers(current, S)[o] IN
                /\ next = current[o] \/ next.state = "cancelled"
                /\ next.source = current[o].source /\ next.target = current[o].target
                /\ next.purpose = current[o].purpose /\ next.generation = current[o].generation
                /\ next.targetRev = current[o].targetRev
                /\ o \in S => next.state \notin {"offered", "acknowledged"}
  <2>1. current[o] \in OfferRow
    OBVIOUS
  <2>2. CancelOffers(current, S)[o] =
          IF o \in S /\ current[o].state \in {"offered", "acknowledged"}
          THEN [current[o] EXCEPT !.state = "cancelled"] ELSE current[o]
    BY DEF CancelOffers
  <2> QED
    BY <2>1, <2>2 DEF OfferRow
<1>2. CancelOffers(current, S) \in [Offer -> OfferRow]
  BY <1>1 DEF CancelOffers
<1> QED
  BY <1>1, <1>2

-----------------------------------------------------------------------------
(* The control: journals, workers, lease and permits. *)

\* Nobody but w moves, and a journal keeps its request.
LEMMA OtherWorkers ==
  ASSUME TypeOK, ControlInv, NEW w \in Worker,
         \A v \in Worker \ {w} : /\ pc'[v] = pc[v] /\ call'[v] = call[v] /\ seen'[v] = seen[v]
                                 /\ lease' = v => lease = v,
         \A i \in Intent : journals[i] # NoJournal =>
            journals'[i] # NoJournal /\ journals'[i].req = journals[i].req,
         journals' = journals \/ lease = w,
         WorkerInv(w)'
  PROVE  \A v \in Worker : WorkerInv(v)'
<1> SUFFICES ASSUME NEW v \in Worker \ {w} PROVE WorkerInv(v)'
  OBVIOUS
<1>1. /\ pc'[v] = pc[v] /\ call'[v] = call[v] /\ seen'[v] = seen[v]
      /\ lease' = v => lease = v /\ journals' = journals
  OBVIOUS
<1>2. WorkerInv(v)
  BY DEF ControlInv
<1>3. pc[v] \in {"lane", "find"} /\ v # Reconciler => Asked(call[v])
  BY <1>2 DEF WorkerInv
<1>4. ASSUME pc[v] \in WorkStep
      PROVE  /\ call[v] \in RequestType /\ journals'[call[v].intent] # NoJournal
             /\ journals'[call[v].intent].req = call[v]
             /\ lease' = v => seen[v] = journals'[call[v].intent].phase
  <2>1. /\ call[v] \in RequestType /\ journals[call[v].intent] # NoJournal
        /\ journals[call[v].intent].req = call[v]
        /\ lease = v => seen[v] = journals[call[v].intent].phase
    BY <1>2, <1>4 DEF WorkerInv, Journal
  <2>2. call[v].intent \in Intent
    BY <2>1 DEF RequestType
  <2> QED
    BY <1>1, <2>1, <2>2
<1> QED
  BY <1>1, <1>3, <1>4 DEF WorkerInv, Journal

\* Nothing of the control moves.
LEMMA ControlKept ==
  ASSUME ControlInv, UNCHANGED <<journals, procVars>>
  PROVE  ControlInv'
BY DEF ControlInv, JournalFits, Unresolved, WorkerInv, Journal, procVars

\* The journals stay, one worker moves.
LEMMA WorkerMoves ==
  ASSUME TypeOK, ControlInv, NEW w \in Worker, UNCHANGED journals,
         \A v \in Worker \ {w} : /\ pc'[v] = pc[v] /\ call'[v] = call[v] /\ seen'[v] = seen[v]
                                 /\ lease' = v => lease = v,
         WorkerInv(w)', IsFiniteSet(permits')
  PROVE  ControlInv'
<1>1. \A v \in Worker : WorkerInv(v)'
  BY OtherWorkers
<1> QED
  BY <1>1 DEF ControlInv, JournalFits, Unresolved

\* What clients ask for is a request.
LEMMA RequestsAsked ==
  ASSUME TypeOK, ControlInv, NEW i \in Intent, NEW r \in Requests(i)
  PROVE  Asked(r)
<1>1. RowType /\ JournalsType
  BY Types
<1>2. CASE journals[i] # NoJournal
  BY <1>2 DEF Requests, ControlInv, JournalFits
<1>3. CASE journals[i] = NoJournal
  <2>1. \/ \E m \in Member, v \in Invitation :
             r = [intent |-> i, kind |-> "join", actor |-> m, member |-> m, token |-> v,
                  gen |-> 0, rev |-> 0]
        \/ \E p \in Member \X Member :
             r = [intent |-> i, kind |-> "remove", actor |-> p[1], member |-> p[2],
                  token |-> NoOffer, gen |-> generation, rev |-> members[p[2]].rev]
        \/ \E p \in Member \X (Offer \cup {NoOffer}) :
             r = [intent |-> i, kind |-> "leave", actor |-> p[1], member |-> p[1],
                  token |-> p[2], gen |-> generation, rev |-> members[p[1]].rev]
    BY <1>3 DEF Requests
  <2>2. generation \in Nat /\ \A m \in Member : members[m].rev \in Nat
    BY <1>1 DEF RowType, MemberRow
  <2> QED
    BY <2>1, <2>2 DEF Asked, RequestType, Kind
<1> QED
  BY <1>2, <1>3

\* A worker goes on at a phase.
LEMMA GoesOn ==
  ASSUME ProcType, NEW w \in Worker, NEW kind, NEW phase \in Phase, GoOn(w, kind, phase)
  PROVE  /\ pc' \in [Worker -> {"idle", "lane", "find", "create", "verify", "delete", "commit"}]
         /\ seen' \in [Worker -> Phase]
         /\ pc'[w] = GitBefore(kind, phase) /\ pc'[w] \in WorkStep /\ seen'[w] = phase
         /\ \A v \in Worker \ {w} : pc'[v] = pc[v] /\ seen'[v] = seen[v]
<1>1. GitBefore(kind, phase) \in WorkStep
  BY DEF GitBefore, WorkStep
<1> QED
  BY <1>1 DEF GoOn, ProcType, WorkStep

\* A call ends.
LEMMA Released ==
  ASSUME ProcType, IsFiniteSet(permits), NEW w \in Worker, Release(w)
  PROVE  /\ ProcType' /\ IsFiniteSet(permits')
         /\ pc'[w] = "idle"
         /\ \A v \in Worker \ {w} : /\ pc'[v] = pc[v] /\ call'[v] = call[v] /\ seen'[v] = seen[v]
                                    /\ lease' = v => lease = v
<1>1. permits' = permits \ {w} /\ Cardinality(permits') <= Cardinality(permits) /\ IsFiniteSet(permits')
  BY FS_Subset DEF Release
<1>2. Cardinality(permits) \in Nat /\ Cardinality(permits') \in Nat
  BY <1>1, FS_CardinalityType
<1>3. permits' \subseteq Worker /\ Cardinality(permits') <= MaxPerProject
  BY <1>1, <1>2, MembershipAssumption DEF ProcType
<1>4. /\ pc' \in [Worker -> {"idle", "lane", "find", "create", "verify", "delete", "commit"}]
      /\ call' \in [Worker -> RequestType \cup {NoCall}]
      /\ seen' \in [Worker -> Phase]
      /\ pc'[w] = "idle"
      /\ \A v \in Worker \ {w} : /\ pc'[v] = pc[v] /\ call'[v] = call[v] /\ seen'[v] = seen[v]
  BY DEF Release, ProcType, Phase
<1>5. /\ lease' \in Worker \cup {NoWorker}
      /\ \A v \in Worker : lease' = v => lease = v
  BY MembershipAssumption DEF Release, ProcType
<1> QED
  BY <1>1, <1>3, <1>4, <1>5 DEF ProcType

\* Starting, waiting for the lease, and ending without a journal.
LEMMA WaitControl ==
  ASSUME TypeOK, ControlInv, NEW w \in Worker, UNCHANGED journals,
         \/ Start(w) \/ StartRecovery(w) \/ AcquireLease(w) \/ Release(w)
  PROVE  ProcType' /\ ControlInv'
<1>1. ProcType /\ IsFiniteSet(permits)
  BY Types DEF ControlInv
<1>2. ASSUME PermitFree, permits' = permits \cup {w}
      PROVE  permits' \subseteq Worker /\ Cardinality(permits') <= MaxPerProject /\ IsFiniteSet(permits')
  <2>1. IsFiniteSet(permits') /\ Cardinality(permits') \in {Cardinality(permits), Cardinality(permits) + 1}
    BY <1>1, <1>2, FS_AddElement
  <2>2. Cardinality(permits) \in Nat /\ Cardinality(permits) < MaxPerProject
    BY <1>1, <1>2, FS_CardinalityType DEF PermitFree
  <2> QED
    BY <1>1, <1>2, <2>1, <2>2, MembershipAssumption DEF ProcType
<1>3. CASE Start(w)
  <2>1. PICK i \in Intent : \E r \in Requests(i) : call' = [call EXCEPT ![w] = r]
    BY <1>3 DEF Start
  <2>2. PICK r \in Requests(i) : call' = [call EXCEPT ![w] = r]
    BY <2>1
  <2>3. Asked(r) /\ r \in RequestType
    BY <2>2, RequestsAsked DEF Asked
  <2>4. PermitFree /\ permits' = permits \cup {w} /\ pc' = [pc EXCEPT ![w] = "lane"]
        /\ UNCHANGED <<lease, seen>>
    BY <1>3 DEF Start
  <2>5. call'[w] = r /\ pc'[w] = "lane"
        /\ \A v \in Worker \ {w} : pc'[v] = pc[v] /\ call'[v] = call[v] /\ seen'[v] = seen[v]
    BY <1>1, <2>2, <2>4 DEF ProcType
  <2>6. WorkerInv(w)'
    BY <2>3, <2>5 DEF WorkerInv, WorkStep
  <2>7. ProcType'
    BY <1>1, <1>2, <2>2, <2>3, <2>4 DEF ProcType
  <2> QED
    BY <1>2, <2>4, <2>5, <2>6, <2>7, WorkerMoves
<1>4. CASE StartRecovery(w)
  <2>1. w = Reconciler /\ PermitFree /\ permits' = permits \cup {w} /\ pc' = [pc EXCEPT ![w] = "lane"]
        /\ UNCHANGED <<lease, call, seen>>
    BY <1>4 DEF StartRecovery
  <2>2. pc'[w] = "lane" /\ \A v \in Worker \ {w} : pc'[v] = pc[v]
    BY <1>1, <2>1 DEF ProcType
  <2>3. WorkerInv(w)'
    BY <2>1, <2>2 DEF WorkerInv, WorkStep
  <2>4. ProcType'
    BY <1>1, <1>2, <2>1 DEF ProcType
  <2> QED
    BY <1>2, <2>1, <2>2, <2>3, <2>4, WorkerMoves
<1>5. CASE AcquireLease(w)
  <2>1. pc[w] = "lane" /\ lease' = w /\ pc' = [pc EXCEPT ![w] = "find"] /\ UNCHANGED <<permits, call, seen>>
    BY <1>5 DEF AcquireLease
  <2>2. pc'[w] = "find" /\ \A v \in Worker \ {w} : pc'[v] = pc[v]
    BY <1>1, <2>1 DEF ProcType
  <2>3. WorkerInv(w)'
    BY <2>1, <2>2 DEF ControlInv, WorkerInv, WorkStep
  <2>4. ProcType'
    BY <1>1, <2>1 DEF ProcType
  <2> QED
    BY <1>1, <2>1, <2>2, <2>3, <2>4, WorkerMoves
<1>6. CASE Release(w)
  <2>1. WorkerInv(w)'
    BY <1>1, <1>6, Released DEF WorkerInv, WorkStep
  <2> QED
    BY <1>1, <1>6, <2>1, Released, WorkerMoves
<1> QED
  BY <1>3, <1>4, <1>5, <1>6

\* A replay and a recovery go on with a journal that is not settled.
LEMMA Found ==
  ASSUME TypeOK, ControlInv, NEW w \in Worker, Replay(w) \/ Recover(w)
  PROVE  \E i \in Intent : /\ journals[i] # NoJournal /\ call' = [call EXCEPT ![w] = journals[i].req]
                          /\ GoOn(w, journals[i].req.kind, journals[i].phase)
                          /\ UNCHANGED <<journals, lease, permits>>
                          /\ pc[w] = "find"
<1>1. ProcType
  BY Types
<1>2. CASE Recover(w)
  BY <1>2 DEF Recover, Recoverable, Finding
<1>3. CASE Replay(w)
  <2>1. /\ Replays(w) /\ GoOn(w, call[w].kind, journals[call[w].intent].phase)
        /\ UNCHANGED <<journals, call, lease, permits>>
    BY <1>3 DEF Replay
  <2>2. /\ journals[call[w].intent].req = call[w] /\ journals[call[w].intent] # NoJournal
        /\ pc[w] = "find" /\ w # Reconciler
    BY <2>1 DEF Replays, Finding
  <2>3. call[w].intent \in Intent /\ call = [call EXCEPT ![w] = call[w]]
    BY <1>1, <2>2 DEF ControlInv, WorkerInv, Asked, RequestType, ProcType
  <2> QED
    BY <2>1, <2>2, <2>3
<1> QED
  BY <1>2, <1>3

\* A found journal is taken up at its phase.
LEMMA FoundControl ==
  ASSUME TypeOK, ControlInv, NEW w \in Worker, Replay(w) \/ Recover(w)
  PROVE  ProcType' /\ ControlInv'
<1>1. ProcType /\ JournalsType /\ IsFiniteSet(permits)
  BY Types DEF ControlInv
<1>2. PICK i \in Intent : /\ journals[i] # NoJournal /\ call' = [call EXCEPT ![w] = journals[i].req]
                          /\ GoOn(w, journals[i].req.kind, journals[i].phase)
                          /\ UNCHANGED <<journals, lease, permits>>
  BY Found
<1>3. journals[i].req \in RequestType /\ journals[i].phase \in Phase /\ journals[i].req.intent = i
  BY <1>1, <1>2, JournalRow DEF ControlInv, JournalFits
<1>4. /\ pc' \in [Worker -> {"idle", "lane", "find", "create", "verify", "delete", "commit"}]
      /\ seen' \in [Worker -> Phase]
      /\ pc'[w] \in WorkStep /\ seen'[w] = journals[i].phase
      /\ \A v \in Worker \ {w} : pc'[v] = pc[v] /\ seen'[v] = seen[v]
  BY <1>1, <1>2, <1>3, GoesOn
<1>5. call' \in [Worker -> RequestType \cup {NoCall}] /\ call'[w] = journals[i].req
      /\ \A v \in Worker \ {w} : call'[v] = call[v]
  BY <1>1, <1>2, <1>3 DEF ProcType
<1>6. WorkerInv(w)'
  BY <1>2, <1>3, <1>4, <1>5 DEF WorkerInv, WorkStep, Journal
<1>7. ProcType'
  BY <1>1, <1>2, <1>4, <1>5 DEF ProcType
<1> QED
  BY <1>1, <1>2, <1>4, <1>5, <1>6, <1>7, WorkerMoves

\* The phases of a kind of operation.
Fitting(kind, phase) ==
  /\ kind = "join" => phase \in JoinPhase
  /\ kind = "remove" => phase \in RemovePhase
  /\ kind = "leave" => phase \in LeavePhase

LEMMA FittingIsPhase ==
  ASSUME NEW kind \in Kind, NEW phase, Fitting(kind, phase)
  PROVE  phase \in Phase \ {"none"}
BY DEF Fitting, Kind, Phase, JoinPhase, JoinOpen, RemovePhase, LeavePhase

\* A new journal, under the lease, where none is unresolved.
LEMMA PreparedControl ==
  ASSUME TypeOK, ControlInv, NEW w \in Worker, Fresh(w), NEW oid \in Oid, Prepared(w, oid),
         UNCHANGED <<lease, permits, call>>
  PROVE  /\ ProcType' /\ JournalsType' /\ ControlInv'
         /\ Asked(call[w]) /\ call[w].intent \in Intent /\ call[w].kind \in Kind
         /\ journals'[call[w].intent] = [req |-> call[w], phase |-> "prepared", oid |-> oid]
         /\ \A i \in Intent \ {call[w].intent} : journals'[i] = journals[i]
         /\ \A i \in Intent : Unresolved(i)' <=> i = call[w].intent
<1>1. ProcType /\ JournalsType /\ IsFiniteSet(permits)
  BY Types DEF ControlInv
<1>2. /\ pc[w] = "find" /\ lease = w /\ w # Reconciler /\ journals[call[w].intent] = NoJournal
      /\ ~HasNonterminalMutation
  BY DEF Fresh, Finding
<1> DEFINE k == call[w].intent
<1> DEFINE row == [req |-> call[w], phase |-> "prepared", oid |-> oid]
<1>3. Asked(call[w]) /\ call[w] \in RequestType /\ k \in Intent /\ call[w].kind \in Kind
  BY <1>2 DEF ControlInv, WorkerInv, Asked, RequestType
<1>4. row \in JournalType /\ row # NoJournal
  BY <1>3, NoRowAssumption DEF JournalType, Phase
<1>5. /\ journals' = [journals EXCEPT ![k] = row] /\ candidates' = candidates \cup {k}
      /\ GoOn(w, call[w].kind, "prepared")
  BY DEF Prepared
<1>6. /\ pc' \in [Worker -> {"idle", "lane", "find", "create", "verify", "delete", "commit"}]
      /\ seen' \in [Worker -> Phase]
      /\ pc'[w] \in WorkStep /\ seen'[w] = "prepared"
      /\ \A v \in Worker \ {w} : pc'[v] = pc[v] /\ seen'[v] = seen[v]
  BY <1>1, <1>5, GoesOn DEF Phase
<1>7. row.req = call[w] /\ row.phase = "prepared"
  OBVIOUS
<1> HIDE DEF row
<1>8. JournalsType' /\ journals'[k] = row /\ \A i \in Intent \ {k} : journals'[i] = journals[i]
  BY <1>1, <1>3, <1>4, <1>5 DEF JournalsType
<1>9. \A i \in Intent : Unresolved(i)' <=> i = k
  BY <1>2, <1>3, <1>4, <1>7, <1>8 DEF HasNonterminalMutation, Unresolved
<1>10. ASSUME NEW i \in Intent, journals'[i] # NoJournal PROVE JournalFits(i)'
  <2>1. CASE i = k
    BY <1>3, <1>7, <1>8, <2>1 DEF JournalFits, JoinPhase, JoinOpen, RemovePhase, LeavePhase
  <2>2. CASE i # k
    BY <1>8, <1>10, <2>2 DEF ControlInv, JournalFits
  <2> QED
    BY <2>1, <2>2
<1>11. WorkerInv(w)'
  BY <1>3, <1>4, <1>6, <1>7, <1>8 DEF WorkerInv, Journal, WorkStep
<1>12. \A v \in Worker : WorkerInv(v)'
  <2>1. \A i \in Intent : journals[i] # NoJournal =>
          journals'[i] # NoJournal /\ journals'[i].req = journals[i].req
    BY <1>2, <1>8
  <2> QED
    BY <1>2, <1>6, <1>11, <2>1, OtherWorkers
<1>13. ControlInv'
  BY <1>1, <1>9, <1>10, <1>12 DEF ControlInv
<1>14. ProcType'
  BY <1>1, <1>6 DEF ProcType
<1> QED
  BY <1>3, <1>8, <1>9, <1>13, <1>14 DEF row

\* A Git command ends: the journal stays, its worker goes on to the transaction.
LEMMA GitControl ==
  ASSUME TypeOK, ControlInv, NEW w \in Worker, pc[w] \in WorkStep, Done(w),
         UNCHANGED <<journals, lease, permits, call, seen>>
  PROVE  ProcType' /\ ControlInv'
<1>1. ProcType /\ IsFiniteSet(permits)
  BY Types DEF ControlInv
<1>2. /\ pc' \in [Worker -> {"idle", "lane", "find", "create", "verify", "delete", "commit"}]
      /\ pc'[w] = "commit" /\ \A v \in Worker \ {w} : pc'[v] = pc[v]
  BY <1>1 DEF Done, ProcType
<1>3. WorkerInv(w)'
  BY <1>2 DEF ControlInv, WorkerInv, Journal, WorkStep
<1>4. ProcType'
  BY <1>1, <1>2 DEF ProcType
<1> QED
  BY <1>1, <1>2, <1>3, <1>4, WorkerMoves

\* The journal of a worker that is to commit, or to leave its journal.
LEMMA AtJournal ==
  ASSUME TypeOK, ControlInv, NEW w \in Worker, pc[w] \in WorkStep
  PROVE  /\ call[w] \in RequestType /\ call[w].intent \in Intent /\ call[w].kind \in Kind
         /\ call[w].member \in Member
         /\ Journal(w) = journals[call[w].intent] /\ Journal(w) # NoJournal
         /\ Journal(w).req = call[w] /\ Journal(w).oid \in Oid
         /\ Fitting(call[w].kind, Journal(w).phase)
         /\ JournalFits(call[w].intent)
         /\ lease = w => seen[w] = Journal(w).phase
<1>1. WorkerInv(w) /\ JournalsType
  BY Types DEF ControlInv
<1>2. call[w] \in RequestType /\ Journal(w) # NoJournal /\ Journal(w).req = call[w]
      /\ (lease = w => seen[w] = Journal(w).phase)
  BY <1>1 DEF WorkerInv, Journal
<1>3. call[w].intent \in Intent /\ call[w].kind \in Kind /\ call[w].member \in Member
  BY <1>2 DEF RequestType
<1>4. JournalFits(call[w].intent)
  BY <1>2, <1>3 DEF ControlInv, Journal
<1>5. Fitting(call[w].kind, Journal(w).phase)
  BY <1>2, <1>4 DEF JournalFits, Fitting, Journal
<1>6. Journal(w).oid \in Oid
  BY <1>1, <1>2, <1>3, JournalRow DEF Journal
<1> QED
  BY <1>2, <1>3, <1>4, <1>5, <1>6 DEF Journal

MovesTo(w, next) == journals' = [journals EXCEPT ![call[w].intent].phase = next]

\* An unresolved journal moves to another phase of its kind, under the lease.
LEMMA PhaseControl ==
  ASSUME TypeOK, ControlInv, NEW w \in Worker, pc[w] \in WorkStep, lease = w,
         Journal(w).phase # "completed", NEW next, Fitting(call[w].kind, next),
         MovesTo(w, next), candidates' \subseteq Intent, ProcType', IsFiniteSet(permits'),
         \A v \in Worker \ {w} : /\ pc'[v] = pc[v] /\ call'[v] = call[v] /\ seen'[v] = seen[v]
                                 /\ lease' = v => lease = v,
         pc'[w] \in WorkStep => call'[w] = call[w] /\ seen'[w] = next,
         pc'[w] \notin {"lane", "find"}
  PROVE  /\ JournalsType' /\ ControlInv'
         /\ journals'[call[w].intent] # NoJournal
         /\ journals'[call[w].intent].req = call[w] /\ journals'[call[w].intent].phase = next
         /\ journals'[call[w].intent].oid = journals[call[w].intent].oid
         /\ \A i \in Intent \ {call[w].intent} : journals'[i] = journals[i]
         /\ Unresolved(call[w].intent)
         /\ \A i \in Intent : Unresolved(i) => i = call[w].intent
         /\ \A i \in Intent : Unresolved(i)' => i = call[w].intent
<1>1. JournalsType
  BY Types
<1>2. /\ call[w] \in RequestType /\ call[w].intent \in Intent /\ call[w].kind \in Kind
      /\ Journal(w) = journals[call[w].intent] /\ Journal(w) # NoJournal /\ Journal(w).req = call[w]
      /\ JournalFits(call[w].intent)
  BY AtJournal
<1> DEFINE k == call[w].intent
<1>3. journals[k] \in JournalType /\ journals[k] # NoJournal /\ journals[k].req = call[w]
      /\ journals[k].phase # "completed"
  BY <1>1, <1>2, JournalRow
<1>4. next \in Phase \ {"none"}
  BY <1>2, FittingIsPhase
<1>5. /\ [journals[k] EXCEPT !.phase = next] \in JournalType
      /\ [journals[k] EXCEPT !.phase = next].req = call[w]
      /\ [journals[k] EXCEPT !.phase = next].oid = journals[k].oid
      /\ [journals[k] EXCEPT !.phase = next].phase = next
  BY <1>3, <1>4 DEF JournalType
<1>6. /\ journals'[k] = [journals[k] EXCEPT !.phase = next]
      /\ \A i \in Intent \ {k} : journals'[i] = journals[i]
      /\ journals' \in [Intent -> JournalType \cup {NoJournal}]
  BY <1>1, <1>2, <1>5 DEF JournalsType, MovesTo
<1>7. JournalsType' /\ journals'[k] # NoJournal
  BY <1>5, <1>6, NoRowAssumption DEF JournalsType
<1>8. Unresolved(k) /\ \A i \in Intent : Unresolved(i) => i = k
  BY <1>2, <1>3 DEF Unresolved, ControlInv
<1>9. \A i \in Intent : Unresolved(i)' => i = k
  BY <1>6, <1>8 DEF Unresolved
<1>10. ASSUME NEW i \in Intent, journals'[i] # NoJournal PROVE JournalFits(i)'
  <2>1. CASE i = k
    BY <1>2, <1>3, <1>5, <1>6, <2>1 DEF JournalFits, Fitting
  <2>2. CASE i # k
    BY <1>6, <1>10, <2>2 DEF ControlInv, JournalFits
  <2> QED
    BY <2>1, <2>2
<1>11. WorkerInv(w)'
  BY <1>2, <1>5, <1>6, <1>7 DEF WorkerInv, Journal, WorkStep
<1>12. \A v \in Worker : WorkerInv(v)'
  <2>1. \A i \in Intent : journals[i] # NoJournal =>
          journals'[i] # NoJournal /\ journals'[i].req = journals[i].req
    BY <1>3, <1>5, <1>6, <1>7
  <2> QED
    BY <1>11, <2>1, OtherWorkers
<1>13. ControlInv'
  BY <1>9, <1>10, <1>12 DEF ControlInv
<1> QED
  BY <1>5, <1>6, <1>7, <1>8, <1>9, <1>13

\* A transaction advances the journal of its worker.
LEMMA AdvanceControl ==
  ASSUME TypeOK, ControlInv, NEW w \in Worker, NEW K, NEW P, Committing(w, K, P),
         "completed" \notin P, NEW next, Fitting(call[w].kind, next), Advance(w, next),
         UNCHANGED candidates
  PROVE  /\ ProcType' /\ JournalsType' /\ ControlInv'
         /\ pc'[w] = GitBefore(call[w].kind, next) /\ seen'[w] = next
         /\ \A v \in Worker \ {w} : pc'[v] = pc[v] /\ seen'[v] = seen[v]
         /\ journals'[call[w].intent] # NoJournal
         /\ journals'[call[w].intent].req = call[w] /\ journals'[call[w].intent].phase = next
         /\ journals'[call[w].intent].oid = journals[call[w].intent].oid
         /\ \A i \in Intent \ {call[w].intent} : journals'[i] = journals[i]
         /\ Unresolved(call[w].intent)
         /\ \A i \in Intent : Unresolved(i) => i = call[w].intent
         /\ \A i \in Intent : Unresolved(i)' => i = call[w].intent
<1>1. ProcType /\ JournalsType /\ IsFiniteSet(permits)
  BY Types DEF ControlInv
<1>2. /\ pc[w] = "commit" /\ pc[w] \in WorkStep /\ lease = w /\ Journal(w).phase # "completed"
      /\ MovesTo(w, next)
      /\ GoOn(w, call[w].kind, next) /\ UNCHANGED <<lease, permits, call>>
  BY DEF Committing, Advance, WorkStep, MovesTo
<1>3. next \in Phase
  BY <1>2, AtJournal, FittingIsPhase
<1>4. /\ pc' \in [Worker -> {"idle", "lane", "find", "create", "verify", "delete", "commit"}]
      /\ seen' \in [Worker -> Phase]
      /\ pc'[w] = GitBefore(call[w].kind, next) /\ pc'[w] \in WorkStep /\ seen'[w] = next
      /\ \A v \in Worker \ {w} : pc'[v] = pc[v] /\ seen'[v] = seen[v]
  BY <1>1, <1>2, <1>3, GoesOn
<1>5. ProcType' /\ IsFiniteSet(permits') /\ candidates' \subseteq Intent
  BY <1>1, <1>2, <1>4 DEF ProcType, JournalsType
<1>6. pc'[w] \notin {"lane", "find"}
  BY <1>4 DEF WorkStep
<1>7. \A v \in Worker \ {w} : /\ pc'[v] = pc[v] /\ call'[v] = call[v] /\ seen'[v] = seen[v]
                              /\ lease' = v => lease = v
  BY <1>2, <1>4
<1>8. pc'[w] \in WorkStep => call'[w] = call[w] /\ seen'[w] = next
  BY <1>2, <1>4
<1>9. /\ JournalsType' /\ ControlInv'
      /\ journals'[call[w].intent] # NoJournal
      /\ journals'[call[w].intent].req = call[w] /\ journals'[call[w].intent].phase = next
      /\ journals'[call[w].intent].oid = journals[call[w].intent].oid
      /\ \A i \in Intent \ {call[w].intent} : journals'[i] = journals[i]
      /\ Unresolved(call[w].intent)
      /\ \A i \in Intent : Unresolved(i) => i = call[w].intent
      /\ \A i \in Intent : Unresolved(i)' => i = call[w].intent
  BY <1>2, <1>5, <1>6, <1>7, <1>8, PhaseControl
<1> QED
  BY <1>4, <1>5, <1>9

\* A lost lease and a crash leave the journals and nothing that a worker knows.
LEMMA FaultControl ==
  ASSUME TypeOK, ControlInv, LeaseLost \/ Crash
  PROVE  ProcType' /\ ControlInv'
<1>1. ProcType /\ JournalsType /\ IsFiniteSet(permits)
  BY Types DEF ControlInv
<1>2. CASE LeaseLost
  <2>1. lease' = NoWorker /\ UNCHANGED <<journals, permits, pc, call, seen>>
    BY <1>2 DEF LeaseLost
  <2>2. \A w \in Worker : WorkerInv(w)'
    BY <2>1, MembershipAssumption DEF ControlInv, WorkerInv, Journal
  <2>3. ControlInv'
    BY <2>1, <2>2 DEF ControlInv, JournalFits, Unresolved
  <2> QED
    BY <1>1, <2>1, <2>3 DEF ProcType
<1>3. CASE Crash
  <2>1. /\ lease' = NoWorker /\ permits' = {} /\ UNCHANGED journals
        /\ pc' = [w \in Worker |-> "idle"] /\ call' = [w \in Worker |-> NoCall]
        /\ seen' = [w \in Worker |-> "none"]
    BY <1>3 DEF Crash
  <2>2. IsFiniteSet(permits') /\ Cardinality(permits') = 0
    BY <2>1, FS_EmptySet
  <2>3. \A w \in Worker : WorkerInv(w)'
    BY <2>1 DEF WorkerInv, WorkStep
  <2>4. ControlInv'
    BY <2>1, <2>2, <2>3 DEF ControlInv, JournalFits, Unresolved
  <2>5. ProcType'
    BY <2>1, <2>2, MembershipAssumption DEF ProcType, Phase
  <2> QED
    BY <2>4, <2>5
<1> QED
  BY <1>2, <1>3

\* A call is completed.
LEMMA CompleteControl ==
  ASSUME TypeOK, ControlInv, NEW w \in Worker, Complete(w)
  PROVE  /\ ProcType' /\ JournalsType' /\ ControlInv'
         /\ journals'[call[w].intent] # NoJournal
         /\ journals'[call[w].intent].req = call[w] /\ journals'[call[w].intent].phase = "completed"
         /\ \A i \in Intent \ {call[w].intent} : journals'[i] = journals[i]
         /\ Unresolved(call[w].intent)
         /\ \A i \in Intent : ~Unresolved(i)'
<1>1. ProcType /\ JournalsType /\ IsFiniteSet(permits)
  BY Types DEF ControlInv
<1>2. /\ pc[w] = "commit" /\ pc[w] \in WorkStep /\ lease = w /\ Journal(w).phase # "completed"
      /\ MovesTo(w, "completed") /\ candidates' = candidates \ {call[w].intent} /\ Release(w)
  BY DEF Complete, Committing, WorkStep, MovesTo
<1>3. ProcType' /\ IsFiniteSet(permits') /\ candidates' \subseteq Intent /\ pc'[w] = "idle"
      /\ \A v \in Worker \ {w} : /\ pc'[v] = pc[v] /\ call'[v] = call[v] /\ seen'[v] = seen[v]
                                 /\ lease' = v => lease = v
  BY <1>1, <1>2, Released DEF JournalsType
<1>4. Fitting(call[w].kind, "completed")
  BY DEF Fitting, JoinPhase, RemovePhase, LeavePhase
<1>5. pc'[w] \notin WorkStep /\ pc'[w] \notin {"lane", "find"}
  BY <1>3 DEF WorkStep
<1>6. /\ JournalsType' /\ ControlInv'
      /\ journals'[call[w].intent] # NoJournal
      /\ journals'[call[w].intent].req = call[w] /\ journals'[call[w].intent].phase = "completed"
      /\ \A i \in Intent \ {call[w].intent} : journals'[i] = journals[i]
      /\ Unresolved(call[w].intent)
      /\ \A i \in Intent : Unresolved(i)' => i = call[w].intent
  BY <1>2, <1>3, <1>4, <1>5, PhaseControl
<1> QED
  BY <1>3, <1>6 DEF Unresolved

\* A call fails: its journal stays, or a leave that cannot delete its ref marks it.
Marked(w) ==
  LET k == call[w].intent IN
  /\ Unresolved(k) /\ call[w].kind = "leave" /\ journals[k].phase = "membership-left"
  /\ journals'[k] # NoJournal
  /\ journals'[k].req = call[w] /\ journals'[k].phase = "recovery-required"
  /\ \A i \in Intent \ {k} : journals'[i] = journals[i]
  /\ journals[k].req = call[w] /\ k \in Intent
  /\ \A i \in Intent : Unresolved(i)' => i = k

LEMMA FailControl ==
  ASSUME TypeOK, ControlInv, NEW w \in Worker, Fail(w) \/ GitFails(w)
  PROVE  /\ ProcType' /\ JournalsType' /\ ControlInv'
         /\ (UNCHANGED journals) \/ Marked(w)
<1>1. ProcType /\ JournalsType /\ IsFiniteSet(permits)
  BY Types DEF ControlInv
<1>2. Release(w) /\ candidates' = candidates
  BY DEF Fail, GitFails
<1>3. CASE UNCHANGED journals
  <2>1. ProcType' /\ ControlInv'
    BY <1>2, <1>3, WaitControl
  <2> QED
    BY <1>1, <1>2, <1>3, <2>1 DEF JournalsType
<1>4. CASE ~UNCHANGED journals
  <2>1. /\ pc[w] = "delete" /\ pc[w] \in WorkStep /\ seen[w] = "membership-left" /\ lease = w
        /\ MovesTo(w, "recovery-required")
    BY <1>4 DEF Fail, GitFails, DeletesLeft, MarkLeave, MovesTo, WorkStep
  <2>2. /\ call[w] \in RequestType /\ call[w].intent \in Intent /\ call[w].kind \in Kind
        /\ Journal(w) = journals[call[w].intent] /\ Journal(w).req = call[w]
        /\ Fitting(call[w].kind, Journal(w).phase) /\ Journal(w).phase = "membership-left"
    BY <2>1, AtJournal
  <2>3. call[w].kind = "leave"
    BY <2>2 DEF Fitting, Kind, JoinPhase, JoinOpen, RemovePhase
  <2>4. Fitting(call[w].kind, "recovery-required") /\ Journal(w).phase # "completed"
    BY <2>2, <2>3 DEF Fitting, LeavePhase
  <2>5. ProcType' /\ IsFiniteSet(permits') /\ candidates' \subseteq Intent /\ pc'[w] = "idle"
        /\ \A v \in Worker \ {w} : /\ pc'[v] = pc[v] /\ call'[v] = call[v] /\ seen'[v] = seen[v]
                                   /\ lease' = v => lease = v
    BY <1>1, <1>2, Released DEF JournalsType
  <2>6. pc'[w] \notin WorkStep /\ pc'[w] \notin {"lane", "find"}
    BY <2>5 DEF WorkStep
  <2>7. /\ JournalsType' /\ ControlInv'
        /\ journals'[call[w].intent] # NoJournal
        /\ journals'[call[w].intent].req = call[w]
        /\ journals'[call[w].intent].phase = "recovery-required"
        /\ \A i \in Intent \ {call[w].intent} : journals'[i] = journals[i]
        /\ Unresolved(call[w].intent)
        /\ \A i \in Intent : Unresolved(i)' => i = call[w].intent
    BY <2>1, <2>4, <2>5, <2>6, PhaseControl
  <2> QED
    BY <2>2, <2>3, <2>5, <2>7 DEF Marked
<1> QED
  BY <1>3, <1>4

-----------------------------------------------------------------------------
(* Rows, terms and seats: what keeps them. *)

\* What the invariants of the rows read is left alone.
LEMMA RowsKept ==
  ASSUME RowInv, ReservedInv, SeatsBounded,
         UNCHANGED <<members, bindings, generation, termVars, journals>>
  PROVE  RowInv' /\ ReservedInv' /\ SeatsBounded'
<1> USE DEF termVars
<1>1. RowInv'
  BY DEF RowInv, BindingInv, OffersCurrent, AlwaysManaged, JournalFacts, Unresolved, Stranded,
         RemovalAccepted, LeaveAccepted, SuccessionAccepted, SuccessorOffered, NeedsSuccessor,
         IsManager, IsPlainMember, Active, OtherManager, LiveOffer
<1>2. ReservedInv'
  BY DEF ReservedInv, JoinOf
<1>3. Seated' = Seated /\ Promised' = Promised
  BY DEF Seated, Promised, PromisedBy, JoinOf
<1> QED
  BY <1>1, <1>2, <1>3 DEF SeatsBounded, ReservationCount

\* Seats are finitely many.
LEMMA SeatsFinite ==
  /\ IsFiniteSet(Seated) /\ IsFiniteSet(Promised)
  /\ Cardinality(Seated) \in Nat /\ Cardinality(Promised) \in Nat
  /\ IsFiniteSet(Seated') /\ IsFiniteSet(Promised')
  /\ Cardinality(Seated') \in Nat /\ Cardinality(Promised') \in Nat
<1>1. /\ Seated \subseteq Member /\ Promised \subseteq Invitation
      /\ Seated' \subseteq Member /\ Promised' \subseteq Invitation
  BY DEF Seated, Promised
<1>2. IsFiniteSet(Member) /\ IsFiniteSet(Invitation)
  BY MembershipAssumption
<1>3. IsFiniteSet(Seated) /\ IsFiniteSet(Promised) /\ IsFiniteSet(Seated') /\ IsFiniteSet(Promised')
  BY <1>1, <1>2, FS_Subset
<1> QED
  BY <1>3, FS_CardinalityType

\* No seat is taken and none promised.
LEMMA SeatsShrink ==
  ASSUME SeatsBounded, Seated' \subseteq Seated, Promised' \subseteq Promised
  PROVE  SeatsBounded'
<1>1. /\ Cardinality(Seated') <= Cardinality(Seated)
      /\ Cardinality(Promised') <= Cardinality(Promised)
  BY SeatsFinite, FS_Subset
<1> QED
  BY <1>1, SeatsFinite, MembershipAssumption DEF SeatsBounded, ReservationCount

\* Invitations only end.
LEMMA InvitationsSettle ==
  ASSUME ReservedInv, SeatsBounded, UNCHANGED <<members, journals>>,
         \A v \in Invitation :
           \/ invitations'[v].state = invitations[v].state
           \/ invitations[v].state = "active" /\ invitations'[v].state \in {"expired", "revoked"}
  PROVE  ReservedInv' /\ SeatsBounded'
<1>1. \A v \in Invitation : JoinOf(v)' = JoinOf(v)
  BY DEF JoinOf
<1>2. ReservedInv'
  BY <1>1 DEF ReservedInv
<1>3. Seated' = Seated /\ Promised' \subseteq Promised
  BY <1>1 DEF Seated, Promised, PromisedBy
<1> QED
  BY <1>2, <1>3, SeatsShrink

SameTerms(o) ==
  /\ offers'[o].source = offers[o].source /\ offers'[o].target = offers[o].target
  /\ offers'[o].purpose = offers[o].purpose /\ offers'[o].generation = offers[o].generation
  /\ offers'[o].targetRev = offers[o].targetRev

\* Offers only expire: what rests on an expired one is Stranded.
LEMMA OffersSettle ==
  ASSUME TypeOK, ControlInv, RowInv, UNCHANGED <<members, bindings, generation, journals>>,
         \A o \in Offer : SameTerms(o) /\ offers'[o].state \in {offers[o].state, "expired"}
  PROVE  RowInv'
<1>1. /\ \A m \in Member : /\ IsManager(m)' = IsManager(m) /\ IsPlainMember(m)' = IsPlainMember(m)
                           /\ Active(m)' = Active(m) /\ OtherManager(m)' = OtherManager(m)
                           /\ NeedsSuccessor(m)' = NeedsSuccessor(m)
      /\ AlwaysManaged' = AlwaysManaged /\ BindingInv' = BindingInv
  BY DEF IsManager, IsPlainMember, Active, OtherManager, NeedsSuccessor, AlwaysManaged, BindingInv
<1>2. \A o \in Offer : LiveOffer(o)' => LiveOffer(o)
  BY DEF LiveOffer
<1>3. OffersCurrent'
  BY <1>1, <1>2 DEF RowInv, OffersCurrent, SameTerms, TypeOK
<1>4. ASSUME NEW i \in Intent, Unresolved(i)' PROVE JournalFacts(i)'
  <2>1. Unresolved(i) /\ JournalFacts(i) /\ journals' = journals /\ Asked(journals[i].req)
    BY <1>4 DEF Unresolved, RowInv, ControlInv, JournalFits
  <2> DEFINE r == journals[i].req
  <2>2. RemovalAccepted(r) => RemovalAccepted(r)'
    BY <1>1, <2>1 DEF RemovalAccepted, Asked, RequestType
  <2>3. r.kind = "leave" /\ journals[i].phase = "prepared" => (LeaveAccepted(offers, r) \/ Stranded(i))'
    <3> SUFFICES ASSUME r.kind = "leave", journals[i].phase = "prepared"
                 PROVE  (LeaveAccepted(offers, r) \/ Stranded(i))'
      OBVIOUS
    <3>1. LeaveAccepted(offers, r) \/ Stranded(i)
      BY <2>1 DEF JournalFacts
    <3>2. r.member \in Member /\ r.token \in Offer \cup {NoOffer} /\ NoOffer \notin Offer
      BY <2>1, MembershipAssumption DEF Asked, RequestType
    <3>3. CASE Stranded(i)
      BY <2>1, <3>2, <3>3 DEF Stranded
    <3>4. CASE LeaveAccepted(offers, r)
      <4>1. Active(r.member)' /\ members'[r.member].rev = r.rev /\ generation' = r.gen
        BY <1>1, <3>2, <3>4 DEF LeaveAccepted
      <4>2. CASE NeedsSuccessor(r.member)
        <5>1. SuccessorOffered(offers, r) /\ NeedsSuccessor(r.member)'
          BY <1>1, <3>2, <3>4, <4>2 DEF LeaveAccepted, SuccessionAccepted
        <5>2. r.token \in Offer /\ offers[r.token].state = "acknowledged"
              /\ offers[r.token].target \in Member
          BY <3>2, <5>1 DEF SuccessorOffered, TypeOK
        <5>3. CASE offers'[r.token].state = "expired"
          BY <2>1, <5>2, <5>3, MembershipAssumption DEF Stranded
        <5>4. CASE offers'[r.token].state = offers[r.token].state
          <6>1. SuccessorOffered(offers, r)'
            BY <1>1, <5>1, <5>2, <5>4 DEF SuccessorOffered, SameTerms
          <6> QED
            BY <4>1, <5>1, <6>1 DEF LeaveAccepted, SuccessionAccepted
        <5> QED
          BY <5>2, <5>3, <5>4
      <4>3. CASE ~NeedsSuccessor(r.member)
        BY <1>1, <3>2, <3>4, <4>1, <4>3 DEF LeaveAccepted, SuccessionAccepted
      <4> QED
        BY <4>2, <4>3
    <3> QED
      BY <3>1, <3>3, <3>4
  <2> QED
    BY <2>1, <2>2, <2>3 DEF JournalFacts
<1> QED
  BY <1>1, <1>3, <1>4 DEF RowInv

\* Nothing is reserved and nothing redeemed in between.
LEMMA ReservedKept ==
  ASSUME ReservedInv, UNCHANGED journals,
         \A v \in Invitation :
           /\ (invitations'[v].state = "redeeming") <=> (invitations[v].state = "redeeming")
           /\ (invitations'[v].state = "redeemed") <=> (invitations[v].state = "redeemed")
  PROVE  ReservedInv'
<1>1. \A v \in Invitation : JoinOf(v)' = JoinOf(v)
  BY DEF JoinOf
<1> QED
  BY <1>1 DEF ReservedInv

\* Administration finds no reserved invitation.
LEMMA AdmittedFinds ==
  ASSUME ReservedInv, ~HasNonterminalMutation
  PROVE  /\ \A i \in Intent : ~Unresolved(i)
         /\ \A v \in Invitation : invitations[v].state # "redeeming"
         /\ UNCHANGED journals => \A i \in Intent : ~Unresolved(i)'
<1>1. \A i \in Intent : ~Unresolved(i)
  BY DEF HasNonterminalMutation
<1>2. ASSUME NEW v \in Invitation, invitations[v].state = "redeeming" PROVE FALSE
  <2>1. PICK i \in JoinOf(v) : journals[i].phase \in JoinOpen
    BY <1>2 DEF ReservedInv
  <2> QED
    BY <1>1, <2>1 DEF JoinOf, Unresolved, JoinOpen
<1> QED
  BY <1>1, <1>2 DEF Unresolved

\* A new invitation promises a seat that is free.
LEMMA CreateInvitationRows ==
  ASSUME TypeOK, ReservedInv, SeatsBounded, CreateInvitation
  PROVE  TermType' /\ ReservedInv' /\ SeatsBounded'
<1>1. TermType
  BY Types
<1>2. /\ ExpiredInvitations \in [Invitation -> InvitationRow]
      /\ \A x \in Invitation :
           ExpiredInvitations[x].state =
             IF invitations[x].state = "active" /\ invitations[x].due THEN "expired"
             ELSE invitations[x].state
  BY <1>1, ExpiredTypes
<1> DEFINE expired == {x \in Invitation : invitations[x].state = "active" /\ invitations[x].due}
<1>3. PICK v \in Invitation :
        /\ invitations[v].state = "none"
        /\ invitations' = IF WithinQuota(ReservationCount - Cardinality(expired))
                          THEN [ExpiredInvitations EXCEPT ![v].state = "active"]
                          ELSE ExpiredInvitations
  BY DEF CreateInvitation
<1>4. offers' = offers /\ journals' = journals /\ members' = members /\ ~HasNonterminalMutation
  BY DEF CreateInvitation, rowVars, Admitted
<1>5. CASE ~WithinQuota(ReservationCount - Cardinality(expired))
  <2>1. invitations' = ExpiredInvitations
    BY <1>3, <1>5
  <2>2. \A x \in Invitation :
           \/ invitations'[x].state = invitations[x].state
           \/ invitations[x].state = "active" /\ invitations'[x].state \in {"expired", "revoked"}
    BY <1>2, <2>1
  <2>3. TermType'
    BY <1>1, <1>2, <1>4, <2>1 DEF TermType
  <2> QED
    BY <1>4, <2>2, <2>3, InvitationsSettle
<1>6. CASE WithinQuota(ReservationCount - Cardinality(expired))
  <2>1. invitations' = [ExpiredInvitations EXCEPT ![v].state = "active"]
    BY <1>3, <1>6
  <2>2. /\ invitations' \in [Invitation -> InvitationRow]
        /\ invitations'[v].state = "active"
        /\ \A x \in Invitation \ {v} : invitations'[x] = ExpiredInvitations[x]
    BY <1>2, <2>1 DEF InvitationRow
  <2>3. ReservedInv'
    <3>1. \A x \in Invitation :
            /\ (invitations'[x].state = "redeeming") <=> (invitations[x].state = "redeeming")
            /\ (invitations'[x].state = "redeemed") <=> (invitations[x].state = "redeemed")
      BY <1>2, <1>3, <2>2
    <3> QED
      BY <1>4, <3>1, ReservedKept
  <2>4. Seated' = Seated
    BY <1>4 DEF Seated
  <2>5. /\ Promised = {x \in Invitation : invitations[x].state = "active"}
        /\ Promised' = {x \in Invitation : invitations'[x].state = "active"}
    <3>1. \A x \in Invitation : invitations[x].state # "redeeming" /\ invitations'[x].state # "redeeming"
      BY <1>2, <1>4, <2>2, AdmittedFinds
    <3> QED
      BY <3>1 DEF Promised, PromisedBy
  <2>6. Promised' = (Promised \ expired) \cup {v} /\ v \notin Promised \ expired
    BY <1>2, <1>3, <2>2, <2>5
  <2>7. IsFiniteSet(expired) /\ Promised \cap expired = expired
    BY <2>5, SeatsFinite, FS_Subset
  <2>8. /\ IsFiniteSet(Promised \ expired)
        /\ Cardinality(Promised \ expired) = Cardinality(Promised) - Cardinality(expired)
    BY <2>7, SeatsFinite, FS_Difference
  <2>9. Cardinality(Promised') = Cardinality(Promised \ expired) + 1
    BY <2>6, <2>8, FS_AddElement
  <2>10. Cardinality(expired) \in Nat
    BY <2>7, FS_CardinalityType
  <2>11. SeatsBounded'
    <3> HIDE DEF expired
    <3> QED
      BY <1>6, <2>4, <2>8, <2>9, <2>10, SeatsFinite, MembershipAssumption
         DEF SeatsBounded, ReservationCount, WithinQuota
  <2>12. TermType'
    BY <1>1, <1>4, <2>2 DEF TermType
  <2> QED
    BY <2>3, <2>11, <2>12
<1> QED
  BY <1>5, <1>6

\* Revoking, listing and expiring invitations.
LEMMA InvitationsEndRows ==
  ASSUME TypeOK, ReservedInv, SeatsBounded, UNCHANGED <<members, journals>>,
         \/ invitations' = ExpiredInvitations
         \/ \E v \in Invitation :
              /\ invitations[v].state = "active" /\ ~invitations[v].due
              /\ invitations' = [ExpiredInvitations EXCEPT ![v].state = "revoked"]
         \/ \E v \in Invitation : invitations' = [invitations EXCEPT ![v].due = TRUE]
         \/ UNCHANGED invitations
  PROVE  /\ invitations' \in [Invitation -> InvitationRow]
         /\ ReservedInv' /\ SeatsBounded'
<1>1. TermType
  BY Types
<1>2. /\ ExpiredInvitations \in [Invitation -> InvitationRow]
      /\ \A x \in Invitation :
           ExpiredInvitations[x].state =
             IF invitations[x].state = "active" /\ invitations[x].due THEN "expired"
             ELSE invitations[x].state
  BY <1>1, ExpiredTypes
<1>3. /\ invitations' \in [Invitation -> InvitationRow]
      /\ \A x \in Invitation :
           \/ invitations'[x].state = invitations[x].state
           \/ invitations[x].state = "active" /\ invitations'[x].state \in {"expired", "revoked"}
  <2>1. CASE invitations' = ExpiredInvitations
    BY <1>2, <2>1
  <2>2. ASSUME NEW v \in Invitation, invitations[v].state = "active",
               invitations' = [ExpiredInvitations EXCEPT ![v].state = "revoked"]
        PROVE  <1>3!:
    BY <1>2, <2>2 DEF InvitationRow
  <2>3. ASSUME NEW v \in Invitation, invitations' = [invitations EXCEPT ![v].due = TRUE]
        PROVE  <1>3!:
    BY <1>1, <2>3 DEF InvitationRow, TermType
  <2>4. CASE UNCHANGED invitations
    BY <1>1, <2>4 DEF TermType
  <2> QED
    BY <2>1, <2>2, <2>3, <2>4
<1> QED
  BY <1>3, InvitationsSettle

\* With no journal open the rows say enough by themselves.
LEMMA QuietRows ==
  ASSUME BindingInv', OffersCurrent', AlwaysManaged', \A i \in Intent : ~Unresolved(i)'
  PROVE  RowInv'
BY DEF RowInv

\* A change of the manager set, by another manager, behind every journal.
LEMMA ManagerChange ==
  ASSUME TypeOK, RowInv, ReservedInv, SeatsBounded, ~HasNonterminalMutation,
         NEW t \in Member, NEW role \in {"manager", "member"}, NEW current \in [Offer -> OfferRow],
         \A o \in Offer : current[o].generation = offers[o].generation
                            /\ (current[o].state \in {"offered", "acknowledged"} => LiveOffer(o)),
         Active(t), role = "member" => OtherManager(t),
         ApplyManagerRoleChange(t, role, current)
  PROVE  RowType' /\ TermType' /\ RowInv' /\ ReservedInv' /\ SeatsBounded'
<1>1. RowType /\ TermType
  BY Types
<1>2. /\ members' = [members EXCEPT ![t].role = role, ![t].rev = @ + 1]
      /\ offers' = SupersededOffers(current) /\ generation' = generation + 1
      /\ UNCHANGED <<bindings, openRequests, invitations, journals>>
  BY DEF ApplyManagerRoleChange
<1>3. /\ members' \in [Member -> MemberRow]
      /\ \A m \in Member : members'[m].status = members[m].status
      /\ \A m \in Member \ {t} : members'[m] = members[m]
      /\ members'[t].role = role
  BY <1>1, <1>2 DEF RowType, MemberRow
<1>4. offers' \in [Offer -> OfferRow] /\ \A o \in Offer : ~LiveOffer(o)'
  <2> DEFINE S == {o \in Offer : current[o].generation = generation}
  <2>1. offers' = CancelOffers(current, S)
    BY <1>2 DEF SupersededOffers
  <2>2. /\ offers' \in [Offer -> OfferRow]
        /\ \A o \in Offer : /\ offers'[o] = current[o] \/ offers'[o].state = "cancelled"
                            /\ o \in S => offers'[o].state \notin {"offered", "acknowledged"}
    BY <2>1, CancelTypes
  <2>3. ASSUME NEW o \in Offer, LiveOffer(o)' PROVE FALSE
    <3>1. offers'[o] = current[o] /\ current[o].state \in {"offered", "acknowledged"}
      BY <2>2, <2>3 DEF LiveOffer
    <3>2. current[o].generation = generation
      BY <3>1 DEF RowInv, OffersCurrent
    <3> QED
      BY <2>2, <3>1, <3>2
  <2> QED
    BY <2>2, <2>3
<1>5. BindingInv'
  BY <1>2, <1>3 DEF RowInv, BindingInv
<1>6. AlwaysManaged'
  <2>1. CASE role = "manager"
    BY <1>3, <2>1 DEF AlwaysManaged, IsManager, Active
  <2>2. CASE role = "member"
    BY <1>3, <2>2 DEF AlwaysManaged, OtherManager, IsManager, Active
  <2> QED
    BY <2>1, <2>2
<1>7. RowInv'
  <2>1. OffersCurrent'
    BY <1>4 DEF OffersCurrent
  <2> QED
    BY <1>2, <1>5, <1>6, <2>1, AdmittedFinds, QuietRows
<1>8. ReservedInv'
  BY <1>2, ReservedKept
<1>9. SeatsBounded'
  <2>1. Seated' = Seated
    BY <1>3 DEF Seated
  <2>2. Promised' \subseteq Promised
    BY <1>2, AdmittedFinds DEF Promised, PromisedBy
  <2> QED
    BY <2>1, <2>2, SeatsShrink
<1>10. RowType' /\ TermType'
  BY <1>1, <1>2, <1>3, <1>4 DEF RowType, TermType
<1> QED
  BY <1>7, <1>8, <1>9, <1>10

LEMMA PromoteRows ==
  ASSUME TypeOK, RowInv, ReservedInv, SeatsBounded, NEW m \in Member, NEW t \in Member,
         PromoteManager(m, t)
  PROVE  RowType' /\ TermType' /\ RowInv' /\ ReservedInv' /\ SeatsBounded'
<1>1. /\ ApplyManagerRoleChange(t, "manager", ExpiredOffers) /\ Active(t) /\ ~HasNonterminalMutation
  BY DEF PromoteManager, IsPlainMember, Admitted
<1>2. TermType
  BY Types
<1>3. ExpiredOffers \in [Offer -> OfferRow]
  BY <1>2, ExpiredTypes
<1>4. \A o \in Offer : ExpiredOffers[o].generation = offers[o].generation
                 /\ (ExpiredOffers[o].state \in {"offered", "acknowledged"} => LiveOffer(o))
  BY <1>2, ExpiredTypes DEF LiveOffer
<1> QED
  BY <1>1, <1>3, <1>4, ManagerChange

LEMMA DemoteRows ==
  ASSUME TypeOK, RowInv, ReservedInv, SeatsBounded, NEW m \in Member, NEW t \in Member,
         DemoteManager(m, t)
  PROVE  RowType' /\ TermType' /\ RowInv' /\ ReservedInv' /\ SeatsBounded'
<1>1. /\ ApplyManagerRoleChange(t, "member", offers) /\ Active(t) /\ OtherManager(t)
      /\ ~HasNonterminalMutation
  BY DEF DemoteManager, NotFinalManager, IsManager, Admitted
<1>2. offers \in [Offer -> OfferRow]
  BY Types DEF TermType
<1>3. \A o \in Offer : offers[o].state \in {"offered", "acknowledged"} => LiveOffer(o)
  BY DEF LiveOffer
<1> QED
  BY <1>1, <1>2, <1>3, ManagerChange

\* A new offer, and an offer that its target or its source answers.
LEMMA OfferRows ==
  ASSUME TypeOK, RowInv, ReservedInv, NEW m \in Member,
         \/ \E t \in Member : CreateOffer(m, t)
         \/ \E o \in Offer : TransitionOffer(m, o)
  PROVE  offers' \in [Offer -> OfferRow] /\ RowInv'
<1>1. RowType /\ TermType
  BY Types
<1>2. UNCHANGED <<members, bindings, generation, journals>> /\ ~HasNonterminalMutation
  BY DEF CreateOffer, TransitionOffer, rowVars, Admitted
<1>3. \A i \in Intent : ~Unresolved(i)'
  BY <1>2, AdmittedFinds
<1>4. /\ ExpiredOffers \in [Offer -> OfferRow]
      /\ \A o \in Offer :
           /\ ExpiredOffers[o].state \in {"offered", "acknowledged"} =>
                ExpiredOffers[o] = offers[o] /\ LiveOffer(o)
           /\ ExpiredOffers[o].source = offers[o].source
           /\ ExpiredOffers[o].target = offers[o].target
           /\ ExpiredOffers[o].purpose = offers[o].purpose
           /\ ExpiredOffers[o].generation = offers[o].generation
           /\ ExpiredOffers[o].targetRev = offers[o].targetRev
  BY <1>1, ExpiredTypes DEF LiveOffer
<1>5. /\ \A n \in Member : IsManager(n)' = IsManager(n) /\ IsPlainMember(n)' = IsPlainMember(n)
      /\ AlwaysManaged' = AlwaysManaged /\ BindingInv' = BindingInv
  BY <1>2 DEF IsManager, IsPlainMember, Active, AlwaysManaged, BindingInv
<1>6. offers' \in [Offer -> OfferRow] /\ OffersCurrent'
  <2>1. ASSUME NEW t \in Member, CreateOffer(m, t) PROVE <1>6!:
    <3>1. PICK o \in Offer, purpose \in {"manager-leave", "manager-promotion"} :
            /\ offers[o].state = "none"
            /\ offers' = [ExpiredOffers EXCEPT ![o] =
                 [state |-> "offered", source |-> m, target |-> t, purpose |-> purpose,
                  generation |-> generation, targetRev |-> members[t].rev, due |-> FALSE]]
      BY <2>1 DEF CreateOffer
    <3> DEFINE row == [state |-> "offered", source |-> m, target |-> t, purpose |-> purpose,
                       generation |-> generation, targetRev |-> members[t].rev, due |-> FALSE]
    <3>2. row \in OfferRow /\ row.source = m /\ row.target = t /\ row.generation = generation
          /\ row.targetRev = members[t].rev /\ row.state = "offered"
      BY <1>1 DEF RowType, MemberRow, OfferRow
    <3> HIDE DEF row
    <3>3. /\ offers' \in [Offer -> OfferRow] /\ offers'[o] = row
          /\ \A p \in Offer \ {o} : offers'[p] = ExpiredOffers[p]
      BY <1>4, <3>1, <3>2 DEF row
    <3>4. IsManager(m) /\ IsPlainMember(t)
          /\ \A p \in Offer : ExpiredOffers[p].state \in {"offered", "acknowledged"} =>
               ExpiredOffers[p].source # m /\ ExpiredOffers[p].target # t
      BY <2>1 DEF CreateOffer, ConflictingOffer
    <3>5. ASSUME NEW p \in Offer, LiveOffer(p)'
          PROVE  /\ IsManager(offers[p].source)' /\ IsPlainMember(offers[p].target)'
                 /\ offers'[p].generation = generation'
                 /\ members'[offers'[p].target].rev = offers'[p].targetRev
                 /\ \A q \in Offer \ {p} : LiveOffer(q)' =>
                      offers'[q].source # offers'[p].source /\ offers'[q].target # offers'[p].target
      <4>1. \A q \in Offer \ {o} : LiveOffer(q)' =>
              /\ LiveOffer(q) /\ offers'[q] = offers[q]
              /\ offers'[q].source # m /\ offers'[q].target # t
        BY <1>4, <3>3, <3>4 DEF LiveOffer
      <4>2. CASE p = o
        BY <1>2, <1>5, <3>2, <3>3, <3>4, <4>1, <4>2
      <4>3. CASE p # o
        <5>1. LiveOffer(p) /\ offers'[p] = offers[p] /\ offers'[p].source # m /\ offers'[p].target # t
          BY <3>5, <4>1, <4>3
        <5>2. /\ IsManager(offers[p].source) /\ IsPlainMember(offers[p].target)
              /\ offers[p].generation = generation
              /\ members[offers[p].target].rev = offers[p].targetRev
              /\ \A q \in Offer \ {p} : LiveOffer(q) =>
                   offers[q].source # offers[p].source /\ offers[q].target # offers[p].target
          BY <5>1 DEF RowInv, OffersCurrent
        <5>3. offers[p].source \in Member /\ offers[p].target \in Member
          BY <1>1 DEF TermType, OfferRow
        <5> QED
          BY <1>2, <1>5, <3>2, <3>3, <4>1, <5>1, <5>2, <5>3
      <4> QED
        BY <4>2, <4>3
    <3> QED
      BY <3>3, <3>5 DEF OffersCurrent
  <2>2. ASSUME NEW o \in Offer, TransitionOffer(m, o) PROVE <1>6!:
    <3>1. PICK next \in {"acknowledged", "declined", "cancelled"} :
            offers' = [ExpiredOffers EXCEPT ![o].state = next]
      BY <2>2 DEF TransitionOffer
    <3>2. LiveOffer(o) /\ ExpiredOffers[o] = offers[o]
      BY <2>2 DEF TransitionOffer, ExpiredOffers
    <3>3. /\ offers' \in [Offer -> OfferRow]
          /\ \A p \in Offer : /\ offers'[p].source = offers[p].source
                              /\ offers'[p].target = offers[p].target
                              /\ offers'[p].generation = offers[p].generation
                              /\ offers'[p].targetRev = offers[p].targetRev
                              /\ offers'[p].state \in {"offered", "acknowledged"} => LiveOffer(p)
      BY <1>4, <3>1, <3>2 DEF OfferRow
    <3>4. \A p \in Offer : offers[p].source \in Member /\ offers[p].target \in Member
      BY <1>1 DEF TermType, OfferRow
    <3> QED
      BY <1>2, <1>5, <3>3, <3>4 DEF RowInv, OffersCurrent, LiveOffer
  <2> QED
    BY <2>1, <2>2
<1> QED
  BY <1>3, <1>5, <1>6, QuietRows DEF RowInv

-----------------------------------------------------------------------------
(* Rows, terms and seats: the journaled operations. *)

\* A journal that keeps its request stays with its invitation.
LEMMA PhaseReserved ==
  ASSUME ReservedInv, UNCHANGED invitations, NEW k \in Intent,
         journals[k] # NoJournal, journals'[k] # NoJournal, journals'[k].req = journals[k].req,
         \A i \in Intent \ {k} : journals'[i] = journals[i],
         journals[k].req.kind = "join" =>
           /\ journals'[k].phase \in JoinOpen <=> journals[k].phase \in JoinOpen
           /\ journals'[k].phase \in {"membership-active", "completed"} <=>
                journals[k].phase \in {"membership-active", "completed"}
  PROVE  ReservedInv' /\ \A v \in Invitation : JoinOf(v)' = JoinOf(v)
<1>1. \A v \in Invitation : JoinOf(v)' = JoinOf(v)
  BY DEF JoinOf
<1>2. ASSUME NEW v \in Invitation, NEW i \in JoinOf(v)
      PROVE  /\ journals'[i].phase \in JoinOpen <=> journals[i].phase \in JoinOpen
             /\ journals'[i].phase \in {"membership-active", "completed"} <=>
                  journals[i].phase \in {"membership-active", "completed"}
  BY <1>2 DEF JoinOf
<1>3. ASSUME NEW v \in Invitation
      PROVE  /\ \A i, j \in JoinOf(v)' : i = j
             /\ (invitations'[v].state = "redeeming") <=>
                  \E i \in JoinOf(v)' : journals'[i].phase \in JoinOpen
             /\ (invitations'[v].state = "redeemed") <=>
                  \E i \in JoinOf(v)' : journals'[i].phase \in {"membership-active", "completed"}
  <2>1. /\ \A i, j \in JoinOf(v) : i = j
        /\ (invitations[v].state = "redeeming") <=>
             \E i \in JoinOf(v) : journals[i].phase \in JoinOpen
        /\ (invitations[v].state = "redeemed") <=>
             \E i \in JoinOf(v) : journals[i].phase \in {"membership-active", "completed"}
    BY DEF ReservedInv
  <2> QED
    BY <1>1, <1>2, <2>1
<1> QED
  BY <1>1, <1>3 DEF ReservedInv

\* A reserved invitation is the one of the unresolved journal.
LEMMA RedeemingIsOpen ==
  ASSUME ReservedInv, NEW k, \A i \in Intent : Unresolved(i) => i = k,
         NEW v \in Invitation, invitations[v].state = "redeeming"
  PROVE  k \in JoinOf(v) /\ journals[k].phase \in JoinOpen /\ \A i \in JoinOf(v) : i = k
<1>1. PICK i \in JoinOf(v) : journals[i].phase \in JoinOpen
  BY DEF ReservedInv
<1>2. Unresolved(i) /\ i \in Intent
  BY <1>1 DEF JoinOf, Unresolved, JoinOpen
<1> QED
  BY <1>1, <1>2 DEF ReservedInv

\* What a transaction of a journaled call may count on.
LEMMA CommitFacts ==
  ASSUME TypeOK, ControlInv, RowInv, NEW w \in Worker, NEW K, NEW P, Committing(w, K, P),
         "completed" \notin P
  PROVE  LET k == call[w].intent IN
         /\ k \in Intent /\ journals[k] # NoJournal /\ journals[k].req = call[w]
         /\ journals[k].phase \in P /\ call[w].kind \in K
         /\ Asked(call[w]) /\ call[w].member \in Member /\ call[w].kind \in Kind
         /\ Fitting(call[w].kind, journals[k].phase)
         /\ Unresolved(k) /\ JournalFacts(k)
         /\ \A i \in Intent : Unresolved(i) => i = k
<1>1. pc[w] \in WorkStep /\ Journal(w).phase \in P /\ call[w].kind \in K
  BY DEF Committing, WorkStep
<1>2. /\ call[w].intent \in Intent /\ Journal(w) # NoJournal
      /\ Journal(w) = journals[call[w].intent] /\ Journal(w).req = call[w]
      /\ JournalFits(call[w].intent) /\ call[w].member \in Member /\ call[w].kind \in Kind
      /\ Fitting(call[w].kind, Journal(w).phase)
  BY <1>1, AtJournal
<1>3. Unresolved(call[w].intent)
  BY <1>1, <1>2 DEF Unresolved
<1>4. JournalFacts(call[w].intent) /\ Asked(call[w])
  BY <1>2, <1>3 DEF RowInv, JournalFits
<1>5. \A i \in Intent : Unresolved(i) => i = call[w].intent
  BY <1>2, <1>3 DEF ControlInv
<1> QED
  BY <1>1, <1>2, <1>3, <1>4, <1>5

\* A step that records what a Git command did changes no row.
LEMMA RecordRows ==
  ASSUME RowInv, ReservedInv, SeatsBounded,
         UNCHANGED <<members, bindings, generation, termVars>>, NEW k \in Intent,
         journals[k] # NoJournal, journals'[k] # NoJournal, journals'[k].req = journals[k].req,
         \A i \in Intent \ {k} : journals'[i] = journals[i],
         Unresolved(k), \A i \in Intent : Unresolved(i) => i = k,
         journals[k].req.kind = "join" =>
           \/ /\ journals[k].phase = "membership-pending"
              /\ journals'[k].phase = "personal-ref-created"
           \/ journals[k].phase = "membership-active" /\ journals'[k].phase = "completed",
         journals[k].req.kind # "join" =>
           journals[k].phase \in ExitDone /\ journals'[k].phase \in ExitDone \cup {"completed"}
  PROVE  RowInv' /\ ReservedInv' /\ SeatsBounded'
<1>1. UNCHANGED <<members, bindings, generation, invitations, offers>>
  BY DEF termVars
<1>2. ReservedInv' /\ \A v \in Invitation : JoinOf(v)' = JoinOf(v)
  BY <1>1, PhaseReserved DEF JoinOpen
<1>3. SeatsBounded'
  <2>1. Seated' = Seated
    BY <1>1 DEF Seated
  <2>2. ASSUME NEW v \in Promised' PROVE v \in Promised
    <3>1. v \in Invitation /\ PromisedBy(v)'
      BY <2>2 DEF Promised
    <3>2. CASE invitations[v].state = "active"
      BY <3>1, <3>2 DEF Promised, PromisedBy
    <3>3. CASE invitations[v].state # "active"
      <4>1. /\ invitations[v].state = "redeeming"
            /\ ~ \E i \in JoinOf(v) :
                   /\ journals'[i].phase \in {"membership-pending", "personal-ref-created"}
                   /\ members[journals'[i].req.member].status = "pending"
        BY <1>1, <1>2, <3>1, <3>3 DEF PromisedBy
      <4>2. /\ k \in JoinOf(v) /\ journals[k].phase \in JoinOpen
            /\ \A i \in JoinOf(v) : i = k
        BY <3>1, <4>1, RedeemingIsOpen
      <4>3. journals[k].phase = "membership-pending" /\ journals'[k].phase = "personal-ref-created"
        BY <4>2 DEF JoinOf, JoinOpen
      <4>4. members[journals[k].req.member].status # "pending"
        BY <4>1, <4>2, <4>3
      <4> QED
        BY <3>1, <4>1, <4>2, <4>4 DEF Promised, PromisedBy
    <3> QED
      BY <3>2, <3>3
  <2> QED
    BY <2>1, <2>2, SeatsShrink
<1>4. RowInv'
  <2>1. BindingInv' /\ OffersCurrent' /\ AlwaysManaged'
    BY <1>1 DEF RowInv, BindingInv, OffersCurrent, AlwaysManaged, LiveOffer, IsManager,
                IsPlainMember, Active
  <2>2. ASSUME NEW i \in Intent, Unresolved(i)' PROVE JournalFacts(i)'
    <3>1. i = k /\ JournalFacts(k)
      BY <2>2 DEF Unresolved, RowInv
    <3>2. /\ journals'[k].phase # "completed" /\ journals'[k].phase # "prepared"
      BY <2>2, <3>1 DEF Unresolved, ExitDone
    <3>3. CASE journals[k].req.kind = "join"
      BY <1>1, <3>1, <3>2, <3>3 DEF JournalFacts
    <3>4. CASE journals[k].req.kind # "join"
      BY <1>1, <3>1, <3>2, <3>4 DEF JournalFacts
    <3> QED
      BY <3>3, <3>4
  <2> QED
    BY <2>1, <2>2 DEF RowInv
<1> QED
  BY <1>2, <1>3, <1>4

\* A member that is not active changes: no offer and no manager is touched.
LEMMA OutsiderChanges ==
  ASSUME TypeOK, RowInv, UNCHANGED <<generation, offers>>, NEW m \in Member, ~Active(m),
         \A n \in Member \ {m} : members'[n] = members[n]
  PROVE  OffersCurrent' /\ AlwaysManaged'
<1>1. \A n \in Member : Active(n) => members'[n] = members[n]
  OBVIOUS
<1>2. AlwaysManaged'
  BY <1>1 DEF RowInv, AlwaysManaged, IsManager, Active
<1>3. \A o \in Offer : offers[o].source \in Member /\ offers[o].target \in Member
  BY DEF TypeOK
<1>4. OffersCurrent'
  BY <1>1, <1>3 DEF RowInv, OffersCurrent, LiveOffer, IsManager, IsPlainMember, Active
<1> QED
  BY <1>2, <1>4

\* A pending member takes the seat that its invitation promised.
LEMMA InsertRows ==
  ASSUME TypeOK, ControlInv, RowInv, ReservedInv, SeatsBounded, NEW w \in Worker,
         InsertPendingMember(w)
  PROVE  /\ ProcType' /\ JournalsType' /\ ControlInv'
         /\ RowType' /\ TermType' /\ RowInv' /\ ReservedInv' /\ SeatsBounded'
<1> DEFINE k == call[w].intent
<1> DEFINE m == call[w].member
<1>1. Committing(w, {"join"}, {"prepared"}) /\ Advance(w, "membership-pending")
      /\ candidates' = candidates
  BY DEF InsertPendingMember
<1>2. /\ k \in Intent /\ journals[k] # NoJournal /\ journals[k].req = call[w]
      /\ journals[k].phase = "prepared" /\ call[w].kind = "join" /\ m \in Member
      /\ Asked(call[w]) /\ Unresolved(k) /\ JournalFacts(k)
      /\ \A i \in Intent : Unresolved(i) => i = k
  BY <1>1, CommitFacts
<1>3. Fitting(call[w].kind, "membership-pending")
  BY <1>2 DEF Fitting, JoinPhase, JoinOpen
<1>4. /\ ProcType' /\ JournalsType' /\ ControlInv'
      /\ journals'[k] # NoJournal /\ journals'[k].req = call[w]
      /\ journals'[k].phase = "membership-pending"
      /\ \A i \in Intent \ {k} : journals'[i] = journals[i]
      /\ \A i \in Intent : Unresolved(i)' => i = k
  BY <1>1, <1>3, AdvanceControl
<1>5. members[m].status = "none"
  BY <1>2 DEF JournalFacts
<1>6. RowType /\ TermType
  BY Types
<1>7. /\ members' \in [Member -> MemberRow] /\ members'[m].status = "pending"
      /\ \A n \in Member \ {m} : members'[n] = members[n]
      /\ bindings' \in [Member -> {"none", "pending", "active", "revoked"}]
      /\ bindings'[m] = "pending" /\ \A n \in Member \ {m} : bindings'[n] = bindings[n]
      /\ UNCHANGED <<generation, openRequests, invitations, offers>>
  BY <1>2, <1>6 DEF InsertPendingMember, RowType, MemberRow, Status, termVars
<1>8. RowType' /\ TermType'
  BY <1>6, <1>7 DEF RowType, TermType
<1>9. ReservedInv' /\ \A v \in Invitation : JoinOf(v)' = JoinOf(v)
  BY <1>2, <1>4, <1>7, PhaseReserved DEF JoinOpen
<1>10. RowInv'
  <2>1. OffersCurrent' /\ AlwaysManaged'
    BY <1>2, <1>5, <1>7, OutsiderChanges DEF Active
  <2>2. BindingInv'
    BY <1>2, <1>7 DEF RowInv, BindingInv
  <2>3. ASSUME NEW i \in Intent, Unresolved(i)' PROVE JournalFacts(i)'
    BY <1>2, <1>4, <1>7, <2>3 DEF JournalFacts
  <2> QED
    BY <1>4, <2>1, <2>2, <2>3 DEF RowInv
<1>11. SeatsBounded'
  <2> DEFINE v == call[w].token
  <2>1. v \in Invitation /\ k \in JoinOf(v)
    BY <1>2 DEF Asked, JoinOf
  <2>2. \A i \in JoinOf(v) : i = k
    BY <2>1 DEF ReservedInv
  <2>3. invitations[v].state = "redeeming"
    BY <1>2, <2>1 DEF ReservedInv, JoinOpen
  <2>4. v \in Promised
    BY <1>2, <2>1, <2>2, <2>3 DEF Promised, PromisedBy
  <2>5. ASSUME NEW x \in Promised' PROVE x \in Promised /\ x # v
    <3>1. x \in Invitation /\ PromisedBy(x)'
      BY <2>5 DEF Promised
    <3>2. CASE invitations[x].state = "active"
      BY <2>3, <3>1, <3>2 DEF Promised, PromisedBy
    <3>3. CASE invitations[x].state # "active"
      <4>1. /\ invitations[x].state = "redeeming"
            /\ ~ \E i \in JoinOf(x) :
                   /\ journals'[i].phase \in {"membership-pending", "personal-ref-created"}
                   /\ members'[journals'[i].req.member].status = "pending"
        BY <1>7, <1>9, <3>1, <3>3 DEF PromisedBy
      <4>2. k \in JoinOf(x)
        BY <1>2, <3>1, <4>1, RedeemingIsOpen
      <4> QED
        BY <1>4, <1>7, <4>1, <4>2
    <3> QED
      BY <3>2, <3>3
  <2>6. Seated' = Seated \cup {m} /\ m \notin Seated
    BY <1>2, <1>5, <1>7 DEF Seated
  <2>7. Promised' \subseteq Promised \ {v}
    BY <2>5
  <2>8. Cardinality(Seated') = Cardinality(Seated) + 1
    BY <2>6, SeatsFinite, FS_AddElement
  <2>9. /\ IsFiniteSet(Promised \ {v})
        /\ Cardinality(Promised \ {v}) = Cardinality(Promised) - 1
    BY <2>4, SeatsFinite, FS_RemoveElement
  <2>10. Cardinality(Promised') <= Cardinality(Promised \ {v})
    BY <2>7, <2>9, FS_Subset
  <2> QED
    BY <2>8, <2>9, <2>10, SeatsFinite, MembershipAssumption DEF SeatsBounded, ReservationCount
<1> QED
  BY <1>4, <1>8, <1>9, <1>10, <1>11

\* The activation redeems the invitation.
LEMMA ActivateRows ==
  ASSUME TypeOK, ControlInv, RowInv, ReservedInv, SeatsBounded, NEW w \in Worker, ActivateJoin(w)
  PROVE  /\ ProcType' /\ JournalsType' /\ ControlInv'
         /\ RowType' /\ TermType' /\ RowInv' /\ ReservedInv' /\ SeatsBounded'
<1> DEFINE k == call[w].intent
<1> DEFINE m == call[w].member
<1> DEFINE v == call[w].token
<1>1. Committing(w, {"join"}, {"personal-ref-created"}) /\ Advance(w, "membership-active")
      /\ candidates' = candidates
  BY DEF ActivateJoin
<1>2. /\ k \in Intent /\ journals[k] # NoJournal /\ journals[k].req = call[w]
      /\ journals[k].phase = "personal-ref-created" /\ call[w].kind = "join" /\ m \in Member
      /\ Asked(call[w]) /\ Unresolved(k)
      /\ \A i \in Intent : Unresolved(i) => i = k
  BY <1>1, CommitFacts
<1>3. Fitting(call[w].kind, "membership-active")
  BY <1>2 DEF Fitting, JoinPhase
<1>4. /\ ProcType' /\ JournalsType' /\ ControlInv'
      /\ journals'[k] # NoJournal /\ journals'[k].req = call[w]
      /\ journals'[k].phase = "membership-active"
      /\ \A i \in Intent \ {k} : journals'[i] = journals[i]
      /\ \A i \in Intent : Unresolved(i)' => i = k
  BY <1>1, <1>3, AdvanceControl
<1>5. RowType /\ TermType /\ v \in Invitation
  BY <1>2, Types DEF Asked
<1>6. /\ members[m].status = "pending" /\ invitations[v].state = "redeeming"
      /\ members' = [members EXCEPT ![m].status = "active", ![m].rev = 2]
      /\ bindings' = [bindings EXCEPT ![m] = "active"]
      /\ invitations' = [invitations EXCEPT ![v].state = "redeemed"]
      /\ UNCHANGED <<generation, openRequests, offers>>
  BY DEF ActivateJoin
<1>7. /\ members' \in [Member -> MemberRow] /\ members'[m].status = "active"
      /\ \A n \in Member \ {m} : members'[n] = members[n]
      /\ bindings' \in [Member -> {"none", "pending", "active", "revoked"}]
      /\ bindings'[m] = "active" /\ \A n \in Member \ {m} : bindings'[n] = bindings[n]
      /\ invitations' \in [Invitation -> InvitationRow] /\ invitations'[v].state = "redeemed"
      /\ \A x \in Invitation \ {v} : invitations'[x] = invitations[x]
  <2>1. /\ members' \in [Member -> MemberRow] /\ members'[m].status = "active"
        /\ \A n \in Member \ {m} : members'[n] = members[n]
    BY <1>2, <1>5, <1>6 DEF RowType, MemberRow, Status
  <2>2. /\ bindings' \in [Member -> {"none", "pending", "active", "revoked"}]
        /\ bindings'[m] = "active" /\ \A n \in Member \ {m} : bindings'[n] = bindings[n]
    BY <1>2, <1>5, <1>6 DEF RowType
  <2>3. /\ invitations' \in [Invitation -> InvitationRow] /\ invitations'[v].state = "redeemed"
        /\ \A x \in Invitation \ {v} : invitations'[x] = invitations[x]
    BY <1>5, <1>6 DEF TermType, InvitationRow
  <2> QED
    BY <2>1, <2>2, <2>3
<1>8. RowType' /\ TermType'
  BY <1>5, <1>6, <1>7 DEF RowType, TermType
<1>9. \A x \in Invitation : JoinOf(x)' = JoinOf(x)
  BY <1>2, <1>4 DEF JoinOf
<1>10. k \in JoinOf(v) /\ \A x \in Invitation \ {v} : k \notin JoinOf(x)
  BY <1>2, <1>5 DEF JoinOf
<1>11. ReservedInv'
  <2>1. ASSUME NEW x \in Invitation
        PROVE  /\ \A i, j \in JoinOf(x) : i = j
               /\ (invitations'[x].state = "redeeming") <=>
                    \E i \in JoinOf(x) : journals'[i].phase \in JoinOpen
               /\ (invitations'[x].state = "redeemed") <=>
                    \E i \in JoinOf(x) : journals'[i].phase \in {"membership-active", "completed"}
    <3>1. /\ \A i, j \in JoinOf(x) : i = j
          /\ (invitations[x].state = "redeeming") <=>
               \E i \in JoinOf(x) : journals[i].phase \in JoinOpen
          /\ (invitations[x].state = "redeemed") <=>
               \E i \in JoinOf(x) : journals[i].phase \in {"membership-active", "completed"}
      BY DEF ReservedInv
    <3>2. CASE x = v
      BY <1>4, <1>7, <1>10, <3>1, <3>2 DEF JoinOpen
    <3>3. CASE x # v
      <4>1. \A i \in JoinOf(x) : journals'[i] = journals[i]
        BY <1>4, <1>10, <3>3 DEF JoinOf
      <4> QED
        BY <1>7, <3>1, <3>3, <4>1
    <3> QED
      BY <3>2, <3>3
  <2> QED
    BY <1>9, <2>1 DEF ReservedInv
<1>12. RowInv'
  <2>1. OffersCurrent' /\ AlwaysManaged'
    BY <1>2, <1>6, <1>7, OutsiderChanges DEF Active
  <2>2. BindingInv'
    BY <1>2, <1>7 DEF RowInv, BindingInv
  <2>3. ASSUME NEW i \in Intent, Unresolved(i)' PROVE JournalFacts(i)'
    BY <1>2, <1>4, <1>7, <2>3 DEF JournalFacts
  <2> QED
    BY <1>4, <2>1, <2>2, <2>3 DEF RowInv
<1>13. SeatsBounded'
  <2>1. Seated' = Seated
    BY <1>2, <1>6, <1>7 DEF Seated
  <2>2. ASSUME NEW x \in Promised' PROVE x \in Promised
    <3>1. x \in Invitation /\ x # v /\ PromisedBy(x)'
      BY <1>7, <2>2 DEF Promised, PromisedBy
    <3>2. invitations[x].state # "redeeming"
      BY <1>2, <1>10, <3>1, RedeemingIsOpen
    <3> QED
      BY <1>7, <3>1, <3>2 DEF Promised, PromisedBy
  <2> QED
    BY <2>1, <2>2, SeatsShrink
<1> QED
  BY <1>4, <1>8, <1>11, <1>12, <1>13

\* Whoever may leave leaves a manager behind, and a successor is somebody else.
LEMMA ExitKeepsManager ==
  ASSUME TypeOK, RowInv, NEW r, Asked(r), Active(r.member),
         \/ r.kind = "remove" /\ RemovalAccepted(r)
         \/ r.kind = "leave" /\ LeaveAccepted(offers, r)
  PROVE  LET consumed == IF r.kind = "remove" THEN NoOffer ELSE r.token
             heir == IF consumed = NoOffer THEN {} ELSE {offers[consumed].target}
         IN /\ heir \subseteq Member \ {r.member}
            /\ \A n \in heir : Active(n)
            /\ heir # {} => IsManager(r.member) /\ consumed \in Offer
            /\ heir = {} => consumed = NoOffer
                              /\ \E n \in Member \ {r.member} : IsManager(n)
<1> DEFINE consumed == IF r.kind = "remove" THEN NoOffer ELSE r.token
<1>1. r.member \in Member /\ r.actor \in Member
  BY DEF Asked, RequestType
<1>2. CASE r.kind = "remove" /\ RemovalAccepted(r)
  <2>1. IsManager(r.actor) /\ r.actor # r.member /\ consumed = NoOffer
    BY <1>2 DEF RemovalAccepted
  <2> QED
    BY <1>1, <2>1
<1>3. CASE r.kind = "leave" /\ LeaveAccepted(offers, r) /\ NeedsSuccessor(r.member)
  <2>1. SuccessorOffered(offers, r) /\ consumed = r.token
    BY <1>3 DEF LeaveAccepted, SuccessionAccepted
  <2>2. r.token \in Offer /\ IsPlainMember(offers[r.token].target) /\ IsManager(r.member)
        /\ r.token # NoOffer
    BY <1>3, <2>1 DEF SuccessorOffered, Asked, NeedsSuccessor
  <2>3. offers[r.token].target \in Member
    BY <2>2 DEF TypeOK
  <2> QED
    BY <2>1, <2>2, <2>3 DEF IsPlainMember, IsManager
<1>4. CASE r.kind = "leave" /\ LeaveAccepted(offers, r) /\ ~NeedsSuccessor(r.member)
  <2>1. consumed = NoOffer
    BY <1>4 DEF LeaveAccepted, SuccessionAccepted
  <2>2. \E n \in Member \ {r.member} : IsManager(n)
    BY <1>1, <1>4 DEF NeedsSuccessor, OtherManager, RowInv, AlwaysManaged
  <2> QED
    BY <2>1, <2>2
<1> QED
  BY <1>2, <1>3, <1>4

\* A change of a member's row moves its revision on.
LEMMA MemberRowChanges ==
  ASSUME NEW row \in MemberRow
  PROVE  /\ \A status \in Status :
              /\ [row EXCEPT !.status = status, !.rev = row.rev + 1] \in MemberRow
              /\ [row EXCEPT !.status = status, !.rev = row.rev + 1].status = status
         /\ [row EXCEPT !.role = "manager", !.rev = row.rev + 1] \in MemberRow
         /\ [row EXCEPT !.role = "manager", !.rev = row.rev + 1].role = "manager"
         /\ [row EXCEPT !.role = "manager", !.rev = row.rev + 1].status = row.status
<1>1. ASSUME NEW n \in Nat
      PROVE  /\ \A status \in Status :
                  /\ [row EXCEPT !.status = status, !.rev = n] \in MemberRow
                  /\ [row EXCEPT !.status = status, !.rev = n].status = status
             /\ [row EXCEPT !.role = "manager", !.rev = n] \in MemberRow
             /\ [row EXCEPT !.role = "manager", !.rev = n].role = "manager"
             /\ [row EXCEPT !.role = "manager", !.rev = n].status = row.status
  BY DEF MemberRow
<1>2. row.rev + 1 \in Nat
  BY DEF MemberRow
<1> QED
  BY <1>1, <1>2

\* An exit: its offers end with it, and nobody is left without a manager.
LEMMA ExitRows ==
  ASSUME TypeOK, ControlInv, RowInv, NEW r, Asked(r), Active(r.member),
         \/ r.kind = "remove" /\ RemovalAccepted(r)
         \/ r.kind = "leave" /\ LeaveAccepted(offers, r),
         NEW status \in {"left", "revoked"}, UNCHANGED invitations,
         ApplyMemberExit(r.member, status, IF r.kind = "remove" THEN NoOffer ELSE r.token)
  PROVE  /\ RowType' /\ TermType'
         /\ BindingInv' /\ OffersCurrent' /\ AlwaysManaged'
         /\ members'[r.member].status = status
         /\ Seated' \subseteq Seated
<1> DEFINE m == r.member
<1> DEFINE consumed == IF r.kind = "remove" THEN NoOffer ELSE r.token
<1> DEFINE heir == IF consumed = NoOffer THEN {} ELSE {offers[consumed].target}
<1> DEFINE current == IF consumed = NoOffer THEN offers ELSE [offers EXCEPT ![consumed].state = "consumed"]
<1> DEFINE S == {o \in Offer : \/ current[o].source = m \/ current[o].target = m
                               \/ IsManager(m) /\ current[o].generation = generation}
<1>1. RowType /\ TermType /\ m \in Member
  BY Types DEF Asked, RequestType
<1>2. /\ heir \subseteq Member \ {m} /\ \A n \in heir : Active(n)
      /\ heir # {} => IsManager(m) /\ consumed \in Offer
      /\ heir = {} => consumed = NoOffer /\ \E n \in Member \ {m} : IsManager(n)
  BY ExitKeepsManager
<1>3. /\ members' = [n \in Member |->
           IF n = m THEN [members[n] EXCEPT !.status = status, !.rev = @ + 1]
           ELSE IF n \in heir THEN [members[n] EXCEPT !.role = "manager", !.rev = @ + 1]
           ELSE members[n]]
      /\ bindings' = [bindings EXCEPT ![m] = "revoked"]
      /\ generation' = IF IsManager(m) THEN generation + 1 ELSE generation
      /\ openRequests' = openRequests \ {m}
      /\ offers' = CancelOffers(current, S)
  BY DEF ApplyMemberExit, OffersAfterExit
<1>4. /\ members' \in [Member -> MemberRow]
      /\ members'[m].status = status
      /\ \A n \in Member \ {m} : members'[n].status = members[n].status
      /\ \A n \in Member \ {m} : n \notin heir => members'[n] = members[n]
      /\ \A n \in heir : members'[n].role = "manager"
  <2> HIDE DEF heir
  <2>1. ASSUME NEW n \in Member
        PROVE  /\ members'[n] \in MemberRow
               /\ n = m => members'[n].status = status
               /\ n # m => members'[n].status = members[n].status
               /\ n # m /\ n \notin heir => members'[n] = members[n]
               /\ n # m /\ n \in heir => members'[n].role = "manager"
    <3>1. members[n] \in MemberRow
      BY <1>1 DEF RowType
    <3>2. members'[n] = IF n = m THEN [members[n] EXCEPT !.status = status, !.rev = @ + 1]
                        ELSE IF n \in heir THEN [members[n] EXCEPT !.role = "manager", !.rev = @ + 1]
                        ELSE members[n]
      BY <1>3
    <3>3. CASE n = m
      <4>1. members'[n] = [members[n] EXCEPT !.status = status, !.rev = @ + 1]
        BY <3>2, <3>3
      <4>2. status \in Status
        BY DEF Status
      <4>3. /\ [members[n] EXCEPT !.status = status, !.rev = members[n].rev + 1].status = status
            /\ [members[n] EXCEPT !.status = status, !.rev = members[n].rev + 1] \in MemberRow
        BY <3>1, <4>2, MemberRowChanges
      <4> QED
        BY <3>3, <4>1, <4>3
    <3>4. CASE n # m /\ n \in heir
      <4>1. members'[n] = [members[n] EXCEPT !.role = "manager", !.rev = @ + 1]
        BY <3>2, <3>4
      <4>2. /\ [members[n] EXCEPT !.role = "manager", !.rev = members[n].rev + 1].role = "manager"
            /\ [members[n] EXCEPT !.role = "manager", !.rev = members[n].rev + 1].status = members[n].status
            /\ [members[n] EXCEPT !.role = "manager", !.rev = members[n].rev + 1] \in MemberRow
        BY <3>1, MemberRowChanges
      <4> QED
        BY <3>4, <4>1, <4>2
    <3>5. CASE n # m /\ n \notin heir
      BY <3>1, <3>2, <3>5
    <3> QED
      BY <3>3, <3>4, <3>5
  <2> QED
    BY <1>1, <1>2, <1>3, <2>1
<1>5. /\ bindings' \in [Member -> {"none", "pending", "active", "revoked"}]
      /\ bindings'[m] = "revoked" /\ \A n \in Member \ {m} : bindings'[n] = bindings[n]
  BY <1>1, <1>3 DEF RowType
<1>6. /\ current \in [Offer -> OfferRow]
      /\ \A o \in Offer : /\ current[o].source = offers[o].source
                          /\ current[o].target = offers[o].target
                          /\ current[o].generation = offers[o].generation
                          /\ current[o].targetRev = offers[o].targetRev
                          /\ current[o].state \in {"offered", "acknowledged"} => LiveOffer(o)
  <2>1. CASE consumed = NoOffer
    BY <1>1, <2>1 DEF TermType, LiveOffer
  <2>2. CASE consumed # NoOffer
    <3>1. current = [offers EXCEPT ![consumed].state = "consumed"] /\ offers \in [Offer -> OfferRow]
      BY <1>1, <2>2 DEF TermType
    <3> HIDE DEF current, consumed
    <3> QED
      BY <3>1 DEF OfferRow, LiveOffer
  <2> QED
    BY <2>1, <2>2
<1>7. /\ offers' \in [Offer -> OfferRow]
      /\ \A o \in Offer : LiveOffer(o)' =>
           /\ LiveOffer(o) /\ ~IsManager(m)
           /\ offers'[o].source = offers[o].source /\ offers'[o].target = offers[o].target
           /\ offers'[o].generation = offers[o].generation
           /\ offers'[o].targetRev = offers[o].targetRev
           /\ offers[o].source # m /\ offers[o].target # m
  <2>1. /\ offers' \in [Offer -> OfferRow]
        /\ \A o \in Offer :
             /\ offers'[o] = current[o] \/ offers'[o].state = "cancelled"
             /\ o \in S => offers'[o].state \notin {"offered", "acknowledged"}
    <3> HIDE DEF current, S
    <3> QED
      BY <1>3, <1>6, CancelTypes
  <2>2. ASSUME NEW o \in Offer, LiveOffer(o)'
        PROVE  /\ offers'[o] = current[o] /\ o \notin S /\ LiveOffer(o)
               /\ offers[o].generation = generation
    <3>1. offers'[o] = current[o] /\ o \notin S /\ current[o].state \in {"offered", "acknowledged"}
      BY <2>1, <2>2 DEF LiveOffer
    <3>2. LiveOffer(o)
      BY <1>6, <3>1
    <3> QED
      BY <3>1, <3>2 DEF RowInv, OffersCurrent
  <2> HIDE DEF current
  <2> QED
    BY <1>6, <2>1, <2>2 DEF S
<1>8. RowType' /\ TermType'
  <2>1. generation \in Nat /\ generation' \in {generation, generation + 1}
    BY <1>1, <1>3 DEF RowType
  <2>2. openRequests' \subseteq Member
    BY <1>1, <1>3 DEF RowType
  <2> QED
    BY <1>1, <1>4, <1>5, <1>7, <2>1, <2>2 DEF RowType, TermType
<1>9. BindingInv'
  BY <1>1, <1>4, <1>5 DEF RowInv, BindingInv
<1>10. OffersCurrent'
  <2>1. ASSUME NEW o \in Offer, LiveOffer(o)'
        PROVE  /\ IsManager(offers[o].source)' /\ IsPlainMember(offers[o].target)'
               /\ offers'[o].generation = generation'
               /\ members'[offers'[o].target].rev = offers'[o].targetRev
    <3>1. /\ LiveOffer(o) /\ ~IsManager(m)
          /\ offers'[o].source = offers[o].source /\ offers'[o].target = offers[o].target
          /\ offers'[o].generation = offers[o].generation
          /\ offers'[o].targetRev = offers[o].targetRev
          /\ offers[o].source # m /\ offers[o].target # m
      BY <1>7, <2>1
    <3>2. offers[o].source \in Member /\ offers[o].target \in Member
      BY <1>1 DEF TermType, OfferRow
    <3>3. /\ members'[offers[o].source] = members[offers[o].source]
          /\ members'[offers[o].target] = members[offers[o].target]
          /\ generation' = generation
      <4> HIDE DEF heir
      <4> QED
        BY <1>2, <1>3, <1>4, <3>1, <3>2
    <3> QED
      BY <3>1, <3>3 DEF RowInv, OffersCurrent, IsManager, IsPlainMember, Active
  <2>2. ASSUME NEW o \in Offer, LiveOffer(o)', NEW p \in Offer \ {o}, LiveOffer(p)'
        PROVE  offers'[p].source # offers'[o].source /\ offers'[p].target # offers'[o].target
    <3>1. LiveOffer(o) /\ LiveOffer(p)
      BY <1>7, <2>2
    <3>2. offers[p].source # offers[o].source /\ offers[p].target # offers[o].target
      BY <3>1 DEF RowInv, OffersCurrent
    <3> QED
      BY <1>7, <2>2, <3>2
  <2> QED
    BY <2>1, <2>2 DEF OffersCurrent
<1>11. AlwaysManaged'
  <2> HIDE DEF heir
  <2>1. CASE heir = {}
    BY <1>2, <1>4, <2>1 DEF AlwaysManaged, IsManager, Active
  <2>2. CASE heir # {}
    BY <1>2, <1>4, <2>2 DEF AlwaysManaged, IsManager, Active
  <2> QED
    BY <2>1, <2>2
<1>12. Seated' \subseteq Seated
  BY <1>4 DEF Seated
<1> QED
  BY <1>4, <1>8, <1>9, <1>10, <1>11, <1>12

\* The transaction that settles a removal or a leave.
LEMMA SettleRows ==
  ASSUME TypeOK, ControlInv, RowInv, ReservedInv, SeatsBounded, NEW w \in Worker,
         SettleRemoval(w) \/ SettleLeave(w)
  PROVE  /\ ProcType' /\ JournalsType' /\ ControlInv'
         /\ RowType' /\ TermType' /\ RowInv' /\ ReservedInv' /\ SeatsBounded'
<1> DEFINE k == call[w].intent
<1> DEFINE r == call[w]
<1>1. PICK kind \in {"remove", "leave"}, status \in {"left", "revoked"},
           next \in {"membership-revoked", "membership-left"} :
        /\ Committing(w, {kind}, {"prepared"}) /\ Advance(w, next)
        /\ kind = "remove" => next = "membership-revoked" /\ RemovalAccepted(r)
        /\ kind = "leave" => next = "membership-left" /\ LeaveAccepted(offers, r)
        /\ ApplyMemberExit(r.member, status, IF kind = "remove" THEN NoOffer ELSE r.token)
        /\ UNCHANGED <<invitations, candidates>>
  <2>1. CASE SettleRemoval(w)
    BY <2>1 DEF SettleRemoval
  <2>2. CASE SettleLeave(w)
    BY <2>2 DEF SettleLeave
  <2> QED
    BY <2>1, <2>2
<1>2. /\ k \in Intent /\ journals[k] # NoJournal /\ journals[k].req = r
      /\ journals[k].phase = "prepared" /\ r.kind = kind /\ Asked(r)
      /\ \A i \in Intent : Unresolved(i) => i = k
  BY <1>1, CommitFacts
<1>3. Fitting(r.kind, next)
  BY <1>1, <1>2 DEF Fitting, RemovePhase, LeavePhase
<1>4. /\ ProcType' /\ JournalsType' /\ ControlInv'
      /\ journals'[k] # NoJournal /\ journals'[k].req = r /\ journals'[k].phase = next
      /\ \A i \in Intent \ {k} : journals'[i] = journals[i]
      /\ \A i \in Intent : Unresolved(i)' => i = k
  BY <1>1, <1>3, AdvanceControl
<1>5. Active(r.member) /\ (\/ r.kind = "remove" /\ RemovalAccepted(r)
                           \/ r.kind = "leave" /\ LeaveAccepted(offers, r))
  BY <1>1, <1>2 DEF RemovalAccepted, LeaveAccepted
<1>6. ApplyMemberExit(r.member, status, IF r.kind = "remove" THEN NoOffer ELSE r.token)
      /\ UNCHANGED invitations
  BY <1>1, <1>2
<1>7. /\ RowType' /\ TermType'
      /\ BindingInv' /\ OffersCurrent' /\ AlwaysManaged'
      /\ members'[r.member].status = status
      /\ Seated' \subseteq Seated
  BY <1>2, <1>5, <1>6, ExitRows
<1>8. ReservedInv'
  BY <1>1, <1>2, <1>4, PhaseReserved
<1>9. RowInv'
  <2>1. ASSUME NEW i \in Intent, Unresolved(i)' PROVE JournalFacts(i)'
    <3>1. i = k /\ journals'[i].req = r /\ journals'[i].phase = next /\ r.kind = kind
      BY <1>2, <1>4, <2>1
    <3> QED
      BY <1>7, <3>1 DEF JournalFacts
  <2> QED
    BY <1>7, <2>1 DEF RowInv
<1>10. SeatsBounded'
  <2>1. Promised' \subseteq Promised
    <3>1. \A x \in Invitation : invitations[x].state # "redeeming"
      BY <1>1, <1>2, RedeemingIsOpen DEF JoinOf
    <3> QED
      BY <1>1, <3>1 DEF Promised, PromisedBy
  <2> QED
    BY <1>7, <2>1, SeatsShrink
<1> QED
  BY <1>4, <1>7, <1>8, <1>9, <1>10

\* A join reserves its invitation.
LEMMA PrepareJoinRows ==
  ASSUME TypeOK, ControlInv, RowInv, ReservedInv, SeatsBounded, NEW w \in Worker, PrepareJoin(w)
  PROVE  /\ ProcType' /\ JournalsType' /\ ControlInv'
         /\ TermType' /\ RowInv' /\ ReservedInv' /\ SeatsBounded'
<1> DEFINE k == call[w].intent
<1> DEFINE r == call[w]
<1> DEFINE v == call[w].token
<1>1. /\ Fresh(w) /\ r.kind = "join" /\ bindings[r.member] = "none"
      /\ invitations[v].state = "active" /\ ~invitations[v].due
      /\ invitations' = [ExpiredInvitations EXCEPT ![v].state = "redeeming"]
      /\ Prepared(w, "base")
      /\ UNCHANGED <<members, bindings, generation, offers, lease, permits, call>>
  BY DEF PrepareJoin, JoinAdmitted, rowVars
<1>2. /\ ProcType' /\ JournalsType' /\ ControlInv'
      /\ Asked(r) /\ k \in Intent
      /\ journals'[k] = [req |-> r, phase |-> "prepared", oid |-> "base"]
      /\ \A i \in Intent \ {k} : journals'[i] = journals[i]
      /\ \A i \in Intent : Unresolved(i)' <=> i = k
  BY <1>1, PreparedControl DEF Oid
<1>3. TermType /\ v \in Invitation /\ r.member \in Member
  BY <1>1, <1>2, Types DEF Asked, RequestType
<1>4. /\ ExpiredInvitations \in [Invitation -> InvitationRow]
      /\ \A x \in Invitation :
           ExpiredInvitations[x].state =
             IF invitations[x].state = "active" /\ invitations[x].due THEN "expired"
             ELSE invitations[x].state
  BY <1>3, ExpiredTypes
<1>5. /\ invitations' \in [Invitation -> InvitationRow] /\ invitations'[v].state = "redeeming"
      /\ \A x \in Invitation \ {v} : invitations'[x] = ExpiredInvitations[x]
  BY <1>1, <1>3, <1>4 DEF InvitationRow
<1>6. TermType'
  BY <1>1, <1>3, <1>5 DEF TermType
<1>7. journals[k] = NoJournal /\ ~HasNonterminalMutation
  BY <1>1 DEF Fresh
<1>8. journals'[k].req = r /\ journals'[k].phase = "prepared" /\ journals'[k] # NoJournal
  BY <1>2 DEF Unresolved
<1>9. JoinOf(v) = {} /\ JoinOf(v)' = {k}
  <2>1. ASSUME NEW i \in JoinOf(v) PROVE FALSE
    <3>1. i \in Intent /\ journals[i] # NoJournal /\ journals[i].req.kind = "join"
      BY <2>1 DEF JoinOf
    <3>2. journals[i].phase \in JoinPhase
      BY <3>1 DEF ControlInv, JournalFits
    <3>3. invitations[v].state \in {"redeeming", "redeemed"}
      BY <1>3, <2>1, <3>2 DEF ReservedInv, JoinPhase
    <3> QED
      BY <1>1, <3>3
  <2>2. k \in JoinOf(v)'
    BY <1>1, <1>2, <1>8 DEF JoinOf
  <2>3. ASSUME NEW i \in JoinOf(v)', i # k PROVE FALSE
    <3>1. i \in JoinOf(v)
      BY <1>1, <1>2, <2>3 DEF JoinOf
    <3> QED
      BY <2>1, <3>1
  <2> QED
    BY <2>1, <2>2, <2>3
<1>10. ReservedInv'
  <2>1. ASSUME NEW x \in Invitation
        PROVE  /\ \A i, j \in JoinOf(x)' : i = j
               /\ (invitations'[x].state = "redeeming") <=>
                    \E i \in JoinOf(x)' : journals'[i].phase \in JoinOpen
               /\ (invitations'[x].state = "redeemed") <=>
                    \E i \in JoinOf(x)' : journals'[i].phase \in {"membership-active", "completed"}
    <3>1. CASE x = v
      <4>1. JoinOf(x)' = {k}
        BY <1>1, <1>9, <3>1
      <4> QED
        BY <1>5, <1>8, <3>1, <4>1 DEF JoinOpen
    <3>2. CASE x # v
      <4>1. JoinOf(x)' = JoinOf(x) /\ \A i \in JoinOf(x) : journals'[i] = journals[i]
        BY <1>2, <1>7, <1>8, <3>2 DEF JoinOf
      <4>2. /\ \A i, j \in JoinOf(x) : i = j
            /\ (invitations[x].state = "redeeming") <=>
                 \E i \in JoinOf(x) : journals[i].phase \in JoinOpen
            /\ (invitations[x].state = "redeemed") <=>
                 \E i \in JoinOf(x) : journals[i].phase \in {"membership-active", "completed"}
        BY DEF ReservedInv
      <4>3. /\ (invitations'[x].state = "redeeming") <=> (invitations[x].state = "redeeming")
            /\ (invitations'[x].state = "redeemed") <=> (invitations[x].state = "redeemed")
        BY <1>4, <1>5, <3>2
      <4> QED
        BY <4>1, <4>2, <4>3
    <3> QED
      BY <3>1, <3>2
  <2> QED
    BY <2>1 DEF ReservedInv
<1>11. RowInv'
  <2>1. BindingInv' /\ OffersCurrent' /\ AlwaysManaged'
    BY <1>1 DEF RowInv, BindingInv, OffersCurrent, AlwaysManaged, LiveOffer, IsManager,
                IsPlainMember, Active
  <2>2. members[r.member].status = "none"
    BY <1>1, <1>3 DEF RowInv, BindingInv
  <2>3. ASSUME NEW i \in Intent, Unresolved(i)' PROVE JournalFacts(i)'
    <3>1. i = k /\ journals'[i].req = r /\ journals'[i].phase = "prepared"
      BY <1>2, <1>8, <2>3
    <3> QED
      BY <1>1, <2>2, <3>1 DEF JournalFacts
  <2> QED
    BY <2>1, <2>3 DEF RowInv
<1>12. SeatsBounded'
  <2>1. Seated' = Seated
    BY <1>1 DEF Seated
  <2>2. \A x \in Invitation : invitations[x].state # "redeeming"
    BY <1>7, AdmittedFinds
  <2>3. \A x \in Invitation : invitations'[x].state \in {"active", "redeeming"} =>
          invitations[x].state = "active"
    BY <1>1, <1>4, <1>5, <2>2
  <2>4. Promised' \subseteq Promised
    BY <2>3 DEF Promised, PromisedBy
  <2> QED
    BY <2>1, <2>4, SeatsShrink
<1> QED
  BY <1>2, <1>6, <1>10, <1>11, <1>12

\* A removal or a leave notes what it was accepted for.
LEMMA PrepareExitRows ==
  ASSUME TypeOK, ControlInv, RowInv, ReservedInv, SeatsBounded, NEW w \in Worker,
         PrepareRemoval(w) \/ PrepareLeave(w)
  PROVE  /\ ProcType' /\ JournalsType' /\ ControlInv'
         /\ TermType' /\ RowInv' /\ ReservedInv' /\ SeatsBounded'
<1> DEFINE k == call[w].intent
<1> DEFINE r == call[w]
<1>1. /\ Fresh(w) /\ r.kind \in {"remove", "leave"}
      /\ r.kind = "remove" => RemovalAccepted(r) /\ offers' = offers
      /\ r.kind = "leave" => LeaveAccepted(offers', r)
      /\ offers' \in {offers, ExpiredOffers}
      /\ Prepared(w, refs[r.member])
      /\ UNCHANGED <<members, bindings, generation, invitations, lease, permits, call>>
  BY DEF PrepareRemoval, PrepareLeave, OffersRead, rowVars, termVars
<1>2. RefType /\ TermType /\ r.member \in Member
  <2>1. Asked(r)
    BY <1>1 DEF Fresh, Finding, ControlInv, WorkerInv
  <2> QED
    BY <2>1, Types DEF Asked, RequestType
<1>3. refs[r.member] \in Oid
  BY <1>2 DEF RefType
<1>4. /\ ProcType' /\ JournalsType' /\ ControlInv'
      /\ Asked(r) /\ k \in Intent
      /\ journals'[k] = [req |-> r, phase |-> "prepared", oid |-> refs[r.member]]
      /\ \A i \in Intent \ {k} : journals'[i] = journals[i]
      /\ \A i \in Intent : Unresolved(i)' <=> i = k
  BY <1>1, <1>3, PreparedControl
<1>5. journals'[k].req = r /\ journals'[k].phase = "prepared" /\ journals'[k] # NoJournal
  BY <1>4 DEF Unresolved
<1>6. /\ ExpiredOffers \in [Offer -> OfferRow]
      /\ \A o \in Offer :
              /\ ExpiredOffers[o] = offers[o] \/ (ExpiredOffers[o].state = "expired" /\ LiveOffer(o))
              /\ ExpiredOffers[o].source = offers[o].source
              /\ ExpiredOffers[o].target = offers[o].target
              /\ ExpiredOffers[o].purpose = offers[o].purpose
              /\ ExpiredOffers[o].generation = offers[o].generation
              /\ ExpiredOffers[o].targetRev = offers[o].targetRev
  BY <1>2, ExpiredTypes
<1>7. TermType' /\ \A o \in Offer : SameTerms(o) /\ (LiveOffer(o)' => LiveOffer(o))
  <2>1. CASE offers' = offers
    BY <1>1, <1>2, <2>1 DEF TermType, SameTerms, LiveOffer
  <2>2. CASE offers' = ExpiredOffers
    BY <1>1, <1>2, <1>6, <2>2 DEF TermType, SameTerms, LiveOffer
  <2> QED
    BY <1>1, <2>1, <2>2
<1>8. \A x \in Invitation : JoinOf(x)' = JoinOf(x) /\ \A i \in JoinOf(x) : journals'[i] = journals[i]
  <2>1. journals[k] = NoJournal
    BY <1>1 DEF Fresh
  <2> QED
    BY <1>1, <1>4, <1>5, <2>1 DEF JoinOf
<1>9. ReservedInv'
  <2>1. ASSUME NEW x \in Invitation
        PROVE  /\ \A i, j \in JoinOf(x)' : i = j
               /\ (invitations'[x].state = "redeeming") <=>
                    \E i \in JoinOf(x)' : journals'[i].phase \in JoinOpen
               /\ (invitations'[x].state = "redeemed") <=>
                    \E i \in JoinOf(x)' : journals'[i].phase \in {"membership-active", "completed"}
    <3>1. /\ \A i, j \in JoinOf(x) : i = j
          /\ (invitations[x].state = "redeeming") <=>
               \E i \in JoinOf(x) : journals[i].phase \in JoinOpen
          /\ (invitations[x].state = "redeemed") <=>
               \E i \in JoinOf(x) : journals[i].phase \in {"membership-active", "completed"}
      BY DEF ReservedInv
    <3> QED
      BY <1>1, <1>8, <3>1
  <2> QED
    BY <2>1 DEF ReservedInv
<1>10. SeatsBounded'
  <2>1. Seated' = Seated
    BY <1>1 DEF Seated
  <2>2. \A x \in Invitation : invitations[x].state # "redeeming"
    BY <1>1, AdmittedFinds DEF Fresh
  <2>3. Promised' \subseteq Promised
    BY <1>1, <2>2 DEF Promised, PromisedBy
  <2> QED
    BY <2>1, <2>3, SeatsShrink
<1>11. RowInv'
  <2>1. /\ \A m \in Member : IsManager(m)' = IsManager(m) /\ IsPlainMember(m)' = IsPlainMember(m)
        /\ BindingInv' /\ AlwaysManaged'
    BY <1>1 DEF IsManager, IsPlainMember, Active, RowInv, BindingInv, AlwaysManaged
  <2>2. OffersCurrent'
    BY <1>1, <1>7, <2>1 DEF RowInv, OffersCurrent, SameTerms, TypeOK
  <2>3. ASSUME NEW i \in Intent, Unresolved(i)' PROVE JournalFacts(i)'
    <3>1. i = k /\ journals'[i].req = r /\ journals'[i].phase = "prepared"
      BY <1>4, <1>5, <2>3
    <3>2. r.kind = "remove" => RemovalAccepted(r)'
      BY <1>1 DEF RemovalAccepted, IsManager, Active, OtherManager
    <3>3. r.kind = "leave" => LeaveAccepted(offers, r)'
      BY <1>1 DEF LeaveAccepted, SuccessionAccepted, SuccessorOffered, NeedsSuccessor,
                  IsPlainMember, IsManager, Active, OtherManager
    <3>4. journals'[i].req.kind = "remove" => RemovalAccepted(journals[i].req)'
      BY <1>1, <3>1, <3>2
    <3>5. journals'[i].req.kind = "leave" => LeaveAccepted(offers, journals[i].req)'
      BY <1>1, <3>1, <3>3
    <3>6. journals'[i].req.kind \in {"remove", "leave"} /\ journals'[i].phase = "prepared"
      BY <1>1, <3>1
    <3> QED
      BY <3>4, <3>5, <3>6 DEF JournalFacts, ExitDone
  <2> QED
    BY <2>1, <2>2, <2>3 DEF RowInv
<1> QED
  BY <1>4, <1>7, <1>9, <1>10, <1>11

-----------------------------------------------------------------------------
(* The invariant: every step. *)

\* The rows, terms, journals and candidates stay where they are.
LEMMA TypesKept ==
  ASSUME TypeOK
  PROVE  /\ RowType /\ TermType /\ JournalsType /\ RefType /\ ProcType /\ faults \in 0 .. MaxFaults
         /\ UNCHANGED rowVars => RowType'
         /\ UNCHANGED termVars => TermType'
         /\ UNCHANGED <<journals, candidates>> => JournalsType'
         /\ UNCHANGED refs => RefType'
         /\ UNCHANGED procVars => ProcType'
         /\ UNCHANGED faults => faults' \in 0 .. MaxFaults
         /\ Fault => faults' \in 0 .. MaxFaults
<1>1. /\ RowType /\ TermType /\ JournalsType /\ RefType /\ ProcType /\ faults \in 0 .. MaxFaults
  BY Types
<1>2. Fault => faults' \in 0 .. MaxFaults
  BY <1>1, MembershipAssumption DEF Fault
<1> QED
  BY <1>1, <1>2 DEF rowVars, termVars, procVars, RowType, TermType, JournalsType, RefType, ProcType

LEMMA InitInv == Init => IInv
<1> SUFFICES ASSUME Init PROVE IInv
  OBVIOUS
<1>1. RowType /\ TermType
  BY MembershipAssumption
     DEF Init, RowType, TermType, MemberRow, InvitationRow, OfferRow, Status
<1>2. JournalsType /\ RefType /\ faults \in 0 .. MaxFaults
  BY MembershipAssumption DEF Init, JournalsType, RefType, Oid
<1>3. ProcType /\ IsFiniteSet(permits)
  BY FS_EmptySet, MembershipAssumption DEF Init, ProcType, Phase
<1>4. ControlInv
  BY <1>3 DEF Init, ControlInv, Unresolved, WorkerInv, WorkStep
<1>5. RowInv
  BY MembershipAssumption
     DEF Init, RowInv, BindingInv, OffersCurrent, AlwaysManaged, LiveOffer, IsManager, Active, Unresolved
<1>6. \A v \in Invitation : JoinOf(v) = {}
  BY DEF Init, JoinOf
<1>7. ReservedInv
  BY <1>6 DEF Init, ReservedInv
<1>8. SeatsBounded
  <2>1. Seated = Founder /\ Promised = {}
    BY MembershipAssumption DEF Init, Seated, Promised, PromisedBy
  <2>2. Cardinality(Promised) = 0
    BY <2>1, FS_EmptySet
  <2> QED
    BY <2>1, <2>2, SeatsFinite, MembershipAssumption DEF SeatsBounded, ReservationCount
<1> QED
  BY <1>1, <1>2, <1>3, <1>4, <1>5, <1>7, <1>8, Types DEF IInv

LEMMA AdministrationStep ==
  ASSUME IInv, Administration
  PROVE  IInv'
<1>1. /\ TypeOK /\ ControlInv /\ RowInv /\ ReservedInv /\ SeatsBounded
      /\ RowType /\ TermType /\ JournalsType /\ RefType /\ ProcType
  BY Types DEF IInv
<1>2. UNCHANGED <<journals, candidates, procVars, faults>>
  BY DEF Administration, CreateInvitation, ListInvitations, ListOffers, RevokeInvitation,
         PromoteManager, DemoteManager, ApplyManagerRoleChange, CreateOffer, TransitionOffer,
         EnsureRequest, Push
<1>3. ControlInv' /\ JournalsType' /\ ProcType' /\ faults' \in 0 .. MaxFaults
  BY <1>1, <1>2, ControlKept, TypesKept
<1>4. /\ RefType'
      /\ RowType' /\ TermType' /\ RowInv' /\ ReservedInv' /\ SeatsBounded'
  <2>1. CASE CreateInvitation
    <3>1. UNCHANGED <<rowVars, offers, refs, journals>>
      BY <2>1 DEF CreateInvitation
    <3>2. TermType' /\ ReservedInv' /\ SeatsBounded'
      BY <1>1, <2>1, CreateInvitationRows
    <3>3. RowInv'
      BY <1>1, <3>1, OffersSettle DEF rowVars, SameTerms
    <3> QED
      BY <1>1, <3>1, <3>2, <3>3, TypesKept
  <2>2. CASE ListInvitations \/ \E v \in Invitation : RevokeInvitation(v)
    <3>1. UNCHANGED <<rowVars, members, offers, refs, journals>>
      BY <2>2 DEF ListInvitations, RevokeInvitation, rowVars
    <3>2. \/ invitations' = ExpiredInvitations
          \/ \E v \in Invitation :
               /\ invitations[v].state = "active" /\ ~invitations[v].due
               /\ invitations' = [ExpiredInvitations EXCEPT ![v].state = "revoked"]
      BY <2>2 DEF ListInvitations, RevokeInvitation
    <3>3. invitations' \in [Invitation -> InvitationRow] /\ ReservedInv' /\ SeatsBounded'
      BY <1>1, <3>1, <3>2, InvitationsEndRows
    <3>4. RowInv'
      BY <1>1, <3>1, OffersSettle DEF rowVars, SameTerms
    <3>5. TermType'
      BY <1>1, <3>1, <3>3 DEF TermType
    <3> QED
      BY <1>1, <3>1, <3>3, <3>4, <3>5, TypesKept
  <2>3. CASE ListOffers
    <3>1. UNCHANGED <<rowVars, members, invitations, refs, journals>> /\ offers' = ExpiredOffers
      BY <2>3 DEF ListOffers, rowVars
    <3>2. /\ offers' \in [Offer -> OfferRow]
          /\ \A o \in Offer : SameTerms(o) /\ offers'[o].state \in {offers[o].state, "expired"}
      BY <1>1, <3>1, ExpiredTypes DEF SameTerms
    <3>3. RowInv'
      BY <1>1, <3>1, <3>2, OffersSettle DEF rowVars
    <3>4. ReservedInv' /\ SeatsBounded'
      BY <1>1, <3>1, InvitationsSettle
    <3>5. TermType'
      BY <1>1, <3>1, <3>2 DEF TermType
    <3> QED
      BY <1>1, <3>1, <3>3, <3>4, <3>5, TypesKept
  <2>4. ASSUME NEW m \in Member, NEW t \in Member, PromoteManager(m, t) \/ DemoteManager(m, t)
        PROVE  <1>4!:
    <3>1. UNCHANGED refs
      BY <2>4 DEF PromoteManager, DemoteManager, ApplyManagerRoleChange
    <3>2. RowType' /\ TermType' /\ RowInv' /\ ReservedInv' /\ SeatsBounded'
      BY <1>1, <2>4, PromoteRows, DemoteRows
    <3> QED
      BY <1>1, <3>1, <3>2, TypesKept
  <2>5. ASSUME NEW m \in Member,
               \/ \E t \in Member : CreateOffer(m, t)
               \/ \E o \in Offer : TransitionOffer(m, o)
        PROVE  <1>4!:
    <3>1. UNCHANGED <<rowVars, members, invitations, refs, journals>>
      BY <2>5 DEF CreateOffer, TransitionOffer, rowVars
    <3>2. offers' \in [Offer -> OfferRow] /\ RowInv'
      BY <1>1, <2>5, OfferRows
    <3>3. ReservedInv' /\ SeatsBounded'
      BY <1>1, <3>1, InvitationsSettle
    <3>4. TermType'
      BY <1>1, <3>1, <3>2 DEF TermType
    <3> QED
      BY <1>1, <3>1, <3>2, <3>3, <3>4, TypesKept
  <2>6. ASSUME NEW m \in Member, EnsureRequest(m) PROVE <1>4!:
    <3>1. /\ UNCHANGED <<members, bindings, generation, termVars, journals, refs>>
          /\ openRequests' = openRequests \cup {m}
      BY <2>6 DEF EnsureRequest
    <3>2. RowInv' /\ ReservedInv' /\ SeatsBounded'
      BY <1>1, <3>1, RowsKept
    <3>3. RowType'
      BY <1>1, <3>1 DEF RowType
    <3> QED
      BY <1>1, <3>1, <3>2, <3>3, TypesKept
  <2>7. ASSUME NEW m \in Member, Push(m) PROVE <1>4!:
    <3>1. /\ UNCHANGED <<rowVars, members, bindings, generation, termVars, journals>>
          /\ refs' = [refs EXCEPT ![m] = "pushed"]
      BY <2>7 DEF Push, rowVars
    <3>2. RowInv' /\ ReservedInv' /\ SeatsBounded'
      BY <1>1, <3>1, RowsKept
    <3>3. RefType'
      BY <1>1, <3>1 DEF RefType, Oid
    <3> QED
      BY <1>1, <3>1, <3>2, <3>3, TypesKept
  <2> QED
    BY <2>1, <2>2, <2>3, <2>4, <2>5, <2>6, <2>7, MembershipAssumption DEF Administration
<1> QED
  BY <1>3, <1>4, TypesAfter DEF IInv

\* What a worker does outside the database, or before it has found anything.
LEMMA QuietWorkerStep ==
  ASSUME IInv, NEW w \in Worker,
         \/ Start(w) \/ StartRecovery(w) \/ AcquireLease(w) \/ Interrupt(w)
         \/ Replay(w) \/ Recover(w) \/ Refuse(w)
         \/ CreateRef(w) \/ VerifyRef(w) \/ DeleteRef(w)
  PROVE  IInv'
<1>1. /\ TypeOK /\ ControlInv /\ RowInv /\ ReservedInv /\ SeatsBounded
      /\ RowType /\ TermType /\ JournalsType /\ RefType /\ ProcType
  BY Types DEF IInv
<1>2. UNCHANGED <<rowVars, members, bindings, generation, journals, candidates, offers>>
  BY DEF Start, StartRecovery, AcquireLease, Interrupt, Replay, Recover, Refuse,
         CreateRef, VerifyRef, DeleteRef, rowVars, termVars
<1>3. faults' \in 0 .. MaxFaults
  BY <1>1, TypesKept DEF Start, StartRecovery, AcquireLease, Interrupt, Replay, Recover, Refuse,
                         CreateRef, VerifyRef, DeleteRef
<1>4. RowType' /\ JournalsType'
  BY <1>1, <1>2, TypesKept
<1>5. RowInv'
  BY <1>1, <1>2, OffersSettle DEF SameTerms
<1>6. TermType' /\ ReservedInv' /\ SeatsBounded'
  <2>1. invitations' = invitations \/ invitations' = ExpiredInvitations
    BY DEF Start, StartRecovery, AcquireLease, Interrupt, Replay, Recover, Refuse,
           CreateRef, VerifyRef, DeleteRef, termVars
  <2>2. invitations' \in [Invitation -> InvitationRow] /\ ReservedInv' /\ SeatsBounded'
    BY <1>1, <1>2, <2>1, InvitationsEndRows
  <2> QED
    BY <1>1, <1>2, <2>2 DEF TermType
<1>7. ProcType' /\ ControlInv'
  <2>1. CASE Start(w) \/ StartRecovery(w) \/ AcquireLease(w)
    BY <1>1, <1>2, <2>1, WaitControl
  <2>2. CASE Interrupt(w) \/ Refuse(w)
    <3>1. Release(w)
      BY <2>2 DEF Interrupt, Refuse
    <3> QED
      BY <1>1, <1>2, <3>1, WaitControl
  <2>3. CASE Replay(w) \/ Recover(w)
    BY <1>1, <2>3, FoundControl
  <2>4. CASE CreateRef(w) \/ VerifyRef(w) \/ DeleteRef(w)
    <3>1. pc[w] \in WorkStep /\ Done(w) /\ UNCHANGED <<journals, lease, permits, call, seen>>
      BY <2>4 DEF CreateRef, VerifyRef, DeleteRef, WorkStep
    <3> QED
      BY <1>1, <3>1, GitControl
  <2> QED
    BY <2>1, <2>2, <2>3, <2>4
<1>8. RefType'
  <2>1. CASE UNCHANGED refs
    BY <1>1, <2>1, TypesKept
  <2>2. CASE CreateRef(w) \/ DeleteRef(w)
    <3>1. pc[w] \in WorkStep
      BY <2>2 DEF CreateRef, DeleteRef, WorkStep
    <3>2. call[w].member \in Member
      BY <1>1, <3>1, AtJournal
    <3>3. \E new \in Oid : refs' = [refs EXCEPT ![call[w].member] = new]
      BY <1>1, <2>2, <3>2 DEF CreateRef, DeleteRef, RefType, Oid
    <3> QED
      BY <1>1, <3>3 DEF RefType
  <2> QED
    BY <2>1, <2>2 DEF Start, StartRecovery, AcquireLease, Interrupt, Replay, Recover, Refuse, VerifyRef
<1> QED
  BY <1>3, <1>4, <1>5, <1>6, <1>7, <1>8, TypesAfter DEF IInv

\* A call that fails disturbs no row, and neither does a leave that is marked.
LEMMA FailRows ==
  ASSUME IInv, NEW w \in Worker, ProcType', JournalsType', ControlInv',
         (UNCHANGED journals) \/ Marked(w),
         UNCHANGED <<rowVars, members, bindings, generation, termVars>>
  PROVE  RowInv' /\ ReservedInv' /\ SeatsBounded'
<1>1. /\ TypeOK /\ ControlInv /\ RowInv /\ ReservedInv /\ SeatsBounded
      /\ RowType /\ TermType /\ JournalsType /\ RefType /\ ProcType
  BY Types DEF IInv
<1>2. CASE UNCHANGED journals
  BY <1>1, <1>2, RowsKept
<1>3. CASE Marked(w)
  <2> DEFINE k == call[w].intent
  <2>1. /\ k \in Intent /\ Unresolved(k) /\ journals[k].req.kind = "leave"
        /\ journals[k].phase \in ExitDone
        /\ journals'[k] # NoJournal /\ journals'[k].req = journals[k].req
        /\ journals'[k].phase \in ExitDone
        /\ \A i \in Intent \ {k} : journals'[i] = journals[i]
    BY <1>3 DEF Marked, ExitDone
  <2>2. journals[k] # NoJournal /\ \A i \in Intent : Unresolved(i) => i = k
    BY <1>1, <2>1 DEF Unresolved, ControlInv
  <2> QED
    BY <1>1, <2>1, <2>2, RecordRows
<1> QED
  BY <1>2, <1>3

\* A Git child fails under a leave's deletion: the ref and the journal are all that changes.
LEMMA GitFailsStep ==
  ASSUME IInv, NEW w \in Worker, GitFails(w)
  PROVE  IInv'
<1>1. /\ TypeOK /\ ControlInv /\ RowInv /\ ReservedInv /\ SeatsBounded
      /\ RowType /\ TermType /\ JournalsType /\ RefType /\ ProcType
  BY Types DEF IInv
<1>2. UNCHANGED <<rowVars, members, bindings, generation, termVars>>
  BY DEF GitFails, rowVars
<1>3. ProcType' /\ JournalsType' /\ ControlInv' /\ ((UNCHANGED journals) \/ Marked(w))
  BY <1>1, FailControl
<1>4. RowInv' /\ ReservedInv' /\ SeatsBounded'
  BY <1>2, <1>3, FailRows
<1>5. RowType' /\ TermType'
  BY <1>1, <1>2, TypesKept
<1>6. RefType'
  BY <1>1 DEF GitFails, RefType, Oid
<1>7. faults' \in 0 .. MaxFaults
  BY <1>1, MembershipAssumption DEF GitFails, Fault, TypeOK
<1> QED
  BY <1>3, <1>4, <1>5, <1>6, <1>7, TypesAfter DEF IInv

\* The transactions of the journaled calls.
LEMMA TransactionStep ==
  ASSUME IInv, NEW w \in Worker,
         \/ PrepareJoin(w) \/ PrepareRemoval(w) \/ PrepareLeave(w)
         \/ InsertPendingMember(w) \/ RecordRefCreated(w) \/ ActivateJoin(w)
         \/ SettleRemoval(w) \/ SettleLeave(w) \/ RecordRefRemoved(w) \/ Complete(w)
         \/ Fail(w)
  PROVE  IInv'
<1>1. /\ TypeOK /\ ControlInv /\ RowInv /\ ReservedInv /\ SeatsBounded
      /\ RowType /\ TermType /\ JournalsType /\ RefType /\ ProcType
  BY Types DEF IInv
<1>2. UNCHANGED <<refs, faults>>
  BY DEF PrepareJoin, PrepareRemoval, PrepareLeave, InsertPendingMember, RecordRefCreated,
         ActivateJoin, SettleRemoval, SettleLeave, RecordRefRemoved, Complete, Fail
<1>3. RefType' /\ faults' \in 0 .. MaxFaults
  BY <1>1, <1>2, TypesKept
<1>4. /\ ProcType' /\ JournalsType' /\ ControlInv'
      /\ RowType' /\ TermType' /\ RowInv' /\ ReservedInv' /\ SeatsBounded'
  <2>1. CASE PrepareJoin(w) \/ PrepareRemoval(w) \/ PrepareLeave(w)
    <3>1. UNCHANGED rowVars
      BY <2>1 DEF PrepareJoin, PrepareRemoval, PrepareLeave
    <3>2. /\ ProcType' /\ JournalsType' /\ ControlInv'
          /\ TermType' /\ RowInv' /\ ReservedInv' /\ SeatsBounded'
      BY <1>1, <2>1, PrepareJoinRows, PrepareExitRows
    <3> QED
      BY <1>1, <3>1, <3>2, TypesKept
  <2>2. CASE InsertPendingMember(w)
    BY <1>1, <2>2, InsertRows
  <2>3. CASE ActivateJoin(w)
    BY <1>1, <2>3, ActivateRows
  <2>4. CASE SettleRemoval(w) \/ SettleLeave(w)
    BY <1>1, <2>4, SettleRows
  <2>5. ASSUME NEW K, NEW P, NEW next, Committing(w, K, P), Advance(w, next),
               UNCHANGED <<rowVars, members, bindings, generation, termVars, candidates>>,
               \/ K = {"join"} /\ P = {"membership-pending"} /\ next = "personal-ref-created"
               \/ /\ K = {"remove", "leave"} /\ P = {"membership-revoked", "membership-left"}
                  /\ next = "personal-ref-removed"
        PROVE  <1>4!:
    <3> DEFINE k == call[w].intent
    <3>1. Committing(w, K, P) /\ Advance(w, next) /\ "completed" \notin P
      BY <2>5
    <3>2. UNCHANGED <<rowVars, members, bindings, generation, termVars, candidates>>
      BY <2>5
    <3>3. /\ k \in Intent /\ journals[k] # NoJournal /\ journals[k].req = call[w]
          /\ journals[k].phase \in P /\ call[w].kind \in K
          /\ Unresolved(k) /\ \A i \in Intent : Unresolved(i) => i = k
      BY <1>1, <3>1, CommitFacts
    <3>4. Fitting(call[w].kind, next)
      BY <2>5, <3>3 DEF Fitting, JoinPhase, JoinOpen, RemovePhase, LeavePhase
    <3>5. /\ ProcType' /\ JournalsType' /\ ControlInv'
          /\ journals'[k] # NoJournal /\ journals'[k].req = call[w] /\ journals'[k].phase = next
          /\ \A i \in Intent \ {k} : journals'[i] = journals[i]
      BY <1>1, <3>1, <3>2, <3>4, AdvanceControl
    <3>6. /\ call[w].kind = "join" =>
               journals[k].phase = "membership-pending" /\ next = "personal-ref-created"
          /\ call[w].kind # "join" => journals[k].phase \in ExitDone /\ next \in ExitDone
      BY <2>5, <3>3 DEF ExitDone
    <3>7. RowInv' /\ ReservedInv' /\ SeatsBounded'
      BY <1>1, <3>2, <3>3, <3>5, <3>6, RecordRows
    <3> QED
      BY <1>1, <3>2, <3>5, <3>7, TypesKept
  <2>6. CASE RecordRefCreated(w)
    <3>1. /\ Committing(w, {"join"}, {"membership-pending"}) /\ Advance(w, "personal-ref-created")
          /\ UNCHANGED <<rowVars, members, bindings, generation, termVars, candidates>>
      BY <2>6 DEF RecordRefCreated, rowVars
    <3> QED
      BY <2>5, <3>1
  <2>7. CASE RecordRefRemoved(w)
    <3>1. /\ Committing(w, {"remove", "leave"}, {"membership-revoked", "membership-left"})
          /\ Advance(w, "personal-ref-removed")
          /\ UNCHANGED <<rowVars, members, bindings, generation, termVars, candidates>>
      BY <2>7 DEF RecordRefRemoved, rowVars
    <3> QED
      BY <2>5, <3>1
  <2>8. CASE Complete(w)
    <3> DEFINE k == call[w].intent
    <3>1. Committing(w, Kind, {"membership-active", "personal-ref-removed"})
          /\ UNCHANGED <<rowVars, members, bindings, generation, termVars>>
      BY <2>8 DEF Complete, rowVars
    <3>2. /\ k \in Intent /\ journals[k] # NoJournal /\ journals[k].req = call[w]
          /\ journals[k].phase \in {"membership-active", "personal-ref-removed"}
          /\ call[w].kind \in Kind /\ Fitting(call[w].kind, journals[k].phase)
          /\ Unresolved(k) /\ \A i \in Intent : Unresolved(i) => i = k
      BY <1>1, <3>1, CommitFacts
    <3>3. /\ ProcType' /\ JournalsType' /\ ControlInv'
          /\ journals'[k] # NoJournal /\ journals'[k].req = call[w]
          /\ journals'[k].phase = "completed"
          /\ \A i \in Intent \ {k} : journals'[i] = journals[i]
      BY <1>1, <2>8, CompleteControl
    <3>4. /\ call[w].kind = "join" => journals[k].phase = "membership-active"
          /\ call[w].kind # "join" => journals[k].phase \in ExitDone
      BY <3>2 DEF ExitDone, Fitting, Kind, JoinPhase, JoinOpen, RemovePhase, LeavePhase
    <3>5. RowInv' /\ ReservedInv' /\ SeatsBounded'
      BY <1>1, <3>1, <3>2, <3>3, <3>4, RecordRows
    <3> QED
      BY <1>1, <3>1, <3>3, <3>5, TypesKept
  <2>9. CASE Fail(w)
    <3>1. UNCHANGED <<rowVars, members, bindings, generation, termVars>>
      BY <2>9 DEF Fail, rowVars
    <3>2. ProcType' /\ JournalsType' /\ ControlInv' /\ ((UNCHANGED journals) \/ Marked(w))
      BY <1>1, <2>9, FailControl
    <3>3. RowInv' /\ ReservedInv' /\ SeatsBounded'
      BY <3>1, <3>2, FailRows
    <3> QED
      BY <1>1, <3>1, <3>2, <3>3, TypesKept
  <2> QED
    BY <2>1, <2>2, <2>3, <2>4, <2>6, <2>7, <2>8, <2>9
<1> QED
  BY <1>3, <1>4, TypesAfter DEF IInv

\* Time, the expiry reconciler, a lost lease, a crash, and nothing.
LEMMA AroundStep ==
  ASSUME IInv,
         \/ TermPasses \/ ReconcileExpirations \/ LeaseLost \/ Crash \/ UNCHANGED vars
  PROVE  IInv'
<1>1. /\ TypeOK /\ ControlInv /\ RowInv /\ ReservedInv /\ SeatsBounded
      /\ RowType /\ TermType /\ JournalsType /\ RefType /\ ProcType
  BY Types DEF IInv
<1>2. UNCHANGED <<rowVars, members, bindings, generation, journals, candidates, refs>>
  BY DEF TermPasses, ReconcileExpirations, LeaseLost, Crash, vars, rowVars
<1>3. RowType' /\ JournalsType' /\ RefType'
  BY <1>1, <1>2, TypesKept
<1>4. faults' \in 0 .. MaxFaults
  BY <1>1, TypesKept DEF TermPasses, ReconcileExpirations, LeaseLost, Crash, vars
<1>5. ProcType' /\ ControlInv'
  <2>1. CASE UNCHANGED procVars
    BY <1>1, <1>2, <2>1, ControlKept, TypesKept
  <2>2. CASE LeaseLost \/ Crash
    BY <1>1, <2>2, FaultControl
  <2> QED
    BY <2>1, <2>2 DEF TermPasses, ReconcileExpirations, vars
<1>6. /\ offers' \in [Offer -> OfferRow]
      /\ \A o \in Offer : SameTerms(o) /\ offers'[o].state \in {offers[o].state, "expired"}
  <2>1. CASE UNCHANGED offers
    BY <1>1, <2>1 DEF TermType, SameTerms
  <2>2. CASE offers' = ExpiredOffers
    BY <1>1, <2>2, ExpiredTypes DEF SameTerms
  <2>3. ASSUME NEW o \in Offer, offers' = [offers EXCEPT ![o].due = TRUE] PROVE <1>6!:
    BY <1>1, <2>3 DEF TermType, OfferRow, SameTerms
  <2> QED
    BY <2>1, <2>2, <2>3 DEF TermPasses, ReconcileExpirations, LeaseLost, Crash, vars, termVars
<1>7. RowInv'
  BY <1>1, <1>2, <1>6, OffersSettle
<1>8. invitations' \in [Invitation -> InvitationRow] /\ ReservedInv' /\ SeatsBounded'
  <2>1. \/ invitations' = ExpiredInvitations
        \/ \E v \in Invitation : invitations' = [invitations EXCEPT ![v].due = TRUE]
        \/ UNCHANGED invitations
    BY DEF TermPasses, ReconcileExpirations, LeaseLost, Crash, vars, termVars
  <2> QED
    BY <1>1, <1>2, <2>1, InvitationsEndRows
<1>9. TermType'
  BY <1>6, <1>8 DEF TermType
<1> QED
  BY <1>3, <1>4, <1>5, <1>7, <1>8, <1>9, TypesAfter DEF IInv

LEMMA NextInv ==
  ASSUME IInv, [Next]_vars
  PROVE  IInv'
<1>1. CASE Administration
  BY <1>1, AdministrationStep
<1>2. ASSUME NEW w \in Worker, Start(w) \/ Step(w) \/ Interrupt(w) \/ GitFails(w) PROVE IInv'
  BY <1>2, QuietWorkerStep, TransactionStep, GitFailsStep DEF Step
<1>3. CASE \/ TermPasses \/ ReconcileExpirations \/ LeaseLost \/ Crash \/ UNCHANGED vars
  BY <1>3, AroundStep
<1> QED
  BY <1>1, <1>2, <1>3 DEF Next

-----------------------------------------------------------------------------
(* With one Git permit for the Project, the refs follow. *)

\* Whoever is under way holds the permit, so nobody else is.
LEMMA OneAtATime ==
  ASSUME MaxPerProject = 1, IInv, RefInv, NEW v \in Worker, NEW w \in Worker,
         pc[v] # "idle", pc[w] # "idle"
  PROVE  v = w
<1> SUFFICES ASSUME v # w PROVE FALSE
  OBVIOUS
<1>1. IsFiniteSet(permits) /\ Cardinality(permits) <= 1 /\ {v} \cup {w} \subseteq permits
  BY DEF IInv, TypeOK, ControlInv, RefInv
<1>2. IsFiniteSet({v}) /\ Cardinality({v}) = 1
  BY FS_Singleton
<1>3. Cardinality({v} \cup {w}) = 2
  BY <1>2, FS_AddElement
<1>4. Cardinality({v} \cup {w}) <= Cardinality(permits) /\ Cardinality(permits) \in Nat
  BY <1>1, FS_Subset, FS_CardinalityType
<1> QED
  BY <1>1, <1>3, <1>4

Position == {"idle", "lane", "find"} \cup WorkStep

\* A worker moves on: it keeps its permit, takes one, or gives it back.
LEMMA LanesFollow ==
  ASSUME RefInv, NEW w \in Worker, pc \in [Worker -> Position],
         \/ /\ \E position : pc' = [pc EXCEPT ![w] = position] /\ position # "idle"
            /\ permits' = permits \cup {w}
         \/ /\ \E position : pc' = [pc EXCEPT ![w] = position] /\ position # "idle"
            /\ pc[w] # "idle" /\ permits' = permits
         \/ pc' = [pc EXCEPT ![w] = "idle"] /\ permits' = permits \ {w}
  PROVE  permits' = {u \in Worker : pc'[u] # "idle"}
BY DEF RefInv

\* The other workers wait while one is under way.
LEMMA RefWorkers ==
  ASSUME MaxPerProject = 1, IInv, RefInv, NEW w \in Worker, pc[w] # "idle",
         \A v \in Worker \ {w} : pc'[v] = pc[v],
         RefWorker(w)'
  PROVE  \A v \in Worker : RefWorker(v)'
<1>1. ASSUME NEW v \in Worker \ {w} PROVE pc'[v] \notin WorkStep
  BY OneAtATime DEF WorkStep
<1> QED
  BY <1>1 DEF RefWorker

\* A worker that goes on has nothing to say of the ref yet.
LEMMA GoOnRefs ==
  ASSUME NEW w \in Worker, NEW kind \in Kind, NEW phase, Fitting(kind, phase),
         pc \in [Worker -> Position], seen \in [Worker -> Phase],
         GoOn(w, kind, phase), call'[w].kind = kind, Journal(w)'.phase = phase
  PROVE  RefWorker(w)'
<1>1. pc'[w] = GitBefore(kind, phase) /\ seen'[w] = phase
  BY DEF GoOn
<1>2. pc'[w] = "commit" => phase \notin {"membership-pending", "membership-revoked", "membership-left"}
  BY <1>1 DEF GitBefore, Fitting, Kind, JoinPhase, JoinOpen, RemovePhase, LeavePhase
<1> QED
  BY <1>1, <1>2 DEF RefWorker

\* Which phase a Git command stands for.
LEMMA GitCommandAt ==
  ASSUME NEW w \in Worker, RefWorker(w)
  PROVE  /\ pc[w] = "create" => seen[w] = Journal(w).phase /\ call[w].kind = "join"
                                  /\ seen[w] = "membership-pending"
         /\ pc[w] = "verify" => seen[w] = Journal(w).phase /\ seen[w] = "prepared"
         /\ pc[w] = "delete" => seen[w] = Journal(w).phase /\ call[w].kind # "join"
                                  /\ seen[w] \in {"membership-revoked", "membership-left"}
BY DEF RefWorker, WorkStep, GitBefore

\* Members, journals and refs stay.
LEMMA StoresKept ==
  ASSUME RefInv, UNCHANGED <<members, bindings, openRequests, journals, refs>>
  PROVE  StoresFollowMembership' /\ \A i \in Intent : Unresolved(i)' => RefFacts(i)'
BY DEF RefInv, StoresFollowMembership, RefFacts, Unresolved, Active

\* A worker whose call stays as it is.
LEMMA RefWorkerKept ==
  ASSUME RefInv, NEW v \in Worker, UNCHANGED <<journals, refs>>,
         pc'[v] = pc[v], call'[v] = call[v], seen'[v] = seen[v]
  PROVE  RefWorker(v)'
BY DEF RefInv, RefWorker, Journal

LEMMA AdministrationRefs ==
  ASSUME IInv, RefInv, Administration
  PROVE  RefInv'
<1>1. UNCHANGED <<journals, permits, pc, call, seen>>
  BY DEF Administration, CreateInvitation, ListInvitations, ListOffers, RevokeInvitation,
         PromoteManager, DemoteManager, ApplyManagerRoleChange, CreateOffer, TransitionOffer,
         EnsureRequest, Push, procVars
<1>2. permits' = {w \in Worker : pc'[w] # "idle"}
  BY <1>1 DEF RefInv
<1>3. \A i \in Intent : ~Unresolved(i) /\ ~Unresolved(i)'
  <2>1. ~HasNonterminalMutation
    BY DEF Administration, CreateInvitation, ListInvitations, ListOffers, RevokeInvitation,
           PromoteManager, DemoteManager, CreateOffer, TransitionOffer, EnsureRequest, Push, Admitted
  <2> QED
    BY <1>1, <2>1, AdmittedFinds DEF IInv
<1>4. /\ \A w \in Worker : RefWorker(w)'
      /\ StoresFollowMembership'
  <2>1. CASE UNCHANGED <<members, bindings, openRequests, refs>>
    BY <1>1, <2>1, StoresKept, RefWorkerKept
  <2>2. ASSUME NEW m \in Member, NEW t \in Member, PromoteManager(m, t) \/ DemoteManager(m, t)
        PROVE  <1>4!:
    <3>1. PICK role : members' = [members EXCEPT ![t].role = role, ![t].rev = @ + 1]
      BY <2>2 DEF PromoteManager, DemoteManager, ApplyManagerRoleChange
    <3>2. UNCHANGED <<bindings, openRequests, refs>>
      BY <2>2 DEF PromoteManager, DemoteManager, ApplyManagerRoleChange
    <3>3. \A n \in Member : members'[n].status = members[n].status
      BY <3>1 DEF IInv, TypeOK
    <3>4. StoresFollowMembership'
      BY <1>1, <1>3, <3>2, <3>3 DEF RefInv, StoresFollowMembership, Active
    <3> QED
      BY <1>1, <3>2, <3>4, RefWorkerKept
  <2>3. ASSUME NEW m \in Member, EnsureRequest(m) PROVE <1>4!:
    <3>1. Active(m) /\ UNCHANGED <<members, bindings, refs>> /\ openRequests' = openRequests \cup {m}
      BY <2>3 DEF EnsureRequest
    <3>2. StoresFollowMembership'
      BY <1>1, <1>3, <3>1 DEF RefInv, StoresFollowMembership, Active
    <3> QED
      BY <1>1, <3>1, <3>2, RefWorkerKept
  <2>4. ASSUME NEW m \in Member, Push(m) PROVE <1>4!:
    <3>1. Active(m) /\ UNCHANGED <<members, bindings, openRequests>>
          /\ refs' = [refs EXCEPT ![m] = "pushed"]
      BY <2>4 DEF Push, rowVars
    <3>2. \A n \in Member : refs'[n] = IF n = m THEN "pushed" ELSE refs[n]
      BY <3>1 DEF IInv, TypeOK
    <3>3. StoresFollowMembership'
      BY <1>1, <1>3, <3>1, <3>2 DEF RefInv, StoresFollowMembership, Active
    <3>4. ASSUME NEW w \in Worker PROVE RefWorker(w)'
      <4>1. pc[w] \in WorkStep => seen[w] = Journal(w).phase /\ seen[w] = "completed"
        <5> SUFFICES ASSUME pc[w] \in WorkStep PROVE seen[w] = Journal(w).phase /\ seen[w] = "completed"
          OBVIOUS
        <5>1. call[w].intent \in Intent /\ Journal(w) # NoJournal /\ Journal(w) = journals[call[w].intent]
          BY AtJournal DEF IInv
        <5> QED
          BY <1>3, <5>1 DEF RefInv, RefWorker, Unresolved
      <4> QED
        BY <1>1, <4>1 DEF RefInv, RefWorker, Journal
    <3> QED
      BY <3>3, <3>4
  <2> QED
    BY <2>1, <2>2, <2>3, <2>4, MembershipAssumption
       DEF Administration, CreateInvitation, ListInvitations, ListOffers, RevokeInvitation,
           CreateOffer, TransitionOffer, rowVars
<1> QED
  BY <1>2, <1>3, <1>4 DEF RefInv

\* pc and seen are functions.
LEMMA PositionTypes ==
  ASSUME TypeOK
  PROVE  pc \in [Worker -> Position] /\ seen \in [Worker -> Phase]
BY DEF TypeOK, Position, WorkStep

LEMMA QuietWorkerRefs ==
  ASSUME MaxPerProject = 1, IInv, RefInv, NEW w \in Worker,
         \/ Start(w) \/ StartRecovery(w) \/ AcquireLease(w) \/ Interrupt(w)
         \/ Replay(w) \/ Recover(w) \/ Refuse(w)
         \/ CreateRef(w) \/ VerifyRef(w) \/ DeleteRef(w)
  PROVE  RefInv'
<1>1. TypeOK /\ ControlInv /\ RowInv /\ pc \in [Worker -> Position] /\ seen \in [Worker -> Phase]
  BY PositionTypes DEF IInv
<1>2. UNCHANGED <<members, bindings, openRequests, journals>>
  BY DEF Start, StartRecovery, AcquireLease, Interrupt, Replay, Recover, Refuse,
         CreateRef, VerifyRef, DeleteRef, rowVars
<1>3. permits' = {u \in Worker : pc'[u] # "idle"}
  <2>1. CASE Start(w) \/ StartRecovery(w)
    BY <1>1, <2>1, LanesFollow DEF Start, StartRecovery
  <2>2. CASE Interrupt(w) \/ Refuse(w)
    BY <1>1, <2>2, LanesFollow DEF Interrupt, Refuse, Release
  <2>3. CASE \/ AcquireLease(w) \/ CreateRef(w) \/ VerifyRef(w) \/ DeleteRef(w)
    BY <1>1, <2>3, LanesFollow DEF AcquireLease, CreateRef, VerifyRef, DeleteRef, Done
  <2>4. CASE Replay(w) \/ Recover(w)
    <3>1. PICK i \in Intent : /\ GoOn(w, journals[i].req.kind, journals[i].phase)
                              /\ UNCHANGED permits /\ pc[w] = "find"
      BY <1>1, <2>4, Found
    <3>2. GitBefore(journals[i].req.kind, journals[i].phase) # "idle"
      BY DEF GitBefore
    <3> QED
      BY <1>1, <3>1, <3>2, LanesFollow DEF GoOn
  <2> QED
    BY <2>1, <2>2, <2>3, <2>4
<1>4. CASE UNCHANGED refs
  <2>1. StoresFollowMembership' /\ \A i \in Intent : Unresolved(i)' => RefFacts(i)'
    BY <1>2, <1>4, StoresKept
  <2>2. \A u \in Worker : RefWorker(u)'
    <3>1. CASE \/ Start(w) \/ StartRecovery(w) \/ AcquireLease(w) \/ Interrupt(w) \/ Refuse(w)
      <4>1. /\ pc'[w] \notin WorkStep
            /\ \A v \in Worker \ {w} : pc'[v] = pc[v] /\ call'[v] = call[v] /\ seen'[v] = seen[v]
        BY <1>1, <3>1 DEF Start, StartRecovery, AcquireLease, Interrupt, Refuse, Release, WorkStep, TypeOK
      <4>2. RefWorker(w)'
        BY <4>1 DEF RefWorker
      <4> QED
        BY <1>2, <1>4, <4>1, <4>2, RefWorkerKept
    <3>2. CASE Replay(w) \/ Recover(w)
      <4>1. PICK i \in Intent : /\ journals[i] # NoJournal /\ call' = [call EXCEPT ![w] = journals[i].req]
                                /\ GoOn(w, journals[i].req.kind, journals[i].phase)
                                /\ UNCHANGED <<journals, lease, permits>>
                                /\ pc[w] = "find"
        BY <1>1, <3>2, Found
      <4>2. JournalFits(i) /\ journals[i].req.kind \in Kind
        BY <1>1, <4>1, JournalRow, Types DEF ControlInv
      <4>3. Fitting(journals[i].req.kind, journals[i].phase) /\ journals[i].req.intent = i
        BY <4>2 DEF JournalFits, Fitting
      <4>4. call'[w] = journals[i].req
        BY <1>1, <4>1 DEF TypeOK
      <4>5. Journal(w)'.phase = journals[i].phase
        BY <1>2, <4>3, <4>4 DEF Journal
      <4>6. RefWorker(w)'
        BY <1>1, <4>1, <4>2, <4>3, <4>4, <4>5, GoOnRefs
      <4>7. pc[w] # "idle" /\ \A v \in Worker \ {w} : pc'[v] = pc[v]
        BY <1>1, <4>1 DEF GoOn
      <4> QED
        BY <4>6, <4>7, RefWorkers
    <3>3. CASE CreateRef(w) \/ VerifyRef(w) \/ DeleteRef(w)
      <4>1. /\ pc[w] \in {"create", "verify", "delete"} /\ pc' = [pc EXCEPT ![w] = "commit"]
            /\ UNCHANGED <<call, seen>>
        BY <3>3 DEF CreateRef, VerifyRef, DeleteRef, Done
      <4>2. pc[w] # "idle" /\ pc'[w] = "commit" /\ \A v \in Worker \ {w} : pc'[v] = pc[v]
        BY <1>1, <4>1
      <4>3. RefWorker(w) /\ seen[w] = Journal(w).phase /\ call[w].member \in Member
        BY <1>1, <4>1, AtJournal, GitCommandAt DEF RefInv, WorkStep
      <4>4. CASE VerifyRef(w)
        <5>1. seen[w] = "prepared"
          BY <4>3, <4>4, GitCommandAt DEF VerifyRef
        <5> QED
          BY <1>2, <4>1, <4>2, <4>3, <5>1, RefWorkers DEF RefWorker, Journal
      <4>5. CASE CreateRef(w)
        <5>1. seen[w] = "membership-pending" /\ refs'[call[w].member] # "none"
          BY <1>1, <4>3, <4>5, GitCommandAt DEF CreateRef, TypeOK
        <5> QED
          BY <1>2, <4>1, <4>2, <4>3, <5>1, RefWorkers DEF RefWorker, Journal
      <4>6. CASE DeleteRef(w)
        <5>1. seen[w] \in {"membership-revoked", "membership-left"} /\ refs'[call[w].member] = "none"
          BY <1>1, <4>3, <4>6, GitCommandAt DEF DeleteRef, TypeOK
        <5> QED
          BY <1>2, <4>1, <4>2, <4>3, <5>1, RefWorkers DEF RefWorker, Journal
      <4> QED
        BY <3>3, <4>4, <4>5, <4>6
    <3> QED
      BY <3>1, <3>2, <3>3
  <2> QED
    BY <1>3, <2>1, <2>2 DEF RefInv
<1>5. CASE CreateRef(w) \/ DeleteRef(w)
  <2> DEFINE k == call[w].intent
  <2> DEFINE m == call[w].member
  <2>1. /\ pc[w] \in {"create", "delete"} /\ pc' = [pc EXCEPT ![w] = "commit"]
        /\ UNCHANGED <<call, seen>>
    BY <1>5 DEF CreateRef, DeleteRef, Done
  <2>2. pc[w] # "idle" /\ pc'[w] = "commit" /\ \A v \in Worker \ {w} : pc'[v] = pc[v]
    BY <1>1, <2>1
  <2>3. /\ k \in Intent /\ journals[k] # NoJournal /\ Journal(w) = journals[k]
        /\ journals[k].req = call[w] /\ m \in Member /\ RefWorker(w)
    BY <1>1, <2>1, AtJournal DEF RefInv, WorkStep
  <2>4. /\ seen[w] = journals[k].phase
        /\ pc[w] = "create" => call[w].kind = "join" /\ seen[w] = "membership-pending"
        /\ pc[w] = "delete" => call[w].kind # "join"
                                 /\ seen[w] \in {"membership-revoked", "membership-left"}
    BY <2>1, <2>3, GitCommandAt
  <2>5. Unresolved(k) /\ JournalFacts(k) /\ \A i \in Intent : Unresolved(i) => i = k
    BY <1>1, <2>1, <2>3, <2>4 DEF Unresolved, RowInv, ControlInv
  <2>6. ~Active(m)
    BY <2>1, <2>3, <2>4, <2>5 DEF JournalFacts, ExitDone, Active
  <2>7. /\ \A n \in Member \ {m} : refs'[n] = refs[n]
        /\ pc[w] = "create" => refs'[m] # "none"
        /\ pc[w] = "delete" => refs'[m] = "none"
    BY <1>1, <1>5, <2>3 DEF CreateRef, DeleteRef, TypeOK
  <2>8. StoresFollowMembership'
    BY <1>2, <2>3, <2>5, <2>6, <2>7 DEF RefInv, StoresFollowMembership, Active, Unresolved
  <2>9. \A i \in Intent : Unresolved(i)' => RefFacts(i)'
    BY <1>2, <2>1, <2>3, <2>4, <2>5 DEF RefFacts, Unresolved
  <2>10. RefWorker(w)'
    BY <1>2, <2>1, <2>2, <2>3, <2>4, <2>7 DEF RefWorker, Journal
  <2>11. \A u \in Worker : RefWorker(u)'
    BY <2>2, <2>10, RefWorkers
  <2> QED
    BY <1>3, <2>8, <2>9, <2>11 DEF RefInv
<1> QED
  BY <1>4, <1>5 DEF Start, StartRecovery, AcquireLease, Interrupt, Replay, Recover, Refuse, VerifyRef

LEMMA AroundRefs ==
  ASSUME RefInv,
         \/ TermPasses \/ ReconcileExpirations \/ LeaseLost \/ Crash \/ UNCHANGED vars
  PROVE  RefInv'
<1>1. UNCHANGED <<members, bindings, openRequests, journals, refs>>
  BY DEF TermPasses, ReconcileExpirations, LeaseLost, Crash, vars, rowVars
<1>2. StoresFollowMembership' /\ \A i \in Intent : Unresolved(i)' => RefFacts(i)'
  BY <1>1, StoresKept
<1>3. CASE UNCHANGED <<permits, pc, call, seen>>
  BY <1>1, <1>2, <1>3, RefWorkerKept DEF RefInv
<1>4. CASE Crash
  <2>1. permits' = {} /\ pc' = [w \in Worker |-> "idle"]
    BY <1>4 DEF Crash
  <2>2. \A w \in Worker : RefWorker(w)'
    BY <2>1 DEF RefWorker, WorkStep
  <2> QED
    BY <1>2, <2>1, <2>2 DEF RefInv
<1> QED
  BY <1>3, <1>4 DEF TermPasses, ReconcileExpirations, LeaseLost, vars, procVars

\* A transaction that advances its journal keeps the permit and goes on.
LEMMA AdvanceRefs ==
  ASSUME MaxPerProject = 1, IInv, RefInv, NEW w \in Worker, NEW K, NEW P, Committing(w, K, P),
         "completed" \notin P, NEW next, Fitting(call[w].kind, next), Advance(w, next),
         UNCHANGED candidates
  PROVE  /\ permits' = {u \in Worker : pc'[u] # "idle"}
         /\ \A u \in Worker : RefWorker(u)'
<1>1. TypeOK /\ ControlInv /\ RowInv /\ pc \in [Worker -> Position] /\ seen \in [Worker -> Phase]
  BY PositionTypes DEF IInv
<1>2. /\ pc[w] = "commit" /\ GoOn(w, call[w].kind, next) /\ UNCHANGED <<permits, call>>
  BY DEF Committing, Advance
<1>3. call[w].kind \in Kind /\ call[w].intent \in Intent
  BY <1>1, CommitFacts
<1>4. journals'[call[w].intent].phase = next
  BY <1>1, AdvanceControl
<1>5. RefWorker(w)'
  BY <1>1, <1>2, <1>3, <1>4, GoOnRefs DEF Journal
<1>6. \A v \in Worker \ {w} : pc'[v] = pc[v]
  BY <1>1, <1>2 DEF GoOn
<1>7. GitBefore(call[w].kind, next) # "idle"
  BY DEF GitBefore
<1> QED
  BY <1>1, <1>2, <1>5, <1>6, <1>7, LanesFollow, RefWorkers DEF GoOn

\* A call that ends: the ref of its journal is as the journal leaves it.
LEMMA ReleaseRefs ==
  ASSUME MaxPerProject = 1, IInv, RefInv, NEW w \in Worker, pc[w] # "idle", Release(w)
  PROVE  /\ permits' = {u \in Worker : pc'[u] # "idle"}
         /\ \A u \in Worker : RefWorker(u)'
<1>1. pc \in [Worker -> Position]
  BY PositionTypes DEF IInv
<1>2. pc' = [pc EXCEPT ![w] = "idle"] /\ permits' = permits \ {w}
  BY DEF Release
<1>3. RefWorker(w)'
  BY <1>1, <1>2 DEF RefWorker, WorkStep
<1> QED
  BY <1>1, <1>2, <1>3, LanesFollow, RefWorkers

LEMMA PrepareRefs ==
  ASSUME MaxPerProject = 1, IInv, RefInv, NEW w \in Worker,
         PrepareJoin(w) \/ PrepareRemoval(w) \/ PrepareLeave(w)
  PROVE  RefInv'
<1> DEFINE k == call[w].intent
<1>1. TypeOK /\ ControlInv /\ pc \in [Worker -> Position] /\ seen \in [Worker -> Phase]
  BY PositionTypes DEF IInv
<1>2. PICK oid \in Oid : Prepared(w, oid)
  <2>1. call[w].member \in Member \/ call[w].kind = "join"
    BY <1>1 DEF PrepareJoin, PrepareRemoval, PrepareLeave, Fresh, Finding, ControlInv, WorkerInv,
                Asked, RequestType
  <2> QED
    BY <1>1, <2>1 DEF PrepareJoin, PrepareRemoval, PrepareLeave, TypeOK, Oid
<1>3. /\ Fresh(w) /\ pc[w] = "find"
      /\ UNCHANGED <<members, bindings, openRequests, refs, lease, permits, call>>
  BY DEF PrepareJoin, PrepareRemoval, PrepareLeave, Fresh, Finding, rowVars
<1>4. /\ k \in Intent /\ call[w].kind \in Kind
      /\ journals'[k] = [req |-> call[w], phase |-> "prepared", oid |-> oid]
      /\ \A i \in Intent : Unresolved(i)' <=> i = k
  BY <1>1, <1>2, <1>3, PreparedControl
<1>5. /\ GoOn(w, call[w].kind, "prepared") /\ GitBefore(call[w].kind, "prepared") # "idle"
      /\ Fitting(call[w].kind, "prepared")
  BY <1>2 DEF Prepared, GitBefore, Fitting, JoinPhase, JoinOpen, RemovePhase, LeavePhase
<1>6. journals'[k].phase = "prepared" /\ journals'[k].req = call[w]
  BY <1>4
<1>7. RefWorker(w)'
  BY <1>1, <1>3, <1>4, <1>5, <1>6, GoOnRefs DEF Journal
<1>8. /\ permits' = {u \in Worker : pc'[u] # "idle"}
      /\ \A u \in Worker : RefWorker(u)'
  <2>1. \A v \in Worker \ {w} : pc'[v] = pc[v]
    BY <1>1, <1>5 DEF GoOn
  <2>2. \A u \in Worker : RefWorker(u)'
    BY <1>3, <1>7, <2>1, RefWorkers
  <2>3. pc' = [pc EXCEPT ![w] = GitBefore(call[w].kind, "prepared")]
    BY <1>5 DEF GoOn
  <2>4. permits' = {u \in Worker : pc'[u] # "idle"}
    BY <1>1, <1>3, <1>5, <2>3, LanesFollow
  <2> QED
    BY <2>2, <2>4
<1>9. StoresFollowMembership'
  <2>1. \A i \in Intent : ~Unresolved(i)
    BY <1>3 DEF Fresh, HasNonterminalMutation
  <2> QED
    BY <1>3, <2>1 DEF RefInv, StoresFollowMembership, Active
<1>10. \A i \in Intent : Unresolved(i)' => RefFacts(i)'
  BY <1>4, <1>6 DEF RefFacts
<1> QED
  BY <1>8, <1>9, <1>10 DEF RefInv

LEMMA JoinRefs ==
  ASSUME MaxPerProject = 1, IInv, RefInv, NEW w \in Worker,
         InsertPendingMember(w) \/ RecordRefCreated(w) \/ ActivateJoin(w)
  PROVE  RefInv'
<1> DEFINE k == call[w].intent
<1> DEFINE m == call[w].member
<1>1. TypeOK /\ ControlInv /\ RowInv
  BY DEF IInv
<1>2. /\ Committing(w, {"join"}, {"prepared", "membership-pending", "personal-ref-created"})
      /\ pc[w] = "commit" /\ seen[w] = Journal(w).phase
      /\ UNCHANGED <<openRequests, refs, candidates>>
  BY DEF InsertPendingMember, RecordRefCreated, ActivateJoin, Committing, rowVars
<1>3. /\ k \in Intent /\ journals[k] # NoJournal /\ journals[k].req = call[w] /\ call[w].kind = "join"
      /\ m \in Member /\ Unresolved(k) /\ JournalFacts(k)
      /\ \A i \in Intent : Unresolved(i) => i = k
  BY <1>1, <1>2, CommitFacts
<1>4. PICK next \in {"membership-pending", "personal-ref-created", "membership-active"} :
        /\ Advance(w, next)
        /\ next = "membership-pending" => InsertPendingMember(w)
        /\ next = "personal-ref-created" => RecordRefCreated(w)
        /\ next = "membership-active" => ActivateJoin(w)
  BY DEF InsertPendingMember, RecordRefCreated, ActivateJoin
<1>5. Fitting(call[w].kind, next)
  BY <1>3, <1>4 DEF Fitting, JoinPhase, JoinOpen
<1>6. /\ permits' = {u \in Worker : pc'[u] # "idle"}
      /\ \A u \in Worker : RefWorker(u)'
  BY <1>2, <1>4, <1>5, AdvanceRefs
<1>7. /\ journals'[k] # NoJournal /\ journals'[k].req = call[w] /\ journals'[k].phase = next
      /\ \A i \in Intent : Unresolved(i)' => i = k
  BY <1>1, <1>2, <1>4, <1>5, AdvanceControl
<1>8. next # "membership-pending" => refs[m] # "none"
  <2>1. CASE next = "personal-ref-created"
    <3>1. seen[w] = "membership-pending"
      BY <1>4, <2>1 DEF RecordRefCreated, Committing
    <3> QED
      BY <1>2, <3>1 DEF RefInv, RefWorker, WorkStep
  <2>2. CASE next = "membership-active"
    <3>1. Journal(w).phase = "personal-ref-created"
      BY <1>4, <2>2 DEF ActivateJoin, Committing
    <3> QED
      BY <1>3, <3>1 DEF RefInv, RefFacts, Journal
  <2> QED
    BY <1>4, <2>1, <2>2
<1>9. /\ \A n \in Member \ {m} : members'[n] = members[n] /\ bindings'[n] = bindings[n]
      /\ members[m].status \notin {"left", "revoked"}
      /\ members'[m].status \notin {"left", "revoked"}
      /\ members'[m].status = "active" => next # "membership-pending" /\ bindings'[m] = "active"
  <2>1. CASE next = "membership-pending"
    <3>1. Journal(w).phase = "prepared"
      BY <1>4, <2>1 DEF InsertPendingMember, Committing
    <3>2. members[m].status = "none"
      BY <1>3, <3>1 DEF JournalFacts, Journal
    <3> QED
      BY <1>1, <1>3, <1>4, <2>1, <3>2 DEF InsertPendingMember, TypeOK, Active
  <2>2. CASE next = "personal-ref-created"
    <3>1. Journal(w).phase = "membership-pending"
      BY <1>4, <2>2 DEF RecordRefCreated, Committing
    <3>2. members[m].status = "pending" /\ UNCHANGED <<members, bindings>>
      BY <1>3, <1>4, <2>2, <3>1 DEF JournalFacts, Journal, RecordRefCreated, rowVars
    <3> QED
      BY <2>2, <3>2 DEF Active
  <2>3. CASE next = "membership-active"
    <3>1. /\ members[m].status = "pending"
          /\ members' = [members EXCEPT ![m].status = "active", ![m].rev = 2]
          /\ bindings' = [bindings EXCEPT ![m] = "active"]
      BY <1>4, <2>3 DEF ActivateJoin
    <3>2. members'[m].status = "active"
      BY <1>1, <1>3, <3>1 DEF TypeOK
    <3>3. bindings'[m] = "active" /\ \A n \in Member \ {m} : members'[n] = members[n] /\ bindings'[n] = bindings[n]
      BY <1>1, <1>3, <3>1 DEF TypeOK
    <3> QED
      BY <2>3, <3>1, <3>2, <3>3
  <2> QED
    BY <1>4, <2>1, <2>2, <2>3
<1>10. StoresFollowMembership'
  <2>1. Unresolved(k)'
    BY <1>2, <1>4, <1>7 DEF Unresolved, Advance
  <2>2. ASSUME NEW n \in Member
        PROVE  LET resolving == \E i \in Intent : Unresolved(i)' /\ journals'[i].req.member = n IN
               /\ Active(n)' => refs'[n] # "none" /\ bindings'[n] = "active"
               /\ ~Active(n)' /\ ~resolving => refs'[n] = "none"
               /\ members'[n].status \in {"left", "revoked"} =>
                    bindings'[n] = "revoked" /\ n \notin openRequests'
    <3>1. CASE n = m
      <4>1. \E i \in Intent : Unresolved(i)' /\ journals'[i].req.member = n
        BY <1>2, <1>3, <1>4, <1>7, <3>1 DEF Unresolved
      <4> QED
        BY <1>2, <1>8, <1>9, <3>1, <4>1 DEF Active
    <3>2. CASE n # m
      <4>1. ~ \E i \in Intent : Unresolved(i) /\ journals[i].req.member = n
        BY <1>3, <3>2
      <4> QED
        BY <1>2, <1>9, <3>2, <4>1 DEF RefInv, StoresFollowMembership, Active
    <3> QED
      BY <3>1, <3>2
  <2> QED
    BY <2>2 DEF StoresFollowMembership
<1>11. \A i \in Intent : Unresolved(i)' => RefFacts(i)'
  BY <1>2, <1>3, <1>4, <1>7, <1>8 DEF RefFacts
<1> QED
  BY <1>6, <1>10, <1>11 DEF RefInv

LEMMA SettleRefs ==
  ASSUME MaxPerProject = 1, IInv, RefInv, NEW w \in Worker, SettleRemoval(w) \/ SettleLeave(w)
  PROVE  RefInv'
<1> DEFINE k == call[w].intent
<1> DEFINE m == call[w].member
<1>1. TypeOK /\ ControlInv /\ RowInv
  BY DEF IInv
<1>2. PICK status, next, consumed :
        /\ status \in {"left", "revoked"} /\ next \in {"membership-revoked", "membership-left"}
        /\ Committing(w, {"remove", "leave"}, {"prepared"}) /\ Advance(w, next)
        /\ call[w].kind = "remove" => next = "membership-revoked"
        /\ call[w].kind = "leave" => next = "membership-left"
        /\ ApplyMemberExit(m, status, consumed)
  <2>1. CASE SettleRemoval(w)
    <3>1. /\ Committing(w, {"remove"}, {"prepared"}) /\ Advance(w, "membership-revoked")
          /\ ApplyMemberExit(m, "revoked", NoOffer)
      BY <2>1 DEF SettleRemoval
    <3>2. Committing(w, {"remove", "leave"}, {"prepared"}) /\ call[w].kind = "remove"
      BY <3>1 DEF Committing
    <3> QED
      BY <3>1, <3>2
  <2>2. CASE SettleLeave(w)
    <3>1. /\ Committing(w, {"leave"}, {"prepared"}) /\ Advance(w, "membership-left")
          /\ ApplyMemberExit(m, "left", call[w].token)
      BY <2>2 DEF SettleLeave
    <3>2. Committing(w, {"remove", "leave"}, {"prepared"}) /\ call[w].kind = "leave"
      BY <3>1 DEF Committing
    <3> QED
      BY <3>1, <3>2
  <2> QED
    BY <2>1, <2>2
<1>a. status \in {"left", "revoked"}
  BY <1>2
<1>3. UNCHANGED <<refs, candidates>>
  BY DEF SettleRemoval, SettleLeave
<1>4. /\ k \in Intent /\ journals[k].req = call[w] /\ call[w].kind \in {"remove", "leave"}
      /\ m \in Member /\ \A i \in Intent : Unresolved(i) => i = k
  BY <1>1, <1>2, CommitFacts
<1>5. Fitting(call[w].kind, next)
  BY <1>2, <1>4 DEF Fitting, RemovePhase, LeavePhase
<1>6. /\ permits' = {u \in Worker : pc'[u] # "idle"}
      /\ \A u \in Worker : RefWorker(u)'
  BY <1>2, <1>3, <1>5, AdvanceRefs
<1>7. /\ journals'[k] # NoJournal /\ journals'[k].req = call[w] /\ journals'[k].phase = next
      /\ \A i \in Intent : Unresolved(i)' => i = k
  BY <1>1, <1>2, <1>3, <1>5, AdvanceControl
<1>8. /\ members'[m].status = status /\ bindings'[m] = "revoked" /\ m \notin openRequests'
      /\ \A n \in Member \ {m} : /\ members'[n].status = members[n].status
                                 /\ bindings'[n] = bindings[n]
                                 /\ (n \in openRequests' => n \in openRequests)
  <2> DEFINE heir == IF consumed = NoOffer THEN {} ELSE {offers[consumed].target}
  <2>1. /\ members' = [n \in Member |->
              IF n = m THEN [members[n] EXCEPT !.status = status, !.rev = @ + 1]
              ELSE IF n \in heir THEN [members[n] EXCEPT !.role = "manager", !.rev = @ + 1]
              ELSE members[n]]
        /\ bindings' = [bindings EXCEPT ![m] = "revoked"]
        /\ openRequests' = openRequests \ {m}
    BY <1>2 DEF ApplyMemberExit
  <2> HIDE DEF heir
  <2>2. ASSUME NEW n \in Member
        PROVE  members'[n].status = IF n = m THEN status ELSE members[n].status
    <3>1. members[n] \in MemberRow /\ status \in Status
      BY <1>1, <1>a, Types DEF RowType, Status
    <3>2. members'[n] = IF n = m THEN [members[n] EXCEPT !.status = status, !.rev = @ + 1]
                        ELSE IF n \in heir THEN [members[n] EXCEPT !.role = "manager", !.rev = @ + 1]
                        ELSE members[n]
      BY <2>1
    <3> DEFINE row == members[n]
    <3>3. /\ [row EXCEPT !.status = status, !.rev = row.rev + 1].status = status
          /\ [row EXCEPT !.role = "manager", !.rev = row.rev + 1].status = row.status
      BY <3>1, MemberRowChanges
    <3> QED
      BY <3>2, <3>3
  <2>3. bindings'[m] = "revoked" /\ \A n \in Member \ {m} : bindings'[n] = bindings[n]
    BY <1>1, <1>4, <2>1 DEF TypeOK
  <2> QED
    BY <1>4, <2>1, <2>2, <2>3
<1>9. StoresFollowMembership'
  <2>1. ASSUME NEW n \in Member
        PROVE  LET resolving == \E i \in Intent : Unresolved(i)' /\ journals'[i].req.member = n IN
               /\ Active(n)' => refs'[n] # "none" /\ bindings'[n] = "active"
               /\ ~Active(n)' /\ ~resolving => refs'[n] = "none"
               /\ members'[n].status \in {"left", "revoked"} =>
                    bindings'[n] = "revoked" /\ n \notin openRequests'
    <3>1. CASE n = m
      <4>1. \E i \in Intent : Unresolved(i)' /\ journals'[i].req.member = n
        BY <1>2, <1>4, <1>7, <3>1 DEF Unresolved
      <4> QED
        BY <1>8, <1>a, <3>1, <4>1 DEF Active
    <3>2. CASE n # m
      <4>1. ~ \E i \in Intent : Unresolved(i) /\ journals[i].req.member = n
        BY <1>4, <3>2
      <4> QED
        BY <1>3, <1>8, <3>2, <4>1 DEF RefInv, StoresFollowMembership, Active
    <3> QED
      BY <3>1, <3>2
  <2> QED
    BY <2>1 DEF StoresFollowMembership
<1>10. \A i \in Intent : Unresolved(i)' => RefFacts(i)'
  BY <1>2, <1>7 DEF RefFacts
<1> QED
  BY <1>6, <1>9, <1>10 DEF RefInv

\* The journal's last steps: the refs are already as it says.
LEMMA EndRefs ==
  ASSUME MaxPerProject = 1, IInv, RefInv, NEW w \in Worker,
         RecordRefRemoved(w) \/ Complete(w) \/ Fail(w)
  PROVE  RefInv'
<1> DEFINE k == call[w].intent
<1> DEFINE m == call[w].member
<1>1. TypeOK /\ ControlInv /\ RowInv
  BY DEF IInv
<1>2. UNCHANGED <<members, bindings, openRequests, refs>>
  BY DEF RecordRefRemoved, Complete, Fail, rowVars
<1>3. CASE RecordRefRemoved(w)
  <2>1. /\ Committing(w, {"remove", "leave"}, {"membership-revoked", "membership-left"})
        /\ Advance(w, "personal-ref-removed") /\ UNCHANGED candidates
        /\ pc[w] = "commit" /\ seen[w] \in {"membership-revoked", "membership-left"}
    BY <1>3 DEF RecordRefRemoved, Committing
  <2>2. /\ k \in Intent /\ journals[k].req = call[w] /\ call[w].kind \in {"remove", "leave"}
        /\ m \in Member /\ Unresolved(k) /\ \A i \in Intent : Unresolved(i) => i = k
    BY <1>1, <2>1, CommitFacts
  <2>3. Fitting(call[w].kind, "personal-ref-removed")
    BY <2>2 DEF Fitting, RemovePhase, LeavePhase
  <2>4. /\ permits' = {u \in Worker : pc'[u] # "idle"}
        /\ \A u \in Worker : RefWorker(u)'
    BY <2>1, <2>3, AdvanceRefs
  <2>5. /\ journals'[k] # NoJournal /\ journals'[k].req = call[w]
        /\ journals'[k].phase = "personal-ref-removed"
        /\ \A i \in Intent : Unresolved(i)' => i = k
    BY <1>1, <2>1, <2>3, AdvanceControl
  <2>6. refs[m] = "none"
    BY <2>1 DEF RefInv, RefWorker, WorkStep
  <2>7. StoresFollowMembership'
    BY <1>2, <2>2, <2>5, <2>6 DEF RefInv, StoresFollowMembership, Active, Unresolved
  <2>8. \A i \in Intent : Unresolved(i)' => RefFacts(i)'
    BY <1>2, <2>5, <2>6 DEF RefFacts
  <2> QED
    BY <2>4, <2>7, <2>8 DEF RefInv
<1>4. CASE Complete(w)
  <2>1. /\ Committing(w, Kind, {"membership-active", "personal-ref-removed"})
        /\ pc[w] = "commit" /\ Release(w)
    BY <1>4 DEF Complete, Committing
  <2>2. /\ permits' = {u \in Worker : pc'[u] # "idle"}
        /\ \A u \in Worker : RefWorker(u)'
    BY <2>1, ReleaseRefs
  <2>3. /\ k \in Intent /\ journals[k] # NoJournal /\ journals[k].req = call[w]
        /\ journals[k].phase \in {"membership-active", "personal-ref-removed"}
        /\ call[w].kind \in Kind /\ m \in Member /\ Fitting(call[w].kind, journals[k].phase)
        /\ Unresolved(k) /\ JournalFacts(k) /\ \A i \in Intent : Unresolved(i) => i = k
    BY <1>1, <2>1, CommitFacts
  <2>4. \A i \in Intent : ~Unresolved(i)'
    BY <1>1, <1>4, CompleteControl
  <2>5. ~Active(m) => refs[m] = "none"
    <3>1. CASE journals[k].phase = "membership-active"
      <4>1. call[w].kind = "join"
        BY <2>3, <3>1 DEF Fitting, Kind, RemovePhase, LeavePhase
      <4> QED
        BY <2>3, <3>1, <4>1 DEF JournalFacts, Active
    <3>2. CASE journals[k].phase = "personal-ref-removed"
      BY <2>3, <3>2 DEF RefInv, RefFacts
    <3> QED
      BY <2>3, <3>1, <3>2
  <2>6. StoresFollowMembership'
    <3>1. \A n \in Member : ~Active(n) => refs[n] = "none"
      BY <2>3, <2>5 DEF RefInv, StoresFollowMembership
    <3> QED
      BY <1>2, <3>1 DEF RefInv, StoresFollowMembership, Active
  <2> QED
    BY <2>2, <2>4, <2>6 DEF RefInv
<1>5. CASE Fail(w)
  <2>1. Release(w) /\ (UNCHANGED journals \/ Marked(w))
    BY <1>1, <1>5, FailControl DEF Fail
  <2>2. pc[w] # "idle"
    BY <1>5 DEF Fail, Unsettleable, WrongRef, Committing
  <2>3. /\ permits' = {u \in Worker : pc'[u] # "idle"}
        /\ \A u \in Worker : RefWorker(u)'
    BY <2>1, <2>2, ReleaseRefs
  <2>4. CASE UNCHANGED journals
    BY <1>2, <2>3, <2>4, StoresKept DEF RefInv
  <2>5. CASE Marked(w)
    <3>1. /\ k \in Intent /\ journals[k].req = call[w] /\ journals'[k].req = call[w]
          /\ journals'[k] # NoJournal /\ journals'[k].phase = "recovery-required"
          /\ Unresolved(k)
          /\ \A i \in Intent : Unresolved(i)' => i = k
          /\ \A i \in Intent \ {k} : journals'[i] = journals[i]
      BY <2>5 DEF Marked
    <3>2. ASSUME NEW i \in Intent, Unresolved(i)
          PROVE  Unresolved(i)' /\ journals'[i].req = journals[i].req
      BY <3>1, <3>2 DEF Unresolved
    <3>3. StoresFollowMembership'
      BY <1>2, <3>2 DEF RefInv, StoresFollowMembership, Active
    <3>4. \A i \in Intent : Unresolved(i)' => RefFacts(i)'
      BY <3>1 DEF RefFacts
    <3> QED
      BY <2>3, <3>3, <3>4 DEF RefInv
  <2> QED
    BY <2>1, <2>4, <2>5
<1> QED
  BY <1>3, <1>4, <1>5

\* Git fails under a leave's deletion: the member is out, whether its ref is there or not.
LEMMA GitFailsRefs ==
  ASSUME MaxPerProject = 1, IInv, RefInv, NEW w \in Worker, GitFails(w)
  PROVE  RefInv'
<1> DEFINE k == call[w].intent
<1> DEFINE m == call[w].member
<1>1. TypeOK /\ ControlInv /\ RowInv
  BY DEF IInv
<1>2. /\ UNCHANGED <<members, bindings, openRequests>> /\ Release(w)
      /\ pc[w] # "idle" /\ pc[w] \in WorkStep
  BY DEF GitFails, DeletesLeft, WorkStep, rowVars
<1>3. (UNCHANGED journals) \/ Marked(w)
  BY <1>1, FailControl
<1>4. /\ permits' = {u \in Worker : pc'[u] # "idle"}
      /\ \A u \in Worker : RefWorker(u)'
  BY <1>2, ReleaseRefs
<1>5. \A n \in Member \ {m} : refs'[n] = refs[n]
  BY <1>1 DEF GitFails, TypeOK
<1>6. CASE UNCHANGED journals
  <2>1. journals'[k].phase = "recovery-required" /\ journals[k].phase = "membership-left"
    BY <1>1, <1>2, AtJournal DEF GitFails, DeletesLeft, MarkLeave, RefInv, RefWorker, Journal, TypeOK
  <2> QED
    BY <1>6, <2>1
<1>7. CASE Marked(w)
  <2>1. /\ k \in Intent /\ journals[k].req = call[w] /\ journals'[k].req = call[w]
        /\ call[w].kind = "leave" /\ journals[k].phase = "membership-left"
        /\ journals'[k] # NoJournal /\ journals'[k].phase = "recovery-required"
        /\ Unresolved(k)
        /\ \A i \in Intent : Unresolved(i)' => i = k
        /\ \A i \in Intent \ {k} : journals'[i] = journals[i]
    BY <1>7 DEF Marked
  <2>2. ~Active(m)
    BY <1>1, <2>1 DEF RowInv, JournalFacts, ExitDone, Active
  <2>3. ASSUME NEW i \in Intent, Unresolved(i)
        PROVE  Unresolved(i)' /\ journals'[i].req = journals[i].req
    BY <2>1, <2>3 DEF Unresolved
  <2>4. StoresFollowMembership'
    BY <1>2, <1>5, <2>1, <2>2, <2>3 DEF RefInv, StoresFollowMembership, Active
  <2>5. \A i \in Intent : Unresolved(i)' => RefFacts(i)'
    BY <2>1 DEF RefFacts
  <2> QED
    BY <1>4, <2>4, <2>5 DEF RefInv
<1> QED
  BY <1>3, <1>6, <1>7

LEMMA InitRefs == Init => RefInv
BY MembershipAssumption
   DEF Init, RefInv, Unresolved, RefWorker, WorkStep, StoresFollowMembership, Active

LEMMA NextRefs ==
  ASSUME MaxPerProject = 1, IInv, RefInv, [Next]_vars
  PROVE  RefInv'
<1>1. CASE Administration
  BY <1>1, AdministrationRefs
<1>2. ASSUME NEW w \in Worker, Start(w) \/ Step(w) \/ Interrupt(w) \/ GitFails(w) PROVE RefInv'
  BY <1>2, QuietWorkerRefs, PrepareRefs, JoinRefs, SettleRefs, EndRefs, GitFailsRefs DEF Step
<1>3. CASE \/ TermPasses \/ ReconcileExpirations \/ LeaseLost \/ Crash \/ UNCHANGED vars
  BY <1>3, AroundRefs
<1> QED
  BY <1>1, <1>2, <1>3 DEF Next

-----------------------------------------------------------------------------
(* Theorems. *)

\* The types, the journals with their workers, what each unresolved journal has done to its
\* member, the reserved invitations and the seats stand together after every transaction, Git
\* command, interrupt, lost lease and crash of the membership coordinators.
THEOREM InvariantHolds == Spec => []IInv
<1>1. Init => IInv
  BY InitInv
<1>2. IInv /\ [Next]_vars => IInv'
  BY NextInv
<1> QED
  BY <1>1, <1>2, PTL DEF Spec

\* A Project never loses its last active manager, whichever of demotion, removal, leave and
\* their recovery come together.
THEOREM NeverWithoutManager == Spec => []AlwaysManaged
<1>1. IInv => AlwaysManaged
  BY DEF IInv, RowInv
<1> QED
  BY <1>1, InvariantHolds, PTL

\* What a removal or a leave was prepared for holds when it settles, however late, and no
\* offer outlives what it describes.
THEOREM ExitsSettleAsPrepared == Spec => []PreparedExitsSettle
<1>1. ASSUME IInv PROVE PreparedExitsSettle
  <2>1. OffersCurrent
    BY <1>1 DEF IInv, RowInv
  <2>2. ASSUME NEW i \in Intent, journals[i] # NoJournal, journals[i].phase = "prepared"
        PROVE  JournalFacts(i)
    BY <1>1, <2>2 DEF IInv, RowInv, Unresolved
  <2> QED
    BY <2>1, <2>2 DEF PreparedExitsSettle, JournalFacts
<1> QED
  BY <1>1, InvariantHolds, PTL

\* What the invariant says of invitations, as the property states it.
LEMMA InvitationsTrack ==
  ASSUME IInv
  PROVE  InvitationTracksJoin
<1>1. TypeOK /\ SeatsBounded /\ ReservedInv
  BY DEF IInv
<1>2. ASSUME NEW v \in Invitation PROVE Cardinality(JoinOf(v)) <= 1
  <2>1. CASE JoinOf(v) = {}
    BY <2>1, FS_EmptySet
  <2>2. CASE JoinOf(v) # {}
    <3>1. PICK i \in JoinOf(v) : JoinOf(v) = {i}
      BY <1>1, <2>2 DEF ReservedInv
    <3>2. Cardinality({i}) = 1
      BY FS_Singleton
    <3> QED
      BY <3>1, <3>2
  <2> QED
    BY <2>1, <2>2
<1> QED
  BY <1>1, <1>2 DEF InvitationTracksJoin, ReservedInv, JoinOpen

\* An invitation admits one member: no seat is lost or given twice, and neither expiry nor
\* revocation takes a reserved invitation away.
THEOREM InvitationsAdmitOne == Spec => []InvitationTracksJoin
BY InvitationsTrack, InvariantHolds, PTL

\* With the one Git permit per Project that the server configures by default, invitations,
\* members, bindings, requests and refs say the same of who is in the Project, although a join
\* and an exit write PostgreSQL and Git in several steps and a lease can be lost in between.
THEOREM MembershipIsOneTruth == MaxPerProject = 1 => (Spec => []RowsFollowMembership)
<1> SUFFICES ASSUME MaxPerProject = 1 PROVE Spec => []RowsFollowMembership
  OBVIOUS
<1>1. Init => IInv /\ RefInv
  BY InitInv, InitRefs
<1>2. (IInv /\ RefInv) /\ [Next]_vars => (IInv /\ RefInv)'
  BY NextInv, NextRefs
<1>3. IInv /\ RefInv => RowsFollowMembership
  BY InvitationsTrack DEF RefInv, RowsFollowMembership
<1> QED
  BY <1>1, <1>2, <1>3, PTL DEF Spec

=============================================================================

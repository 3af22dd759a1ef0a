-------------------------- MODULE ContinuityRecords --------------------------
(***************************************************************************)
(* What an environment backup carries of one Project's database and what   *)
(* a restore puts back: the record readers of                              *)
(* PostgresProjectCheckpointPersistence.ts, the inserts of importProject,  *)
(* #importMembershipRecovery and importTerminalProject in                  *)
(* PostgresEnvironmentRestorePersistence.ts, and the queries with which    *)
(* the running service later answers from those tables.                    *)
(*                                                                         *)
(* A database is a set of rows, an artifact a set of records; both have    *)
(* the five fields the properties tell apart: the table (or record kind),  *)
(* an identity, a state, the row it refers to, and a number (a generation, *)
(* a batch revision, a sequence).  Every other column is copied as it is   *)
(* and left out.                                                           *)
(***************************************************************************)
EXTENDS Integers, FiniteSets

CONSTANT DevelopmentPrincipals  \* principals of the private-development profile:
                                \* every other one is the digest of a vault credential

Row(t, id, s, ref, n) == [t |-> t, id |-> id, s |-> s, ref |-> ref, n |-> n]

In(rows, t) == {r \in rows : r.t = t}
As(rows, t) == {[r EXCEPT !.t = t] : r \in rows}
\* tables read and written column by column: record kind -> table
Plain ==
  [request |-> "change_requests", requestComment |-> "request_comments",
   ticket |-> "tickets", ticketComment |-> "ticket_comments",
   ticketRelation |-> "request_ticket_relations",
   ticketMention |-> "ticket_mentions", cloudEvent |-> "project_events",
   authorityTransferRecovery |-> "authority_transfer_recovery",
   claimBatchReceipt |-> "transfer_claim_batch_receipts",
   receiptKey |-> "transfer_receipt_keys",
   redemptionReceipt |-> "transfer_redemption_receipts",
   responder |-> "project_terminal_responders",
   terminalPrincipal |-> "project_terminal_acknowledgements",
   invitation |-> "project_invitations",
   invitationEnvelope |-> "protected_invitation_envelopes",
   recoveryLink |-> "project_recovery_links",
   claimOverride |-> "transferred_membership_claim_overrides",
   overrideEnvelope |-> "protected_claim_override_envelopes",
   offer |-> "manager_responsibility_offers",
   idempotencyTombstone |-> "project_membership_idempotency_tombstones",
   secretTombstone |-> "secret_replay_tombstones",
   claimEnvelope |-> "source_protected_claim_envelopes",
   tombstone |-> "project_tombstones"]

Copy(db, kinds) == UNION {As(In(db, Plain[k]), k) : k \in kinds}
PutBack(records, kinds) == UNION {As(In(records, k), Plain[k]) : k \in kinds}

-----------------------------------------------------------------------------
(* Reading a live Project.                                                  *)

TerminalOperation(db, op) == \E c \in In(db, "project_tombstones") : c.id = op

\* terminalTransferFilter: rows of an operation that ended an earlier
\* generation belong to the terminal artifact, the others to the live one
Filtered(db, rows, terminal) ==
  {r \in rows : TerminalOperation(db, r.ref) = terminal}

ReadProject(db) ==
  {Row("project", r.id, "none", r.ref, r.n) : r \in In(db, "projects")}

\* Mutant of Verifiers: the bindings are read as readBindings reads them
MutantVerifiers(db, m) ==
  {r.id : r \in {x \in In(db, "project_member_recovery_credentials") : x.ref = m}
           \cup {x \in In(db, "project_principal_bindings") :
                    x.ref = m /\ x.s = "active" /\ x.id \notin DevelopmentPrincipals}}

\* vault credentials that are known: retained verifiers and the bindings of a
\* vault principal, whether active, pending or revoked
Known(db) ==
  In(db, "project_member_recovery_credentials")
    \cup {b \in In(db, "project_principal_bindings") : b.id \notin DevelopmentPrincipals}
\* the verifiers a member owns
Verifiers(db, m) == {r.id : r \in {x \in Known(db) : x.ref = m}}
ReadMembers(db) ==
  LET members == {r \in In(db, "project_memberships") : r.s # "pending"}
  IN As(members, "member")
       \cup UNION {{Row("memberVerifier", v, "none", r.id, 0) : v \in Verifiers(db, r.id)} :
                     r \in members}

ReadRequests(db) == Copy(db, {"request", "requestComment"})
ReadTickets(db) ==
  Copy(db, {"ticket", "ticketComment", "ticketRelation", "ticketMention"})

\* events and the cursor; a Project without events has cursor 0
ReadEvents(db) ==
  LET cursor == In(db, "project_event_sequences")
  IN Copy(db, {"cloudEvent"})
       \cup (IF cursor = {} THEN {Row("eventCursor", "cursor", "none", "none", 0)}
                            ELSE As(cursor, "eventCursor"))

\* the response of a revocation is rebuilt from the invitation it revoked
ReadIdempotencyResults(db) == As(In(db, "idempotency_results"), "idempotency")
RevocationsExplained(db) ==
  \A r \in In(db, "idempotency_results") :
     r.s = "revokeProjectInvitation" =>
       \E i \in In(db, "project_invitations") : i.id = r.ref /\ i.s = "revoked"

ReadIdempotencyTombstones(db) == Copy(db, {"idempotencyTombstone"})

ReadBindings(db) ==
  As({r \in In(db, "project_principal_bindings") : r.s = "active"}, "binding")

\* exactly one active placement, or the capture fails
ReadPlacement(db) ==
  As({r \in In(db, "repository_placements") : r.s = "active"}, "placement")

\* lifecycle journals, split between the live and the terminal artifact; the
\* capturing operation itself is excluded
TerminalJournal(db, r) ==
  \/ TerminalOperation(db, r.id)
  \/ /\ r.ref = "delete"
     /\ \E c \in In(db, "project_tombstones") : c.n = r.n
ReadLifecycle(db, excluded, terminal) ==
  As({r \in In(db, "project_lifecycle_journals") :
        /\ r.id # excluded
        /\ TerminalJournal(db, r) = terminal}, "lifecycle")

BoundTo(db, m) ==
  \E b \in In(db, "project_principal_bindings") : b.s = "active" /\ b.ref = m
\* a completed creation or join of a principal still bound becomes a lifecycle
\* journal, a recovery record and the idempotency result it answers with
ReadCompletedMembership(db, table, kind, operation) ==
  LET done == {r \in In(db, table) : r.s = "completed" /\ BoundTo(db, r.ref)}
  IN UNION {{Row("lifecycle", r.id, "completed", kind, 0),
             Row("membershipRecovery", r.id, kind, r.ref, r.n),
             Row("idempotency", r.id, operation, r.ref, 0)} : r \in done}
ReadCreations(db) ==
  ReadCompletedMembership(db, "cloud_project_creation_journals",
                          "create-project", "createCloudProject")
ReadJoins(db) ==
  ReadCompletedMembership(db, "cloud_project_join_journals",
                          "join-project", "joinCloudProject")
ReadRemovals(db) ==
  LET done == {r \in In(db, "project_member_removal_journals") :
                 /\ r.s = "completed"
                 /\ \E l \in In(db, "project_lifecycle_journals") :
                       l.id = r.id /\ l.s = "completed"}
  IN UNION {{Row("membershipRecovery", r.id, "remove-member", r.ref, r.n),
             Row("idempotency", r.id, "removeMember", r.ref, 0)} : r \in done}

\* a leave still in progress fails the capture
ReadLeaveReplays(db) ==
  UNION {{Row("leaveReplay", r.id, "completed", r.ref, r.n),
          Row("idempotency", r.id, "leaveProject", r.ref, 0)} :
           r \in In(db, "leave_former_principal_replays")}
LeavesCompleted(db) ==
  \A r \in In(db, "leave_former_principal_replays") : r.s = "completed"

ReadTransferRecovery(db) == Copy(db, {"authorityTransferRecovery"})
\* only claims of the batch the transfer's journal names; the other batches
\* were replaced
ReadClaims(db) ==
  As({r \in In(db, "transferred_membership_claims") :
        \E l \in In(db, "project_lifecycle_journals") :
           l.id = r.ref /\ l.n = r.n}, "claim")
ReadReceiptKeys(db, terminal) == Filtered(db, Copy(db, {"receiptKey"}), terminal)
ReadBatchReceipts(db) == Copy(db, {"claimBatchReceipt"})
ReadRedemptions(db, terminal) ==
  Filtered(db, Copy(db, {"redemptionReceipt"}), terminal)
ReadResponders(db, terminal) ==
  Filtered(db, Copy(db, {"responder", "terminalPrincipal"}), terminal)
ReadEnvelopes(db, terminal) ==
  Filtered(db, Copy(db, {"claimEnvelope"}), terminal)
ReadInvitations(db) == Copy(db, {"invitation", "invitationEnvelope"})
ReadRecoveryLinks(db) == Copy(db, {"recoveryLink"})
ReadOverrides(db) == Copy(db, {"claimOverride", "overrideEnvelope"})
ReadOffers(db) == Copy(db, {"offer"})
ReadSecretTombstones(db) == Copy(db, {"secretTombstone"})
ReadTombstones(db) == Copy(db, {"tombstone"})

\* the pair a record set was taken under: environment identity and epoch
ReadPair(environment, epoch) ==
  {Row("volumePair", "pair", environment, "none", epoch)}

ReadPortable(db) ==
  ReadProject(db) \cup ReadMembers(db) \cup ReadRequests(db) \cup ReadTickets(db)
ReadBackup(db, excluded, environment, epoch) ==
  UNION {ReadPortable(db), ReadEvents(db), ReadIdempotencyResults(db),
         ReadIdempotencyTombstones(db), ReadBindings(db), ReadPlacement(db),
         ReadLifecycle(db, excluded, FALSE), ReadCreations(db), ReadJoins(db),
         ReadRemovals(db), ReadLeaveReplays(db), ReadTransferRecovery(db),
         ReadClaims(db), ReadReceiptKeys(db, FALSE), ReadBatchReceipts(db),
         ReadRedemptions(db, FALSE), ReadResponders(db, FALSE),
         ReadEnvelopes(db, FALSE), ReadInvitations(db), ReadRecoveryLinks(db),
         ReadOverrides(db), ReadOffers(db), ReadSecretTombstones(db),
         ReadPair(environment, epoch)}
\* the readers fail instead of returning a partial artifact
Readable(db) ==
  /\ Cardinality(In(db, "projects")) = 1
  /\ Cardinality(ReadPlacement(db)) = 1
  /\ RevocationsExplained(db)
  /\ LeavesCompleted(db)

-----------------------------------------------------------------------------
(* The terminal artifact: what remains of generations that have ended.      *)

\* readTerminalProjectContinuityRecords
ReadTerminal(db) ==
  UNION {ReadLifecycle(db, "none", TRUE), ReadReceiptKeys(db, TRUE),
         ReadRedemptions(db, TRUE), ReadResponders(db, TRUE),
         ReadEnvelopes(db, TRUE), ReadTombstones(db)}

\* invalidLifecycleSemantics, of the kinds that end a generation
LifecycleEnded(r) ==
  r.ref \in {"retire", "authority-transfer"} => r.s = "completed"
\* at most one end of a generation, and none after a retirement
TombstonesOrdered(records) ==
  LET ends == In(records, "tombstone")
  IN /\ ends # {}
     /\ \A x, y \in ends : x.n = y.n => x = y
     /\ \A x, y \in ends : x.s = "retire" => y.n <= x.n
\* an envelope belongs to a transfer that is there with its receipt key
EnvelopesLinked(records) ==
  \A e \in In(records, "claimEnvelope") :
     /\ \E l \in In(records, "lifecycle") : l.id = e.ref /\ l.ref = "authority-transfer"
     /\ \E k \in In(records, "receiptKey") : k.ref = e.ref
\* a terminal result belongs to its tombstone, an acknowledgement to a result
RespondersLinked(records) ==
  /\ \A r \in In(records, "responder") :
        \E c \in In(records, "tombstone") : c.id = r.id /\ c.s = r.s
  /\ \A a \in In(records, "terminalPrincipal") :
        \E r \in In(records, "responder") : r.id = a.ref
\* canonicalRecords of TerminalProjectContinuityArtifact
ValidTerminal(records) ==
  /\ \A r \in In(records, "lifecycle") : LifecycleEnded(r)
  /\ TombstonesOrdered(records)
  /\ EnvelopesLinked(records)
  /\ RespondersLinked(records)

-----------------------------------------------------------------------------
(* Putting a live Project back.                                             *)

\* authority closed: a restored Project is in maintenance until published
ImportProjectRow(records) ==
  {Row("projects", r.id, "maintenance", r.ref, r.n) : r \in In(records, "project")}
ImportMembers(records) ==
  As(In(records, "member"), "project_memberships")
    \cup As(In(records, "memberVerifier"), "project_member_recovery_credentials")
ImportCollaboration(records) ==
  PutBack(records, {"request", "requestComment", "ticket", "ticketComment",
                    "ticketRelation", "ticketMention"})
ImportEvents(records) ==
  PutBack(records, {"cloudEvent"})
    \cup As({r \in In(records, "eventCursor") : r.n > 0}, "project_event_sequences")
\* results that creation, join, leave and removal journals answer themselves
Synthetic == {"createCloudProject", "joinCloudProject", "leaveProject", "removeMember"}
ImportIdempotency(records) ==
  As({r \in In(records, "idempotency") : r.s \notin Synthetic}, "idempotency_results")
ImportBindings(records) == As(In(records, "binding"), "project_principal_bindings")
ImportLifecycle(records) ==
  LET journals == {r \in In(records, "lifecycle") :
                     r.ref \notin {"create-project", "join-project"}}
  IN As(journals, "project_lifecycle_journals")
       \cup As({r \in journals : r.s \in {"active", "recovery-required"}},
               "recovery_candidates")
ImportTransfers(records) ==
  PutBack(records, {"authorityTransferRecovery", "receiptKey",
                    "claimBatchReceipt", "redemptionReceipt"})
    \cup As(In(records, "claim"), "transferred_membership_claims")
ImportResponders(records) ==
  PutBack(records, {"responder", "terminalPrincipal"})
ImportLeaveReplays(records) ==
  As(In(records, "leaveReplay"), "leave_former_principal_replays")
ImportInvitations(records) ==
  PutBack(records, {"invitation", "invitationEnvelope", "recoveryLink"})
ImportOverrides(records) == PutBack(records, {"claimOverride", "overrideEnvelope"})
ImportOffers(records) ==
  PutBack(records, {"offer", "idempotencyTombstone", "secretTombstone"})
ImportEnvelopes(records) == PutBack(records, {"claimEnvelope"})

\* #importMembershipRecovery: the journal a later replay is answered from
JournalTable(kind) ==
  CASE kind = "create-project" -> "cloud_project_creation_journals"
    [] kind = "join-project" -> "cloud_project_join_journals"
    [] OTHER -> "project_member_removal_journals"
ImportMembershipRecovery(records) ==
  {Row(JournalTable(r.s), r.id, "completed", r.ref, r.n) :
     r \in In(records, "membershipRecovery")}
RecoveryExplained(records, r) ==
  /\ \E l \in In(records, "lifecycle") : l.id = r.id /\ l.s = "completed"
  /\ \E m \in In(records, "member") : m.id = r.ref
  /\ \E a \in In(records, "idempotency") : a.id = r.id /\ a.ref = r.ref
  /\ r.s = "remove-member" \/ \E b \in In(records, "binding") : b.ref = r.ref

ImportRows(records) ==
  UNION {ImportProjectRow(records), ImportMembers(records),
         ImportCollaboration(records), ImportEvents(records),
         ImportIdempotency(records), ImportBindings(records),
         ImportLifecycle(records), ImportTransfers(records),
         ImportResponders(records), ImportLeaveReplays(records),
         ImportInvitations(records), ImportOverrides(records),
         ImportOffers(records), ImportEnvelopes(records),
         ImportMembershipRecovery(records)}

\* what a re-read of the restored Project must return: the records under the
\* target's pair and, once published, its own placement
Renewed(records, environment, placement) ==
  {r \in records : r.t \notin {"volumePair", "placement"}}
    \cup {Row("volumePair", "pair", environment, "none", r.n + 1) :
            r \in In(records, "volumePair")}
    \cup {[r EXCEPT !.n = IF placement = 0 THEN r.n ELSE placement] :
            r \in In(records, "placement")}
\* assertImportedRecords: the rows, with the source placement lent to them,
\* read back as exactly the records
ReadsBack(db, records, excluded, environment) ==
  LET epoch == (CHOOSE r \in In(records, "volumePair") : TRUE).n + 1
  IN ReadBackup(db \cup As(In(records, "placement"), "repository_placements"),
                excluded, environment, epoch)
       = Renewed(records, environment, 0)
Importable(records) ==
  /\ \A r \in In(records, "membershipRecovery") : RecoveryExplained(records, r)
  /\ \A r \in In(records, "lifecycle") :
        r.ref = "remove-member" =>
          \E x \in In(records, "membershipRecovery") : x.id = r.id
  /\ \A r \in In(records, "leaveReplay") :
        \E a \in In(records, "idempotency") : a.id = r.id /\ a.s = "leaveProject"
  /\ \A r \in In(records, "claimOverride") :
        r.s = "redeemed" =>
          \E x \in In(records, "redemptionReceipt") :
             x.id = r.id /\ x.ref = r.ref
  /\ \A r \in In(records, "invitationEnvelope") :
        \E i \in In(records, "invitation") : i.id = r.id

\* importTerminalProject: continuity of generations that have ended, refused
\* when the Project lives at a generation a tombstone already covers
TerminalRows(records) ==
  As(In(records, "lifecycle"), "project_lifecycle_journals")
    \cup PutBack(records, {"receiptKey", "redemptionReceipt", "responder",
                           "terminalPrincipal", "claimEnvelope", "tombstone"})
ImportableTerminal(db, records) ==
  \A p \in In(db, "projects"), c \in In(records, "tombstone") :
     c.s # "retire" /\ c.n < p.n

-----------------------------------------------------------------------------
(* What the service answers from a database.                                *)

\* getPrincipalMember: who may sign in, and as which Member
SignsIn(db) ==
  {<<r.id, r.ref>> : r \in {x \in In(db, "project_principal_bindings") : x.s = "active"}}
\* prepareJoin: a principal whose binding or verifier is known never joins; only
\* a vault principal can ask to
MayNotJoin(db) == {r.id : r \in Known(db)}
\* redeemable secrets: invitations, claims of the current batch that no override
\* stands in for, the latest override of a claim, recovery links
OpenInvitations(db) ==
  {r.id : r \in {x \in In(db, "project_invitations") : x.s = "active"}}
\* the overrides of a Member's claim
OverridesOf(db, c) ==
  {o \in In(db, "transferred_membership_claim_overrides") : o.ref = c.ref /\ o.id = c.id}
OpenClaims(db) ==
  {<<r.ref, r.id>> :
     r \in {x \in ReadClaims(db) : x.s = "unclaimed" /\ OverridesOf(db, x) = {}}}
OpenOverrides(db) ==
  {<<r.ref, r.id, r.n>> :
     r \in {x \in In(db, "transferred_membership_claim_overrides") :
              x.s = "active" /\ \A o \in OverridesOf(db, x) : o.n <= x.n}}
OpenLinks(db) ==
  {r.id : r \in {x \in In(db, "project_recovery_links") : x.s = "unredeemed"}}
\* secrets that may still be shown again, and those that may not
ShownAgain(db) ==
  {<<r.t, r.id>> : r \in In(db, "protected_invitation_envelopes")
                           \cup In(db, "protected_claim_override_envelopes")
                           \cup In(db, "source_protected_claim_envelopes")}
NeverShown(db) ==
  {<<r.s, r.id>> : r \in In(db, "secret_replay_tombstones")
                           \cup In(db, "project_membership_idempotency_tombstones")}
\* results a retry is answered with
Answered(db) ==
  {<<r.s, r.id>> : r \in In(db, "idempotency_results")}
    \cup {<<"left", r.id>> : r \in In(db, "leave_former_principal_replays")}
    \cup {<<"removed", r.id>> :
            r \in {x \in In(db, "project_member_removal_journals") : x.s = "completed"}}
    \cup {<<"joined", r.id>> :
            r \in {x \in In(db, "cloud_project_join_journals")
                         \cup In(db, "cloud_project_creation_journals") :
                     BoundTo(db, x.ref)}}
\* terminal results and which principals have acknowledged them
TerminalAnswers(db) ==
  {<<r.ref, r.id, r.s>> : r \in In(db, "project_terminal_acknowledgements")
                                  \cup In(db, "transfer_redemption_receipts")}
EventCursor(db) == {r.n : r \in In(db, "project_event_sequences")}
Offers(db) == {<<r.id, r.s>> : r \in In(db, "manager_responsibility_offers")}

Answers(db) ==
  [signsIn |-> SignsIn(db), mayNotJoin |-> MayNotJoin(db),
   invitations |-> OpenInvitations(db), claims |-> OpenClaims(db),
   overrides |-> OpenOverrides(db), links |-> OpenLinks(db),
   shown |-> ShownAgain(db), hidden |-> NeverShown(db),
   answered |-> Answered(db), terminal |-> TerminalAnswers(db),
   cursor |-> EventCursor(db), offers |-> Offers(db)]
==============================================================================

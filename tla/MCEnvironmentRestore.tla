------------------------- MODULE MCEnvironmentRestore -------------------------
(* Source environments for TLC: Project p has Members in every state a backup *)
(* may find them in, Project q has one Manager and may retire.                *)
EXTENDS EnvironmentRestore, TLC

Placement == Row("repository_placements", "placement", "active", "none", 1)

\* a Project its Manager m1 created here
Created(p) ==
  {Row("projects", p, "active", "main", 1), Placement,
   Row("project_memberships", "m1", "active", "manager", 1),
   Row("project_principal_bindings", "v1", "active", "m1", 0),
   Row("cloud_project_creation_journals", "creation", "completed", "m1", 0)}
\* the capture's own journal
Capturing == {Row("project_lifecycle_journals", "backup", "active", "backup", 1)}
\* m2 joined through an invitation and is still a Member, left, or was removed
Joined(status) ==
  {Row("project_memberships", "m2", status, "member", 1),
   Row("project_principal_bindings", "v2",
       IF status = "active" THEN "active" ELSE "revoked", "m2", 0),
   Row("project_invitations", "i2", "redeemed", "m1", 0),
   Row("cloud_project_join_journals", "join", "completed", "m2", 0)}
    \cup (IF status = "left"
          THEN {Row("leave_former_principal_replays", "leave", "completed", "m2", 0),
                Row("project_lifecycle_journals", "leave", "completed", "leave", 1)}
          ELSE {})
    \cup (IF status = "revoked"
          THEN {Row("project_member_removal_journals", "removal", "completed", "m2", 0),
                Row("project_lifecycle_journals", "removal", "completed",
                    "remove-member", 1)}
          ELSE {})
\* a second invitation: still open, revoked, or past its replay window
Invited(state) ==
  {Row("project_invitations", "i3", IF state = "revoked" THEN state ELSE "active",
       "m1", 0)}
    \cup (IF state = "open"
          THEN {Row("protected_invitation_envelopes", "i3", "none", "none", 0)} ELSE {})
    \cup (IF state = "revoked"
          THEN {Row("idempotency_results", "revoke", "revokeProjectInvitation", "i3", 0)}
          ELSE {})
    \cup (IF state = "hidden"
          THEN {Row("secret_replay_tombstones", "invite", "createProjectInvitation",
                    "none", 0)}
          ELSE {})
Worked ==
  {Row("change_requests", "r1", "merged", "m2", 1), Row("tickets", "t1", "closed", "m1", 2),
   Row("request_ticket_relations", "rel", "accepted", "r1", 0),
   Row("project_events", "e1", "main.advanced", "none", 1),
   Row("project_event_sequences", "cursor", "none", "none", 1),
   Row("idempotency_results", "accept", "acceptRequest", "m1", 0),
   Row("manager_responsibility_offers", "offer", "offered", "m2", 1),
   Row("project_membership_idempotency_tombstones", "old", "promoteManager", "m1", 0),
   Row("project_recovery_links", "link", "unredeemed", "m2", 0)}
\* a Project that came from a LAN host at generation g: m3 claims from the
\* second batch; the claim may have been redeemed, or a Manager has reissued it
\* twice, which leaves the claim itself as it was.  The former Member m4 was
\* bound to a principal of the development profile.
Landed(p, g, claim) ==
  {Row("projects", p, "active", "main", g), Placement,
   Row("project_memberships", "m1", "active", "manager", 1),
   Row("project_memberships", "m3", "active", "member", 1),
   Row("project_memberships", "m4", "revoked", "member", 1),
   Row("project_principal_bindings", "d4", "revoked", "m4", 0),
   Row("project_member_removal_journals", "removal", "completed", "m4", 0),
   Row("project_lifecycle_journals", "removal", "completed", "remove-member", 1),
   Row("project_principal_bindings", "v1", "active", "m1", 0),
   Row("project_lifecycle_journals", "landing", "completed", "authority-transfer", 2),
   Row("authority_transfer_recovery", "landing", "none", "none", 0),
   Row("transferred_membership_claims", "m3", "revoked", "landing", 1),
   Row("transferred_membership_claims", "m3",
       IF claim = "redeemed" THEN claim ELSE "unclaimed", "landing", 2),
   Row("transfer_claim_batch_receipts", "landing", "none", "landing", 2),
   Row("transfer_receipt_keys", "key", "none", "landing", 0)}
    \cup (IF claim = "redeemed"
          THEN {Row("transfer_redemption_receipts", "m3", "unacknowledged", "landing", 0),
                Row("project_principal_bindings", "v3", "active", "m3", 0)}
          ELSE {})
    \cup (IF claim = "reissued"
          THEN {Row("transferred_membership_claim_overrides", "m3", "superseded",
                    "landing", 1),
                Row("transferred_membership_claim_overrides", "m3", "active", "landing", 2),
                Row("protected_claim_override_envelopes", "m3", "none", "landing", 2)}
          ELSE {})
\* what an earlier move of the Project to a LAN host left at generation 1
Moved ==
  {Row("project_tombstones", "moving", "authority-transfer", "none", 1),
   Row("project_lifecycle_journals", "moving", "completed", "authority-transfer", 0),
   Row("project_terminal_responders", "moving", "authority-transfer", "moving", 0),
   Row("project_terminal_acknowledgements", "m1", "acknowledged", "moving", 0),
   Row("project_terminal_acknowledgements", "m3", "unacknowledged", "moving", 0),
   Row("transfer_receipt_keys", "oldKey", "none", "moving", 0),
   Row("transfer_redemption_receipts", "m1", "acknowledged", "moving", 0),
   Row("source_protected_claim_envelopes", "m3", "none", "moving", 0)}

Source(rows) == ("p" :> (rows \cup Capturing)) @@ ("q" :> (Created("q") \cup Capturing))
MCSources ==
  {Source(Created("p") \cup Joined("left") \cup Invited("open") \cup Worked),
   Source(Created("p") \cup Joined("revoked") \cup Invited("revoked")),
   Source(Created("p") \cup Joined("active") \cup Invited("hidden")),
   Source(Landed("p", 2, "redeemed")),
   Source(Landed("p", 3, "reissued") \cup Moved)}
==============================================================================

------------------------- MODULE EnvironmentRestore -------------------------
(***************************************************************************)
(* Environment backup and restore: EnvironmentBackupCommand.ts composes a  *)
(* catalog of live Projects and of terminal continuity while the source    *)
(* still serves; EnvironmentRestoreCoordinator.ts rebuilds it in an empty  *)
(* database and empty repository storage, driven by a journal kept in      *)
(* files by FileEnvironmentRestoreState.ts and by the fence row of         *)
(* PostgresEnvironmentRestorePersistence.ts.                               *)
(*                                                                         *)
(* One restore process runs at a time (a file lock), and may stop between  *)
(* any two steps: a step is one database transaction, one rename of a      *)
(* repository or one file operation, so a file written through a ".part"   *)
(* is created, filled and renamed in three steps.  A part that was created *)
(* and not filled is Torn.                                                 *)
(***************************************************************************)
EXTENDS ContinuityRecords

CONSTANTS Projects,      \* Projects of the source environment
          Sources,       \* source databases a backup may start from
          MayRetire,     \* Projects that may retire while the backup runs
          MaxStops,      \* times a restore process dies or fails
          MaxRestores,   \* operator restore commands
          MaxCancels     \* cancellations

ASSUME BoundsAssumption ==
  /\ MaxStops \in Nat /\ MaxRestores \in Nat /\ MaxCancels \in Nat
  /\ MayRetire \subseteq Projects

\* A source database describes Projects that serve or have ended: its rows have the
\* five fields, the row of a Project names it and main, and a Project without a
\* placement has a tombstone.
ASSUME SourcesAssumption ==
  \A db \in Sources :
    /\ db = [p \in Projects |-> db[p]]
    /\ \A p \in Projects :
         /\ \A r \in db[p] : r = Row(r.t, r.id, r.s, r.ref, r.n) /\ r.n \in Nat
         /\ \A r \in In(db[p], "projects") : r.id = p /\ r.ref = "main"
         /\ In(db[p], "repository_placements") \cup In(db[p], "project_tombstones") # {}

BackupOperation == "backup"  \* the capture's own operation, never restored

\* What the service answers is in the tables a backup reads, when no creation, join or
\* removal is under way: the schema ties a binding, a credential, a removal and a claim
\* to their Member and journal, and a cursor exists from its first event
\* (CurrentPostgresSchema.sql); create() recovers the Project before it captures it.
References(db) ==
  /\ \A b \in In(db, "project_principal_bindings")
               \cup In(db, "project_member_recovery_credentials") :
        \E m \in In(db, "project_memberships") : m.id = b.ref /\ m.s # "pending"
  /\ \A j \in In(db, "cloud_project_creation_journals")
               \cup In(db, "cloud_project_join_journals") :
        BoundTo(db, j.ref) => j.s = "completed"
  /\ \A j \in In(db, "project_member_removal_journals") : j.s = "completed" =>
        \E l \in In(db, "project_lifecycle_journals") : l.id = j.id /\ l.s = "completed"
  /\ \A c \in In(db, "transferred_membership_claims"),
        l \in In(db, "project_lifecycle_journals") :
        l.id = c.ref => l.ref = "authority-transfer" /\ l.id \notin {BackupOperation, "none"}
  /\ \A r \in In(db, "idempotency_results") : r.s \notin Synthetic
  /\ \A e \in In(db, "project_event_sequences") : e.n > 0
ASSUME ReferencesAssumption ==
  \A db \in Sources : \A p \in Projects :
    In(db[p], "repository_placements") # {} => References(db[p])

Phases == <<"validated", "database-created", "coordination-imported",
            "repositories-staged", "pair-prepared", "repositories-published",
            "authority-published", "verified", "completed">>
\* phase was reached no earlier than bound (never, when there is no journal)
AtLeast(phase, bound) ==
  \E i, j \in DOMAIN Phases : Phases[i] = phase /\ Phases[j] = bound /\ i >= j

NoFile == [phase |-> "none", cleanup |-> FALSE]
Torn == [phase |-> "torn", cleanup |-> FALSE]
Journal(phase, cleanup) == [phase |-> phase, cleanup |-> cleanup]
Volume == [phase |-> "volume", cleanup |-> FALSE]  \* contents of a pair marker
NoWrite == [file |-> "none", value |-> NoFile]
NoCall == [op |-> "none", at |-> "idle"]
Nothing == [p \in Projects |-> {}]

VARIABLES
  (* the source environment and the backup command *)
  source,      \* database of the source
  taking,      \* step of EnvironmentBackupCommand
  listing,     \* live Projects its current attempt listed
  entries,     \* captured records of each live Project
  terminals,   \* captured terminal continuity
  captured,    \* source database each live Project was captured from
  (* files of the target's authority root *)
  journal, journalPart, marker, markerPart, removal, removalPart,
  (* the target database: schema, fence row, rows and active placements *)
  schema, fence, database, placement,
  (* the target's repository storage *)
  staged, published,   \* repositories in staging and in place
  folders,             \* Projects whose directories exist under a root
  unowned,             \* ... whose staging directory has no owner marker
  (* the restore process *)
  call, write, stops, restores, cancels

backup == <<source, taking, listing, entries, terminals, captured>>
files == <<journal, journalPart, marker, markerPart, removal, removalPart>>
coordination == <<schema, fence, database, placement>>
repositories == <<staged, published, folders, unowned>>
process == <<call, write>>
budgets == <<stops, restores, cancels>>
vars == <<backup, files, coordination, repositories, process, budgets>>

Live == {p \in Projects : entries[p] # {}}
Terminal == {p \in Projects : terminals[p] # {}}

Init ==
  /\ source \in Sources
  /\ taking = "list" /\ listing = {} /\ entries = Nothing /\ terminals = Nothing
  /\ captured = Nothing
  /\ journal = NoFile /\ journalPart = NoFile
  /\ marker = NoFile /\ markerPart = NoFile
  /\ removal = NoFile /\ removalPart = NoFile
  /\ schema = "absent" /\ fence = "none" /\ database = Nothing
  /\ placement = [p \in Projects |-> 0]
  /\ staged = {} /\ published = {} /\ folders = {} /\ unowned = {}
  /\ call = NoCall /\ write = NoWrite
  /\ stops = 0 /\ restores = 0 /\ cancels = 0

-----------------------------------------------------------------------------
(* The source: a Project may retire while the backup command runs.          *)

ActivePrincipals(db) ==
  {r.ref : r \in {x \in In(db, "project_principal_bindings") : x.s = "active"}}
\* what a retirement leaves of a Project: its tombstone and terminal result
RetiredRows(db) ==
  LET g == (CHOOSE r \in In(db, "projects") : TRUE).n
  IN {Row("project_tombstones", "retirement", "retire", "none", g),
      Row("project_lifecycle_journals", "retirement", "completed", "retire", 0),
      Row("project_terminal_responders", "retirement", "retire", "retirement", 0)}
       \cup {Row("project_terminal_acknowledgements", m, "unacknowledged",
                 "retirement", 0) : m \in ActivePrincipals(db)}

Retire(p) ==
  /\ p \in MayRetire /\ taking # "published"
  /\ In(source[p], "projects") # {}
  /\ source' = [source EXCEPT ![p] = RetiredRows(source[p])]
  /\ UNCHANGED <<taking, listing, entries, terminals, captured, files,
                 coordination, repositories, process, budgets>>

-----------------------------------------------------------------------------
(* EnvironmentBackupCommand.                                                *)

Placed(p) == In(source[p], "repository_placements") # {}

\* the list of live Projects; an earlier attempt's artifacts are replayed
ListProjects ==
  /\ taking = "list"
  /\ taking' = "capture"
  /\ listing' = {p \in Projects : Placed(p)}
  /\ entries' = [p \in Projects |-> IF Placed(p) THEN entries[p] ELSE {}]
  /\ UNCHANGED <<source, terminals, captured, files, coordination, repositories,
                 process, budgets>>

\* backup.create on a listed Project; one that is gone fails the attempt
CaptureProject(p) ==
  /\ taking = "capture" /\ p \in listing /\ entries[p] = {}
  /\ IF Placed(p)
     THEN /\ Readable(source[p])
          /\ entries' = [entries EXCEPT ![p] =
                           ReadBackup(source[p], BackupOperation, "source", 1)]
          /\ captured' = [captured EXCEPT ![p] = source[p]]
          /\ UNCHANGED taking
     ELSE taking' = "list" /\ UNCHANGED <<entries, captured>>
  /\ UNCHANGED <<source, listing, terminals, files, coordination, repositories,
                 process, budgets>>

CapturesDone ==
  /\ taking = "capture"
  /\ \A p \in listing : entries[p] # {}
  /\ taking' = "terminal"
  /\ UNCHANGED <<source, listing, entries, terminals, captured, files,
                 coordination, repositories, process, budgets>>

TerminalProjects == {p \in Projects : In(source[p], "project_tombstones") # {}}
\* Mutant of TerminalConflict: the two lists are not compared
MutantTerminalConflict(p) == FALSE

\* a live entry of a Project whose tombstone covers the same generation
TerminalConflict(p) ==
  /\ entries[p] # {}
  /\ \E c \in In(ReadTerminal(source[p]), "tombstone") :
        c.s = "retire" \/ \E r \in In(entries[p], "project") : c.n >= r.n

\* the terminal records, then the catalog; a conflict abandons the attempt
PublishCatalog ==
  /\ taking = "terminal"
  /\ \A p \in TerminalProjects : ValidTerminal(ReadTerminal(source[p]))
  /\ IF \E p \in TerminalProjects : TerminalConflict(p)
     THEN /\ taking' = "list"
          /\ UNCHANGED terminals
     ELSE /\ taking' = "published"
          /\ terminals' = [p \in Projects |->
                             IF p \in TerminalProjects
                             THEN ReadTerminal(source[p]) ELSE {}]
  /\ UNCHANGED <<source, listing, entries, captured, files, coordination,
                 repositories, process, budgets>>

-----------------------------------------------------------------------------
(* Files.  writeAtomic: create the part, fill it, rename it.                *)

Part(file) ==
  CASE file = "journal" -> journalPart
    [] file = "marker" -> markerPart
    [] OTHER -> removalPart
File(file) ==
  CASE file = "journal" -> journal [] file = "marker" -> marker [] OTHER -> removal
SetPart(file, value) ==
  /\ journalPart' = IF file = "journal" THEN value ELSE journalPart
  /\ markerPart' = IF file = "marker" THEN value ELSE markerPart
  /\ removalPart' = IF file = "removal" THEN value ELSE removalPart
SetFile(file, value) ==
  /\ journal' = IF file = "journal" THEN value ELSE journal
  /\ marker' = IF file = "marker" THEN value ELSE marker
  /\ removal' = IF file = "removal" THEN value ELSE removal

\* open(part, 'wx'): the part exists and holds nothing
Write(file, value) ==
  /\ write' = [file |-> file, value |-> value]
  /\ SetPart(file, Torn)
  /\ UNCHANGED <<journal, marker, removal>>
WriteJournal(phase, cleanup) == Write("journal", Journal(phase, cleanup))

\* writeFile and fsync
FillPart ==
  /\ write # NoWrite /\ Part(write.file) = Torn
  /\ SetPart(write.file, write.value)
  /\ UNCHANGED <<journal, marker, removal, backup, coordination, repositories,
                 process, budgets>>
\* rename over the file; a removal intent continues with the removal itself
RenamePart ==
  /\ write # NoWrite /\ Part(write.file) = write.value
  /\ SetFile(write.file, write.value)
  /\ SetPart(write.file, NoFile)
  /\ write' = NoWrite
  /\ call' = IF write.file = "removal" THEN [call EXCEPT !.at = "unmark"] ELSE call
  /\ UNCHANGED <<backup, coordination, repositories, budgets>>

\* nextJournal: the phase after this one
Follows(next, phase) ==
  \E i \in DOMAIN Phases : i > 1 /\ Phases[i] = next /\ Phases[i - 1] = phase
\* what may lie beside a journal: its next phase, its own cleanup request, or
\* the withdrawal of one after publication
ValidPart(part) ==
  \/ journal = NoFile /\ part.phase = "validated"
  \/ part.phase = journal.phase /\ (part = journal \/ (part.cleanup /\ ~journal.cleanup))
  \/ Follows(part.phase, journal.phase) /\ ~part.cleanup
       /\ (journal.cleanup => journal.phase = "repositories-published")
\* #readJournal: a complete part is promoted, a torn one fails the call
JournalRead == journalPart = NoFile
PromoteJournal ==
  /\ call.at = "inspect" /\ write = NoWrite /\ removal = NoFile
  /\ removalPart = NoFile
  /\ journalPart \notin {NoFile, Torn} /\ ValidPart(journalPart)
  /\ SetFile("journal", journalPart) /\ SetPart("journal", NoFile)
  /\ UNCHANGED <<backup, coordination, repositories, process, budgets>>

\* #readPair: the marker or its part names the volume; a torn part is ambiguous
Pair ==
  IF markerPart = Torn THEN "ambiguous"
  ELSE IF marker = NoFile /\ markerPart = NoFile THEN "absent" ELSE "exact"

\* #readRemovalIntent and #recoverRemoval: every call first finishes a removal
PromoteRemoval ==
  /\ call.at = "inspect" /\ write = NoWrite
  /\ removalPart \notin {NoFile, Torn}
  /\ SetFile("removal", removalPart) /\ SetPart("removal", NoFile)
  /\ UNCHANGED <<backup, coordination, repositories, process, budgets>>
RecoverRemoval ==
  /\ call.at = "inspect" /\ write = NoWrite
  /\ removal # NoFile /\ removalPart = NoFile
  /\ journalPart # Torn /\ Pair # "ambiguous"
  /\ call' = [call EXCEPT !.at = "unmark"]
  /\ UNCHANGED <<backup, files, coordination, repositories, write, budgets>>

\* #finishRemoval: markers, journal and intent, in this order
Unmark ==
  /\ call.at = "unmark" /\ write = NoWrite
  /\ SetFile("marker", NoFile) /\ SetPart("marker", NoFile)
  /\ call' = [call EXCEPT !.at = "unjournal"]
  /\ UNCHANGED <<backup, coordination, repositories, write, budgets>>
Unjournal ==
  /\ call.at = "unjournal"
  /\ SetFile("journal", NoFile) /\ SetPart("journal", NoFile)
  /\ call' = [call EXCEPT !.at = "unintent"]
  /\ UNCHANGED <<backup, coordination, repositories, write, budgets>>
Unintent ==
  /\ call.at = "unintent"
  /\ SetFile("removal", NoFile) /\ SetPart("removal", NoFile)
  /\ call' = [call EXCEPT !.at = "inspect"]
  /\ UNCHANGED <<backup, coordination, repositories, write, budgets>>

-----------------------------------------------------------------------------
(* A call: the operator's restore or cancel command, or the recover-restore *)
(* command every start of the deployment runs first.                        *)

Begin(op) == call = NoCall /\ call' = [op |-> op, at |-> "inspect"]

CallRestore ==
  /\ taking = "published" /\ restores < MaxRestores
  /\ Begin("restore") /\ restores' = restores + 1
  /\ UNCHANGED <<backup, files, coordination, repositories, write, stops, cancels>>
CallCancel ==
  /\ journal # NoFile /\ cancels < MaxCancels
  /\ Begin("cancel") /\ cancels' = cancels + 1
  /\ UNCHANGED <<backup, files, coordination, repositories, write, stops, restores>>
\* nothing to recover: the command returns before it opens anything
Restoring ==
  journal # NoFile \/ journalPart # NoFile \/ removal # NoFile \/ removalPart # NoFile
CallRecover ==
  /\ Restoring /\ journal.phase # "completed"
  /\ Begin("recover")
  /\ UNCHANGED <<backup, files, coordination, repositories, write, budgets>>

\* the process is killed, or a dependency fails and the call returns
Stop ==
  /\ call # NoCall /\ stops < MaxStops
  /\ call' = NoCall /\ write' = NoWrite /\ stops' = stops + 1
  /\ UNCHANGED <<backup, files, coordination, repositories, restores, cancels>>

Inspecting == call.at = "inspect" /\ write = NoWrite
Unfinished == removal # NoFile \/ removalPart # NoFile
Settled == Inspecting /\ ~Unfinished /\ JournalRead
PairPrepared == AtLeast(journal.phase, "pair-prepared")
\* Mutant of PairFits: the marker and the journal are taken to be one write
MutantPairFits ==
  IF PairPrepared THEN Pair = "exact" ELSE Pair = "absent"

\* which pair each phase may find: the marker comes just before its phase
PairFits ==
  \/ PairPrepared /\ Pair = "exact"
  \/ ~PairPrepared /\ Pair = "absent"
  \/ journal.phase = "repositories-staged" /\ Pair = "exact"
\* an artifact of the catalog holds one Project, placement and pair record
ExactRecords(p) ==
  \A kind \in {"project", "placement", "volumePair"} :
     Cardinality(In(entries[p], kind)) = 1
ArtifactsExact ==
  /\ \A p \in Live : ExactRecords(p)
  /\ \A p \in Terminal : ValidTerminal(terminals[p])
ValidCatalog == Live \cup Terminal # {} /\ ArtifactsExact
StorageEmpty == staged \cup published \cup folders = {}
TargetEmpty == Pair = "absent" /\ schema = "absent" /\ StorageEmpty

\* #restore without a journal: the target must be empty
CreateJournal ==
  /\ Settled /\ call.op = "restore" /\ journal = NoFile
  /\ ValidCatalog /\ TargetEmpty
  /\ WriteJournal("validated", FALSE)
  /\ call' = [call EXCEPT !.at = "run"]
  /\ UNCHANGED <<backup, removal, coordination, repositories, budgets>>
\* #restore and #recover with a journal
ResumeRun ==
  /\ Settled /\ call.op \in {"restore", "recover"}
  /\ journal # NoFile /\ ~journal.cleanup /\ PairFits
  /\ call' = [call EXCEPT !.at = "run"]
  /\ UNCHANGED <<backup, files, coordination, repositories, write, budgets>>
Cancellable ==
  journal # NoFile /\ ~journal.cleanup /\ ~AtLeast(journal.phase, "authority-published")
\* #cancel before publication: the request is journalled first
RequestCleanup ==
  /\ Settled /\ call.op = "cancel" /\ Cancellable
  /\ WriteJournal(journal.phase, TRUE)
  /\ call' = [call EXCEPT !.at = "cleanup"]
  /\ UNCHANGED <<backup, removal, coordination, repositories, budgets>>
ResumeCleanup ==
  /\ Settled /\ call.op \in {"cancel", "recover"} /\ journal # NoFile
  /\ journal.cleanup
  /\ call' = [call EXCEPT !.at = "cleanup"]
  /\ UNCHANGED <<backup, files, coordination, repositories, write, budgets>>

\* the importer neither enters nor discards a directory without its owner marker,
\* and a process only marks one that it has made itself
StagingBarred ==
  /\ unowned # {} /\ write = NoWrite
  /\ \/ call.at = "run" /\ journal.phase = "coordination-imported"
     \/ call.at = "staging" /\ AtLeast(journal.phase, "coordination-imported")
Refused ==
  \/ StagingBarred
  \/ Inspecting /\ (journalPart = Torn \/ removalPart = Torn)
  \/ Inspecting /\ removal # NoFile /\ Pair = "ambiguous"
  \/ /\ Settled
     /\ CASE call.op = "restore" ->
               \/ journal = NoFile /\ ~TargetEmpty
               \/ journal # NoFile /\ (journal.cleanup \/ ~PairFits)
          [] call.op = "recover" ->
               journal = NoFile \/ (~journal.cleanup /\ ~PairFits)
          [] OTHER ->
               \/ journal = NoFile
               \/ AtLeast(journal.phase, "authority-published")
  \/ call.at = "cleanup" /\ write = NoWrite /\ ~PairFits
\* the call returns: an error, or a recovery with nothing left to do
Return ==
  /\ Refused
  /\ call' = NoCall
  /\ UNCHANGED <<backup, files, coordination, repositories, write, budgets>>

-----------------------------------------------------------------------------
(* #run: the steps of each phase, then the journal.                         *)

Running(phase) ==
  call.at = "run" /\ write = NoWrite /\ journal.phase = phase
Advance(phase) ==
  /\ WriteJournal(phase, FALSE)
  /\ UNCHANGED <<call, removal, backup, coordination, repositories, budgets>>
OnDatabase == UNCHANGED <<backup, files, repositories, process, budgets>>
OnStorage == UNCHANGED <<backup, files, coordination, process, budgets>>

\* every transaction of the restore first locks its own fence row
FenceIs(state) == fence = state
\* createDatabase: the fence commits before the schema is applied
CreateFence ==
  /\ Running("validated") /\ schema = "absent"
  /\ schema' = "fence" /\ fence' = "staged"
  /\ UNCHANGED <<database, placement>> /\ OnDatabase
ApplySchema ==
  /\ Running("validated") /\ schema = "fence"
  /\ schema' = "tables"
  /\ UNCHANGED <<fence, database, placement>> /\ OnDatabase
DatabaseCreated ==
  Running("validated") /\ schema = "tables" /\ Advance("database-created")

\* importProject: one transaction that inserts every record and commits only
\* when the rows read back as the records
ImportProject(p) ==
  /\ Running("database-created") /\ p \in Live /\ database[p] = {}
  /\ FenceIs("staged") /\ Importable(entries[p])
  /\ ReadsBack(ImportRows(entries[p]), entries[p], BackupOperation, "target")
  /\ database' = [database EXCEPT ![p] = ImportRows(entries[p])]
  /\ UNCHANGED <<schema, fence, placement>> /\ OnDatabase
\* importTerminalProject, after the live Projects
ImportTerminal(p) ==
  /\ Running("database-created") /\ p \in Terminal
  /\ \A q \in Live : database[q] # {}
  /\ FenceIs("staged") /\ ~ TerminalRows(terminals[p]) \subseteq database[p]
  /\ ImportableTerminal(database[p], terminals[p])
  /\ database' = [database EXCEPT ![p] = @ \cup TerminalRows(terminals[p])]
  /\ UNCHANGED <<schema, fence, placement>> /\ OnDatabase
TerminalContinues(p) == ReadTerminal(database[p]) = terminals[p]
\* a resumed import finds the rows there and compares them again
ImportExact ==
  /\ \A p \in Live :
        /\ database[p] # {}
        /\ ReadsBack(database[p], entries[p], BackupOperation, "target")
  /\ \A p \in Terminal : TerminalContinues(p)
CoordinationImported ==
  /\ Running("database-created") /\ ImportExact
  /\ Advance("coordination-imported")

\* stage: importCheckpoint of each bundle; replayed when it is there.  The directory
\* comes first, then its owner marker; behind the marker a later process resumes.
MakeDirectory(p) ==
  /\ Running("coordination-imported") /\ p \in Live \ staged /\ unowned = {}
  /\ unowned' = {p} /\ folders' = folders \cup {p}
  /\ call' = [call EXCEPT !.at = "import"]
  /\ UNCHANGED <<staged, published, backup, files, coordination, write, budgets>>
StageRepository(p) ==
  /\ call.at = "import" /\ p \in unowned
  /\ staged' = staged \cup {p} /\ unowned' = {}
  /\ call' = [call EXCEPT !.at = "run"]
  /\ UNCHANGED <<published, folders, backup, files, coordination, write, budgets>>
\* the journal keeps one inactive publication for each Project
PublicationsListed == Live \subseteq staged
RepositoriesStaged ==
  /\ Running("coordination-imported") /\ PublicationsListed
  /\ Advance("repositories-staged")

\* preparePair: the marker beside the repositories, then the journal
WriteMarker ==
  /\ Running("repositories-staged") /\ Pair = "absent"
  /\ Write("marker", Volume)
  /\ UNCHANGED <<call, removal, backup, coordination, repositories, budgets>>
PromoteMarker ==
  /\ Running("repositories-staged") /\ marker = NoFile /\ markerPart = Volume
  /\ SetFile("marker", Volume) /\ SetPart("marker", NoFile)
  /\ UNCHANGED <<backup, coordination, repositories, process, budgets>>
PairPreparedStep ==
  /\ Running("repositories-staged") /\ marker = Volume /\ markerPart = NoFile
  /\ Advance("pair-prepared")

\* publishInactive: a rename out of staging
PublishRepository(p) ==
  /\ Running("pair-prepared") /\ p \in staged
  /\ staged' = staged \ {p} /\ published' = published \cup {p}
  /\ UNCHANGED <<folders, unowned>> /\ OnStorage
\* Mutant of RepositoriesPublished: the first publication moves the journal
MutantRepositoriesPublished ==
  Running("pair-prepared") /\ published # {} /\ Advance("repositories-published")

RepositoriesPublished ==
  /\ Running("pair-prepared") /\ staged = {} /\ published = Live
  /\ Advance("repositories-published")

SourceGeneration(p) == (CHOOSE r \in In(entries[p], "placement") : TRUE).n
\* publishAuthority: placements one generation on, Projects active and the
\* fence published, in one transaction
PublishAuthority ==
  /\ Running("repositories-published") /\ FenceIs("staged")
  /\ placement' = [p \in Projects |->
                     IF p \in Live THEN SourceGeneration(p) + 1 ELSE placement[p]]
  /\ database' = [p \in Projects |->
                    {IF r.t = "projects" THEN [r EXCEPT !.s = "active"] ELSE r :
                       r \in database[p]}]
  /\ fence' = "published"
  /\ UNCHANGED schema /\ OnDatabase
FencePublished == FenceIs("published")
AuthorityPublished ==
  /\ Running("repositories-published") /\ FencePublished
  /\ Advance("authority-published")

\* the published placement is part of what a re-read returns
PlacedRows(p) ==
  database[p] \cup
    {[r EXCEPT !.t = "repository_placements", !.n = placement[p]] :
       r \in In(entries[p], "placement")}
\* the restored continuity equals the artifact of the catalog
LiveContinues(p) ==
  ReadBackup(PlacedRows(p), BackupOperation, "target", 2)
    = Renewed(entries[p], "target", SourceGeneration(p) + 1)
\* #verify: database, repositories and continuity against the catalog
Verified ==
  /\ FencePublished /\ published = Live
  /\ \A p \in Live : LiveContinues(p)
  /\ \A p \in Terminal : TerminalContinues(p)
VerifyRestored ==
  Running("authority-published") /\ Verified /\ Advance("verified")
\* a restore that resumes here verifies again, a recovery does not
Complete ==
  /\ Running("verified")
  /\ call.op = "restore" => Verified
  /\ Advance("completed")
Completed ==
  /\ Running("completed")
  /\ call' = NoCall
  /\ UNCHANGED <<backup, files, coordination, repositories, write, budgets>>

-----------------------------------------------------------------------------
(* #cleanup: database, repositories, staging, then the journal itself.      *)

Cleaning(at) == call.at = at /\ write = NoWrite
Then(at) == call' = [call EXCEPT !.at = at]

\* classifyOrRemoveRestoreOwnedDatabase: an unpublished database is dropped
DropDatabase ==
  /\ Cleaning("cleanup") /\ PairFits /\ fence # "published"
  /\ schema' = "absent" /\ fence' = "none" /\ database' = Nothing
  /\ placement' = [p \in Projects |-> 0]
  /\ Then("repositories")
  /\ UNCHANGED <<backup, files, repositories, write, budgets>>
\* ... a published one is kept, and the request to clean up is withdrawn; a
\* recovery goes on, a cancellation ends in an error
WithdrawCleanup ==
  /\ Cleaning("cleanup") /\ PairFits /\ fence = "published"
  /\ journal = Journal("repositories-published", TRUE)
  /\ WriteJournal("authority-published", FALSE)
  /\ Then("run")
  /\ UNCHANGED <<backup, removal, coordination, repositories, budgets>>
CancelRefused ==
  /\ call.op = "cancel" /\ call.at = "run" /\ write = NoWrite
  /\ call' = NoCall
  /\ UNCHANGED <<backup, files, coordination, repositories, write, budgets>>

\* removeRestoreOwned, once the journal names the repositories
RemoveRepository(p) ==
  /\ Cleaning("repositories") /\ AtLeast(journal.phase, "repositories-staged")
  /\ p \in staged \cup published
  /\ staged' = staged \ {p} /\ published' = published \ {p}
  /\ UNCHANGED <<folders, unowned>> /\ OnStorage
RepositoriesRemoved ==
  /\ Cleaning("repositories")
  /\ AtLeast(journal.phase, "repositories-staged") => staged \cup published = {}
  /\ Then("staging")
  /\ UNCHANGED <<backup, files, coordination, repositories, write, budgets>>
\* removeRestoreStaging, once staging may have begun; nothing is imported again
\* after it, so that a removal cut off is only finished
DiscardStaging ==
  /\ Cleaning("staging") /\ ~StagingBarred
  /\ staged' = IF AtLeast(journal.phase, "coordination-imported") THEN {} ELSE staged
  /\ Then("remove")
  /\ UNCHANGED <<published, folders, unowned, backup, files, coordination, write,
                 budgets>>
\* state.remove: an intent to remove, then the files
RemoveJournal ==
  /\ Cleaning("remove") /\ Pair # "ambiguous"
  /\ Write("removal", journal)
  /\ UNCHANGED <<call, journal, marker, backup, coordination, repositories, budgets>>

-----------------------------------------------------------------------------
Environment ==
  \/ \E p \in Projects : Retire(p)
  \/ CallRestore
  \/ CallCancel
  \/ Stop
BackupStep ==
  \/ ListProjects
  \/ \E p \in Projects : CaptureProject(p)
  \/ CapturesDone
  \/ PublishCatalog
FileStep ==
  \/ FillPart \/ RenamePart
  \/ PromoteJournal \/ PromoteRemoval \/ RecoverRemoval
  \/ Unmark \/ Unjournal \/ Unintent
CallStep ==
  \/ CreateJournal \/ ResumeRun \/ RequestCleanup \/ ResumeCleanup \/ Return
RunStep ==
  \/ CreateFence \/ ApplySchema \/ DatabaseCreated
  \/ \E p \in Projects : ImportProject(p) \/ ImportTerminal(p)
  \/ CoordinationImported
  \/ \E p \in Projects : MakeDirectory(p) \/ StageRepository(p) \/ PublishRepository(p)
  \/ RepositoriesStaged
  \/ WriteMarker \/ PromoteMarker \/ PairPreparedStep
  \/ RepositoriesPublished \/ PublishAuthority \/ AuthorityPublished
  \/ VerifyRestored \/ Complete \/ Completed
CleanupStep ==
  \/ DropDatabase \/ WithdrawCleanup \/ CancelRefused
  \/ \E p \in Projects : RemoveRepository(p)
  \/ RepositoriesRemoved \/ DiscardStaging \/ RemoveJournal
Step == FileStep \/ CallStep \/ RunStep \/ CleanupStep

Next == Environment \/ BackupStep \/ CallRecover \/ Step

\* a process that runs goes on; the deployment runs recover-restore at every
\* start, and a start that fails is repeated
Fairness == WF_vars(Step) /\ SF_vars(CallRecover)
Spec == Init /\ [][Next]_vars /\ Fairness

-----------------------------------------------------------------------------
(* Properties.                                                              *)

\* A published catalog is one consistent cut of the environment: a Project
\* that was live when it was listed or that had ended is in it, and none is in
\* it both as live and as ended at the same generation, although Projects
\* retire while EnvironmentBackupCommand walks them.
CatalogWhole ==
  taking = "published" =>
    /\ Live \cup Terminal = Projects
    /\ \A p \in Live \cap Terminal :
          \A c \in In(terminals[p], "tombstone") :
             c.s # "retire" /\ \A r \in In(entries[p], "project") : c.n < r.n

\* Authority is published only over a whole environment, wherever earlier
\* processes stopped: every Project of the catalog is in the database and in
\* repository storage, placed one generation on and serving, and the volume is
\* marked (publishAuthority, preparePair and the order of #run).
PublishedWhole ==
  fence = "published" =>
    /\ published = Live /\ marker = Volume
    /\ \A p \in Live :
          /\ placement[p] = SourceGeneration(p) + 1
          /\ Row("projects", p, "active", "main", 
                 (CHOOSE r \in In(entries[p], "project") : TRUE).n) \in database[p]
    /\ \A p \in Terminal : TerminalRows(terminals[p]) \subseteq database[p]

\* The restored environment answers as the captured one did: no used
\* invitation, claim or link can be used again, no barred principal may join,
\* no retained result, acknowledgement or event position is lost (readers of
\* the checkpoint persistence against the inserts of the restore).
AnswersKept ==
  fence = "published" =>
    \A p \in Live :
      LET then == Answers(captured[p] \cup
                            (IF p \in Terminal THEN TerminalRows(terminals[p]) ELSE {}))
      IN Answers(database[p]) = then

\* When a restore has been cancelled nothing of it is left in the database,
\* the repository storage or the authority root, at whatever step the cleanup
\* was interrupted (the directories of the Projects themselves do stay).
CancelLeavesNothing ==
  ~Restoring /\ call = NoCall =>
    /\ schema = "absent" /\ database = Nothing
    /\ staged = {} /\ published = {} /\ unowned = {}
    /\ marker = NoFile /\ markerPart = NoFile

\* The capture takes all of the environment, and a restore shows all of it or none.
WholeOrNothing == CatalogWhole /\ PublishedWhole /\ CancelLeavesNothing

\* a part that a killed process created and never filled
TornPart == Torn \in {journalPart, markerPart, removalPart} /\ call = NoCall

\* a staging directory that a killed process made and never marked
Unowned == unowned # {} /\ call.at # "import"

\* A restore that has begun is completed or removed by the recovery that runs
\* at every start, unless a torn part or an unmarked directory bars it (recover,
\* #cleanup, #run, and the importer's stage and discard).
RestoreSettles ==
  (journal # NoFile) ~>
    (journal.phase = "completed" \/ ~Restoring \/ TornPart \/ Unowned)

==============================================================================

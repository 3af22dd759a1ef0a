----------------------- MODULE DevelopmentBootstrap_proof -----------------------
(***************************************************************************)
(* Theorems about bringing a LAN Project into the private-development      *)
(* profile, for any number of attempts, requests, uploads and faults.      *)
(***************************************************************************)
EXTENDS DevelopmentBootstrap, TLAPS

-----------------------------------------------------------------------------
(* The inductive invariant. *)

Op       == {"none", "activate", "cancel", "recover"}
Drain    == {"closing", "draining"}
Alone    == {"settling", "renaming", "renamed", "erasing", "discarding"}
Step     == {"idle", "asked"} \cup Drain \cup Alone
Import   == {"importing", "marking", "staging"}
Transfer == {"admitted"} \cup Import

ProcessTypes ==
  /\ call \in [Actors -> [op : Op, attempt : Attempts \cup {NoAttempt}, step : Step]]
  /\ upload \in [Uploads -> [attempt : Attempts \cup {NoAttempt},
                             step : {"idle", "imported"} \cup Transfer]]

\* The phase says what the state can be, and a ready attempt is a validated one.
RowShape(r) ==
  /\ r.phase = "none" => r.state \in {"absent"} \cup Collecting
  /\ r.phase = "cancel-intent" => r.state \in Collecting
  /\ r.phase \in {"publish-intent", "repository-published"} =>
       r.state \in {"activating", "recovery-required"}
  /\ r.phase \in {"activated", "completed"} => r.state \in {"activated", "recovery-required"}
  /\ r.phase = "cancelled" => r.state = "cancelled"
  /\ r.phase = "recovery-required" => r.state = "recovery-required"
  /\ r.state = "ready" => ValidatedAttempt(r)

\* An attempt that is or was the Project's; there is one at most.
Live(a) == row[a].state \in Nonterminal \cup {"activated"}

OneLive == \A a, b \in Attempts : Live(a) /\ Live(b) => a = b

\* The service follows the attempt, and the disk the phase.
StandingInv(a) ==
  /\ RowShape(row[a])
  /\ row[a].state \in Collecting \cup {"activating"} => service = "none"
  /\ row[a].state = "activated" => service = "active" /\ catalogued

StagedInv(a) ==
  /\ row[a].phase = "none" /\ row[a].bundle = "validated" => target[a] = "validated"
  /\ row[a].phase = "publish-intent" /\ row[a].state = "activating" =>
       target[a] = "validated" \/ repository = a
  /\ row[a].phase \in {"repository-published", "activated", "completed"} => repository = a
  /\ target[a] \in {"leftover", "torn"} => repository = a
  /\ repository = a =>
       /\ target[a] \in {"leftover", "torn", "none"} /\ Uploading(a) = {}
       /\ row[a].phase \in Activation /\ row[a].state \notin {"absent"} \cup Collecting

\* An attempt that is over is left alone.
OverInv(a) ==
  /\ row[a].state \in {"cancelled", "recovery-required"} => Uploading(a) = {}
  /\ row[a].state = "cancelled" => target[a] = "none" /\ cleanup[a] = "none"
  /\ row[a].state = "recovery-required" =>
       \/ repository = a /\ (used \/ target[a] = "torn")
       \/ Conflict(a)
       \/ a \in misread

AttemptInv(a) == StandingInv(a) /\ StagedInv(a) /\ OverInv(a)

\* One upload imports, and it knows what it will find.
UploadInv(u) ==
  LET a == upload[u].attempt IN
  /\ upload[u].step # "idle" => a \in Attempts
  /\ admitted[u] = IF upload[u].step \in Transfer THEN a ELSE NoAttempt
  /\ upload[u].step \in Import => ~Busy(u)
  /\ upload[u].step = "marking" => target[a] = "unowned"
  /\ upload[u].step = "staging" => target[a] \in {"owned", "validated"}
  /\ upload[u].step = "imported" /\ row[a].phase = "none" => target[a] = "validated"

\* One call holds the lease, and past the drain no upload touches its attempt.
Holding(c) == call[c].step \notin {"idle", "asked"}

LeaseInv(c) ==
  /\ call[c].step # "idle" => Of(c) \in Attempts
  /\ Holding(c) => lease = Of(c)
  /\ \A d \in Actors \ {c} : ~(Holding(c) /\ Holding(d))

StepInv(c) ==
  /\ call[c].step \in Alone => Uploading(Of(c)) = {}
  /\ call[c].step \in {"renaming", "renamed"} =>
       Phase(c) = "publish-intent" /\ row[Of(c)].state = "activating"
  /\ call[c].step = "renaming" => target[Of(c)] = "validated" /\ repository = NoAttempt
  /\ call[c].step = "renamed" => repository = Of(c)
  /\ call[c].step = "erasing" => row[Of(c)].state = "activated"
  /\ call[c].step = "discarding" => Phase(c) = "cancel-intent"

IInv ==
  /\ TypeOK /\ ProcessTypes /\ OneLive /\ CandidateTracksSettlement
  /\ \A a \in Attempts : AttemptInv(a)
  /\ \A u \in Uploads : UploadInv(u)
  /\ \A c \in Actors : LeaseInv(c) /\ StepInv(c)

-----------------------------------------------------------------------------
(* Rows. *)

Row == [state : State, bundle : Bundle, reports : SUBSET Reporters,
        phase : {"none"} \cup Activation \cup Cancellation]

\* What the transactions of a report, an upload and a settlement make of a row.
LEMMA RowSteps ==
  ASSUME NEW r \in Row
  PROVE  /\ \A m \in Reporters : /\ PutReport(r, m) \in Row
                                 /\ PutReport(r, m).state = r.state
                                 /\ PutReport(r, m).phase = r.phase
                                 /\ PutReport(r, m).bundle = r.bundle
         /\ LET s == Validate(PutUpload(r)) IN
              s \in Row /\ s.state = r.state /\ s.phase = r.phase /\ s.bundle = "validated"
              /\ s.reports = r.reports
         /\ BeginActivation(r) \in Row
         /\ BeginActivation(r).state = "activating" /\ BeginActivation(r).phase = "publish-intent"
         /\ BeginCancellation(r) \in Row
         /\ BeginCancellation(r).state = r.state /\ BeginCancellation(r).phase = "cancel-intent"
         /\ BeginCancellation(r).bundle = r.bundle /\ BeginCancellation(r).reports = r.reports
<1>1. ASSUME NEW m \in Reporters
      PROVE  /\ PutReport(r, m) \in Row /\ PutReport(r, m).state = r.state
             /\ PutReport(r, m).phase = r.phase /\ PutReport(r, m).bundle = r.bundle
  BY DEF PutReport, Row
<1>2. /\ PutUpload(r) \in Row /\ PutUpload(r).state = r.state /\ PutUpload(r).phase = r.phase
      /\ PutUpload(r).bundle \in {"uploaded", "validated"} /\ PutUpload(r).reports = r.reports
  BY DEF PutUpload, Row, Bundle
<1>3. ASSUME NEW q \in Row, q.bundle \in {"uploaded", "validated"}
      PROVE  /\ Validate(q) \in Row /\ Validate(q).state = q.state /\ Validate(q).phase = q.phase
             /\ Validate(q).bundle = "validated" /\ Validate(q).reports = q.reports
  BY <1>3 DEF Validate, Row, Bundle
<1>4. /\ BeginActivation(r) \in Row
      /\ BeginActivation(r).state = "activating" /\ BeginActivation(r).phase = "publish-intent"
  BY DEF BeginActivation, Row, State, Nonterminal, Activation
<1>5. /\ BeginCancellation(r) \in Row
      /\ BeginCancellation(r).state = r.state /\ BeginCancellation(r).phase = "cancel-intent"
      /\ BeginCancellation(r).bundle = r.bundle /\ BeginCancellation(r).reports = r.reports
  BY DEF BeginCancellation, Row, Cancellation
<1>6. /\ Validate(PutUpload(r)) \in Row /\ Validate(PutUpload(r)).state = r.state
      /\ Validate(PutUpload(r)).phase = r.phase /\ Validate(PutUpload(r)).bundle = "validated"
      /\ Validate(PutUpload(r)).reports = r.reports
  BY <1>2, <1>3
<1> QED BY <1>1, <1>4, <1>5, <1>6

\* #promoteReady changes a validated attempt's state to ready, and nothing else.
LEMMA Promoted ==
  ASSUME NEW r \in Row
  PROVE  /\ PromoteReady(r) \in Row
         /\ PromoteReady(r).phase = r.phase /\ PromoteReady(r).bundle = r.bundle
         /\ PromoteReady(r).reports = r.reports
         /\ \/ PromoteReady(r).state = r.state
            \/ /\ PromoteReady(r).state = "ready" /\ r.state \in {"collecting", "validating"}
               /\ ValidatedAttempt(r)
<1>1. CASE ValidatedAttempt(r) /\ r.state \in {"collecting", "validating"}
  BY <1>1 DEF PromoteReady, Row, State, Nonterminal, Collecting
<1>2. CASE ~(ValidatedAttempt(r) /\ r.state \in {"collecting", "validating"})
  BY <1>2 DEF PromoteReady
<1> QED BY <1>1, <1>2

\* The advances of a settlement.
LEMMA Advanced ==
  ASSUME NEW r \in Row
  PROVE  /\ r.phase = "publish-intent" =>
              /\ AdvanceActivation(r) \in Row /\ AdvanceActivation(r).state = r.state
              /\ AdvanceActivation(r).phase = "repository-published"
         /\ r.phase = "repository-published" =>
              /\ AdvanceActivation(r) \in Row /\ AdvanceActivation(r).state = "activated"
              /\ AdvanceActivation(r).phase = "activated"
         /\ r.phase = "activated" =>
              /\ AdvanceActivation(r) \in Row /\ AdvanceActivation(r).state = r.state
              /\ AdvanceActivation(r).phase = "completed"
         /\ \A next \in {"cancelled", "recovery-required"} :
              /\ AdvanceCancellation(r, next) \in Row
              /\ AdvanceCancellation(r, next).state = next
              /\ AdvanceCancellation(r, next).phase = next
<1>1. ASSUME r.phase = "publish-intent"
      PROVE  /\ AdvanceActivation(r) \in Row /\ AdvanceActivation(r).state = r.state
             /\ AdvanceActivation(r).phase = "repository-published"
  BY <1>1 DEF AdvanceActivation, NextPhase, Row, Activation
<1>2. ASSUME r.phase = "repository-published"
      PROVE  /\ AdvanceActivation(r) \in Row /\ AdvanceActivation(r).state = "activated"
             /\ AdvanceActivation(r).phase = "activated"
  BY <1>2 DEF AdvanceActivation, NextPhase, Row, Activation, State
<1>3. ASSUME r.phase = "activated"
      PROVE  /\ AdvanceActivation(r) \in Row /\ AdvanceActivation(r).state = r.state
             /\ AdvanceActivation(r).phase = "completed"
  BY <1>3 DEF AdvanceActivation, NextPhase, Row, Activation
<1>4. ASSUME NEW next \in {"cancelled", "recovery-required"}
      PROVE  /\ AdvanceCancellation(r, next) \in Row
             /\ AdvanceCancellation(r, next).state = next
             /\ AdvanceCancellation(r, next).phase = next
  BY DEF AdvanceCancellation, Row, Cancellation, State, Nonterminal
<1> QED BY <1>1, <1>2, <1>3, <1>4

-----------------------------------------------------------------------------
(* What a step leaves alone. *)

\* The attempts depend on their rows, the Project, the disk and the gates.
LEMMA AttemptsKept ==
  ASSUME IInv, UNCHANGED <<row, candidate, projectVars, target, cleanup, repository, used, admitted,
                           misread>>
  PROVE  OneLive' /\ CandidateTracksSettlement' /\ \A a \in Attempts : AttemptInv(a)'
<1> USE DEF IInv, projectVars
<1>1. OneLive' /\ CandidateTracksSettlement'
  BY DEF OneLive, Live, CandidateTracksSettlement
<1>2. ASSUME NEW a \in Attempts
      PROVE  AttemptInv(a)'
  BY DEF AttemptInv, StandingInv, StagedInv, OverInv, Uploading, Conflict
<1> QED BY <1>1, <1>2

\* An upload depends on itself, its gate, what is staged and its row's phase.
LEMMA UploadsKept ==
  ASSUME IInv, UNCHANGED <<upload, admitted, target>>,
         \A a \in Attempts : row'[a].phase = "none" => row[a].phase = "none"
  PROVE  \A u \in Uploads : UploadInv(u)'
BY DEF IInv, UploadInv, Busy, Transfer, Import

\* A call depends on itself, the lease, and its own attempt.
LEMMA CallsKept ==
  ASSUME IInv, UNCHANGED <<call, lease, repository>>,
         \A a \in Attempts : lease = a =>
           /\ row'[a] = row[a] /\ (Uploading(a) = {} => Uploading(a)' = {})
           /\ repository = NoAttempt /\ Uploading(a) = {} => target'[a] = target[a]
  PROVE  \A c \in Actors : LeaseInv(c)' /\ StepInv(c)'
<1> USE DEF IInv
<1> SUFFICES ASSUME NEW c \in Actors
             PROVE  LeaseInv(c)' /\ StepInv(c)'
  OBVIOUS
<1>1. LeaseInv(c)'
  BY DEF LeaseInv, Holding, Of
<1>2. StepInv(c)'
  <2>1. CASE call[c].step \in Alone
    <3>1. PICK a \in Attempts : a = Of(c) /\ lease = a /\ Uploading(a) = {}
      BY <2>1 DEF LeaseInv, StepInv, Holding, Alone
    <3>2. call'[c] = call[c] /\ Of(c)' = a
      BY <3>1 DEF Of
    <3>3. row'[a] = row[a] /\ Uploading(a)' = {}
      BY <3>1
    <3>4. repository = NoAttempt => target'[a] = target[a]
      BY <3>1
    <3>5. Uploading(Of(c))' = {}
      BY <3>2, <3>3 DEF Uploading
    <3> QED BY <2>1, <3>1, <3>2, <3>3, <3>4, <3>5 DEF StepInv, Phase
  <2>2. CASE call[c].step \notin Alone
    BY <2>2 DEF StepInv, Alone
  <2> QED BY <2>1, <2>2
<1> QED BY <1>1, <1>2

\* A call that holds the lease goes on to another step of its own.
LEMMA CallProceeds ==
  ASSUME IInv, NEW c \in Actors, Holding(c),
         NEW step \in Drain \cup Alone, Proceed(c, step), UNCHANGED <<lease, upload>>
  PROVE  /\ ProcessTypes'
         /\ \A d \in Actors : LeaseInv(d)'
         /\ \A d \in Actors \ {c} : StepInv(d)'
         /\ call'[c] = [call[c] EXCEPT !.step = step] /\ Of(c)' = Of(c) /\ call'[c].step = step
<1> USE DEF IInv, ProcessTypes
<1>1. /\ call'[c] = [call[c] EXCEPT !.step = step]
      /\ call'[c].attempt = call[c].attempt /\ call'[c].step = step
      /\ \A d \in Actors \ {c} : call'[d] = call[d] /\ call[d].step \in {"idle", "asked"}
  BY DEF Proceed, LeaseInv, Holding
<1>2. ProcessTypes'
  BY DEF Proceed, Step
<1>3. ASSUME NEW d \in Actors
      PROVE  LeaseInv(d)'
  BY <1>1, <1>3 DEF LeaseInv, Holding, Of
<1>4. ASSUME NEW d \in Actors \ {c}
      PROVE  StepInv(d)'
  BY <1>1, <1>4 DEF StepInv, Alone
<1> QED BY <1>1, <1>2, <1>3, <1>4 DEF Of

\* A call ends, and with it whatever held the lease.
LEMMA CallEnds ==
  ASSUME IInv, NEW c \in Actors, Holding(c) \/ LeaseFree, EndCall(c), UNCHANGED upload
  PROVE  /\ ProcessTypes' /\ lease' \in Attempts \cup {NoAttempt}
         /\ \A d \in Actors : LeaseInv(d)' /\ StepInv(d)'
<1> USE DEF IInv, ProcessTypes
<1>1. /\ call'[c] = Idle /\ lease' = NoAttempt
      /\ \A d \in Actors \ {c} : call'[d] = call[d] /\ call[d].step \in {"idle", "asked"}
  BY BootstrapAssumption DEF EndCall, LeaseInv, Holding, LeaseFree
<1>2. ProcessTypes'
  BY DEF EndCall, Idle, Op, Step
<1>3. ASSUME NEW d \in Actors
      PROVE  LeaseInv(d)' /\ StepInv(d)'
  BY <1>1, <1>3 DEF LeaseInv, StepInv, Holding, Of, Idle, Alone
<1> QED BY <1>1, <1>2, <1>3

\* Another row takes an attempt's place: what the invariant asks of it and of the
\* others, when that attempt is the one in progress or the first since the last ended.
LEMMA RowMoves ==
  ASSUME IInv, NEW a \in Attempts, NEW r \in Row, SetRow(a, r),
         Live(a) \/ \A b \in Attempts : ~Live(b)
  PROVE  /\ row' \in [Attempts -> Row] /\ row'[a] = r
         /\ \A b \in Attempts \ {a} : row'[b] = row[b] /\ ~Live(b)
         /\ OneLive'
         /\ candidate' = CandidateOf(a, r) => CandidateTracksSettlement'
<1> USE DEF IInv
<1>1. row \in [Attempts -> Row]
  BY DEF TypeOK, Row
<1>2. row' \in [Attempts -> Row] /\ row'[a] = r
  BY <1>1 DEF SetRow
<1>3. ASSUME NEW b \in Attempts \ {a}
      PROVE  row'[b] = row[b] /\ ~Live(b)
  BY <1>1, <1>3 DEF SetRow, OneLive
<1>4. OneLive'
  BY <1>2, <1>3 DEF OneLive, Live
<1>5. ASSUME candidate' = CandidateOf(a, r)
      PROVE  CandidateTracksSettlement'
  <2>1. ASSUME NEW b \in Attempts \ {a}
        PROVE  ~(row[b].phase \in Unsettled /\ row[b].state # "recovery-required")
    <3>1. RowShape(row[b]) /\ row[b] \in Row /\ ~Live(b)
      BY <1>1, <1>3, <2>1 DEF AttemptInv, StandingInv
    <3> QED BY <3>1 DEF RowShape, Live, Unsettled, Activation, Nonterminal, Collecting
  <2> QED BY <1>2, <1>3, <1>5, <2>1, BootstrapAssumption DEF CandidateOf, CandidateTracksSettlement
<1> QED BY <1>2, <1>3, <1>4, <1>5

\* The attempts a step does not name are over or not begun, and stay as they are.
LEMMA OthersKept ==
  ASSUME IInv, NEW a \in Attempts, NEW b \in Attempts \ {a}, ~Live(b),
         row'[b] = row[b], target'[b] = target[b], cleanup'[b] = cleanup[b],
         repository' \in {repository, a}, misread \subseteq misread',
         Uploading(b)' = Uploading(b)
  PROVE  AttemptInv(b)'
<1> USE DEF IInv
<1>1. AttemptInv(b)
  OBVIOUS
<1>2. repository # b
  BY <1>1 DEF AttemptInv, StandingInv, StagedInv, RowShape, Live, Activation, Nonterminal, Collecting
<1>3. StandingInv(b)'
  BY <1>1 DEF AttemptInv, StandingInv, Live, Nonterminal
<1>4. StagedInv(b)'
  BY <1>1, <1>2 DEF AttemptInv, StagedInv
<1>5. OverInv(b)'
  BY <1>1, <1>2 DEF AttemptInv, OverInv, Live, Nonterminal
<1> QED BY <1>3, <1>4, <1>5 DEF AttemptInv

-----------------------------------------------------------------------------
(* The requests that build an attempt, and the clock. *)

\* A lease nobody holds, so no call past its first step.
LEMMA FreeKeepsCalls ==
  ASSUME IInv, LeaseFree, UNCHANGED <<call, lease, repository>>
  PROVE  \A c \in Actors : LeaseInv(c)' /\ StepInv(c)'
BY CallsKept, BootstrapAssumption DEF LeaseFree

LEMMA BeginKeeps ==
  ASSUME IInv, NEW a \in Attempts, Begin(a)
  PROVE  IInv'
<1> USE DEF IInv
<1> DEFINE r == [Absent EXCEPT !.state = "collecting"]
<1>1. /\ r \in Row /\ r.state = "collecting" /\ r.phase = "none" /\ r.bundle = "missing"
  BY DEF Row, Absent, State, Nonterminal, Collecting, Bundle
<1>2. /\ SetRow(a, r) /\ LeaseFree /\ service = "none" /\ row[a].state = "absent"
      /\ UNCHANGED <<candidate, projectVars, diskVars, expired, serving, callVars, uploadVars, faults, misread>>
      /\ expiring' = expiring \cup {a} /\ NoneActive
  BY DEF Begin
<1> HIDE DEF r
<1>3. \A b \in Attempts : ~Live(b)
  BY <1>2 DEF NoneActive, Live, AttemptInv, StandingInv
<1>4. /\ row' \in [Attempts -> Row] /\ row'[a] = r
      /\ \A b \in Attempts \ {a} : row'[b] = row[b]
      /\ OneLive'
  BY <1>1, <1>2, <1>3, RowMoves
<1>5. TypeOK' /\ ProcessTypes'
  BY <1>2, <1>4 DEF TypeOK, ProcessTypes, Row, projectVars, diskVars, stagingVars, callVars, uploadVars
<1>6. row[a].phase = "none" /\ row[a] \in Row
  BY <1>2 DEF AttemptInv, StandingInv, RowShape, TypeOK, Row, Activation, Cancellation, Collecting
<1>7. CandidateTracksSettlement'
  BY <1>1, <1>2, <1>4, <1>6 DEF CandidateTracksSettlement, Unsettled, Activation
<1>8. ASSUME NEW b \in Attempts \ {a}
      PROVE  AttemptInv(b)'
  BY <1>2, <1>3, <1>4, OthersKept DEF diskVars, stagingVars, uploadVars, Uploading
<1>9. AttemptInv(a)'
  <2>1. AttemptInv(a) /\ repository # a
    BY <1>2 DEF AttemptInv, StagedInv
  <2>2. StandingInv(a)'
    BY <1>1, <1>2, <1>4 DEF StandingInv, RowShape, Collecting, projectVars
  <2>3. StagedInv(a)'
    BY <1>1, <1>2, <1>4, <2>1 DEF AttemptInv, StagedInv, diskVars, stagingVars
  <2> QED BY <1>1, <1>4, <2>2, <2>3 DEF AttemptInv, OverInv
<1>10. \A u \in Uploads : UploadInv(u)'
  <2>1. \A b \in Attempts : row'[b].phase = "none" => row[b].phase = "none"
    BY <1>4, <1>6
  <2> QED BY <1>2, <2>1, UploadsKept DEF uploadVars, diskVars, stagingVars
<1>11. \A c \in Actors : LeaseInv(c)' /\ StepInv(c)'
  BY <1>2, FreeKeepsCalls DEF callVars, diskVars
<1> QED BY <1>5, <1>4, <1>7, <1>8, <1>9, <1>10, <1>11

\* A row whose phase stays and whose bundle is staged: what a report, an upload's
\* admission and its end do to an attempt that is being collected.
LEMMA CollectKeeps ==
  ASSUME IInv, NEW a \in Attempts, NEW r \in Row, SetRow(a, r), LeaseFree,
         row[a].state \in Collecting, r.state \in Collecting, r.phase = row[a].phase,
         r.state = "ready" => ValidatedAttempt(r),
         r.phase = "none" /\ r.bundle = "validated" => target[a] = "validated",
         UNCHANGED <<candidate, projectVars, target, cleanup, repository, used, call, lease, misread>>,
         \A b \in Attempts \ {a} : Uploading(b)' = Uploading(b)
  PROVE  /\ OneLive' /\ CandidateTracksSettlement'
         /\ \A b \in Attempts : AttemptInv(b)'
         /\ \A c \in Actors : LeaseInv(c)' /\ StepInv(c)'
         /\ row' \in [Attempts -> Row] /\ row'[a] = r
         /\ \A b \in Attempts : row'[b].phase = "none" => row[b].phase = "none"
<1> USE DEF IInv
<1>1. Live(a)
  BY DEF Live, Nonterminal
<1>2. /\ row' \in [Attempts -> Row] /\ row'[a] = r
      /\ \A b \in Attempts \ {a} : row'[b] = row[b] /\ ~Live(b)
      /\ OneLive'
  BY <1>1, RowMoves
<1>3. CandidateTracksSettlement'
  BY <1>2 DEF CandidateTracksSettlement, Collecting
<1>4. ASSUME NEW b \in Attempts \ {a}
      PROVE  AttemptInv(b)'
  BY <1>2, <1>4, OthersKept
<1>5. AttemptInv(a) /\ repository # a
  BY DEF AttemptInv, StagedInv
<1>6. AttemptInv(a)'
  <2>1. StandingInv(a)'
    BY <1>2, <1>5 DEF AttemptInv, StandingInv, RowShape, Collecting, projectVars
  <2>2. StagedInv(a)'
    BY <1>2, <1>5 DEF AttemptInv, StagedInv, StandingInv, RowShape, Collecting
  <2> QED BY <1>2, <2>1, <2>2 DEF AttemptInv, OverInv, Collecting
<1>7. \A c \in Actors : LeaseInv(c)' /\ StepInv(c)'
  BY FreeKeepsCalls
<1> QED BY <1>2, <1>3, <1>4, <1>6, <1>7

LEMMA ReportKeeps ==
  ASSUME IInv, NEW a \in Attempts, NEW m \in Reporters, Report(a, m)
  PROVE  IInv'
<1> USE DEF IInv
<1> DEFINE q == PutReport(row[a], m)
           r == PromoteReady(q)
<1>1. row[a] \in Row
  BY DEF TypeOK, Row
<1>2. /\ q \in Row /\ q.state = row[a].state /\ q.phase = row[a].phase /\ q.bundle = row[a].bundle
  BY <1>1, RowSteps
<1> HIDE DEF q
<1>3. /\ r \in Row /\ r.phase = q.phase /\ r.bundle = q.bundle /\ r.reports = q.reports
      /\ \/ r.state = q.state
         \/ /\ r.state = "ready" /\ q.state \in {"collecting", "validating"}
            /\ ValidatedAttempt(q)
  BY <1>2, Promoted
<1>4. /\ SetRow(a, r) /\ LeaseFree /\ row[a].state \in {"collecting", "validating"}
      /\ UNCHANGED <<candidate, expiring, projectVars, diskVars, expired, serving, callVars,
                     uploadVars, faults, misread>>
  BY DEF Report, q
<1> HIDE DEF r
<1>5. r.state = "ready" => ValidatedAttempt(r)
  BY <1>2, <1>3, <1>4 DEF ValidatedAttempt
<1>6. r.phase = "none" /\ r.bundle = "validated" => target[a] = "validated"
  BY <1>2, <1>3 DEF AttemptInv, StagedInv
<1>7. row[a].state \in Collecting /\ r.state \in Collecting
  BY <1>2, <1>3, <1>4 DEF Collecting
<1>8. /\ OneLive' /\ CandidateTracksSettlement'
      /\ \A b \in Attempts : AttemptInv(b)'
      /\ \A c \in Actors : LeaseInv(c)' /\ StepInv(c)'
      /\ row' \in [Attempts -> Row]
      /\ \A b \in Attempts : row'[b].phase = "none" => row[b].phase = "none"
  BY <1>2, <1>3, <1>4, <1>5, <1>6, <1>7, CollectKeeps
     DEF diskVars, stagingVars, callVars, uploadVars, Uploading
<1>9. TypeOK' /\ ProcessTypes'
  BY <1>4, <1>8 DEF TypeOK, ProcessTypes, Row, projectVars, diskVars, stagingVars, callVars, uploadVars
<1>10. \A u \in Uploads : UploadInv(u)'
  BY <1>4, <1>8, UploadsKept DEF uploadVars, diskVars, stagingVars
<1> QED BY <1>8, <1>9, <1>10

\* The clock, and the server's start, touch no attempt and no call.
LEMMA IdleKeeps ==
  ASSUME IInv, UNCHANGED <<attemptVars, projectVars, diskVars, callVars, uploadVars, faults, misread>>,
         expired' \subseteq Attempts, serving' \in BOOLEAN
  PROVE  IInv'
<1> USE DEF IInv, attemptVars, projectVars, diskVars, stagingVars, callVars, uploadVars
<1>1. TypeOK' /\ ProcessTypes'
  BY DEF TypeOK, ProcessTypes
<1>2. OneLive' /\ CandidateTracksSettlement' /\ \A a \in Attempts : AttemptInv(a)'
  BY AttemptsKept
<1>3. \A u \in Uploads : UploadInv(u)'
  BY UploadsKept
<1>4. \A c \in Actors : LeaseInv(c)' /\ StepInv(c)'
  BY CallsKept DEF Uploading
<1> QED BY <1>1, <1>2, <1>3, <1>4

\* The Project is used once it is active, when no attempt is being published.
LEMMA UseKeeps ==
  ASSUME IInv, UseProject
  PROVE  IInv'
<1> USE DEF IInv, UseProject, attemptVars, projectVars, stagingVars, callVars, uploadVars
<1>1. TypeOK' /\ ProcessTypes'
  BY DEF TypeOK, ProcessTypes
<1>2. OneLive' /\ CandidateTracksSettlement'
  BY DEF OneLive, Live, CandidateTracksSettlement
<1>3. ASSUME NEW a \in Attempts
      PROVE  AttemptInv(a)'
  BY <1>3 DEF AttemptInv, StandingInv, StagedInv, OverInv, Uploading, Conflict
<1>4. \A u \in Uploads : UploadInv(u)'
  BY UploadsKept
<1>5. \A c \in Actors : LeaseInv(c)' /\ StepInv(c)'
  BY FreeKeepsCalls
<1> QED BY <1>1, <1>2, <1>3, <1>4, <1>5

\* Every lock and process is gone; the rows and the disk are as they were.
LEMMA CrashKeeps ==
  ASSUME IInv, Crash
  PROVE  IInv'
<1> USE DEF IInv, Crash, attemptVars, projectVars, diskVars, stagingVars
<1>1. TypeOK'
  <2>1. faults' \in 0..MaxFaults
    BY BootstrapAssumption DEF TypeOK
  <2>2. admitted' \in [Uploads -> Attempts \cup {NoAttempt}] /\ closed' \subseteq Attempts
    OBVIOUS
  <2> QED BY <2>1, <2>2 DEF TypeOK
<1>6. ProcessTypes'
  BY DEF ProcessTypes, Idle, Resting, Op, Step
<1>2. OneLive' /\ CandidateTracksSettlement'
  BY DEF OneLive, Live, CandidateTracksSettlement
<1>3. ASSUME NEW a \in Attempts
      PROVE  AttemptInv(a)'
  <2>1. Uploading(a)' = {}
    BY BootstrapAssumption DEF Uploading
  <2> QED BY <2>1 DEF AttemptInv, StandingInv, StagedInv, OverInv, Conflict
<1>4. ASSUME NEW u \in Uploads
      PROVE  UploadInv(u)'
  BY DEF UploadInv, Resting, Transfer, Import
<1>5. ASSUME NEW c \in Actors
      PROVE  LeaseInv(c)' /\ StepInv(c)'
  BY DEF LeaseInv, StepInv, Holding, Idle, Alone
<1> QED BY <1>1, <1>2, <1>3, <1>4, <1>5, <1>6

-----------------------------------------------------------------------------
(* Uploads. *)

\* Who holds an attempt's gate after an upload is done with it.
LEMMA Released ==
  ASSUME IInv, NEW u \in Uploads, Release(u)
  PROVE  /\ admitted' \in [Uploads -> Attempts \cup {NoAttempt}] /\ closed' \subseteq Attempts
         /\ admitted'[u] = NoAttempt /\ \A v \in Uploads \ {u} : admitted'[v] = admitted[v]
         /\ \A a \in Attempts : Uploading(a)' \subseteq Uploading(a)
<1>1. /\ admitted' \in [Uploads -> Attempts \cup {NoAttempt}] /\ closed' \subseteq Attempts
      /\ admitted'[u] = NoAttempt /\ \A v \in Uploads \ {u} : admitted'[v] = admitted[v]
  BY DEF Release, IInv, TypeOK
<1> QED BY <1>1, BootstrapAssumption DEF Uploading

\* An upload changes its own attempt's directory at most, and only to stage in it.
LEMMA UploadKeepsOthers ==
  ASSUME IInv, NEW u \in Uploads, upload[u].step \in Transfer,
         UNCHANGED <<row, candidate, projectVars, cleanup, repository, used, call, lease, misread>>,
         \A a \in Attempts : Uploading(a)' \subseteq Uploading(a),
         \A a \in Attempts : target'[a] # target[a] =>
           /\ a = upload[u].attempt
           /\ target[a] # "validated" /\ target'[a] \in {"unowned", "owned", "validated"}
  PROVE  /\ OneLive' /\ CandidateTracksSettlement'
         /\ \A a \in Attempts : AttemptInv(a)'
         /\ \A c \in Actors : LeaseInv(c)' /\ StepInv(c)'
<1> USE DEF IInv, projectVars
<1>1. OneLive' /\ CandidateTracksSettlement'
  BY DEF OneLive, Live, CandidateTracksSettlement
<1>2. upload[u].attempt \in Attempts /\ Uploading(upload[u].attempt) # {}
  BY DEF UploadInv, Transfer, Import, Uploading
<1>3. ASSUME NEW a \in Attempts
      PROVE  AttemptInv(a)'
  <2>1. AttemptInv(a)
    OBVIOUS
  <2>2. StandingInv(a)'
    BY <2>1 DEF AttemptInv, StandingInv
  <2>3. CASE target'[a] = target[a]
    <3>1. StagedInv(a)'
      BY <2>1, <2>3 DEF AttemptInv, StagedInv
    <3>2. OverInv(a)'
      BY <2>1, <2>3 DEF AttemptInv, OverInv, Conflict
    <3> QED BY <2>2, <3>1, <3>2 DEF AttemptInv
  <2>4. CASE target'[a] # target[a]
    <3>1. /\ repository # a /\ row[a].state \notin {"cancelled", "recovery-required"}
          /\ target[a] # "validated" /\ target'[a] \in {"unowned", "owned", "validated"}
      BY <1>2, <2>1, <2>4 DEF AttemptInv, StagedInv, OverInv
    <3>2. StagedInv(a)'
      BY <2>1, <3>1 DEF AttemptInv, StagedInv
    <3>3. OverInv(a)'
      BY <3>1 DEF OverInv
    <3> QED BY <2>2, <3>2, <3>3 DEF AttemptInv
  <2> QED BY <2>3, <2>4
<1>4. \A c \in Actors : LeaseInv(c)' /\ StepInv(c)'
  <2>1. \A a \in Attempts : Uploading(a) = {} => Uploading(a)' = {} /\ target'[a] = target[a]
    BY <1>2
  <2> QED BY <2>1, CallsKept
<1> QED BY <1>1, <1>3, <1>4

\* An upload that fails, is refused or is aborted.
LEMMA AbandonKeeps ==
  ASSUME IInv, NEW u \in Uploads, upload[u].step \in Transfer, Abandon(u),
         UNCHANGED <<attemptVars, projectVars, diskVars, expired, serving, callVars, faults, misread>>
  PROVE  IInv'
<1> USE DEF IInv, attemptVars, projectVars, diskVars, stagingVars, callVars
<1>1. /\ admitted' \in [Uploads -> Attempts \cup {NoAttempt}] /\ closed' \subseteq Attempts
      /\ admitted'[u] = NoAttempt /\ \A v \in Uploads \ {u} : admitted'[v] = admitted[v]
      /\ \A a \in Attempts : Uploading(a)' \subseteq Uploading(a)
  BY Released DEF Abandon
<1>2. TypeOK'
  BY <1>1 DEF TypeOK
<1>3. ProcessTypes' /\ upload'[u] = Resting /\ \A v \in Uploads \ {u} : upload'[v] = upload[v]
  BY DEF ProcessTypes, Abandon, Resting
<1>4. ASSUME NEW v \in Uploads
      PROVE  UploadInv(v)'
  BY <1>1, <1>3, <1>4 DEF UploadInv, Busy, Resting, Transfer, Import
<1>5. /\ OneLive' /\ CandidateTracksSettlement'
      /\ \A a \in Attempts : AttemptInv(a)'
      /\ \A c \in Actors : LeaseInv(c)' /\ StepInv(c)'
  BY <1>1, UploadKeepsOthers
<1> QED BY <1>2, <1>3, <1>4, <1>5

\* An upload goes on to another step with its gate.
LEMMA UploadGoes ==
  ASSUME IInv, NEW u \in Uploads, NEW step \in Import \cup {"imported"}, Goto(u, step)
  PROVE  /\ upload' \in [Uploads -> [attempt : Attempts \cup {NoAttempt},
                                     step : {"idle", "imported"} \cup Transfer]]
         /\ upload'[u].attempt = upload[u].attempt /\ upload'[u].step = step
         /\ \A v \in Uploads \ {u} : upload'[v] = upload[v]
BY DEF IInv, ProcessTypes, Goto, Transfer

LEMMA StartImportKeeps ==
  ASSUME IInv, NEW u \in Uploads, StartImport(u)
  PROVE  IInv'
<1> USE DEF IInv
<1>0. /\ upload[u].step = "admitted"
      /\ UNCHANGED <<attemptVars, projectVars, diskVars, expired, serving, callVars, faults, misread>>
  BY DEF StartImport, At
<1>1. CASE Busy(u)
  BY <1>0, <1>1, AbandonKeeps DEF StartImport, Transfer
<1>2. CASE ~Busy(u)
  <2> USE DEF attemptVars, projectVars, diskVars, stagingVars, callVars
  <2>1. Goto(u, "importing") /\ UNCHANGED <<admitted, closed>>
    BY <1>2 DEF StartImport
  <2>2. /\ upload' \in [Uploads -> [attempt : Attempts \cup {NoAttempt},
                                    step : {"idle", "imported"} \cup Transfer]]
        /\ upload'[u].attempt = upload[u].attempt /\ upload'[u].step = "importing"
        /\ \A v \in Uploads \ {u} : upload'[v] = upload[v]
    BY <2>1, UploadGoes DEF Import
  <2>3. TypeOK' /\ ProcessTypes'
    BY <1>0, <2>1, <2>2 DEF TypeOK, ProcessTypes
  <2>4. ASSUME NEW v \in Uploads
        PROVE  UploadInv(v)'
    BY <1>0, <1>2, <2>1, <2>2, <2>4 DEF UploadInv, Busy, Transfer, Import
  <2>5. /\ OneLive' /\ CandidateTracksSettlement'
        /\ \A a \in Attempts : AttemptInv(a)'
        /\ \A c \in Actors : LeaseInv(c)' /\ StepInv(c)'
    <3>1. \A a \in Attempts : Uploading(a)' \subseteq Uploading(a)
      BY <2>1 DEF Uploading
    <3> QED BY <1>0, <3>1, UploadKeepsOthers DEF Transfer
  <2> QED BY <2>3, <2>4, <2>5
<1> QED BY <1>1, <1>2

LEMMA PreparePathsKeeps ==
  ASSUME IInv, NEW u \in Uploads, PreparePaths(u)
  PROVE  IInv'
<1> USE DEF IInv, projectVars, callVars
<1> DEFINE a == upload[u].attempt
<1>1. /\ upload[u].step = "importing" /\ a \in Attempts
      /\ UNCHANGED <<attemptVars, projectVars, cleanup, repository, used, expired, serving,
                     callVars, faults, misread>>
      /\ \/ /\ target[a] = "none" /\ target' = [target EXCEPT ![a] = "unowned"]
            /\ Goto(u, "marking") /\ UNCHANGED <<admitted, closed>>
         \/ target[a] = "unowned" /\ Abandon(u) /\ UNCHANGED target
         \/ /\ target[a] \in {"owned", "validated"} /\ Goto(u, "staging")
            /\ UNCHANGED <<target, admitted, closed>>
  BY DEF PreparePaths, At, UploadInv
<1>2. CASE Abandon(u) /\ UNCHANGED target
  BY <1>1, <1>2, AbandonKeeps DEF Transfer, Import, diskVars, stagingVars
<1>3. ASSUME NEW step \in {"marking", "staging"}, Goto(u, step), UNCHANGED <<admitted, closed>>,
             target' \in [Attempts -> Staging],
             \A b \in Attempts : target'[b] # target[b] =>
               b = a /\ target[b] = "none" /\ target'[b] = "unowned",
             step = "marking" => target'[a] = "unowned",
             step = "staging" => target'[a] \in {"owned", "validated"}
      PROVE  IInv'
  <2>1. /\ upload' \in [Uploads -> [attempt : Attempts \cup {NoAttempt},
                                    step : {"idle", "imported"} \cup Transfer]]
        /\ upload'[u].attempt = a /\ upload'[u].step = step
        /\ \A v \in Uploads \ {u} : upload'[v] = upload[v]
    BY <1>3, UploadGoes DEF Import
  <2> HIDE DEF a
  <2>2. TypeOK' /\ ProcessTypes'
    BY <1>1, <1>3, <2>1 DEF TypeOK, ProcessTypes, attemptVars
  <2>3. ASSUME NEW v \in Uploads \ {u}
        PROVE  UploadInv(v)'
    <3>1. UploadInv(v) /\ UploadInv(u) /\ upload'[v] = upload[v] /\ a = upload[u].attempt
      BY <2>1 DEF a
    <3>2. upload[v].step \in Import => ~Busy(v)'
      BY <1>1, <2>1, <3>1 DEF UploadInv, Busy, Import
    <3>3. upload[v].step \in {"marking", "staging", "imported"} /\ upload[v].attempt \in Attempts =>
            target'[upload[v].attempt] = target[upload[v].attempt] \/ target[upload[v].attempt] = "none"
      BY <1>3
    <3> QED BY <1>1, <1>3, <3>1, <3>2, <3>3 DEF UploadInv, Transfer, Import, attemptVars
  <2>4. UploadInv(u)'
    BY <1>1, <1>3, <2>1 DEF UploadInv, Busy, Transfer, Import, attemptVars, a
  <2>5. /\ OneLive' /\ CandidateTracksSettlement'
        /\ \A b \in Attempts : AttemptInv(b)'
        /\ \A c \in Actors : LeaseInv(c)' /\ StepInv(c)'
    <3>1. \A b \in Attempts : Uploading(b)' \subseteq Uploading(b)
      BY <1>3 DEF Uploading
    <3>2. \A b \in Attempts : target'[b] # target[b] =>
            /\ b = upload[u].attempt
            /\ target[b] # "validated" /\ target'[b] \in {"unowned", "owned", "validated"}
      BY <1>3 DEF a
    <3> QED BY <1>1, <3>1, <3>2, UploadKeepsOthers DEF Transfer, Import, attemptVars
  <2> QED BY <2>2, <2>3, <2>4, <2>5
<1>4. CASE /\ target[a] = "none" /\ target' = [target EXCEPT ![a] = "unowned"]
           /\ Goto(u, "marking") /\ UNCHANGED <<admitted, closed>>
  BY <1>1, <1>3, <1>4 DEF TypeOK, Staging
<1>5. CASE /\ target[a] \in {"owned", "validated"} /\ Goto(u, "staging")
           /\ UNCHANGED <<target, admitted, closed>>
  BY <1>3, <1>5 DEF TypeOK
<1> QED BY <1>1, <1>2, <1>4, <1>5

LEMMA MarkAttemptKeeps ==
  ASSUME IInv, NEW u \in Uploads, MarkAttempt(u)
  PROVE  IInv'
<1> USE DEF IInv, projectVars, callVars
<1>1. PICK a \in Attempts :
        /\ a = upload[u].attempt /\ upload[u].step = "marking" /\ target[a] = "unowned"
        /\ target' = [target EXCEPT ![a] = "owned"] /\ Goto(u, "staging")
        /\ UNCHANGED <<attemptVars, projectVars, cleanup, repository, used, expired, serving,
                       callVars, admitted, closed, faults, misread>>
  BY DEF MarkAttempt, At, UploadInv
<1>2. /\ upload' \in [Uploads -> [attempt : Attempts \cup {NoAttempt},
                                  step : {"idle", "imported"} \cup Transfer]]
      /\ upload'[u].attempt = a /\ upload'[u].step = "staging"
      /\ \A v \in Uploads \ {u} : upload'[v] = upload[v]
  BY <1>1, UploadGoes DEF Import
<1>3. /\ target' \in [Attempts -> Staging] /\ target'[a] = "owned"
      /\ \A b \in Attempts \ {a} : target'[b] = target[b]
  BY <1>1 DEF TypeOK, Staging
<1>4. TypeOK' /\ ProcessTypes'
  BY <1>1, <1>2, <1>3 DEF TypeOK, ProcessTypes, attemptVars
<1>5. ASSUME NEW v \in Uploads \ {u}
      PROVE  UploadInv(v)'
  <2>1. UploadInv(v) /\ UploadInv(u) /\ upload'[v] = upload[v]
    BY <1>2
  <2>2. upload[v].step \in Import => ~Busy(v)' /\ upload[v].attempt # a
    BY <1>1, <1>2, <2>1 DEF UploadInv, Busy, Import
  <2>3. upload[v].step = "imported" /\ upload[v].attempt = a => row[a].phase # "none"
    BY <1>1, <2>1 DEF UploadInv
  <2> QED BY <1>1, <1>3, <2>1, <2>2, <2>3 DEF UploadInv, Transfer, Import, attemptVars
<1>6. UploadInv(u)'
  BY <1>1, <1>2, <1>3 DEF UploadInv, Busy, Transfer, Import, attemptVars
<1>7. /\ OneLive' /\ CandidateTracksSettlement'
      /\ \A b \in Attempts : AttemptInv(b)'
      /\ \A c \in Actors : LeaseInv(c)' /\ StepInv(c)'
  <2>1. \A b \in Attempts : Uploading(b)' \subseteq Uploading(b)
    BY <1>1 DEF Uploading
  <2> QED BY <1>1, <1>3, <2>1, UploadKeepsOthers DEF Transfer, Import, attemptVars
<1> QED BY <1>4, <1>5, <1>6, <1>7

LEMMA FinishImportKeeps ==
  ASSUME IInv, NEW u \in Uploads, FinishImport(u)
  PROVE  IInv'
<1> USE DEF IInv, projectVars, callVars
<1>1. PICK a \in Attempts :
        /\ a = upload[u].attempt /\ upload[u].step = "staging" /\ target[a] \in {"owned", "validated"}
        /\ target' = [target EXCEPT ![a] = "validated"] /\ Goto(u, "imported") /\ Release(u)
        /\ UNCHANGED <<attemptVars, projectVars, cleanup, repository, used, expired, serving,
                       callVars, faults, misread>>
  BY DEF FinishImport, At, UploadInv
<1>2. /\ upload' \in [Uploads -> [attempt : Attempts \cup {NoAttempt},
                                  step : {"idle", "imported"} \cup Transfer]]
      /\ upload'[u].attempt = a /\ upload'[u].step = "imported"
      /\ \A v \in Uploads \ {u} : upload'[v] = upload[v]
  BY <1>1, UploadGoes
<1>3. /\ target' \in [Attempts -> Staging] /\ target'[a] = "validated"
      /\ \A b \in Attempts \ {a} : target'[b] = target[b]
  BY <1>1 DEF TypeOK, Staging
<1>4. /\ admitted' \in [Uploads -> Attempts \cup {NoAttempt}] /\ closed' \subseteq Attempts
      /\ admitted'[u] = NoAttempt /\ \A v \in Uploads \ {u} : admitted'[v] = admitted[v]
      /\ \A b \in Attempts : Uploading(b)' \subseteq Uploading(b)
  BY <1>1, Released
<1>5. TypeOK' /\ ProcessTypes'
  BY <1>1, <1>2, <1>3, <1>4 DEF TypeOK, ProcessTypes, attemptVars
<1>6. ASSUME NEW v \in Uploads \ {u}
      PROVE  UploadInv(v)'
  <2>1. UploadInv(v) /\ UploadInv(u) /\ upload'[v] = upload[v] /\ admitted'[v] = admitted[v]
    BY <1>2, <1>4
  <2>2. upload[v].step \in Import => ~Busy(v)' /\ upload[v].attempt # a
    BY <1>1, <1>2, <2>1 DEF UploadInv, Busy, Import
  <2> QED BY <1>1, <1>3, <2>1, <2>2 DEF UploadInv, Transfer, Import, attemptVars
<1>7. UploadInv(u)'
  BY <1>1, <1>2, <1>3, <1>4 DEF UploadInv, Transfer, Import
<1>8. /\ OneLive' /\ CandidateTracksSettlement'
      /\ \A b \in Attempts : AttemptInv(b)'
      /\ \A c \in Actors : LeaseInv(c)' /\ StepInv(c)'
  BY <1>1, <1>3, <1>4, UploadKeepsOthers DEF Transfer, Import, attemptVars
<1> QED BY <1>5, <1>6, <1>7, <1>8

LEMMA AdmitKeeps ==
  ASSUME IInv, NEW a \in Attempts, NEW u \in Uploads, Admit(u, a)
  PROVE  IInv'
<1> USE DEF IInv
<1> DEFINE r == [row[a] EXCEPT !.state = IF @ = "collecting" THEN "validating" ELSE @]
<1>1. row[a] \in Row
  BY DEF TypeOK, Row
<1>2. /\ r \in Row /\ r.phase = row[a].phase /\ r.bundle = row[a].bundle
      /\ r.reports = row[a].reports
      /\ r.state = IF row[a].state = "collecting" THEN "validating" ELSE row[a].state
  BY <1>1 DEF Row, State, Nonterminal, Collecting
<1>3. /\ SetRow(a, r) /\ LeaseFree /\ row[a].state \in Collecting /\ upload[u].step = "idle"
      /\ upload' = [upload EXCEPT ![u] = [attempt |-> a, step |-> "admitted"]]
      /\ admitted' = [admitted EXCEPT ![u] = a]
      /\ UNCHANGED <<candidate, expiring, projectVars, diskVars, expired, serving, callVars,
                     closed, faults, misread>>
  BY DEF Admit, At
<1> HIDE DEF r
<1>4. r.state \in Collecting /\ (r.state = "ready" => ValidatedAttempt(r))
  BY <1>2, <1>3 DEF Collecting, AttemptInv, StandingInv, RowShape, ValidatedAttempt
<1>5. r.phase = "none" /\ r.bundle = "validated" => target[a] = "validated"
  BY <1>2 DEF AttemptInv, StagedInv
<1>6. /\ upload'[u] = [attempt |-> a, step |-> "admitted"] /\ admitted'[u] = a
      /\ \A v \in Uploads \ {u} : upload'[v] = upload[v] /\ admitted'[v] = admitted[v]
  BY <1>3 DEF TypeOK, ProcessTypes
<1>7. admitted[u] = NoAttempt
  BY <1>3 DEF UploadInv, Transfer, Import
<1>8. \A b \in Attempts \ {a} : Uploading(b)' = Uploading(b)
  BY <1>6, <1>7, BootstrapAssumption DEF Uploading
<1>9. /\ OneLive' /\ CandidateTracksSettlement'
      /\ \A b \in Attempts : AttemptInv(b)'
      /\ \A c \in Actors : LeaseInv(c)' /\ StepInv(c)'
      /\ row' \in [Attempts -> Row]
      /\ \A b \in Attempts : row'[b].phase = "none" => row[b].phase = "none"
  BY <1>2, <1>3, <1>4, <1>5, <1>8, CollectKeeps DEF diskVars, stagingVars, callVars
<1>10. TypeOK'
  BY <1>3, <1>9 DEF TypeOK, Row, projectVars, diskVars, stagingVars, callVars
<1>11. ProcessTypes'
  BY <1>3 DEF ProcessTypes, callVars, Transfer
<1>12. ASSUME NEW v \in Uploads
       PROVE  UploadInv(v)'
  <2>1. CASE v = u
    BY <1>6, <2>1 DEF UploadInv, Transfer, Import
  <2>2. CASE v # u
    <3>1. UploadInv(v) /\ upload'[v] = upload[v] /\ admitted'[v] = admitted[v]
      BY <1>6, <2>2
    <3>2. upload[v].step \in Import => ~Busy(v)'
      BY <1>6, <2>2, <3>1 DEF UploadInv, Busy, Import
    <3> QED BY <1>3, <1>9, <3>1, <3>2 DEF UploadInv, Transfer, Import, diskVars, stagingVars
  <2> QED BY <2>1, <2>2
<1> QED BY <1>9, <1>10, <1>11, <1>12

\* The import's result reaches the row only while the attempt is collected.
LEMMA RecordUploadKeeps ==
  ASSUME IInv, NEW u \in Uploads, RecordUpload(u)
  PROVE  IInv'
<1> USE DEF IInv
<1>1. PICK a \in Attempts :
        /\ a = upload[u].attempt /\ upload[u].step = "imported"
        /\ IF LeaseFree /\ row[a].state \in {"validating", "ready"}
           THEN SetRow(a, PromoteReady(Validate(PutUpload(row[a])))) ELSE UNCHANGED row
        /\ upload' = [upload EXCEPT ![u] = Resting]
        /\ UNCHANGED <<candidate, expiring, projectVars, diskVars, expired, serving, callVars,
                       admitted, closed, faults, misread>>
  BY DEF RecordUpload, At, UploadInv
<1>2. ProcessTypes' /\ upload'[u] = Resting /\ \A v \in Uploads \ {u} : upload'[v] = upload[v]
  BY <1>1 DEF ProcessTypes, Resting, callVars
<1>3. \A b \in Attempts : Uploading(b)' = Uploading(b)
  BY <1>1 DEF Uploading
<1>4. ASSUME row' \in [Attempts -> Row], OneLive', CandidateTracksSettlement',
             \A b \in Attempts : AttemptInv(b)',
             \A c \in Actors : LeaseInv(c)' /\ StepInv(c)',
             \A b \in Attempts : row'[b].phase = "none" => row[b].phase = "none"
      PROVE  IInv'
  <2>1. TypeOK'
    BY <1>1, <1>4 DEF TypeOK, Row, projectVars, diskVars, stagingVars, callVars
  <2>2. ASSUME NEW v \in Uploads
        PROVE  UploadInv(v)'
    BY <1>1, <1>2, <1>4, <2>2
       DEF UploadInv, Busy, Resting, Transfer, Import, diskVars, stagingVars
  <2> QED BY <1>2, <1>4, <2>1, <2>2
<1>5. CASE LeaseFree /\ row[a].state \in {"validating", "ready"}
  <2> DEFINE s == Validate(PutUpload(row[a]))
             r == PromoteReady(s)
  <2>1. row[a] \in Row
    BY DEF TypeOK, Row
  <2>2. /\ s \in Row /\ s.state = row[a].state /\ s.phase = row[a].phase
        /\ s.bundle = "validated" /\ s.reports = row[a].reports
    BY <2>1, RowSteps
  <2>3. SetRow(a, r)
    BY <1>1, <1>5
  <2> HIDE DEF s
  <2>4. /\ r \in Row /\ r.phase = s.phase /\ r.bundle = s.bundle /\ r.reports = s.reports
        /\ \/ r.state = s.state
           \/ /\ r.state = "ready" /\ s.state \in {"collecting", "validating"}
              /\ ValidatedAttempt(s)
    BY <2>2, Promoted
  <2> HIDE DEF r
  <2>5. /\ row[a].state \in Collecting /\ r.state \in Collecting
        /\ r.state = "ready" => ValidatedAttempt(r)
    BY <1>5, <2>2, <2>4 DEF Collecting, AttemptInv, StandingInv, RowShape, ValidatedAttempt
  <2>6. r.phase = "none" => target[a] = "validated"
    BY <1>1, <2>2, <2>4 DEF UploadInv
  <2>7. /\ OneLive' /\ CandidateTracksSettlement'
        /\ \A b \in Attempts : AttemptInv(b)'
        /\ \A c \in Actors : LeaseInv(c)' /\ StepInv(c)'
        /\ row' \in [Attempts -> Row]
        /\ \A b \in Attempts : row'[b].phase = "none" => row[b].phase = "none"
    BY <1>1, <1>3, <1>5, <2>2, <2>3, <2>4, <2>5, <2>6, CollectKeeps
       DEF diskVars, stagingVars, callVars
  <2> QED BY <1>4, <2>7
<1>6. CASE ~(LeaseFree /\ row[a].state \in {"validating", "ready"})
  <2>1. UNCHANGED row
    BY <1>1, <1>6
  <2>2. OneLive' /\ CandidateTracksSettlement' /\ \A b \in Attempts : AttemptInv(b)'
    BY <1>1, <2>1, AttemptsKept DEF diskVars, stagingVars
  <2>3. \A c \in Actors : LeaseInv(c)' /\ StepInv(c)'
    BY <1>1, <1>3, <2>1, CallsKept DEF diskVars, stagingVars, callVars
  <2>4. row' \in [Attempts -> Row]
    BY <2>1 DEF TypeOK, Row
  <2> QED BY <1>4, <2>1, <2>2, <2>3, <2>4
<1> QED BY <1>5, <1>6

-----------------------------------------------------------------------------
(* Calls that ask for the lease. *)

LEMMA AskKeeps ==
  ASSUME IInv, NEW c \in Actors, NEW op \in Op, NEW a \in Attempts, Ask(c, op, a)
  PROVE  IInv'
<1> USE DEF IInv, attemptVars, projectVars, diskVars, stagingVars, uploadVars
<1>1. /\ call[c] = Idle /\ call' = [call EXCEPT ![c] = [op |-> op, attempt |-> a, step |-> "asked"]]
      /\ UNCHANGED <<attemptVars, projectVars, diskVars, expired, serving, lease, uploadVars, faults, misread>>
  BY DEF Ask
<1>2. /\ call'[c] = [op |-> op, attempt |-> a, step |-> "asked"]
      /\ \A d \in Actors \ {c} : call'[d] = call[d]
  BY <1>1 DEF ProcessTypes
<1>3. TypeOK' /\ ProcessTypes'
  BY <1>1 DEF TypeOK, ProcessTypes, Step
<1>4. OneLive' /\ CandidateTracksSettlement' /\ \A b \in Attempts : AttemptInv(b)'
  BY <1>1, AttemptsKept
<1>5. \A u \in Uploads : UploadInv(u)'
  BY <1>1, UploadsKept
<1>6. ASSUME NEW d \in Actors
      PROVE  LeaseInv(d)' /\ StepInv(d)'
  <2>1. LeaseInv(d)'
    BY <1>1, <1>2 DEF LeaseInv, Holding, Of, Idle
  <2>2. StepInv(d)'
    BY <1>1, <1>2 DEF StepInv, Of, Phase, Uploading, Alone
  <2> QED BY <2>1, <2>2
<1> QED BY <1>3, <1>4, <1>5, <1>6

LEMMA LockTimeoutKeeps ==
  ASSUME IInv, NEW c \in Actors, LockTimeout(c)
  PROVE  IInv'
<1> USE DEF IInv, attemptVars, projectVars, diskVars, stagingVars, uploadVars
<1>1. /\ call[c].step = "asked" /\ call' = [call EXCEPT ![c] = Idle]
      /\ UNCHANGED <<attemptVars, projectVars, diskVars, expired, serving, lease, uploadVars, faults, misread>>
  BY DEF LockTimeout, In
<1>2. call'[c] = Idle /\ \A d \in Actors \ {c} : call'[d] = call[d]
  BY <1>1 DEF ProcessTypes
<1>3. TypeOK' /\ ProcessTypes'
  BY <1>1 DEF TypeOK, ProcessTypes, Idle, Op, Step
<1>4. OneLive' /\ CandidateTracksSettlement' /\ \A b \in Attempts : AttemptInv(b)'
  BY <1>1, AttemptsKept
<1>5. \A u \in Uploads : UploadInv(u)'
  BY <1>1, UploadsKept
<1>6. ASSUME NEW d \in Actors
      PROVE  LeaseInv(d)' /\ StepInv(d)'
  <2>1. LeaseInv(d)'
    BY <1>1, <1>2 DEF LeaseInv, Holding, Of, Idle
  <2>2. StepInv(d)'
    BY <1>1, <1>2 DEF StepInv, Of, Phase, Uploading, Alone, Idle
  <2> QED BY <2>1, <2>2
<1> QED BY <1>3, <1>4, <1>5, <1>6

-----------------------------------------------------------------------------
(* Calls that hold the lease: the ways their steps change the state. *)

\* A call ends without a change: it has nothing to do, or fails.
LEMMA EndKeeps ==
  ASSUME IInv, NEW c \in Actors, Holding(c) \/ LeaseFree, EndCall(c),
         UNCHANGED <<attemptVars, projectVars, diskVars, expired, serving, uploadVars, misread>>,
         faults' \in 0..MaxFaults
  PROVE  IInv'
<1> USE DEF IInv, attemptVars, projectVars, diskVars, stagingVars, uploadVars
<1>1. /\ ProcessTypes' /\ lease' \in Attempts \cup {NoAttempt}
      /\ \A d \in Actors : LeaseInv(d)' /\ StepInv(d)'
  BY CallEnds
<1>2. TypeOK'
  BY <1>1 DEF TypeOK
<1>3. OneLive' /\ CandidateTracksSettlement' /\ \A b \in Attempts : AttemptInv(b)'
  BY AttemptsKept
<1>4. \A u \in Uploads : UploadInv(u)'
  BY UploadsKept
<1> QED BY <1>1, <1>2, <1>3, <1>4

\* A call goes on without a change to the attempt.
LEMMA ProceedKeeps ==
  ASSUME IInv, NEW c \in Actors, Holding(c),
         NEW step \in Drain \cup Alone, Proceed(c, step),
         UNCHANGED <<attemptVars, projectVars, diskVars, expired, serving, lease, upload,
                     admitted, faults, misread>>,
         closed' \subseteq Attempts, StepInv(c)'
  PROVE  IInv'
<1> USE DEF IInv, attemptVars, projectVars, diskVars, stagingVars
<1>1. /\ ProcessTypes' /\ \A d \in Actors : LeaseInv(d)'
      /\ \A d \in Actors \ {c} : StepInv(d)'
  BY CallProceeds
<1>2. TypeOK'
  BY DEF TypeOK
<1>3. OneLive' /\ CandidateTracksSettlement' /\ \A b \in Attempts : AttemptInv(b)'
  BY AttemptsKept
<1>4. \A u \in Uploads : UploadInv(u)'
  BY UploadsKept
<1> QED BY <1>1, <1>2, <1>3, <1>4

\* A step that neither fails nor crashes keeps what has been counted of both.
LEMMA NoFault ==
  ASSUME TypeOK, UNCHANGED <<faults, misread>>
  PROVE  faults' \in 0..MaxFaults /\ misread \subseteq misread' /\ misread' \subseteq Attempts
BY DEF TypeOK

\* A settlement's transaction, for the attempt in progress.
LEMMA SettleKeeps ==
  ASSUME IInv, NEW a \in Attempts, Live(a), NEW r \in Row, Settle(a, r), r.phase # "none",
         UNCHANGED <<diskVars, expired, serving, uploadVars>>,
         faults' \in 0..MaxFaults, misread \subseteq misread', misread' \subseteq Attempts,
         expiring' \subseteq Attempts,
         service' \in {"none", "active", "recovery-required"}, catalogued' \in BOOLEAN,
         ProcessTypes', lease' \in Attempts \cup {NoAttempt},
         \A d \in Actors : LeaseInv(d)' /\ StepInv(d)', AttemptInv(a)'
  PROVE  IInv'
<1> USE DEF IInv
<1>1. /\ row' \in [Attempts -> Row] /\ row'[a] = r
      /\ \A b \in Attempts \ {a} : row'[b] = row[b] /\ ~Live(b)
      /\ OneLive' /\ CandidateTracksSettlement'
  BY RowMoves DEF Settle
<1>2. TypeOK'
  BY <1>1 DEF TypeOK, Row, Settle, CandidateOf, diskVars, stagingVars, uploadVars
<1>3. ASSUME NEW b \in Attempts \ {a}
      PROVE  AttemptInv(b)'
  BY <1>1, <1>3, OthersKept DEF diskVars, stagingVars, uploadVars, Uploading
<1>4. \A u \in Uploads : UploadInv(u)'
  <2>1. \A b \in Attempts : row'[b].phase = "none" => row[b].phase = "none"
    BY <1>1
  <2> QED BY <2>1, UploadsKept DEF diskVars, stagingVars, uploadVars
<1> QED BY <1>1, <1>2, <1>3, <1>4

\* A call's effect on the disk, past the drain: its own attempt's directories only.
LEMMA DiskKeeps ==
  ASSUME IInv, NEW c \in Actors, NEW a \in Attempts, a = Of(c), Live(a),
         call[c].step \in Alone, row[a].phase # "none",
         target' \in [Attempts -> Staging],
         cleanup' \in [Attempts -> {"none", "intent", "detached"}],
         \A b \in Attempts \ {a} : target'[b] = target[b] /\ cleanup'[b] = cleanup[b],
         repository' \in {repository, a}, used' \in BOOLEAN,
         UNCHANGED <<attemptVars, projectVars, expired, serving, lease, uploadVars, faults, misread>>,
         ProcessTypes', \A d \in Actors : LeaseInv(d)' /\ StepInv(d)', AttemptInv(a)'
  PROVE  IInv'
<1> USE DEF IInv, attemptVars, projectVars, uploadVars
<1>1. TypeOK'
  BY DEF TypeOK
<1>2. OneLive' /\ CandidateTracksSettlement'
  BY DEF OneLive, Live, CandidateTracksSettlement
<1>3. ASSUME NEW b \in Attempts \ {a}
      PROVE  AttemptInv(b)'
  <2>1. ~Live(b)
    BY <1>3 DEF OneLive
  <2> QED BY <1>3, <2>1, OthersKept DEF Uploading
<1>4. ASSUME NEW u \in Uploads
      PROVE  UploadInv(u)'
  <2>1. UploadInv(u) /\ Uploading(a) = {}
    BY DEF StepInv
  <2>2. upload[u].step \in Transfer => upload[u].attempt # a
    BY <2>1 DEF UploadInv, Uploading
  <2> QED BY <2>1, <2>2 DEF UploadInv, Busy, Transfer, Import
<1> QED BY <1>1, <1>2, <1>3, <1>4

\* A call that holds the lease, and the attempt it settles.
LEMMA Held ==
  ASSUME IInv, NEW c \in Actors, Holding(c)
  PROVE  /\ Of(c) \in Attempts /\ lease = Of(c) /\ row[Of(c)] \in Row
         /\ AttemptInv(Of(c)) /\ LeaseInv(c) /\ StepInv(c)
BY DEF IInv, LeaseInv, Holding, TypeOK, Row

-----------------------------------------------------------------------------
(* The lease, the lane and its drain. *)

LEMMA AcquireKeeps ==
  ASSUME IInv, NEW c \in Actors, Acquire(c)
  PROVE  IInv'
<1> USE DEF IInv
<1>1. PICK a \in Attempts : a = Of(c)
  BY DEF Acquire, In, LeaseInv
<1>2. /\ call[c].step = "asked" /\ LeaseFree
      /\ UNCHANGED <<projectVars, diskVars, expired, serving, uploadVars, faults, misread>>
  BY DEF Acquire, In
<1>3. ASSUME Proceed(c, "closing"), lease' = Of(c)
      PROVE  /\ ProcessTypes' /\ lease' \in Attempts \cup {NoAttempt}
             /\ \A d \in Actors : LeaseInv(d)' /\ StepInv(d)'
  <2>1. /\ call'[c].attempt = a /\ call'[c].step = "closing"
        /\ \A d \in Actors \ {c} : call'[d] = call[d] /\ call[d].step \in {"idle", "asked"}
    BY <1>1, <1>2, <1>3, BootstrapAssumption
       DEF ProcessTypes, Proceed, LeaseInv, Holding, LeaseFree, Of
  <2>2. ProcessTypes'
    BY <1>2, <1>3 DEF ProcessTypes, Proceed, Step, Drain, uploadVars
  <2>3. ASSUME NEW d \in Actors
        PROVE  LeaseInv(d)'
    BY <1>1, <1>3, <2>1, <2>3 DEF LeaseInv, Holding, Of
  <2>4. ASSUME NEW d \in Actors
        PROVE  StepInv(d)'
    BY <2>1, <2>4 DEF StepInv, Alone
  <2> QED BY <1>1, <1>3, <2>2, <2>3, <2>4
<1>4. CASE Begins(c) /\ BeginSettlement(c) /\ Proceed(c, "closing") /\ lease' = Of(c)
  <2> DEFINE r == IF call[c].op = "activate" THEN BeginActivation(row[a])
                  ELSE BeginCancellation(row[a])
  <2>1. row[a] \in Row /\ AttemptInv(a) /\ row[a].phase = "none"
    BY <1>1, <1>4 DEF Begins, TypeOK, Row
  <2>2. Settle(a, r) /\ expiring' \subseteq Attempts
    BY <1>1, <1>4 DEF BeginSettlement, TypeOK
  <2>3. \/ /\ row[a].state = "ready" /\ ValidatedAttempt(row[a]) /\ r = BeginActivation(row[a])
        \/ row[a].state \in Collecting /\ r = BeginCancellation(row[a])
    BY <1>1, <1>4 DEF Begins
  <2>4. Live(a)
    BY <2>3 DEF Live, Nonterminal, Collecting
  <2>5. r \in Row /\ r.phase \in {"publish-intent", "cancel-intent"}
    BY <2>1, <2>3, RowSteps
  <2>6. \/ /\ r.state = "activating" /\ r.phase = "publish-intent" /\ row[a].state = "ready"
           /\ ValidatedAttempt(row[a])
        \/ /\ r.state = row[a].state /\ r.phase = "cancel-intent" /\ r.bundle = row[a].bundle
           /\ r.reports = row[a].reports /\ row[a].state \in Collecting
    BY <2>1, <2>3, RowSteps
  <2> HIDE DEF r
  <2>7. row'[a] = r
    BY <2>2, <2>4, <2>5, RowMoves DEF Settle
  <2>8. AttemptInv(a)'
    <3>1. StandingInv(a)'
      BY <1>2, <2>1, <2>6, <2>7
         DEF AttemptInv, StandingInv, RowShape, Collecting, ValidatedAttempt, projectVars
    <3>2. StagedInv(a)'
      BY <1>2, <2>1, <2>6, <2>7
         DEF AttemptInv, StagedInv, ValidatedAttempt, Activation, Collecting, Uploading,
             diskVars, stagingVars, uploadVars
    <3> QED BY <2>6, <2>7, <3>1, <3>2 DEF AttemptInv, OverInv, Collecting
  <2>9. /\ service' \in {"none", "active", "recovery-required"} /\ catalogued' \in BOOLEAN
    BY <1>2 DEF TypeOK, projectVars
  <2> QED BY <1>2, <1>3, <1>4, <2>2, <2>4, <2>5, <2>8, <2>9, NoFault, SettleKeeps
<1>5. CASE Resumes(c) /\ Proceed(c, "closing") /\ lease' = Of(c) /\ UNCHANGED attemptVars
  <2>1. OneLive' /\ CandidateTracksSettlement' /\ \A b \in Attempts : AttemptInv(b)'
    BY <1>2, <1>5, AttemptsKept DEF attemptVars, diskVars, stagingVars, uploadVars
  <2>2. \A u \in Uploads : UploadInv(u)'
    BY <1>2, <1>5, UploadsKept DEF attemptVars, diskVars, stagingVars, uploadVars
  <2>3. TypeOK'
    BY <1>1, <1>2, <1>5 DEF TypeOK, attemptVars, projectVars, diskVars, stagingVars, uploadVars
  <2> QED BY <1>3, <1>5, <2>1, <2>2, <2>3
<1>6. CASE ~Begins(c) /\ ~Resumes(c) /\ EndCall(c) /\ UNCHANGED attemptVars
  <2>1. faults' \in 0..MaxFaults
    BY <1>2 DEF TypeOK
  <2> QED BY <1>2, <1>6, <2>1, EndKeeps
<1> QED BY <1>4, <1>5, <1>6 DEF Acquire

LEMMA CloseLaneKeeps ==
  ASSUME IInv, NEW c \in Actors, CloseLane(c)
  PROVE  IInv'
<1>1. /\ Holding(c) /\ Proceed(c, "draining") /\ "draining" \in Drain \cup Alone
      /\ UNCHANGED <<attemptVars, projectVars, diskVars, expired, serving, lease, upload,
                     admitted, faults, misread>>
  BY DEF CloseLane, In, Holding, Drain
<1>2. closed' \subseteq Attempts
  BY <1>1, Held DEF CloseLane, IInv, TypeOK
<1>3. StepInv(c)'
  <2>1. call'[c].step = "draining"
    BY <1>1, CallProceeds
  <2> QED BY <2>1 DEF StepInv, Alone
<1> QED BY <1>1, <1>2, <1>3, ProceedKeeps

\* Past the drain the gate is empty, and only this call could open it again.
LEMMA DrainLaneKeeps ==
  ASSUME IInv, NEW c \in Actors, DrainLane(c)
  PROVE  IInv'
<1> DEFINE step == IF row[Of(c)].phase = "cancel-intent" THEN "discarding" ELSE "settling"
<1>1. /\ Holding(c) /\ Proceed(c, step) /\ step \in Drain \cup Alone
      /\ Uploading(Of(c)) = {}
      /\ UNCHANGED <<attemptVars, projectVars, diskVars, expired, serving, lease, uploadVars, faults, misread>>
  BY DEF DrainLane, In, Holding, Alone, Drained
<1>2. step \in {"discarding", "settling"} /\ (step = "discarding" => Phase(c) = "cancel-intent")
  BY DEF Phase
<1> HIDE DEF step
<1>3. closed' \subseteq Attempts
  BY <1>1 DEF IInv, TypeOK, uploadVars
<1>4. StepInv(c)'
  <2>1. call'[c].step = step /\ Of(c)' = Of(c)
    BY <1>1, CallProceeds DEF uploadVars
  <2> QED BY <1>1, <1>2, <2>1 DEF StepInv, Uploading, Phase, attemptVars, uploadVars
<1> QED BY <1>1, <1>3, <1>4, ProceedKeeps DEF uploadVars

-----------------------------------------------------------------------------
(* Activation. *)

\* An activation is set aside only for a published Project that changed, for a
\* directory whose marker is gone, or over a failed reading.
LEMMA ClassifyKeeps ==
  ASSUME IInv, NEW c \in Actors, call[c].step \in {"settling", "renaming", "renamed"}, Classify(c),
         row[Of(c)].state \in {"activating", "activated"},
         \/ repository = Of(c) /\ (used \/ target[Of(c)] = "torn")
         \/ Of(c) \in misread',
         faults' \in 0..MaxFaults, misread \subseteq misread', misread' \subseteq Attempts,
         UNCHANGED <<diskVars, expired, serving, uploadVars>>
  PROVE  IInv'
<1> USE DEF IInv
<1>1. Holding(c)
  BY DEF Holding
<1>2. PICK a \in Attempts :
        /\ a = Of(c) /\ row[a] \in Row /\ AttemptInv(a) /\ Uploading(a) = {}
        /\ row[a].phase \in Activation
  BY <1>1, Held DEF StepInv, Alone, AttemptInv, StandingInv, RowShape, Row, Collecting, Cancellation
<1> DEFINE r == [row[a] EXCEPT !.state = "recovery-required"]
<1>3. r \in Row /\ r.state = "recovery-required" /\ r.phase = row[a].phase
  BY <1>2 DEF Row, State, Nonterminal
<1>4. /\ Settle(a, r) /\ service' = (IF service = "none" THEN "none" ELSE "recovery-required")
      /\ catalogued' = FALSE /\ EndCall(c) /\ UNCHANGED expiring
  BY <1>2 DEF Classify
<1> HIDE DEF r
<1>5. Live(a)
  BY <1>2 DEF Live, Nonterminal
<1>6. /\ ProcessTypes' /\ lease' \in Attempts \cup {NoAttempt}
      /\ \A d \in Actors : LeaseInv(d)' /\ StepInv(d)'
  BY <1>1, <1>4, CallEnds DEF uploadVars
<1>7. row'[a] = r
  BY <1>3, <1>4, <1>5, RowMoves DEF Settle
<1>8. AttemptInv(a)'
  <2>1. StandingInv(a)'
    BY <1>2, <1>3, <1>7 DEF AttemptInv, StandingInv, RowShape, Activation, Collecting
  <2>2. StagedInv(a)'
    BY <1>2, <1>3, <1>7
       DEF AttemptInv, StagedInv, Collecting, Activation, Uploading, diskVars, stagingVars, uploadVars
  <2>3. OverInv(a)'
    BY <1>2, <1>3, <1>7 DEF OverInv, Uploading, diskVars, stagingVars, uploadVars
  <2> QED BY <2>1, <2>2, <2>3 DEF AttemptInv
<1>9. /\ expiring' \subseteq Attempts
      /\ service' \in {"none", "active", "recovery-required"} /\ catalogued' \in BOOLEAN
      /\ r.phase # "none"
  BY <1>2, <1>3, <1>4 DEF TypeOK, Activation
<1> QED BY <1>3, <1>4, <1>5, <1>6, <1>8, <1>9, SettleKeeps

LEMMA SettledKeeps ==
  ASSUME IInv, NEW c \in Actors, Settled(c)
  PROVE  IInv'
<1>1. Holding(c) /\ faults' \in 0..MaxFaults
  BY DEF Settled, In, Holding, IInv, TypeOK
<1> QED BY <1>1, EndKeeps DEF Settled

\* The staged repository or the published one is there, unless the Project was used.
LEMMA PrepareKeeps ==
  ASSUME IInv, NEW c \in Actors, Prepare(c)
  PROVE  IInv'
<1> USE DEF IInv
<1>1. /\ call[c].step = "settling" /\ row[Of(c)].phase = "publish-intent"
      /\ row[Of(c)].state # "recovery-required"
      /\ UNCHANGED <<diskVars, expired, serving, uploadVars, faults, misread>>
  BY DEF Prepare, Activating, In, Phase
<1>2. Holding(c)
  BY <1>1 DEF Holding
<1>3. PICK a \in Attempts :
        /\ a = Of(c) /\ AttemptInv(a) /\ Uploading(a) = {} /\ row[a].state = "activating"
        /\ target[a] = "validated" \/ repository = a
  BY <1>1, <1>2, Held DEF StepInv, Alone, AttemptInv, StandingInv, StagedInv, RowShape
<1>4. repository \in {NoAttempt, a}
  <2>1. ASSUME NEW b \in Attempts, repository = b
        PROVE  Live(b)
    BY <2>1 DEF AttemptInv, StagedInv, StandingInv, RowShape, Live, Activation, Nonterminal, Collecting
  <2> QED BY <1>3, <2>1 DEF OneLive, Live, Nonterminal, TypeOK
<1>5. CASE Preparable(a)
  <2> DEFINE step == IF Staged(a) THEN "renaming" ELSE "renamed"
  <2>1. Proceed(c, step) /\ UNCHANGED <<attemptVars, projectVars, lease>>
    BY <1>3, <1>5 DEF Prepare
  <2>2. /\ step \in Drain \cup Alone /\ step \in {"renaming", "renamed"}
        /\ step = "renaming" => target[a] = "validated" /\ repository = NoAttempt
        /\ step = "renamed" => repository = a
    BY <1>3, <1>4, <1>5 DEF Preparable, Published, Staged, Alone
  <2> HIDE DEF step
  <2>3. call'[c].step = step /\ Of(c)' = a
    BY <1>1, <1>2, <1>3, <2>1, <2>2, CallProceeds DEF uploadVars
  <2>4. StepInv(c)'
    BY <1>1, <1>3, <2>1, <2>2, <2>3
       DEF StepInv, Uploading, Phase, attemptVars, uploadVars, diskVars, stagingVars
  <2>5. closed' \subseteq Attempts
    BY <1>1 DEF TypeOK, uploadVars
  <2> QED BY <1>1, <1>2, <2>1, <2>2, <2>4, <2>5, ProceedKeeps DEF uploadVars
<1>6. CASE ~Preparable(a)
  <2>1. repository = a /\ used
    BY <1>3, <1>4, <1>6, BootstrapAssumption DEF Preparable, Published, Staged, AttemptInv, StagedInv
  <2>2. Classify(c)
    BY <1>3, <1>6 DEF Prepare
  <2> QED BY <1>1, <1>3, <2>1, <2>2, NoFault, ClassifyKeeps
<1> QED BY <1>5, <1>6

LEMMA PublishKeeps ==
  ASSUME IInv, NEW c \in Actors, Publish(c)
  PROVE  IInv'
<1> USE DEF IInv
<1>1. /\ call[c].step = "renaming" /\ used' = FALSE /\ Proceed(c, "renamed")
      /\ UNCHANGED <<attemptVars, projectVars, cleanup, expired, serving, lease, uploadVars, faults, misread>>
  BY DEF Publish, In
<1>2. Holding(c)
  BY <1>1 DEF Holding
<1>3. PICK a \in Attempts :
        /\ a = Of(c) /\ AttemptInv(a) /\ Uploading(a) = {} /\ row[a].state = "activating"
        /\ row[a].phase = "publish-intent" /\ repository = NoAttempt
        /\ repository' = a /\ target' = [target EXCEPT ![a] = "leftover"]
  BY <1>1, <1>2, Held DEF StepInv, Alone, Phase, Publish
<1>4. Live(a)
  BY <1>3 DEF Live, Nonterminal
<1>5. /\ ProcessTypes' /\ \A d \in Actors : LeaseInv(d)'
      /\ \A d \in Actors \ {c} : StepInv(d)'
      /\ Of(c)' = a /\ call'[c].step = "renamed"
  BY <1>1, <1>2, <1>3, CallProceeds DEF Alone, uploadVars
<1>6. /\ target' \in [Attempts -> Staging] /\ target'[a] = "leftover"
      /\ \A b \in Attempts \ {a} : target'[b] = target[b]
  BY <1>3 DEF TypeOK, Staging
<1>7. StepInv(c)'
  BY <1>1, <1>3, <1>5 DEF StepInv, Uploading, Phase, attemptVars, uploadVars
<1>8. AttemptInv(a)'
  <2>1. StandingInv(a)'
    BY <1>1, <1>3 DEF AttemptInv, StandingInv, attemptVars, projectVars
  <2>2. StagedInv(a)'
    BY <1>1, <1>3, <1>6
       DEF StagedInv, Uploading, Activation, Collecting, attemptVars, uploadVars
  <2> QED BY <1>1, <1>3, <2>1, <2>2 DEF AttemptInv, OverInv, attemptVars
<1>9. cleanup' \in [Attempts -> {"none", "intent", "detached"}] /\ cleanup' = cleanup
  BY <1>1 DEF TypeOK
<1>10. \A d \in Actors : LeaseInv(d)' /\ StepInv(d)'
  BY <1>5, <1>7
<1> QED BY <1>1, <1>3, <1>4, <1>5, <1>6, <1>8, <1>9, <1>10, DiskKeeps DEF Alone

LEMMA RecordPublishedKeeps ==
  ASSUME IInv, NEW c \in Actors, RecordPublished(c)
  PROVE  IInv'
<1> USE DEF IInv
<1>1. /\ call[c].step = "renamed" /\ Proceed(c, "settling")
      /\ UNCHANGED <<expiring, projectVars, diskVars, expired, serving, lease, uploadVars, faults, misread>>
  BY DEF RecordPublished, In
<1>2. Holding(c)
  BY <1>1 DEF Holding
<1>3. PICK a \in Attempts :
        /\ a = Of(c) /\ AttemptInv(a) /\ Uploading(a) = {} /\ row[a].state = "activating"
        /\ row[a] \in Row /\ row[a].phase = "publish-intent" /\ repository = a
        /\ Settle(a, AdvanceActivation(row[a]))
  BY <1>1, <1>2, Held DEF StepInv, Alone, Phase, RecordPublished
<1> DEFINE r == AdvanceActivation(row[a])
<1>4. r \in Row /\ r.state = "activating" /\ r.phase = "repository-published" /\ Settle(a, r)
  BY <1>3, Advanced
<1> HIDE DEF r
<1>5. Live(a)
  BY <1>3 DEF Live, Nonterminal
<1>6. /\ ProcessTypes' /\ \A d \in Actors : LeaseInv(d)'
      /\ \A d \in Actors \ {c} : StepInv(d)'
      /\ Of(c)' = a /\ call'[c].step = "settling"
  BY <1>1, <1>2, <1>3, CallProceeds DEF Alone, uploadVars
<1>7. row'[a] = r
  BY <1>4, <1>5, RowMoves DEF Settle
<1>8. StepInv(c)'
  BY <1>1, <1>3, <1>6 DEF StepInv, Uploading, uploadVars
<1>9. AttemptInv(a)'
  <2>1. StandingInv(a)'
    BY <1>1, <1>3, <1>4, <1>7 DEF AttemptInv, StandingInv, RowShape, projectVars
  <2>2. StagedInv(a)'
    BY <1>1, <1>3, <1>4, <1>7
       DEF AttemptInv, StagedInv, Uploading, Activation, Collecting, diskVars, stagingVars, uploadVars
  <2> QED BY <1>4, <1>7, <2>1, <2>2 DEF AttemptInv, OverInv
<1>10. /\ expiring' \subseteq Attempts /\ lease' \in Attempts \cup {NoAttempt}
       /\ service' \in {"none", "active", "recovery-required"} /\ catalogued' \in BOOLEAN
  BY <1>1 DEF TypeOK, projectVars
<1>11. \A d \in Actors : LeaseInv(d)' /\ StepInv(d)'
  BY <1>6, <1>8
<1> QED BY <1>1, <1>4, <1>5, <1>6, <1>9, <1>10, <1>11, NoFault, SettleKeeps

\* What is found at repository-published is the repository as it was published, and
\* no Project yet, unless the repository was used.
LEMMA ActivateKeeps ==
  ASSUME IInv, NEW c \in Actors, Activate(c)
  PROVE  IInv'
<1> USE DEF IInv
<1>1. /\ call[c].step = "settling" /\ row[Of(c)].phase = "repository-published"
      /\ row[Of(c)].state # "recovery-required"
      /\ UNCHANGED <<diskVars, expired, serving, uploadVars, faults, misread>>
  BY DEF Activate, Activating, In, Phase
<1>2. Holding(c)
  BY <1>1 DEF Holding
<1>3. PICK a \in Attempts :
        /\ a = Of(c) /\ AttemptInv(a) /\ Uploading(a) = {} /\ row[a].state = "activating"
        /\ row[a] \in Row /\ repository = a /\ service = "none" /\ target[a] # "validated"
  BY <1>1, <1>2, Held DEF StepInv, Alone, AttemptInv, StandingInv, StagedInv, RowShape
<1>4. CASE Published(a)
  <2> DEFINE r == AdvanceActivation(row[a])
  <2>1. /\ Settle(a, r) /\ service' = "active" /\ catalogued' = TRUE
        /\ UNCHANGED <<expiring, call, lease>>
    BY <1>3, <1>4 DEF Activate
  <2>2. r \in Row /\ r.state = "activated" /\ r.phase = "activated"
    BY <1>1, <1>3, Advanced
  <2> HIDE DEF r
  <2>3. Live(a)
    BY <1>3 DEF Live, Nonterminal
  <2>4. row'[a] = r
    BY <2>1, <2>2, <2>3, RowMoves DEF Settle
  <2>5. AttemptInv(a)'
    <3>1. StandingInv(a)'
      BY <2>1, <2>2, <2>4 DEF StandingInv, RowShape, Collecting
    <3>2. StagedInv(a)'
      BY <1>1, <1>3, <2>2, <2>4
         DEF AttemptInv, StagedInv, Uploading, Activation, Collecting, diskVars, stagingVars, uploadVars
    <3> QED BY <2>2, <2>4, <3>1, <3>2 DEF AttemptInv, OverInv
  <2>6. ASSUME NEW d \in Actors
        PROVE  LeaseInv(d)' /\ StepInv(d)'
    <3>1. LeaseInv(d)'
      BY <2>1, <2>6 DEF LeaseInv, Holding, Of
    <3>2. CASE d = c
      <4>1. call'[c].step = "settling" /\ Of(c)' = a
        BY <1>1, <1>3, <2>1 DEF Of
      <4>2. Uploading(Of(c))' = {}
        BY <1>1, <1>3, <4>1 DEF Uploading, uploadVars
      <4> QED BY <3>1, <3>2, <4>1, <4>2 DEF StepInv
    <3>3. CASE d # c
      <4>1. call[d].step \in {"idle", "asked"}
        BY <1>2, <3>3 DEF LeaseInv, Holding
      <4>2. call'[d].step \in {"idle", "asked"}
        BY <2>1, <4>1
      <4> QED BY <3>1, <4>2 DEF StepInv, Alone
    <3> QED BY <3>1, <3>2, <3>3
  <2>7. /\ expiring' \subseteq Attempts /\ lease' \in Attempts \cup {NoAttempt} /\ ProcessTypes'
    BY <1>1, <2>1 DEF TypeOK, ProcessTypes, uploadVars
  <2> QED BY <1>1, <2>1, <2>2, <2>3, <2>5, <2>6, <2>7, NoFault, SettleKeeps
<1>5. CASE ~Published(a)
  <2>1. used
    BY <1>3, <1>5 DEF Published, Staged
  <2>2. Classify(c)
    BY <1>3, <1>5 DEF Activate
  <2> QED BY <1>1, <1>3, <2>1, <2>2, NoFault, ClassifyKeeps
<1> QED BY <1>4, <1>5

\* An activated attempt's Project is there as it was inserted, until it is used.
LEMMA VerifyKeeps ==
  ASSUME IInv, NEW c \in Actors, Verify(c)
  PROVE  IInv'
<1> USE DEF IInv
<1>1. /\ call[c].step = "settling" /\ row[Of(c)].phase \in {"activated", "completed"}
      /\ row[Of(c)].state # "recovery-required"
      /\ UNCHANGED <<diskVars, expired, serving, uploadVars, faults, misread>>
  BY DEF Verify, Activating, In, Phase
<1>2. Holding(c)
  BY <1>1 DEF Holding
<1>3. PICK a \in Attempts :
        /\ a = Of(c) /\ Uploading(a) = {} /\ row[a].state = "activated"
        /\ repository = a /\ service = "active" /\ catalogued /\ target[a] # "validated"
  BY <1>1, <1>2, Held DEF StepInv, Alone, AttemptInv, StandingInv, StagedInv, RowShape
<1>4. CASE Published(a) /\ ProjectExact /\ target[a] # "torn"
  <2>1. Proceed(c, "erasing") /\ UNCHANGED <<attemptVars, projectVars, lease>>
    BY <1>3, <1>4 DEF Verify
  <2>2. call'[c].step = "erasing" /\ Of(c)' = a
    BY <1>1, <1>2, <1>3, <2>1, CallProceeds DEF Alone, uploadVars
  <2>3. StepInv(c)'
    BY <1>1, <1>3, <2>1, <2>2 DEF StepInv, Uploading, attemptVars, uploadVars
  <2>4. closed' \subseteq Attempts /\ "erasing" \in Drain \cup Alone
    BY <1>1 DEF TypeOK, Alone, uploadVars
  <2> QED BY <1>1, <1>2, <2>1, <2>3, <2>4, ProceedKeeps DEF uploadVars
<1>5. CASE ~(Published(a) /\ ProjectExact /\ target[a] # "torn")
  <2>1. used \/ target[a] = "torn"
    BY <1>3, <1>5 DEF Published, Staged, ProjectExact
  <2>2. Classify(c)
    BY <1>3, <1>5 DEF Verify
  <2> QED BY <1>1, <1>3, <2>1, <2>2, NoFault, ClassifyKeeps
<1> QED BY <1>4, <1>5

LEMMA EraseKeeps ==
  ASSUME IInv, NEW c \in Actors, Erase(c)
  PROVE  IInv'
<1> USE DEF IInv
<1>1. /\ call[c].step = "erasing"
      /\ UNCHANGED <<attemptVars, projectVars, cleanup, repository, used, expired, serving,
                     callVars, uploadVars, faults, misread>>
  BY DEF Erase, In
<1>2. Holding(c)
  BY <1>1 DEF Holding
<1>3. PICK a \in Attempts :
        /\ a = Of(c) /\ AttemptInv(a) /\ Uploading(a) = {} /\ row[a].state = "activated"
        /\ row[a] \in Row
        /\ target' = [target EXCEPT ![a] = IF @ = "leftover" THEN "torn" ELSE "none"]
  BY <1>1, <1>2, Held DEF StepInv, Alone, Erase
<1>4. Live(a)
  BY <1>3 DEF Live
<1>5. row[a].phase \in {"activated", "completed"} /\ repository = a
  BY <1>3 DEF AttemptInv, StandingInv, StagedInv, RowShape, Row, Activation, Cancellation, Collecting
<1>6. /\ target' \in [Attempts -> Staging] /\ target'[a] \in {"torn", "none"}
      /\ \A b \in Attempts \ {a} : target'[b] = target[b]
  BY <1>3 DEF TypeOK, Staging
<1>7. \A d \in Actors : LeaseInv(d)' /\ StepInv(d)'
  <2>1. \A b \in Attempts : lease = b =>
          /\ row'[b] = row[b] /\ (Uploading(b) = {} => Uploading(b)' = {})
          /\ repository = NoAttempt /\ Uploading(b) = {} => target'[b] = target[b]
    BY <1>1, <1>5, BootstrapAssumption DEF Uploading, attemptVars, uploadVars
  <2> QED BY <1>1, <2>1, CallsKept DEF callVars
<1>8. AttemptInv(a)'
  <2>1. StandingInv(a)'
    BY <1>1, <1>3 DEF AttemptInv, StandingInv, attemptVars, projectVars
  <2>2. StagedInv(a)'
    BY <1>1, <1>3, <1>5, <1>6
       DEF StagedInv, AttemptInv, Uploading, attemptVars, uploadVars
  <2> QED BY <1>1, <1>3, <2>1, <2>2 DEF AttemptInv, OverInv, attemptVars
<1>9. /\ cleanup' \in [Attempts -> {"none", "intent", "detached"}] /\ cleanup' = cleanup
      /\ used' \in BOOLEAN /\ ProcessTypes'
  BY <1>1 DEF TypeOK, ProcessTypes, callVars, uploadVars
<1> QED BY <1>1, <1>3, <1>4, <1>5, <1>6, <1>7, <1>8, <1>9, DiskKeeps DEF Alone, callVars

LEMMA CompleteKeeps ==
  ASSUME IInv, NEW c \in Actors, Complete(c)
  PROVE  IInv'
<1> USE DEF IInv
<1>1. /\ call[c].step = "erasing" /\ EndCall(c)
      /\ UNCHANGED <<expiring, projectVars, diskVars, expired, serving, uploadVars, faults, misread>>
  BY DEF Complete, In
<1>2. Holding(c)
  BY <1>1 DEF Holding
<1>3. PICK a \in Attempts :
        /\ a = Of(c) /\ AttemptInv(a) /\ row[a].state = "activated" /\ row[a] \in Row
        /\ IF row[a].phase = "activated" THEN Settle(a, AdvanceActivation(row[a]))
           ELSE UNCHANGED <<row, candidate>>
  BY <1>1, <1>2, Held DEF StepInv, Alone, Phase, Complete
<1>4. CASE row[a].phase = "activated"
  <2> DEFINE r == AdvanceActivation(row[a])
  <2>1. r \in Row /\ r.state = "activated" /\ r.phase = "completed" /\ Settle(a, r)
    BY <1>3, <1>4, Advanced
  <2> HIDE DEF r
  <2>2. Live(a)
    BY <1>3 DEF Live
  <2>3. /\ ProcessTypes' /\ lease' \in Attempts \cup {NoAttempt}
        /\ \A d \in Actors : LeaseInv(d)' /\ StepInv(d)'
    BY <1>1, <1>2, CallEnds DEF uploadVars
  <2>4. row'[a] = r
    BY <2>1, <2>2, RowMoves DEF Settle
  <2>5. AttemptInv(a)'
    <3>1. StandingInv(a)'
      BY <1>1, <1>3, <2>1, <2>4 DEF AttemptInv, StandingInv, RowShape, Collecting, projectVars
    <3>2. StagedInv(a)'
      BY <1>1, <1>3, <1>4, <2>1, <2>4
         DEF AttemptInv, StagedInv, Uploading, Activation, Collecting, diskVars, stagingVars, uploadVars
    <3> QED BY <2>1, <2>4, <3>1, <3>2 DEF AttemptInv, OverInv
  <2>6. /\ expiring' \subseteq Attempts
        /\ service' \in {"none", "active", "recovery-required"} /\ catalogued' \in BOOLEAN
    BY <1>1 DEF TypeOK, projectVars
  <2> QED BY <1>1, <2>1, <2>2, <2>3, <2>5, <2>6, NoFault, SettleKeeps
<1>5. CASE row[a].phase # "activated"
  <2>1. UNCHANGED attemptVars /\ faults' \in 0..MaxFaults
    BY <1>1, <1>3, <1>5 DEF attemptVars, TypeOK
  <2> QED BY <1>1, <1>2, <2>1, EndKeeps
<1> QED BY <1>4, <1>5

-----------------------------------------------------------------------------
(* Cancellation. *)

\* The attempt a call discards: drained, and still being collected by its state.
LEMMA Discards ==
  ASSUME IInv, NEW c \in Actors, Discarding(c)
  PROVE  /\ Holding(c) /\ call[c].step \in Alone /\ Of(c) \in Attempts /\ Live(Of(c))
         /\ row[Of(c)] \in Row /\ AttemptInv(Of(c)) /\ Uploading(Of(c)) = {}
         /\ row[Of(c)].phase = "cancel-intent" /\ row[Of(c)].state \in Collecting
<1>1. Holding(c) /\ call[c].step = "discarding" /\ call[c].step \in Alone
  BY DEF Discarding, In, Holding, Alone
<1>2. /\ Of(c) \in Attempts /\ row[Of(c)] \in Row /\ AttemptInv(Of(c)) /\ Uploading(Of(c)) = {}
      /\ row[Of(c)].phase = "cancel-intent"
  BY <1>1, Held DEF StepInv, Phase
<1>3. row[Of(c)].state \in Collecting
  BY <1>2 DEF AttemptInv, StandingInv, RowShape
<1>4. Live(Of(c))
  BY <1>3 DEF Live, Nonterminal
<1> QED BY <1>1, <1>2, <1>3, <1>4

\* A step of the durable removal, while the row still says cancel-intent.
LEMMA RemovalKeeps ==
  ASSUME IInv, NEW c \in Actors, Discarding(c), NEW a \in Attempts, a = Of(c),
         target' \in [Attempts -> Staging], target'[a] \in {target[a], "none"},
         cleanup' \in [Attempts -> {"none", "intent", "detached"}],
         \A b \in Attempts \ {a} : target'[b] = target[b] /\ cleanup'[b] = cleanup[b],
         UNCHANGED <<attemptVars, projectVars, repository, used, expired, serving, callVars,
                     uploadVars, faults, misread>>
  PROVE  IInv'
<1> USE DEF IInv
<1>1. /\ Holding(c) /\ call[c].step \in Alone /\ Live(a) /\ AttemptInv(a) /\ Uploading(a) = {}
      /\ row[a].phase = "cancel-intent" /\ row[a].state \in Collecting
  BY Discards
<1>2. ASSUME NEW d \in Actors
      PROVE  LeaseInv(d)' /\ StepInv(d)'
  <2>1. call'[d] = call[d] /\ Of(d)' = Of(d) /\ lease' = lease /\ Uploading(Of(d))' = Uploading(Of(d))
    BY DEF callVars, uploadVars, Of, Uploading
  <2>2. LeaseInv(d)'
    BY <1>2, <2>1 DEF LeaseInv, Holding, Of, callVars
  <2>3. call[d].step \notin {"renaming"}
    <3>1. ASSUME call[d].step = "renaming"
          PROVE  FALSE
      <4>1. d = c
        BY <1>1, <3>1 DEF LeaseInv, Holding
      <4> QED BY <3>1, <4>1 DEF Discarding, In
    <3> QED BY <3>1
  <2>4. StepInv(d)'
    BY <2>1, <2>3 DEF StepInv, Phase, attemptVars
  <2> QED BY <2>2, <2>4
<1>3. AttemptInv(a)'
  <2>1. StandingInv(a)'
    BY <1>1 DEF AttemptInv, StandingInv, attemptVars, projectVars
  <2>2. StagedInv(a)'
    BY <1>1 DEF AttemptInv, StagedInv, Uploading, attemptVars, uploadVars
  <2> QED BY <1>1, <2>1, <2>2 DEF AttemptInv, OverInv, Collecting, attemptVars
<1>4. ProcessTypes' /\ used' \in BOOLEAN /\ row[a].phase # "none"
  BY <1>1 DEF TypeOK, ProcessTypes, callVars, uploadVars
<1> QED BY <1>1, <1>2, <1>3, <1>4, DiskKeeps DEF callVars

LEMMA IntendKeeps ==
  ASSUME IInv, NEW c \in Actors, Intend(c)
  PROVE  IInv'
<1>1. PICK a \in Attempts : a = Of(c) /\ Discarding(c) /\ cleanup' = [cleanup EXCEPT ![a] = "intent"]
  BY Discards DEF Intend
<1> QED BY <1>1, RemovalKeeps DEF Intend, IInv, TypeOK

LEMMA DetachKeeps ==
  ASSUME IInv, NEW c \in Actors, Detach(c)
  PROVE  IInv'
<1>1. PICK a \in Attempts :
        /\ a = Of(c) /\ Discarding(c)
        /\ target' = [target EXCEPT ![a] = "none"] /\ cleanup' = [cleanup EXCEPT ![a] = "detached"]
  BY Discards DEF Detach
<1> QED BY <1>1, RemovalKeeps DEF Detach, IInv, TypeOK, Staging

LEMMA RemoveKeeps ==
  ASSUME IInv, NEW c \in Actors, Remove(c)
  PROVE  IInv'
<1>1. PICK a \in Attempts :
        /\ a = Of(c) /\ Discarding(c)
        /\ cleanup' = [cleanup EXCEPT ![a] = IF @ = "detached" THEN "intent" ELSE "none"]
  BY Discards DEF Remove
<1> QED BY <1>1, RemovalKeeps DEF Remove, IInv, TypeOK

\* A cancellation ends with nothing on disk, or with the conflict it found.
\* A cancellation is recorded: over, or set aside for a conflict or a failed reading.
LEMMA OutcomeKeeps ==
  ASSUME IInv, NEW c \in Actors, Discarding(c), EndCall(c),
         NEW outcome \in {"cancelled", "recovery-required"},
         outcome = "cancelled" => target[Of(c)] = "none" /\ cleanup[Of(c)] = "none",
         outcome = "recovery-required" => Conflict(Of(c)) \/ Of(c) \in misread',
         Settle(Of(c), AdvanceCancellation(row[Of(c)], outcome)),
         faults' \in 0..MaxFaults, misread \subseteq misread', misread' \subseteq Attempts,
         UNCHANGED <<expiring, projectVars, diskVars, expired, serving, uploadVars>>
  PROVE  IInv'
<1> USE DEF IInv
<1>2. PICK a \in Attempts :
        /\ a = Of(c)
        /\ Holding(c) /\ Live(a) /\ row[a] \in Row /\ AttemptInv(a) /\ Uploading(a) = {}
        /\ row[a].phase = "cancel-intent" /\ row[a].state \in Collecting
  BY Discards
<1> DEFINE r == AdvanceCancellation(row[a], outcome)
<1>4. r \in Row /\ r.state = outcome /\ r.phase = outcome /\ Settle(a, r)
  BY <1>2, Advanced
<1> HIDE DEF r
<1>5. /\ ProcessTypes' /\ lease' \in Attempts \cup {NoAttempt}
      /\ \A d \in Actors : LeaseInv(d)' /\ StepInv(d)'
  BY <1>2, CallEnds DEF uploadVars
<1>6. row'[a] = r
  BY <1>2, <1>4, RowMoves DEF Settle
<1>7. AttemptInv(a)'
  <2>1. StandingInv(a)'
    BY <1>4, <1>6 DEF StandingInv, RowShape, Collecting
  <2>2. repository # a
    BY <1>2 DEF AttemptInv, StagedInv
  <2>3. StagedInv(a)'
    BY <1>2, <1>4, <1>6, <2>2 DEF AttemptInv, StagedInv, diskVars, stagingVars
  <2>4. OverInv(a)'
    BY <1>2, <1>4, <1>6 DEF OverInv, Conflict, Uploading, diskVars, stagingVars, uploadVars
  <2> QED BY <2>1, <2>3, <2>4 DEF AttemptInv
<1>8. /\ expiring' \subseteq Attempts /\ r.phase # "none"
      /\ service' \in {"none", "active", "recovery-required"} /\ catalogued' \in BOOLEAN
  BY <1>4 DEF TypeOK, projectVars
<1> QED BY <1>2, <1>4, <1>5, <1>7, <1>8, SettleKeeps

LEMMA CancelKeeps ==
  ASSUME IInv, NEW c \in Actors, Cancel(c)
  PROVE  IInv'
<1>1. /\ Discarding(c) /\ EndCall(c)
      /\ Settle(Of(c), AdvanceCancellation(row[Of(c)], Outcome(Of(c))))
      /\ UNCHANGED <<expiring, projectVars, diskVars, expired, serving, uploadVars, faults, misread>>
      /\ Outcome(Of(c)) \in {"cancelled", "recovery-required"}
      /\ Outcome(Of(c)) = "cancelled" => target[Of(c)] = "none" /\ cleanup[Of(c)] = "none"
      /\ Outcome(Of(c)) = "recovery-required" => Conflict(Of(c))
  BY DEF Cancel, Outcome
<1>2. faults' \in 0..MaxFaults /\ misread' \subseteq Attempts
  BY <1>1 DEF IInv, TypeOK
<1> QED BY <1>1, <1>2, OutcomeKeeps

LEMMA FailReadingKeeps ==
  ASSUME IInv, NEW c \in Actors, FailReading(c)
  PROVE  IInv'
<1>1. /\ faults' \in 0..MaxFaults /\ misread' = misread \cup {Of(c)}
      /\ UNCHANGED <<diskVars, expired, serving, uploadVars>>
      /\ call[c].step \in Alone
  BY BootstrapAssumption
     DEF FailReading, Reading, Discarding, In, Activating, IInv, TypeOK, Alone
<1>2. Of(c) \in Attempts /\ RowShape(row[Of(c)]) /\ StepInv(c)
  BY <1>1, Held DEF Holding, Alone, AttemptInv, StandingInv
<1>3. misread \subseteq misread' /\ misread' \subseteq Attempts /\ Of(c) \in misread'
  BY <1>1, <1>2 DEF IInv, TypeOK
<1>4. CASE Reading(c) /\ Classify(c)
  <2>1. call[c].step \in {"settling", "renaming", "renamed"}
    BY <1>4 DEF Reading, In, Activating
  <2>2. row[Of(c)].state \in {"activating", "activated"}
    BY <1>2, <1>4 DEF Reading, In, Activating, Phase, Activation, RowShape, StepInv
  <2> QED BY <1>1, <1>3, <1>4, <2>1, <2>2, ClassifyKeeps
<1>5. CASE ~(Reading(c) /\ Classify(c))
  BY <1>1, <1>3, <1>5, OutcomeKeeps DEF FailReading
<1> QED BY <1>4, <1>5

LEMMA FailStepKeeps ==
  ASSUME IInv, NEW c \in Actors, FailStep(c)
  PROVE  IInv'
<1>1. Holding(c) /\ faults' \in 0..MaxFaults
  BY BootstrapAssumption DEF FailStep, Holding, IInv, TypeOK
<1> QED BY <1>1, EndKeeps DEF FailStep

-----------------------------------------------------------------------------
(* The theorems. *)

LEMMA InitHolds == Init => IInv
<1> SUFFICES ASSUME Init
             PROVE  IInv
  OBVIOUS
<1> USE DEF Init
<1>1. TypeOK
  <2>1. row \in [Attempts -> Row]
    BY DEF Row, Absent, State, Bundle
  <2>2. /\ target \in [Attempts -> Staging]
        /\ cleanup \in [Attempts -> {"none", "intent", "detached"}]
    BY DEF Staging
  <2>3. faults \in 0..MaxFaults /\ admitted \in [Uploads -> Attempts \cup {NoAttempt}]
    BY BootstrapAssumption
  <2> QED BY <2>1, <2>2, <2>3 DEF TypeOK, Row
<1>2. ProcessTypes
  BY DEF ProcessTypes, Idle, Resting, Op, Step
<1>3. \A a \in Attempts : row[a] = Absent /\ repository # a /\ ~Live(a)
  BY BootstrapAssumption DEF Live, Absent, Nonterminal, Collecting
<1>4. OneLive /\ CandidateTracksSettlement
  BY <1>3, BootstrapAssumption
     DEF OneLive, CandidateTracksSettlement, Absent, Unsettled, Activation
<1>5. ASSUME NEW a \in Attempts
      PROVE  AttemptInv(a)
  BY <1>3 DEF AttemptInv, StandingInv, StagedInv, OverInv, RowShape, Absent, Collecting
<1>6. ASSUME NEW u \in Uploads
      PROVE  UploadInv(u)
  BY DEF UploadInv, Resting, Transfer, Import
<1>7. ASSUME NEW c \in Actors
      PROVE  LeaseInv(c) /\ StepInv(c)
  BY DEF LeaseInv, StepInv, Holding, Idle, Alone
<1> QED BY <1>1, <1>2, <1>4, <1>5, <1>6, <1>7 DEF IInv

LEMMA RequestKeeps ==
  ASSUME IInv, NEW a \in Attempts,
         \/ Begin(a) \/ Ticks(a)
         \/ \E m \in Reporters : Report(a, m)
         \/ \E u \in Uploads : Admit(u, a)
         \/ \E c \in Callers : AskActivate(c, a) \/ AskCancel(c, a) \/ AskExpire(c, a)
         \/ AskReconcile(a)
  PROVE  IInv'
<1>1. ASSUME NEW c \in Callers, AskActivate(c, a) \/ AskCancel(c, a) \/ AskExpire(c, a)
      PROVE  IInv'
  <2>1. c \in Actors /\ (Ask(c, "activate", a) \/ Ask(c, "cancel", a))
    BY <1>1 DEF AskActivate, AskCancel, AskExpire, Actors
  <2> QED BY <2>1, AskKeeps DEF Op
<1>2. CASE AskReconcile(a)
  BY <1>2, AskKeeps DEF AskReconcile, Actors, Op
<1>3. CASE Ticks(a)
  <2>1. expired' \subseteq Attempts /\ serving' \in BOOLEAN
    BY <1>3 DEF Ticks, IInv, TypeOK
  <2> QED BY <1>3, <2>1, IdleKeeps DEF Ticks
<1> QED BY <1>1, <1>2, <1>3, BeginKeeps, ReportKeeps, AdmitKeeps

LEMMA UploadStepKeeps ==
  ASSUME IInv, NEW u \in Uploads, UploadStep(u)
  PROVE  IInv'
<1>1. CASE AbortImport(u)
  BY <1>1, AbandonKeeps DEF AbortImport, Transfer, Import
<1> QED BY <1>1, StartImportKeeps, PreparePathsKeeps, MarkAttemptKeeps, FinishImportKeeps,
           RecordUploadKeeps DEF UploadStep

LEMMA CallStepKeeps ==
  ASSUME IInv, NEW c \in Actors, CallStep(c) \/ FailStep(c) \/ FailReading(c)
  PROVE  IInv'
BY LockTimeoutKeeps, AcquireKeeps, CloseLaneKeeps, DrainLaneKeeps, SettledKeeps, PrepareKeeps,
   PublishKeeps, RecordPublishedKeeps, ActivateKeeps, VerifyKeeps, EraseKeeps, CompleteKeeps,
   IntendKeeps, DetachKeeps, RemoveKeeps, CancelKeeps, FailStepKeeps, FailReadingKeeps
   DEF CallStep

LEMMA NextHolds == IInv /\ [Next]_vars => IInv'
<1> SUFFICES ASSUME IInv, [Next]_vars
             PROVE  IInv'
  OBVIOUS
<1>1. CASE AskRecover
  <2>1. candidate \in Attempts /\ Ask(Reconciler, "recover", candidate)
    BY <1>1 DEF AskRecover, IInv, TypeOK
  <2>2. Reconciler \in Actors /\ "recover" \in Op
    BY DEF Actors, Op
  <2> QED BY <2>1, <2>2, AskKeeps
<1>2. CASE Serve
  <2>1. expired' \subseteq Attempts /\ serving' \in BOOLEAN
    BY <1>2 DEF Serve, IInv, TypeOK
  <2> QED BY <1>2, <2>1, IdleKeeps DEF Serve
<1>3. CASE UNCHANGED vars
  <2>1. expired' \subseteq Attempts /\ serving' \in BOOLEAN
    BY <1>3 DEF vars, IInv, TypeOK
  <2> QED BY <1>3, <2>1, IdleKeeps DEF vars
<1> QED BY <1>1, <1>2, <1>3, RequestKeeps, UseKeeps, CrashKeeps, UploadStepKeeps, CallStepKeeps
        DEF Next

LEMMA BootstrapInductive == Spec => []IInv
BY InitHolds, NextHolds, PTL DEF Spec

\* At every step the row of an attempt describes its directories, although uploads
\* import beside the lease and calls stop between two effects, and the recovery
\* catalog names the settlement that is not over and only that one.
THEOREM RowsTruthful == Spec => []RowsTellTheTruth
<1>1. IInv => RowsTellTheTruth
  <2> SUFFICES ASSUME IInv
               PROVE  RowsTellTheTruth
    OBVIOUS
  <2>1. ASSUME NEW a \in Attempts, row[a].state = "ready", row[a].phase = "none"
        PROVE  target[a] = "validated"
    BY <2>1 DEF IInv, AttemptInv, StandingInv, StagedInv, RowShape, ValidatedAttempt
  <2>2. RowsMatchDisk
    BY <2>1 DEF IInv, RowsMatchDisk, AttemptInv, StagedInv, OverInv
  <2> QED BY <2>2 DEF IInv, RowsTellTheTruth
<1> QED BY <1>1, BootstrapInductive, PTL

\* What sets an attempt aside is a Project used since it was published, an activated
\* attempt's directory without its marker, two directories where a removal expects
\* one, or a failed reading of the attempt's own settlement. Nothing else costs one:
\* no crash, no lost lease, no transaction or removal that fails, no upload.
THEOREM SettlementConflicts == Spec => []SetAsideForCause
<1>1. IInv => SetAsideForCause
  BY DEF IInv, SetAsideForCause, AttemptInv, OverInv
<1> QED BY <1>1, BootstrapInductive, PTL

\* Uploads import outside the Project lease, and yet past the drain no upload holds
\* the gate of the attempt a call settles, which no other call touches: what
\* closeAndDrain and the advisory lock are for.
THEOREM SettlementsRunAlone ==
  Spec => [](\A c \in Actors : call[c].step \in Alone =>
               /\ lease = Of(c) /\ Uploading(Of(c)) = {}
               /\ \A d \in Actors \ {c} : call[d].step \notin Drain \cup Alone)
<1>1. IInv => \A c \in Actors : call[c].step \in Alone =>
                /\ lease = Of(c) /\ Uploading(Of(c)) = {}
                /\ \A d \in Actors \ {c} : call[d].step \notin Drain \cup Alone
  BY DEF IInv, LeaseInv, StepInv, Holding, Drain, Alone
<1> QED BY <1>1, BootstrapInductive, PTL

\* Of all the attempts to bootstrap the Project one at most is in progress, active or
\* set aside, so a settlement's transaction never overwrites another's candidate.
THEOREM OneAttemptAtATime == Spec => []OneLive
<1>1. IInv => OneLive
  BY DEF IInv
<1> QED BY <1>1, BootstrapInductive, PTL

=============================================================================

--------------------------- MODULE ProjectEvents ---------------------------
(***************************************************************************)
(* The event streams of Projects: the retained log in PostgreSQL, the      *)
(* process-local wakeup, the admission of connections and the session loop *)
(* of a WebSocket (ProjectEventRoutes, ProjectEventWakeup,                 *)
(* ProjectEventAdmission, readProjectEvents, getProjectEvents).            *)
(*                                                                         *)
(* An action runs from one await to the next.  An event is its sequence    *)
(* number.  A session only compares wake versions, so it has the flag      *)
(* `woken` for wakeVersion # observedWakeVersion.                          *)
(***************************************************************************)
EXTENDS Integers, FiniteSets, Sequences

CONSTANTS
  Session,                \* WebSocket upgrades
  Project,
  MaxSequence,            \* bound: events per Project
  MaxEventReplay,         \* COLLAB_CLOUD_BINDING_LIMITS.maxEventReplay
  MinRetainedEventCount,  \* COLLAB_CLOUD_BINDING_LIMITS.minRetainedEventCount
  MaxConnections,
  MaxConnectionsPerProject,
  MaxPendingAuthorizations

\* The constructor of ProjectEventAdmission refuses other limits.
ASSUME LimitsAssumption ==
  /\ MaxSequence \in Nat
  /\ MaxEventReplay \in Nat \ {0} /\ MinRetainedEventCount \in Nat \ {0}
  /\ MaxConnections \in Nat
  /\ MaxConnectionsPerProject \in 1 .. MaxConnections - 1
  /\ MaxPendingAuthorizations \in Nat \ {0}

VARIABLES
  latest,       \* project_event_sequences.current_sequence
  retained,     \* the sequences in project_events
  unnotified,   \* committed transactions whose notification is still to come
  polls,        \* #projectPolls: the sessions in a Project's chain of reads
  active,       \* #active
  activeByProject,
  pending,      \* #pending
  closed,       \* the routes, the admission and the wakeup are closed
  closeResolved,\* the promise of ProjectEventAdmission.close() is resolved
  session,      \* the sessions
  noticed,      \* history: latest when the Project was last notified
  revokedAt     \* latest when the session's Member was removed, -1 before

eventsVars == <<latest, retained, unnotified, polls, active, activeByProject, pending,
                closed, closeResolved, session, noticed, revokedAt>>
log == <<latest, retained, unnotified, noticed, revokedAt>>
admission == <<active, activeByProject, pending, closeResolved>>

Sequence == 0 .. MaxSequence

\* authorize: the read before the upgrade.  poll, send, wait, delay: the awaits
\* of #runSession.  loop: at its top.  closing: waits for the socket to close.
SessionStep == {"authorize", "loop", "poll", "send", "wait", "delay", "closing", "done"}
Result == {"none", "events", "snapshot-required", "busy", "failed"}

SessionRecord ==
  [pc : SessionStep, project : Project, start : Sequence, cursor : Sequence, open : BOOLEAN,
   woken : BOOLEAN, result : Result, batch : SUBSET Sequence, upTo : Sequence,
   received : Seq(Sequence)]

TypeOK ==
  /\ latest \in [Project -> Sequence] /\ noticed \in [Project -> Sequence]
  /\ retained \in [Project -> SUBSET (1 .. MaxSequence)]
  /\ unnotified \in [Project -> Nat]
  /\ polls \in [Project -> Seq(Session)]
  /\ active \in Nat /\ activeByProject \in [Project -> Nat] /\ pending \in Nat
  /\ closed \in BOOLEAN /\ closeResolved \in BOOLEAN
  /\ DOMAIN session \subseteq Session /\ session \in [DOMAIN session -> SessionRecord]
  /\ revokedAt \in [Session -> Sequence \cup {-1}]

SessionsAt(pc) == {s \in DOMAIN session : session[s].pc = pc}

Running == DOMAIN session \ (SessionsAt("authorize") \cup SessionsAt("done"))

-----------------------------------------------------------------------------
\* A transaction appends an event and prunes: whatever is older than the retained
\* count may be old enough by its clock.  Only this process is notified.
AppendProjectEvent(p) ==
  /\ latest[p] < MaxSequence
  /\ latest' = [latest EXCEPT ![p] = @ + 1]
  /\ \E pruned \in SUBSET {n \in retained[p] : n <= latest[p] + 1 - MinRetainedEventCount} :
       retained' = [retained EXCEPT ![p] = (@ \cup {latest[p] + 1}) \ pruned]
  /\ \E here \in {0, 1} : unnotified' = [unnotified EXCEPT ![p] = @ + here]
  /\ UNCHANGED <<polls, admission, closed, session, noticed, revokedAt>>

Wake(s) == [s EXCEPT !.woken = TRUE, !.pc = IF @ = "wait" THEN "loop" ELSE @]

\* onProjectEventCommitted after the COMMIT; a closed wakeup has no listeners.
Notify(p) ==
  /\ unnotified[p] > 0
  /\ unnotified' = [unnotified EXCEPT ![p] = @ - 1]
  /\ noticed' = IF closed THEN noticed ELSE [noticed EXCEPT ![p] = latest[p]]
  /\ session' = [s \in DOMAIN session |->
       IF ~closed /\ s \in Running /\ session[s].project = p
       THEN Wake(session[s]) ELSE session[s]]
  /\ UNCHANGED <<latest, retained, polls, admission, closed, revokedAt>>

\* The session's Member is removed from the Project.
RevokeMembership(s) ==
  /\ s \in DOMAIN session \ SessionsAt("done") /\ revokedAt[s] = -1
  /\ revokedAt' = [revokedAt EXCEPT ![s] = latest[session[s].project]]
  /\ UNCHANGED <<latest, retained, unnotified, noticed, polls, admission, closed, session>>

-----------------------------------------------------------------------------
\* #pending and #active of the admission: pending authorizations and connections.
ReleasePending == pending' = pending - 1

UpgradeRefused(p) ==
  \/ closed
  \/ active >= MaxConnections
  \/ activeByProject[p] >= MaxConnectionsPerProject

Acquire(p) ==
  /\ active' = active + 1
  /\ activeByProject' = [activeByProject EXCEPT ![p] = @ + 1]

\* Mutant of Release: a session that ends keeps its place.
ReleaseNothing(p) == UNCHANGED <<active, activeByProject>>

Release(p) ==
  /\ active' = active - 1
  /\ activeByProject' = [activeByProject EXCEPT ![p] = @ - 1]

ResolveCloseIfDrained(isClosed) ==
  closeResolved' = (closeResolved \/ (isClosed /\ active' = 0 /\ pending' = 0))

-----------------------------------------------------------------------------
Enqueue(s, p) == polls' = [polls EXCEPT ![p] = Append(@, s)]

\* handleUpgrade: without a pending permit the upgrade is rejected.
Upgrade(s, p, after) ==
  LET start(pc) == session' = [t \in DOMAIN session \cup {s} |->
        IF t \in DOMAIN session THEN session[t]
        ELSE [pc |-> pc, project |-> p, start |-> after, cursor |-> after,
              open |-> pc # "done", woken |-> FALSE, result |-> "none", batch |-> {},
              upTo |-> 0, received |-> <<>>]]
  IN
  /\ s \notin DOMAIN session
  /\ \/ /\ closed \/ pending >= MaxPendingAuthorizations
        /\ start("done") /\ UNCHANGED <<polls, admission>>
     \/ /\ ~closed /\ pending < MaxPendingAuthorizations
        /\ pending' = pending + 1
        /\ Enqueue(s, p) /\ start("authorize")
        /\ UNCHANGED <<active, activeByProject, closeResolved>>
  /\ UNCHANGED <<log, closed>>

\* Mutant of NeedsSnapshot: a gap inside the retained events is not noticed.
NeedsSnapshotNoGap(p, after) ==
  \/ after > latest[p]
  \/ \A n \in retained[p] \cup {latest[p] + 1} : after + 1 < n
  \/ latest[p] - after > MaxEventReplay

\* getProjectEvents: the cursor is ahead, pruned or too far back, or there is a gap.
NeedsSnapshot(p, after) ==
  \/ after > latest[p]
  \/ \A n \in retained[p] \cup {latest[p] + 1} : after + 1 < n
  \/ latest[p] - after > MaxEventReplay
  \/ ~(after + 1 .. latest[p] \subseteq retained[p])

\* The Member is looked up in the transaction that reads the events.
Visible(s) == revokedAt[s] = -1

\* The read of the session at the head of the Project's chain.
ReadAs(s, result) ==
  LET p == session[s].project
      events == result = "events"
  IN
  /\ polls[p] # <<>> /\ Head(polls[p]) = s /\ session[s].result = "none"
  /\ session' = [session EXCEPT ![s] = [@ EXCEPT
       !.result = result,
       !.upTo = IF events THEN latest[p] ELSE 0,
       !.batch = IF events THEN {n \in retained[p] : n > session[s].cursor} ELSE {}]]
  /\ UNCHANGED <<log, polls, admission, closed>>

GetProjectEvents(s) ==
  /\ s \in DOMAIN session
  /\ ReadAs(s, IF ~Visible(s) THEN "failed"
               ELSE IF NeedsSnapshot(session[s].project, session[s].cursor)
               THEN "snapshot-required" ELSE "events")

\* The read is refused, cancelled or fails.
ReadFails(s) ==
  /\ s \in DOMAIN session
  /\ \E result \in {"failed", "busy"} : ReadAs(s, result)

\* The session at the head of the chain goes on with its result.
Settled(s, pc) ==
  /\ s \in SessionsAt(pc) /\ session[s].result # "none"
  /\ polls' = [polls EXCEPT ![session[s].project] = Tail(@)]

Ended(s) == [session EXCEPT ![s] = [@ EXCEPT
               !.pc = "done", !.open = FALSE, !.woken = FALSE, !.result = "none",
               !.batch = {}, !.upTo = 0]]

MayUpgrade(s) == ~closed /\ session[s].open

\* #authorizeAndUpgrade after its read: the pending permit is promoted and the
\* session starts, or it is given back.
Authorized(s) ==
  LET p == session[s].project IN
  /\ Settled(s, "authorize")
  /\ ReleasePending
  /\ \/ /\ session[s].result \in {"failed", "busy"} \/ ~MayUpgrade(s) \/ UpgradeRefused(p)
        /\ session' = Ended(s) /\ UNCHANGED <<active, activeByProject>>
     \/ /\ session[s].result \in {"events", "snapshot-required"}
        /\ MayUpgrade(s) /\ ~UpgradeRefused(p)
        /\ Acquire(p)
        /\ session' = [session EXCEPT ![s] = [@ EXCEPT
             !.pc = "loop", !.result = "none", !.batch = {}, !.upTo = 0]]
     \/ \* the handshake fails: the connection's permit is given back
        /\ session[s].result \in {"events", "snapshot-required"}
        /\ session' = Ended(s) /\ UNCHANGED <<active, activeByProject>>
  /\ ResolveCloseIfDrained(closed)
  /\ UNCHANGED <<log, closed>>

-----------------------------------------------------------------------------
\* The end of #runSession: the permit is released.
End(s) ==
  /\ session' = Ended(s)
  /\ Release(session[s].project)
  /\ UNCHANGED pending
  /\ ResolveCloseIfDrained(closed)

MoveTo(s, pc) ==
  /\ session' = [session EXCEPT ![s] = [@ EXCEPT !.pc = pc, !.result = "none", !.batch = {}]]
  /\ UNCHANGED admission

\* The top of the loop.
Loop(s) ==
  /\ s \in SessionsAt("loop")
  /\ \/ (closed \/ ~session[s].open) /\ End(s) /\ UNCHANGED polls
     \/ /\ ~closed /\ session[s].open
        /\ session' = [session EXCEPT ![s] = [@ EXCEPT !.pc = "poll", !.woken = FALSE]]
        /\ Enqueue(s, session[s].project) /\ UNCHANGED admission
  /\ UNCHANGED <<log, closed>>

\* Mutant of AfterBatch: the session sleeps although it was woken.
AfterBatchSleep(s) == "wait"

AfterBatch(s) == IF session[s].woken THEN "loop" ELSE "wait"

\* The read of the loop has returned.
Polled(s) ==
  /\ Settled(s, "poll")
  /\ \/ session[s].result = "busy" /\ MoveTo(s, "delay")
     \/ /\ session[s].result \in {"failed", "snapshot-required"} /\ session[s].open
        /\ MoveTo(s, "closing")
     \/ session[s].result \in {"failed", "snapshot-required"} /\ ~session[s].open /\ End(s)
     \/ /\ session[s].result = "events" /\ session[s].batch = {}
        /\ session' = [session EXCEPT ![s] = [@ EXCEPT
             !.pc = AfterBatch(s), !.result = "none", !.cursor = session[s].upTo,
             !.upTo = 0]]
        /\ UNCHANGED admission
     \/ /\ session[s].result = "events" /\ session[s].batch # {}
        /\ session' = [session EXCEPT ![s] = [@ EXCEPT !.pc = "send", !.result = "none"]]
        /\ UNCHANGED admission
  /\ UNCHANGED <<log, closed>>

\* The cursor once event n of the batch is sent.
Advance(s, n) == IF session[s].batch = {n} THEN session[s].upTo ELSE n

\* #send of the next event of the batch; a slow or lost client ends the session.
Send(s) ==
  /\ s \in SessionsAt("send")
  /\ \/ /\ session[s].open
        /\ \E n \in session[s].batch :
           /\ \A m \in session[s].batch : n <= m
           /\ session' = [session EXCEPT ![s] = [@ EXCEPT
                !.received = Append(session[s].received, n), !.cursor = Advance(s, n),
                !.batch = session[s].batch \ {n},
                !.upTo = IF session[s].batch = {n} THEN 0 ELSE session[s].upTo,
                !.pc = IF session[s].batch = {n} THEN AfterBatch(s) ELSE "send"]]
        /\ UNCHANGED admission
     \/ End(s)
  /\ UNCHANGED <<log, polls, closed>>

\* The durable poll: a waiting session reads again after a heartbeat.
DurablePoll(s) ==
  /\ s \in SessionsAt("wait") /\ MoveTo(s, "loop")
  /\ UNCHANGED <<log, polls, closed>>

\* The retry after a busy read; an aborted delay throws.
DelayEnds(s) ==
  /\ s \in SessionsAt("delay")
  /\ \/ session[s].open /\ ~closed /\ MoveTo(s, "loop")
     \/ (closed \/ ~session[s].open) /\ End(s)
  /\ UNCHANGED <<log, polls, closed>>

\* closeSocket: the client closes or the socket is terminated.
SocketClosed(s) ==
  /\ s \in SessionsAt("closing") /\ End(s)
  /\ UNCHANGED <<log, polls, closed>>

\* The controller is aborted: a wait ends.
Interrupt(s) == [s EXCEPT !.open = FALSE, !.pc = IF @ = "wait" THEN "loop" ELSE @]

\* The client goes away, or misses its heartbeats.
SocketLost(s) ==
  /\ s \in DOMAIN session /\ session[s].open
  /\ session' = [session EXCEPT ![s] = Interrupt(session[s])]
  /\ UNCHANGED <<log, polls, admission, closed>>

\* Shutdown closes the admission, the routes and the wakeup in one turn.
Close ==
  /\ ~closed
  /\ closed' = TRUE
  /\ session' = [s \in DOMAIN session |-> Interrupt(session[s])]
  /\ UNCHANGED <<active, activeByProject, pending>>
  /\ ResolveCloseIfDrained(TRUE)
  /\ UNCHANGED <<log, polls>>

-----------------------------------------------------------------------------
\* A server that has just started, over logs of n events.
InitLog(n) ==
  /\ latest = [p \in Project |-> n] /\ noticed = [p \in Project |-> n]
  /\ retained = [p \in Project |-> 1 .. n] /\ unnotified = [p \in Project |-> 0]
  /\ polls = [p \in Project |-> <<>>]
  /\ active = 0 /\ activeByProject = [p \in Project |-> 0] /\ pending = 0
  /\ closed = FALSE /\ closeResolved = FALSE
  /\ session = <<>>
  /\ revokedAt = [s \in Session |-> -1]

EventsInit == InitLog(0)

\* What the server does for a session by itself.
Progress(s) ==
  \/ Authorized(s) \/ Loop(s) \/ Polled(s) \/ Send(s) \/ DelayEnds(s)
  \/ SocketClosed(s) \/ DurablePoll(s)

EventsNext ==
  \/ \E s \in Session :
       \/ \E p \in Project, after \in Sequence : Upgrade(s, p, after)
       \/ GetProjectEvents(s) \/ ReadFails(s) \/ Progress(s)
       \/ SocketLost(s) \/ RevokeMembership(s)
  \/ \E p \in Project : AppendProjectEvent(p) \/ Notify(p)
  \/ Close

EventsSpec == EventsInit /\ [][EventsNext]_eventsVars

\* Sessions run on, reads return, and capacity is not refused for ever.
EventsFairness ==
  \A s \in Session :
    /\ WF_eventsVars(Progress(s))
    /\ WF_eventsVars(GetProjectEvents(s) \/ ReadFails(s))
    /\ SF_eventsVars(GetProjectEvents(s))

-----------------------------------------------------------------------------
\* What a client has received is an unbroken run that ends at the cursor, across
\* reads, pruning, wakes and retries.
Unbroken ==
  \A s \in DOMAIN session :
    /\ \A i \in DOMAIN session[s].received : session[s].received[i] = session[s].start + i
    /\ s \in Running => session[s].cursor = session[s].start + Len(session[s].received)

\* No wake is lost: a session that sleeps has sent everything that was committed
\* when its Project was last notified, also when the notification came while it
\* was reading or sending.
NoLostWake ==
  \A s \in SessionsAt("wait") : session[s].cursor >= noticed[session[s].project]

\* A removed Member gets no event that was committed after the removal.
RevokedSeesNothing ==
  \A s \in DOMAIN session : revokedAt[s] # -1 =>
    \A i \in DOMAIN session[s].received : session[s].received[i] <= revokedAt[s]

\* A client gets every event after its cursor, in order and once, and none of those
\* committed after its Member was removed.
ReplayExact == TypeOK /\ Unbroken /\ RevokedSeesNothing

\* Shutdown ends: every session leaves and the admission's close resolves.
CloseResolves == closed ~> closeResolved

\* A committed event reaches every session that stays, with or without a
\* notification; or the session ends, or its client is told to take a snapshot.
\* Shutdown ends all of them.
EventsArrive ==
  /\ CloseResolves
  /\ \A s \in Session, n \in 1 .. MaxSequence :
      s \in Running /\ session[s].cursor < n /\ latest[session[s].project] >= n
        ~> s \notin Running \/ session[s].pc = "closing" \/ session[s].cursor >= n
=============================================================================

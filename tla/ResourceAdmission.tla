------------------------- MODULE ResourceAdmission -------------------------
(***************************************************************************)
(* The bounded queue of permits for Git child processes                    *)
(* (resource-admission/ResourceAdmission.ts).                              *)
(*                                                                         *)
(* The code runs on one event loop: a handler runs to its end.  The while  *)
(* loop of #drainQueue is one Drain action per iteration; while `draining` *)
(* holds no other handler runs.  Listeners of an aborted signal run one    *)
(* after the other inside abort(): between two of them other listeners of  *)
(* the same signal may acquire, release or close, but no timer fires.      *)
(***************************************************************************)
EXTENDS Integers, FiniteSets, Sequences, SequencesExt

CONSTANTS
  Call,                  \* calls of acquireGitChild
  Project,
  Signal,                \* abort signals; several calls may share one
  NoSignal,              \* the call passed no signal
  MaxChildren,
  MaxChildrenPerProject,
  MaxActive,             \* [Class -> Nat]: maxReadChildren, maxWriteChildren
  MaxQueued,             \* [Class -> Nat]: maxQueuedReads, maxQueuedWrites
  QueueMax,
  QueueMaxPerProject

Class == {"read", "write"}

\* normalizeOptions refuses any other options.
ASSUME OptionsAssumption ==
  /\ MaxChildren \in Nat /\ QueueMax \in Nat
  /\ MaxChildrenPerProject \in 1 .. MaxChildren - 1
  /\ MaxActive \in [Class -> 1 .. MaxChildren - 1]
  /\ MaxQueued \in [Class -> 1 .. QueueMax - 1]
  /\ QueueMaxPerProject \in 1 .. QueueMax - 1

ASSUME SignalAssumption == NoSignal \notin Signal

VARIABLES
  active,           \* #active
  activeByProject,  \* #activeByProject, the total of a Project's two counts
  queued,           \* #queued
  queuedByProject,  \* #queuedByProject
  queue,            \* #queue
  closed,           \* #closed
  closeResolved,    \* the promise of close() is resolved
  draining,         \* the current handler is in #drainQueue
  aborted,          \* signals that are aborted
  calls             \* for each call made: what it asked for, how it stands

admissionVars == <<active, activeByProject, queued, queuedByProject, queue, closed,
                   closeResolved, draining, aborted, calls>>

counters == <<active, activeByProject, queued, queuedByProject>>

Outcome == {"queued", "granted", "released", "busy", "cancelled", "closed"}

CallRecord == [status : Outcome, project : Project, class : Class,
               signal : Signal \cup {NoSignal}]

TypeOK ==
  /\ active \in [Class -> Nat] /\ activeByProject \in [Project -> Nat]
  /\ queued \in [Class -> Nat] /\ queuedByProject \in [Project -> Nat]
  /\ queue \in Seq(Call)
  /\ closed \in BOOLEAN /\ closeResolved \in BOOLEAN /\ draining \in BOOLEAN
  /\ aborted \subseteq Signal
  /\ DOMAIN calls \subseteq Call /\ calls \in [DOMAIN calls -> CallRecord]

With(status) == {c \in DOMAIN calls : calls[c].status = status}

Total == active["read"] + active["write"]

\* Mutant of IsAborted: the drain does not look at the waiter's signal.
NeverAborted(c) == FALSE

IsAborted(c) == calls[c].signal \in aborted

CanGrant(project, class) ==
  /\ Total < MaxChildren
  /\ active[class] < MaxActive[class]
  /\ activeByProject[project] < MaxChildrenPerProject

Grantable(c) == CanGrant(calls[c].project, calls[c].class)

QueueFull(project, class) ==
  \/ Len(queue) >= QueueMax
  \/ queued[class] >= MaxQueued[class]
  \/ queuedByProject[project] >= QueueMaxPerProject

-----------------------------------------------------------------------------
CreatePermit(project, class) ==
  /\ active' = [active EXCEPT ![class] = @ + 1]
  /\ activeByProject' = [activeByProject EXCEPT ![project] = @ + 1]

\* splice and #settleWaiter, for the waiter at place i
Dequeue(i) ==
  LET c == queue[i] IN
  /\ queue' = RemoveAt(queue, i)
  /\ queued' = [queued EXCEPT ![calls[c].class] = @ - 1]
  /\ queuedByProject' = [queuedByProject EXCEPT ![calls[c].project] = @ - 1]

Settle(c, status) == calls' = [calls EXCEPT ![c].status = status]

\* Mutant of StartDrain: freed capacity is not offered to the queue.
SkipDrain == draining' = FALSE

\* #drainQueue returns at once when the admission is closed.
StartDrain == draining' = ~closed

\* Mutant of ResolveClose: close() waits for ever.
ResolveNever(left) == UNCHANGED closeResolved

ResolveClose(left) == closeResolved' = (closeResolved \/ left = 0)

\* findIndex
FindIndex(S) == {i \in S : \A j \in S : i <= j}

AcquireGitChild(c, project, class, signal) ==
  LET ask(status) == calls' = [d \in DOMAIN calls \cup {c} |->
        IF d \in DOMAIN calls THEN calls[d]
        ELSE [status |-> status, project |-> project, class |-> class, signal |-> signal]]
  IN
  /\ ~draining /\ c \notin DOMAIN calls
  /\ \/ /\ closed
        /\ ask("closed") /\ UNCHANGED <<counters, queue, draining>>
     \/ /\ ~closed /\ signal \in aborted
        /\ ask("cancelled") /\ UNCHANGED <<counters, queue, draining>>
     \/ /\ ~closed /\ signal \notin aborted /\ CanGrant(project, class)
        /\ CreatePermit(project, class) /\ ask("granted")
        /\ UNCHANGED <<queued, queuedByProject, queue, draining>>
     \/ /\ ~closed /\ signal \notin aborted
        /\ ~CanGrant(project, class) /\ QueueFull(project, class)
        /\ ask("busy") /\ UNCHANGED <<counters, queue, draining>>
     \/ /\ ~closed /\ signal \notin aborted
        /\ ~CanGrant(project, class) /\ ~QueueFull(project, class)
        /\ ask("queued")
        /\ queue' = Append(queue, c)
        /\ queued' = [queued EXCEPT ![class] = @ + 1]
        /\ queuedByProject' = [queuedByProject EXCEPT ![project] = @ + 1]
        /\ StartDrain
        /\ UNCHANGED <<active, activeByProject>>
  /\ UNCHANGED <<closed, closeResolved, aborted>>

\* One iteration of #drainQueue: the first waiter that can be granted leaves the
\* queue and is granted, or rejected when its signal is aborted.
Drain ==
  LET grantable == {i \in DOMAIN queue : Grantable(queue[i])} IN
  /\ draining
  /\ \/ /\ grantable = {}
        /\ draining' = FALSE
        /\ UNCHANGED <<counters, queue, calls>>
     \/ \E i \in FindIndex(grantable) :
        LET c == queue[i] IN
        /\ Dequeue(i)
        /\ \/ IsAborted(c) /\ Settle(c, "cancelled") /\ UNCHANGED <<active, activeByProject>>
           \/ /\ ~IsAborted(c) /\ Settle(c, "granted")
              /\ CreatePermit(calls[c].project, calls[c].class)
        /\ UNCHANGED draining
  /\ UNCHANGED <<closed, closeResolved, aborted>>

\* release of a permit; a second release returns at once.
ReleasePermit(c) ==
  /\ ~draining /\ c \in With("granted")
  /\ Settle(c, "released")
  /\ active' = [active EXCEPT ![calls[c].class] = @ - 1]
  /\ activeByProject' = [activeByProject EXCEPT ![calls[c].project] = @ - 1]
  /\ StartDrain
  /\ IF closed THEN ResolveClose(Total - 1) ELSE UNCHANGED closeResolved
  /\ UNCHANGED <<queued, queuedByProject, queue, closed, aborted>>

RemoveAndReject(c, status) ==
  /\ ~draining /\ c \in With("queued")
  /\ \E i \in DOMAIN queue : queue[i] = c /\ Dequeue(i)
  /\ Settle(c, status) /\ StartDrain
  /\ UNCHANGED <<active, activeByProject, closed, closeResolved, aborted>>

AbortPending == \E c \in With("queued") : IsAborted(c)

Timeout(c) == ~AbortPending /\ RemoveAndReject(c, "busy")

\* The caller aborts a signal; its listeners follow.
Abort(s) ==
  /\ ~draining /\ ~AbortPending /\ s \notin aborted
  /\ aborted' = aborted \cup {s}
  /\ UNCHANGED <<counters, queue, closed, closeResolved, draining, calls>>

AbortListener(c) ==
  /\ RemoveAndReject(c, "cancelled")
  /\ IsAborted(c)

Close ==
  /\ ~draining /\ ~closed
  /\ closed' = TRUE
  /\ calls' = [c \in DOMAIN calls |-> IF calls[c].status = "queued"
                               THEN [calls[c] EXCEPT !.status = "closed"] ELSE calls[c]]
  /\ queue' = <<>>
  /\ queued' = [k \in Class |-> 0]
  /\ queuedByProject' = [p \in Project |-> 0]
  /\ ResolveClose(Total)
  /\ UNCHANGED <<active, activeByProject, draining, aborted>>

-----------------------------------------------------------------------------
AdmissionInit ==
  /\ active = [k \in Class |-> 0] /\ activeByProject = [p \in Project |-> 0]
  /\ queued = [k \in Class |-> 0] /\ queuedByProject = [p \in Project |-> 0]
  /\ queue = <<>>
  /\ closed = FALSE /\ closeResolved = FALSE /\ draining = FALSE
  /\ aborted = {}
  /\ calls = <<>>

AdmissionNext ==
  \/ \E c \in Call :
       \/ \E p \in Project, k \in Class, s \in Signal \cup {NoSignal} :
            AcquireGitChild(c, p, k, s)
       \/ ReleasePermit(c) \/ Timeout(c) \/ AbortListener(c)
  \/ Drain \/ Close
  \/ \E s \in Signal : Abort(s)

AdmissionSpec == AdmissionInit /\ [][AdmissionNext]_admissionVars

\* The event loop runs the handler it is in and the listeners of an aborted
\* signal, and every holder releases its permit (GitRepositoryAuthority
\* releases in a finally).  Timers are not needed.
AdmissionFairness ==
  /\ WF_admissionVars(Drain)
  /\ \A c \in Call : WF_admissionVars(AbortListener(c)) /\ WF_admissionVars(ReleasePermit(c))

-----------------------------------------------------------------------------
Held(project, class) ==
  {c \in With("granted") : calls[c].project \in project /\ calls[c].class \in class}

Waiting(project, class) ==
  {c \in With("queued") : calls[c].project \in project /\ calls[c].class \in class}

\* The four counters, which are kept by hand on every path in and out of the
\* queue, equal the calls that hold a permit and the calls that wait; the queue
\* holds each waiting call once.
CountersAgree ==
  /\ \A k \in Class : /\ active[k] = Cardinality(Held(Project, {k}))
                       /\ queued[k] = Cardinality(Waiting(Project, {k}))
  /\ \A p \in Project : /\ activeByProject[p] = Cardinality(Held({p}, Class))
                         /\ queuedByProject[p] = Cardinality(Waiting({p}, Class))
  /\ {queue[i] : i \in DOMAIN queue} = With("queued")
  /\ Len(queue) = Cardinality(With("queued"))

\* The configured limits hold of the permits and of the waiters themselves:
\* in all, per classification and per Project.
LimitsRespected ==
  /\ Cardinality(With("granted")) <= MaxChildren
  /\ Cardinality(With("queued")) <= QueueMax
  /\ \A k \in Class : /\ Cardinality(Held(Project, {k})) <= MaxActive[k]
                       /\ Cardinality(Waiting(Project, {k})) <= MaxQueued[k]
  /\ \A p \in Project :
       /\ Cardinality(Held({p}, Class)) <= MaxChildrenPerProject
       /\ Cardinality(Waiting({p}, Class)) <= QueueMaxPerProject

\* Permits and waiters are accounted for, and within the limits, on every path.
CountersExact == TypeOK /\ CountersAgree /\ LimitsRespected

\* Between handlers no call waits for a permit it could have: every path that
\* frees capacity drains the queue.
WorkConserving == ~draining => \A c \in With("queued") : ~Grantable(c)

\* The queue neither loses nor strands anybody: whatever aborts, releases and closes come
\* together, the counters that acquireGitChild decides by count the permits and the
\* waiters there are, and a waiter is left waiting only if it would not be granted.
QueueExact == CountersExact /\ WorkConserving

IsGranted(c) ==
  /\ c \in DOMAIN calls' /\ calls'[c].status = "granted"
  /\ c \notin With("granted")

SameLane(c, d) == calls'[c].project = calls[d].project /\ calls'[c].class = calls[d].class

\* d waited before c asked, or stands before c in the queue.
Before(d, c) ==
  \A i, j \in DOMAIN queue : queue[i] = d /\ queue[j] = c => i < j

\* A permit never overtakes: when a call is granted, at once or from the queue,
\* no earlier call for the same Project and classification is waiting, though
\* acquireGitChild asks only whether it can grant and not whether others wait. Nor
\* does it come too late: not after close(), and not to a caller that has aborted.
GrantsInOrder ==
  [][\A c \in Call : IsGranted(c) =>
       /\ \A d \in With("queued") \ {c} : SameLane(c, d) => ~Before(d, c)
       /\ ~closed /\ calls'[c].signal \notin aborted]_admissionVars

\* close() resolves once the holders have released.
CloseResolves == closed ~> closeResolved
=============================================================================

---------------------- MODULE AdmissionAndRestore_proof ----------------------
(***************************************************************************)
(* Theorems about two components that share no state: the queue of         *)
(* permits, for every set of calls, Projects and signals and every         *)
(* configuration that normalizeOptions admits; and the environment backup  *)
(* with the restores of it, for every source environment, every Project    *)
(* that retires meanwhile, and any number of processes that stop.          *)
(***************************************************************************)
EXTENDS ResourceAdmission, EnvironmentRestore, FiniteSetTheorems, SequenceTheorems, TLAPS

-----------------------------------------------------------------------------
(* Counting the calls that stand alike. *)

\* A record of finitely many calls.
Book(f) == f \in [DOMAIN f -> CallRecord] /\ IsFiniteSet(DOMAIN f)

\* The calls of f with a status, for some of the Projects and classifications.
Standing(f, status, projects, classes) ==
  {c \in DOMAIN f : /\ f[c].status = status
                    /\ f[c].project \in projects /\ f[c].class \in classes}

\* g is f but for the call c.
Differ(f, g, c) ==
  /\ Book(f) /\ Book(g)
  /\ c \in DOMAIN g /\ DOMAIN g = DOMAIN f \cup {c}
  /\ \A d \in DOMAIN f \ {c} : g[d] = f[d]

\* Two counters, one for each classification and one for each Project.
Counted(f, status, byClass, byProject) ==
  /\ byClass \in [Class -> Nat] /\ byProject \in [Project -> Nat]
  /\ \A k \in Class : byClass[k] = Cardinality(Standing(f, status, Project, {k}))
  /\ \A p \in Project : byProject[p] = Cardinality(Standing(f, status, {p}, Class))

\* Any selection of the calls is finite.
LEMMA StandingFinite ==
  ASSUME NEW f, Book(f), NEW s, NEW P, NEW K
  PROVE  /\ IsFiniteSet(Standing(f, s, P, K))
         /\ Cardinality(Standing(f, s, P, K)) \in Nat
<1>1. Standing(f, s, P, K) \in SUBSET DOMAIN f
  BY DEF Standing
<1> QED
  BY <1>1, FS_Subset, FS_CardinalityType DEF Book

\* A call that comes to stand so is counted once more.
LEMMA OneMore ==
  ASSUME NEW f, NEW g, NEW c, Differ(f, g, c), NEW s,
         c \in DOMAIN f => f[c].status # s, g[c].status = s, NEW P, NEW K
  PROVE  Cardinality(Standing(g, s, P, K)) =
           IF g[c].project \in P /\ g[c].class \in K
           THEN Cardinality(Standing(f, s, P, K)) + 1
           ELSE Cardinality(Standing(f, s, P, K))
<1>0. IsFiniteSet(Standing(f, s, P, K)) /\ c \notin Standing(f, s, P, K)
  <2>1. IsFiniteSet(Standing(f, s, P, K))
    BY StandingFinite DEF Differ
  <2> QED
    BY <2>1 DEF Standing
<1>1. CASE g[c].project \in P /\ g[c].class \in K
  <2>1. Standing(g, s, P, K) = Standing(f, s, P, K) \cup {c}
    BY <1>1 DEF Differ, Standing
  <2> QED
    BY <1>0, <1>1, <2>1, FS_AddElement
<1>2. CASE ~(g[c].project \in P /\ g[c].class \in K)
  <2>1. Standing(g, s, P, K) = Standing(f, s, P, K)
    BY <1>2 DEF Differ, Standing
  <2> QED
    BY <1>2, <2>1
<1> QED
  BY <1>1, <1>2

\* A call that stood so and no longer does is counted once less.
LEMMA OneLess ==
  ASSUME NEW f, NEW g, NEW c, Differ(f, g, c), NEW s,
         c \in DOMAIN f, f[c].status = s, g[c].status # s, NEW P, NEW K
  PROVE  Cardinality(Standing(g, s, P, K)) =
           IF f[c].project \in P /\ f[c].class \in K
           THEN Cardinality(Standing(f, s, P, K)) - 1
           ELSE Cardinality(Standing(f, s, P, K))
<1>0. IsFiniteSet(Standing(f, s, P, K))
  BY StandingFinite DEF Differ
<1>1. CASE f[c].project \in P /\ f[c].class \in K
  <2>1. Standing(g, s, P, K) = Standing(f, s, P, K) \ {c} /\ c \in Standing(f, s, P, K)
    BY <1>1 DEF Differ, Standing
  <2> QED
    BY <1>0, <1>1, <2>1, FS_RemoveElement
<1>2. CASE ~(f[c].project \in P /\ f[c].class \in K)
  <2>1. Standing(g, s, P, K) = Standing(f, s, P, K)
    BY <1>2 DEF Differ, Standing
  <2> QED
    BY <1>2, <2>1
<1> QED
  BY <1>1, <1>2

\* A call that stands so neither before nor after is not counted.
LEMMA NoneMore ==
  ASSUME NEW f, NEW g, NEW c, Differ(f, g, c), NEW s,
         c \in DOMAIN f => f[c].status # s, g[c].status # s, NEW P, NEW K
  PROVE  Standing(g, s, P, K) = Standing(f, s, P, K)
BY DEF Differ, Standing

\* The counters follow a call that comes to stand so.
LEMMA CountIn ==
  ASSUME NEW f, NEW g, NEW c, Differ(f, g, c), NEW s,
         c \in DOMAIN f => f[c].status # s, g[c].status = s,
         NEW a, NEW b, Counted(f, s, a, b)
  PROVE  Counted(g, s, [a EXCEPT ![g[c].class] = @ + 1], [b EXCEPT ![g[c].project] = @ + 1])
<1>0. g[c].class \in Class /\ g[c].project \in Project
  BY DEF Differ, Book, CallRecord
<1> DEFINE aa == [a EXCEPT ![g[c].class] = @ + 1]
           bb == [b EXCEPT ![g[c].project] = @ + 1]
<1>1. aa \in [Class -> Nat] /\ bb \in [Project -> Nat]
  BY <1>0 DEF Counted
<1>2. ASSUME NEW k \in Class PROVE aa[k] = Cardinality(Standing(g, s, Project, {k}))
  <2>1. Cardinality(Standing(g, s, Project, {k})) =
          IF g[c].project \in Project /\ g[c].class \in {k}
          THEN Cardinality(Standing(f, s, Project, {k})) + 1
          ELSE Cardinality(Standing(f, s, Project, {k}))
    BY OneMore
  <2> QED
    BY <1>0, <2>1 DEF Counted
<1>3. ASSUME NEW p \in Project PROVE bb[p] = Cardinality(Standing(g, s, {p}, Class))
  <2>1. Cardinality(Standing(g, s, {p}, Class)) =
          IF g[c].project \in {p} /\ g[c].class \in Class
          THEN Cardinality(Standing(f, s, {p}, Class)) + 1
          ELSE Cardinality(Standing(f, s, {p}, Class))
    BY OneMore
  <2> QED
    BY <1>0, <2>1 DEF Counted
<1> QED
  BY <1>1, <1>2, <1>3 DEF Counted

\* The counters follow a call that stood so and no longer does.
LEMMA CountOut ==
  ASSUME NEW f, NEW g, NEW c, Differ(f, g, c), NEW s,
         c \in DOMAIN f, f[c].status = s, g[c].status # s,
         NEW a, NEW b, Counted(f, s, a, b)
  PROVE  Counted(g, s, [a EXCEPT ![f[c].class] = @ - 1], [b EXCEPT ![f[c].project] = @ - 1])
<1>0. f[c].class \in Class /\ f[c].project \in Project /\ Book(g)
  BY DEF Differ, Book, CallRecord
<1> DEFINE aa == [a EXCEPT ![f[c].class] = @ - 1]
           bb == [b EXCEPT ![f[c].project] = @ - 1]
<1>2. ASSUME NEW k \in Class
      PROVE  aa[k] = Cardinality(Standing(g, s, Project, {k})) /\ aa[k] \in Nat
  <2>1. Cardinality(Standing(g, s, Project, {k})) =
          IF f[c].project \in Project /\ f[c].class \in {k}
          THEN Cardinality(Standing(f, s, Project, {k})) - 1
          ELSE Cardinality(Standing(f, s, Project, {k}))
    BY OneLess
  <2>2. Cardinality(Standing(g, s, Project, {k})) \in Nat
    BY <1>0, StandingFinite
  <2> QED
    BY <1>0, <2>1, <2>2 DEF Counted
<1>3. ASSUME NEW p \in Project
      PROVE  bb[p] = Cardinality(Standing(g, s, {p}, Class)) /\ bb[p] \in Nat
  <2>1. Cardinality(Standing(g, s, {p}, Class)) =
          IF f[c].project \in {p} /\ f[c].class \in Class
          THEN Cardinality(Standing(f, s, {p}, Class)) - 1
          ELSE Cardinality(Standing(f, s, {p}, Class))
    BY OneLess
  <2>2. Cardinality(Standing(g, s, {p}, Class)) \in Nat
    BY <1>0, StandingFinite
  <2> QED
    BY <1>0, <2>1, <2>2 DEF Counted
<1>4. aa \in [Class -> Nat] /\ bb \in [Project -> Nat]
  <2>1. DOMAIN aa = Class /\ DOMAIN bb = Project /\ aa = [k \in Class |-> aa[k]]
        /\ bb = [p \in Project |-> bb[p]]
    BY DEF Counted
  <2> QED
    BY <1>2, <1>3, <2>1
<1> QED
  BY <1>2, <1>3, <1>4 DEF Counted

\* The counters stay when no call comes or goes.
LEMMA CountStays ==
  ASSUME NEW f, NEW g, NEW c, Differ(f, g, c), NEW s,
         c \in DOMAIN f => f[c].status # s, g[c].status # s,
         NEW a, NEW b, Counted(f, s, a, b)
  PROVE  Counted(g, s, a, b)
<1>1. \A P, K : Standing(g, s, P, K) = Standing(f, s, P, K)
  BY NoneMore
<1> QED
  BY <1>1 DEF Counted

-----------------------------------------------------------------------------
(* The queue. *)

\* q holds each waiting call of f once.
Lined(q, f) ==
  /\ q \in Seq(Call)
  /\ \A i \in DOMAIN q : q[i] \in DOMAIN f /\ f[q[i]].status = "queued"
  /\ \A i, j \in DOMAIN q : q[i] = q[j] => i = j
  /\ \A c \in DOMAIN f : f[c].status = "queued" => \E i \in DOMAIN q : q[i] = c
  /\ Len(q) = Cardinality(Standing(f, "queued", Project, Class))

\* What RemoveAt leaves: the places before i, and those after it, moved up.
LEMMA RemoveAtLeaves ==
  ASSUME NEW S, NEW q \in Seq(S), NEW i \in DOMAIN q
  PROVE  /\ RemoveAt(q, i) \in Seq(S)
         /\ Len(RemoveAt(q, i)) = Len(q) - 1
         /\ DOMAIN RemoveAt(q, i) = 1 .. Len(q) - 1
         /\ \A j \in 1 .. Len(q) - 1 : RemoveAt(q, i)[j] = IF j < i THEN q[j] ELSE q[j + 1]
<1> DEFINE l == SubSeq(q, 1, i - 1)
           r == SubSeq(q, i + 1, Len(q))
<1>0. Len(q) \in Nat /\ i \in 1 .. Len(q) /\ \A j \in 1 .. Len(q) : q[j] \in S
  BY LenProperties, ElementOfSeq
<1>1. l \in Seq(S) /\ Len(l) = i - 1 /\ \A j \in 1 .. i - 1 : l[j] = q[j]
  <2>1. 1 \in Int /\ i - 1 \in Int /\ \A j \in 1 .. i - 1 : q[j] \in S
    BY <1>0
  <2>2. /\ l \in Seq(S) /\ Len(l) = (IF 1 <= i - 1 THEN (i - 1) - 1 + 1 ELSE 0)
        /\ \A j \in 1 .. (i - 1) - 1 + 1 : l[j] = q[1 + j - 1]
    BY <2>1, SubSeqProperties
  <2> HIDE DEF l
  <2> QED
    BY <1>0, <2>2
<1>2. r \in Seq(S) /\ Len(r) = Len(q) - i /\ \A j \in 1 .. Len(q) - i : r[j] = q[i + j]
  <2>1. i + 1 \in Int /\ Len(q) \in Int /\ \A j \in i + 1 .. Len(q) : q[j] \in S
    BY <1>0
  <2>2. /\ r \in Seq(S) /\ Len(r) = (IF i + 1 <= Len(q) THEN Len(q) - (i + 1) + 1 ELSE 0)
        /\ \A j \in 1 .. Len(q) - (i + 1) + 1 : r[j] = q[(i + 1) + j - 1]
    BY <2>1, SubSeqProperties
  <2> HIDE DEF r
  <2> QED
    BY <1>0, <2>2
<1> HIDE DEF l, r
<1>3. /\ l \o r \in Seq(S) /\ Len(l \o r) = Len(l) + Len(r)
      /\ \A j \in 1 .. Len(l) + Len(r) : (l \o r)[j] = IF j <= Len(l) THEN l[j] ELSE r[j - Len(l)]
  BY <1>1, <1>2, ConcatProperties
<1>4. RemoveAt(q, i) = l \o r
  BY DEF RemoveAt, l, r
<1>5. Len(l \o r) = Len(q) - 1
  BY <1>0, <1>1, <1>2, <1>3
<1>6. DOMAIN (l \o r) = 1 .. Len(q) - 1
  BY <1>3, <1>5, LenProperties
<1>7. ASSUME NEW j \in 1 .. Len(q) - 1
      PROVE  (l \o r)[j] = IF j < i THEN q[j] ELSE q[j + 1]
  <2>0. Len(l) = i - 1 /\ j \in 1 .. Len(l) + Len(r)
    BY <1>0, <1>1, <1>2
  <2>1. (l \o r)[j] = IF j <= i - 1 THEN l[j] ELSE r[j - (i - 1)]
    BY <1>3, <2>0
  <2>2. CASE j < i
    BY <1>0, <1>1, <2>1, <2>2
  <2>3. CASE ~(j < i)
    <3>1. j - (i - 1) \in 1 .. Len(q) - i /\ i + (j - (i - 1)) = j + 1
      BY <1>0, <2>3
    <3> QED
      BY <1>0, <1>2, <2>1, <2>3, <3>1
  <2> QED
    BY <2>2, <2>3
<1> QED
  BY <1>3, <1>4, <1>5, <1>6, <1>7

\* A call that starts to wait is appended.
LEMMA LineUp ==
  ASSUME NEW f, NEW g, NEW c \in Call, Differ(f, g, c), c \notin DOMAIN f,
         g[c].status = "queued", NEW q, Lined(q, f)
  PROVE  Lined(Append(q, c), g)
<1> DEFINE r == Append(q, c)
<1>0. /\ q \in Seq(Call) /\ Len(q) \in Nat /\ DOMAIN q = 1 .. Len(q)
      /\ \A i \in 1 .. Len(q) : q[i] \in DOMAIN f /\ q[i] # c
  BY LenProperties DEF Lined
<1>1. /\ r \in Seq(Call) /\ Len(r) = Len(q) + 1 /\ DOMAIN r = 1 .. Len(q) + 1
      /\ \A i \in 1 .. Len(q) : r[i] = q[i]
      /\ r[Len(q) + 1] = c
  BY <1>0, AppendProperties, LenProperties
<1> HIDE DEF r
<1>2. \A i \in DOMAIN r : r[i] \in DOMAIN g /\ g[r[i]].status = "queued"
  BY <1>0, <1>1 DEF Lined, Differ
<1>3. \A i, j \in DOMAIN r : r[i] = r[j] => i = j
  BY <1>0, <1>1 DEF Lined
<1>4. ASSUME NEW d \in DOMAIN g, g[d].status = "queued" PROVE \E i \in DOMAIN r : r[i] = d
  <2>1. CASE d = c
    BY <1>0, <1>1, <2>1
  <2>2. CASE d # c
    <3>1. PICK i \in DOMAIN q : q[i] = d
      BY <1>4, <2>2 DEF Lined, Differ
    <3> QED
      BY <1>0, <1>1, <3>1
  <2> QED
    BY <2>1, <2>2
<1>5. Len(r) = Cardinality(Standing(g, "queued", Project, Class))
  <2>1. g[c].project \in Project /\ g[c].class \in Class
    BY DEF Differ, Book, CallRecord
  <2>2. Cardinality(Standing(g, "queued", Project, Class)) =
          Cardinality(Standing(f, "queued", Project, Class)) + 1
    BY <2>1, OneMore
  <2> QED
    BY <1>1, <2>2 DEF Lined
<1> QED
  BY <1>1, <1>2, <1>3, <1>4, <1>5 DEF Lined, r

\* The call at place i stops waiting.
LEMMA StepOut ==
  ASSUME NEW f, NEW g, NEW q, Lined(q, f), NEW i \in DOMAIN q, Differ(f, g, q[i]),
         g[q[i]].status # "queued"
  PROVE  Lined(RemoveAt(q, i), g)
<1> DEFINE r == RemoveAt(q, i)
           c == q[i]
<1>0. /\ q \in Seq(Call) /\ Len(q) \in Nat /\ i \in 1 .. Len(q) /\ DOMAIN q = 1 .. Len(q)
      /\ c \in DOMAIN f /\ f[c].status = "queued"
  BY LenProperties DEF Lined
<1>1. /\ r \in Seq(Call) /\ Len(r) = Len(q) - 1 /\ DOMAIN r = 1 .. Len(q) - 1
      /\ \A j \in 1 .. Len(q) - 1 : r[j] = IF j < i THEN q[j] ELSE q[j + 1]
  BY <1>0, RemoveAtLeaves
<1> HIDE DEF r
<1>2. ASSUME NEW j \in DOMAIN r
      PROVE  r[j] # c /\ r[j] \in DOMAIN f /\ f[r[j]].status = "queued"
  <2>1. PICK k \in DOMAIN q : r[j] = q[k] /\ k # i
    <3>1. CASE j < i
      BY <1>0, <1>1, <1>2, <3>1
    <3>2. CASE ~(j < i)
      <4>1. j + 1 \in DOMAIN q /\ j + 1 # i
        BY <1>0, <1>1, <1>2, <3>2
      <4> QED
        BY <1>1, <1>2, <3>2, <4>1
    <3> QED
      BY <3>1, <3>2
  <2> QED
    BY <2>1 DEF Lined
<1>3. \A j \in DOMAIN r : r[j] \in DOMAIN g /\ g[r[j]].status = "queued"
  BY <1>2 DEF Differ
<1>4. ASSUME NEW j \in DOMAIN r, NEW k \in DOMAIN r, r[j] = r[k] PROVE j = k
  <2> DEFINE at(n) == IF n < i THEN n ELSE n + 1
  <2>1. at(j) \in DOMAIN q /\ at(k) \in DOMAIN q /\ r[j] = q[at(j)] /\ r[k] = q[at(k)]
    BY <1>0, <1>1, <1>4
  <2>2. at(j) = at(k)
    <3> HIDE DEF at
    <3> QED
      BY <1>4, <2>1 DEF Lined
  <2> QED
    BY <1>0, <1>1, <2>2
<1>5. ASSUME NEW d \in DOMAIN g, g[d].status = "queued" PROVE \E j \in DOMAIN r : r[j] = d
  <2>1. d # c /\ d \in DOMAIN f /\ f[d].status = "queued"
    BY <1>0, <1>5 DEF Differ
  <2>2. PICK k \in DOMAIN q : q[k] = d
    BY <2>1 DEF Lined
  <2>3. CASE k < i
    BY <1>0, <1>1, <2>2, <2>3
  <2>4. CASE ~(k < i)
    <3>1. k # i /\ k - 1 \in DOMAIN r /\ ~(k - 1 < i) /\ (k - 1) + 1 = k
      BY <1>0, <1>1, <2>1, <2>2, <2>4
    <3> QED
      BY <1>1, <2>2, <3>1
  <2> QED
    BY <2>3, <2>4
<1>6. Len(r) = Cardinality(Standing(g, "queued", Project, Class))
  <2>1. f[c].project \in Project /\ f[c].class \in Class
    BY <1>0 DEF Differ, Book, CallRecord
  <2>2. Cardinality(Standing(g, "queued", Project, Class)) =
          IF f[c].project \in Project /\ f[c].class \in Class
          THEN Cardinality(Standing(f, "queued", Project, Class)) - 1
          ELSE Cardinality(Standing(f, "queued", Project, Class))
    <3>1. c \in DOMAIN f /\ f[c].status = "queued" /\ Differ(f, g, c) /\ g[c].status # "queued"
      BY <1>0
    <3> HIDE DEF c
    <3> QED
      BY <3>1, OneLess
  <2> QED
    BY <1>1, <2>1, <2>2 DEF Lined
<1> QED
  BY <1>1, <1>3, <1>4, <1>5, <1>6 DEF Lined, r

\* The queue stays when no call starts or stops waiting.
LEMMA LineStays ==
  ASSUME NEW f, NEW g, NEW c, Differ(f, g, c), c \in DOMAIN f => f[c].status # "queued",
         g[c].status # "queued", NEW q, Lined(q, f)
  PROVE  Lined(q, g)
<1>1. Standing(g, "queued", Project, Class) = Standing(f, "queued", Project, Class)
  BY NoneMore
<1>2. \A i \in DOMAIN q : q[i] \in DOMAIN f /\ q[i] # c
  BY DEF Lined
<1>3. \A d \in DOMAIN g : g[d].status = "queued" => d \in DOMAIN f /\ f[d].status = "queued"
  BY DEF Differ
<1> QED
  BY <1>1, <1>2, <1>3 DEF Lined, Differ

-----------------------------------------------------------------------------
(* The inductive invariant. *)

\* The counters and the queue say how the calls stand.
Accounts ==
  /\ Book(calls) /\ DOMAIN calls \subseteq Call
  /\ Counted(calls, "granted", active, activeByProject)
  /\ Counted(calls, "queued", queued, queuedByProject)
  /\ Lined(queue, calls)

\* The configured limits hold of the counters.
Limits ==
  /\ Total <= MaxChildren /\ Len(queue) <= QueueMax
  /\ \A k \in Class : active[k] <= MaxActive[k] /\ queued[k] <= MaxQueued[k]
  /\ \A p \in Project : /\ activeByProject[p] <= MaxChildrenPerProject
                        /\ queuedByProject[p] <= QueueMaxPerProject

\* The types that do not follow from the accounts.
Flags ==
  /\ closed \in BOOLEAN /\ closeResolved \in BOOLEAN /\ draining \in BOOLEAN
  /\ aborted \subseteq Signal

\* With what close() leaves: nobody waits and nothing is drained.
AdmissionInv ==
  /\ Flags /\ Accounts /\ Limits
  /\ closed => queue = <<>>
  /\ draining => ~closed
  /\ WorkConserving

\* Types follow from the accounts and the flags.
LEMMA AccountsType == Accounts /\ Flags => TypeOK
BY DEF Accounts, Flags, TypeOK, Counted, Lined, Book

\* The waiting calls are those in the queue.
LEMMA WaitersQueue ==
  ASSUME Accounts
  PROVE  /\ \A i \in DOMAIN queue : queue[i] \in With("queued")
         /\ \A c \in With("queued") : \E i \in DOMAIN queue : queue[i] = c
         /\ queue = <<>> => With("queued") = {}
<1>1. /\ \A i \in DOMAIN queue : queue[i] \in With("queued")
      /\ \A c \in With("queued") : \E i \in DOMAIN queue : queue[i] = c
  BY DEF Accounts, Lined, With
<1>2. queue = <<>> => DOMAIN queue = {}
  OBVIOUS
<1> QED
  BY <1>1, <1>2

\* How a new call is entered.
LEMMA Asks ==
  ASSUME Book(calls), NEW c \in Call, NEW p \in Project, NEW k \in Class,
         NEW s \in Signal \cup {NoSignal}, c \notin DOMAIN calls, NEW status \in Outcome,
         calls' = [d \in DOMAIN calls \cup {c} |->
                    IF d \in DOMAIN calls THEN calls[d]
                    ELSE [status |-> status, project |-> p, class |-> k, signal |-> s]]
  PROVE  /\ Differ(calls, calls', c) /\ DOMAIN calls' = DOMAIN calls \cup {c}
         /\ calls'[c].status = status /\ calls'[c].project = p /\ calls'[c].class = k
         /\ calls'[c].signal = s
         /\ \A d \in DOMAIN calls : calls'[d] = calls[d]
<1> DEFINE r == [status |-> status, project |-> p, class |-> k, signal |-> s]
<1>0. r \in CallRecord
  BY DEF CallRecord
<1>1. /\ DOMAIN calls' = DOMAIN calls \cup {c} /\ calls'[c] = r
      /\ \A d \in DOMAIN calls : calls'[d] = calls[d]
  OBVIOUS
<1>2. calls' = [d \in DOMAIN calls' |-> calls'[d]]
  OBVIOUS
<1>3. IsFiniteSet(DOMAIN calls')
  BY <1>1, FS_AddElement DEF Book
<1>4. \A d \in DOMAIN calls' : calls'[d] \in CallRecord
  BY <1>0, <1>1 DEF Book
<1> HIDE DEF r
<1>5. Book(calls')
  BY <1>2, <1>3, <1>4 DEF Book
<1> QED
  BY <1>1, <1>5 DEF Differ, r

\* How a call is settled.
LEMMA Settles ==
  ASSUME Book(calls), NEW c \in DOMAIN calls, NEW status \in Outcome, Settle(c, status)
  PROVE  /\ Differ(calls, calls', c) /\ DOMAIN calls' = DOMAIN calls
         /\ calls'[c].status = status /\ calls'[c].project = calls[c].project
         /\ calls'[c].class = calls[c].class /\ calls'[c].signal = calls[c].signal
<1>1. calls[c] \in CallRecord
  BY DEF Book
<1>2. [calls[c] EXCEPT !.status = status] \in CallRecord
  BY <1>1 DEF CallRecord
<1>3. calls' = [calls EXCEPT ![c] = [calls[c] EXCEPT !.status = status]]
  BY DEF Settle
<1>4. /\ DOMAIN calls' = DOMAIN calls /\ calls'[c] = [calls[c] EXCEPT !.status = status]
      /\ \A d \in DOMAIN calls \ {c} : calls'[d] = calls[d]
      /\ calls' \in [DOMAIN calls -> CallRecord]
  BY <1>2, <1>3 DEF Book
<1>5. Book(calls')
  BY <1>4 DEF Book
<1> QED
  BY <1>1, <1>4, <1>5 DEF Differ, CallRecord

\* Creating a permit within the limits keeps them, and makes nobody grantable.
LEMMA PermitLimits ==
  ASSUME Accounts, Limits, NEW p \in Project, NEW k \in Class, CanGrant(p, k),
         CreatePermit(p, k)
  PROVE  /\ Total' <= MaxChildren
         /\ \A l \in Class : active'[l] <= MaxActive[l]
         /\ \A r \in Project : activeByProject'[r] <= MaxChildrenPerProject
         /\ \A r \in Project, l \in Class : CanGrant(r, l)' => CanGrant(r, l)
<1>1. /\ active \in [Class -> Nat] /\ activeByProject \in [Project -> Nat]
  BY DEF Accounts, Counted
<1>2. /\ MaxChildren \in Nat /\ MaxChildrenPerProject \in Nat
      /\ \A l \in Class : MaxActive[l] \in Nat
  BY OptionsAssumption
<1>3. /\ active'[k] = active[k] + 1 /\ \A l \in Class \ {k} : active'[l] = active[l]
      /\ activeByProject'[p] = activeByProject[p] + 1
      /\ \A r \in Project \ {p} : activeByProject'[r] = activeByProject[r]
  BY <1>1 DEF CreatePermit
<1>4. Total \in Nat /\ Total' = Total + 1
  BY <1>1, <1>3 DEF Total, Class
<1>5. Total' <= MaxChildren
  BY <1>2, <1>4 DEF CanGrant
<1>6. \A l \in Class : active'[l] <= MaxActive[l]
  BY <1>1, <1>2, <1>3 DEF CanGrant, Limits
<1>7. \A r \in Project : activeByProject'[r] <= MaxChildrenPerProject
  BY <1>1, <1>2, <1>3 DEF CanGrant, Limits
<1>8. ASSUME NEW r \in Project, NEW l \in Class, CanGrant(r, l)' PROVE CanGrant(r, l)
  BY <1>1, <1>2, <1>3, <1>4, <1>8 DEF CanGrant
<1> QED
  BY <1>5, <1>6, <1>7, <1>8

\* Closing a permit keeps the limits.
LEMMA ReleaseLimits ==
  ASSUME Accounts, Limits, NEW p \in Project, NEW k \in Class,
         active' = [active EXCEPT ![k] = @ - 1],
         activeByProject' = [activeByProject EXCEPT ![p] = @ - 1]
  PROVE  /\ Total' <= MaxChildren
         /\ \A l \in Class : active'[l] <= MaxActive[l]
         /\ \A r \in Project : activeByProject'[r] <= MaxChildrenPerProject
<1>1. /\ active \in [Class -> Nat] /\ activeByProject \in [Project -> Nat]
  BY DEF Accounts, Counted
<1>2. /\ MaxChildren \in Nat /\ MaxChildrenPerProject \in Nat
      /\ \A l \in Class : MaxActive[l] \in Nat
  BY OptionsAssumption
<1>3. /\ active'[k] = active[k] - 1 /\ \A l \in Class \ {k} : active'[l] = active[l]
      /\ activeByProject'[p] = activeByProject[p] - 1
      /\ \A r \in Project \ {p} : activeByProject'[r] = activeByProject[r]
  BY <1>1
<1>4. Total \in Nat /\ Total' = Total - 1
  BY <1>1, <1>3 DEF Total, Class
<1> QED
  BY <1>1, <1>2, <1>3, <1>4 DEF Limits

\* A waiter that leaves the queue leaves it, the counters and the limits right, whatever it
\* becomes.
LEMMA DequeueAccounts ==
  ASSUME Accounts, Limits, NEW i \in DOMAIN queue, Dequeue(i),
         NEW status \in Outcome \ {"queued"}, Settle(queue[i], status)
  PROVE  /\ Differ(calls, calls', queue[i]) /\ calls'[queue[i]].status = status
         /\ calls'[queue[i]].project = calls[queue[i]].project
         /\ calls'[queue[i]].class = calls[queue[i]].class
         /\ calls'[queue[i]].signal = calls[queue[i]].signal
         /\ DOMAIN calls' = DOMAIN calls /\ queue[i] \in DOMAIN calls
         /\ calls[queue[i]].status = "queued"
         /\ Lined(queue', calls')
         /\ Counted(calls', "queued", queued', queuedByProject')
         /\ Len(queue') <= QueueMax
         /\ \A k \in Class : queued'[k] <= MaxQueued[k]
         /\ \A p \in Project : queuedByProject'[p] <= QueueMaxPerProject
<1> DEFINE c == queue[i]
<1>1. c \in DOMAIN calls /\ calls[c].status = "queued" /\ Book(calls) /\ Lined(queue, calls)
  BY DEF Accounts, Lined
<1>2. /\ Differ(calls, calls', c) /\ DOMAIN calls' = DOMAIN calls
      /\ calls'[c].status = status /\ calls'[c].project = calls[c].project
      /\ calls'[c].class = calls[c].class /\ calls'[c].signal = calls[c].signal
  BY <1>1, Settles
<1>3. /\ queue' = RemoveAt(queue, i)
      /\ queued' = [queued EXCEPT ![calls[c].class] = @ - 1]
      /\ queuedByProject' = [queuedByProject EXCEPT ![calls[c].project] = @ - 1]
  BY DEF Dequeue
<1>4. Lined(queue', calls')
  BY <1>1, <1>2, <1>3, StepOut
<1>5. Counted(calls', "queued", queued', queuedByProject')
  <2> HIDE DEF c
  <2> QED
    BY <1>1, <1>2, <1>3, CountOut DEF Accounts
<1>6. Len(queue') = Len(queue) - 1 /\ Len(queue) \in Nat
  BY <1>1, <1>3, RemoveAtLeaves, LenProperties DEF Lined
<1>7. /\ queued \in [Class -> Nat] /\ queuedByProject \in [Project -> Nat]
      /\ calls[c].class \in Class /\ calls[c].project \in Project
  BY <1>1 DEF Accounts, Counted, Book, CallRecord
<1>8. /\ QueueMax \in Nat /\ QueueMaxPerProject \in Nat /\ \A k \in Class : MaxQueued[k] \in Nat
  BY OptionsAssumption
<1>9. /\ Len(queue') <= QueueMax
      /\ \A k \in Class : queued'[k] <= MaxQueued[k]
      /\ \A p \in Project : queuedByProject'[p] <= QueueMaxPerProject
  <2> HIDE DEF c
  <2> QED
    BY <1>3, <1>6, <1>7, <1>8 DEF Limits
<1> QED
  BY <1>1, <1>2, <1>4, <1>5, <1>9

-----------------------------------------------------------------------------
(* Every action keeps AdmissionInv. *)

\* Between handlers no waiter of the queue can be granted; a step after which none more can
\* be granted, and nobody more waits, keeps it so.
LEMMA StillConserving ==
  ASSUME WorkConserving, ~draining, Accounts,
         \A r \in Project, l \in Class : CanGrant(r, l)' => CanGrant(r, l),
         \A d \in With("queued")' : /\ d \in With("queued")
                                    /\ calls'[d].project = calls[d].project
                                    /\ calls'[d].class = calls[d].class
  PROVE  WorkConserving'
<1> SUFFICES ASSUME NEW d \in With("queued")', Grantable(d)'
             PROVE  FALSE
  BY DEF WorkConserving
<1>1. /\ d \in With("queued") /\ calls'[d].project = calls[d].project
      /\ calls'[d].class = calls[d].class
  OBVIOUS
<1>2. calls[d].project \in Project /\ calls[d].class \in Class
  BY <1>1 DEF Accounts, Book, With, CallRecord
<1>3. CanGrant(calls[d].project, calls[d].class)'
  BY <1>1 DEF Grantable
<1>4. CanGrant(calls[d].project, calls[d].class)
  <2> DEFINE p == calls'[d].project
             k == calls'[d].class
  <2>1. p \in Project /\ k \in Class /\ p = calls[d].project /\ k = calls[d].class
    BY <1>1, <1>2
  <2>2. (Total < MaxChildren)' /\ active'[k] < MaxActive[k]
        /\ activeByProject'[p] < MaxChildrenPerProject
    BY DEF Grantable, CanGrant
  <2> HIDE DEF p, k
  <2>3. CanGrant(p, k)
    BY <2>1, <2>2 DEF CanGrant
  <2> QED
    BY <2>1, <2>3
<1> QED
  BY <1>1, <1>4 DEF WorkConserving, Grantable

\* A new call is refused, granted at once, or queued within the limits.
LEMMA AcquireKeeps ==
  ASSUME AdmissionInv, NEW c \in Call, NEW p \in Project, NEW k \in Class,
         NEW s \in Signal \cup {NoSignal}, AcquireGitChild(c, p, k, s)
  PROVE  AdmissionInv'
<1> DEFINE Ask(status) == calls' = [d \in DOMAIN calls \cup {c} |->
             IF d \in DOMAIN calls THEN calls[d]
             ELSE [status |-> status, project |-> p, class |-> k, signal |-> s]]
           Asked(status) ==
             /\ Differ(calls, calls', c) /\ DOMAIN calls' = DOMAIN calls \cup {c}
             /\ calls'[c].status = status /\ calls'[c].project = p /\ calls'[c].class = k
             /\ \A d \in DOMAIN calls : calls'[d] = calls[d]
<1>0. /\ Book(calls) /\ Accounts /\ Limits /\ TypeOK /\ WorkConserving
      /\ ~draining /\ c \notin DOMAIN calls /\ DOMAIN calls \subseteq Call
      /\ UNCHANGED <<closed, closeResolved, aborted>>
  BY AccountsType DEF AdmissionInv, Accounts, AcquireGitChild
<1>a. ASSUME NEW status \in Outcome, Ask(status) PROVE Asked(status) /\ Book(calls')
  BY <1>0, <1>a, Asks DEF Differ
<1>b. draining' \in BOOLEAN => Flags'
  BY <1>0 DEF Flags, TypeOK
<1>d. draining \in BOOLEAN
  BY <1>0 DEF TypeOK
<1>c. ASSUME NEW status \in Outcome \ {"queued"}, Asked(status)
      PROVE  \A d \in With("queued")' : /\ d \in With("queued")
                                        /\ calls'[d].project = calls[d].project
                                        /\ calls'[d].class = calls[d].class
  BY <1>c DEF With
<1>1. CASE \E status \in {"closed", "cancelled", "busy"} :
             Ask(status) /\ UNCHANGED <<counters, queue, draining>>
  <2>1. PICK status \in {"closed", "cancelled", "busy"} :
               Ask(status) /\ UNCHANGED <<counters, queue, draining>>
    BY <1>1
  <2>2. Asked(status) /\ Book(calls') /\ status \in Outcome \ {"queued", "granted"}
    BY <1>a, <2>1 DEF Outcome
  <2>3. UNCHANGED <<active, activeByProject, queued, queuedByProject, queue, draining>>
    BY <2>1 DEF counters
  <2>w. \A d \in With("queued")' : /\ d \in With("queued")
                                   /\ calls'[d].project = calls[d].project
                                   /\ calls'[d].class = calls[d].class
    BY <1>c, <2>2
  <2> HIDE DEF Ask
  <2>4. /\ Counted(calls', "granted", active, activeByProject)
        /\ Counted(calls', "queued", queued, queuedByProject)
        /\ Lined(queue, calls')
    BY <1>0, <2>2, CountStays, LineStays DEF Accounts
  <2>5. Accounts' /\ Flags'
    BY <1>0, <1>b, <1>d, <2>2, <2>3, <2>4 DEF Accounts
  <2>6. Limits'
    BY <1>0, <2>3 DEF Limits, Total
  <2>7. WorkConserving'
    BY <1>0, <2>w, <2>3, StillConserving DEF CanGrant, Total
  <2> QED
    BY <1>0, <2>3, <2>5, <2>6, <2>7 DEF AdmissionInv
<1>2. CASE /\ ~closed /\ CanGrant(p, k) /\ CreatePermit(p, k) /\ Ask("granted")
           /\ UNCHANGED <<queued, queuedByProject, queue, draining>>
  <2>1. Asked("granted") /\ Book(calls') /\ "granted" \in Outcome \ {"queued"}
    BY <1>a, <1>2 DEF Outcome
  <2>2. /\ active' = [active EXCEPT ![k] = @ + 1]
        /\ activeByProject' = [activeByProject EXCEPT ![p] = @ + 1]
    BY <1>2 DEF CreatePermit
  <2>w. \A d \in With("queued")' : /\ d \in With("queued")
                                   /\ calls'[d].project = calls[d].project
                                   /\ calls'[d].class = calls[d].class
    BY <1>c, <2>1
  <2> HIDE DEF Ask
  <2>3. Counted(calls', "granted", active', activeByProject')
    BY <1>0, <2>1, <2>2, CountIn DEF Accounts
  <2>4. /\ Counted(calls', "queued", queued, queuedByProject)
        /\ Lined(queue, calls')
    BY <1>0, <2>1, CountStays, LineStays DEF Accounts
  <2>5. Accounts' /\ Flags'
    BY <1>0, <1>2, <1>b, <1>d, <2>1, <2>3, <2>4 DEF Accounts
  <2>6. /\ Total' <= MaxChildren
        /\ \A l \in Class : active'[l] <= MaxActive[l]
        /\ \A r \in Project : activeByProject'[r] <= MaxChildrenPerProject
        /\ \A r \in Project, l \in Class : CanGrant(r, l)' => CanGrant(r, l)
    BY <1>0, <1>2, PermitLimits
  <2>7. Limits'
    BY <1>0, <1>2, <2>6 DEF Limits
  <2>8. WorkConserving'
    BY <1>0, <2>w, <2>6, StillConserving
  <2> QED
    BY <1>0, <1>2, <2>5, <2>7, <2>8 DEF AdmissionInv
<1>3. CASE /\ ~closed /\ ~QueueFull(p, k) /\ Ask("queued")
           /\ queue' = Append(queue, c)
           /\ queued' = [queued EXCEPT ![k] = @ + 1]
           /\ queuedByProject' = [queuedByProject EXCEPT ![p] = @ + 1]
           /\ StartDrain
           /\ UNCHANGED <<active, activeByProject>>
  <2>1. Asked("queued") /\ Book(calls') /\ "queued" \in Outcome
    BY <1>a, <1>3 DEF Outcome
  <2> HIDE DEF Ask
  <2>2. Counted(calls', "granted", active, activeByProject)
    BY <1>0, <2>1, CountStays DEF Accounts
  <2>3. Counted(calls', "queued", queued', queuedByProject')
    BY <1>0, <1>3, <2>1, CountIn DEF Accounts
  <2>4. Lined(queue', calls')
    BY <1>0, <1>3, <2>1, LineUp DEF Accounts
  <2>5. draining' = TRUE
    BY <1>3 DEF StartDrain
  <2>6. Accounts' /\ Flags'
    BY <1>0, <1>3, <1>b, <2>1, <2>2, <2>3, <2>4, <2>5 DEF Accounts
  <2>7. Limits'
    <3>1. /\ queued \in [Class -> Nat] /\ queuedByProject \in [Project -> Nat]
          /\ queue \in Seq(Call)
          /\ Len(queue) \in Nat
      BY <1>0 DEF TypeOK
    <3>2. /\ QueueMax \in Nat /\ QueueMaxPerProject \in Nat /\ \A l \in Class : MaxQueued[l] \in Nat
      BY OptionsAssumption
    <3>3. Len(queue') = Len(queue) + 1
      BY <1>3, <3>1
    <3>4. Len(queue') <= QueueMax
      BY <1>3, <3>1, <3>2, <3>3 DEF QueueFull
    <3>5. \A l \in Class : queued'[l] <= MaxQueued[l]
      BY <1>0, <1>3, <3>1, <3>2 DEF QueueFull, Limits
    <3>6. \A r \in Project : queuedByProject'[r] <= QueueMaxPerProject
      BY <1>0, <1>3, <3>1, <3>2 DEF QueueFull, Limits
    <3> QED
      BY <1>0, <1>3, <3>4, <3>5, <3>6 DEF Limits, Total
  <2> QED
    BY <1>0, <1>3, <2>5, <2>6, <2>7 DEF AdmissionInv, WorkConserving
<1>4. \/ \E status \in {"closed", "cancelled", "busy"} :
           Ask(status) /\ UNCHANGED <<counters, queue, draining>>
      \/ /\ ~closed /\ CanGrant(p, k) /\ CreatePermit(p, k) /\ Ask("granted")
         /\ UNCHANGED <<queued, queuedByProject, queue, draining>>
      \/ /\ ~closed /\ ~QueueFull(p, k) /\ Ask("queued")
         /\ queue' = Append(queue, c)
         /\ queued' = [queued EXCEPT ![k] = @ + 1]
         /\ queuedByProject' = [queuedByProject EXCEPT ![p] = @ + 1]
         /\ StartDrain
         /\ UNCHANGED <<active, activeByProject>>
  BY DEF AcquireGitChild
<1> QED
  BY <1>1, <1>2, <1>3, <1>4

\* An iteration of the drain grants within the limits; the last one finds nobody to grant.
LEMMA DrainKeeps ==
  ASSUME AdmissionInv, Drain
  PROVE  AdmissionInv'
<1> DEFINE G == {i \in DOMAIN queue : Grantable(queue[i])}
<1>0. /\ Book(calls) /\ Accounts /\ Limits /\ TypeOK /\ draining /\ ~closed
      /\ UNCHANGED <<closed, closeResolved, aborted>>
  BY AccountsType DEF AdmissionInv, Accounts, Drain
<1>1. CASE G = {} /\ draining' = FALSE /\ UNCHANGED <<counters, queue, calls>>
  <2>1. UNCHANGED <<active, activeByProject, queued, queuedByProject, queue, calls>>
    BY <1>1 DEF counters
  <2>2. \A d \in With("queued") : ~Grantable(d)
    BY <1>0, <1>1, WaitersQueue
  <2>3. WorkConserving'
    BY <2>1, <2>2 DEF WorkConserving, Grantable, CanGrant, Total, With
  <2>4. Accounts' /\ Limits'
    BY <1>0, <2>1 DEF Accounts, Limits, Total
  <2>5. Flags'
    BY <1>0, <1>1 DEF Flags, TypeOK
  <2> QED
    BY <1>0, <1>1, <2>3, <2>4, <2>5 DEF AdmissionInv
<1>2. ASSUME NEW i \in G, Dequeue(i), draining' = draining,
             \/ /\ Settle(queue[i], "cancelled") /\ UNCHANGED <<active, activeByProject>>
             \/ /\ Settle(queue[i], "granted")
                /\ CreatePermit(calls[queue[i]].project, calls[queue[i]].class)
      PROVE  AdmissionInv'
  <2> DEFINE c == queue[i]
  <2>0. PICK status \in {"cancelled", "granted"} :
          /\ Settle(c, status)
          /\ \/ status = "cancelled" /\ UNCHANGED <<active, activeByProject>>
             \/ status = "granted" /\ CreatePermit(calls[c].project, calls[c].class)
    BY <1>2
  <2>1. i \in DOMAIN queue /\ Grantable(c) /\ status \in Outcome \ {"queued"}
    BY DEF Outcome
  <2>2. /\ Differ(calls, calls', c) /\ calls'[c].status = status
        /\ calls'[c].project = calls[c].project
        /\ calls'[c].class = calls[c].class
        /\ DOMAIN calls' = DOMAIN calls /\ c \in DOMAIN calls
        /\ calls[c].status = "queued"
        /\ Lined(queue', calls')
        /\ Counted(calls', "queued", queued', queuedByProject')
        /\ Len(queue') <= QueueMax
        /\ \A k \in Class : queued'[k] <= MaxQueued[k]
        /\ \A p \in Project : queuedByProject'[p] <= QueueMaxPerProject
    <3> HIDE DEF G
    <3> QED
      BY <1>0, <1>2, <2>0, <2>1, DequeueAccounts
  <2> HIDE DEF c, G
  <2>3. calls[c].project \in Project /\ calls[c].class \in Class /\ Book(calls')
    BY <1>0, <2>2 DEF Book, CallRecord, Differ
  <2>4. /\ Counted(calls', "granted", active', activeByProject')
        /\ Total' <= MaxChildren
        /\ \A l \in Class : active'[l] <= MaxActive[l]
        /\ \A r \in Project : activeByProject'[r] <= MaxChildrenPerProject
    <3>1. CASE status = "cancelled" /\ UNCHANGED <<active, activeByProject>>
      <4>1. Counted(calls', "granted", active, activeByProject)
        BY <1>0, <2>2, <3>1, CountStays DEF Accounts
      <4> QED
        BY <1>0, <3>1, <4>1 DEF Limits, Total
    <3>2. CASE status = "granted" /\ CreatePermit(calls[c].project, calls[c].class)
      <4>1. CanGrant(calls[c].project, calls[c].class)
        BY <2>1 DEF Grantable
      <4>2. Counted(calls', "granted", active', activeByProject')
        <5>1. /\ active' = [active EXCEPT ![calls'[c].class] = @ + 1]
              /\ activeByProject' = [activeByProject EXCEPT ![calls'[c].project] = @ + 1]
          BY <2>2, <3>2 DEF CreatePermit
        <5> QED
          BY <1>0, <2>2, <3>2, <5>1, CountIn DEF Accounts
      <4> QED
        BY <1>0, <2>3, <3>2, <4>1, <4>2, PermitLimits
    <3> QED
      BY <2>0, <3>1, <3>2
  <2>5. Accounts'
    BY <1>0, <2>2, <2>3, <2>4 DEF Accounts
  <2>6. Limits'
    BY <2>2, <2>4 DEF Limits
  <2>7. Flags'
    BY <1>0, <1>2 DEF Flags, TypeOK
  <2> QED
    BY <1>0, <1>2, <2>5, <2>6, <2>7 DEF AdmissionInv, WorkConserving
<1>3. ASSUME NEW i \in FindIndex(G) PROVE i \in G
  BY DEF FindIndex
<1> QED
  BY <1>1, <1>2, <1>3 DEF Drain

\* A released permit is counted out; what it frees is offered to the queue.
LEMMA ReleaseKeeps ==
  ASSUME AdmissionInv, NEW c \in Call, ReleasePermit(c)
  PROVE  AdmissionInv'
<1>0. /\ Book(calls) /\ Accounts /\ Limits /\ TypeOK
      /\ c \in DOMAIN calls /\ calls[c].status = "granted" /\ Settle(c, "released")
      /\ active' = [active EXCEPT ![calls[c].class] = @ - 1]
      /\ activeByProject' = [activeByProject EXCEPT ![calls[c].project] = @ - 1]
      /\ draining' = ~closed
      /\ closeResolved' \in BOOLEAN
      /\ UNCHANGED <<queued, queuedByProject, queue, closed, aborted>>
  BY AccountsType DEF AdmissionInv, Accounts, ReleasePermit, StartDrain, With, ResolveClose, TypeOK
<1>1. /\ Differ(calls, calls', c) /\ DOMAIN calls' = DOMAIN calls /\ calls'[c].status = "released"
  BY <1>0, Settles DEF Outcome
<1>2. calls[c].project \in Project /\ calls[c].class \in Class /\ Book(calls')
  BY <1>0, <1>1 DEF Book, CallRecord, Differ
<1>3. Counted(calls', "granted", active', activeByProject')
  BY <1>0, <1>1, CountOut DEF Accounts
<1>4. Counted(calls', "queued", queued, queuedByProject) /\ Lined(queue, calls')
  BY <1>0, <1>1, CountStays, LineStays DEF Accounts
<1>5. Accounts'
  BY <1>0, <1>1, <1>2, <1>3, <1>4 DEF Accounts
<1>6. Limits'
  <2>1. /\ Total' <= MaxChildren
        /\ \A l \in Class : active'[l] <= MaxActive[l]
        /\ \A r \in Project : activeByProject'[r] <= MaxChildrenPerProject
    BY <1>0, <1>2, ReleaseLimits
  <2> QED
    BY <1>0, <2>1 DEF Limits
<1>7. Flags' /\ (closed' => queue' = <<>>) /\ (draining' => ~closed')
  BY <1>0 DEF Flags, TypeOK, AdmissionInv
<1>8. WorkConserving'
  <2>1. closed => With("queued")' = {}
    <3>1. closed => DOMAIN queue = {}
      BY DEF AdmissionInv
    <3> QED
      BY <1>4, <3>1 DEF With, Lined
  <2> QED
    BY <1>0, <2>1 DEF WorkConserving, TypeOK
<1> QED
  BY <1>5, <1>6, <1>7, <1>8 DEF AdmissionInv

\* A waiter that gives up, or whose caller aborts, leaves the queue.
LEMMA RejectKeeps ==
  ASSUME AdmissionInv, NEW c \in Call, NEW status \in {"busy", "cancelled"},
         RemoveAndReject(c, status)
  PROVE  AdmissionInv'
<1>1. PICK i \in DOMAIN queue : queue[i] = c /\ Dequeue(i)
  BY DEF RemoveAndReject
<1>0. /\ Book(calls) /\ Accounts /\ Limits /\ TypeOK /\ ~closed
      /\ c \in DOMAIN calls /\ Settle(c, status) /\ draining' = TRUE
      /\ UNCHANGED <<active, activeByProject, closed, closeResolved, aborted>>
  <2>1. ~closed
    BY <1>1 DEF AdmissionInv
  <2> QED
    BY <2>1, AccountsType DEF AdmissionInv, Accounts, RemoveAndReject, StartDrain, With
<1>2. /\ Differ(calls, calls', c) /\ calls'[c].status = status
      /\ DOMAIN calls' = DOMAIN calls
      /\ calls[c].status = "queued"
      /\ Lined(queue', calls')
      /\ Counted(calls', "queued", queued', queuedByProject')
      /\ Len(queue') <= QueueMax
      /\ \A k \in Class : queued'[k] <= MaxQueued[k]
      /\ \A p \in Project : queuedByProject'[p] <= QueueMaxPerProject
  <2>1. status \in Outcome \ {"queued"} /\ Settle(queue[i], status)
    BY <1>0, <1>1 DEF Outcome
  <2> QED
    BY <1>0, <1>1, <2>1, DequeueAccounts
<1>3. Counted(calls', "granted", active, activeByProject) /\ Book(calls')
  BY <1>0, <1>2, CountStays DEF Accounts, Differ
<1>4. Accounts'
  BY <1>0, <1>2, <1>3 DEF Accounts
<1>5. Limits'
  BY <1>0, <1>2 DEF Limits, Total
<1>6. Flags'
  BY <1>0 DEF Flags, TypeOK
<1> QED
  BY <1>0, <1>4, <1>5, <1>6 DEF AdmissionInv, WorkConserving

\* close() rejects every waiter at once and leaves the permits.
LEMMA CloseKeeps ==
  ASSUME AdmissionInv, Close
  PROVE  AdmissionInv'
<1>0. /\ Book(calls) /\ Accounts /\ Limits /\ TypeOK /\ ~draining /\ closed' = TRUE
      /\ calls' = [c \in DOMAIN calls |-> IF calls[c].status = "queued"
                             THEN [calls[c] EXCEPT !.status = "closed"] ELSE calls[c]]
      /\ queue' = <<>> /\ queued' = [k \in Class |-> 0]
      /\ queuedByProject' = [p \in Project |-> 0]
      /\ closeResolved' \in BOOLEAN
      /\ UNCHANGED <<active, activeByProject, draining, aborted>>
  BY AccountsType DEF AdmissionInv, Accounts, Close, ResolveClose, TypeOK
<1>1. DOMAIN calls' = DOMAIN calls
  BY <1>0
<1>2. ASSUME NEW c \in DOMAIN calls
      PROVE  /\ calls'[c] \in CallRecord /\ calls'[c].status # "queued"
             /\ calls'[c].project = calls[c].project /\ calls'[c].class = calls[c].class
             /\ calls'[c].status = "granted" <=> calls[c].status = "granted"
  <2>1. calls[c] \in CallRecord
    BY <1>0 DEF Book
  <2>2. calls'[c] = IF calls[c].status = "queued"
                   THEN [calls[c] EXCEPT !.status = "closed"] ELSE calls[c]
    BY <1>0
  <2>3. CASE calls[c].status = "queued"
    <3>1. calls'[c] = [calls[c] EXCEPT !.status = "closed"]
      BY <2>2, <2>3
    <3> QED
      BY <2>1, <2>3, <3>1 DEF CallRecord, Outcome
  <2>4. CASE calls[c].status # "queued"
    BY <2>1, <2>2, <2>4
  <2> QED
    BY <2>3, <2>4
<1>3. Book(calls')
  <2>1. calls' = [c \in DOMAIN calls' |-> calls'[c]]
    BY <1>0
  <2> QED
    BY <1>0, <1>1, <1>2, <2>1 DEF Book
<1>4. \A P, K : /\ Standing(calls', "queued", P, K) = {}
                /\ Standing(calls', "granted", P, K) = Standing(calls, "granted", P, K)
  BY <1>1, <1>2 DEF Standing
<1>5. Counted(calls', "granted", active', activeByProject')
  BY <1>0, <1>4 DEF Accounts, Counted
<1>6. Counted(calls', "queued", queued', queuedByProject')
  BY <1>0, <1>4, FS_EmptySet DEF Counted
<1>7. Lined(queue', calls')
  <2>1. queue' \in Seq(Call) /\ DOMAIN queue' = {} /\ Len(queue') = 0
    BY <1>0
  <2> QED
    BY <1>1, <1>2, <1>4, <2>1, FS_EmptySet DEF Lined
<1>8. Accounts'
  BY <1>0, <1>1, <1>3, <1>5, <1>6, <1>7 DEF Accounts
<1>9. Limits'
  <2>1. /\ QueueMax \in Nat /\ QueueMaxPerProject \in Nat /\ \A l \in Class : MaxQueued[l] \in Nat
    BY OptionsAssumption
  <2>2. Len(queue') = 0
    BY <1>0
  <2> QED
    BY <1>0, <2>1, <2>2 DEF Limits, Total
<1>10. Flags'
  BY <1>0 DEF Flags, TypeOK
<1>11. WorkConserving'
  BY <1>1, <1>2 DEF WorkConserving, With
<1> QED
  BY <1>0, <1>8, <1>9, <1>10, <1>11 DEF AdmissionInv

LEMMA AdmissionInvHolds == AdmissionSpec => []AdmissionInv
<1>1. AdmissionInit => AdmissionInv
  <2> SUFFICES ASSUME AdmissionInit PROVE AdmissionInv
    OBVIOUS
  <2>1. /\ QueueMax \in Nat /\ QueueMaxPerProject \in Nat /\ \A l \in Class : MaxQueued[l] \in Nat
        /\ MaxChildren \in Nat /\ MaxChildrenPerProject \in Nat
        /\ \A l \in Class : MaxActive[l] \in Nat
    BY OptionsAssumption
  <2>2. DOMAIN calls = {} /\ calls = [c \in DOMAIN calls |-> calls[c]]
    BY DEF AdmissionInit
  <2>3. \A s, P, K : Standing(calls, s, P, K) = {}
    BY <2>2 DEF Standing
  <2>4. Book(calls)
    BY <2>2, FS_EmptySet DEF Book
  <2>5. Counted(calls, "granted", active, activeByProject)
    BY <2>3, FS_EmptySet DEF AdmissionInit, Counted
  <2>6. Counted(calls, "queued", queued, queuedByProject)
    BY <2>3, FS_EmptySet DEF AdmissionInit, Counted
  <2>7. queue \in Seq(Call) /\ DOMAIN queue = {} /\ Len(queue) = 0
    BY DEF AdmissionInit
  <2>8. Lined(queue, calls)
    BY <2>2, <2>3, <2>7, FS_EmptySet DEF Lined
  <2>9. Accounts
    BY <2>2, <2>4, <2>5, <2>6, <2>8 DEF Accounts
  <2>10. Limits
    BY <2>1, <2>7 DEF AdmissionInit, Limits, Total, Class
  <2>11. Flags /\ ~closed /\ ~draining
    BY DEF AdmissionInit, Flags
  <2>12. WorkConserving
    BY <2>2 DEF WorkConserving, With
  <2> QED
    BY <2>9, <2>10, <2>11, <2>12 DEF AdmissionInv
<1>2. AdmissionInv /\ [AdmissionNext]_admissionVars => AdmissionInv'
  <2> SUFFICES ASSUME AdmissionInv, [AdmissionNext]_admissionVars PROVE AdmissionInv'
    OBVIOUS
  <2>1. ASSUME NEW c \in Call, NEW p \in Project, NEW k \in Class,
               NEW s \in Signal \cup {NoSignal}, AcquireGitChild(c, p, k, s)
        PROVE  AdmissionInv'
    BY <2>1, AcquireKeeps
  <2>2. ASSUME NEW c \in Call, ReleasePermit(c) PROVE AdmissionInv'
    BY <2>2, ReleaseKeeps
  <2>3. ASSUME NEW c \in Call, Timeout(c) PROVE AdmissionInv'
    BY <2>3, RejectKeeps DEF Timeout
  <2>4. ASSUME NEW c \in Call, AbortListener(c) PROVE AdmissionInv'
    BY <2>4, RejectKeeps DEF AbortListener
  <2>5. CASE Drain
    BY <2>5, DrainKeeps
  <2>6. CASE Close
    BY <2>6, CloseKeeps
  <2>7. ASSUME NEW s \in Signal, Abort(s) PROVE AdmissionInv'
    <3>1. /\ UNCHANGED <<active, activeByProject, queued, queuedByProject, queue, closed,
                         closeResolved, draining, calls>>
          /\ aborted' = aborted \cup {s}
      BY <2>7 DEF Abort, counters
    <3>2. WorkConserving'
      BY <3>1 DEF AdmissionInv, WorkConserving, Grantable, CanGrant, Total, With
    <3>3. Accounts' /\ Limits' /\ Flags'
      BY <3>1 DEF AdmissionInv, Accounts, Limits, Flags, Total
    <3> QED
      BY <3>1, <3>2, <3>3 DEF AdmissionInv
  <2>8. CASE UNCHANGED admissionVars
    BY <2>8 DEF admissionVars, AdmissionInv, Accounts, Limits, Flags, Total, WorkConserving,
                Grantable, CanGrant, With
  <2> QED
    BY <2>1, <2>2, <2>3, <2>4, <2>5, <2>6, <2>7, <2>8 DEF AdmissionNext
<1> QED
  BY <1>1, <1>2, PTL DEF AdmissionSpec

-----------------------------------------------------------------------------
(* What the run of the admission checks. *)

\* Counters and limits that are right of the accounts are right of the calls themselves.
LEMMA ExactCounts == AdmissionInv => QueueExact
<1> SUFFICES ASSUME AdmissionInv PROVE QueueExact
  OBVIOUS
<1>0. /\ Book(calls) /\ Accounts /\ Limits /\ TypeOK /\ WorkConserving
  BY AccountsType DEF AdmissionInv, Accounts
<1>1. \A P, K : /\ Held(P, K) = Standing(calls, "granted", P, K)
                /\ Waiting(P, K) = Standing(calls, "queued", P, K)
  BY DEF Held, Waiting, With, Standing
<1>2. \A c \in DOMAIN calls : calls[c].project \in Project /\ calls[c].class \in Class
  BY <1>0 DEF Book, CallRecord
<1>3. With("queued") = Standing(calls, "queued", Project, Class)
  BY <1>2 DEF With, Standing
<1>4. With("granted") = Standing(calls, "granted", Project, {"read"})
                          \cup Standing(calls, "granted", Project, {"write"})
  BY <1>2 DEF With, Standing, Class
<1>5. Cardinality(With("granted")) = Total
  <2> DEFINE R == Standing(calls, "granted", Project, {"read"})
             W == Standing(calls, "granted", Project, {"write"})
  <2>1. IsFiniteSet(R) /\ IsFiniteSet(W)
    BY <1>0, StandingFinite
  <2>2. R \cap W = {}
    BY DEF Standing
  <2>3. Cardinality(R) = active["read"] /\ Cardinality(W) = active["write"]
        /\ active["read"] \in Nat /\ active["write"] \in Nat
    BY <1>0 DEF Accounts, Counted, Class
  <2>4. Cardinality(R \cup W) = Cardinality(R) + Cardinality(W) - Cardinality(R \cap W)
    <3> HIDE DEF R, W
    <3> QED
      BY <2>1, FS_Union
  <2>5. With("granted") = R \cup W
    BY <1>4
  <2> HIDE DEF R, W
  <2>6. Cardinality(R \cap W) = 0
    BY <2>2, FS_EmptySet
  <2>7. Cardinality(R \cup W) = active["read"] + active["write"]
    BY <2>3, <2>4, <2>6
  <2> QED
    BY <2>5, <2>7 DEF Total
<1>6. {queue[i] : i \in DOMAIN queue} = With("queued")
  BY <1>0, WaitersQueue
<1>7. Len(queue) = Cardinality(With("queued"))
  BY <1>0, <1>3 DEF Accounts, Lined
<1>8. CountersAgree
  BY <1>0, <1>1, <1>6, <1>7 DEF CountersAgree, Accounts, Counted
<1>9. LimitsRespected
  <2>1. Cardinality(With("granted")) <= MaxChildren /\ Cardinality(With("queued")) <= QueueMax
    BY <1>0, <1>5, <1>7 DEF Limits
  <2>2. \A k \in Class : /\ Cardinality(Held(Project, {k})) <= MaxActive[k]
                         /\ Cardinality(Waiting(Project, {k})) <= MaxQueued[k]
    BY <1>0, <1>8 DEF CountersAgree, Limits
  <2>3. \A p \in Project :
          /\ Cardinality(Held({p}, Class)) <= MaxChildrenPerProject
          /\ Cardinality(Waiting({p}, Class)) <= QueueMaxPerProject
    BY <1>0, <1>8 DEF CountersAgree, Limits
  <2> QED
    BY <2>1, <2>2, <2>3 DEF LimitsRespected
<1> QED
  BY <1>0, <1>8, <1>9 DEF QueueExact, CountersExact

\* For every set of calls and every configuration: the counters that acquireGitChild and
\* #drainQueue decide by are the permits and the waiters there are, which are within the
\* limits, and between handlers nobody waits for a permit that could be given.
THEOREM QueueIsExact == AdmissionSpec => []QueueExact
<1>1. AdmissionInv => QueueExact
  BY ExactCounts
<1> QED
  BY <1>1, AdmissionInvHolds, PTL

\* What GrantsInOrder asks of a step.
InOrder ==
  \A c \in Call : IsGranted(c) =>
    /\ \A d \in With("queued") \ {c} : SameLane(c, d) => ~Before(d, c)
    /\ ~closed /\ calls'[c].signal \notin aborted

\* A new call is granted only if nobody waits for what it takes.
LEMMA AcquireInOrder ==
  ASSUME AdmissionInv, NEW c \in Call, NEW p \in Project, NEW k \in Class,
         NEW s \in Signal \cup {NoSignal}, AcquireGitChild(c, p, k, s)
  PROVE  InOrder
<1> DEFINE Ask(status) == calls' = [d \in DOMAIN calls \cup {c} |->
             IF d \in DOMAIN calls THEN calls[d]
             ELSE [status |-> status, project |-> p, class |-> k, signal |-> s]]
<1>0. ~draining /\ WorkConserving /\ c \notin DOMAIN calls
  BY DEF AdmissionInv, AcquireGitChild
<1>1. PICK status \in Outcome :
        /\ Ask(status)
        /\ status = "granted" => ~closed /\ s \notin aborted /\ CanGrant(p, k)
  <2>1. \/ Ask("closed") \/ Ask("cancelled") \/ Ask("busy") \/ Ask("queued")
        \/ Ask("granted") /\ ~closed /\ s \notin aborted /\ CanGrant(p, k)
    BY DEF AcquireGitChild
  <2> HIDE DEF Ask
  <2> QED
    BY <2>1 DEF Outcome
<1>2. /\ DOMAIN calls' = DOMAIN calls \cup {c}
      /\ calls'[c] = [status |-> status, project |-> p, class |-> k, signal |-> s]
      /\ \A d \in DOMAIN calls : calls'[d] = calls[d]
  BY <1>0, <1>1
<1> HIDE DEF Ask
<1> SUFFICES ASSUME NEW e \in Call, IsGranted(e)
             PROVE  /\ \A d \in With("queued") \ {e} : SameLane(e, d) => ~Before(d, e)
                    /\ ~closed /\ calls'[e].signal \notin aborted
  BY DEF InOrder
<1>3. e = c /\ status = "granted"
  BY <1>2 DEF IsGranted, With
<1>4. ASSUME NEW d \in With("queued"), SameLane(e, d) PROVE FALSE
  <2>1. calls[d].project = p /\ calls[d].class = k
    BY <1>2, <1>3, <1>4 DEF SameLane
  <2> QED
    BY <1>0, <1>1, <1>3, <1>4, <2>1 DEF WorkConserving, Grantable
<1> QED
  BY <1>1, <1>2, <1>3, <1>4

\* The drain grants the first waiter that can be granted.
LEMMA DrainInOrder ==
  ASSUME AdmissionInv, Drain
  PROVE  InOrder
<1> DEFINE G == {i \in DOMAIN queue : Grantable(queue[i])}
<1>0. ~closed /\ Accounts /\ Book(calls)
  BY DEF AdmissionInv, Drain, Accounts
<1> SUFFICES ASSUME NEW e \in Call, IsGranted(e)
             PROVE  /\ \A d \in With("queued") \ {e} : SameLane(e, d) => ~Before(d, e)
                    /\ ~closed /\ calls'[e].signal \notin aborted
  BY DEF InOrder
<1>1. calls' # calls
  BY DEF IsGranted, With
<1>2. PICK i \in FindIndex(G) :
        /\ Dequeue(i)
        /\ \/ Settle(queue[i], "cancelled")
           \/ ~IsAborted(queue[i]) /\ Settle(queue[i], "granted")
  BY <1>1 DEF Drain
<1>3. i \in G /\ \A j \in G : i <= j
  BY DEF FindIndex
<1>4. /\ queue[i] \in DOMAIN calls /\ Grantable(queue[i])
      /\ calls[queue[i]] \in CallRecord
  BY <1>0, <1>3 DEF Accounts, Lined, Book
<1>5. /\ DOMAIN calls' = DOMAIN calls
      /\ \A d \in DOMAIN calls \ {queue[i]} : calls'[d] = calls[d]
  BY <1>2 DEF Settle
<1>6. e = queue[i]
  BY <1>5 DEF IsGranted, With
<1>7. ~IsAborted(e) /\ Settle(e, "granted")
  <2>1. Settle(e, "cancelled") => calls'[e].status = "cancelled"
    BY <1>0, <1>4, <1>6, Settles DEF Outcome
  <2> QED
    BY <1>2, <1>6, <2>1 DEF IsGranted
<1>8. /\ calls'[e].project = calls[e].project /\ calls'[e].class = calls[e].class
      /\ calls'[e].signal = calls[e].signal
  BY <1>0, <1>4, <1>6, <1>7, Settles DEF Outcome
<1>9. ASSUME NEW d \in With("queued") \ {e}, SameLane(e, d), Before(d, e) PROVE FALSE
  <2>1. Grantable(d)
    BY <1>4, <1>6, <1>8, <1>9 DEF SameLane, Grantable
  <2>2. PICK j \in DOMAIN queue : queue[j] = d
    BY <1>0, WaitersQueue
  <2>3. j \in G /\ j < i
    BY <1>3, <1>6, <1>9, <2>1, <2>2 DEF Before
  <2>4. i \in Nat /\ j \in Nat
    BY <1>0, <1>3, <2>2, LenProperties DEF Accounts, Lined
  <2> QED
    BY <1>3, <2>3, <2>4
<1> QED
  BY <1>0, <1>7, <1>8, <1>9 DEF IsAborted

\* Settling a call otherwise grants nothing.
LEMMA SettlesUngranted ==
  ASSUME AdmissionInv, NEW c \in DOMAIN calls, NEW status \in Outcome \ {"granted"},
         Settle(c, status)
  PROVE  InOrder
<1>1. Book(calls)
  BY DEF AdmissionInv, Accounts
<1>2. Differ(calls, calls', c) /\ DOMAIN calls' = DOMAIN calls /\ calls'[c].status = status
  BY <1>1, Settles
<1> QED
  BY <1>2 DEF InOrder, IsGranted, With, Differ

\* For every set of calls and every configuration: a permit never overtakes an earlier
\* waiter for the same Project and classification, and goes to nobody who has aborted or
\* asked after close().
THEOREM NoOvertaking == AdmissionSpec => GrantsInOrder
<1>1. AdmissionInv /\ [AdmissionNext]_admissionVars => [InOrder]_admissionVars
  <2> SUFFICES ASSUME AdmissionInv, AdmissionNext PROVE InOrder
    OBVIOUS
  <2>1. ASSUME NEW c \in Call, NEW p \in Project, NEW k \in Class,
               NEW s \in Signal \cup {NoSignal}, AcquireGitChild(c, p, k, s)
        PROVE  InOrder
    BY <2>1, AcquireInOrder
  <2>2. ASSUME NEW c \in Call, ReleasePermit(c) PROVE InOrder
    BY <2>2, SettlesUngranted DEF ReleasePermit, With, Outcome
  <2>3. ASSUME NEW c \in Call, Timeout(c) PROVE InOrder
    BY <2>3, SettlesUngranted DEF Timeout, RemoveAndReject, With, Outcome
  <2>4. ASSUME NEW c \in Call, AbortListener(c) PROVE InOrder
    BY <2>4, SettlesUngranted DEF AbortListener, RemoveAndReject, With, Outcome
  <2>5. CASE Drain
    BY <2>5, DrainInOrder
  <2>6. CASE Close
    <3>1. /\ DOMAIN calls' = DOMAIN calls
          /\ \A c \in DOMAIN calls : calls'[c] = IF calls[c].status = "queued"
               THEN [calls[c] EXCEPT !.status = "closed"] ELSE calls[c]
      BY <2>6 DEF Close
    <3>2. \A c \in DOMAIN calls : calls[c] \in CallRecord
      BY DEF AdmissionInv, Accounts, Book
    <3>3. ASSUME NEW c \in DOMAIN calls, calls'[c].status = "granted"
          PROVE  calls[c].status = "granted"
      BY <3>1, <3>2, <3>3 DEF CallRecord
    <3> QED
      BY <3>1, <3>3 DEF InOrder, IsGranted, With
  <2>7. ASSUME NEW s \in Signal, Abort(s) PROVE InOrder
    BY <2>7 DEF Abort, InOrder, IsGranted, With
  <2> QED
    BY <2>1, <2>2, <2>3, <2>4, <2>5, <2>6, <2>7 DEF AdmissionNext
<1> QED
  BY <1>1, AdmissionInvHolds, PTL DEF AdmissionSpec, GrantsInOrder, InOrder

-----------------------------------------------------------------------------
(* Environment restore: the inductive invariant. *)

\* Phases that are reached only over the imported rows, the staged repositories, the
\* marked volume, the repositories in place, and the published fence.
Authoritative == {"authority-published", "verified", "completed"}
InPlace       == {"repositories-published"} \cup Authoritative
Marked        == {"pair-prepared"} \cup InPlace
Stored        == {"repositories-staged"} \cup Marked
Imported      == {"coordination-imported"} \cup Stored
Phase         == {"validated", "database-created"} \cup Imported

Journals == [phase : Phase, cleanup : BOOLEAN]
Removing == {"unmark", "unjournal", "unintent"}
Cleaned  == {"repositories", "staging", "remove"}

FileTypes ==
  /\ journal \in Journals \cup {NoFile} /\ journalPart \in Journals \cup {NoFile, Torn}
  /\ marker \in {NoFile, Volume} /\ markerPart \in {NoFile, Torn, Volume}
  /\ removal \in Journals \cup {NoFile} /\ removalPart \in Journals \cup {NoFile, Torn}

CallTypes ==
  /\ \/ call = NoCall
     \/ call \in [op : {"restore", "cancel", "recover"},
                  at : {"inspect", "run", "import", "cleanup"} \cup Cleaned \cup Removing]
  /\ \/ write = NoWrite
     \/ write \in [file : {"journal", "removal"}, value : Journals]
     \/ write \in [file : {"marker"}, value : {Volume}]

\* Rows with their five fields; records of one Project.
Rows(rows) == \A r \in rows : r = Row(r.t, r.id, r.s, r.ref, r.n) /\ r.n \in Nat
Records(records, p) ==
  /\ Rows(records) /\ In(records, "project") # {}
  /\ \A r \in In(records, "project") : r.id = p /\ r.ref = "main"

Ended(p) == In(source[p], "project_tombstones") # {}

\* The source keeps describing Projects that serve or have ended, and what was not
\* listed has ended.
SourceInv ==
  /\ source = [p \in Projects |-> source[p]]
  /\ \A p \in Projects :
       /\ Rows(source[p])
       /\ \A r \in In(source[p], "projects") : r.id = p /\ r.ref = "main"
       /\ Placed(p) \/ Ended(p)
CatalogInv ==
  /\ taking \in {"list", "capture", "terminal", "published"}
  /\ entries = [p \in Projects |-> entries[p]] /\ terminals = [p \in Projects |-> terminals[p]]
  /\ \A p \in Live : Records(entries[p], p)
  /\ \A p \in Projects :
       Rows(TerminalRows(terminals[p])) /\ In(TerminalRows(terminals[p]), "projects") = {}
  /\ taking \in {"capture", "terminal"} => \A p \in Projects \ listing : Ended(p)
  /\ taking = "terminal" => \A p \in listing : entries[p] # {}
  /\ CatalogWhole

\* Nothing in the database; nothing in repository storage.
NoDatabase     == schema = "absent" /\ fence = "none" /\ database = Nothing
NoRepositories == staged = {} /\ published = {}

\* A restore begins over a published catalog.
Begun ==
  taking = "published" \/
    /\ call = NoCall /\ write = NoWrite /\ journal = NoFile /\ journalPart = NoFile
    /\ removal = NoFile /\ removalPart = NoFile

Generation(p) == (CHOOSE r \in In(entries[p], "project") : TRUE).n
ProjectRow(p, state) == Row("projects", p, state, "main", Generation(p))
TerminalsThere == \A p \in Terminal : TerminalRows(terminals[p]) \subseteq database[p]

\* What a phase stands for.
Reached(phase) ==
  /\ phase \in Imported =>
       /\ \A p \in Live :
            \E state \in {"maintenance", "active"} : ProjectRow(p, state) \in database[p]
       /\ TerminalsThere
  /\ phase \in Stored => Live \subseteq staged \cup published
  /\ phase \in Marked => marker = Volume
  /\ phase \in InPlace => staged = {} /\ published = Live
  /\ phase \in Authoritative => fence = "published"

\* What no earlier phase can have left.
Unreached(phase) ==
  /\ phase = "none" => NoDatabase
  /\ phase \notin Imported => staged = {}
  /\ phase \notin Stored => marker = NoFile /\ markerPart = NoFile
  /\ phase \notin Marked => published = {}

DatabaseInv ==
  /\ database = [p \in Projects |-> database[p]] /\ \A p \in Projects : Rows(database[p])
  /\ \A p \in Live : database[p] # {} =>
       \E state \in {"maintenance", "active"} : ProjectRow(p, state) \in database[p]
  /\ schema = "absent" => NoDatabase
  /\ fence \in {"none", "staged", "published"}
  /\ fence = "published" => /\ journal.phase \in InPlace
                            /\ \A p \in Live : /\ placement[p] = SourceGeneration(p) + 1
                                               /\ ProjectRow(p, "active") \in database[p]

PhaseInv ==
  /\ ~journal.cleanup \/ fence = "published" => Reached(journal.phase)
  /\ Unreached(journal.phase)

\* What a journal that is being written, or was left in its part, may say.
Planned(next) ==
  \/ journal = NoFile /\ next = Journal("validated", FALSE)
  \/ /\ next.phase = journal.phase /\ next.cleanup /\ ~journal.cleanup
  \/ /\ Follows(next.phase, journal.phase) /\ ~next.cleanup /\ Reached(next.phase)
     /\ journal.cleanup => fence = "published"

Writing(file) == write.file = file

WriteInv ==
  /\ write # NoWrite => Part(write.file) \in {Torn, write.value}
  /\ journalPart \in Journals => Planned(journalPart)
  /\ Writing("journal") =>
       /\ Planned(write.value) /\ ~Unfinished
       /\ \/ call.at = "run" /\ ~write.value.cleanup
          \/ call.at = "cleanup" /\ write.value.cleanup
  /\ Writing("marker") => call.at = "run" /\ journal.phase = "repositories-staged"
  /\ Writing("removal") => call.at = "remove"

\* Where a call is.
CallInv ==
  /\ call.at \notin {"idle", "inspect"} /\ ~Writing("journal") => journalPart = NoFile
  /\ call.at = "run" => ~Unfinished
  /\ call.at = "run" /\ ~Writing("journal") => journal # NoFile /\ ~journal.cleanup
  /\ call.at = "import" => ~Unfinished /\ journal = Journal("coordination-imported", FALSE)
  /\ call.at = "cleanup" /\ ~Writing("journal") => journal.cleanup
  /\ call.at \in Cleaned => journal.cleanup /\ NoDatabase
  /\ call.at = "staging" /\ journal.phase \in Stored => NoRepositories
  /\ call.at = "remove" => NoRepositories

\* A removal begins when nothing is left but files, and takes the markers first.
RemovalInv ==
  /\ Unfinished \/ call.at \in Removing =>
       /\ NoDatabase /\ NoRepositories /\ journalPart = NoFile
       /\ journal = NoFile \/ journal.cleanup
  /\ call.at \in {"unjournal", "unintent"} => marker = NoFile /\ markerPart = NoFile
  /\ call.at = "unintent" => journal = NoFile

RestoreInv ==
  /\ FileTypes /\ CallTypes /\ SourceInv /\ CatalogInv /\ Begun /\ DatabaseInv
  /\ PhaseInv /\ WriteInv /\ CallInv /\ RemovalInv

-----------------------------------------------------------------------------
(* Restore: rows and records. *)

LEMMA TablesOfRows ==
  ASSUME NEW rows, Rows(rows), NEW t
  PROVE  /\ Rows(As(rows, t))
         /\ \A x \in As(rows, t) : x.t = t /\ \E r \in rows : x = Row(t, r.id, r.s, r.ref, r.n)
<1>1. ASSUME NEW x \in As(rows, t)
      PROVE  /\ x = Row(x.t, x.id, x.s, x.ref, x.n) /\ x.n \in Nat /\ x.t = t
             /\ \E r \in rows : x = Row(t, r.id, r.s, r.ref, r.n)
  <2>1. PICK r \in rows : x = [r EXCEPT !.t = t]
    BY DEF As
  <2>2. r = Row(r.t, r.id, r.s, r.ref, r.n) /\ r.n \in Nat
    BY DEF Rows
  <2>3. x = Row(t, r.id, r.s, r.ref, r.n)
    BY <2>1, <2>2 DEF Row
  <2> QED BY <2>2, <2>3 DEF Row
<1> QED BY <1>1 DEF Rows

LEMMA CopiesOfRows ==
  ASSUME NEW db, Rows(db), NEW kinds
  PROVE  /\ Rows(Copy(db, kinds))
         /\ \A x \in Copy(db, kinds) :
              x.t \in kinds /\ \E r \in In(db, Plain[x.t]) : x = Row(x.t, r.id, r.s, r.ref, r.n)
<1>1. ASSUME NEW x \in Copy(db, kinds)
      PROVE  /\ x = Row(x.t, x.id, x.s, x.ref, x.n) /\ x.n \in Nat /\ x.t \in kinds
             /\ \E r \in In(db, Plain[x.t]) : x = Row(x.t, r.id, r.s, r.ref, r.n)
  <2>1. PICK k \in kinds : x \in As(In(db, Plain[k]), k)
    BY DEF Copy
  <2>2. Rows(In(db, Plain[k]))
    BY DEF Rows, In
  <2>3. x.t = k /\ Rows(As(In(db, Plain[k]), k))
    BY <2>1, <2>2, TablesOfRows
  <2>4. \E r \in In(db, Plain[k]) : x = Row(k, r.id, r.s, r.ref, r.n)
    BY <2>1, <2>2, TablesOfRows
  <2> QED BY <2>1, <2>3, <2>4 DEF Rows
<1> QED BY <1>1 DEF Rows

LEMMA RowsPutBack ==
  ASSUME NEW records, Rows(records), NEW kinds
  PROVE  /\ Rows(PutBack(records, kinds))
         /\ \A x \in PutBack(records, kinds) : \E k \in kinds : x.t = Plain[k]
<1>1. ASSUME NEW x \in PutBack(records, kinds)
      PROVE  /\ x = Row(x.t, x.id, x.s, x.ref, x.n) /\ x.n \in Nat
             /\ \E k \in kinds : x.t = Plain[k]
  <2>1. PICK k \in kinds : x \in As(In(records, k), Plain[k])
    BY DEF PutBack
  <2>2. Rows(In(records, k))
    BY DEF Rows, In
  <2> QED BY <2>1, <2>2, TablesOfRows DEF Rows
<1> QED BY <1>1 DEF Rows

\* Records of every kind but "project".
Aside(records) == Rows(records) /\ \A x \in records : x.t # "project"

LEMMA AsideOfTables ==
  ASSUME NEW rows, Rows(rows), NEW t, t # "project"
  PROVE  Aside(As(rows, t))
BY TablesOfRows DEF Aside

LEMMA AsideOfCopies ==
  ASSUME NEW db, Rows(db), NEW kinds, "project" \notin kinds
  PROVE  /\ Aside(Copy(db, kinds))
         /\ \A terminal \in BOOLEAN : Aside(Filtered(db, Copy(db, kinds), terminal))
<1>1. Rows(Copy(db, kinds)) /\ \A x \in Copy(db, kinds) : x.t # "project"
  BY CopiesOfRows
<1>2. \A terminal \in BOOLEAN : Filtered(db, Copy(db, kinds), terminal) \subseteq Copy(db, kinds)
  BY DEF Filtered
<1> QED BY <1>1, <1>2 DEF Aside, Rows

LEMMA AsideOfRow ==
  ASSUME NEW t, t # "project", NEW id, NEW s, NEW ref, NEW n \in Nat
  PROVE  LET x == Row(t, id, s, ref, n)
         IN x = Row(x.t, x.id, x.s, x.ref, x.n) /\ x.n \in Nat /\ x.t # "project"
BY DEF Row

\* Reading a Project: every record but one is of another kind than "project".
LEMMA RecordsOfProject ==
  ASSUME NEW db, Rows(db), NEW excluded, NEW environment, NEW epoch \in Nat
  PROVE  LET records == ReadBackup(db, excluded, environment, epoch)
         IN Rows(records) /\ In(records, "project") = ReadProject(db)
<1>1. \A t : Rows(In(db, t))
  BY DEF Rows, In
<1>2. /\ Rows(ReadProject(db)) /\ \A x \in ReadProject(db) : x.t = "project"
  BY <1>1 DEF ReadProject, Rows, Row, In
<1>3. Aside(ReadMembers(db))
  <2> DEFINE members == {r \in In(db, "project_memberships") : r.s # "pending"}
  <2>1. Aside(As(members, "member"))
    BY AsideOfTables DEF Rows, In
  <2>2. \A x \in ReadMembers(db) : x \in As(members, "member") \/
          \E v, id : x = Row("memberVerifier", v, "none", id, 0)
    BY DEF ReadMembers
  <2>3. \A v, id : LET x == Row("memberVerifier", v, "none", id, 0)
                  IN x = Row(x.t, x.id, x.s, x.ref, x.n) /\ x.n \in Nat /\ x.t # "project"
    BY DEF Row
  <2> HIDE DEF members
  <2> QED BY <2>1, <2>2, <2>3 DEF Aside, Rows
<1>4. Aside(ReadRequests(db)) /\ Aside(ReadTickets(db))
  BY AsideOfCopies DEF ReadRequests, ReadTickets
<1>5. Aside(ReadEvents(db))
  <2>1. /\ Aside(Copy(db, {"cloudEvent"}))
        /\ Aside(As(In(db, "project_event_sequences"), "eventCursor"))
    BY <1>1, AsideOfCopies, AsideOfTables
  <2>2. Aside({Row("eventCursor", "cursor", "none", "none", 0)})
    BY AsideOfRow DEF Aside, Rows
  <2> QED BY <2>1, <2>2 DEF ReadEvents, Aside, Rows
<1>6. Aside(ReadIdempotencyResults(db)) /\ Aside(ReadIdempotencyTombstones(db))
  BY <1>1, AsideOfCopies, AsideOfTables DEF ReadIdempotencyResults, ReadIdempotencyTombstones
<1>7. /\ Aside(ReadBindings(db)) /\ Aside(ReadPlacement(db))
      /\ Aside(ReadLifecycle(db, excluded, FALSE))
  <2>1. \A rows : rows \subseteq db => Rows(rows)
    BY DEF Rows
  <2>2. /\ {r \in In(db, "project_principal_bindings") : r.s = "active"} \subseteq db
        /\ {r \in In(db, "repository_placements") : r.s = "active"} \subseteq db
        /\ {r \in In(db, "project_lifecycle_journals") :
             r.id # excluded /\ TerminalJournal(db, r) = FALSE} \subseteq db
    BY DEF In
  <2> QED BY <2>1, <2>2, AsideOfTables DEF ReadBindings, ReadPlacement, ReadLifecycle
<1>8. Aside(ReadCreations(db)) /\ Aside(ReadJoins(db)) /\ Aside(ReadRemovals(db))
  <2>1. \A table, kind, operation :
          \A x \in ReadCompletedMembership(db, table, kind, operation) :
            \E r \in db : \/ x = Row("lifecycle", r.id, "completed", kind, 0)
                        \/ x = Row("membershipRecovery", r.id, kind, r.ref, r.n)
                        \/ x = Row("idempotency", r.id, operation, r.ref, 0)
    BY DEF ReadCompletedMembership, In
  <2>2. \A r \in db : r.n \in Nat
    BY DEF Rows
  <2>3. \A table, kind, operation : Aside(ReadCompletedMembership(db, table, kind, operation))
    BY <2>1, <2>2, AsideOfRow DEF Aside, Rows
  <2>4. \A x \in ReadRemovals(db) :
          \E r \in db : \/ x = Row("membershipRecovery", r.id, "remove-member", r.ref, r.n)
                      \/ x = Row("idempotency", r.id, "removeMember", r.ref, 0)
    BY DEF ReadRemovals, In
  <2> QED BY <2>2, <2>3, <2>4, AsideOfRow DEF ReadCreations, ReadJoins, Aside, Rows
<1>9. Aside(ReadLeaveReplays(db))
  <2>1. \A x \in ReadLeaveReplays(db) :
          \E r \in db : \/ x = Row("leaveReplay", r.id, "completed", r.ref, r.n)
                      \/ x = Row("idempotency", r.id, "leaveProject", r.ref, 0)
    BY DEF ReadLeaveReplays, In
  <2> QED BY <2>1, AsideOfRow DEF Aside, Rows
<1>10. Aside(ReadTransferRecovery(db)) /\ Aside(ReadClaims(db)) /\ Aside(ReadBatchReceipts(db))
  <2>1. Rows({r \in In(db, "transferred_membership_claims") :
                \E l \in In(db, "project_lifecycle_journals") : l.id = r.ref /\ l.n = r.n})
    BY DEF Rows, In
  <2> QED BY <2>1, AsideOfCopies, AsideOfTables
         DEF ReadTransferRecovery, ReadClaims, ReadBatchReceipts
<1>11. /\ Aside(ReadReceiptKeys(db, FALSE)) /\ Aside(ReadRedemptions(db, FALSE))
       /\ Aside(ReadResponders(db, FALSE)) /\ Aside(ReadEnvelopes(db, FALSE))
  BY AsideOfCopies DEF ReadReceiptKeys, ReadRedemptions, ReadResponders, ReadEnvelopes
<1>12. /\ Aside(ReadInvitations(db)) /\ Aside(ReadRecoveryLinks(db)) /\ Aside(ReadOverrides(db))
       /\ Aside(ReadOffers(db)) /\ Aside(ReadSecretTombstones(db))
  BY AsideOfCopies
     DEF ReadInvitations, ReadRecoveryLinks, ReadOverrides, ReadOffers, ReadSecretTombstones
<1>13. Aside(ReadPair(environment, epoch))
  BY AsideOfRow DEF ReadPair, Aside, Rows
<1>14. ASSUME NEW x \in ReadBackup(db, excluded, environment, epoch)
       PROVE  /\ x = Row(x.t, x.id, x.s, x.ref, x.n) /\ x.n \in Nat
              /\ x \in ReadProject(db) \/ x.t # "project"
  <2>1. \/ x \in ReadProject(db)
        \/ \E group : Aside(group) /\ x \in group
    BY <1>3, <1>4, <1>5, <1>6, <1>7, <1>8, <1>9, <1>10, <1>11, <1>12, <1>13
       DEF ReadBackup, ReadPortable
  <2> QED BY <1>2, <2>1 DEF Aside, Rows
<1>15. ReadProject(db) \subseteq ReadBackup(db, excluded, environment, epoch)
  BY DEF ReadBackup, ReadPortable
<1> QED BY <1>2, <1>14, <1>15 DEF Rows, In

\* What a terminal artifact puts back are rows of the database it was read from.
LEMMA TerminalRowsReadBack ==
  ASSUME NEW db, Rows(db)
  PROVE  /\ Rows(ReadTerminal(db))
         /\ TerminalRows(ReadTerminal(db)) \subseteq db
         /\ \A x \in TerminalRows(ReadTerminal(db)) : x.t # "projects"
<1> DEFINE Kept == {"receiptKey", "redemptionReceipt", "responder", "terminalPrincipal",
                    "claimEnvelope", "tombstone"}
           records == ReadTerminal(db)
<1>1. /\ Rows(ReadLifecycle(db, "none", TRUE))
      /\ \A c \in ReadLifecycle(db, "none", TRUE) :
        /\ c.t = "lifecycle"
        /\ \E r \in In(db, "project_lifecycle_journals") :
             c = Row("lifecycle", r.id, r.s, r.ref, r.n)
  <2> DEFINE rows == {r \in In(db, "project_lifecycle_journals") :
                        r.id # "none" /\ TerminalJournal(db, r) = TRUE}
  <2>1. Rows(rows) /\ rows \subseteq In(db, "project_lifecycle_journals")
    BY DEF Rows, In
  <2>2. ReadLifecycle(db, "none", TRUE) = As(rows, "lifecycle")
    BY DEF ReadLifecycle
  <2> HIDE DEF rows
  <2>3. ASSUME NEW c \in As(rows, "lifecycle")
        PROVE  c.t = "lifecycle" /\ \E r \in rows : c = Row("lifecycle", r.id, r.s, r.ref, r.n)
    BY <2>1, TablesOfRows
  <2>4. Rows(As(rows, "lifecycle"))
    BY <2>1, TablesOfRows
  <2> QED BY <2>1, <2>2, <2>3, <2>4
<1>2. \A kinds : kinds \subseteq Kept => Copy(db, kinds) \subseteq Copy(db, Kept)
  BY DEF Copy
<1>3. records \subseteq ReadLifecycle(db, "none", TRUE) \cup Copy(db, Kept)
  BY <1>2 DEF ReadTerminal, ReadReceiptKeys, ReadRedemptions, ReadResponders, ReadEnvelopes,
              ReadTombstones, Filtered
<1>4. \A c \in Copy(db, Kept) :
        /\ c.t \in Kept
        /\ \E r \in In(db, Plain[c.t]) : c = Row(c.t, r.id, r.s, r.ref, r.n)
  BY CopiesOfRows
<1>5. Rows(records)
  <2>1. Rows(Copy(db, Kept))
    BY CopiesOfRows
  <2> QED BY <1>1, <1>3, <2>1 DEF Rows
<1>6. ASSUME NEW x \in TerminalRows(records)
      PROVE  x \in db /\ x.t # "projects"
  <2>1. CASE x \in As(In(records, "lifecycle"), "project_lifecycle_journals")
    <3>1. PICK c \in In(records, "lifecycle") :
            x = Row("project_lifecycle_journals", c.id, c.s, c.ref, c.n)
      BY <1>5, <2>1, TablesOfRows DEF Rows, In
    <3>2. c \in ReadLifecycle(db, "none", TRUE)
      BY <1>3, <1>4, <3>1 DEF In
    <3>3. PICK r \in In(db, "project_lifecycle_journals") :
            c = Row("lifecycle", r.id, r.s, r.ref, r.n)
      BY <1>1, <3>2
    <3>4. r \in db /\ r = Row("project_lifecycle_journals", r.id, r.s, r.ref, r.n)
      BY DEF In, Rows
    <3>5. x = r
      BY <3>1, <3>3, <3>4 DEF Row
    <3> QED BY <3>4, <3>5 DEF Row
  <2>2. CASE x \in PutBack(records, Kept)
    <3>1. PICK k \in Kept : x \in As(In(records, k), Plain[k])
      BY <2>2 DEF PutBack
    <3>2. PICK c \in In(records, k) : x = Row(Plain[k], c.id, c.s, c.ref, c.n)
      BY <1>5, <3>1, TablesOfRows DEF Rows, In
    <3>3. c \in Copy(db, Kept) /\ c.t = k
      BY <1>1, <1>3, <3>2 DEF In
    <3>4. PICK r \in In(db, Plain[k]) : c = Row(k, r.id, r.s, r.ref, r.n)
      BY <1>4, <3>3
    <3>5. r \in db /\ r = Row(Plain[k], r.id, r.s, r.ref, r.n)
      BY DEF In, Rows
    <3>6. x = r
      BY <3>2, <3>4, <3>5 DEF Row
    <3>7. Plain[k] # "projects"
      BY DEF Plain
    <3> QED BY <3>5, <3>6, <3>7 DEF In
  <2> QED BY <2>1, <2>2 DEF TerminalRows
<1> QED BY <1>5, <1>6

\* What an import inserts are rows, the Project's own among them.
LEMMA RowsImported ==
  ASSUME NEW records, Rows(records)
  PROVE  /\ Rows(ImportRows(records))
         /\ \A r \in In(records, "project") :
              Row("projects", r.id, "maintenance", r.ref, r.n) \in ImportRows(records)
<1>1. \A some : some \subseteq records => \A t : Rows(As(some, t))
  <2> SUFFICES ASSUME NEW some, some \subseteq records, NEW t
               PROVE  Rows(As(some, t))
    OBVIOUS
  <2>1. Rows(some)
    BY DEF Rows
  <2> QED BY <2>1, TablesOfRows
<1>2. \A t : In(records, t) \subseteq records
  BY DEF In
<1>3. \A kinds : Rows(PutBack(records, kinds))
  BY RowsPutBack
<1>4. \A r \in records : r.n \in Nat
  BY DEF Rows
<1>5. Rows(ImportProjectRow(records)) /\ Rows(ImportMembershipRecovery(records))
  BY <1>4 DEF ImportProjectRow, ImportMembershipRecovery, Rows, Row, In
<1>6. Rows(ImportMembers(records)) /\ Rows(ImportCollaboration(records))
  BY <1>1, <1>2, <1>3 DEF ImportMembers, ImportCollaboration, Rows
<1>7. /\ Rows(ImportEvents(records)) /\ Rows(ImportIdempotency(records))
      /\ Rows(ImportBindings(records))
  <2>1. /\ {r \in In(records, "eventCursor") : r.n > 0} \subseteq records
        /\ {r \in In(records, "idempotency") : r.s \notin Synthetic} \subseteq records
    BY DEF In
  <2>2. Rows(As({r \in In(records, "eventCursor") : r.n > 0}, "project_event_sequences"))
    BY <1>1, <2>1
  <2>3. Rows(ImportEvents(records))
    BY <1>3, <2>2 DEF ImportEvents, Rows
  <2> QED BY <1>1, <1>2, <2>1, <2>3 DEF ImportIdempotency, ImportBindings
<1>8. Rows(ImportLifecycle(records))
  <2> DEFINE journals == {r \in In(records, "lifecycle") :
                            r.ref \notin {"create-project", "join-project"}}
             restarted == {r \in journals : r.s \in {"active", "recovery-required"}}
  <2>1. journals \subseteq records /\ restarted \subseteq records
    BY DEF In
  <2>2. ImportLifecycle(records) =
          As(journals, "project_lifecycle_journals") \cup As(restarted, "recovery_candidates")
    BY DEF ImportLifecycle
  <2> HIDE DEF journals, restarted
  <2> QED BY <1>1, <2>1, <2>2 DEF Rows
<1>9. Rows(ImportTransfers(records)) /\ Rows(ImportResponders(records))
  BY <1>1, <1>2, <1>3 DEF ImportTransfers, ImportResponders, Rows
<1>10. /\ Rows(ImportLeaveReplays(records)) /\ Rows(ImportInvitations(records))
       /\ Rows(ImportOverrides(records)) /\ Rows(ImportOffers(records))
       /\ Rows(ImportEnvelopes(records))
  BY <1>1, <1>2, <1>3 DEF ImportLeaveReplays, ImportInvitations, ImportOverrides, ImportOffers,
                          ImportEnvelopes
<1>11. ASSUME NEW x \in ImportRows(records)
       PROVE  \E group : Rows(group) /\ x \in group
  BY <1>5, <1>6, <1>7, <1>8, <1>9, <1>10 DEF ImportRows
<1>12. ImportProjectRow(records) \subseteq ImportRows(records)
  BY DEF ImportRows
<1> QED BY <1>11, <1>12 DEF Rows, ImportProjectRow

-----------------------------------------------------------------------------
(* Restore: phases. *)

LEMMA PhaseOrder ==
  /\ \A phase : AtLeast(phase, "coordination-imported") <=> phase \in Imported
  /\ \A phase : AtLeast(phase, "repositories-staged") <=> phase \in Stored
<1>1. /\ DOMAIN Phases = 1 .. 9
      /\ Phases[1] = "validated" /\ Phases[2] = "database-created"
      /\ Phases[3] = "coordination-imported" /\ Phases[4] = "repositories-staged"
      /\ Phases[5] = "pair-prepared" /\ Phases[6] = "repositories-published"
      /\ Phases[7] = "authority-published" /\ Phases[8] = "verified"
      /\ Phases[9] = "completed"
  BY DEF Phases
<1>2. \A i \in 1 .. 9 : i \in {1, 2, 3, 4, 5, 6, 7, 8, 9}
  OBVIOUS
<1>3. \A i, j \in 1 .. 9 : Phases[i] = Phases[j] => i = j
  BY <1>1, <1>2
<1>4. \A j \in 1 .. 9 : \A phase :
        AtLeast(phase, Phases[j]) <=> \E i \in 1 .. 9 : Phases[i] = phase /\ i >= j
  BY <1>1, <1>3 DEF AtLeast
<1>5. \A i : (i \in 1 .. 9 /\ i >= 3 <=> i \in 3 .. 9) /\ (i \in 1 .. 9 /\ i >= 4 <=> i \in 4 .. 9)
  OBVIOUS
<1>6. /\ \A phase : AtLeast(phase, "coordination-imported") <=> \E i \in 3 .. 9 : Phases[i] = phase
      /\ \A phase : AtLeast(phase, "repositories-staged") <=> \E i \in 4 .. 9 : Phases[i] = phase
  <2>1. \A phase : AtLeast(phase, Phases[3]) <=> \E i \in 1 .. 9 : Phases[i] = phase /\ i >= 3
    BY <1>4
  <2>2. \A phase : AtLeast(phase, Phases[4]) <=> \E i \in 1 .. 9 : Phases[i] = phase /\ i >= 4
    BY <1>4
  <2> QED BY <1>1, <1>5, <2>1, <2>2
<1>7. \A i \in 3 .. 9 : i = 3 \/ i \in 4 .. 9
  OBVIOUS
<1>8. \A phase : (\E i \in 4 .. 9 : Phases[i] = phase) <=> phase \in Stored
  BY <1>1, <1>2 DEF Stored, Marked, InPlace, Authoritative
<1> QED BY <1>1, <1>6, <1>7, <1>8 DEF Imported

\* A phase stands for all that the phases before it stand for.
LEMMA NextPhase ==
  ASSUME NEW next, NEW phase, Follows(next, phase)
  PROVE  /\ next \in Phase /\ phase \in Phase
         /\ phase \in Imported => next \in Imported
         /\ phase \in Stored => next \in Stored
         /\ phase \in Marked => next \in Marked
         /\ phase \in InPlace => next \in InPlace
<1>1. PICK i \in DOMAIN Phases : i > 1 /\ Phases[i] = next /\ Phases[i - 1] = phase
  BY DEF Follows
<1>2. i \in {2, 3, 4, 5, 6, 7, 8, 9}
  BY <1>1 DEF Phases
<1> QED BY <1>1, <1>2 DEF Phases, Phase, Imported, Stored, Marked, InPlace, Authoritative

-----------------------------------------------------------------------------
(* The catalog: nothing else moves while it is composed. *)

LEMMA NoTerminalRows ==
  TerminalRows({}) = {}
BY DEF TerminalRows, PutBack, As, In

\* No restore has begun, and nothing of an earlier one is left.
Idle ==
  /\ call = NoCall /\ write = NoWrite
  /\ journal = NoFile /\ journalPart = NoFile /\ marker = NoFile /\ markerPart = NoFile
  /\ removal = NoFile /\ removalPart = NoFile
  /\ NoDatabase /\ NoRepositories

TargetInv ==
  /\ FileTypes /\ CallTypes /\ Begun /\ DatabaseInv
  /\ PhaseInv /\ WriteInv /\ CallInv /\ RemovalInv

LEMMA IdleHolds == Idle => TargetInv
<1> SUFFICES ASSUME Idle PROVE TargetInv
  OBVIOUS
<1> USE DEF Idle, NoCall, NoWrite, NoFile
<1>1. FileTypes /\ CallTypes /\ Begun
  BY DEF FileTypes, CallTypes, Begun
<1>2. DatabaseInv
  BY DEF DatabaseInv, NoDatabase, Nothing, Rows, Live
<1>3. PhaseInv
  <2>1. "none" \notin Imported
    BY DEF Imported, Stored, Marked, InPlace, Authoritative
  <2> QED BY <2>1 DEF PhaseInv, Reached, Unreached, NoDatabase, NoRepositories, Imported, Stored,
                      Marked, InPlace
<1>4. WriteInv
  BY DEF WriteInv, Writing, Journals, Phase, Imported, Stored, Marked, InPlace, Authoritative
<1>5. CallInv /\ RemovalInv
  BY DEF CallInv, RemovalInv, Writing, Unfinished, Removing, Cleaned
<1> QED BY <1>1, <1>2, <1>3, <1>4, <1>5 DEF TargetInv

LEMMA InitHolds == Init => RestoreInv
<1> SUFFICES ASSUME Init PROVE RestoreInv
  OBVIOUS
<1>1. TargetInv
  BY IdleHolds DEF Init, Idle, NoDatabase, NoRepositories
<1>2. SourceInv
  <2>1. source = [p \in Projects |-> source[p]]
    BY SourcesAssumption DEF Init
  <2>2. ASSUME NEW p \in Projects
        PROVE  /\ Rows(source[p])
               /\ Placed(p) \/ Ended(p)
               /\ \A r \in In(source[p], "projects") : r.id = p /\ r.ref = "main"
    BY SourcesAssumption DEF Init, Rows, Placed, Ended
  <2> QED BY <2>1, <2>2 DEF SourceInv
<1>3. CatalogInv
  <2>1. \A p \in Projects : entries[p] = {} /\ terminals[p] = {}
    BY DEF Init, Nothing
  <2>2. \A p \in Projects : TerminalRows(terminals[p]) = {}
    BY <2>1, NoTerminalRows
  <2> QED BY <2>1, <2>2 DEF Init, CatalogInv, Live, Nothing, Rows, In, CatalogWhole
<1> QED BY <1>1, <1>2, <1>3 DEF RestoreInv, TargetInv

LEMMA BeforePublication ==
  ASSUME RestoreInv, taking # "published", UNCHANGED <<files, coordination, repositories, process>>
  PROVE  TargetInv'
<1>1. Idle
  BY DEF RestoreInv, Begun, PhaseInv, Unreached, Idle, NoFile, NoRepositories, Imported, Stored,
         Marked, InPlace, Authoritative
<1>2. Idle'
  BY <1>1 DEF Idle, NoDatabase, NoRepositories, files, coordination, repositories, process
<1> QED BY <1>2, IdleHolds, PTL

LEMMA RetireHolds ==
  ASSUME RestoreInv, NEW p \in Projects, Retire(p)
  PROVE  SourceInv' /\ CatalogInv' /\ TargetInv'
<1> DEFINE g == (CHOOSE r \in In(source[p], "projects") : TRUE).n
<1>1. TargetInv'
  BY BeforePublication DEF Retire
<1>2. g \in Nat
  <2>1. \E r \in In(source[p], "projects") : TRUE
    BY DEF Retire
  <2> QED BY <2>1 DEF RestoreInv, SourceInv, Rows, In
<1>3. /\ Rows(RetiredRows(source[p])) /\ In(RetiredRows(source[p]), "projects") = {}
      /\ In(RetiredRows(source[p]), "project_tombstones") # {}
  <2> HIDE DEF g
  <2>1. \A x \in RetiredRows(source[p]) :
          \/ x = Row("project_tombstones", "retirement", "retire", "none", g)
          \/ x = Row("project_lifecycle_journals", "retirement", "completed", "retire", 0)
          \/ x = Row("project_terminal_responders", "retirement", "retire", "retirement", 0)
          \/ \E m :
               x = Row("project_terminal_acknowledgements", m, "unacknowledged", "retirement", 0)
    BY DEF RetiredRows, g
  <2>2. Row("project_tombstones", "retirement", "retire", "none", g) \in RetiredRows(source[p])
    BY DEF RetiredRows, g
  <2>3. Rows(RetiredRows(source[p])) /\ In(RetiredRows(source[p]), "projects") = {}
    BY <1>2, <2>1 DEF Rows, Row, In
  <2> QED BY <2>2, <2>3 DEF Row, In
<1>4. source' = [source EXCEPT ![p] = RetiredRows(source[p])]
  BY DEF Retire
<1>5. SourceInv' /\ \A q \in Projects : Ended(q) => Ended(q)'
  BY <1>3, <1>4 DEF RestoreInv, SourceInv, Placed, Ended
<1>6. CatalogInv'
  <2>1. UNCHANGED <<taking, listing, entries, terminals>> /\ taking # "published"
    BY DEF Retire
  <2> QED BY <1>5, <2>1 DEF RestoreInv, CatalogInv, Live, CatalogWhole
<1> QED BY <1>1, <1>5, <1>6

LEMMA ListHolds ==
  ASSUME RestoreInv, ListProjects
  PROVE  SourceInv' /\ CatalogInv' /\ TargetInv'
<1>1. TargetInv'
  BY BeforePublication DEF ListProjects
<1>2. SourceInv'
  BY DEF RestoreInv, SourceInv, ListProjects, Placed, Ended
<1>3. CatalogInv'
  <2>1. /\ entries' = [p \in Projects |-> IF Placed(p) THEN entries[p] ELSE {}]
        /\ terminals' = terminals /\ taking' = "capture" /\ source' = source
        /\ listing' = {p \in Projects : Placed(p)}
    BY DEF ListProjects
  <2>2. \A p \in Live' : p \in Live /\ entries'[p] = entries[p]
    BY <2>1 DEF Live
  <2>3. \A p \in Projects \ listing' : Ended(p)'
    BY <2>1 DEF RestoreInv, SourceInv, Ended
  <2> QED BY <2>1, <2>2, <2>3 DEF RestoreInv, CatalogInv, CatalogWhole
<1> QED BY <1>1, <1>2, <1>3

LEMMA CaptureHolds ==
  ASSUME RestoreInv, NEW p \in Projects, CaptureProject(p)
  PROVE  SourceInv' /\ CatalogInv' /\ TargetInv'
<1>1. TargetInv'
  BY BeforePublication DEF CaptureProject
<1>2. SourceInv'
  BY DEF RestoreInv, SourceInv, CaptureProject, Placed, Ended
<1>3. CASE Placed(p)
  <2> DEFINE records == ReadBackup(source[p], BackupOperation, "source", 1)
  <2>1. /\ entries' = [entries EXCEPT ![p] = records] /\ Readable(source[p])
        /\ UNCHANGED <<taking, listing, terminals, source>> /\ taking = "capture"
    BY <1>3 DEF CaptureProject
  <2>2. Rows(source[p]) /\ \A r \in In(source[p], "projects") : r.id = p /\ r.ref = "main"
    BY DEF RestoreInv, SourceInv
  <2>3. Rows(records) /\ In(records, "project") = ReadProject(source[p])
    BY <2>2, RecordsOfProject
  <2>4. In(source[p], "projects") # {}
    BY <2>1, FS_EmptySet DEF Readable
  <2> HIDE DEF records
  <2>5. Records(records, p)
    <3>1. \A r \in In(source[p], "projects") :
            Row("project", r.id, "none", r.ref, r.n) \in ReadProject(source[p])
      BY DEF ReadProject
    <3>2. \A x \in ReadProject(source[p]) : x.id = p /\ x.ref = "main"
      BY <2>2 DEF ReadProject, Row
    <3> QED BY <2>3, <2>4, <3>1, <3>2 DEF Records
  <2>6. \A q \in Live' : Records(entries'[q], q)
    BY <2>1, <2>5 DEF RestoreInv, CatalogInv, Live
  <2>7. entries' = [q \in Projects |-> entries'[q]]
    BY <2>1 DEF RestoreInv, CatalogInv
  <2> QED BY <1>1, <1>2, <2>1, <2>6, <2>7 DEF RestoreInv, CatalogInv, CatalogWhole, Ended
<1>4. CASE ~Placed(p)
  <2>1. UNCHANGED <<listing, terminals, source, entries>> /\ taking' = "list"
    BY <1>4 DEF CaptureProject
  <2> QED BY <1>1, <1>2, <2>1 DEF RestoreInv, CatalogInv, CatalogWhole, Live
<1> QED BY <1>3, <1>4

LEMMA CapturesDoneHolds ==
  ASSUME RestoreInv, CapturesDone
  PROVE  SourceInv' /\ CatalogInv' /\ TargetInv'
<1>1. TargetInv'
  BY BeforePublication DEF CapturesDone
<1>2. SourceInv'
  BY DEF RestoreInv, SourceInv, CapturesDone, Placed, Ended
<1>3. CatalogInv'
  BY DEF RestoreInv, CatalogInv, CapturesDone, CatalogWhole, Live, Ended
<1> QED BY <1>1, <1>2, <1>3

LEMMA PublishCatalogHolds ==
  ASSUME RestoreInv, PublishCatalog
  PROVE  SourceInv' /\ CatalogInv' /\ TargetInv'
<1>1. TargetInv'
  BY BeforePublication DEF PublishCatalog
<1>2. SourceInv'
  BY DEF RestoreInv, SourceInv, PublishCatalog, Placed, Ended
<1>3. CASE \E p \in TerminalProjects : TerminalConflict(p)
  <2>1. UNCHANGED <<listing, terminals, source, entries>> /\ taking' = "list"
    BY <1>3 DEF PublishCatalog
  <2> QED BY <1>1, <1>2, <2>1 DEF RestoreInv, CatalogInv, CatalogWhole, Live
<1>4. CASE ~ \E p \in TerminalProjects : TerminalConflict(p)
  <2>1. /\ taking = "terminal" /\ taking' = "published"
        /\ UNCHANGED <<source, listing, entries>>
        /\ terminals' = [p \in Projects |->
                           IF p \in TerminalProjects THEN ReadTerminal(source[p]) ELSE {}]
    BY <1>4 DEF PublishCatalog
  <2>2. ASSUME NEW p \in Projects
        PROVE  Rows(TerminalRows(terminals'[p])) /\ In(TerminalRows(terminals'[p]), "projects") = {}
    <3>1. Rows(source[p])
      BY DEF RestoreInv, SourceInv
    <3>2. CASE p \in TerminalProjects
      <4>1. terminals'[p] = ReadTerminal(source[p])
        BY <2>1, <3>2
      <4> QED BY <3>1, <4>1, TerminalRowsReadBack DEF Rows, In
    <3>3. CASE p \notin TerminalProjects
      <4>1. TerminalRows(terminals'[p]) = {}
        BY <2>1, <3>3, NoTerminalRows
      <4> QED BY <4>1 DEF Rows, In
    <3> QED BY <3>2, <3>3
  <2>3. ASSUME NEW p \in Projects
        PROVE  p \in (Live \cup Terminal)'
    <3>1. CASE p \in listing
      BY <2>1, <3>1 DEF RestoreInv, CatalogInv, Live
    <3>2. CASE p \notin listing
      <4>1. PICK c \in source[p] : c.t = "project_tombstones"
        BY <2>1, <3>2 DEF RestoreInv, CatalogInv, Ended, In
      <4>2. p \in TerminalProjects
        BY <4>1 DEF TerminalProjects, In
      <4>3. [c EXCEPT !.t = "tombstone"] \in ReadTombstones(source[p])
        <5>1. Plain["tombstone"] = "project_tombstones"
          BY DEF Plain
        <5> QED BY <4>1, <5>1 DEF ReadTombstones, Copy, As, In
      <4>4. ReadTerminal(source[p]) # {}
        BY <4>3 DEF ReadTerminal
      <4> QED BY <2>1, <4>2, <4>4 DEF Terminal
    <3> QED BY <3>1, <3>2
  <2>4. ASSUME NEW p \in (Live \cap Terminal)', NEW c \in In(terminals'[p], "tombstone")
        PROVE  c.s # "retire" /\ \A r \in In(entries'[p], "project") : c.n < r.n
    <3>1. /\ p \in Projects /\ entries[p] # {} /\ p \in TerminalProjects
          /\ terminals'[p] = ReadTerminal(source[p])
      BY <2>1 DEF Live, Terminal
    <3>2. c \in In(ReadTerminal(source[p]), "tombstone") /\ ~TerminalConflict(p)
      BY <1>4, <3>1
    <3>3. c.s # "retire" /\ \A r \in In(entries[p], "project") : ~(c.n >= r.n)
      BY <3>1, <3>2 DEF TerminalConflict
    <3>4. c.n \in Nat
      <4>1. Rows(source[p])
        BY <3>1 DEF RestoreInv, SourceInv
      <4>2. Rows(ReadTerminal(source[p]))
        BY <4>1, TerminalRowsReadBack
      <4> QED BY <3>2, <4>2 DEF Rows, In
    <3>5. \A r \in In(entries[p], "project") : r.n \in Nat
      BY <3>1 DEF RestoreInv, CatalogInv, Live, Records, Rows, In
    <3> QED BY <2>1, <3>3, <3>4, <3>5
  <2>5. CatalogWhole'
    BY <2>3, <2>4 DEF CatalogWhole, Live, Terminal
  <2>6. terminals' = [p \in Projects |-> terminals'[p]]
    BY <2>1
  <2> QED BY <1>1, <1>2, <2>1, <2>2, <2>5, <2>6 DEF RestoreInv, CatalogInv, Live
<1> QED BY <1>3, <1>4

-----------------------------------------------------------------------------
(* Calls and where they go. *)

LEMMA CatalogKept ==
  ASSUME RestoreInv, UNCHANGED backup
  PROVE  /\ SourceInv' /\ CatalogInv'
         /\ Live' = Live /\ Terminal' = Terminal /\ entries' = entries /\ terminals' = terminals
         /\ taking' = taking
<1>1. UNCHANGED <<source, taking, listing, entries, terminals>>
  BY DEF backup
<1>2. Live' = Live /\ Terminal' = Terminal
  BY <1>1 DEF Live, Terminal
<1>3. SourceInv'
  BY <1>1 DEF RestoreInv, SourceInv, Placed, Ended
<1>4. CatalogInv'
  BY <1>1, <1>2 DEF RestoreInv, CatalogInv, CatalogWhole, Ended
<1> QED BY <1>1, <1>2, <1>3, <1>4

LEMMA Published ==
  ASSUME RestoreInv, call # NoCall \/ write # NoWrite \/ Restoring
  PROVE  taking = "published"
BY DEF RestoreInv, Begun, Restoring

\* Where nothing but the process changes, what is left behind stays as it is.
LEMMA LeftBehind ==
  ASSUME RestoreInv, UNCHANGED <<backup, files, coordination, repositories>>, taking = "published"
  PROVE  /\ FileTypes' /\ Begun' /\ DatabaseInv' /\ PhaseInv'
         /\ Planned(journalPart)' <=> Planned(journalPart)
<1>1. /\ Live' = Live /\ Terminal' = Terminal /\ entries' = entries /\ terminals' = terminals
      /\ taking' = taking
  BY CatalogKept
<1>2. /\ UNCHANGED <<journal, journalPart, marker, markerPart, removal, removalPart>>
      /\ UNCHANGED <<schema, fence, database, placement>> /\ UNCHANGED <<staged, published>>
  BY DEF files, coordination, repositories
<1>3. FileTypes' /\ Begun'
  BY <1>1, <1>2 DEF RestoreInv, FileTypes, Begun
<1>4. \A phase : Reached(phase)' <=> Reached(phase)
  BY <1>1, <1>2 DEF Reached, TerminalsThere, ProjectRow, Generation
<1>5. DatabaseInv'
  BY <1>1, <1>2 DEF RestoreInv, DatabaseInv, NoDatabase, ProjectRow, Generation, SourceGeneration
<1>6. PhaseInv'
  BY <1>2, <1>4 DEF RestoreInv, PhaseInv, Unreached, NoDatabase
<1>7. Planned(journalPart)' <=> Planned(journalPart)
  BY <1>2, <1>4 DEF Planned
<1> QED BY <1>3, <1>5, <1>6, <1>7

LEMMA CallMoves ==
  ASSUME RestoreInv, UNCHANGED <<backup, files, coordination, repositories>>, taking = "published",
         write' = NoWrite, CallTypes', CallInv', RemovalInv'
  PROVE  TargetInv'
<1>1. /\ FileTypes' /\ Begun' /\ DatabaseInv' /\ PhaseInv'
      /\ Planned(journalPart)' <=> Planned(journalPart)
  BY LeftBehind
<1>2. WriteInv'
  BY <1>1 DEF RestoreInv, WriteInv, Writing, NoWrite, files
<1> QED BY <1>1, <1>2 DEF TargetInv

\* A call that has not begun, or that looks around, writes nothing.
LEMMA NothingWritten ==
  ASSUME RestoreInv, call.at \in {"idle", "inspect"} \cup Removing
  PROVE  write = NoWrite
BY DEF RestoreInv, CallTypes, WriteInv, CallInv, Writing, Removing

LEMMA BeginHolds ==
  ASSUME RestoreInv, CallRestore \/ CallCancel \/ CallRecover
  PROVE  UNCHANGED backup /\ TargetInv'
<1>1. /\ UNCHANGED <<backup, files, coordination, repositories, write>> /\ call = NoCall
      /\ \E op \in {"restore", "cancel", "recover"} : call' = [op |-> op, at |-> "inspect"]
  BY DEF CallRestore, CallCancel, CallRecover, Begin
<1>2. taking = "published"
  BY Published DEF CallRestore, CallCancel, CallRecover, Restoring
<1>3. write = NoWrite
  BY <1>1, NothingWritten DEF NoCall
<1>4. call'.at = "inspect" /\ CallTypes'
  BY <1>1, <1>3 DEF CallTypes
<1>5. CallInv'
  BY <1>4 DEF CallInv, Cleaned
<1>6. RemovalInv'
  BY <1>1, <1>4 DEF RestoreInv, RemovalInv, Unfinished, NoDatabase, NoRepositories, Removing, files,
                    coordination, repositories
<1> QED BY <1>1, <1>2, <1>3, <1>4, <1>5, <1>6, CallMoves

\* Every way a call returns.
LEMMA ReturnHolds ==
  ASSUME RestoreInv, UNCHANGED <<backup, files, coordination, repositories>>, call # NoCall,
         call' = NoCall, write' = NoWrite
  PROVE  TargetInv'
<1>1. taking = "published"
  BY Published
<1>2. CallTypes' /\ call'.at = "idle"
  BY DEF CallTypes, NoCall
<1>3. CallInv'
  BY <1>2 DEF CallInv, Cleaned
<1>4. RemovalInv'
  BY <1>2 DEF RestoreInv, RemovalInv, Unfinished, NoDatabase, NoRepositories, Removing, files,
              coordination, repositories
<1> QED BY <1>1, <1>2, <1>3, <1>4, CallMoves

LEMMA EndHolds ==
  ASSUME RestoreInv, Stop \/ Return \/ Completed \/ CancelRefused
  PROVE  UNCHANGED backup /\ TargetInv'
<1>1. UNCHANGED <<backup, files, coordination, repositories>> /\ call' = NoCall
  BY DEF Stop, Return, Completed, CancelRefused
<1>2. call # NoCall
  BY DEF Stop, Return, Completed, CancelRefused, Running, Refused, StagingBarred, Settled,
         Inspecting, NoCall
<1>3. write' = NoWrite
  BY DEF Stop, Return, Completed, CancelRefused, Running, Refused, StagingBarred, Settled,
         Inspecting
<1> QED BY <1>1, <1>2, <1>3, ReturnHolds

LEMMA GoHolds ==
  ASSUME RestoreInv, RecoverRemoval \/ ResumeRun \/ ResumeCleanup
  PROVE  UNCHANGED backup /\ TargetInv'
<1>1. UNCHANGED <<backup, files, coordination, repositories, write>> /\ call.at = "inspect"
  BY DEF RecoverRemoval, ResumeRun, ResumeCleanup, Settled, Inspecting
<1>2. PICK at : at \in {"unmark", "run", "cleanup"} /\ call' = [call EXCEPT !.at = at]
  BY DEF RecoverRemoval, ResumeRun, ResumeCleanup
<1>3. write = NoWrite
  BY <1>1, NothingWritten
<1>4. taking = "published"
  BY <1>1, Published DEF NoCall
<1>5. CallTypes' /\ call'.at = at
  BY <1>1, <1>2, <1>3 DEF RestoreInv, CallTypes, NoCall, Removing
<1>6. /\ at = "unmark" => Unfinished
      /\ at = "run" => ~Unfinished /\ journalPart = NoFile /\ journal # NoFile /\ ~journal.cleanup
      /\ at = "cleanup" => ~Unfinished /\ journalPart = NoFile /\ journal.cleanup
  <2>1. CASE RecoverRemoval
    <3>1. call' = [call EXCEPT !.at = "unmark"] /\ Unfinished
      BY <2>1 DEF RecoverRemoval, Unfinished
    <3> QED BY <1>1, <1>2, <1>5, <3>1 DEF RestoreInv, CallTypes, NoCall
  <2>2. CASE ResumeRun
    <3>1. /\ call' = [call EXCEPT !.at = "run"] /\ ~Unfinished /\ journalPart = NoFile
          /\ journal # NoFile /\ ~journal.cleanup
      BY <2>2 DEF ResumeRun, Settled, JournalRead
    <3> QED BY <1>1, <1>2, <1>5, <3>1 DEF RestoreInv, CallTypes, NoCall
  <2>3. CASE ResumeCleanup
    <3>1. /\ call' = [call EXCEPT !.at = "cleanup"] /\ ~Unfinished /\ journalPart = NoFile
          /\ journal.cleanup
      BY <2>3 DEF ResumeCleanup, Settled, JournalRead
    <3> QED BY <1>1, <1>2, <1>5, <3>1 DEF RestoreInv, CallTypes, NoCall
  <2> QED BY <2>1, <2>2, <2>3
<1>7. UNCHANGED <<journal, journalPart, marker, markerPart, removal, removalPart, schema, fence,
                  database, staged, published>>
  BY <1>1 DEF files, coordination, repositories
<1>8. Unfinished' <=> Unfinished
  BY <1>7 DEF Unfinished
<1>9. Unfinished => journalPart = NoFile
  BY DEF RestoreInv, RemovalInv
<1>10. CallInv'
  BY <1>2, <1>5, <1>6, <1>7, <1>8, <1>9 DEF CallInv, Cleaned
<1>11. RemovalInv'
  BY <1>2, <1>5, <1>6, <1>7, <1>8 DEF RestoreInv, RemovalInv, NoDatabase, NoRepositories, Removing
<1> QED BY <1>1, <1>3, <1>4, <1>5, <1>10, <1>11, CallMoves

LEMMA RepositoriesRemovedHolds ==
  ASSUME RestoreInv, RepositoriesRemoved
  PROVE  UNCHANGED backup /\ TargetInv'
<1>1. /\ UNCHANGED <<backup, files, coordination, repositories, write>> /\ write = NoWrite
      /\ call.at = "repositories" /\ call' = [call EXCEPT !.at = "staging"]
  BY DEF RepositoriesRemoved, Cleaning, Then
<1>2. taking = "published"
  BY <1>1, Published DEF NoCall
<1>3. CallTypes' /\ call'.at = "staging"
  BY <1>1 DEF RestoreInv, CallTypes, NoCall, Cleaned
<1>4. journal.phase \in Stored => NoRepositories
  <2>1. AtLeast(journal.phase, "repositories-staged") => staged \cup published = {}
    BY DEF RepositoriesRemoved
  <2> QED BY <2>1, PhaseOrder DEF NoRepositories
<1>5. UNCHANGED <<journal, journalPart, marker, markerPart, removal, removalPart, schema, fence,
                  database, staged, published>>
  BY <1>1 DEF files, coordination, repositories
<1>6. journalPart = NoFile /\ journal.cleanup /\ NoDatabase
  BY <1>1 DEF RestoreInv, CallInv, Cleaned, Writing, NoWrite
<1>7. CallInv'
  BY <1>3, <1>4, <1>5, <1>6 DEF CallInv, NoDatabase, NoRepositories
<1>8. RemovalInv'
  BY <1>3, <1>5 DEF RestoreInv, RemovalInv, Unfinished, NoDatabase, NoRepositories, Removing
<1> QED BY <1>1, <1>2, <1>3, <1>7, <1>8, CallMoves

-----------------------------------------------------------------------------
(* Writing the journal. *)

LEMMA JournalWritten ==
  ASSUME RestoreInv, NEW next \in Phase, NEW cleanup \in BOOLEAN, WriteJournal(next, cleanup),
         UNCHANGED <<backup, coordination, repositories>>, taking = "published", ~Unfinished,
         Planned(Journal(next, cleanup)), call # NoCall,
         call' = [call EXCEPT !.at = IF cleanup THEN "cleanup" ELSE "run"]
  PROVE  TargetInv'
<1>1. /\ write' = [file |-> "journal", value |-> Journal(next, cleanup)] /\ journalPart' = Torn
      /\ UNCHANGED <<journal, marker, markerPart, removal, removalPart>>
      /\ UNCHANGED <<schema, fence, database, placement, staged, published>>
  BY DEF WriteJournal, Write, SetPart, coordination, repositories
<1>2. /\ Live' = Live /\ Terminal' = Terminal /\ entries' = entries /\ terminals' = terminals
      /\ taking' = taking
  BY CatalogKept
<1>3. Journal(next, cleanup) \in Journals /\ Torn \notin Journals /\ Torn # NoFile
  BY DEF Journal, Journals, Torn, NoFile, Phase, Imported, Stored, Marked, InPlace, Authoritative
<1>4. /\ call'.at = IF cleanup THEN "cleanup" ELSE "run"
      /\ FileTypes' /\ CallTypes' /\ Begun'
  <2>1. call' \in [op : {"restore", "cancel", "recover"},
                  at : {"inspect", "run", "import", "cleanup"} \cup Cleaned \cup Removing]
    BY DEF RestoreInv, CallTypes
  <2>2. call'.at = IF cleanup THEN "cleanup" ELSE "run"
    BY DEF RestoreInv, CallTypes
  <2> QED BY <1>1, <1>2, <1>3, <2>1, <2>2 DEF RestoreInv, FileTypes, CallTypes, Begun
<1>5. \A phase : Reached(phase)' <=> Reached(phase)
  BY <1>1, <1>2 DEF Reached, TerminalsThere, ProjectRow, Generation
<1>6. DatabaseInv'
  BY <1>1, <1>2 DEF RestoreInv, DatabaseInv, NoDatabase, ProjectRow, Generation, SourceGeneration
<1>7. PhaseInv'
  <2>1. Unreached(journal.phase)'
    BY <1>1, <1>3 DEF RestoreInv, PhaseInv, Unreached, NoDatabase
  <2>2. ~journal'.cleanup \/ fence' = "published" => Reached(journal.phase)'
    BY <1>1, <1>5 DEF RestoreInv, PhaseInv
  <2> QED BY <2>1, <2>2 DEF PhaseInv
<1>8. Planned(write.value)'
  BY <1>1, <1>5 DEF Planned
<1>9. ~Unfinished' /\ Writing("journal")' /\ ~Writing("marker")' /\ ~Writing("removal")'
  BY <1>1 DEF Unfinished, Writing
<1>10. WriteInv'
  <2>1. Part(write.file)' = Torn
    BY <1>1 DEF Part
  <2>2. write'.value.cleanup = cleanup
    BY <1>1 DEF Journal
  <2> QED BY <1>1, <1>3, <1>4, <1>8, <1>9, <2>1, <2>2 DEF WriteInv
<1>11. CallInv'
  BY <1>1, <1>4, <1>9 DEF CallInv, Cleaned
<1>12. RemovalInv'
  BY <1>4, <1>9 DEF RemovalInv, Removing
<1> QED BY <1>4, <1>6, <1>7, <1>10, <1>11, <1>12 DEF TargetInv

LEMMA CreateJournalHolds ==
  ASSUME RestoreInv, CreateJournal
  PROVE  UNCHANGED backup /\ TargetInv'
<1>0. WriteJournal("validated", FALSE)
  BY DEF CreateJournal
<1>1. /\ UNCHANGED <<backup, coordination, repositories>>
      /\ call' = [call EXCEPT !.at = "run"] /\ journal = NoFile /\ call # NoCall /\ ~Unfinished
  BY DEF CreateJournal, Settled, Inspecting, NoCall
<1>2. Planned(Journal("validated", FALSE)) /\ "validated" \in Phase
  BY <1>1 DEF Planned, Phase
<1>3. taking = "published"
  BY <1>1, Published
<1> QED BY <1>0, <1>1, <1>2, <1>3, JournalWritten

LEMMA RequestCleanupHolds ==
  ASSUME RestoreInv, RequestCleanup
  PROVE  UNCHANGED backup /\ TargetInv'
<1>0. WriteJournal(journal.phase, TRUE)
  BY DEF RequestCleanup
<1>1. /\ UNCHANGED <<backup, coordination, repositories>>
      /\ call' = [call EXCEPT !.at = "cleanup"] /\ journal # NoFile /\ ~journal.cleanup
      /\ call # NoCall /\ ~Unfinished
  BY DEF RequestCleanup, Settled, Inspecting, NoCall, Cancellable
<1>2. PICK phase \in Phase : phase = journal.phase
  BY <1>1 DEF RestoreInv, FileTypes, Journals
<1>3. Planned(Journal(phase, TRUE)) /\ WriteJournal(phase, TRUE)
  BY <1>0, <1>1, <1>2 DEF Planned, Journal
<1>4. taking = "published"
  BY <1>1, Published
<1> QED BY <1>1, <1>3, <1>4, JournalWritten

LEMMA AdvanceHolds ==
  ASSUME RestoreInv, NEW phase, NEW next, Running(phase), Advance(next), Follows(next, phase),
         Reached(phase) => Reached(next)
  PROVE  UNCHANGED backup /\ TargetInv'
<1>0. WriteJournal(next, FALSE)
  BY DEF Advance
<1>1. /\ UNCHANGED <<backup, coordination, repositories, call>>
      /\ call.at = "run" /\ write = NoWrite /\ journal.phase = phase /\ call # NoCall
  BY DEF Running, Advance, NoCall
<1>2. ~Unfinished /\ ~journal.cleanup
  BY <1>1 DEF RestoreInv, CallInv, Writing, NoWrite
<1>3. next \in Phase /\ Reached(next)
  BY <1>1, <1>2, NextPhase DEF RestoreInv, PhaseInv
<1>4. Planned(Journal(next, FALSE))
  BY <1>1, <1>2, <1>3 DEF Planned, Journal
<1>5. call' = [call EXCEPT !.at = "run"]
  BY <1>1 DEF RestoreInv, CallTypes
<1>6. taking = "published"
  BY <1>1, Published
<1> QED BY <1>0, <1>1, <1>2, <1>3, <1>4, <1>5, <1>6, JournalWritten

LEMMA PhaseSteps ==
  /\ Follows("database-created", "validated")
  /\ Follows("coordination-imported", "database-created")
  /\ Follows("repositories-staged", "coordination-imported")
  /\ Follows("pair-prepared", "repositories-staged")
  /\ Follows("repositories-published", "pair-prepared")
  /\ Follows("authority-published", "repositories-published")
  /\ Follows("verified", "authority-published")
  /\ Follows("completed", "verified")
<1>1. \A i \in 2 .. 9 : Follows(Phases[i], Phases[i - 1])
  <2> SUFFICES ASSUME NEW i \in 2 .. 9 PROVE Follows(Phases[i], Phases[i - 1])
    OBVIOUS
  <2>1. i \in DOMAIN Phases /\ i > 1
    BY DEF Phases
  <2> QED BY <2>1 DEF Follows
<1>2. \A i \in {2, 3, 4, 5, 6, 7, 8, 9} : i \in 2 .. 9
  OBVIOUS
<1>3. /\ Follows(Phases[2], Phases[1]) /\ Follows(Phases[3], Phases[2])
      /\ Follows(Phases[4], Phases[3]) /\ Follows(Phases[5], Phases[4])
      /\ Follows(Phases[6], Phases[5]) /\ Follows(Phases[7], Phases[6])
      /\ Follows(Phases[8], Phases[7]) /\ Follows(Phases[9], Phases[8])
  BY <1>1, <1>2
<1> QED BY <1>3 DEF Phases

LEMMA RunPhasesHold ==
  ASSUME RestoreInv,
         \/ DatabaseCreated \/ CoordinationImported \/ RepositoriesStaged \/ PairPreparedStep
         \/ RepositoriesPublished \/ AuthorityPublished \/ VerifyRestored \/ Complete
  PROVE  UNCHANGED backup /\ TargetInv'
<1> USE DEF Imported, Stored, Marked, InPlace, Authoritative
<1>1. CASE DatabaseCreated
  <2>1. Running("validated") /\ Advance("database-created")
    BY <1>1 DEF DatabaseCreated
  <2>2. Reached("database-created")
    BY DEF Reached
  <2> QED BY <2>1, <2>2, PhaseSteps, AdvanceHolds
<1>2. CASE CoordinationImported
  <2>1. Running("database-created") /\ Advance("coordination-imported")
    BY <1>2 DEF CoordinationImported
  <2>2. ImportExact
    BY <1>2 DEF CoordinationImported
  <2>3. \A p \in Live :
          \E state \in {"maintenance", "active"} : ProjectRow(p, state) \in database[p]
    BY <2>2 DEF ImportExact, RestoreInv, DatabaseInv
  <2>4. TerminalsThere
    <3> SUFFICES ASSUME NEW p \in Terminal PROVE TerminalRows(terminals[p]) \subseteq database[p]
      BY DEF TerminalsThere
    <3>1. Rows(database[p]) /\ ReadTerminal(database[p]) = terminals[p]
      BY <2>2 DEF ImportExact, TerminalContinues, RestoreInv, DatabaseInv, Terminal
    <3> QED BY <3>1, TerminalRowsReadBack
  <2>5. Reached("coordination-imported")
    BY <2>3, <2>4 DEF Reached
  <2> QED BY <2>1, <2>5, PhaseSteps, AdvanceHolds
<1>3. CASE RepositoriesStaged
  <2>1. Running("coordination-imported") /\ Advance("repositories-staged")
    BY <1>3 DEF RepositoriesStaged
  <2>2. Reached("coordination-imported") => Reached("repositories-staged")
    BY <1>3 DEF Reached, RepositoriesStaged, PublicationsListed
  <2> QED BY <2>1, <2>2, PhaseSteps, AdvanceHolds
<1>4. CASE PairPreparedStep
  <2>1. Running("repositories-staged") /\ Advance("pair-prepared")
    BY <1>4 DEF PairPreparedStep
  <2>2. Reached("repositories-staged") => Reached("pair-prepared")
    BY <1>4 DEF Reached, PairPreparedStep
  <2> QED BY <2>1, <2>2, PhaseSteps, AdvanceHolds
<1>5. CASE RepositoriesPublished
  <2>1. Running("pair-prepared") /\ Advance("repositories-published")
    BY <1>5 DEF RepositoriesPublished
  <2>2. Reached("pair-prepared") => Reached("repositories-published")
    BY <1>5 DEF Reached, RepositoriesPublished
  <2> QED BY <2>1, <2>2, PhaseSteps, AdvanceHolds
<1>6. CASE AuthorityPublished
  <2>1. Running("repositories-published") /\ Advance("authority-published")
    BY <1>6 DEF AuthorityPublished
  <2>2. Reached("repositories-published") => Reached("authority-published")
    BY <1>6 DEF Reached, AuthorityPublished, FencePublished, FenceIs
  <2> QED BY <2>1, <2>2, PhaseSteps, AdvanceHolds
<1>7. CASE VerifyRestored
  <2>1. Running("authority-published") /\ Advance("verified")
    BY <1>7 DEF VerifyRestored
  <2>2. Reached("authority-published") => Reached("verified")
    BY DEF Reached
  <2> QED BY <2>1, <2>2, PhaseSteps, AdvanceHolds
<1>8. CASE Complete
  <2>1. Running("verified") /\ Advance("completed")
    BY <1>8 DEF Complete
  <2>2. Reached("verified") => Reached("completed")
    BY DEF Reached
  <2> QED BY <2>1, <2>2, PhaseSteps, AdvanceHolds
<1> QED BY <1>1, <1>2, <1>3, <1>4, <1>5, <1>6, <1>7, <1>8

\* A request to clean up is withdrawn only over a published environment.
LEMMA WithdrawCleanupHolds ==
  ASSUME RestoreInv, WithdrawCleanup
  PROVE  UNCHANGED backup /\ TargetInv'
<1>0. WriteJournal("authority-published", FALSE)
  BY DEF WithdrawCleanup
<1>1. /\ UNCHANGED <<backup, coordination, repositories>> /\ fence = "published"
      /\ call' = [call EXCEPT !.at = "run"] /\ call.at = "cleanup" /\ call # NoCall
      /\ journal.phase = "repositories-published" /\ journal.cleanup
  BY DEF WithdrawCleanup, Then, Cleaning, NoCall, Journal
<1>2. Reached("authority-published")
  <2>1. Reached("repositories-published")
    BY <1>1 DEF RestoreInv, PhaseInv
  <2> QED BY <1>1, <2>1 DEF Reached, Imported, Stored, Marked, InPlace, Authoritative
<1>3. ~Unfinished
  BY <1>1 DEF RestoreInv, RemovalInv, NoDatabase
<1>4. Planned(Journal("authority-published", FALSE)) /\ "authority-published" \in Phase
  BY <1>1, <1>2, PhaseSteps, NextPhase DEF Planned, Journal
<1>5. taking = "published"
  BY <1>1, Published
<1> QED BY <1>0, <1>1, <1>3, <1>4, <1>5, JournalWritten

-----------------------------------------------------------------------------
(* Files. *)

\* Where the journal stays and a marker is only added, and only where it may be.
LEMMA MarkerMoves ==
  ASSUME RestoreInv, UNCHANGED <<backup, coordination, repositories, journal>>,
         marker' \in {marker, Volume},
         journal.phase \in Stored \/ UNCHANGED <<marker, markerPart>>
  PROVE  DatabaseInv' /\ PhaseInv' /\ \A phase : Reached(phase) => Reached(phase)'
<1>1. /\ Live' = Live /\ Terminal' = Terminal /\ entries' = entries /\ terminals' = terminals
  BY CatalogKept
<1>2. UNCHANGED <<schema, fence, database, placement, staged, published>>
  BY DEF coordination, repositories
<1>3. \A phase : Reached(phase) => Reached(phase)'
  BY <1>1, <1>2 DEF Reached, TerminalsThere, ProjectRow, Generation
<1>4. DatabaseInv'
  BY <1>1, <1>2 DEF RestoreInv, DatabaseInv, NoDatabase, ProjectRow, Generation, SourceGeneration
<1>5. Unreached(journal.phase)'
  BY <1>2 DEF RestoreInv, PhaseInv, Unreached, NoDatabase
<1>6. ~journal'.cleanup \/ fence' = "published" => Reached(journal.phase)'
  BY <1>2, <1>3 DEF RestoreInv, PhaseInv
<1> QED BY <1>3, <1>4, <1>5, <1>6 DEF PhaseInv

LEMMA JournalMoves ==
  ASSUME RestoreInv, NEW next \in Journals, Planned(next), journal' = next,
         UNCHANGED <<backup, coordination, repositories, marker, markerPart>>
  PROVE  DatabaseInv' /\ PhaseInv'
<1>1. /\ Live' = Live /\ Terminal' = Terminal /\ entries' = entries /\ terminals' = terminals
  BY CatalogKept
<1>2. UNCHANGED <<schema, fence, database, placement, staged, published>>
  BY DEF coordination, repositories
<1>3. \A phase : Reached(phase) => Reached(phase)'
  BY <1>1, <1>2 DEF Reached, TerminalsThere, ProjectRow, Generation
<1>4. \A phase : Unreached(phase) => Unreached(phase)'
  BY <1>2 DEF Unreached, NoDatabase
<1>5. /\ ~next.cleanup \/ fence = "published" => Reached(next.phase)
      /\ Unreached(next.phase)
      /\ fence = "published" => next.phase \in InPlace
  <2>1. CASE journal = NoFile /\ next = Journal("validated", FALSE)
    <3>1. Unreached("none")
      BY <2>1 DEF RestoreInv, PhaseInv, NoFile
    <3>2. "validated" \notin Imported
      BY DEF Imported, Stored, Marked, InPlace, Authoritative
    <3> QED BY <2>1, <3>1, <3>2
            DEF Journal, Reached, Unreached, NoDatabase, Imported, Stored, Marked, InPlace,
                Authoritative
  <2>2. CASE next.phase = journal.phase /\ next.cleanup /\ ~journal.cleanup
    BY <2>2 DEF RestoreInv, PhaseInv, DatabaseInv
  <2>3. CASE /\ Follows(next.phase, journal.phase) /\ ~next.cleanup /\ Reached(next.phase)
             /\ journal.cleanup => fence = "published"
    <3>1. /\ next.phase \in Phase
          /\ journal.phase \in Imported => next.phase \in Imported
          /\ journal.phase \in Stored => next.phase \in Stored
          /\ journal.phase \in Marked => next.phase \in Marked
          /\ journal.phase \in InPlace => next.phase \in InPlace
      BY <2>3, NextPhase
    <3>2. next.phase # "none"
      BY <3>1 DEF Phase, Imported, Stored, Marked, InPlace, Authoritative
    <3> QED BY <2>3, <3>1, <3>2 DEF RestoreInv, PhaseInv, DatabaseInv, Unreached
  <2> QED BY <2>1, <2>2, <2>3 DEF Planned
<1>6. DatabaseInv'
  BY <1>1, <1>2, <1>5
     DEF RestoreInv, DatabaseInv, NoDatabase, ProjectRow, Generation, SourceGeneration
<1>7. Reached(next.phase) => Reached(next.phase)'
  BY <1>3
<1>8. Unreached(next.phase)'
  BY <1>4, <1>5
<1>9. ~journal'.cleanup \/ fence' = "published" => Reached(journal.phase)'
  BY <1>2, <1>5, <1>7 DEF Reached
<1>10. Unreached(journal.phase)'
  BY <1>8 DEF Unreached
<1> QED BY <1>6, <1>9, <1>10 DEF PhaseInv

\* Journal files hold journals, and a marker names the volume.
LEMMA FileValues ==
  /\ NoFile \notin Journals /\ Torn \notin Journals
  /\ Torn # NoFile /\ Volume # NoFile /\ Torn # Volume
  /\ \A j \in Journals : j.phase # "none" /\ j.cleanup \in BOOLEAN
BY DEF Journals, NoFile, Torn, Volume, Phase, Imported, Stored, Marked, InPlace, Authoritative

LEMMA RemoveJournalHolds ==
  ASSUME RestoreInv, RemoveJournal
  PROVE  UNCHANGED backup /\ TargetInv'
<1>1. /\ call.at = "remove" /\ write = NoWrite /\ write' = [file |-> "removal", value |-> journal]
      /\ UNCHANGED <<call, journal, journalPart, marker, markerPart, removal>>
      /\ removalPart' = Torn /\ UNCHANGED <<backup, coordination, repositories>>
  BY DEF RemoveJournal, Cleaning, Write, SetPart
<1>2. journal.cleanup /\ NoDatabase /\ NoRepositories /\ journalPart = NoFile
  BY <1>1 DEF RestoreInv, CallInv, Cleaned, Writing, NoWrite
<1>3. journal \in Journals
  BY <1>2 DEF RestoreInv, FileTypes, NoFile
<1>4. taking = "published" /\ taking' = taking
  BY <1>1, Published, CatalogKept DEF NoCall
<1>5. DatabaseInv' /\ PhaseInv'
  BY <1>1, MarkerMoves
<1>6. NoDatabase' /\ NoRepositories'
  BY <1>1, <1>2 DEF NoDatabase, NoRepositories, coordination, repositories
<1>7. FileTypes' /\ CallTypes' /\ Begun'
  BY <1>1, <1>3, <1>4 DEF RestoreInv, FileTypes, CallTypes, Begun
<1>8. WriteInv'
  <2>1. /\ Writing("removal")' /\ ~Writing("journal")' /\ ~Writing("marker")'
        /\ Part(write.file)' = Torn
    BY <1>1 DEF Writing, Part
  <2> QED BY <1>1, <1>2, <2>1, FileValues DEF WriteInv
<1>9. CallInv'
  BY <1>1, <1>2, <1>6 DEF CallInv, Cleaned
<1>10. RemovalInv'
  BY <1>1, <1>2, <1>6 DEF RemovalInv, Removing
<1> QED BY <1>1, <1>5, <1>7, <1>8, <1>9, <1>10 DEF TargetInv

LEMMA WriteMarkerHolds ==
  ASSUME RestoreInv, WriteMarker
  PROVE  UNCHANGED backup /\ TargetInv'
<1>1. /\ call.at = "run" /\ write = NoWrite /\ write' = [file |-> "marker", value |-> Volume]
      /\ UNCHANGED <<call, journal, journalPart, marker, removal, removalPart>>
      /\ markerPart' = Torn /\ journal.phase = "repositories-staged"
      /\ UNCHANGED <<backup, coordination, repositories>>
  BY DEF WriteMarker, Running, Write, SetPart
<1>2. ~Unfinished /\ journal # NoFile /\ ~journal.cleanup /\ journalPart = NoFile
  BY <1>1 DEF RestoreInv, CallInv, Cleaned, Writing, NoWrite
<1>3. taking = "published" /\ taking' = taking
  BY <1>1, Published, CatalogKept DEF NoCall
<1>4. DatabaseInv' /\ PhaseInv'
  BY <1>1, MarkerMoves DEF Stored
<1>5. FileTypes' /\ CallTypes' /\ Begun'
  BY <1>1, <1>3 DEF RestoreInv, FileTypes, CallTypes, Begun
<1>6. ~Unfinished'
  BY <1>1, <1>2 DEF Unfinished
<1>7. WriteInv'
  <2>1. /\ Writing("marker")' /\ ~Writing("journal")' /\ ~Writing("removal")'
        /\ Part(write.file)' = Torn
    BY <1>1 DEF Writing, Part
  <2> QED BY <1>1, <1>2, <2>1, FileValues DEF WriteInv
<1>8. CallInv'
  BY <1>1, <1>2, <1>6 DEF CallInv, Cleaned
<1>9. RemovalInv'
  BY <1>1, <1>6 DEF RemovalInv, Removing
<1> QED BY <1>1, <1>4, <1>5, <1>7, <1>8, <1>9 DEF TargetInv

LEMMA PromoteMarkerHolds ==
  ASSUME RestoreInv, PromoteMarker
  PROVE  UNCHANGED backup /\ TargetInv'
<1>1. /\ call.at = "run" /\ write = NoWrite
      /\ UNCHANGED <<call, write, journal, journalPart, removal, removalPart>>
      /\ marker' = Volume /\ markerPart' = NoFile /\ journal.phase = "repositories-staged"
      /\ UNCHANGED <<backup, coordination, repositories>>
  BY DEF PromoteMarker, Running, SetPart, SetFile, process
<1>2. ~Unfinished /\ journal # NoFile /\ ~journal.cleanup /\ journalPart = NoFile
  BY <1>1 DEF RestoreInv, CallInv, Cleaned, Writing, NoWrite
<1>3. taking = "published" /\ taking' = taking
  BY <1>1, Published, CatalogKept DEF NoCall
<1>4. DatabaseInv' /\ PhaseInv'
  BY <1>1, MarkerMoves DEF Stored
<1>5. FileTypes' /\ CallTypes' /\ Begun'
  BY <1>1, <1>3 DEF RestoreInv, FileTypes, CallTypes, Begun
<1>6. ~Unfinished'
  BY <1>1, <1>2 DEF Unfinished
<1>7. WriteInv'
  BY <1>1, <1>2, FileValues DEF WriteInv, Writing, NoWrite
<1>8. CallInv'
  BY <1>1, <1>2, <1>6 DEF CallInv, Cleaned
<1>9. RemovalInv'
  BY <1>1, <1>6 DEF RemovalInv, Removing
<1> QED BY <1>1, <1>4, <1>5, <1>7, <1>8, <1>9 DEF TargetInv

LEMMA FillPartHolds ==
  ASSUME RestoreInv, FillPart
  PROVE  UNCHANGED backup /\ TargetInv'
<1>1. /\ write # NoWrite /\ UNCHANGED <<journal, marker, removal, call, write>>
      /\ UNCHANGED <<backup, coordination, repositories>>
      /\ journalPart' = IF write.file = "journal" THEN write.value ELSE journalPart
      /\ markerPart' = IF write.file = "marker" THEN write.value ELSE markerPart
      /\ removalPart' = IF write.file = "removal" THEN write.value ELSE removalPart
      /\ Part(write.file) = Torn
  BY DEF FillPart, SetPart, process
<1>2. taking = "published" /\ taking' = taking
  BY <1>1, Published, CatalogKept
<1>3. \/ write.file \in {"journal", "removal"} /\ write.value \in Journals
      \/ write.file = "marker" /\ write.value = Volume
  BY <1>1 DEF RestoreInv, CallTypes
<1>4. FileTypes' /\ CallTypes' /\ Begun'
  BY <1>1, <1>2, <1>3 DEF RestoreInv, FileTypes, CallTypes, Begun
<1>5. write.file = "marker" => journal.phase \in Stored
  BY DEF RestoreInv, WriteInv, Writing, Stored
<1>6. DatabaseInv' /\ PhaseInv' /\ \A phase : Reached(phase) => Reached(phase)'
  BY <1>1, <1>5, MarkerMoves
<1>7. \A part : Planned(part) => Planned(part)'
  <2>1. fence' = fence
    BY <1>1 DEF coordination
  <2> QED BY <1>1, <1>6, <2>1 DEF Planned
<1>8. Part(write.file)' = write.value
  BY <1>1, <1>3 DEF Part
<1>9. CASE write.file = "journal"
  <2>1. /\ ~Unfinished' /\ ~Unfinished
        /\ Writing("journal")' /\ ~Writing("marker")' /\ ~Writing("removal")'
    BY <1>1, <1>9 DEF RestoreInv, WriteInv, Writing, Unfinished
  <2>2. PICK next : next = write.value /\ Planned(next)
    BY <1>9 DEF RestoreInv, WriteInv, Writing
  <2>3. Planned(next)' /\ write'.value = next /\ journalPart' = next
    BY <1>1, <1>7, <1>9, <2>2
  <2>4. Planned(write.value)' /\ Planned(journalPart)'
    BY <2>3 DEF Planned
  <2>5. WriteInv'
    BY <1>1, <1>8, <1>9, <2>1, <2>4 DEF RestoreInv, WriteInv, Writing
  <2>6. call.at \in {"run", "cleanup"}
    BY <1>9 DEF RestoreInv, WriteInv, Writing
  <2>7. CallInv' /\ RemovalInv'
    BY <1>1, <2>1, <2>6 DEF CallInv, RemovalInv, Cleaned, Removing
  <2> QED BY <1>1, <1>4, <1>6, <2>5, <2>7 DEF TargetInv
<1>10. CASE write.file # "journal"
  <2>1. /\ ~Writing("journal")' /\ ~Writing("journal")
        /\ call.at \in {"run", "remove"} /\ journalPart' = journalPart
    BY <1>1, <1>3, <1>10 DEF RestoreInv, WriteInv, Writing
  <2>2. journalPart = NoFile
    BY <2>1 DEF RestoreInv, CallInv
  <2>3. Writing("marker")' <=> Writing("marker")
    BY <1>1 DEF Writing
  <2>4. Writing("removal")' <=> Writing("removal")
    BY <1>1 DEF Writing
  <2>5. WriteInv'
    BY <1>1, <1>8, <2>1, <2>2, <2>3, <2>4, FileValues DEF RestoreInv, WriteInv
  <2>6. Unfinished' <=> Unfinished
    BY <1>1, <1>3, <1>10, FileValues DEF Unfinished, Part
  <2>7. (NoDatabase' <=> NoDatabase) /\ (NoRepositories' <=> NoRepositories)
    BY <1>1 DEF NoDatabase, NoRepositories, coordination, repositories
  <2>8. CallInv'
    BY <1>1, <2>1, <2>2, <2>6, <2>7 DEF RestoreInv, CallInv, Cleaned
  <2>9. RemovalInv'
    BY <1>1, <2>1, <2>6, <2>7 DEF RestoreInv, RemovalInv, Removing
  <2> QED BY <1>1, <1>4, <1>6, <2>5, <2>8, <2>9 DEF TargetInv
<1> QED BY <1>9, <1>10

LEMMA RenamePartHolds ==
  ASSUME RestoreInv, RenamePart
  PROVE  UNCHANGED backup /\ TargetInv'
<1>1. /\ write # NoWrite /\ write' = NoWrite
      /\ UNCHANGED <<backup, coordination, repositories>>
      /\ journalPart' = IF write.file = "journal" THEN NoFile ELSE journalPart
      /\ markerPart' = IF write.file = "marker" THEN NoFile ELSE markerPart
      /\ removalPart' = IF write.file = "removal" THEN NoFile ELSE removalPart
      /\ journal' = IF write.file = "journal" THEN write.value ELSE journal
      /\ marker' = IF write.file = "marker" THEN write.value ELSE marker
      /\ removal' = IF write.file = "removal" THEN write.value ELSE removal
      /\ Part(write.file) = write.value
  BY DEF RenamePart, SetPart, SetFile
<1>2. call' = IF write.file = "removal" THEN [call EXCEPT !.at = "unmark"] ELSE call
  BY DEF RenamePart
<1>3. taking = "published" /\ taking' = taking
  BY <1>1, Published, CatalogKept
<1>4. \/ write.file \in {"journal", "removal"} /\ write.value \in Journals
      \/ write.file = "marker" /\ write.value = Volume
  BY <1>1 DEF RestoreInv, CallTypes
<1>5. FileTypes' /\ Begun'
  BY <1>1, <1>3, <1>4 DEF RestoreInv, FileTypes, Begun
<1>6. ~Writing("journal")' /\ ~Writing("marker")' /\ ~Writing("removal")'
  BY <1>1 DEF Writing, NoWrite
<1>7. (NoDatabase' <=> NoDatabase) /\ (NoRepositories' <=> NoRepositories)
  BY <1>1 DEF NoDatabase, NoRepositories, coordination, repositories
<1>8. CASE write.file = "journal"
  <2>1. /\ UNCHANGED <<marker, markerPart, removal, removalPart, call>> /\ journalPart' = NoFile
        /\ journal' = write.value /\ write.value \in Journals
    BY <1>1, <1>2, <1>4, <1>8
  <2>2. PICK next \in Journals : next = write.value /\ Planned(next)
    BY <1>8, <2>1 DEF RestoreInv, WriteInv, Writing
  <2>3. DatabaseInv' /\ PhaseInv'
    BY <1>1, <2>1, <2>2, JournalMoves
  <2>4. /\ ~Unfinished'
        /\ \/ call'.at = "run" /\ ~journal'.cleanup
           \/ call'.at = "cleanup" /\ journal'.cleanup
    BY <1>8, <2>1 DEF RestoreInv, WriteInv, Writing, Unfinished
  <2>5. WriteInv' /\ CallTypes'
    BY <1>1, <1>6, <2>1, FileValues DEF RestoreInv, WriteInv, CallTypes
  <2>6. CallInv' /\ RemovalInv'
    BY <2>1, <2>4, FileValues DEF CallInv, RemovalInv, Cleaned, Removing
  <2> QED BY <1>1, <1>5, <2>3, <2>5, <2>6 DEF TargetInv
<1>9. CASE write.file = "marker"
  <2>1. /\ UNCHANGED <<journal, journalPart, removal, removalPart, call>>
        /\ marker' = Volume /\ markerPart' = NoFile
        /\ call.at = "run" /\ journal.phase = "repositories-staged"
    BY <1>1, <1>2, <1>4, <1>9 DEF RestoreInv, WriteInv, Writing
  <2>2. ~Unfinished /\ journal # NoFile /\ ~journal.cleanup /\ journalPart = NoFile
    BY <1>9, <2>1 DEF RestoreInv, CallInv, Cleaned, Writing
  <2>3. DatabaseInv' /\ PhaseInv'
    BY <1>1, <2>1, MarkerMoves DEF Stored
  <2>4. ~Unfinished'
    BY <2>1, <2>2 DEF Unfinished
  <2>5. WriteInv' /\ CallTypes'
    BY <1>1, <1>6, <2>1, <2>2, FileValues DEF RestoreInv, WriteInv, CallTypes
  <2>6. CallInv' /\ RemovalInv'
    BY <2>1, <2>2, <2>4 DEF CallInv, RemovalInv, Cleaned, Removing
  <2> QED BY <1>1, <1>5, <2>3, <2>5, <2>6 DEF TargetInv
<1>10. CASE write.file = "removal"
  <2>1. /\ UNCHANGED <<journal, journalPart, marker, markerPart>> /\ call.at = "remove"
        /\ call' = [call EXCEPT !.at = "unmark"] /\ removalPart # NoFile
    BY <1>1, <1>2, <1>4, <1>10, FileValues DEF RestoreInv, WriteInv, Writing, Part
  <2>2. /\ NoDatabase /\ NoRepositories /\ journalPart = NoFile
        /\ journal = NoFile \/ journal.cleanup
    BY <2>1 DEF RestoreInv, RemovalInv, Unfinished
  <2>3. DatabaseInv' /\ PhaseInv'
    BY <1>1, <2>1, MarkerMoves
  <2>4. CallTypes' /\ call'.at = "unmark"
    BY <1>1, <2>1 DEF RestoreInv, CallTypes, NoCall, Removing
  <2>5. WriteInv'
    BY <1>1, <1>6, <2>1, <2>2, FileValues DEF WriteInv
  <2>6. CallInv' /\ RemovalInv'
    BY <1>7, <2>1, <2>2, <2>4 DEF CallInv, RemovalInv, Cleaned, Removing
  <2> QED BY <1>1, <1>5, <2>3, <2>4, <2>5, <2>6 DEF TargetInv
<1> QED BY <1>4, <1>8, <1>9, <1>10

LEMMA PromoteJournalHolds ==
  ASSUME RestoreInv, PromoteJournal
  PROVE  UNCHANGED backup /\ TargetInv'
<1>1. /\ call.at = "inspect" /\ write = NoWrite /\ UNCHANGED <<call, write>>
      /\ UNCHANGED <<backup, coordination, repositories, marker, markerPart, removal, removalPart>>
      /\ removal = NoFile /\ removalPart = NoFile /\ journalPart \notin {NoFile, Torn}
      /\ journal' = journalPart /\ journalPart' = NoFile
  BY DEF PromoteJournal, SetFile, SetPart, process
<1>2. PICK next \in Journals : next = journalPart /\ Planned(next)
  BY <1>1 DEF RestoreInv, FileTypes, WriteInv
<1>3. taking = "published" /\ taking' = taking
  BY <1>1, Published, CatalogKept DEF NoCall
<1>4. DatabaseInv' /\ PhaseInv'
  BY <1>1, <1>2, JournalMoves
<1>5. FileTypes' /\ CallTypes' /\ Begun'
  BY <1>1, <1>2, <1>3 DEF RestoreInv, FileTypes, CallTypes, Begun
<1>6. WriteInv'
  BY <1>1, FileValues DEF WriteInv, Writing, NoWrite
<1>7. CallInv' /\ RemovalInv'
  BY <1>1 DEF CallInv, RemovalInv, Cleaned, Removing, Unfinished
<1> QED BY <1>1, <1>4, <1>5, <1>6, <1>7 DEF TargetInv

LEMMA PromoteRemovalHolds ==
  ASSUME RestoreInv, PromoteRemoval
  PROVE  UNCHANGED backup /\ TargetInv'
<1>1. /\ call.at = "inspect" /\ write = NoWrite /\ UNCHANGED <<call, write>>
      /\ UNCHANGED <<backup, coordination, repositories, journal, journalPart, marker, markerPart>>
      /\ removalPart \notin {NoFile, Torn} /\ removal' = removalPart /\ removalPart' = NoFile
  BY DEF PromoteRemoval, SetFile, SetPart, process
<1>2. /\ NoDatabase /\ NoRepositories /\ journalPart = NoFile
      /\ journal = NoFile \/ journal.cleanup
  BY <1>1 DEF RestoreInv, RemovalInv, Unfinished
<1>3. taking = "published" /\ taking' = taking
  BY <1>1, Published, CatalogKept DEF NoCall
<1>4. DatabaseInv' /\ PhaseInv'
  BY <1>1, MarkerMoves
<1>5. FileTypes' /\ CallTypes' /\ Begun'
  BY <1>1, <1>3 DEF RestoreInv, FileTypes, CallTypes, Begun
<1>6. WriteInv'
  BY <1>1, <1>2, FileValues DEF WriteInv, Writing, NoWrite
<1>7. NoDatabase' /\ NoRepositories'
  BY <1>1, <1>2 DEF NoDatabase, NoRepositories, coordination, repositories
<1>8. CallInv' /\ RemovalInv'
  BY <1>1, <1>2, <1>7 DEF CallInv, RemovalInv, Cleaned, Removing
<1> QED BY <1>1, <1>4, <1>5, <1>6, <1>8 DEF TargetInv

\* Where the database and the repositories are gone and a cleanup is under way, the files
\* may go as well.
LEMMA FilesGo ==
  ASSUME RestoreInv, UNCHANGED <<backup, coordination, repositories, write>>, call.at \in Removing,
         marker' \in {marker, NoFile}, markerPart' \in {markerPart, NoFile},
         journal' \in {journal, NoFile}, journalPart' = NoFile,
         removal' \in {removal, NoFile}, removalPart' \in {removalPart, NoFile},
         journal' # NoFile \/ (marker' = NoFile /\ markerPart' = NoFile)
  PROVE  /\ FileTypes' /\ Begun' /\ DatabaseInv' /\ PhaseInv' /\ WriteInv'
         /\ NoDatabase' /\ NoRepositories' /\ (journal' = NoFile \/ journal'.cleanup)
<1>1. /\ NoDatabase /\ NoRepositories /\ journalPart = NoFile
      /\ journal = NoFile \/ journal.cleanup
  BY DEF RestoreInv, RemovalInv
<1>2. /\ taking = "published" /\ taking' = taking /\ write = NoWrite
      /\ Live' = Live /\ entries' = entries
  BY Published, CatalogKept, NothingWritten DEF NoCall, Removing
<1>3. FileTypes' /\ Begun'
  BY <1>2 DEF RestoreInv, FileTypes, Begun
<1>4. NoDatabase' /\ NoRepositories' /\ (journal' = NoFile \/ journal'.cleanup)
  BY <1>1 DEF NoDatabase, NoRepositories, coordination, repositories
<1>5. DatabaseInv'
  BY <1>1, <1>2, <1>4 DEF DatabaseInv, NoDatabase, Nothing, Rows, Live
<1>6. PhaseInv'
  <2>1. fence' # "published"
    BY <1>4 DEF NoDatabase
  <2>2. CASE journal' = NoFile
    <3>1. journal'.phase = "none" /\ marker' = NoFile /\ markerPart' = NoFile
      BY <2>2 DEF NoFile
    <3>2. "none" \notin Imported /\ "none" \notin Stored /\ "none" \notin Marked
          /\ "none" \notin InPlace /\ "none" \notin Authoritative
      BY DEF Imported, Stored, Marked, InPlace, Authoritative
    <3>3. Reached(journal.phase)' /\ Unreached(journal.phase)'
      BY <1>4, <3>1, <3>2 DEF Reached, Unreached, NoRepositories
    <3> QED BY <3>3 DEF PhaseInv
  <2>3. CASE journal' # NoFile
    <3>1. journal' = journal /\ journal'.cleanup
      BY <1>4, <2>3
    <3>2. Unreached(journal.phase)'
      BY <1>4, <3>1 DEF RestoreInv, PhaseInv, Unreached, NoRepositories
    <3> QED BY <2>1, <3>1, <3>2 DEF PhaseInv
  <2> QED BY <2>2, <2>3
<1>7. WriteInv'
  BY <1>2, FileValues DEF WriteInv, Writing, NoWrite
<1> QED BY <1>3, <1>4, <1>5, <1>6, <1>7

LEMMA RemovalHolds ==
  ASSUME RestoreInv, Unmark \/ Unjournal \/ Unintent
  PROVE  UNCHANGED backup /\ TargetInv'
<1> USE DEF Removing
<1>1. UNCHANGED <<backup, coordination, repositories, write>> /\ call.at \in Removing
  BY DEF Unmark, Unjournal, Unintent
<1>2. journalPart = NoFile
  BY <1>1 DEF RestoreInv, RemovalInv
<1>3. CASE Unmark
  <2>1. /\ marker' = NoFile /\ markerPart' = NoFile
        /\ UNCHANGED <<journal, journalPart, removal, removalPart>>
        /\ call' = [call EXCEPT !.at = "unjournal"]
    BY <1>3 DEF Unmark, SetFile, SetPart
  <2>2. CallTypes' /\ call'.at = "unjournal"
    BY <1>1, <2>1 DEF RestoreInv, CallTypes, NoCall
  <2>3. /\ FileTypes' /\ Begun' /\ DatabaseInv' /\ PhaseInv' /\ WriteInv'
        /\ NoDatabase' /\ NoRepositories' /\ (journal' = NoFile \/ journal'.cleanup)
    BY <1>1, <1>2, <2>1, FilesGo
  <2>4. CallInv' /\ RemovalInv'
    BY <1>2, <2>1, <2>2, <2>3 DEF CallInv, RemovalInv, Cleaned
  <2> QED BY <1>1, <2>2, <2>3, <2>4 DEF TargetInv
<1>4. CASE Unjournal
  <2>1. /\ journal' = NoFile /\ journalPart' = NoFile
        /\ UNCHANGED <<marker, markerPart, removal, removalPart>>
        /\ call' = [call EXCEPT !.at = "unintent"] /\ call.at = "unjournal"
    BY <1>4 DEF Unjournal, SetFile, SetPart
  <2>2. CallTypes' /\ call'.at = "unintent"
    BY <1>1, <2>1 DEF RestoreInv, CallTypes, NoCall
  <2>3. marker' = NoFile /\ markerPart' = NoFile
    BY <2>1 DEF RestoreInv, RemovalInv
  <2>4. /\ FileTypes' /\ Begun' /\ DatabaseInv' /\ PhaseInv' /\ WriteInv'
        /\ NoDatabase' /\ NoRepositories' /\ (journal' = NoFile \/ journal'.cleanup)
    BY <1>1, <1>2, <2>1, <2>3, FilesGo
  <2>5. CallInv' /\ RemovalInv'
    BY <2>1, <2>2, <2>3, <2>4 DEF CallInv, RemovalInv, Cleaned
  <2> QED BY <1>1, <2>2, <2>4, <2>5 DEF TargetInv
<1>5. CASE Unintent
  <2>1. /\ removal' = NoFile /\ removalPart' = NoFile
        /\ UNCHANGED <<marker, markerPart, journal, journalPart>>
        /\ call' = [call EXCEPT !.at = "inspect"] /\ call.at = "unintent"
    BY <1>5 DEF Unintent, SetFile, SetPart
  <2>2. CallTypes' /\ call'.at = "inspect"
    BY <1>1, <2>1 DEF RestoreInv, CallTypes, NoCall
  <2>3. marker' = NoFile /\ markerPart' = NoFile
    BY <2>1 DEF RestoreInv, RemovalInv
  <2>4. /\ FileTypes' /\ Begun' /\ DatabaseInv' /\ PhaseInv' /\ WriteInv'
        /\ NoDatabase' /\ NoRepositories' /\ (journal' = NoFile \/ journal'.cleanup)
    BY <1>1, <1>2, <2>1, <2>3, FilesGo
  <2>5. CallInv' /\ RemovalInv'
    BY <2>1, <2>2 DEF CallInv, RemovalInv, Cleaned, Unfinished
  <2> QED BY <1>1, <2>2, <2>4, <2>5 DEF TargetInv
<1> QED BY <1>3, <1>4, <1>5

-----------------------------------------------------------------------------
(* The database and repository storage. *)

\* A step of a run on the database or on repository storage.
LEMMA RunHolds ==
  ASSUME RestoreInv, NEW phase, Running(phase), UNCHANGED <<backup, files, process>>,
         DatabaseInv', PhaseInv'
  PROVE  TargetInv'
<1>1. /\ UNCHANGED <<journal, journalPart, marker, markerPart, removal, removalPart, call, write>>
      /\ call.at = "run" /\ write = NoWrite
  BY DEF files, process, Running
<1>2. ~Unfinished /\ journal # NoFile /\ ~journal.cleanup /\ journalPart = NoFile
  BY <1>1 DEF RestoreInv, CallInv, Cleaned, Writing, NoWrite
<1>3. taking = "published" /\ taking' = taking
  BY <1>1, Published, CatalogKept DEF NoCall
<1>4. FileTypes' /\ CallTypes' /\ Begun'
  BY <1>1, <1>3 DEF RestoreInv, FileTypes, CallTypes, Begun
<1>5. ~Unfinished'
  BY <1>1, <1>2 DEF Unfinished
<1>6. WriteInv'
  BY <1>1, <1>2, FileValues DEF WriteInv, Writing, NoWrite
<1>7. CallInv' /\ RemovalInv'
  BY <1>1, <1>2, <1>5 DEF CallInv, RemovalInv, Cleaned, Removing
<1> QED BY <1>4, <1>6, <1>7 DEF TargetInv

\* Until the rows are imported no phase says anything of the database.
LEMMA EarlyPhase ==
  ASSUME RestoreInv, NEW phase \in {"validated", "database-created"}, journal.phase = phase,
         UNCHANGED <<journal, marker, markerPart, staged, published>>
  PROVE  PhaseInv'
<1>1. /\ phase \notin Imported /\ phase \notin Stored /\ phase \notin Marked /\ phase \notin InPlace
      /\ phase \notin Authoritative /\ phase # "none"
  BY DEF Imported, Stored, Marked, InPlace, Authoritative
<1>2. Reached(journal.phase)'
  BY <1>1 DEF Reached
<1>3. Unreached(journal.phase)'
  BY <1>1 DEF RestoreInv, PhaseInv, Unreached
<1> QED BY <1>2, <1>3 DEF PhaseInv

LEMMA SchemaHolds ==
  ASSUME RestoreInv, CreateFence \/ ApplySchema
  PROVE  UNCHANGED backup /\ TargetInv'
<1>1. /\ Running("validated") /\ UNCHANGED <<backup, files, repositories, process, budgets>>
      /\ UNCHANGED <<database, placement>> /\ schema' # "absent"
  BY DEF CreateFence, ApplySchema, OnDatabase
<1>2. fence' \in {"staged", fence} /\ journal' = journal /\ journal.phase = "validated"
  BY <1>1 DEF CreateFence, ApplySchema, files, Running
<1>3. fence # "published" /\ fence' # "published"
  BY <1>2 DEF RestoreInv, DatabaseInv, InPlace, Authoritative
<1>4. Live' = Live /\ entries' = entries
  BY <1>1, CatalogKept
<1>5. DatabaseInv'
  BY <1>1, <1>2, <1>3, <1>4 DEF RestoreInv, DatabaseInv, ProjectRow, Generation
<1>6. PhaseInv'
  BY <1>1, <1>2, EarlyPhase DEF files, repositories
<1> QED BY <1>1, <1>5, <1>6, RunHolds

\* The one row of the Project itself is among those an import inserts.
LEMMA ProjectImported ==
  ASSUME NEW p, Records(entries[p], p)
  PROVE  Rows(ImportRows(entries[p])) /\ ProjectRow(p, "maintenance") \in ImportRows(entries[p])
<1> DEFINE r == CHOOSE x \in In(entries[p], "project") : TRUE
<1>1. r \in In(entries[p], "project") /\ r.id = p /\ r.ref = "main"
  BY DEF Records
<1>2. Rows(entries[p])
  BY DEF Records
<1> HIDE DEF r
<1>3. Row("projects", r.id, "maintenance", r.ref, r.n) \in ImportRows(entries[p])
  BY <1>1, <1>2, RowsImported
<1>4. ProjectRow(p, "maintenance") = Row("projects", r.id, "maintenance", r.ref, r.n)
  BY <1>1 DEF ProjectRow, Generation, r
<1> QED BY <1>2, <1>3, <1>4, RowsImported

LEMMA ImportProjectHolds ==
  ASSUME RestoreInv, NEW p \in Projects, ImportProject(p)
  PROVE  UNCHANGED backup /\ TargetInv'
<1> DEFINE rows == ImportRows(entries[p])
<1>1. /\ Running("database-created") /\ UNCHANGED <<backup, files, repositories, process, budgets>>
      /\ UNCHANGED <<schema, fence, placement>> /\ p \in Live /\ fence = "staged"
  BY DEF ImportProject, OnDatabase, FenceIs
<1>2. database' = [database EXCEPT ![p] = rows]
  BY DEF ImportProject
<1>3. Records(entries[p], p)
  BY <1>1 DEF RestoreInv, CatalogInv
<1>4. Rows(rows) /\ ProjectRow(p, "maintenance") \in rows
  BY <1>3, ProjectImported
<1> HIDE DEF rows
<1>5. Live' = Live /\ entries' = entries
  BY <1>1, CatalogKept
<1>6. schema # "absent"
  BY <1>1 DEF RestoreInv, DatabaseInv, NoDatabase
<1>7. DatabaseInv'
  <2>1. /\ database' = [q \in Projects |-> database'[q]]
        /\ \A q \in Projects : database'[q] = IF q = p THEN rows ELSE database[q]
    BY <1>2 DEF RestoreInv, DatabaseInv
  <2>2. \A q, state : ProjectRow(q, state)' = ProjectRow(q, state)
    BY <1>5 DEF ProjectRow, Generation
  <2>3. \A q \in Live' : database'[q] # {} =>
          \E state \in {"maintenance", "active"} : ProjectRow(q, state)' \in database'[q]
    BY <1>4, <1>5, <2>1, <2>2 DEF RestoreInv, DatabaseInv, Live
  <2> QED BY <1>1, <1>4, <1>6, <2>1, <2>3 DEF RestoreInv, DatabaseInv
<1>8. PhaseInv'
  <2>1. journal.phase = "database-created"
        /\ UNCHANGED <<journal, marker, markerPart, staged, published>>
    BY <1>1 DEF Running, files, repositories
  <2> QED BY <2>1, EarlyPhase
<1> QED BY <1>1, <1>7, <1>8, RunHolds

LEMMA ImportTerminalHolds ==
  ASSUME RestoreInv, NEW p \in Projects, ImportTerminal(p)
  PROVE  UNCHANGED backup /\ TargetInv'
<1> DEFINE rows == TerminalRows(terminals[p])
<1>1. /\ Running("database-created") /\ UNCHANGED <<backup, files, repositories, process, budgets>>
      /\ UNCHANGED <<schema, fence, placement>> /\ fence = "staged"
      /\ \A q \in Live : database[q] # {}
  BY DEF ImportTerminal, OnDatabase, FenceIs
<1>2. database' = [database EXCEPT ![p] = database[p] \cup rows]
  BY DEF ImportTerminal, RestoreInv, DatabaseInv
<1>3. Rows(rows)
  BY DEF RestoreInv, CatalogInv
<1> HIDE DEF rows
<1>4. Live' = Live /\ entries' = entries
  BY <1>1, CatalogKept
<1>5. schema # "absent"
  BY <1>1 DEF RestoreInv, DatabaseInv, NoDatabase
<1>6. DatabaseInv'
  <2>1. /\ database' = [q \in Projects |-> database'[q]]
        /\ \A q \in Projects : /\ database[q] \subseteq database'[q]
                               /\ database'[q] \subseteq database[q] \cup rows
    BY <1>2 DEF RestoreInv, DatabaseInv
  <2>2. \A q, state : ProjectRow(q, state)' = ProjectRow(q, state)
    BY <1>4 DEF ProjectRow, Generation
  <2>3. \A q \in Live' :
          \E state \in {"maintenance", "active"} : ProjectRow(q, state)' \in database'[q]
    BY <1>1, <1>4, <2>1, <2>2 DEF RestoreInv, DatabaseInv, Live
  <2>4. \A q \in Projects : Rows(database'[q])
    BY <1>3, <2>1 DEF RestoreInv, DatabaseInv, Rows
  <2> QED BY <1>1, <1>5, <2>1, <2>3, <2>4 DEF RestoreInv, DatabaseInv
<1>7. PhaseInv'
  <2>1. journal.phase = "database-created"
        /\ UNCHANGED <<journal, marker, markerPart, staged, published>>
    BY <1>1 DEF Running, files, repositories
  <2> QED BY <2>1, EarlyPhase
<1> QED BY <1>1, <1>6, <1>7, RunHolds

LEMMA StageRepositoryHolds ==
  ASSUME RestoreInv, NEW p \in Projects, MakeDirectory(p) \/ StageRepository(p)
  PROVE  UNCHANGED backup /\ TargetInv'
<1>1. /\ UNCHANGED <<backup, files, coordination, write>> /\ published' = published
      /\ call.at \in {"run", "import"}
      /\ \E at \in {"run", "import"} : call' = [call EXCEPT !.at = at]
  BY DEF MakeDirectory, StageRepository, Running
<1>2. write = NoWrite /\ journal.phase = "coordination-imported"
  <2>1. CASE MakeDirectory(p)
    BY <2>1 DEF MakeDirectory, Running
  <2>2. CASE StageRepository(p)
    <3>1. call.at = "import"
      BY <2>2 DEF StageRepository
    <3>2. journal.phase = "coordination-imported"
      BY <3>1 DEF RestoreInv, CallInv, Journal
    <3>3. write = NoWrite
      BY <3>1 DEF RestoreInv, WriteInv, CallTypes, Writing
    <3> QED BY <3>2, <3>3
  <2> QED BY <2>1, <2>2
<1>3. ~Unfinished /\ journal # NoFile /\ ~journal.cleanup /\ journalPart = NoFile
  BY <1>1, <1>2 DEF RestoreInv, CallInv, Cleaned, Writing, NoWrite, Journal, NoFile
<1>4. journal = Journal("coordination-imported", FALSE)
  BY <1>2, <1>3 DEF RestoreInv, FileTypes, Journals, Journal
<1>5. /\ UNCHANGED <<journal, journalPart, marker, markerPart, removal, removalPart>>
      /\ UNCHANGED <<schema, fence, database, placement>>
  BY <1>1 DEF files, coordination
<1>6. /\ Live' = Live /\ Terminal' = Terminal /\ entries' = entries /\ terminals' = terminals
      /\ taking = "published" /\ taking' = taking
  BY <1>1, CatalogKept, Published DEF NoCall
<1>7. FileTypes' /\ Begun'
  BY <1>5, <1>6 DEF RestoreInv, FileTypes, Begun
<1>8. CallTypes' /\ call'.at \in {"run", "import"}
  <2>1. call # NoCall
    BY <1>1 DEF NoCall
  <2> QED BY <1>1, <1>2, <2>1 DEF RestoreInv, CallTypes
<1>9. DatabaseInv'
  BY <1>5, <1>6 DEF RestoreInv, DatabaseInv, NoDatabase, ProjectRow, Generation, SourceGeneration
<1>10. PhaseInv'
  <2>1. /\ journal.phase \in Imported /\ journal.phase \notin Stored /\ journal.phase \notin Marked
        /\ journal.phase \notin InPlace /\ journal.phase \notin Authoritative
        /\ journal.phase # "none"
    BY <1>2 DEF Imported, Stored, Marked, InPlace, Authoritative
  <2>2. ~journal.cleanup \/ fence = "published" => Reached(journal.phase)'
    BY <1>5, <1>6, <2>1 DEF RestoreInv, PhaseInv, Reached, TerminalsThere, ProjectRow, Generation
  <2>3. Unreached(journal.phase)'
    BY <1>1, <1>5, <2>1 DEF RestoreInv, PhaseInv, Unreached
  <2> QED BY <1>5, <2>2, <2>3 DEF PhaseInv
<1>11. ~Unfinished'
  BY <1>3, <1>5 DEF Unfinished
<1>12. WriteInv'
  BY <1>1, <1>2, <1>3, <1>5, FileValues DEF WriteInv, Writing, NoWrite
<1>13. CallInv' /\ RemovalInv'
  BY <1>3, <1>4, <1>5, <1>8, <1>11 DEF CallInv, RemovalInv, Cleaned, Removing
<1> QED BY <1>1, <1>7, <1>8, <1>9, <1>10, <1>12, <1>13 DEF TargetInv

LEMMA PublishRepositoryHolds ==
  ASSUME RestoreInv, NEW p \in Projects, PublishRepository(p)
  PROVE  UNCHANGED backup /\ TargetInv'
<1>1. /\ Running("pair-prepared") /\ UNCHANGED <<backup, files, coordination, process>>
      /\ staged' = staged \ {p} /\ published' = published \cup {p}
  BY DEF PublishRepository, OnStorage
<1>2. /\ UNCHANGED <<journal, marker, markerPart, schema, fence, database, placement>>
      /\ journal.phase = "pair-prepared"
  BY <1>1 DEF files, coordination, Running
<1>3. /\ Live' = Live /\ Terminal' = Terminal /\ entries' = entries /\ terminals' = terminals
  BY <1>1, CatalogKept
<1>4. DatabaseInv'
  BY <1>2, <1>3 DEF RestoreInv, DatabaseInv, NoDatabase, ProjectRow, Generation, SourceGeneration
<1>5. PhaseInv'
  <2>1. /\ journal.phase \in Imported /\ journal.phase \in Stored /\ journal.phase \in Marked
        /\ journal.phase \notin InPlace /\ journal.phase \notin Authoritative
    BY <1>2 DEF Imported, Stored, Marked, InPlace, Authoritative
  <2>2. ~journal.cleanup \/ fence = "published" => Reached(journal.phase)'
    BY <1>1, <1>2, <1>3, <2>1
       DEF RestoreInv, PhaseInv, Reached, TerminalsThere, ProjectRow, Generation
  <2>3. Unreached(journal.phase)'
    BY <1>1, <1>2, <2>1 DEF RestoreInv, PhaseInv, Unreached
  <2> QED BY <1>2, <2>2, <2>3 DEF PhaseInv
<1> QED BY <1>1, <1>4, <1>5, RunHolds

\* Publishing turns the row of each Project active and leaves every other row alone.
LEMMA PublishAuthorityHolds ==
  ASSUME RestoreInv, PublishAuthority
  PROVE  UNCHANGED backup /\ TargetInv'
<1> DEFINE Activated(rows) ==
             {IF r.t = "projects" THEN [r EXCEPT !.s = "active"] ELSE r : r \in rows}
<1>1. /\ Running("repositories-published")
      /\ UNCHANGED <<backup, files, repositories, process, budgets>>
      /\ schema' = schema /\ fence = "staged" /\ fence' = "published"
      /\ database' = [p \in Projects |-> Activated(database[p])]
      /\ placement' = [p \in Projects |->
                         IF p \in Live THEN SourceGeneration(p) + 1 ELSE placement[p]]
  BY DEF PublishAuthority, OnDatabase, FenceIs
<1>2. /\ UNCHANGED <<journal, marker, markerPart, staged, published>>
      /\ journal.phase = "repositories-published"
  BY <1>1 DEF files, repositories, Running
<1>3. /\ Live' = Live /\ Terminal' = Terminal /\ entries' = entries /\ terminals' = terminals
  BY <1>1, CatalogKept
<1>4. schema # "absent"
  BY <1>1 DEF RestoreInv, DatabaseInv, NoDatabase
<1>5. ~journal.cleanup
  BY <1>1 DEF RestoreInv, CallInv, Running, Writing, NoWrite
<1>6. Reached("repositories-published")
  BY <1>2, <1>5 DEF RestoreInv, PhaseInv
<1>7. /\ "repositories-published" \in Imported /\ "repositories-published" \in Stored
      /\ "repositories-published" \in Marked /\ "repositories-published" \in InPlace
      /\ "repositories-published" \notin Authoritative
  BY DEF Imported, Stored, Marked, InPlace, Authoritative
<1>8. ASSUME NEW rows, Rows(rows)
      PROVE  /\ Rows(Activated(rows)) /\ \A x \in rows : x.t # "projects" => x \in Activated(rows)
             /\ \A p, state :
                  ProjectRow(p, state) \in rows => ProjectRow(p, "active") \in Activated(rows)
  <2>1. ASSUME NEW r \in rows
        PROVE  /\ r = Row(r.t, r.id, r.s, r.ref, r.n) /\ r.n \in Nat
               /\ [r EXCEPT !.s = "active"] = Row(r.t, r.id, "active", r.ref, r.n)
    <3>1. r = Row(r.t, r.id, r.s, r.ref, r.n) /\ r.n \in Nat
      BY <1>8 DEF Rows
    <3> QED BY <3>1 DEF Row
  <2>2. Rows(Activated(rows))
    <3> SUFFICES ASSUME NEW x \in Activated(rows)
                 PROVE  x = Row(x.t, x.id, x.s, x.ref, x.n) /\ x.n \in Nat
      BY DEF Rows
    <3>1. PICK r \in rows : x = IF r.t = "projects" THEN [r EXCEPT !.s = "active"] ELSE r
      OBVIOUS
    <3>2. x = r \/ x = Row(r.t, r.id, "active", r.ref, r.n)
      BY <2>1, <3>1
    <3>3. CASE x = r
      BY <2>1, <3>3
    <3>4. CASE x = Row(r.t, r.id, "active", r.ref, r.n)
      <4>1. x.t = r.t /\ x.id = r.id /\ x.s = "active" /\ x.ref = r.ref /\ x.n = r.n
        BY <3>4 DEF Row
      <4> QED BY <2>1, <3>4, <4>1
    <3> QED BY <3>2, <3>3, <3>4
  <2>3. ASSUME NEW x \in rows, x.t # "projects"
        PROVE  x \in Activated(rows)
    BY <2>3
  <2>4. ASSUME NEW p, NEW state, ProjectRow(p, state) \in rows
        PROVE  ProjectRow(p, "active") \in Activated(rows)
    <3> DEFINE r == ProjectRow(p, state)
    <3>1. r \in rows /\ r.t = "projects" /\ [r EXCEPT !.s = "active"] = ProjectRow(p, "active")
      BY <2>4 DEF ProjectRow, Row
    <3> HIDE DEF r
    <3> QED BY <3>1
  <2> QED BY <2>2, <2>3, <2>4
<1> HIDE DEF Activated
<1>9. \A p, state : ProjectRow(p, state)' = ProjectRow(p, state)
  BY <1>3 DEF ProjectRow, Generation
<1>10. \A p \in Live : /\ ProjectRow(p, "active") \in database'[p]
                      /\ database'[p] = Activated(database[p])
  BY <1>1, <1>6, <1>7, <1>8 DEF Reached, RestoreInv, DatabaseInv, Live
<1>11. TerminalsThere'
  <2> SUFFICES ASSUME NEW p \in Terminal, NEW x \in TerminalRows(terminals[p])
               PROVE  x \in database'[p]
    BY <1>3 DEF TerminalsThere
  <2>1. x.t # "projects" /\ p \in Projects
    BY DEF RestoreInv, CatalogInv, In, Terminal
  <2>2. x \in database[p]
    BY <1>6, <1>7 DEF Reached, TerminalsThere
  <2>3. x \in Activated(database[p])
    BY <1>8, <2>1, <2>2 DEF RestoreInv, DatabaseInv
  <2> QED BY <1>1, <2>1, <2>3
<1>12. DatabaseInv'
  <2>1. database' = [p \in Projects |-> database'[p]] /\ \A p \in Projects : Rows(database'[p])
    BY <1>1, <1>8 DEF RestoreInv, DatabaseInv
  <2>2. \A p \in Live' : /\ ProjectRow(p, "active")' \in database'[p]
                         /\ placement'[p] = SourceGeneration(p)' + 1
    BY <1>1, <1>3, <1>9, <1>10 DEF SourceGeneration, Live
  <2>3. \A p \in Live' : database'[p] # {} =>
          \E state \in {"maintenance", "active"} : ProjectRow(p, state)' \in database'[p]
    BY <2>2
  <2> QED BY <1>1, <1>2, <1>4, <1>7, <2>1, <2>2, <2>3 DEF DatabaseInv
<1>13. PhaseInv'
  <2>1. \A p \in Live' :
          \E state \in {"maintenance", "active"} : ProjectRow(p, state)' \in database'[p]
    BY <1>3, <1>9, <1>10
  <2>2. Reached(journal.phase)'
    BY <1>2, <1>3, <1>6, <1>7, <1>11, <2>1 DEF Reached
  <2>3. Unreached(journal.phase)'
    BY <1>2, <1>7 DEF Unreached
  <2> QED BY <2>2, <2>3 DEF PhaseInv
<1> QED BY <1>1, <1>12, <1>13, RunHolds

-----------------------------------------------------------------------------
(* A cleanup takes the database, then the repositories, then what is staged. *)

LEMMA DropDatabaseHolds ==
  ASSUME RestoreInv, DropDatabase
  PROVE  UNCHANGED backup /\ TargetInv'
<1>1. /\ UNCHANGED <<backup, files, repositories, write>> /\ write = NoWrite
      /\ call.at = "cleanup" /\ call' = [call EXCEPT !.at = "repositories"]
      /\ schema' = "absent" /\ fence' = "none" /\ database' = Nothing
  BY DEF DropDatabase, Cleaning, Then
<1>2. taking = "published" /\ taking' = taking
  BY <1>1, Published, CatalogKept DEF NoCall
<1>3. CallTypes' /\ call'.at = "repositories"
  BY <1>1 DEF RestoreInv, CallTypes, NoCall, Cleaned
<1>4. /\ UNCHANGED <<journal, journalPart, marker, markerPart, removal, removalPart>>
      /\ UNCHANGED <<staged, published>>
  BY <1>1 DEF files, repositories
<1>5. journal.cleanup /\ journalPart = NoFile
  BY <1>1 DEF RestoreInv, CallInv, Cleaned, Writing, NoWrite
<1>6. FileTypes' /\ Begun'
  BY <1>2, <1>4 DEF RestoreInv, FileTypes, Begun
<1>7. NoDatabase' /\ (NoRepositories' <=> NoRepositories)
  BY <1>1, <1>4 DEF NoDatabase, NoRepositories
<1>8. DatabaseInv'
  BY <1>1, <1>7 DEF DatabaseInv, Nothing, Rows, Live
<1>9. PhaseInv'
  <2>1. Unreached(journal.phase)'
    BY <1>4, <1>7 DEF RestoreInv, PhaseInv, Unreached
  <2> QED BY <1>1, <1>4, <1>5, <2>1 DEF PhaseInv
<1>10. WriteInv'
  BY <1>1, <1>4, <1>5, FileValues DEF WriteInv, Writing, NoWrite
<1>11. CallInv'
  BY <1>3, <1>4, <1>5, <1>7 DEF CallInv
<1>12. RemovalInv'
  BY <1>3, <1>4, <1>7 DEF RestoreInv, RemovalInv, Unfinished, Removing
<1> QED BY <1>1, <1>3, <1>6, <1>8, <1>9, <1>10, <1>11, <1>12 DEF TargetInv

\* Over an emptied database the repositories may go.
LEMMA RepositoriesGo ==
  ASSUME RestoreInv, UNCHANGED <<backup, files, coordination, write>>, write = NoWrite,
         call.at \in Cleaned, staged' \subseteq staged, published' \subseteq published
  PROVE  /\ FileTypes' /\ Begun' /\ DatabaseInv' /\ PhaseInv' /\ WriteInv'
         /\ journal'.cleanup /\ journalPart' = NoFile /\ NoDatabase'
         /\ Unfinished => /\ NoRepositories' /\ journalPart' = NoFile
                          /\ journal' = NoFile \/ journal'.cleanup
<1>1. /\ taking = "published" /\ taking' = taking /\ Live' = Live /\ Terminal' = Terminal
      /\ entries' = entries
  BY Published, CatalogKept DEF NoCall, Cleaned
<1>2. /\ UNCHANGED <<journal, journalPart, marker, markerPart, removal, removalPart>>
      /\ UNCHANGED <<schema, fence, database, placement>>
  BY DEF files, coordination
<1>3. journal.cleanup /\ journalPart = NoFile /\ NoDatabase
  BY DEF RestoreInv, CallInv, Cleaned, Writing, NoWrite
<1>4. FileTypes' /\ Begun' /\ NoDatabase'
  BY <1>1, <1>2, <1>3 DEF RestoreInv, FileTypes, Begun, NoDatabase
<1>5. DatabaseInv'
  BY <1>2, <1>3, <1>4 DEF RestoreInv, DatabaseInv, NoDatabase, Nothing, Live
<1>6. Unreached(journal.phase)'
  BY <1>2, <1>4 DEF RestoreInv, PhaseInv, Unreached
<1>7. PhaseInv'
  BY <1>2, <1>3, <1>6 DEF PhaseInv, NoDatabase
<1>8. WriteInv'
  BY <1>2, <1>3, FileValues DEF WriteInv, Writing, NoWrite
<1>9. Unfinished => NoRepositories'
  BY DEF RestoreInv, RemovalInv, NoRepositories
<1> QED BY <1>2, <1>3, <1>4, <1>5, <1>7, <1>8, <1>9

LEMMA RemoveRepositoryHolds ==
  ASSUME RestoreInv, NEW p \in Projects, RemoveRepository(p)
  PROVE  UNCHANGED backup /\ TargetInv'
<1>1. /\ UNCHANGED <<backup, files, coordination, call, write>> /\ write = NoWrite
      /\ call.at = "repositories" /\ call.at \in Cleaned
      /\ staged' \subseteq staged /\ published' \subseteq published
  BY DEF RemoveRepository, Cleaning, OnStorage, process, Cleaned
<1>2. /\ FileTypes' /\ Begun' /\ DatabaseInv' /\ PhaseInv' /\ WriteInv'
      /\ journal'.cleanup /\ journalPart' = NoFile /\ NoDatabase'
      /\ Unfinished => /\ NoRepositories' /\ journalPart' = NoFile
                       /\ journal' = NoFile \/ journal'.cleanup
  BY <1>1, RepositoriesGo
<1>3. CallTypes' /\ call'.at = "repositories"
  BY <1>1 DEF RestoreInv, CallTypes
<1>4. Unfinished' <=> Unfinished
  BY <1>1 DEF Unfinished, files
<1>5. CallInv' /\ RemovalInv'
  BY <1>2, <1>3, <1>4 DEF CallInv, RemovalInv, Removing
<1> QED BY <1>1, <1>2, <1>3, <1>5 DEF TargetInv

LEMMA DiscardStagingHolds ==
  ASSUME RestoreInv, DiscardStaging
  PROVE  UNCHANGED backup /\ TargetInv'
<1>1. /\ UNCHANGED <<backup, files, coordination, write>> /\ write = NoWrite
      /\ call.at = "staging" /\ call.at \in Cleaned /\ call' = [call EXCEPT !.at = "remove"]
      /\ staged' = IF AtLeast(journal.phase, "coordination-imported") THEN {} ELSE staged
      /\ published' = published
  BY DEF DiscardStaging, Cleaning, Then, Cleaned
<1>2. /\ FileTypes' /\ Begun' /\ DatabaseInv' /\ PhaseInv' /\ WriteInv'
      /\ journal'.cleanup /\ journalPart' = NoFile /\ NoDatabase'
  BY <1>1, RepositoriesGo
<1>3. CallTypes' /\ call'.at = "remove"
  BY <1>1 DEF RestoreInv, CallTypes, NoCall, Cleaned
<1>4. NoRepositories'
  <2>1. journal.phase \in Stored => published = {}
    BY <1>1 DEF RestoreInv, CallInv, NoRepositories
  <2>2. journal.phase \notin Stored => published = {}
    BY DEF RestoreInv, PhaseInv, Unreached, Stored
  <2>3. staged' = {}
    BY <1>1, PhaseOrder DEF RestoreInv, PhaseInv, Unreached
  <2> QED BY <1>1, <2>1, <2>2, <2>3 DEF NoRepositories
<1>5. CallInv' /\ RemovalInv'
  BY <1>2, <1>3, <1>4 DEF CallInv, RemovalInv, Removing
<1> QED BY <1>1, <1>2, <1>3, <1>5 DEF TargetInv

-----------------------------------------------------------------------------
(* Every step, and what follows. *)

LEMMA RestoreStepHolds ==
  ASSUME RestoreInv, [Next]_vars
  PROVE  RestoreInv'
<1>1. ASSUME TargetInv', UNCHANGED backup
      PROVE  RestoreInv'
  BY <1>1, CatalogKept DEF RestoreInv, TargetInv
<1>2. ASSUME SourceInv', CatalogInv', TargetInv'
      PROVE  RestoreInv'
  BY <1>2 DEF RestoreInv, TargetInv
<1>3. CASE Environment
  <2>1. ASSUME NEW p \in Projects, Retire(p) PROVE RestoreInv'
    BY <1>2, <2>1, RetireHolds
  <2>2. CASE CallRestore \/ CallCancel
    BY <1>1, <2>2, BeginHolds
  <2>3. CASE Stop
    BY <1>1, <2>3, EndHolds
  <2> QED BY <1>3, <2>1, <2>2, <2>3 DEF Environment
<1>4. CASE BackupStep
  <2>1. ASSUME NEW p \in Projects, CaptureProject(p) PROVE RestoreInv'
    BY <1>2, <2>1, CaptureHolds
  <2>2. CASE ListProjects
    BY <1>2, <2>2, ListHolds
  <2>3. CASE CapturesDone
    BY <1>2, <2>3, CapturesDoneHolds
  <2>4. CASE PublishCatalog
    BY <1>2, <2>4, PublishCatalogHolds
  <2> QED BY <1>4, <2>1, <2>2, <2>3, <2>4 DEF BackupStep
<1>5. CASE CallRecover
  BY <1>1, <1>5, BeginHolds
<1>6. CASE FileStep
  BY <1>1, <1>6, FillPartHolds, RenamePartHolds, PromoteJournalHolds, PromoteRemovalHolds,
     GoHolds, RemovalHolds DEF FileStep
<1>7. CASE CallStep
  BY <1>1, <1>7, CreateJournalHolds, GoHolds, RequestCleanupHolds, EndHolds DEF CallStep
<1>8. CASE RunStep
  <2>1. ASSUME NEW p \in Projects, ImportProject(p) \/ ImportTerminal(p) PROVE RestoreInv'
    BY <1>1, <2>1, ImportProjectHolds, ImportTerminalHolds
  <2>2. ASSUME NEW p \in Projects,
               MakeDirectory(p) \/ StageRepository(p) \/ PublishRepository(p)
        PROVE  RestoreInv'
    BY <1>1, <2>2, StageRepositoryHolds, PublishRepositoryHolds
  <2>3. CASE CreateFence \/ ApplySchema
    BY <1>1, <2>3, SchemaHolds
  <2>4. CASE \/ DatabaseCreated \/ CoordinationImported \/ RepositoriesStaged \/ PairPreparedStep
             \/ RepositoriesPublished \/ AuthorityPublished \/ VerifyRestored \/ Complete
    BY <1>1, <2>4, RunPhasesHold
  <2>5. CASE WriteMarker \/ PromoteMarker
    BY <1>1, <2>5, WriteMarkerHolds, PromoteMarkerHolds
  <2>6. CASE PublishAuthority
    BY <1>1, <2>6, PublishAuthorityHolds
  <2>7. CASE Completed
    BY <1>1, <2>7, EndHolds
  <2> QED BY <1>8, <2>1, <2>2, <2>3, <2>4, <2>5, <2>6, <2>7 DEF RunStep
<1>9. CASE CleanupStep
  <2>1. ASSUME NEW p \in Projects, RemoveRepository(p) PROVE RestoreInv'
    BY <1>1, <2>1, RemoveRepositoryHolds
  <2>2. CASE DropDatabase
    BY <1>1, <2>2, DropDatabaseHolds
  <2>3. CASE WithdrawCleanup
    BY <1>1, <2>3, WithdrawCleanupHolds
  <2>4. CASE CancelRefused
    BY <1>1, <2>4, EndHolds
  <2>5. CASE RepositoriesRemoved
    BY <1>1, <2>5, RepositoriesRemovedHolds
  <2>6. CASE DiscardStaging
    BY <1>1, <2>6, DiscardStagingHolds
  <2>7. CASE RemoveJournal
    BY <1>1, <2>7, RemoveJournalHolds
  <2> QED BY <1>9, <2>1, <2>2, <2>3, <2>4, <2>5, <2>6, <2>7 DEF CleanupStep
<1>10. CASE UNCHANGED vars
  <2>1. UNCHANGED <<backup, files, coordination, repositories>> /\ UNCHANGED <<call, write>>
    BY <1>10 DEF vars, process
  <2>2. /\ Live' = Live /\ Terminal' = Terminal
        /\ entries' = entries /\ terminals' = terminals /\ taking' = taking
    BY <2>1, CatalogKept
  <2>3. /\ UNCHANGED <<journal, journalPart, marker, markerPart, removal, removalPart>>
        /\ UNCHANGED <<schema, fence, database, placement>> /\ UNCHANGED <<staged, published>>
    BY <2>1 DEF files, coordination, repositories
  <2>4. DatabaseInv' /\ PhaseInv' /\ \A phase : Reached(phase) => Reached(phase)'
    BY <2>1, <2>3, MarkerMoves
  <2>5. FileTypes' /\ CallTypes' /\ Begun'
    BY <2>1, <2>2, <2>3 DEF RestoreInv, FileTypes, CallTypes, Begun
  <2>6. WriteInv'
    <3>1. Planned(journalPart) => Planned(journalPart)'
      BY <2>3, <2>4 DEF Planned
    <3>2. Planned(write.value) => Planned(write.value)'
      BY <2>1, <2>3, <2>4 DEF Planned
    <3> QED BY <2>1, <2>3, <3>1, <3>2 DEF RestoreInv, WriteInv, Writing, Unfinished, Part
  <2>7. CallInv'
    BY <2>1, <2>3 DEF RestoreInv, CallInv, Writing, Unfinished, NoDatabase, NoRepositories
  <2>8. RemovalInv'
    BY <2>1, <2>3 DEF RestoreInv, RemovalInv, Unfinished, NoDatabase, NoRepositories
  <2> QED BY <1>1, <2>1, <2>4, <2>5, <2>6, <2>7, <2>8 DEF TargetInv
<1> QED BY <1>3, <1>4, <1>5, <1>6, <1>7, <1>8, <1>9, <1>10 DEF Next, Step

\* The invariant of every reachable state of a backup and of the restores of it.
THEOREM RestoreInvHolds == Spec => []RestoreInv
<1>1. Init => RestoreInv
  BY InitHolds
<1>2. RestoreInv /\ [Next]_vars => RestoreInv'
  BY RestoreStepHolds
<1> QED BY <1>1, <1>2, PTL DEF Spec

\* A directory without its owner marker is there from its making until the import that
\* marks it, or for good: in any case only once staging has begun, and never where a
\* cleanup has come past it.
OwnedInv ==
  /\ journal.phase \notin Imported => unowned = {}
  /\ Unfinished \/ call.at \in {"remove"} \cup Removing => unowned = {}

\* A journal that follows one of staging is of staging too.
LEMMA ImportedFollows ==
  ASSUME NEW next, Planned(next), journal.phase \in Imported
  PROVE  next.phase \in Imported
<1>1. journal # NoFile
  BY DEF NoFile, Imported, Stored, Marked, InPlace, Authoritative
<1>2. CASE next.phase = journal.phase
  BY <1>2
<1>3. CASE Follows(next.phase, journal.phase)
  <2>1. \A i \in DOMAIN Phases : i \in {1, 2, 3, 4, 5, 6, 7, 8, 9}
    BY DEF Phases
  <2> QED BY <1>3, <2>1 DEF Follows, Phases, Imported, Stored, Marked, InPlace, Authoritative
<1> QED BY <1>1, <1>2, <1>3 DEF Planned

LEMMA OwnedStepHolds ==
  ASSUME RestoreInv, OwnedInv, [Next]_vars
  PROVE  OwnedInv'
<1>1. CASE UNCHANGED <<journal, removal, removalPart, unowned>> /\ call'.at = call.at
  BY <1>1 DEF OwnedInv, Unfinished
<1>2. ASSUME UNCHANGED <<journal, removal, removalPart, unowned>>,
             call'.at \notin {"remove"} \cup Removing
      PROVE  OwnedInv'
  BY <1>2 DEF OwnedInv, Unfinished
<1>3. CASE Environment \/ CallRecover
  <2>1. UNCHANGED <<journal, removal, removalPart, unowned>>
    BY <1>3 DEF Environment, Retire, CallRestore, CallCancel, CallRecover, Stop, files, repositories
  <2>2. call'.at = call.at \/ call'.at \in {"idle", "inspect"}
    BY <1>3 DEF Environment, Retire, CallRestore, CallCancel, CallRecover, Stop, Begin, NoCall,
                process
  <2> QED BY <1>1, <1>2, <2>1, <2>2 DEF Removing
<1>4. CASE BackupStep
  BY <1>1, <1>4 DEF BackupStep, ListProjects, CaptureProject, CapturesDone, PublishCatalog, files,
                    repositories, process
<1>5. CASE FileStep
  <2>1. CASE FillPart
    <3>1. UNCHANGED <<journal, removal, unowned, call>>
      BY <2>1 DEF FillPart, repositories, process
    <3>2. removalPart' = removalPart \/ call.at = "remove"
      BY <2>1 DEF FillPart, SetPart, RestoreInv, WriteInv, Writing
    <3> QED BY <3>1, <3>2 DEF OwnedInv, Unfinished
  <2>2. CASE RenamePart
    <3>1. unowned' = unowned
      BY <2>2 DEF RenamePart, repositories
    <3>2. CASE Writing("removal")
      <4>1. call.at = "remove"
        BY <3>2 DEF RestoreInv, WriteInv
      <4> QED BY <3>1, <4>1 DEF OwnedInv
    <3>3. CASE ~Writing("removal")
      <4>1. removal' = removal /\ removalPart' = removalPart /\ call' = call
        BY <2>2, <3>3 DEF RenamePart, SetFile, SetPart, Writing
      <4>2. journal' = journal \/ (Writing("journal") /\ journal' = write.value)
        BY <2>2 DEF RenamePart, SetFile, Writing
      <4>3. Writing("journal") => Planned(write.value)
        BY DEF RestoreInv, WriteInv
      <4>4. journal.phase \in Imported => journal'.phase \in Imported
        BY <4>2, <4>3, ImportedFollows
      <4> QED BY <3>1, <4>1, <4>4 DEF OwnedInv, Unfinished
    <3> QED BY <3>2, <3>3
  <2>3. CASE PromoteJournal
    <3>1. /\ UNCHANGED <<removal, removalPart, unowned, call>> /\ journal' = journalPart
          /\ journalPart \notin {NoFile, Torn}
      BY <2>3 DEF PromoteJournal, SetFile, SetPart, repositories, process
    <3>2. Planned(journalPart)
      BY <3>1 DEF RestoreInv, WriteInv, FileTypes
    <3>3. journal.phase \in Imported => journal'.phase \in Imported
      BY <3>1, <3>2, ImportedFollows
    <3> QED BY <3>1, <3>3 DEF OwnedInv, Unfinished
  <2>4. CASE PromoteRemoval
    <3>1. UNCHANGED <<journal, unowned, call>> /\ Unfinished
      BY <2>4 DEF PromoteRemoval, SetFile, Unfinished, repositories, process
    <3> QED BY <3>1 DEF OwnedInv
  <2>5. CASE RecoverRemoval
    <3>1. UNCHANGED <<journal, unowned>> /\ Unfinished
      BY <2>5 DEF RecoverRemoval, Unfinished, files, repositories
    <3> QED BY <3>1 DEF OwnedInv
  <2>6. CASE Unmark \/ Unjournal \/ Unintent
    <3>1. call.at \in Removing /\ unowned' = unowned
      BY <2>6 DEF Unmark, Unjournal, Unintent, Removing, repositories
    <3> QED BY <3>1 DEF OwnedInv
  <2> QED BY <1>5, <2>1, <2>2, <2>3, <2>4, <2>5, <2>6 DEF FileStep
<1>6. CASE CallStep
  <2>1. UNCHANGED <<journal, removal, removalPart, unowned>>
    BY <1>6 DEF CallStep, CreateJournal, ResumeRun, RequestCleanup, ResumeCleanup, Return,
                WriteJournal, Write, SetPart, files, repositories
  <2>2. CASE Return
    BY <1>2, <2>1, <2>2 DEF Return, NoCall, Removing
  <2>3. CASE CreateJournal \/ ResumeRun \/ RequestCleanup \/ ResumeCleanup
    <3>1. call.at = "inspect"
      BY <2>3 DEF CreateJournal, ResumeRun, RequestCleanup, ResumeCleanup, Settled, Inspecting
    <3>2. call \in [op : {"restore", "cancel", "recover"},
                   at : {"inspect", "run", "import", "cleanup"} \cup Cleaned \cup Removing]
      BY <3>1 DEF RestoreInv, CallTypes, NoCall
    <3>3. \E at \in {"run", "cleanup"} : call' = [call EXCEPT !.at = at]
      BY <2>3 DEF CreateJournal, ResumeRun, RequestCleanup, ResumeCleanup
    <3>4. call'.at \in {"run", "cleanup"}
      BY <3>2, <3>3
    <3> QED BY <1>2, <2>1, <3>4 DEF Removing
  <2> QED BY <1>6, <2>2, <2>3 DEF CallStep
<1>7. CASE RunStep
  <2>1. ASSUME NEW p \in Projects, MakeDirectory(p) \/ StageRepository(p)
        PROVE  OwnedInv'
    <3>1. /\ UNCHANGED <<journal, removal, removalPart>> /\ call.at \in {"run", "import"}
          /\ \E at \in {"run", "import"} : call' = [call EXCEPT !.at = at]
      BY <2>1 DEF MakeDirectory, StageRepository, Running, files
    <3>2. ~Unfinished /\ journal.phase = "coordination-imported"
      BY <2>1 DEF MakeDirectory, StageRepository, Running, RestoreInv, CallInv, Journal
    <3>3. call'.at \in {"run", "import"}
      BY <3>1 DEF RestoreInv, CallTypes, NoCall
    <3>4. "coordination-imported" \in Imported
      BY DEF Imported
    <3> QED BY <3>1, <3>2, <3>3, <3>4 DEF OwnedInv, Unfinished, Removing
  <2>2. \A phase : Advance(phase) =>
          UNCHANGED <<journal, removal, removalPart, unowned>> /\ call'.at = call.at
    BY DEF Advance, WriteJournal, Write, SetPart, repositories
  <2>3. CASE CreateFence \/ ApplySchema \/ PublishAuthority
    BY <1>1, <2>3 DEF CreateFence, ApplySchema, PublishAuthority, OnDatabase, files, repositories,
                      process
  <2>4. ASSUME NEW p \in Projects, ImportProject(p) \/ ImportTerminal(p) \/ PublishRepository(p)
        PROVE  OwnedInv'
    BY <1>1, <2>4 DEF ImportProject, ImportTerminal, PublishRepository, OnDatabase, OnStorage,
                      files, repositories, process
  <2>5. CASE WriteMarker \/ PromoteMarker
    BY <1>1, <2>5 DEF WriteMarker, PromoteMarker, Write, SetPart, SetFile, repositories, process
  <2>6. CASE Completed
    BY <1>2, <2>6 DEF Completed, NoCall, Removing, files, repositories
  <2> QED BY <1>1, <1>7, <2>1, <2>2, <2>3, <2>4, <2>5, <2>6
          DEF RunStep, DatabaseCreated, CoordinationImported, RepositoriesStaged,
              PairPreparedStep, RepositoriesPublished, AuthorityPublished, VerifyRestored,
              Complete
<1>8. CASE CleanupStep
  <2>1. CASE DiscardStaging
    <3>1. /\ UNCHANGED <<journal, unowned>> /\ call.at = "staging" /\ write = NoWrite
          /\ ~StagingBarred
      BY <2>1 DEF DiscardStaging, Cleaning, files
    <3>2. unowned = {}
      BY <3>1, PhaseOrder DEF OwnedInv, StagingBarred
    <3> QED BY <3>1, <3>2 DEF OwnedInv
  <2>2. CASE RemoveJournal
    <3>1. UNCHANGED <<journal, unowned>> /\ call.at = "remove"
      BY <2>2 DEF RemoveJournal, Cleaning, repositories
    <3> QED BY <3>1 DEF OwnedInv
  <2>3. ASSUME NEW p \in Projects, RemoveRepository(p)
        PROVE  OwnedInv'
    BY <1>1, <2>3 DEF RemoveRepository, OnStorage, files, process
  <2>4. CASE DropDatabase \/ RepositoriesRemoved \/ WithdrawCleanup \/ CancelRefused
    <3>1. UNCHANGED <<journal, removal, removalPart, unowned>>
      BY <2>4 DEF DropDatabase, RepositoriesRemoved, WithdrawCleanup, CancelRefused,
                  WriteJournal, Write, SetPart, files, repositories
    <3>2. CASE CancelRefused
      BY <1>2, <3>1, <3>2 DEF CancelRefused, NoCall, Removing
    <3>3. CASE DropDatabase \/ RepositoriesRemoved \/ WithdrawCleanup
      <4>1. call.at \in {"cleanup", "repositories"}
        BY <3>3 DEF DropDatabase, RepositoriesRemoved, WithdrawCleanup, Cleaning
      <4>2. call \in [op : {"restore", "cancel", "recover"},
                     at : {"inspect", "run", "import", "cleanup"} \cup Cleaned \cup Removing]
        BY <4>1 DEF RestoreInv, CallTypes, NoCall
      <4>3. \E at \in {"run", "repositories", "staging"} : call' = [call EXCEPT !.at = at]
        BY <3>3 DEF DropDatabase, RepositoriesRemoved, WithdrawCleanup, Then
      <4>4. call'.at \in {"run", "repositories", "staging"}
        BY <4>2, <4>3
      <4> QED BY <1>2, <3>1, <4>4 DEF Removing
    <3> QED BY <2>4, <3>2, <3>3
  <2> QED BY <1>8, <2>1, <2>2, <2>3, <2>4 DEF CleanupStep
<1>9. CASE UNCHANGED vars
  BY <1>1, <1>9 DEF vars, files, repositories, process
<1> QED BY <1>3, <1>4, <1>5, <1>6, <1>7, <1>8, <1>9 DEF Next, Step

THEOREM OwnedInvHolds == Spec => []OwnedInv
<1>1. Init => OwnedInv
  BY DEF Init, OwnedInv, Unfinished, NoCall, Removing
<1>2. RestoreInv /\ OwnedInv /\ [Next]_vars => OwnedInv'
  BY OwnedStepHolds
<1> QED BY <1>1, <1>2, RestoreInvHolds, PTL DEF Spec

\* A published catalog is one cut of the environment; authority is published only over a
\* whole environment; and a cancelled restore leaves nothing, wherever it was interrupted.
THEOREM RestoredWhole == Spec => []WholeOrNothing
<1>1. RestoreInv /\ OwnedInv => WholeOrNothing
  <2> SUFFICES ASSUME RestoreInv, OwnedInv PROVE WholeOrNothing
    OBVIOUS
  <2>1. CatalogWhole
    BY DEF RestoreInv, CatalogInv
  <2>2. PublishedWhole
    <3> SUFFICES ASSUME fence = "published" PROVE PublishedWhole
      BY DEF PublishedWhole
    <3>1. Reached(journal.phase) /\ journal.phase \in InPlace
      BY DEF RestoreInv, PhaseInv, DatabaseInv
    <3>2. journal.phase \in Marked /\ journal.phase \in Imported
      BY <3>1 DEF Imported, Stored, Marked
    <3> QED BY <3>1, <3>2 DEF PublishedWhole, Reached, TerminalsThere, RestoreInv, DatabaseInv,
                              ProjectRow, Generation
  <2>3. CancelLeavesNothing
    <3> SUFFICES ASSUME journal = NoFile
                 PROVE  /\ NoDatabase /\ NoRepositories /\ unowned = {}
                        /\ marker = NoFile /\ markerPart = NoFile
      BY DEF CancelLeavesNothing, Restoring, NoDatabase, NoRepositories
    <3>1. "none" \notin Imported /\ "none" \notin Stored /\ "none" \notin Marked
      BY DEF Imported, Stored, Marked, InPlace, Authoritative
    <3>2. Unreached("none")
      BY DEF RestoreInv, PhaseInv, NoFile
    <3>3. unowned = {}
      BY <3>1 DEF OwnedInv, NoFile
    <3> QED BY <3>1, <3>2, <3>3 DEF Unreached, NoRepositories
  <2> QED BY <2>1, <2>2, <2>3 DEF WholeOrNothing
<1> QED BY <1>1, RestoreInvHolds, OwnedInvHolds, PTL

\* Once authority is published, no cancellation, cleanup, recovery or stop takes anything
\* of the restored environment: not the database with its placements, not a repository, not
\* the mark of the volume.
THEOREM AuthorityIsKept ==
  Spec => [][fence = "published" => UNCHANGED <<coordination, repositories, marker>>]_vars
<1>1. ASSUME RestoreInv, [Next]_vars, fence = "published"
      PROVE  UNCHANGED <<coordination, repositories, marker>>
  <2> USE <1>1
  <2>1. journal.phase \in InPlace /\ ~NoDatabase
    BY DEF RestoreInv, DatabaseInv, NoDatabase
  <2>2. journal.phase \notin {"validated", "database-created", "coordination-imported",
                              "repositories-staged", "pair-prepared"}
    BY <2>1 DEF InPlace, Authoritative
  <2>3. call.at \notin Cleaned \cup Removing /\ write.file # "marker"
    BY <2>1, <2>2 DEF RestoreInv, CallInv, RemovalInv, WriteInv, Writing
  <2>4. CASE Environment \/ BackupStep \/ CallRecover \/ CallStep
    <3>1. CASE Environment \/ CallRecover
      BY <3>1 DEF Environment, Retire, CallRestore, CallCancel, CallRecover, Stop, files
    <3>2. CASE BackupStep
      BY <3>2 DEF BackupStep, ListProjects, CaptureProject, CapturesDone, PublishCatalog, files
    <3>3. CASE CallStep
      BY <3>3 DEF CallStep, CreateJournal, ResumeRun, RequestCleanup, ResumeCleanup, Return,
                  WriteJournal, Write, files
    <3> QED BY <2>4, <3>1, <3>2, <3>3
  <2>5. CASE FileStep
    <3>1. CASE FillPart \/ RenamePart
      BY <2>3, <3>1 DEF FillPart, RenamePart, SetFile
    <3>2. CASE PromoteJournal \/ PromoteRemoval \/ RecoverRemoval
      BY <3>2 DEF PromoteJournal, PromoteRemoval, RecoverRemoval, SetFile, files
    <3>3. ~Unmark /\ ~Unjournal /\ ~Unintent
      BY <2>3 DEF Unmark, Unjournal, Unintent, Removing
    <3> QED BY <2>5, <3>1, <3>2, <3>3 DEF FileStep
  <2>6. CASE RunStep
    <3>1. /\ ~CreateFence /\ ~ApplySchema /\ ~PromoteMarker /\ ~PublishAuthority
          /\ \A p \in Projects : /\ ~ImportProject(p) /\ ~ImportTerminal(p)
                                 /\ ~MakeDirectory(p) /\ ~StageRepository(p)
                                 /\ ~PublishRepository(p)
      <4>1. call.at # "import"
        BY <2>2 DEF RestoreInv, CallInv, Journal
      <4> QED BY <2>2, <4>1
              DEF CreateFence, ApplySchema, PromoteMarker, PublishAuthority, ImportProject,
                  ImportTerminal, MakeDirectory, StageRepository, PublishRepository, Running,
                  FenceIs
    <3>2. \A phase : Advance(phase) => UNCHANGED <<coordination, repositories, marker>>
      BY DEF Advance, WriteJournal, Write
    <3>3. CASE WriteMarker \/ Completed
      BY <3>3 DEF WriteMarker, Write, Completed, files
    <3> QED BY <2>6, <3>1, <3>2, <3>3
            DEF RunStep, DatabaseCreated, CoordinationImported, RepositoriesStaged,
                PairPreparedStep, RepositoriesPublished, AuthorityPublished, VerifyRestored,
                Complete
  <2>7. CASE CleanupStep
    <3>1. /\ ~DropDatabase /\ ~RepositoriesRemoved /\ ~DiscardStaging /\ ~RemoveJournal
          /\ \A p \in Projects : ~RemoveRepository(p)
      BY <2>3 DEF DropDatabase, RepositoriesRemoved, DiscardStaging, RemoveJournal,
                  RemoveRepository, Cleaning, Cleaned
    <3> QED BY <2>7, <3>1
            DEF CleanupStep, WithdrawCleanup, CancelRefused, WriteJournal, Write, files
  <2>8. CASE UNCHANGED vars
    BY <2>8 DEF vars, files
  <2> QED BY <2>4, <2>5, <2>6, <2>7, <2>8 DEF Next, Step
<1> QED BY <1>1, RestoreInvHolds, PTL DEF Spec

-----------------------------------------------------------------------------
(* Restore: what is read is put back. *)

LEMMA RelabelledRows ==
  ASSUME NEW rows, Rows(rows), NEW t
  PROVE  As(rows, t) = {Row(t, r.id, r.s, r.ref, r.n) : r \in rows}
<1>1. \A r \in rows : [r EXCEPT !.t = t] = Row(t, r.id, r.s, r.ref, r.n)
  <2> SUFFICES ASSUME NEW r \in rows
               PROVE  [r EXCEPT !.t = t] = Row(t, r.id, r.s, r.ref, r.n)
    OBVIOUS
  <2>1. r = Row(r.t, r.id, r.s, r.ref, r.n)
    BY DEF Rows
  <2> QED BY <2>1 DEF Row
<1> QED BY <1>1 DEF As

\* The kinds that a backup copies whole, and those that it splits with the terminal artifact.
CopiedKinds ==
  {"request", "requestComment", "ticket", "ticketComment", "ticketRelation", "ticketMention",
   "cloudEvent", "idempotencyTombstone", "authorityTransferRecovery", "claimBatchReceipt",
   "invitation", "invitationEnvelope", "recoveryLink", "claimOverride", "overrideEnvelope",
   "offer", "secretTombstone"}
SplitKinds == {"receiptKey", "redemptionReceipt", "responder", "terminalPrincipal", "claimEnvelope"}
\* Tables that are put back otherwise.
OwnTables ==
  {"projects", "project_memberships", "project_member_recovery_credentials",
   "project_event_sequences", "idempotency_results", "project_principal_bindings",
   "project_lifecycle_journals", "recovery_candidates", "transferred_membership_claims",
   "leave_former_principal_replays", "cloud_project_creation_journals",
   "cloud_project_join_journals", "project_member_removal_journals"}

LEMMA PlainTables ==
  /\ \A k \in CopiedKinds \cup SplitKinds : Plain[k] \notin OwnTables
  /\ \A k \in CopiedKinds \cup SplitKinds \cup {"tombstone"},
        l \in CopiedKinds \cup SplitKinds \cup {"tombstone"} : Plain[k] = Plain[l] => k = l
BY DEF Plain, CopiedKinds, SplitKinds, OwnTables

LEMMA OfKind ==
  ASSUME NEW rows, Rows(rows), NEW k
  PROVE  \A x \in As(rows, k) : x.t = k
BY TablesOfRows

LEMMA InTable ==
  ASSUME NEW rows, Rows(rows), NEW t
  PROVE  Rows(In(rows, t)) /\ \A r \in In(rows, t) : r \in rows /\ r.t = t
BY DEF Rows, In

LEMMA InSet ==
  ASSUME NEW rows, NEW t, NEW x
  PROVE  x \in In(rows, t) <=> x \in rows /\ x.t = t
BY DEF In

LEMMA CopiedOfKind ==
  ASSUME NEW db, Rows(db), NEW kinds, NEW k
  PROVE  \A x : x \in In(Copy(db, kinds), k) <=> k \in kinds /\ x \in As(In(db, Plain[k]), k)
<1> SUFFICES ASSUME NEW x
             PROVE  x \in In(Copy(db, kinds), k) <=> k \in kinds /\ x \in As(In(db, Plain[k]), k)
  OBVIOUS
<1>1. \A l : x \in As(In(db, Plain[l]), l) => x.t = l
  BY InTable, OfKind
<1>2. x \in Copy(db, kinds) <=> \E l \in kinds : x \in As(In(db, Plain[l]), l)
  BY DEF Copy
<1>3. x \in In(Copy(db, kinds), k) <=> x \in Copy(db, kinds) /\ x.t = k
  BY InSet
<1> QED BY <1>1, <1>2, <1>3

LEMMA PutBackInTable ==
  ASSUME NEW records, Rows(records), NEW kinds, NEW t
  PROVE  \A x : x \in In(PutBack(records, kinds), t) <=>
                  \E k \in kinds : Plain[k] = t /\ x \in As(In(records, k), t)
<1> SUFFICES ASSUME NEW x
             PROVE  x \in In(PutBack(records, kinds), t) <=>
                      \E k \in kinds : Plain[k] = t /\ x \in As(In(records, k), t)
  OBVIOUS
<1>1. \A k : x \in As(In(records, k), Plain[k]) => x.t = Plain[k]
  BY InTable, OfKind
<1>2. x \in PutBack(records, kinds) <=> \E k \in kinds : x \in As(In(records, k), Plain[k])
  BY DEF PutBack
<1>3. x \in In(PutBack(records, kinds), t) <=> x \in PutBack(records, kinds) /\ x.t = t
  BY InSet
<1> QED BY <1>1, <1>2, <1>3

Cursor(db) ==
  IF In(db, "project_event_sequences") = {}
  THEN {Row("eventCursor", "cursor", "none", "none", 0)}
  ELSE As(In(db, "project_event_sequences"), "eventCursor")

\* The readers of a backup, those that copy whole tables as one.
LEMMA BackupReads ==
  ASSUME NEW db, NEW excluded, NEW environment, NEW epoch
  PROVE  \A x : x \in ReadBackup(db, excluded, environment, epoch) <=>
           \/ x \in Copy(db, CopiedKinds) \/ x \in Filtered(db, Copy(db, SplitKinds), FALSE)
           \/ x \in ReadProject(db) \/ x \in ReadMembers(db) \/ x \in Cursor(db)
           \/ x \in ReadIdempotencyResults(db) \/ x \in ReadBindings(db)
           \/ x \in ReadPlacement(db) \/ x \in ReadLifecycle(db, excluded, FALSE)
           \/ x \in ReadCreations(db) \/ x \in ReadJoins(db) \/ x \in ReadRemovals(db)
           \/ x \in ReadLeaveReplays(db) \/ x \in ReadClaims(db)
           \/ x \in ReadPair(environment, epoch)
<1>1. \A kinds, x : x \in Copy(db, kinds) <=> \E k \in kinds : x \in As(In(db, Plain[k]), k)
  BY DEF Copy
<1>2. \A x : x \in Copy(db, CopiedKinds) <=>
        \/ x \in ReadRequests(db) \/ x \in ReadTickets(db) \/ x \in Copy(db, {"cloudEvent"})
        \/ x \in ReadIdempotencyTombstones(db) \/ x \in ReadTransferRecovery(db)
        \/ x \in ReadBatchReceipts(db) \/ x \in ReadInvitations(db) \/ x \in ReadRecoveryLinks(db)
        \/ x \in ReadOverrides(db) \/ x \in ReadOffers(db) \/ x \in ReadSecretTombstones(db)
  BY <1>1 DEF CopiedKinds, ReadRequests, ReadTickets, ReadIdempotencyTombstones,
              ReadTransferRecovery, ReadBatchReceipts, ReadInvitations, ReadRecoveryLinks,
              ReadOverrides, ReadOffers, ReadSecretTombstones
<1>3. \A x : x \in Filtered(db, Copy(db, SplitKinds), FALSE) <=>
        \/ x \in ReadReceiptKeys(db, FALSE) \/ x \in ReadRedemptions(db, FALSE)
        \/ x \in ReadResponders(db, FALSE) \/ x \in ReadEnvelopes(db, FALSE)
  BY <1>1 DEF SplitKinds, Filtered, ReadReceiptKeys, ReadRedemptions, ReadResponders, ReadEnvelopes
<1>4. \A x : x \in ReadEvents(db) <=> x \in Copy(db, {"cloudEvent"}) \/ x \in Cursor(db)
  BY DEF ReadEvents, Cursor
<1>5. \A x : x \in ReadBackup(db, excluded, environment, epoch) <=>
        \/ x \in ReadProject(db) \/ x \in ReadMembers(db) \/ x \in ReadRequests(db)
        \/ x \in ReadTickets(db) \/ x \in ReadEvents(db) \/ x \in ReadIdempotencyResults(db)
        \/ x \in ReadIdempotencyTombstones(db) \/ x \in ReadBindings(db)
        \/ x \in ReadPlacement(db) \/ x \in ReadLifecycle(db, excluded, FALSE)
        \/ x \in ReadCreations(db) \/ x \in ReadJoins(db) \/ x \in ReadRemovals(db)
        \/ x \in ReadLeaveReplays(db) \/ x \in ReadTransferRecovery(db) \/ x \in ReadClaims(db)
        \/ x \in ReadReceiptKeys(db, FALSE) \/ x \in ReadBatchReceipts(db)
        \/ x \in ReadRedemptions(db, FALSE) \/ x \in ReadResponders(db, FALSE)
        \/ x \in ReadEnvelopes(db, FALSE) \/ x \in ReadInvitations(db)
        \/ x \in ReadRecoveryLinks(db) \/ x \in ReadOverrides(db) \/ x \in ReadOffers(db)
        \/ x \in ReadSecretTombstones(db) \/ x \in ReadPair(environment, epoch)
  BY DEF ReadBackup, ReadPortable
<1> QED BY <1>2, <1>3, <1>4, <1>5

\* Each reader returns records of its own kinds.
LEMMA KindsRead ==
  ASSUME NEW db, Rows(db), NEW excluded, NEW environment, NEW epoch
  PROVE  /\ \A x \in Copy(db, CopiedKinds) : x.t \in CopiedKinds
         /\ \A x \in Filtered(db, Copy(db, SplitKinds), FALSE) : x.t \in SplitKinds
         /\ \A x \in ReadProject(db) : x.t = "project"
         /\ \A x \in ReadMembers(db) : x.t \in {"member", "memberVerifier"}
         /\ \A x \in Cursor(db) : x.t = "eventCursor"
         /\ \A x \in ReadIdempotencyResults(db) : x.t = "idempotency"
         /\ \A x \in ReadBindings(db) : x.t = "binding"
         /\ \A x \in ReadPlacement(db) : x.t = "placement"
         /\ \A x \in ReadLifecycle(db, excluded, FALSE) : x.t = "lifecycle"
         /\ \A x \in ReadCreations(db) \cup ReadJoins(db) \cup ReadRemovals(db) :
              x.t \in {"lifecycle", "membershipRecovery", "idempotency"}
         /\ \A x \in ReadLeaveReplays(db) : x.t \in {"leaveReplay", "idempotency"}
         /\ \A x \in ReadClaims(db) : x.t = "claim"
         /\ \A x \in ReadPair(environment, epoch) : x.t = "volumePair"
<1>1. \A some, k : some \subseteq db => \A x \in As(some, k) : x.t = k
  <2> SUFFICES ASSUME NEW some, NEW k, some \subseteq db
               PROVE  \A x \in As(some, k) : x.t = k
    OBVIOUS
  <2>1. Rows(some)
    BY DEF Rows
  <2> QED BY <2>1, OfKind
<1>2. \A t : In(db, t) \subseteq db
  BY DEF In
<1>3. /\ \A x \in Copy(db, CopiedKinds) : x.t \in CopiedKinds
      /\ \A x \in Filtered(db, Copy(db, SplitKinds), FALSE) : x.t \in SplitKinds
  BY CopiesOfRows DEF Filtered
<1>4. /\ \A x \in ReadProject(db) : x.t = "project"
      /\ \A x \in ReadPair(environment, epoch) : x.t = "volumePair"
  BY DEF ReadProject, ReadPair, Row
<1>5. \A x \in ReadMembers(db) : x.t \in {"member", "memberVerifier"}
  <2>1. {r \in In(db, "project_memberships") : r.s # "pending"} \subseteq db
    BY DEF In
  <2>2. \A x \in As({r \in In(db, "project_memberships") : r.s # "pending"}, "member") :
          x.t = "member"
    BY <1>1, <2>1
  <2>3. \A v, id : Row("memberVerifier", v, "none", id, 0).t = "memberVerifier"
    BY DEF Row
  <2> QED BY <2>2, <2>3 DEF ReadMembers
<1>6. \A x \in Cursor(db) : x.t = "eventCursor"
  BY <1>1, <1>2 DEF Cursor, Row
<1>7. \A x \in ReadIdempotencyResults(db) : x.t = "idempotency"
  BY <1>1, <1>2 DEF ReadIdempotencyResults
<1>8. /\ \A x \in ReadBindings(db) : x.t = "binding"
      /\ \A x \in ReadPlacement(db) : x.t = "placement"
      /\ \A x \in ReadLifecycle(db, excluded, FALSE) : x.t = "lifecycle"
      /\ \A x \in ReadClaims(db) : x.t = "claim"
  <2>1. /\ {r \in In(db, "project_principal_bindings") : r.s = "active"} \subseteq db
        /\ {r \in In(db, "repository_placements") : r.s = "active"} \subseteq db
        /\ {r \in In(db, "project_lifecycle_journals") :
             r.id # excluded /\ TerminalJournal(db, r) = FALSE} \subseteq db
        /\ {r \in In(db, "transferred_membership_claims") :
             \E l \in In(db, "project_lifecycle_journals") : l.id = r.ref /\ l.n = r.n}
             \subseteq db
    BY DEF In
  <2> QED BY <1>1, <2>1 DEF ReadBindings, ReadPlacement, ReadLifecycle, ReadClaims
<1>9. \A table, kind, operation : \A x \in ReadCompletedMembership(db, table, kind, operation) :
        x.t \in {"lifecycle", "membershipRecovery", "idempotency"}
  BY DEF ReadCompletedMembership, Row
<1>10. \A x \in ReadCreations(db) \cup ReadJoins(db) \cup ReadRemovals(db) :
         x.t \in {"lifecycle", "membershipRecovery", "idempotency"}
  BY <1>9 DEF ReadCreations, ReadJoins, ReadRemovals, Row
<1>11. \A x \in ReadLeaveReplays(db) : x.t \in {"leaveReplay", "idempotency"}
  BY DEF ReadLeaveReplays, Row
<1> QED BY <1>3, <1>4, <1>5, <1>6, <1>7, <1>8, <1>10, <1>11

\* The records that EnvironmentBackupCommand captures of a Project.
Taken(db) == ReadBackup(db, BackupOperation, "source", 1)

\* The records of one kind, of the kinds the answers depend on.
LEMMA RecordsOfKind ==
  ASSUME NEW db, Rows(db)
  PROVE  \A x :
    /\ x.t \in CopiedKinds => (x \in Taken(db) <=> x \in Copy(db, CopiedKinds))
    /\ x.t \in SplitKinds => (x \in Taken(db) <=> x \in Filtered(db, Copy(db, SplitKinds), FALSE))
    /\ x.t = "memberVerifier" => (x \in Taken(db) <=> x \in ReadMembers(db))
    /\ x.t = "eventCursor" => (x \in Taken(db) <=> x \in Cursor(db))
    /\ x.t = "binding" => (x \in Taken(db) <=> x \in ReadBindings(db))
    /\ x.t = "claim" => (x \in Taken(db) <=> x \in ReadClaims(db))
    /\ x.t = "leaveReplay" => (x \in Taken(db) <=> x \in ReadLeaveReplays(db))
    /\ x.t = "membershipRecovery" =>
         (x \in Taken(db) <=> x \in ReadCreations(db) \cup ReadJoins(db) \cup ReadRemovals(db))
    /\ x.t = "lifecycle" =>
         (x \in Taken(db) <=> x \in ReadLifecycle(db, BackupOperation, FALSE) \cup ReadCreations(db)
                                    \cup ReadJoins(db) \cup ReadRemovals(db))
    /\ x.t = "idempotency" =>
         (x \in Taken(db) <=> x \in ReadIdempotencyResults(db) \cup ReadCreations(db)
                                    \cup ReadJoins(db) \cup ReadRemovals(db)
                                    \cup ReadLeaveReplays(db))
<1> SUFFICES ASSUME NEW x
    PROVE
    /\ x.t \in CopiedKinds => (x \in Taken(db) <=> x \in Copy(db, CopiedKinds))
    /\ x.t \in SplitKinds => (x \in Taken(db) <=> x \in Filtered(db, Copy(db, SplitKinds), FALSE))
    /\ x.t = "memberVerifier" => (x \in Taken(db) <=> x \in ReadMembers(db))
    /\ x.t = "eventCursor" => (x \in Taken(db) <=> x \in Cursor(db))
    /\ x.t = "binding" => (x \in Taken(db) <=> x \in ReadBindings(db))
    /\ x.t = "claim" => (x \in Taken(db) <=> x \in ReadClaims(db))
    /\ x.t = "leaveReplay" => (x \in Taken(db) <=> x \in ReadLeaveReplays(db))
    /\ x.t = "membershipRecovery" =>
         (x \in Taken(db) <=> x \in ReadCreations(db) \cup ReadJoins(db) \cup ReadRemovals(db))
    /\ x.t = "lifecycle" =>
         (x \in Taken(db) <=> x \in ReadLifecycle(db, BackupOperation, FALSE) \cup ReadCreations(db)
                                    \cup ReadJoins(db) \cup ReadRemovals(db))
    /\ x.t = "idempotency" =>
         (x \in Taken(db) <=> x \in ReadIdempotencyResults(db) \cup ReadCreations(db)
                                    \cup ReadJoins(db) \cup ReadRemovals(db)
                                    \cup ReadLeaveReplays(db))
  OBVIOUS
<1>1. x \in Taken(db) <=>
           \/ x \in Copy(db, CopiedKinds) \/ x \in Filtered(db, Copy(db, SplitKinds), FALSE)
           \/ x \in ReadProject(db) \/ x \in ReadMembers(db) \/ x \in Cursor(db)
           \/ x \in ReadIdempotencyResults(db) \/ x \in ReadBindings(db)
           \/ x \in ReadPlacement(db) \/ x \in ReadLifecycle(db, BackupOperation, FALSE)
           \/ x \in ReadCreations(db) \/ x \in ReadJoins(db) \/ x \in ReadRemovals(db)
           \/ x \in ReadLeaveReplays(db) \/ x \in ReadClaims(db)
           \/ x \in ReadPair("source", 1)
  BY BackupReads DEF Taken
<1>2. /\ x \in Copy(db, CopiedKinds) => x.t \in CopiedKinds
      /\ x \in Filtered(db, Copy(db, SplitKinds), FALSE) => x.t \in SplitKinds
      /\ x \in ReadProject(db) => x.t = "project"
      /\ x \in ReadMembers(db) => x.t \in {"member", "memberVerifier"}
      /\ x \in Cursor(db) => x.t = "eventCursor"
      /\ x \in ReadIdempotencyResults(db) => x.t = "idempotency"
      /\ x \in ReadBindings(db) => x.t = "binding"
      /\ x \in ReadPlacement(db) => x.t = "placement"
      /\ x \in ReadLifecycle(db, BackupOperation, FALSE) => x.t = "lifecycle"
      /\ x \in ReadCreations(db) \cup ReadJoins(db) \cup ReadRemovals(db) =>
           x.t \in {"lifecycle", "membershipRecovery", "idempotency"}
      /\ x \in ReadLeaveReplays(db) => x.t \in {"leaveReplay", "idempotency"}
      /\ x \in ReadClaims(db) => x.t = "claim"
      /\ x \in ReadPair("source", 1) => x.t = "volumePair"
  BY KindsRead
<1>3. x.t \in CopiedKinds \cup SplitKinds =>
        x.t \notin {"project", "member", "memberVerifier", "eventCursor", "idempotency", "binding",
                    "placement", "lifecycle", "membershipRecovery", "leaveReplay", "claim",
                    "volumePair"}
  BY DEF CopiedKinds, SplitKinds
<1>4. x.t \notin CopiedKinds \/ x.t \notin SplitKinds
  BY DEF CopiedKinds, SplitKinds
<1> QED BY <1>1, <1>2, <1>3, <1>4

MembershipJournals ==
  {"cloud_project_creation_journals", "cloud_project_join_journals",
   "project_member_removal_journals"}

\* The inserts of a restore, those that put whole tables back as one.
LEMMA RowsInserted ==
  ASSUME NEW records
  PROVE  \A x : x \in ImportRows(records) <=>
           \/ x \in PutBack(records, CopiedKinds \cup SplitKinds)
           \/ x \in ImportProjectRow(records) \/ x \in ImportMembers(records)
           \/ x \in As({r \in In(records, "eventCursor") : r.n > 0}, "project_event_sequences")
           \/ x \in ImportIdempotency(records) \/ x \in ImportBindings(records)
           \/ x \in ImportLifecycle(records)
           \/ x \in As(In(records, "claim"), "transferred_membership_claims")
           \/ x \in ImportLeaveReplays(records) \/ x \in ImportMembershipRecovery(records)
<1>1. \A kinds, x : x \in PutBack(records, kinds) <=>
                    \E k \in kinds : x \in As(In(records, k), Plain[k])
  BY DEF PutBack
<1>2. \A x : x \in PutBack(records, CopiedKinds \cup SplitKinds) <=>
        \/ x \in ImportCollaboration(records) \/ x \in PutBack(records, {"cloudEvent"})
        \/ x \in PutBack(records, {"authorityTransferRecovery", "receiptKey",
                                   "claimBatchReceipt", "redemptionReceipt"})
        \/ x \in ImportResponders(records) \/ x \in ImportInvitations(records)
        \/ x \in ImportOverrides(records) \/ x \in ImportOffers(records)
        \/ x \in ImportEnvelopes(records)
  BY <1>1 DEF CopiedKinds, SplitKinds, ImportCollaboration, ImportResponders, ImportInvitations,
              ImportOverrides, ImportOffers, ImportEnvelopes
<1>3. \A x : x \in ImportRows(records) <=>
        \/ x \in ImportProjectRow(records) \/ x \in ImportMembers(records)
        \/ x \in ImportCollaboration(records) \/ x \in ImportEvents(records)
        \/ x \in ImportIdempotency(records) \/ x \in ImportBindings(records)
        \/ x \in ImportLifecycle(records) \/ x \in ImportTransfers(records)
        \/ x \in ImportResponders(records) \/ x \in ImportLeaveReplays(records)
        \/ x \in ImportInvitations(records) \/ x \in ImportOverrides(records)
        \/ x \in ImportOffers(records) \/ x \in ImportEnvelopes(records)
        \/ x \in ImportMembershipRecovery(records)
  BY DEF ImportRows
<1>4. \A x : x \in ImportEvents(records) <=>
        \/ x \in PutBack(records, {"cloudEvent"})
        \/ x \in As({r \in In(records, "eventCursor") : r.n > 0}, "project_event_sequences")
  BY DEF ImportEvents
<1>5. \A x : x \in ImportTransfers(records) <=>
        \/ x \in PutBack(records, {"authorityTransferRecovery", "receiptKey",
                                   "claimBatchReceipt", "redemptionReceipt"})
        \/ x \in As(In(records, "claim"), "transferred_membership_claims")
  BY DEF ImportTransfers
<1> QED BY <1>2, <1>3, <1>4, <1>5

\* The rows of one table, of the tables the answers depend on.
LEMMA RowsOfTable ==
  ASSUME NEW records, Rows(records), NEW rows, rows = ImportRows(records)
  PROVE  \A x :
    /\ x.t \notin OwnTables => (x \in rows <=> x \in PutBack(records, CopiedKinds \cup SplitKinds))
    /\ x.t = "project_member_recovery_credentials" =>
         (x \in rows <=>
            x \in As(In(records, "memberVerifier"), "project_member_recovery_credentials"))
    /\ x.t = "project_event_sequences" =>
         (x \in rows <=>
            x \in As({r \in In(records, "eventCursor") : r.n > 0}, "project_event_sequences"))
    /\ x.t = "idempotency_results" => (x \in rows <=> x \in ImportIdempotency(records))
    /\ x.t = "project_principal_bindings" => (x \in rows <=> x \in ImportBindings(records))
    /\ x.t = "project_lifecycle_journals" =>
         (x \in rows <=>
            x \in As({r \in In(records, "lifecycle") :
                        r.ref \notin {"create-project", "join-project"}},
                     "project_lifecycle_journals"))
    /\ x.t = "transferred_membership_claims" =>
         (x \in rows <=> x \in As(In(records, "claim"), "transferred_membership_claims"))
    /\ x.t = "leave_former_principal_replays" => (x \in rows <=> x \in ImportLeaveReplays(records))
    /\ x.t \in MembershipJournals => (x \in rows <=> x \in ImportMembershipRecovery(records))
<1> SUFFICES ASSUME NEW x
    PROVE
    /\ x.t \notin OwnTables => (x \in rows <=> x \in PutBack(records, CopiedKinds \cup SplitKinds))
    /\ x.t = "project_member_recovery_credentials" =>
         (x \in rows <=>
            x \in As(In(records, "memberVerifier"), "project_member_recovery_credentials"))
    /\ x.t = "project_event_sequences" =>
         (x \in rows <=>
            x \in As({r \in In(records, "eventCursor") : r.n > 0}, "project_event_sequences"))
    /\ x.t = "idempotency_results" => (x \in rows <=> x \in ImportIdempotency(records))
    /\ x.t = "project_principal_bindings" => (x \in rows <=> x \in ImportBindings(records))
    /\ x.t = "project_lifecycle_journals" =>
         (x \in rows <=>
            x \in As({r \in In(records, "lifecycle") :
                        r.ref \notin {"create-project", "join-project"}},
                     "project_lifecycle_journals"))
    /\ x.t = "transferred_membership_claims" =>
         (x \in rows <=> x \in As(In(records, "claim"), "transferred_membership_claims"))
    /\ x.t = "leave_former_principal_replays" => (x \in rows <=> x \in ImportLeaveReplays(records))
    /\ x.t \in MembershipJournals => (x \in rows <=> x \in ImportMembershipRecovery(records))
  OBVIOUS
<1> DEFINE journals == {r \in In(records, "lifecycle") :
                          r.ref \notin {"create-project", "join-project"}}
<1>1. \A some, t : some \subseteq records /\ x \in As(some, t) => x.t = t
  <2> SUFFICES ASSUME NEW some, NEW t, some \subseteq records, x \in As(some, t)
               PROVE  x.t = t
    OBVIOUS
  <2>1. Rows(some)
    BY DEF Rows
  <2> QED BY <2>1, OfKind
<1>2. \A k : In(records, k) \subseteq records
  BY DEF In
<1>3. journals \subseteq records
  BY DEF In
<1>4. x \in rows <=>
           \/ x \in PutBack(records, CopiedKinds \cup SplitKinds)
           \/ x \in ImportProjectRow(records) \/ x \in ImportMembers(records)
           \/ x \in As({r \in In(records, "eventCursor") : r.n > 0}, "project_event_sequences")
           \/ x \in ImportIdempotency(records) \/ x \in ImportBindings(records)
           \/ x \in ImportLifecycle(records)
           \/ x \in As(In(records, "claim"), "transferred_membership_claims")
           \/ x \in ImportLeaveReplays(records) \/ x \in ImportMembershipRecovery(records)
  BY RowsInserted
<1>5. x \in PutBack(records, CopiedKinds \cup SplitKinds) => x.t \notin OwnTables
  BY RowsPutBack, PlainTables
<1>6. x \in ImportProjectRow(records) => x.t = "projects"
  BY DEF ImportProjectRow, Row
<1>7. /\ x \in As(In(records, "member"), "project_memberships") => x.t = "project_memberships"
      /\ x \in As(In(records, "memberVerifier"), "project_member_recovery_credentials") =>
           x.t = "project_member_recovery_credentials"
      /\ x \in ImportMembers(records) <=>
           \/ x \in As(In(records, "member"), "project_memberships")
           \/ x \in As(In(records, "memberVerifier"), "project_member_recovery_credentials")
  BY <1>1, <1>2 DEF ImportMembers
<1>8. {r \in In(records, "eventCursor") : r.n > 0} \subseteq records
  BY DEF In
<1>9. x \in As({r \in In(records, "eventCursor") : r.n > 0}, "project_event_sequences") =>
        x.t = "project_event_sequences"
  BY <1>1, <1>8
<1>10. x \in ImportIdempotency(records) => x.t = "idempotency_results"
  <2>1. {r \in In(records, "idempotency") : r.s \notin Synthetic} \subseteq records
    BY DEF In
  <2> QED BY <1>1, <2>1 DEF ImportIdempotency
<1>11. x \in ImportBindings(records) => x.t = "project_principal_bindings"
  BY <1>1, <1>2 DEF ImportBindings
<1>12. /\ x \in As(journals, "project_lifecycle_journals") => x.t = "project_lifecycle_journals"
       /\ x \in As({r \in journals : r.s \in {"active", "recovery-required"}},
                   "recovery_candidates") => x.t = "recovery_candidates"
       /\ x \in ImportLifecycle(records) <=>
            \/ x \in As(journals, "project_lifecycle_journals")
            \/ x \in As({r \in journals : r.s \in {"active", "recovery-required"}},
                        "recovery_candidates")
  <2>1. {r \in journals : r.s \in {"active", "recovery-required"}} \subseteq records
    BY <1>3
  <2>2. /\ x \in As(journals, "project_lifecycle_journals") => x.t = "project_lifecycle_journals"
        /\ x \in As({r \in journals : r.s \in {"active", "recovery-required"}},
                    "recovery_candidates") => x.t = "recovery_candidates"
    BY <1>1, <1>3, <2>1
  <2>3. ImportLifecycle(records) =
          As(journals, "project_lifecycle_journals")
            \cup As({r \in journals : r.s \in {"active", "recovery-required"}},
                    "recovery_candidates")
    BY DEF ImportLifecycle
  <2> HIDE DEF journals
  <2> QED BY <2>2, <2>3
<1>13. x \in As(In(records, "claim"), "transferred_membership_claims") =>
         x.t = "transferred_membership_claims"
  BY <1>1, <1>2
<1>14. x \in ImportLeaveReplays(records) => x.t = "leave_former_principal_replays"
  BY <1>1, <1>2 DEF ImportLeaveReplays
<1>15. x \in ImportMembershipRecovery(records) => x.t \in MembershipJournals
  BY DEF ImportMembershipRecovery, Row, JournalTable, MembershipJournals
<1> HIDE DEF journals
<1>16. x.t \in MembershipJournals =>
         x.t \in {"cloud_project_creation_journals", "cloud_project_join_journals",
                  "project_member_removal_journals"}
  BY DEF MembershipJournals
<1>17. x.t \in OwnTables <=>
         x.t \in {"projects", "project_memberships", "project_member_recovery_credentials",
   "project_event_sequences", "idempotency_results", "project_principal_bindings",
   "project_lifecycle_journals", "recovery_candidates", "transferred_membership_claims",
   "leave_former_principal_replays", "cloud_project_creation_journals",
   "cloud_project_join_journals", "project_member_removal_journals"}
  BY DEF OwnTables
<1> QED BY <1>4, <1>5, <1>6, <1>7, <1>9, <1>10, <1>11, <1>12, <1>13, <1>14, <1>15, <1>16, <1>17
        DEF journals

\* A row, and the same row under another table or kind.
Is(x) == x = Row(x.t, x.id, x.s, x.ref, x.n) /\ x.n \in Nat
At(x, t) == Row(t, x.id, x.s, x.ref, x.n)

LEMMA RowAt ==
  ASSUME NEW x, NEW t
  PROVE  /\ At(x, t).t = t /\ At(x, t).id = x.id /\ At(x, t).s = x.s
         /\ At(x, t).ref = x.ref /\ At(x, t).n = x.n
         /\ \A u : At(At(x, t), u) = At(x, u)
         /\ Is(x) => Is(At(x, t)) /\ At(x, x.t) = x
BY DEF At, Is, Row

LEMMA Relabelled ==
  ASSUME NEW rows, Rows(rows), NEW t, \A r \in rows : r.t = t, NEW k
  PROVE  \A x : x \in As(rows, k) <=> Is(x) /\ x.t = k /\ At(x, t) \in rows
<1> SUFFICES ASSUME NEW x
             PROVE  x \in As(rows, k) <=> Is(x) /\ x.t = k /\ At(x, t) \in rows
  OBVIOUS
<1>1. As(rows, k) = {Row(k, r.id, r.s, r.ref, r.n) : r \in rows}
  BY RelabelledRows
<1>2. ASSUME x \in As(rows, k)
      PROVE  Is(x) /\ x.t = k /\ At(x, t) \in rows
  <2>1. PICK r \in rows : x = Row(k, r.id, r.s, r.ref, r.n)
    BY <1>1, <1>2
  <2>2. r = Row(t, r.id, r.s, r.ref, r.n) /\ r.n \in Nat
    BY DEF Rows
  <2>3. x.t = k /\ x.id = r.id /\ x.s = r.s /\ x.ref = r.ref /\ x.n = r.n
    BY <2>1 DEF Row
  <2> QED BY <2>1, <2>2, <2>3 DEF Is, At
<1>3. ASSUME Is(x), x.t = k, At(x, t) \in rows
      PROVE  x \in As(rows, k)
  <2>1. At(x, t).id = x.id /\ At(x, t).s = x.s /\ At(x, t).ref = x.ref /\ At(x, t).n = x.n
    BY RowAt
  <2>2. x = Row(k, x.id, x.s, x.ref, x.n)
    BY <1>3 DEF Is
  <2> QED BY <1>1, <1>3, <2>1, <2>2
<1> QED BY <1>2, <1>3

\* The records that a backup takes of a table it copies.
LEMMA CopiedRecords ==
  ASSUME NEW db, Rows(db)
  PROVE  /\ \A k \in CopiedKinds : \A x : x.t = k =>
              (x \in Taken(db) <=> Is(x) /\ At(x, Plain[k]) \in db)
         /\ \A k \in SplitKinds : \A x : x.t = k =>
              (x \in Taken(db) <=> Is(x) /\ At(x, Plain[k]) \in db
                                   /\ TerminalOperation(db, x.ref) = FALSE)
<1>1. \A kinds, x : x.t \in kinds => (x \in Copy(db, kinds) <=> Is(x) /\ At(x, Plain[x.t]) \in db)
  <2> SUFFICES ASSUME NEW kinds, NEW x, x.t \in kinds
               PROVE  x \in Copy(db, kinds) <=> Is(x) /\ At(x, Plain[x.t]) \in db
    OBVIOUS
  <2>1. x \in Copy(db, kinds) <=> x \in As(In(db, Plain[x.t]), x.t)
    BY CopiedOfKind, InSet
  <2>2. Rows(In(db, Plain[x.t])) /\ \A r \in In(db, Plain[x.t]) : r.t = Plain[x.t]
    BY InTable
  <2>3. x \in As(In(db, Plain[x.t]), x.t) <=> Is(x) /\ At(x, Plain[x.t]) \in In(db, Plain[x.t])
    BY <2>2, Relabelled
  <2>4. At(x, Plain[x.t]).t = Plain[x.t]
    BY RowAt
  <2> QED BY <2>1, <2>3, <2>4, InSet
<1>2. \A x : x \in Filtered(db, Copy(db, SplitKinds), FALSE) <=>
               x \in Copy(db, SplitKinds) /\ TerminalOperation(db, x.ref) = FALSE
  BY DEF Filtered
<1>3. \A x : /\ x.t \in CopiedKinds => (x \in Taken(db) <=> x \in Copy(db, CopiedKinds))
             /\ x.t \in SplitKinds =>
                  (x \in Taken(db) <=> x \in Filtered(db, Copy(db, SplitKinds), FALSE))
  BY RecordsOfKind
<1> QED BY <1>1, <1>2, <1>3

\* The rows of those kinds that are put back.
LEMMA CopiedRows ==
  ASSUME NEW records, Rows(records), NEW kinds,
         kinds \subseteq CopiedKinds \cup SplitKinds \cup {"tombstone"},
         NEW k \in CopiedKinds \cup SplitKinds \cup {"tombstone"}
  PROVE  \A x : x.t = Plain[k] =>
           (x \in PutBack(records, kinds) <=> k \in kinds /\ Is(x) /\ At(x, k) \in records)
<1> SUFFICES ASSUME NEW x, x.t = Plain[k]
             PROVE  x \in PutBack(records, kinds) <=> k \in kinds /\ Is(x) /\ At(x, k) \in records
  OBVIOUS
<1>1. x \in PutBack(records, kinds) <=>
        \E l \in kinds : Plain[l] = x.t /\ x \in As(In(records, l), x.t)
  <2>1. x \in In(PutBack(records, kinds), x.t) <=> x \in PutBack(records, kinds)
    BY InSet
  <2>2. x \in In(PutBack(records, kinds), x.t) <=>
          \E l \in kinds : Plain[l] = x.t /\ x \in As(In(records, l), x.t)
    BY PutBackInTable
  <2> QED BY <2>1, <2>2
<1>2. \A l \in kinds : Plain[l] = x.t <=> l = k
  BY PlainTables
<1>3. Rows(In(records, k)) /\ \A r \in In(records, k) : r.t = k
  BY InTable
<1>4. x \in As(In(records, k), x.t) <=> Is(x) /\ At(x, k) \in In(records, k)
  BY <1>3, Relabelled
<1>5. At(x, k) \in In(records, k) <=> At(x, k) \in records
  BY InSet, RowAt
<1> QED BY <1>1, <1>2, <1>4, <1>5

\* What the terminal artifact holds, and the rows it puts back.
LEMMA TerminalRecords ==
  ASSUME NEW db, Rows(db)
  PROVE  /\ \A k \in SplitKinds : \A x : x.t = k =>
              (x \in ReadTerminal(db) <=> Is(x) /\ At(x, Plain[k]) \in db
                                   /\ TerminalOperation(db, x.ref) = TRUE)
         /\ \A x : x.t = "lifecycle" =>
              (x \in ReadTerminal(db) <=> x \in ReadLifecycle(db, "none", TRUE))
         /\ Rows(ReadTerminal(db))
<1> SUFFICES ASSUME NEW x
             PROVE  /\ \A k \in SplitKinds : x.t = k =>
                         (x \in ReadTerminal(db) <=> Is(x) /\ At(x, Plain[k]) \in db
                                              /\ TerminalOperation(db, x.ref) = TRUE)
                    /\ x.t = "lifecycle" =>
                         (x \in ReadTerminal(db) <=> x \in ReadLifecycle(db, "none", TRUE))
  BY TerminalRowsReadBack
<1>1. \A kinds, y : y \in Copy(db, kinds) <=> \E k \in kinds : y \in As(In(db, Plain[k]), k)
  BY DEF Copy
<1>2. x \in Filtered(db, Copy(db, SplitKinds), TRUE) <=>
        \/ x \in ReadReceiptKeys(db, TRUE) \/ x \in ReadRedemptions(db, TRUE)
        \/ x \in ReadResponders(db, TRUE) \/ x \in ReadEnvelopes(db, TRUE)
  BY <1>1 DEF SplitKinds, Filtered, ReadReceiptKeys, ReadRedemptions, ReadResponders, ReadEnvelopes
<1>3. x \in ReadTerminal(db) <=>
        \/ x \in ReadLifecycle(db, "none", TRUE)
        \/ x \in Filtered(db, Copy(db, SplitKinds), TRUE) \/ x \in ReadTombstones(db)
  BY <1>2 DEF ReadTerminal
<1>4. x \in ReadLifecycle(db, "none", TRUE) => x.t = "lifecycle"
  <2> DEFINE ended == {r \in In(db, "project_lifecycle_journals") :
                         r.id # "none" /\ TerminalJournal(db, r) = TRUE}
  <2>1. Rows(ended)
    BY DEF Rows, In
  <2>2. ReadLifecycle(db, "none", TRUE) = As(ended, "lifecycle")
    BY DEF ReadLifecycle
  <2> QED BY <2>1, <2>2, OfKind
<1>5. x \in ReadTombstones(db) => x.t = "tombstone"
  BY CopiesOfRows DEF ReadTombstones
<1>6. x \in Copy(db, SplitKinds) => x.t \in SplitKinds
  BY CopiesOfRows
<1>7. x \in Filtered(db, Copy(db, SplitKinds), TRUE) <=>
        x \in Copy(db, SplitKinds) /\ TerminalOperation(db, x.ref) = TRUE
  BY DEF Filtered
<1>8. x.t \in SplitKinds => (x \in Copy(db, SplitKinds) <=> Is(x) /\ At(x, Plain[x.t]) \in db)
  <2> SUFFICES ASSUME x.t \in SplitKinds
               PROVE  x \in Copy(db, SplitKinds) <=> Is(x) /\ At(x, Plain[x.t]) \in db
    OBVIOUS
  <2>1. x \in Copy(db, SplitKinds) <=> x \in As(In(db, Plain[x.t]), x.t)
    BY CopiedOfKind, InSet
  <2>2. Rows(In(db, Plain[x.t])) /\ \A r \in In(db, Plain[x.t]) : r.t = Plain[x.t]
    BY InTable
  <2>3. x \in As(In(db, Plain[x.t]), x.t) <=> Is(x) /\ At(x, Plain[x.t]) \in In(db, Plain[x.t])
    BY <2>2, Relabelled
  <2>4. At(x, Plain[x.t]).t = Plain[x.t]
    BY RowAt
  <2> QED BY <2>1, <2>3, <2>4, InSet
<1>9. "lifecycle" \notin SplitKinds /\ "tombstone" \notin SplitKinds
  BY DEF SplitKinds
<1> QED BY <1>3, <1>4, <1>5, <1>6, <1>7, <1>8, <1>9

\* Rows of a restored Project: what its two artifacts put back, but for its own row.
Restored(rows, db) ==
  \A x : x.t # "projects" =>
    (x \in rows <=> \/ x \in ImportRows(Taken(db))
                    \/ x \in TerminalRows(ReadTerminal(db)))

LEMMA TerminalRowsOfTable ==
  ASSUME NEW records, Rows(records)
  PROVE  \A x :
    /\ x.t \notin OwnTables =>
         (x \in TerminalRows(records) <=> x \in PutBack(records, SplitKinds \cup {"tombstone"}))
    /\ x.t = "project_lifecycle_journals" =>
         (x \in TerminalRows(records) <=> Is(x) /\ At(x, "lifecycle") \in records)
    /\ x.t \in OwnTables \ {"project_lifecycle_journals"} => x \notin TerminalRows(records)
<1> SUFFICES ASSUME NEW x
    PROVE
    /\ x.t \notin OwnTables =>
         (x \in TerminalRows(records) <=> x \in PutBack(records, SplitKinds \cup {"tombstone"}))
    /\ x.t = "project_lifecycle_journals" =>
         (x \in TerminalRows(records) <=> Is(x) /\ At(x, "lifecycle") \in records)
    /\ x.t \in OwnTables \ {"project_lifecycle_journals"} => x \notin TerminalRows(records)
  OBVIOUS
<1>1. SplitKinds \cup {"tombstone"} = {"receiptKey", "redemptionReceipt", "responder",
                                       "terminalPrincipal", "claimEnvelope", "tombstone"}
  BY DEF SplitKinds
<1>2. x \in TerminalRows(records) <=>
        \/ x \in As(In(records, "lifecycle"), "project_lifecycle_journals")
        \/ x \in PutBack(records, SplitKinds \cup {"tombstone"})
  BY <1>1 DEF TerminalRows
<1>3. Rows(In(records, "lifecycle")) /\ \A r \in In(records, "lifecycle") : r.t = "lifecycle"
  BY InTable
<1>4. x \in As(In(records, "lifecycle"), "project_lifecycle_journals") <=>
        /\ Is(x) /\ x.t = "project_lifecycle_journals"
        /\ At(x, "lifecycle") \in In(records, "lifecycle")
  BY <1>3, Relabelled
<1>5. At(x, "lifecycle") \in In(records, "lifecycle") <=> At(x, "lifecycle") \in records
  BY InSet, RowAt
<1>6. \A k \in SplitKinds \cup {"tombstone"} : Plain[k] \notin OwnTables
  BY DEF SplitKinds, Plain, OwnTables
<1>7. x \in PutBack(records, SplitKinds \cup {"tombstone"}) => x.t \notin OwnTables
  BY <1>6, RowsPutBack
<1>8. "project_lifecycle_journals" \in OwnTables
  BY DEF OwnTables
<1> QED BY <1>2, <1>4, <1>5, <1>7, <1>8

\* The tables that a backup copies are as they were, those it splits included.
LEMMA CopiedBack ==
  ASSUME NEW db, Rows(db), NEW rows, Rows(rows), Restored(rows, db),
         NEW k \in CopiedKinds \cup SplitKinds
  PROVE  In(rows, Plain[k]) = In(db, Plain[k])
<1>1. Rows(Taken(db))
  BY RecordsOfProject DEF Taken
<1>4. \A x : x.t # "projects" =>
        (x \in rows <=> x \in ImportRows(Taken(db)) \/ x \in TerminalRows(ReadTerminal(db)))
  BY DEF Restored
<1>2. /\ \A l \in CopiedKinds : \A x : x.t = l =>
           (x \in Taken(db) <=> Is(x) /\ At(x, Plain[l]) \in db)
      /\ \A l \in SplitKinds : \A x : x.t = l =>
           (x \in Taken(db) <=>
              Is(x) /\ At(x, Plain[l]) \in db /\ TerminalOperation(db, x.ref) = FALSE)
  BY CopiedRecords
<1>3. /\ \A l \in SplitKinds : \A x : x.t = l =>
           (x \in ReadTerminal(db) <=>
              Is(x) /\ At(x, Plain[l]) \in db /\ TerminalOperation(db, x.ref) = TRUE)
      /\ Rows(ReadTerminal(db))
  BY TerminalRecords
<1>5. Plain[k] \notin OwnTables /\ Plain[k] # "projects"
  BY PlainTables DEF OwnTables
<1>6. \A op : TerminalOperation(db, op) \in BOOLEAN
  BY DEF TerminalOperation
<1>7. CopiedKinds \cap SplitKinds = {} /\ "tombstone" \notin CopiedKinds \cup SplitKinds
  BY DEF CopiedKinds, SplitKinds
<1>8. ASSUME NEW x, x.t = Plain[k], Is(x)
      PROVE  x \in rows <=> x \in db
  <2>1. x \in ImportRows(Taken(db)) <=> x \in PutBack(Taken(db), CopiedKinds \cup SplitKinds)
    BY <1>1, <1>5, <1>8, RowsOfTable
  <2>2. x \in TerminalRows(ReadTerminal(db)) <=>
          x \in PutBack(ReadTerminal(db), SplitKinds \cup {"tombstone"})
    BY <1>3, <1>5, <1>8, TerminalRowsOfTable
  <2>3. x \in PutBack(Taken(db), CopiedKinds \cup SplitKinds) <=> At(x, k) \in Taken(db)
    <3>1. CopiedKinds \cup SplitKinds \subseteq CopiedKinds \cup SplitKinds \cup {"tombstone"}
      OBVIOUS
    <3> QED BY <1>1, <1>8, <3>1, CopiedRows
  <2>4. x \in PutBack(ReadTerminal(db), SplitKinds \cup {"tombstone"}) <=>
          k \in SplitKinds /\ At(x, k) \in ReadTerminal(db)
    <3>1. SplitKinds \cup {"tombstone"} \subseteq CopiedKinds \cup SplitKinds \cup {"tombstone"}
      OBVIOUS
    <3>2. k \in SplitKinds \cup {"tombstone"} <=> k \in SplitKinds
      BY <1>7
    <3> QED BY <1>3, <1>8, <3>1, <3>2, CopiedRows
  <2>5. At(x, k).t = k /\ Is(At(x, k)) /\ At(x, k).ref = x.ref /\ At(At(x, k), Plain[k]) = x
    BY <1>8, RowAt
  <2>6. CASE k \in CopiedKinds
    <3>1. At(x, k) \in Taken(db) <=> x \in db
      BY <1>2, <2>5, <2>6
    <3> QED BY <1>4, <1>5, <1>7, <1>8, <2>1, <2>2, <2>3, <2>4, <2>6, <3>1
  <2>7. CASE k \in SplitKinds
    <3>1. At(x, k) \in Taken(db) <=> x \in db /\ TerminalOperation(db, x.ref) = FALSE
      BY <1>2, <2>5, <2>7
    <3>2. At(x, k) \in ReadTerminal(db) <=> x \in db /\ TerminalOperation(db, x.ref) = TRUE
      BY <1>3, <2>5, <2>7
    <3>3. TerminalOperation(db, x.ref) \in BOOLEAN
      BY <1>6
    <3> QED BY <1>4, <1>5, <1>8, <2>1, <2>2, <2>3, <2>4, <2>7, <3>1, <3>2, <3>3
  <2> QED BY <2>6, <2>7
<1>9. (\A x \in rows : Is(x)) /\ \A x \in db : Is(x)
  BY DEF Rows, Is
<1> QED BY <1>8, <1>9 DEF In

\* The other tables are put back by an insert of their own.
LEMMA OwnRows ==
  ASSUME NEW db, Rows(db), NEW rows, Rows(rows), Restored(rows, db)
  PROVE  /\ Rows(Taken(db))
         /\ \A x : x.t \in OwnTables \ {"projects", "project_lifecycle_journals"} =>
              (x \in rows <=> x \in ImportRows(Taken(db)))
         /\ \A x : x.t = "project_lifecycle_journals" =>
              (x \in rows <=> \/ x \in ImportRows(Taken(db))
                              \/ Is(x) /\ At(x, "lifecycle") \in ReadLifecycle(db, "none", TRUE))
<1>1. Rows(Taken(db))
  BY RecordsOfProject DEF Taken
<1>2. \A x : x.t # "projects" =>
        (x \in rows <=> x \in ImportRows(Taken(db)) \/ x \in TerminalRows(ReadTerminal(db)))
  BY DEF Restored
<1>3. /\ Rows(ReadTerminal(db))
      /\ \A x : x.t = "lifecycle" =>
           (x \in ReadTerminal(db) <=> x \in ReadLifecycle(db, "none", TRUE))
  BY TerminalRecords
<1>4. ASSUME NEW x, x.t \in OwnTables \ {"projects", "project_lifecycle_journals"}
      PROVE  x \in rows <=> x \in ImportRows(Taken(db))
  <2>1. x \notin TerminalRows(ReadTerminal(db))
    BY <1>3, <1>4, TerminalRowsOfTable
  <2> QED BY <1>2, <1>4, <2>1
<1>5. ASSUME NEW x, x.t = "project_lifecycle_journals"
      PROVE  x \in rows <=> \/ x \in ImportRows(Taken(db))
                            \/ Is(x) /\ At(x, "lifecycle") \in ReadLifecycle(db, "none", TRUE)
  <2>1. x \in TerminalRows(ReadTerminal(db)) <=> Is(x) /\ At(x, "lifecycle") \in ReadTerminal(db)
    BY <1>3, <1>5, TerminalRowsOfTable
  <2>2. At(x, "lifecycle").t = "lifecycle"
    BY RowAt
  <2> QED BY <1>2, <1>3, <1>5, <2>1, <2>2
<1> QED BY <1>1, <1>4, <1>5

\* Bindings that are active are put back, and no other.
LEMMA BindingsBack ==
  ASSUME NEW db, Rows(db), NEW rows, Rows(rows), Restored(rows, db)
  PROVE  In(rows, "project_principal_bindings") =
           {b \in In(db, "project_principal_bindings") : b.s = "active"}
<1> DEFINE bound == {b \in In(db, "project_principal_bindings") : b.s = "active"}
<1>2. /\ Rows(Taken(db))
      /\ \A x : x.t \in OwnTables \ {"projects", "project_lifecycle_journals"} =>
              (x \in rows <=> x \in ImportRows(Taken(db)))
  BY OwnRows
<1>3. Rows(bound) /\ \A r \in bound : r.t = "project_principal_bindings" /\ Is(r)
  BY DEF Rows, In, Is
<1>4. ReadBindings(db) = As(bound, "binding")
  BY DEF ReadBindings
<1> HIDE DEF bound
<1>5. ASSUME NEW x, x.t = "project_principal_bindings", Is(x)
      PROVE  x \in rows <=> x \in bound
  <2>1. x.t \in OwnTables \ {"projects", "project_lifecycle_journals"}
    BY <1>5 DEF OwnTables
  <2>2. x \in rows <=> x \in As(In(Taken(db), "binding"), "project_principal_bindings")
    BY <1>2, <1>5, <2>1, RowsOfTable DEF ImportBindings
  <2>3. Rows(In(Taken(db), "binding")) /\ \A r \in In(Taken(db), "binding") : r.t = "binding"
    BY <1>2, InTable
  <2>4. x \in rows <=> At(x, "binding") \in In(Taken(db), "binding")
    BY <1>5, <2>2, <2>3, Relabelled
  <2>5. At(x, "binding").t = "binding" /\ Is(At(x, "binding"))
        /\ At(At(x, "binding"), "project_principal_bindings") = x
    BY <1>5, RowAt
  <2>6. At(x, "binding") \in In(Taken(db), "binding") <=> At(x, "binding") \in ReadBindings(db)
    BY <2>5, InSet, RecordsOfKind
  <2>7. At(x, "binding") \in As(bound, "binding") <=> x \in bound
    BY <1>3, <2>5, Relabelled
  <2> QED BY <1>4, <2>4, <2>6, <2>7
<1>6. \A x \in In(rows, "project_principal_bindings") :
        x.t = "project_principal_bindings" /\ Is(x) /\ x \in rows
  BY DEF Rows, In, Is
<1>7. \A x \in rows : x.t = "project_principal_bindings" =>
        x \in In(rows, "project_principal_bindings")
  BY DEF In
<1>8. In(rows, "project_principal_bindings") = bound
  BY <1>3, <1>5, <1>6, <1>7
<1> QED BY <1>8 DEF bound

\* Records of the results that a creation, a join, a leave or a removal gave.
LEMMA SyntheticRead ==
  ASSUME NEW db, NEW x \in ReadCreations(db) \cup ReadJoins(db) \cup ReadRemovals(db)
                              \cup ReadLeaveReplays(db),
         x.t = "idempotency"
  PROVE  x.s \in Synthetic
<1>1. ASSUME NEW table, NEW kind, NEW operation,
             x \in ReadCompletedMembership(db, table, kind, operation)
      PROVE  x.s = operation
  BY <1>1 DEF ReadCompletedMembership, Row
<1>2. CASE x \in ReadCreations(db)
  BY <1>1, <1>2 DEF ReadCreations, Synthetic
<1>3. CASE x \in ReadJoins(db)
  BY <1>1, <1>3 DEF ReadJoins, Synthetic
<1>4. CASE x \in ReadRemovals(db)
  BY <1>4 DEF ReadRemovals, Row, Synthetic
<1>5. CASE x \in ReadLeaveReplays(db)
  BY <1>5 DEF ReadLeaveReplays, Row, Synthetic
<1> QED BY <1>2, <1>3, <1>4, <1>5

\* A table put back from the records of one kind.
LEMMA TableOfKind ==
  ASSUME NEW some, Rows(some), NEW k, \A r \in some : r.t = k, NEW t, NEW x, Is(x), x.t = t
  PROVE  x \in As(some, t) <=> At(x, k) \in some
BY Relabelled

LEMMA SameRows ==
  ASSUME NEW rows, Rows(rows), NEW t, NEW some, Rows(some), \A r \in some : r.t = t,
         \A x : Is(x) /\ x.t = t => (x \in rows <=> x \in some)
  PROVE  In(rows, t) = some
<1>1. \A x : x \in rows \/ x \in some => Is(x)
  BY DEF Rows, Is
<1>2. \A x : x \in In(rows, t) <=> x \in rows /\ x.t = t
  BY InSet
<1> QED BY <1>1, <1>2

LEMMA ResultsBack ==
  ASSUME NEW db, Rows(db), References(db), NEW rows, Rows(rows), Restored(rows, db)
  PROVE  In(rows, "idempotency_results") = In(db, "idempotency_results")
<1> DEFINE kept == {r \in In(Taken(db), "idempotency") : r.s \notin Synthetic}
<1>1. Rows(Taken(db)) /\ \A x : x.t \in OwnTables \ {"projects", "project_lifecycle_journals"} =>
                           (x \in rows <=> x \in ImportRows(Taken(db)))
  BY OwnRows
<1>2. Rows(kept) /\ \A r \in kept : r.t = "idempotency"
  BY <1>1 DEF Rows, In
<1>3. \A x : x \in kept <=> x \in Taken(db) /\ x.t = "idempotency" /\ x.s \notin Synthetic
  BY DEF In
<1>4. ImportIdempotency(Taken(db)) = As(kept, "idempotency_results")
  BY DEF ImportIdempotency
<1>7. \A x : x.t = "idempotency_results" =>
        (x \in ImportRows(Taken(db)) <=> x \in ImportIdempotency(Taken(db)))
  BY <1>1, RowsOfTable
<1> HIDE DEF kept
<1>5. Rows(In(db, "idempotency_results")) /\ \A r \in In(db, "idempotency_results") :
                                                r.t = "idempotency_results"
  BY InTable
<1>6. ASSUME NEW x, Is(x), x.t = "idempotency_results"
      PROVE  x \in rows <=> x \in In(db, "idempotency_results")
  <2>1. x.t \in OwnTables \ {"projects", "project_lifecycle_journals"}
    BY <1>6 DEF OwnTables
  <2>2. x \in rows <=> x \in As(kept, "idempotency_results")
    BY <1>1, <1>4, <1>6, <1>7, <2>1
  <2>3. x \in rows <=> At(x, "idempotency") \in kept
    BY <1>2, <1>6, <2>2, TableOfKind
  <2>4. /\ At(x, "idempotency").t = "idempotency" /\ Is(At(x, "idempotency"))
        /\ At(x, "idempotency").s = x.s /\ At(At(x, "idempotency"), "idempotency_results") = x
    BY <1>6, RowAt
  <2>5. At(x, "idempotency") \in Taken(db) <=>
          At(x, "idempotency") \in ReadIdempotencyResults(db) \cup ReadCreations(db)
                                     \cup ReadJoins(db) \cup ReadRemovals(db)
                                     \cup ReadLeaveReplays(db)
    BY <2>4, RecordsOfKind
  <2>6. At(x, "idempotency") \in ReadCreations(db) \cup ReadJoins(db) \cup ReadRemovals(db)
                                   \cup ReadLeaveReplays(db) => x.s \in Synthetic
    BY <2>4, SyntheticRead
  <2>7. At(x, "idempotency") \in ReadIdempotencyResults(db) <=> x \in In(db, "idempotency_results")
    BY <1>5, <2>4, Relabelled DEF ReadIdempotencyResults
  <2>8. x \in In(db, "idempotency_results") => x.s \notin Synthetic
    BY DEF References
  <2> QED BY <1>3, <2>3, <2>4, <2>5, <2>6, <2>7, <2>8
<1> QED BY <1>5, <1>6, SameRows

LEMMA CursorBack ==
  ASSUME NEW db, Rows(db), References(db), NEW rows, Rows(rows), Restored(rows, db)
  PROVE  In(rows, "project_event_sequences") = In(db, "project_event_sequences")
<1> DEFINE kept == {r \in In(Taken(db), "eventCursor") : r.n > 0}
<1>1. Rows(Taken(db)) /\ \A x : x.t \in OwnTables \ {"projects", "project_lifecycle_journals"} =>
                           (x \in rows <=> x \in ImportRows(Taken(db)))
  BY OwnRows
<1>2. Rows(kept) /\ \A r \in kept : r.t = "eventCursor"
  BY <1>1 DEF Rows, In
<1>3. \A x : x \in kept <=> x \in Taken(db) /\ x.t = "eventCursor" /\ x.n > 0
  BY DEF In
<1>4. \A x : x.t = "project_event_sequences" =>
        (x \in ImportRows(Taken(db)) <=> x \in As(kept, "project_event_sequences"))
  BY <1>1, RowsOfTable
<1> HIDE DEF kept
<1>5. Rows(In(db, "project_event_sequences")) /\ \A r \in In(db, "project_event_sequences") :
                                                r.t = "project_event_sequences"
  BY InTable
<1>6. ASSUME NEW x, Is(x), x.t = "project_event_sequences"
      PROVE  x \in rows <=> x \in In(db, "project_event_sequences")
  <2>1. x.t \in OwnTables \ {"projects", "project_lifecycle_journals"}
    BY <1>6 DEF OwnTables
  <2>2. x \in rows <=> x \in As(kept, "project_event_sequences")
    BY <1>1, <1>4, <1>6, <2>1
  <2>3. x \in rows <=> At(x, "eventCursor") \in kept
    BY <1>2, <1>6, <2>2, TableOfKind
  <2>4. /\ At(x, "eventCursor").t = "eventCursor" /\ Is(At(x, "eventCursor"))
        /\ At(x, "eventCursor").n = x.n /\ At(At(x, "eventCursor"), "project_event_sequences") = x
    BY <1>6, RowAt
  <2>5. At(x, "eventCursor") \in Taken(db) <=> At(x, "eventCursor") \in Cursor(db)
    BY <2>4, RecordsOfKind
  <2>6. x \in In(db, "project_event_sequences") => x.n > 0
    BY DEF References
  <2>7. CASE In(db, "project_event_sequences") = {}
    <3>1. At(x, "eventCursor") \in Cursor(db) => x.n = 0
      BY <2>4, <2>7 DEF Cursor, Row
    <3> QED BY <1>3, <2>3, <2>4, <2>5, <2>7, <3>1
  <2>8. CASE In(db, "project_event_sequences") # {}
    <3>1. At(x, "eventCursor") \in Cursor(db) <=> x \in In(db, "project_event_sequences")
      BY <1>5, <2>4, <2>8, Relabelled DEF Cursor
    <3> QED BY <1>3, <2>3, <2>4, <2>5, <2>6, <3>1
  <2> QED BY <2>7, <2>8
<1> QED BY <1>5, <1>6, SameRows

\* A journal of the Project, other than the capture's own, is in one of the two artifacts.
LEMMA JournalBack ==
  ASSUME NEW db, Rows(db), NEW rows, Rows(rows), Restored(rows, db),
         NEW l \in In(db, "project_lifecycle_journals"), l.id \notin {BackupOperation, "none"},
         l.ref \notin {"create-project", "join-project"}
  PROVE  l \in In(rows, "project_lifecycle_journals")
<1> DEFINE Side(excluded, terminal) ==
             {r \in In(db, "project_lifecycle_journals") :
                r.id # excluded /\ TerminalJournal(db, r) = terminal}
           kept == {r \in In(Taken(db), "lifecycle") :
                      r.ref \notin {"create-project", "join-project"}}
<1>1. /\ Rows(Taken(db))
      /\ \A x : x.t = "project_lifecycle_journals" =>
              (x \in rows <=> \/ x \in ImportRows(Taken(db))
                              \/ Is(x) /\ At(x, "lifecycle") \in ReadLifecycle(db, "none", TRUE))
  BY OwnRows
<1>2. l \in db /\ l.t = "project_lifecycle_journals" /\ Is(l)
  BY DEF Rows, In, Is
<1>3. /\ At(l, "lifecycle").t = "lifecycle" /\ At(l, "lifecycle").ref = l.ref
      /\ Is(At(l, "lifecycle")) /\ At(At(l, "lifecycle"), "project_lifecycle_journals") = l
  BY <1>2, RowAt
<1>4. ASSUME NEW excluded, NEW terminal, l \in Side(excluded, terminal)
      PROVE  At(l, "lifecycle") \in ReadLifecycle(db, excluded, terminal)
  <2>1. Rows(Side(excluded, terminal))
        /\ \A r \in Side(excluded, terminal) : r.t = "project_lifecycle_journals"
    BY DEF Rows, In
  <2>2. ReadLifecycle(db, excluded, terminal) = As(Side(excluded, terminal), "lifecycle")
    BY DEF ReadLifecycle
  <2> HIDE DEF Side
  <2> QED BY <1>3, <1>4, <2>1, <2>2, Relabelled
<1>5. CASE TerminalJournal(db, l) = TRUE
  <2>1. l \in Side("none", TRUE)
    BY <1>5
  <2> QED BY <1>1, <1>2, <1>4, <2>1, InSet
<1>6. CASE TerminalJournal(db, l) = FALSE
  <2>1. l \in Side(BackupOperation, FALSE)
    BY <1>6
  <2>2. At(l, "lifecycle") \in ReadLifecycle(db, BackupOperation, FALSE)
    BY <1>4, <2>1
  <2>3. At(l, "lifecycle") \in Taken(db)
    BY <1>3, <2>2, RecordsOfKind
  <2>4. At(l, "lifecycle") \in kept
    BY <1>3, <2>3, InSet
  <2>5. Rows(kept) /\ \A r \in kept : r.t = "lifecycle"
    BY <1>1 DEF Rows, In
  <2>6. l \in ImportRows(Taken(db)) <=> l \in As(kept, "project_lifecycle_journals")
    BY <1>1, <1>2, RowsOfTable
  <2> HIDE DEF kept
  <2>7. l \in ImportRows(Taken(db))
    BY <1>2, <2>4, <2>5, <2>6, Relabelled
  <2> QED BY <1>1, <1>2, <2>7, InSet
<1>7. TerminalJournal(db, l) \in BOOLEAN
  BY DEF TerminalJournal, TerminalOperation
<1> QED BY <1>5, <1>6, <1>7

\* Claims of the current batch are put back with the journal that names the batch.
LEMMA ClaimsBack ==
  ASSUME NEW db, Rows(db), References(db), NEW rows, Rows(rows), Restored(rows, db)
  PROVE  ReadClaims(rows) = ReadClaims(db)
<1> DEFINE Current(d) == {r \in In(d, "transferred_membership_claims") :
                            \E l \in In(d, "project_lifecycle_journals") :
                               l.id = r.ref /\ l.n = r.n}
<1>1. Rows(Taken(db)) /\ \A x : x.t \in OwnTables \ {"projects", "project_lifecycle_journals"} =>
                           (x \in rows <=> x \in ImportRows(Taken(db)))
  BY OwnRows
<1>2. Rows(Current(db)) /\ \A r \in Current(db) : r.t = "transferred_membership_claims"
  BY DEF Rows, In
<1>3. \A d : ReadClaims(d) = As(Current(d), "claim")
  BY DEF ReadClaims
<1>4. \A d, x : x \in Current(d) <=>
        /\ x \in In(d, "transferred_membership_claims")
        /\ \E l \in In(d, "project_lifecycle_journals") : l.id = x.ref /\ l.n = x.n
  OBVIOUS
<1>10. \A x : x.t = "transferred_membership_claims" =>
         (x \in ImportRows(Taken(db)) <=>
            x \in As(In(Taken(db), "claim"), "transferred_membership_claims"))
  BY <1>1, RowsOfTable
<1> HIDE DEF Current
<1>5. ASSUME NEW x, Is(x), x.t = "transferred_membership_claims"
      PROVE  x \in rows <=> x \in Current(db)
  <2>1. x.t \in OwnTables \ {"projects", "project_lifecycle_journals"}
    BY <1>5 DEF OwnTables
  <2>2. x \in rows <=> x \in As(In(Taken(db), "claim"), "transferred_membership_claims")
    BY <1>1, <1>5, <1>10, <2>1
  <2>3. Rows(In(Taken(db), "claim")) /\ \A r \in In(Taken(db), "claim") : r.t = "claim"
    BY <1>1, InTable
  <2>4. x \in rows <=> At(x, "claim") \in In(Taken(db), "claim")
    BY <1>5, <2>2, <2>3, TableOfKind
  <2>5. At(x, "claim").t = "claim" /\ Is(At(x, "claim"))
        /\ At(At(x, "claim"), "transferred_membership_claims") = x
    BY <1>5, RowAt
  <2>6. At(x, "claim") \in In(Taken(db), "claim") <=> At(x, "claim") \in ReadClaims(db)
    BY <2>5, InSet, RecordsOfKind
  <2>7. At(x, "claim") \in As(Current(db), "claim") <=> x \in Current(db)
    BY <1>2, <2>5, Relabelled
  <2> QED BY <1>3, <2>4, <2>6, <2>7
<1>6. In(rows, "transferred_membership_claims") = Current(db)
  BY <1>2, <1>5, SameRows
<1>7. ASSUME NEW c \in Current(db)
      PROVE  \E l \in In(rows, "project_lifecycle_journals") : l.id = c.ref /\ l.n = c.n
  <2>1. PICK l \in In(db, "project_lifecycle_journals") : l.id = c.ref /\ l.n = c.n
    BY <1>4
  <2>2. l.ref = "authority-transfer" /\ l.id \notin {BackupOperation, "none"}
    BY <1>4, <2>1 DEF References
  <2>3. l \in In(rows, "project_lifecycle_journals")
    BY <2>2, JournalBack
  <2> QED BY <2>1, <2>3
<1>8. \A x : x \in Current(rows) <=> x \in Current(db)
  BY <1>4, <1>6, <1>7
<1>9. Current(rows) = Current(db)
  BY <1>8
<1> QED BY <1>3, <1>9

\* Verifiers are put back as retained ones: whoever may not join may not join still.
LEMMA BarredBack ==
  ASSUME NEW db, Rows(db), References(db), NEW rows, Rows(rows), Restored(rows, db)
  PROVE  MayNotJoin(rows) = MayNotJoin(db)
<1> DEFINE members == {m \in In(db, "project_memberships") : m.s # "pending"}
           credentials == "project_member_recovery_credentials"
<1>1. Rows(Taken(db)) /\ \A x : x.t \in OwnTables \ {"projects", "project_lifecycle_journals"} =>
                           (x \in rows <=> x \in ImportRows(Taken(db)))
  BY OwnRows
<1>2. \A x : x.t = credentials =>
        (x \in ImportRows(Taken(db)) <=> x \in As(In(Taken(db), "memberVerifier"), credentials))
  BY <1>1, RowsOfTable
<1>3. credentials \in OwnTables \ {"projects", "project_lifecycle_journals"}
  BY DEF OwnTables
<1>4. \A m : \A v : v \in Verifiers(db, m) <=> \E r \in Known(db) : r.ref = m /\ v = r.id
  BY DEF Verifiers
<1>5. \A y : y.t = "memberVerifier" =>
        (y \in ReadMembers(db) <=>
           \E m \in members : \E v \in Verifiers(db, m.id) :
              y = Row("memberVerifier", v, "none", m.id, 0))
  <2>1. Rows(members)
    BY DEF Rows, In
  <2>2. \A y \in As(members, "member") : y.t = "member"
    BY <2>1, OfKind
  <2>3. ReadMembers(db) =
          As(members, "member")
            \cup UNION {{Row("memberVerifier", v, "none", r.id, 0) : v \in Verifiers(db, r.id)} :
                          r \in members}
    BY DEF ReadMembers
  <2> HIDE DEF members
  <2> QED BY <2>2, <2>3
<1>6. \A m \in members : m \in In(db, "project_memberships") /\ m.s # "pending"
  OBVIOUS
<1>7. \A m \in In(db, "project_memberships") : m.s # "pending" => m \in members
  OBVIOUS
<1> HIDE DEF members
<1>8. ASSUME NEW x, Is(x), x.t = credentials
      PROVE  x \in rows <=> \E m \in members : \E v \in Verifiers(db, m.id) :
                              At(x, "memberVerifier") = Row("memberVerifier", v, "none", m.id, 0)
  <2>1. x \in rows <=> x \in As(In(Taken(db), "memberVerifier"), credentials)
    BY <1>1, <1>2, <1>3, <1>8
  <2>2. Rows(In(Taken(db), "memberVerifier"))
        /\ \A r \in In(Taken(db), "memberVerifier") : r.t = "memberVerifier"
    BY <1>1, InTable
  <2>3. x \in rows <=> At(x, "memberVerifier") \in In(Taken(db), "memberVerifier")
    BY <1>8, <2>1, <2>2, TableOfKind
  <2>4. At(x, "memberVerifier").t = "memberVerifier"
    BY RowAt
  <2>5. At(x, "memberVerifier") \in In(Taken(db), "memberVerifier") <=>
          At(x, "memberVerifier") \in ReadMembers(db)
    BY <2>4, InSet, RecordsOfKind
  <2> QED BY <1>5, <2>3, <2>4, <2>5
<1>9. \A d, id : id \in MayNotJoin(d) <=> \E r \in Known(d) : r.id = id
  BY DEF MayNotJoin
<1>10. ASSUME NEW r \in Known(rows)
       PROVE  r.id \in MayNotJoin(db)
  <2>1. CASE r \in In(rows, "project_principal_bindings")
    <3>1. r \in In(db, "project_principal_bindings")
      BY <2>1, BindingsBack
    <3>2. CASE r.id \in DevelopmentPrincipals
      <4>1. r \in In(rows, credentials)
        BY <1>10, <3>2 DEF Known
      <4> QED BY <2>1, <4>1 DEF In
    <3>3. CASE r.id \notin DevelopmentPrincipals
      BY <1>9, <3>1, <3>3 DEF Known
    <3> QED BY <3>2, <3>3
  <2>2. CASE r \in In(rows, credentials)
    <3>1. r \in rows /\ Is(r) /\ r.t = credentials
      BY <2>2 DEF Rows, In, Is
    <3>2. PICK m \in members : \E v \in Verifiers(db, m.id) :
            At(r, "memberVerifier") = Row("memberVerifier", v, "none", m.id, 0)
      BY <1>8, <3>1
    <3>3. PICK v \in Verifiers(db, m.id) :
            At(r, "memberVerifier") = Row("memberVerifier", v, "none", m.id, 0)
      BY <3>2
    <3>4. v = r.id
      BY <3>3 DEF At, Row
    <3> QED BY <1>4, <1>9, <3>3, <3>4
  <2> QED BY <1>10, <2>1, <2>2 DEF Known
<1>11. ASSUME NEW r \in Known(db)
       PROVE  r.id \in MayNotJoin(rows)
  <2>1. PICK m \in In(db, "project_memberships") : m.id = r.ref /\ m.s # "pending"
    BY <1>11 DEF References, Known
  <2>2. m \in members /\ r.id \in Verifiers(db, m.id)
    BY <1>4, <1>7, <2>1
  <2> DEFINE x == Row(credentials, r.id, "none", m.id, 0)
  <2>3. Is(x) /\ x.t = credentials /\ x.id = r.id
        /\ At(x, "memberVerifier") = Row("memberVerifier", r.id, "none", m.id, 0)
    BY DEF Is, At, Row
  <2> HIDE DEF x
  <2>4. x \in rows
    BY <1>8, <2>2, <2>3
  <2>5. x \in Known(rows)
    BY <2>3, <2>4, InSet DEF Known
  <2> QED BY <1>9, <2>3, <2>5
<1>12. \A id : id \in MayNotJoin(rows) <=> id \in MayNotJoin(db)
  BY <1>9, <1>10, <1>11
<1> DEFINE some == MayNotJoin(rows)  other == MayNotJoin(db)
<1>13. some = {r.id : r \in Known(rows)} /\ other = {r.id : r \in Known(db)}
  BY DEF MayNotJoin
<1> QED BY <1>12, <1>13

\* The retained answers of leaves keep their operations.
LEMMA ReplaysBack ==
  ASSUME NEW db, Rows(db), NEW rows, Rows(rows), Restored(rows, db)
  PROVE  \A id : (\E r \in In(rows, "leave_former_principal_replays") : r.id = id) <=>
                 \E r \in In(db, "leave_former_principal_replays") : r.id = id
<1> DEFINE replays == "leave_former_principal_replays"
<1>1. Rows(Taken(db)) /\ \A x : x.t \in OwnTables \ {"projects", "project_lifecycle_journals"} =>
                           (x \in rows <=> x \in ImportRows(Taken(db)))
  BY OwnRows
<1>2. \A x : x.t = replays =>
        (x \in ImportRows(Taken(db)) <=> x \in As(In(Taken(db), "leaveReplay"), replays))
  BY <1>1, RowsOfTable DEF ImportLeaveReplays
<1>3. replays \in OwnTables \ {"projects", "project_lifecycle_journals"}
  BY DEF OwnTables
<1>4. \A y : y.t = "leaveReplay" =>
        (y \in ReadLeaveReplays(db) <=>
           \E r \in In(db, replays) : y = Row("leaveReplay", r.id, "completed", r.ref, r.n))
  BY DEF ReadLeaveReplays, Row
<1>5. ASSUME NEW x, Is(x), x.t = replays
      PROVE  x \in rows <=> \E r \in In(db, replays) :
               At(x, "leaveReplay") = Row("leaveReplay", r.id, "completed", r.ref, r.n)
  <2>1. x \in rows <=> x \in As(In(Taken(db), "leaveReplay"), replays)
    BY <1>1, <1>2, <1>3, <1>5
  <2>2. Rows(In(Taken(db), "leaveReplay"))
        /\ \A r \in In(Taken(db), "leaveReplay") : r.t = "leaveReplay"
    BY <1>1, InTable
  <2>3. x \in rows <=> At(x, "leaveReplay") \in In(Taken(db), "leaveReplay")
    BY <1>5, <2>1, <2>2, TableOfKind
  <2>4. At(x, "leaveReplay").t = "leaveReplay"
    BY RowAt
  <2>5. At(x, "leaveReplay") \in In(Taken(db), "leaveReplay") <=>
          At(x, "leaveReplay") \in ReadLeaveReplays(db)
    BY <2>4, InSet, RecordsOfKind
  <2> QED BY <1>4, <2>3, <2>4, <2>5
<1>6. ASSUME NEW x \in In(rows, replays)
      PROVE  \E r \in In(db, replays) : r.id = x.id
  <2>1. x \in rows /\ Is(x) /\ x.t = replays
    BY DEF Rows, In, Is
  <2>2. PICK r \in In(db, replays) :
          At(x, "leaveReplay") = Row("leaveReplay", r.id, "completed", r.ref, r.n)
    BY <1>5, <2>1
  <2>3. r.id = x.id
    BY <2>2 DEF At, Row
  <2> QED BY <2>3
<1>7. ASSUME NEW r \in In(db, replays)
      PROVE  \E x \in In(rows, replays) : x.id = r.id
  <2> DEFINE x == Row(replays, r.id, "completed", r.ref, r.n)
  <2>1. r.n \in Nat
    BY DEF Rows, In
  <2>2. Is(x) /\ x.t = replays /\ x.id = r.id
        /\ At(x, "leaveReplay") = Row("leaveReplay", r.id, "completed", r.ref, r.n)
    BY <2>1 DEF Is, At, Row
  <2> HIDE DEF x
  <2>3. x \in rows
    BY <1>5, <2>2
  <2> QED BY <2>2, <2>3, InSet
<1> QED BY <1>6, <1>7

\* Completed creations, joins and removals keep their journals.
LEMMA JournalsBack ==
  ASSUME NEW db, Rows(db), References(db), NEW rows, Rows(rows), Restored(rows, db)
  PROVE  /\ \A t \in {"cloud_project_creation_journals", "cloud_project_join_journals"} :
              In(rows, t) = {j \in In(db, t) : j.s = "completed" /\ BoundTo(db, j.ref)}
         /\ In(rows, "project_member_removal_journals") =
              {j \in In(db, "project_member_removal_journals") : j.s = "completed"}
<1> DEFINE Done(t) == {j \in In(db, t) : j.s = "completed" /\ BoundTo(db, j.ref)}
           removed == {j \in In(db, "project_member_removal_journals") : j.s = "completed"}
<1>1. Rows(Taken(db)) /\ \A x : x.t \in OwnTables \ {"projects", "project_lifecycle_journals"} =>
                           (x \in rows <=> x \in ImportRows(Taken(db)))
  BY OwnRows
<1>2. \A x : x.t \in MembershipJournals =>
        (x \in ImportRows(Taken(db)) <=> x \in ImportMembershipRecovery(Taken(db)))
  BY <1>1, RowsOfTable
<1>3. \A x : x.t \in MembershipJournals =>
        x.t \in OwnTables \ {"projects", "project_lifecycle_journals"}
  BY DEF MembershipJournals, OwnTables
<1>4. \A x : x \in ImportMembershipRecovery(Taken(db)) <=>
        \E y \in In(Taken(db), "membershipRecovery") :
          x = Row(JournalTable(y.s), y.id, "completed", y.ref, y.n)
  BY DEF ImportMembershipRecovery
<1>5. \A y : y \in In(Taken(db), "membershipRecovery") <=>
        /\ y.t = "membershipRecovery"
        /\ y \in ReadCreations(db) \cup ReadJoins(db) \cup ReadRemovals(db)
  BY InSet, RecordsOfKind
<1>6. \A t, kind, operation, y : y.t = "membershipRecovery" =>
        (y \in ReadCompletedMembership(db, t, kind, operation) <=>
           \E r \in Done(t) : y = Row("membershipRecovery", r.id, kind, r.ref, r.n))
  BY DEF ReadCompletedMembership, Row
<1>7. \A y : y.t = "membershipRecovery" =>
        (y \in ReadRemovals(db) <=>
           \E r \in removed : y = Row("membershipRecovery", r.id, "remove-member", r.ref, r.n))
  <2>1. \A r \in removed : \E l \in In(db, "project_lifecycle_journals") :
                             l.id = r.id /\ l.s = "completed"
    BY DEF References
  <2>2. removed = {r \in In(db, "project_member_removal_journals") :
                     /\ r.s = "completed"
                     /\ \E l \in In(db, "project_lifecycle_journals") :
                           l.id = r.id /\ l.s = "completed"}
    BY <2>1
  <2>3. ReadRemovals(db) =
          UNION {{Row("membershipRecovery", r.id, "remove-member", r.ref, r.n),
                  Row("idempotency", r.id, "removeMember", r.ref, 0)} : r \in removed}
    BY <2>2 DEF ReadRemovals
  <2> HIDE DEF removed
  <2> QED BY <2>3 DEF Row
<1>8. /\ \A t : Rows(Done(t)) /\ \A r \in Done(t) : r.t = t /\ r.s = "completed" /\ Is(r)
      /\ Rows(removed)
      /\ \A r \in removed : r.t = "project_member_removal_journals" /\ r.s = "completed" /\ Is(r)
  BY DEF Rows, In, Is
<1> HIDE DEF Done, removed
<1>9. JournalTable("create-project") = "cloud_project_creation_journals"
      /\ JournalTable("join-project") = "cloud_project_join_journals"
      /\ JournalTable("remove-member") = "project_member_removal_journals"
  BY DEF JournalTable
<1>10. ASSUME NEW y
       PROVE  y \in In(Taken(db), "membershipRecovery") <=>
                \/ \E r \in Done("cloud_project_creation_journals") :
                      y = Row("membershipRecovery", r.id, "create-project", r.ref, r.n)
                \/ \E r \in Done("cloud_project_join_journals") :
                      y = Row("membershipRecovery", r.id, "join-project", r.ref, r.n)
                \/ \E r \in removed :
                      y = Row("membershipRecovery", r.id, "remove-member", r.ref, r.n)
  <2>1. \A r, kind : y = Row("membershipRecovery", r.id, kind, r.ref, r.n) =>
          y.t = "membershipRecovery"
    BY DEF Row
  <2>2. y.t = "membershipRecovery" =>
          /\ y \in ReadCreations(db) <=>
               \E r \in Done("cloud_project_creation_journals") :
                  y = Row("membershipRecovery", r.id, "create-project", r.ref, r.n)
          /\ y \in ReadJoins(db) <=>
               \E r \in Done("cloud_project_join_journals") :
                  y = Row("membershipRecovery", r.id, "join-project", r.ref, r.n)
          /\ y \in ReadRemovals(db) <=>
               \E r \in removed : y = Row("membershipRecovery", r.id, "remove-member", r.ref, r.n)
    BY <1>6, <1>7 DEF ReadCreations, ReadJoins
  <2> QED BY <1>5, <2>1, <2>2
<1>11. ASSUME NEW x, x.t \in MembershipJournals
       PROVE  x \in rows <=> \/ x \in Done("cloud_project_creation_journals")
                             \/ x \in Done("cloud_project_join_journals")
                             \/ x \in removed
  <2>1. x \in rows <=> \E y \in In(Taken(db), "membershipRecovery") :
                         x = Row(JournalTable(y.s), y.id, "completed", y.ref, y.n)
    BY <1>1, <1>2, <1>3, <1>4, <1>11
  <2> DEFINE Put(y) == Row(JournalTable(y.s), y.id, "completed", y.ref, y.n)
  <2>2. \A r, kind : Put(Row("membershipRecovery", r.id, kind, r.ref, r.n))
                      = Row(JournalTable(kind), r.id, "completed", r.ref, r.n)
    BY DEF Row
  <2>3. \A r : Is(r) /\ r.s = "completed" => r = Row(r.t, r.id, "completed", r.ref, r.n)
    BY DEF Is
  <2>4. x \in rows <=>
          \/ \E r \in Done("cloud_project_creation_journals") :
                x = Row("cloud_project_creation_journals", r.id, "completed", r.ref, r.n)
          \/ \E r \in Done("cloud_project_join_journals") :
                x = Row("cloud_project_join_journals", r.id, "completed", r.ref, r.n)
          \/ \E r \in removed :
                x = Row("project_member_removal_journals", r.id, "completed", r.ref, r.n)
    <3>1. x \in rows <=> \E y \in In(Taken(db), "membershipRecovery") : x = Put(y)
      BY <2>1
    <3> HIDE DEF Put
    <3>2. ASSUME x \in rows
          PROVE  \/ \E r \in Done("cloud_project_creation_journals") :
                       x = Row("cloud_project_creation_journals", r.id, "completed", r.ref, r.n)
                 \/ \E r \in Done("cloud_project_join_journals") :
                       x = Row("cloud_project_join_journals", r.id, "completed", r.ref, r.n)
                 \/ \E r \in removed :
                       x = Row("project_member_removal_journals", r.id, "completed", r.ref, r.n)
      <4>1. PICK y \in In(Taken(db), "membershipRecovery") : x = Put(y)
        BY <3>1, <3>2
      <4>2. CASE \E r \in Done("cloud_project_creation_journals") :
                   y = Row("membershipRecovery", r.id, "create-project", r.ref, r.n)
        BY <1>9, <2>2, <4>1, <4>2
      <4>3. CASE \E r \in Done("cloud_project_join_journals") :
                   y = Row("membershipRecovery", r.id, "join-project", r.ref, r.n)
        BY <1>9, <2>2, <4>1, <4>3
      <4>4. CASE \E r \in removed :
                   y = Row("membershipRecovery", r.id, "remove-member", r.ref, r.n)
        BY <1>9, <2>2, <4>1, <4>4
      <4> QED BY <1>10, <4>1, <4>2, <4>3, <4>4
    <3>3. \A r \in Done("cloud_project_creation_journals") :
            x = Row("cloud_project_creation_journals", r.id, "completed", r.ref, r.n) => x \in rows
      BY <1>9, <1>10, <2>2, <3>1
    <3>4. \A r \in Done("cloud_project_join_journals") :
            x = Row("cloud_project_join_journals", r.id, "completed", r.ref, r.n) => x \in rows
      BY <1>9, <1>10, <2>2, <3>1
    <3>5. \A r \in removed :
            x = Row("project_member_removal_journals", r.id, "completed", r.ref, r.n) => x \in rows
      BY <1>9, <1>10, <2>2, <3>1
    <3> QED BY <3>2, <3>3, <3>4, <3>5
  <2>5. /\ \A t : \A r \in Done(t) : r = Row(t, r.id, "completed", r.ref, r.n)
        /\ \A r \in removed :
             r = Row("project_member_removal_journals", r.id, "completed", r.ref, r.n)
    BY <1>8, <2>3
  <2> QED BY <2>4, <2>5
<1>12. \A x : x.t \in {"cloud_project_creation_journals", "cloud_project_join_journals",
                       "project_member_removal_journals"} => x.t \in MembershipJournals
  BY DEF MembershipJournals
<1>13. \A x : x.t = "cloud_project_creation_journals" =>
         (x \in rows <=> x \in Done("cloud_project_creation_journals"))
  BY <1>8, <1>11, <1>12
<1>14. \A x : x.t = "cloud_project_join_journals" =>
         (x \in rows <=> x \in Done("cloud_project_join_journals"))
  BY <1>8, <1>11, <1>12
<1>15. \A x : x.t = "project_member_removal_journals" => (x \in rows <=> x \in removed)
  BY <1>8, <1>11, <1>12
<1>16. /\ In(rows, "cloud_project_creation_journals") = Done("cloud_project_creation_journals")
       /\ In(rows, "cloud_project_join_journals") = Done("cloud_project_join_journals")
       /\ In(rows, "project_member_removal_journals") = removed
  BY <1>8, <1>13, <1>14, <1>15, SameRows
<1> QED BY <1>16 DEF Done, removed

\* What is read of a Project and put back answers as the Project did.
LEMMA AnswersBack ==
  ASSUME NEW db, Rows(db), References(db), NEW rows, Rows(rows), Restored(rows, db)
  PROVE  Answers(rows) = Answers(db)
<1>1. \A k \in CopiedKinds \cup SplitKinds : In(rows, Plain[k]) = In(db, Plain[k])
  BY CopiedBack
<1>2. /\ In(rows, "project_invitations") = In(db, "project_invitations")
      /\ In(rows, "transferred_membership_claim_overrides")
           = In(db, "transferred_membership_claim_overrides")
      /\ In(rows, "project_recovery_links") = In(db, "project_recovery_links")
      /\ In(rows, "protected_invitation_envelopes") = In(db, "protected_invitation_envelopes")
      /\ In(rows, "protected_claim_override_envelopes")
           = In(db, "protected_claim_override_envelopes")
      /\ In(rows, "source_protected_claim_envelopes")
           = In(db, "source_protected_claim_envelopes")
      /\ In(rows, "secret_replay_tombstones") = In(db, "secret_replay_tombstones")
      /\ In(rows, "project_membership_idempotency_tombstones")
           = In(db, "project_membership_idempotency_tombstones")
      /\ In(rows, "project_terminal_acknowledgements") = In(db, "project_terminal_acknowledgements")
      /\ In(rows, "transfer_redemption_receipts") = In(db, "transfer_redemption_receipts")
      /\ In(rows, "manager_responsibility_offers") = In(db, "manager_responsibility_offers")
  <2>1. \A k \in {"invitation", "claimOverride", "recoveryLink", "invitationEnvelope",
                  "overrideEnvelope", "claimEnvelope", "secretTombstone", "idempotencyTombstone",
                  "terminalPrincipal", "redemptionReceipt", "offer"} :
          In(rows, Plain[k]) = In(db, Plain[k])
    BY <1>1 DEF CopiedKinds, SplitKinds
  <2> QED BY <2>1 DEF Plain
<1>3. In(rows, "project_principal_bindings") =
        {b \in In(db, "project_principal_bindings") : b.s = "active"}
  BY BindingsBack
<1>4. SignsIn(rows) = SignsIn(db)
  <2>1. {x \in In(rows, "project_principal_bindings") : x.s = "active"}
          = {x \in In(db, "project_principal_bindings") : x.s = "active"}
    BY <1>3
  <2> QED BY <2>1 DEF SignsIn
<1>5. \A m : BoundTo(rows, m) <=> BoundTo(db, m)
  BY <1>3 DEF BoundTo
<1> DEFINE overrides == "transferred_membership_claim_overrides"
<1>16. In(rows, overrides) = In(db, overrides)
  BY <1>2
<1>17. \A x : OverridesOf(rows, x) = OverridesOf(db, x)
  BY <1>16 DEF OverridesOf
<1>18. OpenOverrides(rows) = OpenOverrides(db)
  <2>1. {x \in In(rows, overrides) : x.s = "active" /\ \A o \in OverridesOf(rows, x) : o.n <= x.n}
          = {x \in In(db, overrides) : x.s = "active" /\ \A o \in OverridesOf(db, x) : o.n <= x.n}
    BY <1>16, <1>17
  <2> QED BY <2>1 DEF OpenOverrides
<1>6. MayNotJoin(rows) = MayNotJoin(db) /\ OpenClaims(rows) = OpenClaims(db)
  <2>1. {x \in ReadClaims(rows) : x.s = "unclaimed" /\ OverridesOf(rows, x) = {}}
          = {x \in ReadClaims(db) : x.s = "unclaimed" /\ OverridesOf(db, x) = {}}
    BY ClaimsBack, <1>17
  <2> QED BY BarredBack, <2>1 DEF OpenClaims
<1>7. /\ OpenInvitations(rows) = OpenInvitations(db)
      /\ OpenLinks(rows) = OpenLinks(db) /\ ShownAgain(rows) = ShownAgain(db)
      /\ NeverShown(rows) = NeverShown(db) /\ TerminalAnswers(rows) = TerminalAnswers(db)
      /\ Offers(rows) = Offers(db)
  BY <1>2 DEF OpenInvitations, OpenLinks, ShownAgain, NeverShown, TerminalAnswers,
              Offers
<1>8. EventCursor(rows) = EventCursor(db)
  BY CursorBack DEF EventCursor
<1>9. Answered(rows) = Answered(db)
  <2>1. In(rows, "idempotency_results") = In(db, "idempotency_results")
    BY ResultsBack
  <2>2. {<<"left", r.id>> : r \in In(rows, "leave_former_principal_replays")}
          = {<<"left", r.id>> : r \in In(db, "leave_former_principal_replays")}
    <3>1. \A id : (\E r \in In(rows, "leave_former_principal_replays") : r.id = id) <=>
                  \E r \in In(db, "leave_former_principal_replays") : r.id = id
      BY ReplaysBack
    <3> QED BY <3>1
  <2>3. {x \in In(rows, "project_member_removal_journals") : x.s = "completed"}
          = {x \in In(db, "project_member_removal_journals") : x.s = "completed"}
    BY JournalsBack
  <2>4. {x \in In(rows, "cloud_project_join_journals")
                 \cup In(rows, "cloud_project_creation_journals") : BoundTo(rows, x.ref)}
          = {x \in In(db, "cloud_project_join_journals")
                     \cup In(db, "cloud_project_creation_journals") : BoundTo(db, x.ref)}
    <3>1. /\ In(rows, "cloud_project_join_journals") =
               {j \in In(db, "cloud_project_join_journals") :
                  j.s = "completed" /\ BoundTo(db, j.ref)}
          /\ In(rows, "cloud_project_creation_journals") =
               {j \in In(db, "cloud_project_creation_journals") :
                  j.s = "completed" /\ BoundTo(db, j.ref)}
      BY JournalsBack
    <3>2. \A j \in In(db, "cloud_project_join_journals")
                     \cup In(db, "cloud_project_creation_journals") :
            BoundTo(db, j.ref) => j.s = "completed"
      BY DEF References
    <3> QED BY <1>5, <3>1, <3>2
  <2> QED BY <2>1, <2>2, <2>3, <2>4 DEF Answered
<1> QED BY <1>4, <1>6, <1>7, <1>8, <1>9, <1>18 DEF Answers

-----------------------------------------------------------------------------
(* Restore: the restored environment answers as the captured one. *)

\* Rows beside the row of the Project itself, which alone a publication changes.
Beside(rows) == {r \in rows : r.t # "projects"}

\* A live entry is the capture of a source that has since retired at most; what a
\* database holds beside the Project's own row are the rows of one or both artifacts.
AnswersInv ==
  /\ captured = [p \in Projects |-> captured[p]]
  /\ \A p \in Projects : Placed(p) => References(source[p])
  /\ \A p \in Live :
       /\ Rows(captured[p]) /\ References(captured[p]) /\ entries[p] = Taken(captured[p])
       /\ \/ captured[p] = source[p]
          \/ \E c \in In(source[p], "project_tombstones") : c.s = "retire"
  /\ taking = "published" => \A p \in Live : terminals[p] = ReadTerminal(captured[p])
  /\ \A p \in Live : database[p] # {} =>
       Beside(database[p]) \in
         {Beside(ImportRows(entries[p])),
          Beside(ImportRows(entries[p]) \cup TerminalRows(terminals[p]))}

LEMMA NothingEnded ==
  ASSUME NEW db, In(db, "project_tombstones") = {}
  PROVE  ReadTerminal(db) = {}
<1>1. \A op : TerminalOperation(db, op) = FALSE
  BY DEF TerminalOperation
<1>2. \A r : TerminalJournal(db, r) = FALSE
  BY <1>1 DEF TerminalJournal
<1>3. \A rows : Filtered(db, rows, TRUE) = {}
  BY <1>1 DEF Filtered
<1>4. ReadLifecycle(db, "none", TRUE) = {}
  BY <1>2 DEF ReadLifecycle, As
<1>5. ReadTombstones(db) = {}
  BY DEF ReadTombstones, Copy, Plain, As
<1> QED BY <1>3, <1>4, <1>5 DEF ReadTerminal, ReadReceiptKeys, ReadRedemptions, ReadResponders,
                               ReadEnvelopes

LEMMA RetirementRead ==
  ASSUME NEW db, Rows(db), NEW c \in In(db, "project_tombstones")
  PROVE  Row("tombstone", c.id, c.s, c.ref, c.n) \in In(ReadTerminal(db), "tombstone")
<1> DEFINE x == Row("tombstone", c.id, c.s, c.ref, c.n)
<1>1. Rows(In(db, "project_tombstones")) /\ Plain["tombstone"] = "project_tombstones"
  BY InTable DEF Plain
<1>2. x \in As(In(db, "project_tombstones"), "tombstone")
  BY <1>1, RelabelledRows
<1>3. x \in ReadTombstones(db)
  BY <1>1, <1>2 DEF ReadTombstones, Copy
<1> QED BY <1>3 DEF ReadTerminal, In, Row

LEMMA AnswersInit ==
  Init => AnswersInv
<1> SUFFICES ASSUME Init PROVE AnswersInv
  OBVIOUS
<1>1. Live = {} /\ captured = Nothing /\ taking = "list" /\ source \in Sources
  BY DEF Init, Live, Nothing
<1>2. \A p \in Projects : Placed(p) => References(source[p])
  BY <1>1, ReferencesAssumption DEF Placed
<1> QED BY <1>1, <1>2 DEF AnswersInv, Nothing

\* Nothing is in the database before the catalog is published.
LEMMA EmptyBefore ==
  ASSUME RestoreInv, taking # "published"
  PROVE  database = Nothing
BY DEF RestoreInv, Begun, PhaseInv, Unreached, NoFile, NoDatabase

LEMMA AnswersRetire ==
  ASSUME RestoreInv, AnswersInv, NEW p \in Projects, Retire(p)
  PROVE  AnswersInv'
<1> DEFINE g == (CHOOSE r \in In(source[p], "projects") : TRUE).n
<1>1. /\ source' = [source EXCEPT ![p] = RetiredRows(source[p])]
      /\ UNCHANGED <<entries, terminals, captured, taking, database>> /\ taking # "published"
  BY DEF Retire, coordination
<1>2. In(RetiredRows(source[p]), "repository_placements") = {}
  BY DEF RetiredRows, In, Row
<1>3. \E c \in In(RetiredRows(source[p]), "project_tombstones") : c.s = "retire"
  <2>1. Row("project_tombstones", "retirement", "retire", "none", g) \in RetiredRows(source[p])
    BY DEF RetiredRows
  <2> QED BY <2>1 DEF In, Row
<1>4. source = [q \in Projects |-> source[q]]
  BY DEF RestoreInv, SourceInv
<1>5. /\ source'[p] = RetiredRows(source[p])
      /\ \A q \in Projects \ {p} : source'[q] = source[q]
  BY <1>1, <1>4
<1>6. Live' = Live /\ Live \subseteq Projects
  BY <1>1 DEF Live
<1>7. \A q \in Projects : Placed(q)' => References(source[q])'
  BY <1>2, <1>5 DEF AnswersInv, Placed
<1>8. \A q \in Live : \/ captured[q] = source'[q]
                      \/ \E c \in In(source'[q], "project_tombstones") : c.s = "retire"
  BY <1>3, <1>5, <1>6 DEF AnswersInv
<1> QED BY <1>1, <1>6, <1>7, <1>8 DEF AnswersInv

LEMMA AnswersList ==
  ASSUME RestoreInv, AnswersInv, ListProjects
  PROVE  AnswersInv'
<1>1. /\ entries' = [p \in Projects |-> IF Placed(p) THEN entries[p] ELSE {}]
      /\ taking' = "capture" /\ taking = "list"
      /\ UNCHANGED <<source, captured, terminals, database>>
  BY DEF ListProjects, coordination
<1>2. \A p \in Live' : p \in Live /\ entries'[p] = entries[p]
  BY <1>1 DEF Live
<1> QED BY <1>1, <1>2 DEF AnswersInv, Placed

LEMMA AnswersCapture ==
  ASSUME RestoreInv, AnswersInv, NEW p \in Projects, CaptureProject(p)
  PROVE  AnswersInv'
<1>1. UNCHANGED <<source, terminals, database>> /\ taking = "capture" /\ taking' # "published"
  BY DEF CaptureProject, coordination
<1>2. database = Nothing
  BY <1>1, EmptyBefore
<1>3. CASE Placed(p)
  <2>1. /\ entries' = [entries EXCEPT ![p] = Taken(source[p])]
        /\ captured' = [captured EXCEPT ![p] = source[p]]
    BY <1>3 DEF CaptureProject, Taken
  <2>2. entries = [q \in Projects |-> entries[q]] /\ Rows(source[p])
    BY DEF RestoreInv, CatalogInv, SourceInv
  <2>3. captured = [q \in Projects |-> captured[q]] /\ References(source[p])
    BY <1>3 DEF AnswersInv
  <2>4. /\ entries'[p] = Taken(source[p]) /\ captured'[p] = source[p]
        /\ \A q \in Projects \ {p} : entries'[q] = entries[q] /\ captured'[q] = captured[q]
    BY <2>1, <2>2, <2>3
  <2>5. \A q \in Live' : q \in Projects /\ (q = p \/ q \in Live)
    BY <2>4 DEF Live
  <2>6. captured' = [q \in Projects |-> captured'[q]]
    BY <2>1, <2>3
  <2>7. \A q \in Live' :
          /\ Rows(captured'[q]) /\ References(captured'[q]) /\ entries'[q] = Taken(captured'[q])
          /\ \/ captured'[q] = source[q]
             \/ \E c \in In(source[q], "project_tombstones") : c.s = "retire"
    BY <2>2, <2>3, <2>4, <2>5 DEF AnswersInv
  <2>8. \A q \in Live' : database'[q] = {}
    BY <1>1, <1>2, <2>5 DEF Nothing
  <2> QED BY <1>1, <2>6, <2>7, <2>8 DEF AnswersInv, Placed
<1>4. CASE ~Placed(p)
  <2>1. UNCHANGED <<entries, captured>>
    BY <1>4 DEF CaptureProject
  <2> QED BY <1>1, <2>1 DEF AnswersInv, Placed, Live
<1> QED BY <1>3, <1>4

LEMMA AnswersPublish ==
  ASSUME RestoreInv, AnswersInv, PublishCatalog
  PROVE  AnswersInv'
<1>1. /\ UNCHANGED <<source, entries, captured, database>> /\ taking = "terminal"
      /\ Live' = Live
  BY DEF PublishCatalog, coordination, Live
<1>2. database = Nothing
  BY <1>1, EmptyBefore
<1>3. \A p \in Live : database'[p] = {}
  BY <1>1, <1>2 DEF Live, Nothing
<1>4. CASE \E p \in TerminalProjects : TerminalConflict(p)
  <2>1. taking' = "list"
    BY <1>4 DEF PublishCatalog
  <2> QED BY <1>1, <1>3, <2>1 DEF AnswersInv, Placed
<1>5. CASE ~ \E p \in TerminalProjects : TerminalConflict(p)
  <2>1. terminals' = [p \in Projects |->
                        IF p \in TerminalProjects THEN ReadTerminal(source[p]) ELSE {}]
    BY <1>5 DEF PublishCatalog
  <2>2. ASSUME NEW p \in Live
        PROVE  terminals'[p] = ReadTerminal(captured[p])
    <3>1. p \in Projects /\ entries[p] # {} /\ Rows(source[p])
      BY DEF Live, RestoreInv, SourceInv
    <3>2. CASE p \in TerminalProjects
      <4>1. \A c \in In(ReadTerminal(source[p]), "tombstone") : c.s # "retire"
        BY <1>5, <3>1, <3>2 DEF TerminalConflict
      <4>2. ASSUME NEW c \in In(source[p], "project_tombstones"), c.s = "retire"
            PROVE  FALSE
        <5>1. Row("tombstone", c.id, c.s, c.ref, c.n) \in In(ReadTerminal(source[p]), "tombstone")
          BY <3>1, RetirementRead
        <5>2. Row("tombstone", c.id, c.s, c.ref, c.n).s = c.s
          BY DEF Row
        <5> QED BY <4>1, <4>2, <5>1, <5>2
      <4>3. captured[p] = source[p]
        BY <4>2 DEF AnswersInv
      <4> QED BY <2>1, <3>1, <3>2, <4>3
    <3>3. CASE p \notin TerminalProjects
      <4>1. In(source[p], "project_tombstones") = {}
        BY <3>1, <3>3 DEF TerminalProjects
      <4>2. captured[p] = source[p]
        BY <4>1 DEF AnswersInv
      <4> QED BY <2>1, <3>1, <3>3, <4>1, <4>2, NothingEnded
    <3> QED BY <3>2, <3>3
  <2> QED BY <1>1, <1>3, <2>2 DEF AnswersInv, Placed
<1> QED BY <1>4, <1>5

\* Steps of the restore keep the backup: what counts is what they leave in the database.
LEMMA AnswersKeep ==
  ASSUME RestoreInv, AnswersInv, UNCHANGED backup,
         \A p \in Live : database'[p] # {} =>
           Beside(database'[p]) \in
             {Beside(ImportRows(entries[p])),
              Beside(ImportRows(entries[p]) \cup TerminalRows(terminals[p]))}
  PROVE  AnswersInv'
<1>1. UNCHANGED <<source, taking, entries, terminals, captured>>
  BY DEF backup
<1>2. Live' = Live
  BY <1>1 DEF Live
<1> QED BY <1>1, <1>2 DEF AnswersInv, Placed

LEMMA AnswersImport ==
  ASSUME RestoreInv, AnswersInv, NEW p \in Projects, ImportProject(p) \/ ImportTerminal(p)
  PROVE  AnswersInv'
<1>1. UNCHANGED backup
  BY DEF ImportProject, ImportTerminal, OnDatabase
<1>2. database = [q \in Projects |-> database[q]]
  BY DEF RestoreInv, DatabaseInv
<1>3. CASE ImportProject(p)
  <2>1. database' = [database EXCEPT ![p] = ImportRows(entries[p])]
    BY <1>3 DEF ImportProject
  <2>2. database'[p] = ImportRows(entries[p])
        /\ \A q \in Projects \ {p} : database'[q] = database[q]
    BY <1>2, <2>1
  <2>3. \A q \in Live : database'[q] # {} =>
           Beside(database'[q]) \in
             {Beside(ImportRows(entries[q])),
              Beside(ImportRows(entries[q]) \cup TerminalRows(terminals[q]))}
    BY <2>2 DEF AnswersInv, Live
  <2> QED BY <1>1, <2>3, AnswersKeep
<1>4. CASE ImportTerminal(p)
  <2>1. /\ database' = [database EXCEPT ![p] = @ \cup TerminalRows(terminals[p])]
        /\ \A q \in Live : database[q] # {}
    BY <1>4 DEF ImportTerminal
  <2>2. database'[p] = database[p] \cup TerminalRows(terminals[p])
        /\ \A q \in Projects \ {p} : database'[q] = database[q]
    BY <1>2, <2>1
  <2>3. \A a, b : Beside(a \cup b) = Beside(a) \cup Beside(b)
    BY DEF Beside
  <2>4. ASSUME NEW q \in Live
        PROVE  Beside(database'[q]) \in
                 {Beside(ImportRows(entries[q])),
                  Beside(ImportRows(entries[q]) \cup TerminalRows(terminals[q]))}
    <3>1. Beside(database[q]) \in
            {Beside(ImportRows(entries[q])),
             Beside(ImportRows(entries[q]) \cup TerminalRows(terminals[q]))}
      BY <2>1 DEF AnswersInv
    <3>2. CASE q = p
      <4>1. Beside(database'[q]) = Beside(database[q]) \cup Beside(TerminalRows(terminals[q]))
        BY <2>2, <2>3, <3>2
      <4>2. Beside(ImportRows(entries[q]) \cup TerminalRows(terminals[q])) =
              Beside(ImportRows(entries[q])) \cup Beside(TerminalRows(terminals[q]))
        BY <2>3
      <4>3. Beside(database'[q]) = Beside(ImportRows(entries[q]) \cup TerminalRows(terminals[q]))
        BY <3>1, <4>1, <4>2
      <4> QED BY <4>3
    <3>3. CASE q # p
      <4>1. database'[q] = database[q]
        BY <2>2, <3>3 DEF Live
      <4> QED BY <3>1, <4>1
    <3> QED BY <3>2, <3>3
  <2> QED BY <1>1, <2>4, AnswersKeep
<1> QED BY <1>3, <1>4

LEMMA AnswersAuthority ==
  ASSUME RestoreInv, AnswersInv, PublishAuthority
  PROVE  AnswersInv'
<1>1. /\ UNCHANGED backup
      /\ database' = [p \in Projects |->
                        {IF r.t = "projects" THEN [r EXCEPT !.s = "active"] ELSE r :
                           r \in database[p]}]
  BY DEF PublishAuthority, OnDatabase
<1>2. ASSUME NEW p \in Projects
      PROVE  Beside(database'[p]) = Beside(database[p])
  <2>1. \A r \in database[p] : r.t = "projects" => [r EXCEPT !.s = "active"].t = "projects"
    <3>1. ASSUME NEW r \in database[p], r.t = "projects"
          PROVE  [r EXCEPT !.s = "active"].t = "projects"
      <4>1. r = Row(r.t, r.id, r.s, r.ref, r.n)
        BY DEF RestoreInv, DatabaseInv, Rows
      <4> QED BY <3>1, <4>1 DEF Row
    <3> QED BY <3>1
  <2>2. database'[p] = {IF r.t = "projects" THEN [r EXCEPT !.s = "active"] ELSE r :
                          r \in database[p]}
    BY <1>1
  <2>3. \A x : x \in Beside(database'[p]) <=> x \in Beside(database[p])
    BY <2>1, <2>2 DEF Beside
  <2> DEFINE a == Beside(database'[p])  b == Beside(database[p])
  <2>4. a \subseteq database'[p] /\ b \subseteq database[p]
    BY DEF Beside
  <2>5. a = b
    BY <2>3
  <2> QED BY <2>5
<1>3. \A p \in Projects : database'[p] # {} => database[p] # {}
  BY <1>1
<1>4. \A p \in Live : database'[p] # {} =>
           Beside(database'[p]) \in
             {Beside(ImportRows(entries[p])),
              Beside(ImportRows(entries[p]) \cup TerminalRows(terminals[p]))}
  BY <1>2, <1>3 DEF AnswersInv, Live
<1> QED BY <1>1, <1>4, AnswersKeep

\* The other steps move neither the catalog nor the rows.
LEMMA AnswersStill ==
  ASSUME RestoreInv, AnswersInv, UNCHANGED <<backup, database>>
  PROVE  AnswersInv'
<1>1. \A p \in Live : database'[p] # {} =>
           Beside(database'[p]) \in
             {Beside(ImportRows(entries[p])),
              Beside(ImportRows(entries[p]) \cup TerminalRows(terminals[p]))}
  BY DEF AnswersInv
<1> QED BY <1>1, AnswersKeep

LEMMA AnswersStepHolds ==
  ASSUME RestoreInv, AnswersInv, [Next]_vars
  PROVE  AnswersInv'
<1>1. CASE Environment
  <2>1. ASSUME NEW p \in Projects, Retire(p) PROVE AnswersInv'
    BY <2>1, AnswersRetire
  <2>2. CASE CallRestore \/ CallCancel \/ Stop
    BY <2>2, AnswersStill DEF CallRestore, CallCancel, Stop, coordination
  <2> QED BY <1>1, <2>1, <2>2 DEF Environment
<1>2. CASE BackupStep
  <2>1. ASSUME NEW p \in Projects, CaptureProject(p) PROVE AnswersInv'
    BY <2>1, AnswersCapture
  <2>2. CASE ListProjects \/ PublishCatalog
    BY <2>2, AnswersList, AnswersPublish
  <2>3. CASE CapturesDone
    <3>1. UNCHANGED <<source, entries, terminals, captured, database>> /\ taking' = "terminal"
      BY <2>3 DEF CapturesDone, coordination
    <3> QED BY <3>1 DEF AnswersInv, Placed, Live
  <2> QED BY <1>2, <2>1, <2>2, <2>3 DEF BackupStep
<1>3. CASE CallRecover \/ CallStep
  <2>1. UNCHANGED <<backup, database>>
    BY <1>3 DEF CallRecover, CallStep, CreateJournal, ResumeRun, RequestCleanup, ResumeCleanup,
                Return, coordination
  <2> QED BY <2>1, AnswersStill
<1>4. CASE FileStep
  <2>1. UNCHANGED <<backup, database>>
    BY <1>4 DEF FileStep, FillPart, RenamePart, PromoteJournal, PromoteRemoval, RecoverRemoval,
                Unmark, Unjournal, Unintent, coordination
  <2> QED BY <2>1, AnswersStill
<1>5. CASE RunStep
  <2>1. ASSUME NEW p \in Projects, ImportProject(p) \/ ImportTerminal(p) PROVE AnswersInv'
    BY <2>1, AnswersImport
  <2>2. CASE PublishAuthority
    BY <2>2, AnswersAuthority
  <2>3. ASSUME NEW p \in Projects, MakeDirectory(p) \/ StageRepository(p) \/ PublishRepository(p)
        PROVE  UNCHANGED <<backup, database>>
    BY <2>3 DEF MakeDirectory, StageRepository, PublishRepository, OnStorage, coordination
  <2>4. \A phase : Advance(phase) => UNCHANGED <<backup, database>>
    BY DEF Advance, coordination
  <2>5. CASE \/ DatabaseCreated \/ CoordinationImported \/ RepositoriesStaged \/ PairPreparedStep
             \/ RepositoriesPublished \/ AuthorityPublished \/ VerifyRestored \/ Complete
    BY <2>4, <2>5, AnswersStill
       DEF DatabaseCreated, CoordinationImported, RepositoriesStaged, PairPreparedStep,
           RepositoriesPublished, AuthorityPublished, VerifyRestored, Complete
  <2>6. CASE CreateFence \/ ApplySchema \/ WriteMarker \/ PromoteMarker \/ Completed
    BY <2>6, AnswersStill
       DEF CreateFence, ApplySchema, WriteMarker, PromoteMarker, Completed, OnDatabase, coordination
  <2> QED BY <1>5, <2>1, <2>2, <2>3, <2>5, <2>6, AnswersStill DEF RunStep
<1>6. CASE CleanupStep
  <2>1. CASE DropDatabase
    <3>1. UNCHANGED backup /\ database' = Nothing
      BY <2>1 DEF DropDatabase
    <3>2. \A p \in Live : database'[p] = {}
      BY <3>1 DEF Nothing, Live
    <3> QED BY <3>1, <3>2, AnswersKeep
  <2>2. ASSUME NEW p \in Projects, RemoveRepository(p) PROVE AnswersInv'
    BY <2>2, AnswersStill DEF RemoveRepository, OnStorage, coordination
  <2>3. CASE WithdrawCleanup \/ CancelRefused \/ RepositoriesRemoved \/ DiscardStaging
             \/ RemoveJournal
    BY <2>3, AnswersStill
       DEF WithdrawCleanup, CancelRefused, RepositoriesRemoved, DiscardStaging, RemoveJournal,
           coordination
  <2> QED BY <1>6, <2>1, <2>2, <2>3 DEF CleanupStep
<1>7. CASE UNCHANGED vars
  BY <1>7, AnswersStill DEF vars, coordination
<1> QED BY <1>1, <1>2, <1>3, <1>4, <1>5, <1>6, <1>7 DEF Next, Step

\* Once authority is published, the service answers for every live Project of the catalog
\* as it did when the Project was captured: who may sign in or join, which secrets are open,
\* which results, acknowledgements and event positions it retains (the readers of
\* PostgresProjectCheckpointPersistence against the inserts of importProject and
\* importTerminalProject), wherever the backup and the restore were interrupted.
THEOREM AnswersSurvive == Spec => []AnswersKept
<1>1. ASSUME RestoreInv, AnswersInv, WholeOrNothing
      PROVE  AnswersKept
  <2> SUFFICES ASSUME fence = "published", NEW p \in Live
               PROVE  Answers(database[p]) =
                        Answers(captured[p] \cup
                                  (IF p \in Terminal THEN TerminalRows(terminals[p]) ELSE {}))
    BY DEF AnswersKept
  <2> DEFINE ended == TerminalRows(terminals[p])
  <2>1. p \in Projects /\ Rows(database[p]) /\ database[p] # {}
    BY <1>1 DEF RestoreInv, DatabaseInv, Live
  <2>2. Rows(captured[p]) /\ References(captured[p]) /\ entries[p] = Taken(captured[p])
    BY <1>1 DEF AnswersInv
  <2>3. taking = "published"
    BY <1>1, <2>1, EmptyBefore DEF Nothing
  <2>4. terminals[p] = ReadTerminal(captured[p])
    BY <1>1, <2>3 DEF AnswersInv
  <2>5. ended \subseteq captured[p] /\ \A x \in ended : x.t # "projects"
    BY <2>2, <2>4, TerminalRowsReadBack
  <2>6. p \notin Terminal => ended = {}
    BY <2>1, NoTerminalRows DEF Terminal
  <2>7. ended \subseteq database[p]
    BY <1>1, <2>6 DEF WholeOrNothing, PublishedWhole
  <2>8. captured[p] \cup (IF p \in Terminal THEN ended ELSE {}) = captured[p]
    BY <2>5
  <2> HIDE DEF ended
  <2>9. Beside(database[p]) \in {Beside(ImportRows(entries[p])),
                                 Beside(ImportRows(entries[p]) \cup ended)}
    BY <1>1, <2>1 DEF AnswersInv, ended
  <2>10. \A x : x.t # "projects" =>
           (x \in database[p] <=> x \in ImportRows(entries[p]) \/ x \in ended)
    <3>1. \A rows, x : x.t # "projects" => (x \in rows <=> x \in Beside(rows))
      BY DEF Beside
    <3>2. CASE Beside(database[p]) = Beside(ImportRows(entries[p]))
      BY <2>7, <3>1, <3>2
    <3>3. CASE Beside(database[p]) = Beside(ImportRows(entries[p]) \cup ended)
      BY <3>1, <3>3
    <3> QED BY <2>9, <3>2, <3>3
  <2>11. Restored(database[p], captured[p])
    BY <2>2, <2>4, <2>10 DEF Restored, ended
  <2> QED BY <2>1, <2>2, <2>8, <2>11, AnswersBack DEF ended
<1>2. Init => RestoreInv /\ AnswersInv
  BY InitHolds, AnswersInit
<1>3. RestoreInv /\ AnswersInv /\ [Next]_vars => AnswersInv'
  BY AnswersStepHolds
<1> QED BY <1>1, <1>2, <1>3, RestoreInvHolds, RestoredWhole, PTL DEF Spec

==============================================================================

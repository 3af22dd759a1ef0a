----------------------- MODULE EventsAndBackups_proof -----------------------
(***************************************************************************)
(* Theorems about two components that share no state: the event streams,   *)
(* for every set of sessions and Projects, every length of the logs and    *)
(* every limit of the admission; and one backup or export, for any number  *)
(* of versions of the Project, of builds of the server, and of failed      *)
(* steps and crashes.                                                      *)
(***************************************************************************)
EXTENDS ProjectEvents, BackupExport, FiniteSetTheorems, SequenceTheorems, TLAPS

-----------------------------------------------------------------------------
(* The event streams: the inductive invariant. *)

\* Finitely many sessions.
Book(f) ==
  /\ DOMAIN f \subseteq Session /\ IsFiniteSet(DOMAIN f)
  /\ f \in [DOMAIN f -> SessionRecord]

\* The log holds nothing that is not committed, and nobody was told of more.
LogInv ==
  /\ latest \in [Project -> Sequence] /\ noticed \in [Project -> Sequence]
  /\ retained \in [Project -> SUBSET (1 .. MaxSequence)]
  /\ unnotified \in [Project -> Nat]
  /\ revokedAt \in [Session -> Sequence \cup {-1}]
  /\ \A p \in Project : noticed[p] <= latest[p] /\ \A n \in retained[p] : n <= latest[p]

\* A session has read events that it has not sent yet.
InFlight(r) == r.pc = "send" \/ r.result = "events"

\* The client has received what lies between its cursors.
Told(r) ==
  /\ \A i \in DOMAIN r.received : r.received[i] = r.start + i
  /\ r.pc = "authorize" => r.received = <<>> /\ r.cursor = r.start
  /\ r.pc \notin {"authorize", "done"} => r.cursor = r.start + Len(r.received)

\* The events in flight are all those after the cursor.
Batched(r) ==
  /\ r.result # "none" => r.pc \in {"authorize", "poll"}
  /\ ~InFlight(r) => r.batch = {}
  /\ InFlight(r) => r.batch = r.cursor + 1 .. r.upTo /\ r.cursor <= r.upTo

\* They were committed before the Member was removed; a session that was not woken since
\* it read has read, or sent, everything up to the last notification.
Logged(r, top, seen, left) ==
  /\ \A i \in DOMAIN r.received : r.received[i] <= top
  /\ InFlight(r) => r.upTo <= top
  /\ left # -1 => /\ \A i \in DOMAIN r.received : r.received[i] <= left
                  /\ InFlight(r) => r.upTo <= left
  /\ r.pc # "authorize" /\ InFlight(r) /\ ~r.woken => seen <= r.upTo
  /\ r.pc = "wait" => seen <= r.cursor

Sound(s, r, lat, ntc, rvk) ==
  Told(r) /\ Batched(r) /\ Logged(r, lat[r.project], ntc[r.project], rvk[s])

\* A Project's chain holds sessions that wait for their read, each once; only the first
\* has a result.
Chained(ch, f) ==
  /\ ch \in [Project -> Seq(Session)]
  /\ \A p \in Project :
       /\ \A i, j \in DOMAIN ch[p] : ch[p][i] = ch[p][j] => i = j
       /\ \A i \in DOMAIN ch[p] : /\ ch[p][i] \in DOMAIN f
                                  /\ f[ch[p][i]].project = p
                                  /\ f[ch[p][i]].pc \in {"authorize", "poll"}
  /\ \A s \in DOMAIN f : f[s].result # "none" =>
       ch[f[s].project] # <<>> /\ Head(ch[f[s].project]) = s

\* The sessions that hold a connection of some Projects, and those that hold a pending
\* authorization.
Connected(f, P) == {s \in DOMAIN f : f[s].pc \notin {"authorize", "done"} /\ f[s].project \in P}
Asking(f) == {s \in DOMAIN f : f[s].pc = "authorize"}

\* The counters of the admission say how many these are.
Admitted(f, all, each, asking) ==
  /\ all = Cardinality(Connected(f, Project))
  /\ each \in [Project -> Nat] /\ \A p \in Project : each[p] = Cardinality(Connected(f, {p}))
  /\ asking = Cardinality(Asking(f))

IInv ==
  /\ closed \in BOOLEAN /\ closeResolved \in BOOLEAN
  /\ LogInv /\ Book(session)
  /\ \A s \in DOMAIN session : Sound(s, session[s], latest, noticed, revokedAt)
  /\ Chained(polls, session)
  /\ Admitted(session, active, activeByProject, pending)

\* The sessions that hold a place are finitely many.
LEMMA SetsCounted ==
  ASSUME NEW f, Book(f)
  PROVE  /\ \A P : IsFiniteSet(Connected(f, P)) /\ Cardinality(Connected(f, P)) \in Nat
         /\ IsFiniteSet(Asking(f)) /\ Cardinality(Asking(f)) \in Nat
<1>1. \A P : Connected(f, P) \in SUBSET DOMAIN f
  BY DEF Connected
<1>2. Asking(f) \in SUBSET DOMAIN f
  BY DEF Asking
<1> QED
  BY <1>1, <1>2, FS_Subset, FS_CardinalityType DEF Book

\* Types follow.
LEMMA IInvType == IInv => TypeOK
<1> SUFFICES ASSUME IInv PROVE TypeOK
  OBVIOUS
<1>1. Cardinality(Connected(session, Project)) \in Nat /\ Cardinality(Asking(session)) \in Nat
  BY SetsCounted DEF IInv
<1> QED
  BY <1>1 DEF IInv, TypeOK, LogInv, Book, Chained, Admitted

-----------------------------------------------------------------------------
(* Counting the sessions that hold a place. *)

\* g is f but for the session s.
Differ(f, g, s) ==
  /\ Book(f) /\ Book(g)
  /\ s \in DOMAIN g /\ DOMAIN g = DOMAIN f \cup {s}
  /\ \A t \in DOMAIN f \ {s} : g[t] = f[t]

\* Places that the same sessions hold count the same.
LEMMA AdmitSame ==
  ASSUME NEW f, NEW g, DOMAIN g = DOMAIN f,
         \A s \in DOMAIN f : /\ g[s].project = f[s].project
                             /\ g[s].pc = "authorize" <=> f[s].pc = "authorize"
                             /\ g[s].pc = "done" <=> f[s].pc = "done",
         NEW a, NEW b, NEW n, Admitted(f, a, b, n)
  PROVE  Admitted(g, a, b, n)
<1>1. \A P : Connected(g, P) = Connected(f, P)
  BY DEF Connected
<1>2. Asking(g) = Asking(f)
  BY DEF Asking
<1> QED
  BY <1>1, <1>2 DEF Admitted

\* A connection that ends gives its place back.
LEMMA AdmitEnd ==
  ASSUME NEW f, NEW g, NEW s \in DOMAIN f, Differ(f, g, s),
         f[s].pc \notin {"authorize", "done"}, g[s].pc = "done",
         NEW a, NEW b, NEW n, Admitted(f, a, b, n)
  PROVE  Admitted(g, a - 1, [b EXCEPT ![f[s].project] = @ - 1], n)
<1> DEFINE p == f[s].project
           bb == [b EXCEPT ![p] = @ - 1]
<1>0. p \in Project
  BY DEF Differ, Book, SessionRecord
<1>1. \A P : Connected(g, P) = Connected(f, P) \ {s}
  BY DEF Connected, Differ
<1>2. Asking(g) = Asking(f)
  BY DEF Asking, Differ
<1>3. \A P : IsFiniteSet(Connected(f, P)) /\ Cardinality(Connected(f, P)) \in Nat
  BY SetsCounted DEF Differ
<1>4. \A P : Cardinality(Connected(g, P)) =
               IF p \in P THEN Cardinality(Connected(f, P)) - 1 ELSE Cardinality(Connected(f, P))
  <2> TAKE P
  <2>1. s \in Connected(f, P) <=> p \in P
    BY DEF Connected
  <2>2. CASE p \in P
    BY <1>1, <1>3, <2>1, <2>2, FS_RemoveElement
  <2>3. CASE p \notin P
    <3>1. Connected(g, P) = Connected(f, P)
      BY <1>1, <2>1, <2>3
    <3> QED
      BY <2>3, <3>1
  <2> QED
    BY <2>2, <2>3
<1>5. \A P : Cardinality(Connected(g, P)) \in Nat
  BY SetsCounted DEF Differ
<1> HIDE DEF p
<1>6. ASSUME NEW q \in Project PROVE bb[q] = Cardinality(Connected(g, {q})) /\ bb[q] \in Nat
  <2>1. b[q] = Cardinality(Connected(f, {q})) /\ b \in [Project -> Nat]
    BY DEF Admitted
  <2> QED
    BY <1>0, <1>4, <1>5, <2>1
<1>7. bb \in [Project -> Nat]
  <2>1. DOMAIN bb = Project /\ bb = [q \in Project |-> bb[q]]
    BY DEF Admitted
  <2> QED
    BY <1>6, <2>1
<1>8. a - 1 = Cardinality(Connected(g, Project))
  BY <1>0, <1>4 DEF Admitted
<1> QED
  BY <1>2, <1>6, <1>7, <1>8 DEF Admitted, p

\* A pending authorization is counted.
LEMMA AdmitAsk ==
  ASSUME NEW f, NEW g, NEW s, s \notin DOMAIN f, Differ(f, g, s), g[s].pc = "authorize",
         NEW a, NEW b, NEW n, Admitted(f, a, b, n)
  PROVE  Admitted(g, a, b, n + 1)
<1>1. \A P : Connected(g, P) = Connected(f, P)
  BY DEF Connected, Differ
<1>2. Asking(g) = Asking(f) \cup {s} /\ s \notin Asking(f)
  BY DEF Asking, Differ
<1>3. IsFiniteSet(Asking(f))
  BY SetsCounted DEF Differ
<1>4. Cardinality(Asking(g)) = Cardinality(Asking(f)) + 1
  BY <1>2, <1>3, FS_AddElement
<1> QED
  BY <1>1, <1>4 DEF Admitted

\* A rejected upgrade takes no place.
LEMMA AdmitReject ==
  ASSUME NEW f, NEW g, NEW s, s \notin DOMAIN f, Differ(f, g, s), g[s].pc = "done",
         NEW a, NEW b, NEW n, Admitted(f, a, b, n)
  PROVE  Admitted(g, a, b, n)
<1>1. \A P : Connected(g, P) = Connected(f, P)
  BY DEF Connected, Differ
<1>2. Asking(g) = Asking(f)
  BY DEF Asking, Differ
<1> QED
  BY <1>1, <1>2 DEF Admitted

\* A refused authorization is given back.
LEMMA AdmitRefuse ==
  ASSUME NEW f, NEW g, NEW s \in DOMAIN f, Differ(f, g, s),
         f[s].pc = "authorize", g[s].pc = "done",
         NEW a, NEW b, NEW n, Admitted(f, a, b, n)
  PROVE  Admitted(g, a, b, n - 1)
<1>1. \A P : Connected(g, P) = Connected(f, P)
  BY DEF Connected, Differ
<1>2. Asking(g) = Asking(f) \ {s} /\ s \in Asking(f)
  BY DEF Asking, Differ
<1>3. IsFiniteSet(Asking(f))
  BY SetsCounted DEF Differ
<1>4. Cardinality(Asking(g)) = Cardinality(Asking(f)) - 1
  BY <1>2, <1>3, FS_RemoveElement
<1> QED
  BY <1>1, <1>4 DEF Admitted

\* An authorization becomes a connection.
LEMMA AdmitPromote ==
  ASSUME NEW f, NEW g, NEW s \in DOMAIN f, Differ(f, g, s),
         f[s].pc = "authorize", g[s].pc = "loop", g[s].project = f[s].project,
         NEW a, NEW b, NEW n, Admitted(f, a, b, n)
  PROVE  Admitted(g, a + 1, [b EXCEPT ![f[s].project] = @ + 1], n - 1)
<1> DEFINE p == f[s].project
           bb == [b EXCEPT ![p] = @ + 1]
<1>0. p \in Project
  BY DEF Differ, Book, SessionRecord
<1>1. \A P : Connected(g, P) = IF p \in P THEN Connected(f, P) \cup {s} ELSE Connected(f, P)
  BY DEF Connected, Differ
<1>2. \A P : s \notin Connected(f, P)
  BY DEF Connected
<1>3. \A P : IsFiniteSet(Connected(f, P)) /\ Cardinality(Connected(f, P)) \in Nat
  BY SetsCounted DEF Differ
<1>4. \A P : Cardinality(Connected(g, P)) =
               IF p \in P THEN Cardinality(Connected(f, P)) + 1 ELSE Cardinality(Connected(f, P))
  BY <1>1, <1>2, <1>3, FS_AddElement
<1>5. Asking(g) = Asking(f) \ {s} /\ s \in Asking(f) /\ IsFiniteSet(Asking(f))
  <2>1. IsFiniteSet(Asking(f))
    BY SetsCounted DEF Differ
  <2> QED
    BY <2>1 DEF Asking, Differ
<1>6. Cardinality(Asking(g)) = Cardinality(Asking(f)) - 1
  BY <1>5, FS_RemoveElement
<1> HIDE DEF p
<1>7. bb \in [Project -> Nat] /\ \A q \in Project : bb[q] = Cardinality(Connected(g, {q}))
  <2>1. b \in [Project -> Nat] /\ \A q \in Project : b[q] = Cardinality(Connected(f, {q}))
    BY DEF Admitted
  <2> QED
    BY <1>0, <1>4, <2>1
<1>8. a + 1 = Cardinality(Connected(g, Project))
  BY <1>0, <1>4 DEF Admitted
<1> QED
  BY <1>6, <1>7, <1>8 DEF Admitted, p

-----------------------------------------------------------------------------
(* The chains of reads. *)

\* A chain stays while its sessions wait, and only their first gets a result.
LEMMA ChainStays ==
  ASSUME NEW f, NEW g, NEW ch, Chained(ch, f), DOMAIN f \subseteq DOMAIN g,
         \A s \in DOMAIN f : /\ g[s].project = f[s].project
                             /\ f[s].pc \in {"authorize", "poll"} =>
                                  g[s].pc \in {"authorize", "poll"},
         \A s \in DOMAIN g : g[s].result # "none" =>
           /\ s \in DOMAIN f
           /\ ch[f[s].project] # <<>> /\ Head(ch[f[s].project]) = s
  PROVE  Chained(ch, g)
BY DEF Chained

\* A session that waits for its read joins at the end.
LEMMA ChainJoin ==
  ASSUME NEW f, NEW g, NEW s, Differ(f, g, s), NEW ch, Chained(ch, f),
         s \in DOMAIN f => /\ f[s].pc \notin {"authorize", "poll"}
                           /\ g[s].project = f[s].project,
         g[s].pc \in {"authorize", "poll"}, g[s].result = "none"
  PROVE  Chained([ch EXCEPT ![g[s].project] = Append(@, s)], g)
<1> DEFINE p == g[s].project
           cc == [ch EXCEPT ![p] = Append(@, s)]
<1>0. p \in Project /\ s \in Session /\ ch \in [Project -> Seq(Session)]
  BY DEF Differ, Book, SessionRecord, Chained
<1>1. /\ ch[p] \in Seq(Session) /\ Len(ch[p]) \in Nat /\ DOMAIN ch[p] = 1 .. Len(ch[p])
  BY <1>0, LenProperties
<1>2. /\ cc[p] \in Seq(Session) /\ Len(cc[p]) = Len(ch[p]) + 1
      /\ DOMAIN cc[p] = 1 .. Len(ch[p]) + 1
      /\ \A i \in 1 .. Len(ch[p]) : cc[p][i] = ch[p][i]
      /\ cc[p][Len(ch[p]) + 1] = s
      /\ ch[p] # <<>> => Head(cc[p]) = Head(ch[p])
      /\ cc[p] # <<>>
  <2>1. cc[p] = Append(ch[p], s)
    BY <1>0
  <2> HIDE DEF cc, p
  <2>2. /\ cc[p] \in Seq(Session) /\ Len(cc[p]) = Len(ch[p]) + 1
        /\ \A i \in 1 .. Len(ch[p]) : cc[p][i] = ch[p][i]
        /\ cc[p][Len(ch[p]) + 1] = s /\ cc[p] # <<>>
    BY <1>0, <1>1, <2>1, AppendProperties
  <2>3. DOMAIN cc[p] = 1 .. Len(ch[p]) + 1
    BY <2>2, LenProperties
  <2>4. ch[p] # <<>> => Head(cc[p]) = Head(ch[p])
    BY <1>0, <1>1, <2>1, HeadTailAppend
  <2> QED
    BY <2>2, <2>3, <2>4
<1>3. \A q \in Project \ {p} : cc[q] = ch[q]
  BY <1>0
<1>4. cc \in [Project -> Seq(Session)]
  BY <1>0, <1>1, AppendProperties
<1>5. \A q \in Project : \A i \in DOMAIN ch[q] :
        /\ ch[q][i] \in DOMAIN f /\ ch[q][i] # s
        /\ f[ch[q][i]].project = q
        /\ f[ch[q][i]].pc \in {"authorize", "poll"}
  BY DEF Chained
<1> HIDE DEF cc
<1>6. ASSUME NEW q \in Project
      PROVE  /\ \A i, j \in DOMAIN cc[q] : cc[q][i] = cc[q][j] => i = j
             /\ \A i \in DOMAIN cc[q] : /\ cc[q][i] \in DOMAIN g
                                        /\ g[cc[q][i]].project = q
                                        /\ g[cc[q][i]].pc \in {"authorize", "poll"}
  <2>1. CASE q = p
    <3>1. \A i, j \in 1 .. Len(ch[p]) : ch[p][i] = ch[p][j] => i = j
      BY <1>0, <1>1 DEF Chained
    <3>2. \A i \in 1 .. Len(ch[p]) :
            /\ ch[p][i] \in DOMAIN f /\ ch[p][i] # s
            /\ f[ch[p][i]].project = p /\ f[ch[p][i]].pc \in {"authorize", "poll"}
      BY <1>0, <1>1, <1>5
    <3>4. \A i \in DOMAIN cc[p] : i \in 1 .. Len(ch[p]) \/ i = Len(ch[p]) + 1
      BY <1>1, <1>2
    <3>3. ASSUME NEW i \in DOMAIN cc[p], NEW j \in DOMAIN cc[p], cc[p][i] = cc[p][j]
          PROVE  i = j
      <4>1. CASE i \in 1 .. Len(ch[p]) /\ j \in 1 .. Len(ch[p])
        <5>1. cc[p][i] = ch[p][i] /\ cc[p][j] = ch[p][j]
          BY <1>2, <4>1
        <5> QED
          BY <3>1, <3>3, <4>1, <5>1
      <4>2. CASE i = Len(ch[p]) + 1 \/ j = Len(ch[p]) + 1
        BY <1>2, <3>2, <3>3, <3>4, <4>2
      <4> QED
        BY <3>4, <4>1, <4>2
    <3>5. \A i \in DOMAIN cc[p] : /\ cc[p][i] \in DOMAIN g
                                  /\ g[cc[p][i]].project = p
                                  /\ g[cc[p][i]].pc \in {"authorize", "poll"}
      BY <1>2, <3>2, <3>4 DEF Differ
    <3> QED
      BY <2>1, <3>3, <3>5
  <2>2. CASE q # p
    BY <1>3, <1>5, <2>2 DEF Chained, Differ
  <2> QED
    BY <2>1, <2>2
<1>7. ASSUME NEW t \in DOMAIN g, g[t].result # "none"
      PROVE  cc[g[t].project] # <<>> /\ Head(cc[g[t].project]) = t
  <2>1. t # s /\ t \in DOMAIN f /\ g[t] = f[t] /\ g[t].project \in Project
    BY <1>7 DEF Differ, Book, SessionRecord
  <2>2. ch[g[t].project] # <<>> /\ Head(ch[g[t].project]) = t
    BY <1>7, <2>1 DEF Chained
  <2> QED
    BY <1>2, <1>3, <2>1, <2>2
<1> QED
  BY <1>4, <1>6, <1>7 DEF Chained, cc

\* The first goes on with its result.
LEMMA ChainLeave ==
  ASSUME NEW f, NEW g, NEW s \in DOMAIN f, Differ(f, g, s), NEW ch, Chained(ch, f),
         f[s].result # "none", g[s].result = "none", g[s].project = f[s].project
  PROVE  Chained([ch EXCEPT ![f[s].project] = Tail(@)], g)
<1> DEFINE p == f[s].project
           cc == [ch EXCEPT ![p] = Tail(@)]
<1>0. p \in Project /\ ch \in [Project -> Seq(Session)] /\ ch[p] # <<>> /\ Head(ch[p]) = s
  BY DEF Differ, Book, SessionRecord, Chained
<1>1. /\ ch[p] \in Seq(Session) /\ Len(ch[p]) \in Nat /\ DOMAIN ch[p] = 1 .. Len(ch[p])
      /\ Len(ch[p]) > 0 /\ ch[p][1] = s
  <2>1. ch[p] \in Seq(Session)
    BY <1>0
  <2> HIDE DEF p
  <2>2. Len(ch[p]) \in Nat /\ DOMAIN ch[p] = 1 .. Len(ch[p]) /\ Len(ch[p]) > 0
    BY <1>0, <2>1, LenProperties, EmptySeq
  <2> QED
    BY <1>0, <2>1, <2>2
<1>2. /\ cc[p] \in Seq(Session) /\ Len(cc[p]) = Len(ch[p]) - 1
      /\ DOMAIN cc[p] = 1 .. Len(ch[p]) - 1
      /\ \A i \in 1 .. Len(ch[p]) - 1 : cc[p][i] = ch[p][i + 1]
  <2>1. cc[p] = Tail(ch[p])
    BY <1>0
  <2> HIDE DEF cc, p
  <2>2. /\ cc[p] \in Seq(Session) /\ Len(cc[p]) = Len(ch[p]) - 1
        /\ \A i \in 1 .. Len(cc[p]) : cc[p][i] = ch[p][i + 1]
    BY <1>0, <1>1, <2>1, HeadTailProperties
  <2>3. DOMAIN cc[p] = 1 .. Len(cc[p])
    BY <2>2, LenProperties
  <2> QED
    BY <2>2, <2>3
<1>3. \A q \in Project \ {p} : cc[q] = ch[q]
  BY <1>0
<1>4. cc \in [Project -> Seq(Session)]
  <2>1. DOMAIN cc = Project /\ cc = [q \in Project |-> cc[q]]
    BY <1>0
  <2> HIDE DEF cc
  <2> QED
    BY <1>0, <1>2, <1>3, <2>1
<1> HIDE DEF cc, p
<1>5. \A q \in Project : /\ \A i, j \in DOMAIN ch[q] : ch[q][i] = ch[q][j] => i = j
                         /\ \A i \in DOMAIN ch[q] : /\ ch[q][i] \in DOMAIN f
                                                    /\ f[ch[q][i]].project = q
                                                    /\ f[ch[q][i]].pc \in {"authorize", "poll"}
  BY DEF Chained
<1>6. ASSUME NEW q \in Project
      PROVE  /\ \A i, j \in DOMAIN cc[q] : cc[q][i] = cc[q][j] => i = j
             /\ \A i \in DOMAIN cc[q] : /\ cc[q][i] \in DOMAIN g
                                        /\ g[cc[q][i]].project = q
                                        /\ g[cc[q][i]].pc \in {"authorize", "poll"}
  <2>1. CASE q = p
    <3>1. \A i \in DOMAIN cc[p] : /\ i + 1 \in DOMAIN ch[p] /\ i + 1 # 1 /\ i \in Nat
                                  /\ cc[p][i] = ch[p][i + 1]
      BY <1>1, <1>2
    <3>2. \A i \in DOMAIN cc[p] : cc[p][i] # s
      <4>1. 1 \in DOMAIN ch[p]
        BY <1>1
      <4> QED
        BY <1>0, <1>1, <1>5, <3>1, <4>1
    <3>3. \A i, j \in DOMAIN cc[p] : cc[p][i] = cc[p][j] => i = j
      <4> TAKE i, j \in DOMAIN cc[p]
      <4>1. cc[p][i] = cc[p][j] => i + 1 = j + 1
        BY <1>0, <1>5, <3>1
      <4> QED
        BY <3>1, <4>1
    <3>4. \A i \in DOMAIN cc[p] : /\ cc[p][i] \in DOMAIN f \ {s}
                                  /\ f[cc[p][i]].project = p
                                  /\ f[cc[p][i]].pc \in {"authorize", "poll"}
      BY <1>0, <1>5, <3>1, <3>2
    <3> QED
      BY <2>1, <3>3, <3>4 DEF Differ
  <2>2. CASE q # p
    <3>1. \A i \in DOMAIN ch[q] : ch[q][i] # s
      BY <1>5, <2>2 DEF p
    <3> QED
      BY <1>3, <1>5, <2>2, <3>1 DEF Differ
  <2> QED
    BY <2>1, <2>2
<1>7. ASSUME NEW t \in DOMAIN g, g[t].result # "none"
      PROVE  cc[g[t].project] # <<>> /\ Head(cc[g[t].project]) = t
  <2>1. t # s /\ t \in DOMAIN f /\ g[t] = f[t] /\ g[t].project \in Project
    BY <1>7 DEF Differ, Book, SessionRecord
  <2>2. ch[g[t].project] # <<>> /\ Head(ch[g[t].project]) = t
    BY <1>7, <2>1 DEF Chained
  <2>3. g[t].project # p
    BY <1>0, <2>1, <2>2
  <2> QED
    BY <1>3, <2>1, <2>2, <2>3
<1> QED
  BY <1>4, <1>6, <1>7 DEF Chained, cc, p

-----------------------------------------------------------------------------
(* One session takes a step. *)

\* The session s becomes r.
LEMMA Moves ==
  ASSUME Book(session), NEW s \in DOMAIN session, NEW r \in SessionRecord,
         session' = [session EXCEPT ![s] = r]
  PROVE  /\ Differ(session, session', s) /\ DOMAIN session' = DOMAIN session
         /\ session'[s] = r
<1>1. /\ DOMAIN session' = DOMAIN session /\ session'[s] = r
      /\ \A t \in DOMAIN session \ {s} : session'[t] = session[t]
      /\ session' \in [DOMAIN session -> SessionRecord]
  BY DEF Book
<1>2. Book(session')
  BY <1>1 DEF Book
<1> QED
  BY <1>1, <1>2 DEF Differ

\* What is left to show of a step of one session.
LEMMA StepKeeps ==
  ASSUME IInv, NEW s, Differ(session, session', s), UNCHANGED log,
         closed' \in BOOLEAN, closeResolved' \in BOOLEAN,
         Sound(s, session'[s], latest, noticed, revokedAt),
         Chained(polls', session'),
         Admitted(session', active', activeByProject', pending')
  PROVE  IInv'
<1>1. LogInv' /\ UNCHANGED <<latest, noticed, revokedAt>>
  BY DEF IInv, LogInv, log
<1>2. Book(session')
  BY DEF Differ
<1>3. \A t \in DOMAIN session' : Sound(t, session'[t], latest, noticed, revokedAt)
  BY DEF IInv, Differ
<1>4. \A t \in DOMAIN session' : Sound(t, session'[t], latest', noticed', revokedAt')
  BY <1>1, <1>3
<1> QED
  BY <1>1, <1>2, <1>4 DEF IInv

\* What is known of a session.
LEMMA Known ==
  ASSUME IInv, NEW s \in DOMAIN session
  PROVE  /\ session[s] \in SessionRecord /\ s \in Session
         /\ session[s].project \in Project
         /\ Told(session[s]) /\ Batched(session[s])
         /\ Logged(session[s], latest[session[s].project], noticed[session[s].project],
                   revokedAt[s])
         /\ latest[session[s].project] \in Sequence /\ noticed[session[s].project] \in Sequence
         /\ noticed[session[s].project] <= latest[session[s].project]
         /\ revokedAt[s] \in Sequence \cup {-1}
         /\ session[s].result # "none" =>
              /\ polls[session[s].project] # <<>>
              /\ Head(polls[session[s].project]) = s
<1>1. session[s] \in SessionRecord /\ s \in Session
  BY DEF IInv, Book
<1>2. session[s].project \in Project
  BY <1>1 DEF SessionRecord
<1>3. Sound(s, session[s], latest, noticed, revokedAt)
  BY DEF IInv
<1> QED
  BY <1>1, <1>2, <1>3 DEF IInv, LogInv, Sound, Chained

\* A session that has ended.
LEMMA EndedSound ==
  ASSUME IInv, NEW s \in DOMAIN session, session' = Ended(s)
  PROVE  /\ Differ(session, session', s) /\ DOMAIN session' = DOMAIN session
         /\ session'[s].pc = "done" /\ session'[s].result = "none"
         /\ session'[s].project = session[s].project
         /\ Sound(s, session'[s], latest, noticed, revokedAt)
<1> DEFINE o == session[s]
           r == [o EXCEPT !.pc = "done", !.open = FALSE, !.woken = FALSE, !.result = "none",
                          !.batch = {}, !.upTo = 0]
<1>0. /\ o \in SessionRecord /\ Told(o) /\ Batched(o)
      /\ Logged(o, latest[o.project], noticed[o.project], revokedAt[s])
  BY Known
<1> HIDE DEF o
<1>1. /\ r \in SessionRecord /\ r.pc = "done" /\ r.result = "none" /\ r.batch = {}
      /\ r.project = o.project /\ r.received = o.received /\ r.start = o.start
  <2>1. 0 \in Sequence /\ "done" \in SessionStep /\ "none" \in Result
    BY LimitsAssumption DEF Sequence, SessionStep, Result
  <2> QED
    BY <1>0, <2>1 DEF SessionRecord
<1> HIDE DEF r
<1>2. ~InFlight(r)
  BY <1>1 DEF InFlight
<1>3. Told(r) /\ Batched(r)
  BY <1>0, <1>1, <1>2 DEF Told, Batched
<1>4. Logged(r, latest[r.project], noticed[r.project], revokedAt[s])
  BY <1>0, <1>1, <1>2 DEF Logged
<1>5. session' = [session EXCEPT ![s] = r]
  BY DEF Ended, o, r
<1>6. Differ(session, session', s) /\ DOMAIN session' = DOMAIN session /\ session'[s] = r
  BY <1>1, <1>5, Moves DEF IInv
<1> QED
  BY <1>1, <1>3, <1>4, <1>6 DEF Sound, o

\* The end of a session that waits for no read.
LEMMA EndKeeps ==
  ASSUME IInv, NEW s \in DOMAIN session,
         session[s].pc \notin {"authorize", "poll", "done"}, End(s),
         UNCHANGED <<log, polls, closed>>
  PROVE  IInv'
<1>1. /\ Differ(session, session', s) /\ DOMAIN session' = DOMAIN session
      /\ session'[s].pc = "done" /\ session'[s].result = "none"
      /\ session'[s].project = session[s].project
      /\ Sound(s, session'[s], latest, noticed, revokedAt)
  BY EndedSound DEF End
<1>2. Chained(polls', session')
  <2>1. \A t \in DOMAIN session : /\ session'[t].project = session[t].project
                                  /\ session[t].pc \in {"authorize", "poll"} =>
                                       session'[t].pc \in {"authorize", "poll"}
    BY <1>1 DEF Differ
  <2>2. \A t \in DOMAIN session' : session'[t].result # "none" =>
           /\ t \in DOMAIN session
           /\ polls[session[t].project] # <<>> /\ Head(polls[session[t].project]) = t
    BY <1>1 DEF Differ, IInv, Chained
  <2>3. Chained(polls, session) /\ DOMAIN session \subseteq DOMAIN session'
    BY <1>1 DEF IInv
  <2>4. Chained(polls, session')
    BY <2>1, <2>2, <2>3, ChainStays
  <2> QED
    BY <2>4
<1>3. Admitted(session', active', activeByProject', pending')
  <2>1. /\ active' = active - 1
        /\ activeByProject' = [activeByProject EXCEPT ![session[s].project] = @ - 1]
        /\ pending' = pending
    BY DEF End, Release
  <2> QED
    BY <1>1, <2>1, AdmitEnd DEF IInv
<1>4. closed' \in BOOLEAN /\ closeResolved' \in BOOLEAN /\ UNCHANGED log
  BY DEF IInv, End, ResolveCloseIfDrained
<1> QED
  BY <1>1, <1>2, <1>3, <1>4, StepKeeps

\* A step within a connection, or within an authorization, that leaves the chain alone.
LEMMA GoesOn ==
  ASSUME IInv, NEW s \in DOMAIN session, NEW r \in SessionRecord,
         session' = [session EXCEPT ![s] = r],
         r.project = session[s].project,
         r.pc = "authorize" <=> session[s].pc = "authorize",
         r.pc = "done" <=> session[s].pc = "done",
         session[s].pc = "poll" => r.pc = "poll",
         r.result # "none" => /\ polls[r.project] # <<>> /\ Head(polls[r.project]) = s,
         Told(r), Batched(r),
         Logged(r, latest[r.project], noticed[r.project], revokedAt[s]),
         UNCHANGED <<log, polls, admission>>, closed' \in BOOLEAN
  PROVE  IInv'
<1>1. Differ(session, session', s) /\ DOMAIN session' = DOMAIN session /\ session'[s] = r
  BY Moves DEF IInv
<1>2. Chained(polls', session')
  <2>1. \A t \in DOMAIN session : /\ session'[t].project = session[t].project
                                  /\ session[t].pc \in {"authorize", "poll"} =>
                                       session'[t].pc \in {"authorize", "poll"}
    BY <1>1 DEF Differ
  <2>2. \A t \in DOMAIN session' : session'[t].result # "none" =>
           /\ t \in DOMAIN session
           /\ polls[session[t].project] # <<>> /\ Head(polls[session[t].project]) = t
    BY <1>1 DEF Differ, IInv, Chained
  <2>3. Chained(polls, session) /\ DOMAIN session \subseteq DOMAIN session'
    BY <1>1 DEF IInv
  <2>4. Chained(polls, session')
    BY <2>1, <2>2, <2>3, ChainStays
  <2> QED
    BY <2>4
<1>3. Admitted(session', active', activeByProject', pending')
  <2>1. \A t \in DOMAIN session :
          /\ session'[t].project = session[t].project
          /\ session'[t].pc = "authorize" <=> session[t].pc = "authorize"
          /\ session'[t].pc = "done" <=> session[t].pc = "done"
    BY <1>1 DEF Differ
  <2>2. Admitted(session', active, activeByProject, pending)
    BY <1>1, <2>1, AdmitSame DEF IInv
  <2> QED
    BY <2>2 DEF admission
<1>4. closed' \in BOOLEAN /\ closeResolved' \in BOOLEAN /\ UNCHANGED log
  BY DEF IInv, admission
<1>5. Sound(s, session'[s], latest, noticed, revokedAt)
  BY <1>1 DEF Sound
<1> QED
  BY <1>1, <1>2, <1>3, <1>4, <1>5, StepKeeps

\* A connection goes on with the result of its read.
LEMMA ReadSettled ==
  ASSUME IInv, NEW s \in DOMAIN session, NEW r \in SessionRecord, Settled(s, "poll"),
         session' = [session EXCEPT ![s] = r],
         r.project = session[s].project,
         r.pc \notin {"authorize", "done"}, r.result = "none",
         Told(r), Batched(r),
         Logged(r, latest[r.project], noticed[r.project], revokedAt[s]),
         UNCHANGED <<log, admission>>, closed' \in BOOLEAN
  PROVE  IInv'
<1>0. session[s].pc = "poll" /\ session[s].result # "none"
      /\ polls' = [polls EXCEPT ![session[s].project] = Tail(@)]
  BY DEF Settled, SessionsAt
<1>1. Differ(session, session', s) /\ DOMAIN session' = DOMAIN session /\ session'[s] = r
  BY Moves DEF IInv
<1>2. Chained(polls', session')
  BY <1>0, <1>1, ChainLeave DEF IInv
<1>3. Admitted(session', active', activeByProject', pending')
  <2>1. \A t \in DOMAIN session :
          /\ session'[t].project = session[t].project
          /\ session'[t].pc = "authorize" <=> session[t].pc = "authorize"
          /\ session'[t].pc = "done" <=> session[t].pc = "done"
    BY <1>0, <1>1 DEF Differ
  <2>2. Admitted(session', active, activeByProject, pending)
    BY <1>1, <2>1, AdmitSame DEF IInv
  <2> QED
    BY <2>2 DEF admission
<1>4. closed' \in BOOLEAN /\ closeResolved' \in BOOLEAN /\ UNCHANGED log
  BY DEF IInv, admission
<1>5. Sound(s, session'[s], latest, noticed, revokedAt)
  BY <1>1 DEF Sound
<1> QED
  BY <1>1, <1>2, <1>3, <1>4, <1>5, StepKeeps

\* A connection that has dropped what it read.
LEMMA Dropped ==
  ASSUME IInv, NEW s \in DOMAIN session, session[s].pc \notin {"authorize", "done"},
         NEW pc \in {"loop", "delay", "closing"}, NEW r,
         r = [session[s] EXCEPT !.pc = pc, !.result = "none", !.batch = {}]
  PROVE  /\ r \in SessionRecord /\ r.project = session[s].project
         /\ r.pc = pc /\ r.result = "none" /\ Told(r) /\ Batched(r)
         /\ Logged(r, latest[r.project], noticed[r.project], revokedAt[s])
<1> DEFINE o == session[s]
<1>0. /\ o \in SessionRecord /\ Told(o) /\ Batched(o)
      /\ Logged(o, latest[o.project], noticed[o.project], revokedAt[s])
      /\ o.pc \notin {"authorize", "done"}
      /\ r = [o EXCEPT !.pc = pc, !.result = "none", !.batch = {}]
  BY Known
<1> HIDE DEF o
<1>1. /\ r \in SessionRecord /\ r.pc = pc /\ r.result = "none" /\ r.batch = {}
      /\ r.project = o.project /\ r.received = o.received /\ r.start = o.start
      /\ r.cursor = o.cursor
  <2>1. pc \in SessionStep /\ "none" \in Result
    BY DEF SessionStep, Result
  <2> QED
    BY <1>0, <2>1 DEF SessionRecord
<1>2. ~InFlight(r)
  BY <1>1 DEF InFlight
<1>3. Told(r) /\ Batched(r)
  BY <1>0, <1>1, <1>2 DEF Told, Batched
<1>4. Logged(r, latest[r.project], noticed[r.project], revokedAt[s])
  BY <1>0, <1>1, <1>2 DEF Logged
<1> QED
  BY <1>1, <1>3, <1>4 DEF o

\* getProjectEvents reads all that follows the cursor, or refuses.
LEMMA ReadKeeps ==
  ASSUME IInv, NEW s \in DOMAIN session, NEW result \in Result \ {"none"}, ReadAs(s, result),
         result = "events" => Visible(s) /\ ~NeedsSnapshot(session[s].project, session[s].cursor)
  PROVE  IInv'
<1> DEFINE o == session[s]
           p == o.project
           events == result = "events"
           r == [o EXCEPT !.result = result,
                          !.upTo = IF events THEN latest[p] ELSE 0,
                          !.batch = IF events THEN {n \in retained[p] : n > o.cursor} ELSE {}]
<1>0. /\ o \in SessionRecord /\ p \in Project /\ Told(o) /\ Batched(o)
      /\ Logged(o, latest[p], noticed[p], revokedAt[s])
      /\ latest[p] \in Sequence /\ noticed[p] \in Sequence /\ noticed[p] <= latest[p]
      /\ retained[p] \in SUBSET (1 .. MaxSequence) /\ \A n \in retained[p] : n <= latest[p]
      /\ MaxSequence \in Nat /\ 0 \in Sequence
  BY Known, LimitsAssumption DEF IInv, LogInv, Sequence
<1>1. polls[p] # <<>> /\ Head(polls[p]) = s /\ o.result = "none"
      /\ session' = [session EXCEPT ![s] = r]
      /\ UNCHANGED <<log, polls, admission>> /\ closed' \in BOOLEAN
  BY DEF ReadAs, IInv
<1>2. o.pc \in {"authorize", "poll"}
  <2>1. polls[p] \in Seq(Session) /\ polls[p] # <<>>
    BY <1>0, <1>1 DEF IInv, Chained
  <2>2. 1 \in DOMAIN polls[p] /\ polls[p][1] = s
    BY <1>1, <2>1, EmptySeq, LenProperties
  <2> QED
    BY <1>0, <2>2 DEF IInv, Chained
<1>3. /\ r.pc = o.pc /\ r.result = result /\ r.project = p /\ r.received = o.received
      /\ r.start = o.start /\ r.cursor = o.cursor /\ r.woken = o.woken
      /\ r.upTo = (IF events THEN latest[p] ELSE 0)
      /\ r.batch = (IF events THEN {n \in retained[p] : n > o.cursor} ELSE {})
  BY <1>0 DEF SessionRecord
<1>4. r \in SessionRecord
  <2>1. (IF events THEN latest[p] ELSE 0) \in Sequence
    BY <1>0
  <2>2. (IF events THEN {n \in retained[p] : n > o.cursor} ELSE {}) \in SUBSET Sequence
    BY <1>0 DEF Sequence
  <2> HIDE DEF p, events
  <2>3. result \in Result
    OBVIOUS
  <2> QED
    BY <1>0, <2>1, <2>2, <2>3 DEF SessionRecord
<1>5. o.cursor \in Nat /\ o.cursor \in Sequence
  BY <1>0 DEF SessionRecord, Sequence
<1>6. events => r.batch = o.cursor + 1 .. latest[p] /\ o.cursor <= latest[p]
  <2> SUFFICES ASSUME events PROVE r.batch = o.cursor + 1 .. latest[p] /\ o.cursor <= latest[p]
    OBVIOUS
  <2>1. ~(o.cursor > latest[p]) /\ o.cursor + 1 .. latest[p] \subseteq retained[p]
    BY DEF NeedsSnapshot
  <2>2. latest[p] \in Nat /\ \A n \in retained[p] : n \in Int
    BY <1>0 DEF Sequence
  <2> HIDE DEF p, o, r
  <2> QED
    BY <1>0, <1>3, <1>5, <2>1, <2>2
<1> HIDE DEF r
<1>7. InFlight(r) <=> events
  BY <1>2, <1>3 DEF InFlight
<1>8. Told(r)
  BY <1>0, <1>3 DEF Told
<1>9. Batched(r)
  BY <1>2, <1>3, <1>6, <1>7 DEF Batched
<1>10. Logged(r, latest[p], noticed[p], revokedAt[s])
  <2>1. events => revokedAt[s] = -1
    BY DEF Visible
  <2>2. latest[p] <= latest[p]
    BY <1>0 DEF Sequence
  <2> HIDE DEF p, o
  <2> QED
    BY <1>0, <1>2, <1>3, <1>7, <2>1, <2>2 DEF Logged
<1> QED
  <2>1. /\ r.project = session[s].project
        /\ r.pc = "authorize" <=> session[s].pc = "authorize"
        /\ r.pc = "done" <=> session[s].pc = "done"
        /\ session[s].pc = "poll" => r.pc = "poll"
        /\ r.result # "none" => polls[r.project] # <<>> /\ Head(polls[r.project]) = s
        /\ Logged(r, latest[r.project], noticed[r.project], revokedAt[s])
    BY <1>1, <1>3, <1>10
  <2> QED
    BY <1>1, <1>4, <1>8, <1>9, <2>1, GoesOn

\* A connection ends on the result of its read.
LEMMA ReadEnds ==
  ASSUME IInv, NEW s \in DOMAIN session, Settled(s, "poll"), End(s), UNCHANGED <<log, closed>>
  PROVE  IInv'
<1>0. session[s].pc = "poll" /\ session[s].result # "none"
      /\ polls' = [polls EXCEPT ![session[s].project] = Tail(@)]
  BY DEF Settled, SessionsAt
<1>1. /\ Differ(session, session', s) /\ DOMAIN session' = DOMAIN session
      /\ session'[s].pc = "done" /\ session'[s].result = "none"
      /\ session'[s].project = session[s].project
      /\ Sound(s, session'[s], latest, noticed, revokedAt)
  BY EndedSound DEF End
<1>2. Chained(polls', session')
  BY <1>0, <1>1, ChainLeave DEF IInv
<1>3. Admitted(session', active', activeByProject', pending')
  <2>1. /\ active' = active - 1
        /\ activeByProject' = [activeByProject EXCEPT ![session[s].project] = @ - 1]
        /\ pending' = pending
    BY DEF End, Release
  <2> QED
    BY <1>0, <1>1, <2>1, AdmitEnd DEF IInv
<1>4. closed' \in BOOLEAN /\ closeResolved' \in BOOLEAN /\ UNCHANGED log
  BY DEF IInv, End, ResolveCloseIfDrained
<1> QED
  BY <1>1, <1>2, <1>3, <1>4, StepKeeps

\* The session sleeps after a read only if nothing was committed since.
LEMMA PolledKeeps ==
  ASSUME IInv, NEW s \in Session, Polled(s)
  PROVE  IInv'
<1> DEFINE o == session[s]
<1>0. /\ s \in DOMAIN session /\ o.pc = "poll" /\ o.result # "none" /\ Settled(s, "poll")
      /\ UNCHANGED log /\ closed' \in BOOLEAN /\ UNCHANGED closed
  BY DEF Polled, Settled, SessionsAt, IInv
<1>1. /\ o \in SessionRecord /\ o.project \in Project /\ Told(o) /\ Batched(o)
      /\ Logged(o, latest[o.project], noticed[o.project], revokedAt[s])
  BY <1>0, Known
<1>2. ASSUME NEW pc \in {"delay", "closing"}, MoveTo(s, pc) PROVE IInv'
  <2> DEFINE r == [session[s] EXCEPT !.pc = pc, !.result = "none", !.batch = {}]
  <2>1. session' = [session EXCEPT ![s] = r] /\ UNCHANGED admission
    BY <1>2 DEF MoveTo
  <2>2. /\ r \in SessionRecord /\ r.project = session[s].project
        /\ r.pc = pc /\ r.result = "none" /\ Told(r) /\ Batched(r)
        /\ Logged(r, latest[r.project], noticed[r.project], revokedAt[s])
    <3>1. pc \in {"loop", "delay", "closing"}
      BY <1>2
    <3> HIDE DEF r
    <3> QED
      BY <1>0, <3>1, Dropped DEF r
  <2> HIDE DEF r
  <2> QED
    BY <1>0, <2>1, <2>2, ReadSettled
<1>3. ASSUME o.result = "events", o.batch = {},
             session' = [session EXCEPT ![s] = [@ EXCEPT
               !.pc = AfterBatch(s), !.result = "none", !.cursor = session[s].upTo,
               !.upTo = 0]],
             UNCHANGED admission
      PROVE  IInv'
  <2> DEFINE r == [o EXCEPT !.pc = AfterBatch(s), !.result = "none", !.cursor = o.upTo,
                            !.upTo = 0]
  <2>1. session' = [session EXCEPT ![s] = r]
    BY <1>3
  <2>2. AfterBatch(s) \in {"loop", "wait"} /\ (AfterBatch(s) = "wait" => ~o.woken)
    BY <1>1 DEF AfterBatch, SessionRecord
  <2>3. o.cursor = o.upTo /\ o.cursor \in Nat
    <3>1. o.batch = o.cursor + 1 .. o.upTo /\ o.cursor <= o.upTo
      BY <1>1, <1>3 DEF Batched, InFlight
    <3>2. o.cursor \in Nat /\ o.upTo \in Nat
      BY <1>1 DEF SessionRecord, Sequence
    <3> HIDE DEF o
    <3>a. o.cursor < o.upTo => o.cursor + 1 \in o.cursor + 1 .. o.upTo
      BY <3>2
    <3>3. ~(o.cursor < o.upTo)
      BY <1>3, <3>1, <3>a
    <3> QED
      BY <3>1, <3>2, <3>3
  <2> HIDE DEF o
  <2>4. /\ r \in SessionRecord /\ r.pc = AfterBatch(s) /\ r.result = "none" /\ r.batch = {}
        /\ r.project = o.project /\ r.received = o.received /\ r.start = o.start
        /\ r.cursor = o.cursor
    <3>1. AfterBatch(s) \in SessionStep /\ "none" \in Result /\ 0 \in Sequence
      BY <2>2, LimitsAssumption DEF SessionStep, Result, Sequence
    <3> QED
      BY <1>1, <1>3, <2>3, <3>1 DEF SessionRecord
  <2> HIDE DEF r
  <2>5. ~InFlight(r)
    BY <2>2, <2>4 DEF InFlight
  <2>6. Told(r) /\ Batched(r)
    BY <1>0, <1>1, <2>2, <2>4, <2>5 DEF Told, Batched
  <2>7. Logged(r, latest[r.project], noticed[r.project], revokedAt[s])
    BY <1>0, <1>1, <1>3, <2>2, <2>3, <2>4, <2>5 DEF Logged, InFlight
  <2>8. r.pc \notin {"authorize", "done"} /\ r.project = session[s].project
    BY <2>2, <2>4 DEF o
  <2> QED
    BY <1>0, <1>3, <2>1, <2>4, <2>6, <2>7, <2>8, ReadSettled
<1>4. ASSUME o.result = "events",
             session' = [session EXCEPT ![s] = [@ EXCEPT !.pc = "send", !.result = "none"]],
             UNCHANGED admission
      PROVE  IInv'
  <2> DEFINE r == [o EXCEPT !.pc = "send", !.result = "none"]
  <2>1. session' = [session EXCEPT ![s] = r]
    BY <1>4
  <2> HIDE DEF o
  <2>4. /\ r \in SessionRecord /\ r.pc = "send" /\ r.result = "none" /\ r.batch = o.batch
        /\ r.project = o.project /\ r.received = o.received /\ r.start = o.start
        /\ r.cursor = o.cursor /\ r.upTo = o.upTo /\ r.woken = o.woken
    <3>1. "send" \in SessionStep /\ "none" \in Result
      BY DEF SessionStep, Result
    <3> QED
      BY <1>1, <3>1 DEF SessionRecord
  <2> HIDE DEF r
  <2>5. InFlight(r) /\ InFlight(o)
    BY <1>4, <2>4 DEF InFlight
  <2>6. Told(r) /\ Batched(r)
    BY <1>0, <1>1, <2>4, <2>5 DEF Told, Batched
  <2>7. Logged(r, latest[r.project], noticed[r.project], revokedAt[s])
    BY <1>0, <1>1, <2>4, <2>5 DEF Logged
  <2>8. r.pc \notin {"authorize", "done"} /\ r.project = session[s].project
    BY <2>4 DEF o
  <2> QED
    BY <1>0, <1>4, <2>1, <2>4, <2>6, <2>7, <2>8, ReadSettled
<1>5. ASSUME End(s) PROVE IInv'
  BY <1>0, <1>5, ReadEnds
<1> QED
  BY <1>2, <1>3, <1>4, <1>5 DEF Polled

\* The next event is the one after the cursor; a slow or lost client ends the session.
LEMMA SendKeeps ==
  ASSUME IInv, NEW s \in Session, Send(s)
  PROVE  IInv'
<1> DEFINE o == session[s]
<1>0. /\ s \in DOMAIN session /\ o.pc = "send"
      /\ UNCHANGED <<log, polls, closed>> /\ closed' \in BOOLEAN
  BY DEF Send, SessionsAt, IInv
<1>1. /\ o \in SessionRecord /\ o.project \in Project /\ Told(o) /\ Batched(o)
      /\ Logged(o, latest[o.project], noticed[o.project], revokedAt[s])
  BY <1>0, Known
<1>2. ASSUME NEW n \in o.batch, \A m \in o.batch : n <= m,
             session' = [session EXCEPT ![s] = [@ EXCEPT
                !.received = Append(session[s].received, n), !.cursor = Advance(s, n),
                !.batch = session[s].batch \ {n},
                !.upTo = IF session[s].batch = {n} THEN 0 ELSE session[s].upTo,
                !.pc = IF session[s].batch = {n} THEN AfterBatch(s) ELSE "send"]],
             UNCHANGED admission
      PROVE  IInv'
  <2> DEFINE last == o.batch = {n}
             r == [session[s] EXCEPT
                !.received = Append(session[s].received, n), !.cursor = Advance(s, n),
                !.batch = session[s].batch \ {n},
                !.upTo = IF session[s].batch = {n} THEN 0 ELSE session[s].upTo,
                !.pc = IF session[s].batch = {n} THEN AfterBatch(s) ELSE "send"]
  <2>1. session' = [session EXCEPT ![s] = r]
    BY <1>2
  <2>r. r = [o EXCEPT !.received = Append(o.received, n), !.cursor = Advance(s, n),
                !.batch = o.batch \ {n}, !.upTo = IF last THEN 0 ELSE o.upTo,
                !.pc = IF last THEN AfterBatch(s) ELSE "send"]
    OBVIOUS
  <2>2. AfterBatch(s) \in {"loop", "wait"} /\ (AfterBatch(s) = "wait" => ~o.woken)
    BY <1>1 DEF AfterBatch, SessionRecord
  <2>3. /\ o.batch = o.cursor + 1 .. o.upTo /\ o.cursor \in Nat /\ o.upTo \in Nat
        /\ n \in Sequence /\ n \in Nat /\ o.result = "none" /\ o.received \in Seq(Sequence)
        /\ o.start \in Nat /\ InFlight(o)
    BY <1>0, <1>1, <1>2 DEF Batched, InFlight, SessionRecord, Sequence
  <2>a. Advance(s, n) = IF last THEN o.upTo ELSE n
    BY DEF Advance
  <2> HIDE DEF o, r
  <2>4. n = o.cursor + 1 /\ n <= o.upTo
    <3>1. o.cursor + 1 <= n /\ n <= o.upTo
      BY <2>3
    <3>2. o.cursor + 1 \in o.batch
      BY <2>3, <3>1
    <3>3. n <= o.cursor + 1
      BY <1>2, <3>2
    <3> QED
      BY <2>3, <3>1, <3>3
  <2>5. last => n = o.upTo
    <3>1. last => o.upTo \in o.batch
      BY <2>3, <2>4
    <3> QED
      BY <3>1
  <2>6. o.batch \ {n} = n + 1 .. o.upTo
    BY <2>3, <2>4
  <2>7. Advance(s, n) = n
    BY <2>5, <2>a
  <2>8. /\ Append(o.received, n) \in Seq(Sequence)
        /\ Len(Append(o.received, n)) = Len(o.received) + 1
        /\ Len(o.received) \in Nat /\ DOMAIN o.received = 1 .. Len(o.received)
        /\ DOMAIN Append(o.received, n) = 1 .. Len(o.received) + 1
        /\ \A i \in 1 .. Len(o.received) : Append(o.received, n)[i] = o.received[i]
        /\ Append(o.received, n)[Len(o.received) + 1] = n
    BY <2>3, AppendProperties, LenProperties
  <2>9. /\ r \in SessionRecord /\ r.pc = (IF last THEN AfterBatch(s) ELSE "send")
        /\ r.result = "none" /\ r.batch = o.batch \ {n}
        /\ r.project = o.project /\ r.received = Append(o.received, n) /\ r.start = o.start
        /\ r.cursor = n /\ r.upTo = (IF last THEN 0 ELSE o.upTo) /\ r.woken = o.woken
    <3>1. (IF last THEN AfterBatch(s) ELSE "send") \in SessionStep
          /\ (IF last THEN 0 ELSE o.upTo) \in Sequence
          /\ o.batch \ {n} \in SUBSET Sequence
      BY <1>1, <2>2, LimitsAssumption DEF SessionStep, Sequence, SessionRecord
    <3> HIDE DEF last
    <3> QED
      BY <1>1, <2>3, <2>7, <2>8, <2>r, <3>1 DEF SessionRecord
  <2>10. /\ InFlight(r) <=> ~last
         /\ last => o.batch \ {n} = {}
         /\ r.pc \in {"loop", "wait", "send"} /\ (r.pc = "wait" => last /\ ~o.woken)
    BY <2>2, <2>9 DEF InFlight
  <2> HIDE DEF last
  <2>b. n = o.start + (Len(o.received) + 1)
    BY <1>0, <1>1, <2>3, <2>4, <2>8 DEF Told
  <2>11. Told(r)
    <3>1. \A i \in 1 .. Len(o.received) : o.received[i] = o.start + i
      BY <1>1, <2>8 DEF Told
    <3>2. ASSUME NEW i \in DOMAIN r.received PROVE r.received[i] = r.start + i
      <4>1. i \in 1 .. Len(o.received) \/ i = Len(o.received) + 1
        BY <2>8, <2>9
      <4> QED
        BY <2>8, <2>9, <2>b, <3>1, <4>1
    <3> QED
      BY <2>8, <2>9, <2>10, <2>b, <3>2 DEF Told
  <2>12. Batched(r)
    <3>1. ~last => r.batch = r.cursor + 1 .. r.upTo /\ r.cursor <= r.upTo
      BY <2>4, <2>6, <2>9
    <3> QED
      BY <2>9, <2>10, <3>1 DEF Batched
  <2>13. Logged(r, latest[r.project], noticed[r.project], revokedAt[s])
    <3> DEFINE top == latest[o.project]
               seen == noticed[o.project]
               left == revokedAt[s]
    <3>0. top \in Nat /\ seen \in Nat /\ left \in Int
      BY <1>0, Known DEF o, Sequence
    <3>1. /\ \A i \in DOMAIN o.received : o.received[i] <= top
          /\ o.upTo <= top
          /\ left # -1 => o.upTo <= left /\ \A i \in DOMAIN o.received : o.received[i] <= left
          /\ ~o.woken => seen <= o.upTo
      BY <1>0, <1>1, <2>3 DEF Logged
    <3> HIDE DEF top, seen, left
    <3>2. n <= top /\ (left # -1 => n <= left)
      BY <2>3, <2>4, <3>0, <3>1
    <3>3. \A i \in DOMAIN r.received :
            \/ r.received[i] = n
            \/ i \in DOMAIN o.received /\ r.received[i] = o.received[i]
      <4> TAKE i \in DOMAIN r.received
      <4>1. i \in 1 .. Len(o.received) \/ i = Len(o.received) + 1
        BY <2>8, <2>9
      <4> QED
        BY <2>8, <2>9, <4>1
    <3>4. /\ \A i \in DOMAIN r.received : r.received[i] <= top
          /\ left # -1 => \A i \in DOMAIN r.received : r.received[i] <= left
      BY <3>1, <3>2, <3>3
    <3>5. r.pc = "wait" => seen <= r.cursor
      BY <2>5, <2>9, <2>10, <3>1
    <3>6. InFlight(r) => r.upTo = o.upTo
      BY <2>9, <2>10
    <3> QED
      BY <2>9, <3>1, <3>4, <3>5, <3>6 DEF Logged, top, seen, left
  <2>14. /\ r.project = session[s].project
         /\ r.pc = "authorize" <=> session[s].pc = "authorize"
         /\ r.pc = "done" <=> session[s].pc = "done"
         /\ session[s].pc = "poll" => r.pc = "poll"
         /\ UNCHANGED <<log, polls, admission>>
    BY <1>0, <1>2, <2>9, <2>10 DEF o
  <2> QED
    BY <1>0, <2>1, <2>9, <2>11, <2>12, <2>13, <2>14, GoesOn
<1>3. ASSUME End(s) PROVE IInv'
  BY <1>0, <1>3, EndKeeps
<1> QED
  BY <1>2, <1>3 DEF Send

\* The top of the loop forgets the wake that brought the session there.
LEMMA LoopKeeps ==
  ASSUME IInv, NEW s \in Session, Loop(s)
  PROVE  IInv'
<1> DEFINE o == session[s]
           r == [session[s] EXCEPT !.pc = "poll", !.woken = FALSE]
<1>0. /\ s \in DOMAIN session /\ o.pc = "loop"
      /\ UNCHANGED log /\ UNCHANGED closed /\ closed' \in BOOLEAN
  BY DEF Loop, SessionsAt, IInv
<1>1. /\ o \in SessionRecord /\ o.project \in Project /\ Told(o) /\ Batched(o)
      /\ Logged(o, latest[o.project], noticed[o.project], revokedAt[s])
  BY <1>0, Known
<1>2. ASSUME End(s), UNCHANGED polls PROVE IInv'
  BY <1>0, <1>2, EndKeeps
<1>3. ASSUME session' = [session EXCEPT ![s] = r], Enqueue(s, session[s].project),
             UNCHANGED admission
      PROVE  IInv'
  <2>1. /\ r \in SessionRecord /\ r.pc = "poll" /\ r.result = o.result /\ r.batch = o.batch
        /\ r.project = o.project /\ r.received = o.received /\ r.start = o.start
        /\ r.cursor = o.cursor /\ r.upTo = o.upTo
    <3>1. "poll" \in SessionStep
      BY DEF SessionStep
    <3> QED
      BY <1>1, <3>1 DEF SessionRecord
  <2> HIDE DEF r
  <2>2. Differ(session, session', s) /\ DOMAIN session' = DOMAIN session /\ session'[s] = r
    BY <1>0, <1>3, <2>1, Moves DEF IInv
  <2> HIDE DEF o
  <2>3. o.result = "none" /\ ~InFlight(o) /\ ~InFlight(r)
    BY <1>0, <1>1, <2>1 DEF Batched, InFlight
  <2>4. Told(r) /\ Batched(r)
    BY <1>0, <1>1, <2>1, <2>3 DEF Told, Batched
  <2>5. Logged(r, latest[r.project], noticed[r.project], revokedAt[s])
    BY <1>1, <2>1, <2>3 DEF Logged
  <2>6. Chained(polls', session')
    <3>1. polls' = [polls EXCEPT ![session'[s].project] = Append(@, s)]
      BY <1>3, <2>1, <2>2 DEF Enqueue, o
    <3>2. s \in DOMAIN session => /\ session[s].pc \notin {"authorize", "poll"}
                                  /\ session'[s].project = session[s].project
      BY <1>0, <2>1, <2>2 DEF o
    <3>3. session'[s].pc \in {"authorize", "poll"} /\ session'[s].result = "none"
      BY <2>1, <2>2, <2>3
    <3> QED
      BY <2>2, <3>1, <3>2, <3>3, ChainJoin DEF IInv
  <2>7. Admitted(session', active', activeByProject', pending')
    <3>1. \A t \in DOMAIN session :
            /\ session'[t].project = session[t].project
            /\ session'[t].pc = "authorize" <=> session[t].pc = "authorize"
            /\ session'[t].pc = "done" <=> session[t].pc = "done"
      BY <1>0, <2>1, <2>2 DEF Differ, o
    <3>2. Admitted(session', active, activeByProject, pending)
      BY <2>2, <3>1, AdmitSame DEF IInv
    <3> QED
      BY <1>3, <3>2 DEF admission
  <2>8. closeResolved' \in BOOLEAN /\ Sound(s, session'[s], latest, noticed, revokedAt)
    BY <1>3, <2>2, <2>4, <2>5 DEF admission, IInv, Sound
  <2> QED
    BY <1>0, <2>2, <2>6, <2>7, <2>8, StepKeeps
<1> QED
  BY <1>2, <1>3 DEF Loop

\* A wait or a delay that is over, and a socket that closes.
LEMMA RestKeeps ==
  ASSUME IInv, NEW s \in Session, DelayEnds(s) \/ DurablePoll(s) \/ SocketClosed(s)
  PROVE  IInv'
<1>0. /\ s \in DOMAIN session /\ session[s].pc \in {"wait", "delay", "closing"}
      /\ UNCHANGED <<log, polls, closed>> /\ closed' \in BOOLEAN
  BY DEF DelayEnds, DurablePoll, SocketClosed, SessionsAt, IInv
<1>1. ASSUME MoveTo(s, "loop") PROVE IInv'
  <2> DEFINE r == [session[s] EXCEPT !.pc = "loop", !.result = "none", !.batch = {}]
  <2>1. session' = [session EXCEPT ![s] = r] /\ UNCHANGED admission
    BY <1>1 DEF MoveTo
  <2>2. /\ r \in SessionRecord /\ r.project = session[s].project
        /\ r.pc = "loop" /\ r.result = "none" /\ Told(r) /\ Batched(r)
        /\ Logged(r, latest[r.project], noticed[r.project], revokedAt[s])
    <3> HIDE DEF r
    <3> QED
      BY <1>0, Dropped DEF r
  <2> HIDE DEF r
  <2>3. /\ r.pc = "authorize" <=> session[s].pc = "authorize"
        /\ r.pc = "done" <=> session[s].pc = "done"
        /\ session[s].pc = "poll" => r.pc = "poll"
        /\ UNCHANGED <<log, polls, admission>>
    BY <1>0, <2>1, <2>2
  <2> QED
    BY <1>0, <2>1, <2>2, <2>3, GoesOn
<1>2. ASSUME End(s) PROVE IInv'
  BY <1>0, <1>2, EndKeeps
<1> QED
  BY <1>1, <1>2 DEF DelayEnds, DurablePoll, SocketClosed

\* An aborted controller wakes a wait and changes nothing else.
LEMMA Interrupted ==
  ASSUME NEW o \in SessionRecord, Told(o), Batched(o), NEW top, NEW seen, NEW left,
         Logged(o, top, seen, left)
  PROVE  /\ Interrupt(o) \in SessionRecord /\ Interrupt(o).project = o.project
         /\ Interrupt(o).result = o.result
         /\ Interrupt(o).pc = (IF o.pc = "wait" THEN "loop" ELSE o.pc)
         /\ Told(Interrupt(o)) /\ Batched(Interrupt(o)) /\ Logged(Interrupt(o), top, seen, left)
<1> DEFINE r == Interrupt(o)
<1>1. /\ r \in SessionRecord /\ r.pc = (IF o.pc = "wait" THEN "loop" ELSE o.pc)
      /\ r.result = o.result /\ r.batch = o.batch
      /\ r.project = o.project /\ r.received = o.received /\ r.start = o.start
      /\ r.cursor = o.cursor /\ r.upTo = o.upTo /\ r.woken = o.woken
  <2>1. (IF o.pc = "wait" THEN "loop" ELSE o.pc) \in SessionStep
    BY DEF SessionStep, SessionRecord
  <2> QED
    BY <2>1 DEF Interrupt, SessionRecord
<1> HIDE DEF r
<1>2. InFlight(r) <=> InFlight(o)
  BY <1>1 DEF InFlight
<1>3. Told(r) /\ Batched(r)
  BY <1>1, <1>2 DEF Told, Batched
<1>4. Logged(r, top, seen, left)
  BY <1>1, <1>2 DEF Logged
<1> QED
  BY <1>1, <1>3, <1>4 DEF r

\* The client goes away.
LEMMA LostKeeps ==
  ASSUME IInv, NEW s \in Session, SocketLost(s)
  PROVE  IInv'
<1> DEFINE o == session[s]
           r == Interrupt(session[s])
<1>0. /\ s \in DOMAIN session /\ session' = [session EXCEPT ![s] = r]
      /\ UNCHANGED <<log, polls, admission>> /\ closed' \in BOOLEAN
  BY DEF SocketLost, IInv
<1>1. /\ r \in SessionRecord /\ r.project = o.project /\ r.result = o.result
      /\ r.pc = (IF o.pc = "wait" THEN "loop" ELSE o.pc)
      /\ Told(r) /\ Batched(r)
      /\ Logged(r, latest[r.project], noticed[r.project], revokedAt[s])
  <2>1. /\ o \in SessionRecord /\ Told(o) /\ Batched(o)
        /\ Logged(o, latest[o.project], noticed[o.project], revokedAt[s])
    BY <1>0, Known
  <2> HIDE DEF o
  <2>2. r = Interrupt(o)
    BY DEF o
  <2> HIDE DEF r
  <2> QED
    BY <2>1, <2>2, Interrupted
<1>2. r.result # "none" => polls[r.project] # <<>> /\ Head(polls[r.project]) = s
  BY <1>0, <1>1, Known
<1> HIDE DEF r
<1> QED
  BY <1>0, <1>1, <1>2, GoesOn

\* A pending authorization becomes a connection or is given back.
LEMMA AuthorizedKeeps ==
  ASSUME IInv, NEW s \in Session, Authorized(s)
  PROVE  IInv'
<1> DEFINE o == session[s]
           r == [session[s] EXCEPT !.pc = "loop", !.result = "none", !.batch = {}, !.upTo = 0]
<1>0. /\ s \in DOMAIN session /\ o.pc = "authorize" /\ o.result # "none"
      /\ polls' = [polls EXCEPT ![session[s].project] = Tail(@)]
      /\ UNCHANGED <<log, closed>> /\ closed' \in BOOLEAN /\ closeResolved' \in BOOLEAN
      /\ pending' = pending - 1
  BY DEF Authorized, Settled, SessionsAt, IInv, ReleasePending, ResolveCloseIfDrained
<1>1. /\ o \in SessionRecord /\ o.project \in Project /\ Told(o) /\ Batched(o)
      /\ Logged(o, latest[o.project], noticed[o.project], revokedAt[s])
  BY <1>0, Known
<1>2. ASSUME session' = Ended(s), UNCHANGED <<active, activeByProject>> PROVE IInv'
  <2>1. /\ Differ(session, session', s) /\ DOMAIN session' = DOMAIN session
        /\ session'[s].pc = "done" /\ session'[s].result = "none"
        /\ session'[s].project = session[s].project
        /\ Sound(s, session'[s], latest, noticed, revokedAt)
    BY <1>0, <1>2, EndedSound
  <2>2. Chained(polls', session')
    BY <1>0, <2>1, ChainLeave DEF IInv
  <2>3. Admitted(session', active', activeByProject', pending')
    <3>1. Admitted(session', active, activeByProject, pending - 1)
      BY <1>0, <2>1, AdmitRefuse DEF IInv
    <3> QED
      BY <1>0, <1>2, <3>1
  <2> QED
    BY <1>0, <2>1, <2>2, <2>3, StepKeeps
<1>3. ASSUME session' = [session EXCEPT ![s] = r], Acquire(o.project) PROVE IInv'
  <2>1. /\ r \in SessionRecord /\ r.pc = "loop" /\ r.result = "none" /\ r.batch = {}
        /\ r.project = o.project /\ r.received = o.received /\ r.start = o.start
        /\ r.cursor = o.cursor
    <3>1. "loop" \in SessionStep /\ "none" \in Result /\ 0 \in Sequence
      BY LimitsAssumption DEF SessionStep, Result, Sequence
    <3> HIDE DEF o
    <3>2. r = [o EXCEPT !.pc = "loop", !.result = "none", !.batch = {}, !.upTo = 0]
      BY DEF o
    <3> QED
      BY <1>1, <3>1, <3>2 DEF SessionRecord
  <2> HIDE DEF r
  <2>2. Differ(session, session', s) /\ DOMAIN session' = DOMAIN session /\ session'[s] = r
    BY <1>0, <1>3, <2>1, Moves DEF IInv
  <2>3. ~InFlight(r)
    BY <2>1 DEF InFlight
  <2>4. Told(r) /\ Batched(r)
    <3>1. o.received = <<>> /\ o.cursor = o.start /\ o.start \in Nat
      BY <1>0, <1>1 DEF Told, SessionRecord, Sequence
    <3>2. r.cursor = r.start + Len(r.received)
      BY <2>1, <3>1
    <3> HIDE DEF o
    <3> QED
      BY <1>1, <2>1, <2>3, <3>2 DEF Told, Batched
  <2>5. Logged(r, latest[r.project], noticed[r.project], revokedAt[s])
    <3> HIDE DEF o
    <3> QED
      BY <1>1, <2>1, <2>3 DEF Logged
  <2>6. Chained(polls', session')
    <3>1. session[s].result # "none" /\ session'[s].result = "none"
          /\ session'[s].project = session[s].project
      BY <1>0, <2>1, <2>2
    <3> QED
      BY <1>0, <2>2, <3>1, ChainLeave DEF IInv
  <2>7. Admitted(session', active', activeByProject', pending')
    <3>1. /\ session[s].pc = "authorize" /\ session'[s].pc = "loop"
          /\ session'[s].project = session[s].project
      BY <1>0, <2>1, <2>2
    <3>2. Admitted(session', active + 1,
                   [activeByProject EXCEPT ![session[s].project] = @ + 1], pending - 1)
      BY <1>0, <2>2, <3>1, AdmitPromote DEF IInv
    <3> QED
      BY <1>0, <1>3, <3>2 DEF Acquire
  <2>8. Sound(s, session'[s], latest, noticed, revokedAt)
    BY <2>2, <2>4, <2>5 DEF Sound
  <2> QED
    BY <1>0, <2>2, <2>6, <2>7, <2>8, StepKeeps
<1> QED
  BY <1>2, <1>3 DEF Authorized

\* A new session takes a pending place and waits for its read, or is rejected.
LEMMA UpgradeKeeps ==
  ASSUME IInv, NEW s \in Session, NEW p \in Project, NEW after \in Sequence,
         Upgrade(s, p, after)
  PROVE  IInv'
<1> DEFINE R(pc) == [pc |-> pc, project |-> p, start |-> after, cursor |-> after,
                     open |-> pc # "done", woken |-> FALSE, result |-> "none", batch |-> {},
                     upTo |-> 0, received |-> <<>>]
           Starts(pc) == session' = [t \in DOMAIN session \cup {s} |->
                           IF t \in DOMAIN session THEN session[t] ELSE R(pc)]
<1>0. /\ s \notin DOMAIN session
      /\ UNCHANGED <<log, closed>> /\ closed' \in BOOLEAN
  BY DEF Upgrade, IInv
<1>1. ASSUME NEW pc \in {"authorize", "done"}, Starts(pc)
      PROVE  /\ Differ(session, session', s) /\ session'[s].pc = pc
             /\ session'[s].result = "none" /\ session'[s].project = p
             /\ Sound(s, session'[s], latest, noticed, revokedAt)
  <2> DEFINE r == R(pc)
  <2>1. /\ r \in SessionRecord /\ r.pc = pc /\ r.result = "none" /\ r.batch = {}
        /\ r.project = p /\ r.received = <<>> /\ r.start = after /\ r.cursor = after
    <3>1. /\ pc \in SessionStep /\ "none" \in Result /\ 0 \in Sequence /\ <<>> \in Seq(Sequence)
          /\ {} \in SUBSET Sequence /\ (pc # "done") \in BOOLEAN
      BY LimitsAssumption DEF SessionStep, Result, Sequence
    <3> QED
      BY <3>1 DEF SessionRecord
  <2>2. /\ DOMAIN session' = DOMAIN session \cup {s}
        /\ session'[s] = r
        /\ \A t \in DOMAIN session : session'[t] = session[t]
        /\ session' = [t \in DOMAIN session' |-> session'[t]]
    BY <1>0, <1>1
  <2> HIDE DEF r, Starts
  <2>3. Book(session')
    <3>1. IsFiniteSet(DOMAIN session')
      BY <2>2, FS_AddElement DEF IInv, Book
    <3>2. \A t \in DOMAIN session' : session'[t] \in SessionRecord
      BY <2>1, <2>2 DEF IInv, Book
    <3> QED
      BY <2>2, <3>1, <3>2 DEF IInv, Book
  <2>4. Differ(session, session', s)
    BY <2>2, <2>3 DEF Differ, IInv
  <2>5. ~InFlight(r) /\ DOMAIN r.received = {}
    BY <2>1 DEF InFlight
  <2>6. Told(r) /\ Batched(r) /\ Logged(r, latest[r.project], noticed[r.project], revokedAt[s])
    BY <2>1, <2>5 DEF Told, Batched, Logged
  <2> QED
    BY <2>1, <2>2, <2>4, <2>6 DEF Sound
<1>2. CASE Starts("done") /\ UNCHANGED <<polls, admission>>
  <2>1. /\ Differ(session, session', s) /\ session'[s].pc = "done"
        /\ session'[s].result = "none" /\ session'[s].project = p
        /\ Sound(s, session'[s], latest, noticed, revokedAt)
    BY <1>1, <1>2
  <2> HIDE DEF Starts
  <2>2. Chained(polls', session')
    <3>1. \A t \in DOMAIN session : /\ session'[t].project = session[t].project
                                    /\ session[t].pc \in {"authorize", "poll"} =>
                                         session'[t].pc \in {"authorize", "poll"}
      BY <1>0, <2>1 DEF Differ
    <3>2. \A t \in DOMAIN session' : session'[t].result # "none" =>
             /\ t \in DOMAIN session
             /\ polls[session[t].project] # <<>> /\ Head(polls[session[t].project]) = t
      BY <1>0, <2>1 DEF Differ, IInv, Chained
    <3>3. Chained(polls, session) /\ DOMAIN session \subseteq DOMAIN session'
      BY <2>1 DEF IInv, Differ
    <3>4. Chained(polls, session')
      BY <3>1, <3>2, <3>3, ChainStays
    <3> QED
      BY <1>2, <3>4
  <2>3. Admitted(session', active', activeByProject', pending')
    <3>1. Admitted(session', active, activeByProject, pending)
      BY <1>0, <2>1, AdmitReject DEF IInv
    <3> QED
      BY <1>2, <3>1 DEF admission
  <2>4. closeResolved' \in BOOLEAN
    BY <1>2 DEF admission, IInv
  <2> QED
    BY <1>0, <2>1, <2>2, <2>3, <2>4, StepKeeps
<1>3. CASE /\ pending' = pending + 1
           /\ Enqueue(s, p) /\ Starts("authorize")
           /\ UNCHANGED <<active, activeByProject, closeResolved>>
  <2>1. /\ Differ(session, session', s) /\ session'[s].pc = "authorize"
        /\ session'[s].result = "none" /\ session'[s].project = p
        /\ Sound(s, session'[s], latest, noticed, revokedAt)
    BY <1>1, <1>3
  <2> HIDE DEF Starts
  <2>2. Chained(polls', session')
    <3>1. polls' = [polls EXCEPT ![session'[s].project] = Append(@, s)]
      BY <1>3, <2>1 DEF Enqueue
    <3> QED
      BY <1>0, <2>1, <3>1, ChainJoin DEF IInv
  <2>3. Admitted(session', active', activeByProject', pending')
    <3>1. Admitted(session', active, activeByProject, pending + 1)
      BY <1>0, <2>1, AdmitAsk DEF IInv
    <3> QED
      BY <1>3, <3>1
  <2>4. closeResolved' \in BOOLEAN
    BY <1>3 DEF IInv
  <2> QED
    BY <1>0, <2>1, <2>2, <2>3, <2>4, StepKeeps
<1> QED
  BY <1>2, <1>3 DEF Upgrade

-----------------------------------------------------------------------------
(* Steps of the log, and of every session at once. *)

\* Every session may change within its place.
LEMMA AllGoOn ==
  ASSUME IInv, LogInv', DOMAIN session' = DOMAIN session,
         session' = [t \in DOMAIN session' |-> session'[t]],
         \A t \in DOMAIN session :
           /\ session'[t] \in SessionRecord
           /\ session'[t].project = session[t].project
           /\ session'[t].pc = "authorize" <=> session[t].pc = "authorize"
           /\ session'[t].pc = "done" <=> session[t].pc = "done"
           /\ session[t].pc = "poll" => session'[t].pc = "poll"
           /\ session'[t].result = session[t].result
           /\ Sound(t, session'[t], latest', noticed', revokedAt'),
         UNCHANGED <<polls, active, activeByProject, pending>>,
         closed' \in BOOLEAN, closeResolved' \in BOOLEAN
  PROVE  IInv'
<1>1. Book(session')
  BY DEF IInv, Book
<1>2. Chained(polls', session')
  <2>1. \A t \in DOMAIN session : /\ session'[t].project = session[t].project
                                  /\ session[t].pc \in {"authorize", "poll"} =>
                                       session'[t].pc \in {"authorize", "poll"}
    OBVIOUS
  <2>2. \A t \in DOMAIN session' : session'[t].result # "none" =>
           /\ t \in DOMAIN session
           /\ polls[session[t].project] # <<>> /\ Head(polls[session[t].project]) = t
    BY DEF IInv, Chained
  <2>3. Chained(polls, session) /\ DOMAIN session \subseteq DOMAIN session'
    BY DEF IInv
  <2>4. Chained(polls, session')
    BY <2>1, <2>2, <2>3, ChainStays
  <2> QED
    BY <2>4
<1>3. Admitted(session', active', activeByProject', pending')
  <2>1. \A t \in DOMAIN session :
          /\ session'[t].project = session[t].project
          /\ session'[t].pc = "authorize" <=> session[t].pc = "authorize"
          /\ session'[t].pc = "done" <=> session[t].pc = "done"
    OBVIOUS
  <2>2. Admitted(session', active, activeByProject, pending)
    BY <2>1, AdmitSame DEF IInv
  <2> QED
    BY <2>2
<1> QED
  BY <1>1, <1>2, <1>3 DEF IInv

\* Shutdown interrupts every session.
LEMMA CloseKeeps ==
  ASSUME IInv, Close
  PROVE  IInv'
<1>0. /\ session' = [t \in DOMAIN session |-> Interrupt(session[t])]
      /\ UNCHANGED <<latest, retained, unnotified, noticed, revokedAt, polls,
                     active, activeByProject, pending>>
      /\ closed' \in BOOLEAN /\ closeResolved' \in BOOLEAN
  BY DEF Close, ResolveCloseIfDrained, IInv, log
<1>1. LogInv'
  BY <1>0 DEF IInv, LogInv
<1>2. ASSUME NEW t \in DOMAIN session
      PROVE  /\ session'[t] \in SessionRecord
             /\ session'[t].project = session[t].project
             /\ session'[t].pc = "authorize" <=> session[t].pc = "authorize"
             /\ session'[t].pc = "done" <=> session[t].pc = "done"
             /\ session[t].pc = "poll" => session'[t].pc = "poll"
             /\ session'[t].result = session[t].result
             /\ Sound(t, session'[t], latest, noticed, revokedAt)
  <2> DEFINE o == session[t]
             top == latest[o.project]
             seen == noticed[o.project]
  <2>1. /\ o \in SessionRecord /\ Told(o) /\ Batched(o) /\ Logged(o, top, seen, revokedAt[t])
    BY Known
  <2>2. session'[t] = Interrupt(o)
    BY <1>0
  <2> HIDE DEF o, top, seen
  <2>3. /\ session'[t] \in SessionRecord /\ session'[t].project = o.project
        /\ session'[t].result = o.result
        /\ session'[t].pc = (IF o.pc = "wait" THEN "loop" ELSE o.pc)
        /\ Told(session'[t]) /\ Batched(session'[t])
        /\ Logged(session'[t], top, seen, revokedAt[t])
    BY <2>1, <2>2, Interrupted
  <2> QED
    BY <2>3 DEF Sound, o, top, seen
<1>3. \A t \in DOMAIN session : Sound(t, session'[t], latest', noticed', revokedAt')
  BY <1>0, <1>2
<1>4. DOMAIN session' = DOMAIN session /\ session' = [t \in DOMAIN session' |-> session'[t]]
  BY <1>0
<1> QED
  BY <1>0, <1>1, <1>2, <1>3, <1>4, AllGoOn

\* A notification wakes every connection of the Project, whatever it does.
LEMMA NotifyKeeps ==
  ASSUME IInv, NEW p \in Project, Notify(p)
  PROVE  IInv'
<1>0. /\ unnotified[p] > 0 /\ unnotified' = [unnotified EXCEPT ![p] = @ - 1]
      /\ noticed' = IF closed THEN noticed ELSE [noticed EXCEPT ![p] = latest[p]]
      /\ session' = [s \in DOMAIN session |->
           IF ~closed /\ s \in Running /\ session[s].project = p
           THEN Wake(session[s]) ELSE session[s]]
      /\ UNCHANGED <<latest, retained, polls, active, activeByProject, pending,
                     closeResolved, closed, revokedAt>>
      /\ closed' \in BOOLEAN /\ closeResolved' \in BOOLEAN
  BY DEF Notify, IInv, admission
<1>1. LogInv'
  <2>1. unnotified' \in [Project -> Nat]
    BY <1>0 DEF IInv, LogInv
  <2>2. noticed' \in [Project -> Sequence]
    BY <1>0 DEF IInv, LogInv
  <2>3. \A q \in Project : noticed'[q] <= latest[q]
    BY <1>0 DEF IInv, LogInv, Sequence
  <2> QED
    BY <1>0, <2>1, <2>2, <2>3 DEF IInv, LogInv
<1>2. ASSUME NEW t \in DOMAIN session
      PROVE  /\ session'[t] \in SessionRecord
             /\ session'[t].project = session[t].project
             /\ session'[t].pc = "authorize" <=> session[t].pc = "authorize"
             /\ session'[t].pc = "done" <=> session[t].pc = "done"
             /\ session[t].pc = "poll" => session'[t].pc = "poll"
             /\ session'[t].result = session[t].result
             /\ Sound(t, session'[t], latest, noticed', revokedAt)
  <2> DEFINE o == session[t]
             r == session'[t]
             top == latest[o.project]
             seen == noticed[o.project]
             new == noticed'[o.project]
  <2>1. /\ o \in SessionRecord /\ o.project \in Project /\ Told(o) /\ Batched(o)
        /\ Logged(o, top, seen, revokedAt[t])
    BY Known
  <2>2. CASE ~closed /\ t \in Running /\ o.project = p
    <3>1. o.pc \notin {"authorize", "done"} /\ r = Wake(o)
      BY <1>0, <2>2 DEF Running, SessionsAt
    <3> HIDE DEF o, r, top, seen, new
    <3>2. /\ r \in SessionRecord /\ r.pc = (IF o.pc = "wait" THEN "loop" ELSE o.pc)
          /\ r.result = o.result /\ r.batch = o.batch
          /\ r.project = o.project /\ r.received = o.received /\ r.start = o.start
          /\ r.cursor = o.cursor /\ r.upTo = o.upTo /\ r.woken = TRUE
      <4>1. (IF o.pc = "wait" THEN "loop" ELSE o.pc) \in SessionStep
        BY <2>1 DEF SessionStep, SessionRecord
      <4> QED
        BY <2>1, <3>1, <4>1 DEF Wake, SessionRecord
    <3>3. InFlight(r) <=> InFlight(o)
      BY <3>2 DEF InFlight
    <3>4. Told(r) /\ Batched(r)
      BY <2>1, <3>1, <3>2, <3>3 DEF Told, Batched
    <3>5. Logged(r, top, new, revokedAt[t])
      BY <2>1, <3>2, <3>3 DEF Logged
    <3> QED
      BY <3>1, <3>2, <3>4, <3>5 DEF Sound, o, r, top, new
  <2>3. CASE ~(~closed /\ t \in Running /\ o.project = p)
    <3>1. r = o
      BY <1>0, <2>3
    <3>2. o.pc \in {"authorize", "done"} \/ new = seen
      <4>1. CASE closed \/ o.project # p
        <5>1. noticed'[o.project] = noticed[o.project]
          BY <1>0, <2>1, <4>1 DEF IInv, LogInv
        <5> QED
          BY <5>1
      <4>2. CASE t \notin Running
        BY <4>2 DEF Running, SessionsAt
      <4> QED
        BY <2>3, <4>1, <4>2
    <3> HIDE DEF o, r, top, seen, new
    <3>3. o.pc = "done" => ~InFlight(o)
      BY <2>1 DEF Batched, InFlight
    <3>4. Logged(o, top, new, revokedAt[t])
      BY <2>1, <3>2, <3>3 DEF Logged
    <3> QED
      BY <2>1, <3>1, <3>4 DEF Sound, o, r, top, new
  <2> QED
    BY <2>2, <2>3
<1>3. \A t \in DOMAIN session : Sound(t, session'[t], latest', noticed', revokedAt')
  BY <1>0, <1>2
<1>4. DOMAIN session' = DOMAIN session /\ session' = [t \in DOMAIN session' |-> session'[t]]
  BY <1>0
<1> QED
  BY <1>0, <1>1, <1>2, <1>3, <1>4, AllGoOn

\* A commit and the removal of a Member leave what is in flight true.
LEMMA CommitKeeps ==
  ASSUME IInv, UNCHANGED <<polls, admission, closed, session, noticed>>,
         \/ \E p \in Project : AppendProjectEvent(p)
         \/ \E s \in Session : RevokeMembership(s)
  PROVE  IInv'
<1>0. /\ UNCHANGED <<polls, active, activeByProject, pending, closeResolved, closed, session,
                     noticed>>
      /\ closed' \in BOOLEAN /\ closeResolved' \in BOOLEAN /\ MaxSequence \in Nat
  BY LimitsAssumption DEF admission, IInv
<1>1. ASSUME LogInv',
             \A t \in DOMAIN session :
               Logged(session[t], latest'[session[t].project], noticed[session[t].project],
                      revokedAt'[t])
      PROVE  IInv'
  <2>1. \A t \in DOMAIN session : Sound(t, session[t], latest', noticed, revokedAt')
    BY <1>1 DEF IInv, Sound
  <2> QED
    BY <1>0, <1>1, <2>1 DEF IInv
<1>2. ASSUME NEW p \in Project, AppendProjectEvent(p) PROVE IInv'
  <2>1. PICK pruned \in SUBSET {n \in retained[p] : n <= latest[p] + 1 - MinRetainedEventCount} :
          retained' = [retained EXCEPT ![p] = (@ \cup {latest[p] + 1}) \ pruned]
    BY <1>2 DEF AppendProjectEvent
  <2>2. /\ latest[p] < MaxSequence /\ latest' = [latest EXCEPT ![p] = @ + 1]
        /\ \E here \in {0, 1} : unnotified' = [unnotified EXCEPT ![p] = @ + here]
        /\ revokedAt' = revokedAt
    BY <1>2 DEF AppendProjectEvent
  <2>3. /\ latest \in [Project -> Sequence] /\ retained \in [Project -> SUBSET (1 .. MaxSequence)]
        /\ unnotified \in [Project -> Nat] /\ noticed \in [Project -> Sequence]
        /\ \A q \in Project : noticed[q] <= latest[q] /\ \A n \in retained[q] : n <= latest[q]
    BY DEF IInv, LogInv
  <2>4. latest' \in [Project -> Sequence] /\ \A q \in Project : latest[q] <= latest'[q]
    BY <1>0, <2>2, <2>3 DEF Sequence
  <2>5. retained' \in [Project -> SUBSET (1 .. MaxSequence)]
    <3>1. (retained[p] \cup {latest[p] + 1}) \ pruned \in SUBSET (1 .. MaxSequence)
      <4>1. latest[p] + 1 \in 1 .. MaxSequence
        BY <1>0, <2>2, <2>3 DEF Sequence
      <4> QED
        BY <2>3, <4>1
    <3> QED
      BY <2>1, <2>3, <3>1
  <2>6. unnotified' \in [Project -> Nat]
    BY <2>2, <2>3
  <2>7. ASSUME NEW q \in Project
        PROVE  noticed[q] <= latest'[q] /\ \A n \in retained'[q] : n <= latest'[q]
    <3>1. noticed[q] \in Int /\ latest[q] \in Int /\ latest'[q] \in Int
          /\ retained[q] \in SUBSET (1 .. MaxSequence)
      BY <2>3, <2>4 DEF Sequence
    <3>2. \A n \in retained'[q] : n \in retained[q] \/ n = latest'[q]
      BY <2>1, <2>2, <2>3
    <3> QED
      BY <2>3, <2>4, <3>1, <3>2
  <2>8. LogInv'
    BY <1>0, <2>2, <2>4, <2>5, <2>6, <2>7 DEF IInv, LogInv
  <2>9. ASSUME NEW t \in DOMAIN session
        PROVE  Logged(session[t], latest'[session[t].project], noticed[session[t].project],
                      revokedAt'[t])
    <3> DEFINE o == session[t]
               top == latest[o.project]
               new == latest'[o.project]
    <3>1. /\ o \in SessionRecord /\ o.project \in Project /\ top \in Int /\ new \in Int
          /\ top <= new /\ Logged(o, top, noticed[o.project], revokedAt[t])
      BY <2>4, Known DEF Sequence
    <3> HIDE DEF o, top, new
    <3>a. o.upTo \in Int /\ o.received \in Seq(Sequence)
      BY <3>1 DEF SessionRecord, Sequence
    <3>b. \A i \in DOMAIN o.received : o.received[i] \in Sequence
      BY <3>a, ElementOfSeq, LenProperties
    <3>2. o.upTo \in Int /\ \A i \in DOMAIN o.received : o.received[i] \in Int
      BY <3>a, <3>b DEF Sequence
    <3>3. Logged(o, new, noticed[o.project], revokedAt[t])
      BY <3>1, <3>2 DEF Logged
    <3> QED
      BY <2>2, <3>3 DEF o, new
  <2> QED
    BY <1>1, <2>8, <2>9
<1>3. ASSUME NEW s \in Session, RevokeMembership(s) PROVE IInv'
  <2>1. /\ s \in DOMAIN session
        /\ revokedAt' = [revokedAt EXCEPT ![s] = latest[session[s].project]]
        /\ latest' = latest /\ UNCHANGED <<retained, unnotified>>
    BY <1>3 DEF RevokeMembership
  <2>2. revokedAt' \in [Session -> Sequence \cup {-1}]
    BY <2>1, Known DEF IInv, LogInv
  <2>3. LogInv'
    BY <1>0, <2>1, <2>2 DEF IInv, LogInv
  <2>4. ASSUME NEW t \in DOMAIN session
        PROVE  Logged(session[t], latest'[session[t].project], noticed[session[t].project],
                      revokedAt'[t])
    <3>1. Logged(session[t], latest[session[t].project], noticed[session[t].project],
                 revokedAt[t])
      BY Known
    <3>2. CASE t = s
      <4>1. revokedAt'[t] = latest[session[t].project]
        BY <2>1, <3>2 DEF IInv, LogInv
      <4> QED
        BY <2>1, <3>1, <4>1 DEF Logged
    <3>3. CASE t # s
      <4>1. revokedAt'[t] = revokedAt[t]
        BY <2>1, <3>3, Known DEF IInv, LogInv
      <4> QED
        BY <2>1, <3>1, <4>1
    <3> QED
      BY <3>2, <3>3
  <2> QED
    BY <1>1, <2>3, <2>4
<1> QED
  BY <1>2, <1>3

-----------------------------------------------------------------------------
(* The theorems. *)

LEMMA NextKeeps == IInv /\ [EventsNext]_eventsVars => IInv'
<1> SUFFICES ASSUME IInv, [EventsNext]_eventsVars PROVE IInv'
  OBVIOUS
<1>1. ASSUME NEW s \in Session, NEW p \in Project, NEW after \in Sequence, Upgrade(s, p, after)
      PROVE  IInv'
  BY <1>1, UpgradeKeeps
<1>2. ASSUME NEW s \in Session, GetProjectEvents(s) PROVE IInv'
  <2>1. s \in DOMAIN session
    BY <1>2 DEF GetProjectEvents
  <2>2. PICK result \in Result \ {"none"} :
          /\ ReadAs(s, result)
          /\ result = "events" =>
               Visible(s) /\ ~NeedsSnapshot(session[s].project, session[s].cursor)
    BY <1>2 DEF GetProjectEvents, Result
  <2> QED
    BY <2>1, <2>2, ReadKeeps
<1>3. ASSUME NEW s \in Session, ReadFails(s) PROVE IInv'
  <2>1. s \in DOMAIN session
    BY <1>3 DEF ReadFails
  <2>2. PICK result \in {"failed", "busy"} : ReadAs(s, result)
    BY <1>3 DEF ReadFails
  <2>3. result \in Result \ {"none"} /\ result # "events"
    BY DEF Result
  <2> QED
    BY <2>1, <2>2, <2>3, ReadKeeps
<1>4. ASSUME NEW s \in Session, Progress(s) PROVE IInv'
  BY <1>4, AuthorizedKeeps, LoopKeeps, PolledKeeps, SendKeeps, RestKeeps DEF Progress
<1>5. ASSUME NEW s \in Session, SocketLost(s) PROVE IInv'
  BY <1>5, LostKeeps
<1>6. ASSUME NEW s \in Session, RevokeMembership(s) PROVE IInv'
  BY <1>6, CommitKeeps DEF RevokeMembership
<1>7. ASSUME NEW p \in Project, AppendProjectEvent(p) PROVE IInv'
  BY <1>7, CommitKeeps DEF AppendProjectEvent
<1>8. ASSUME NEW p \in Project, Notify(p) PROVE IInv'
  BY <1>8, NotifyKeeps
<1>9. CASE Close
  BY <1>9, CloseKeeps
<1>10. CASE UNCHANGED eventsVars
  BY <1>10 DEF eventsVars, IInv, LogInv
<1> QED
  BY <1>1, <1>2, <1>3, <1>4, <1>5, <1>6, <1>7, <1>8, <1>9, <1>10 DEF EventsNext

\* A server may start over logs of any length.
LEMMA InitHolds ==
  ASSUME NEW n \in Sequence, InitLog(n)
  PROVE  IInv
<1>1. DOMAIN session = {} /\ session = [s \in DOMAIN session |-> session[s]]
  BY DEF InitLog
<1>2. Book(session)
  BY <1>1, FS_EmptySet DEF Book
<1>3. (\A P : Connected(session, P) = {}) /\ Asking(session) = {}
  BY <1>1 DEF Connected, Asking
<1>4. Admitted(session, active, activeByProject, pending)
  BY <1>3, FS_EmptySet DEF InitLog, Admitted
<1>5. Chained(polls, session)
  BY <1>1 DEF InitLog, Chained
<1>6. LogInv
  BY LimitsAssumption DEF InitLog, LogInv, Sequence
<1>7. closed \in BOOLEAN /\ closeResolved \in BOOLEAN
  BY DEF InitLog
<1> QED
  BY <1>1, <1>2, <1>4, <1>5, <1>6, <1>7 DEF IInv

\* The inductive invariant, from logs of any length: the run starts over one event.
LEMMA InvariantHolds ==
  ASSUME NEW CONSTANT n \in Sequence
  PROVE  InitLog(n) /\ [][EventsNext]_eventsVars => []IInv
<1>1. InitLog(n) => IInv
  BY InitHolds
<1> QED
  BY <1>1, NextKeeps, PTL

LEMMA SpecInvariant == EventsSpec => []IInv
<1>1. EventsInit => IInv
  <2>1. 0 \in Sequence
    BY LimitsAssumption DEF Sequence
  <2> QED
    BY <2>1, InitHolds DEF EventsInit
<1> QED
  BY <1>1, NextKeeps, PTL DEF EventsSpec

\* For any number of sessions and Projects, any limits and any pruning that keeps the
\* newest: a client receives every event after its cursor, in order and once, and none
\* that was committed after its Member was removed (readProjectEvents, getProjectEvents and
\* the loop of #runSession).
THEOREM ReplayIsExact == EventsSpec => []ReplayExact
<1>1. IInv => ReplayExact
  <2> SUFFICES ASSUME IInv PROVE ReplayExact
    OBVIOUS
  <2>1. \A s \in DOMAIN session :
          /\ Told(session[s])
          /\ Logged(session[s], latest[session[s].project], noticed[session[s].project],
                    revokedAt[s])
    BY DEF IInv, Sound
  <2>2. Unbroken
    BY <2>1 DEF Unbroken, Told, Running, SessionsAt
  <2>3. RevokedSeesNothing
    BY <2>1 DEF RevokedSeesNothing, Logged
  <2> QED
    BY <2>2, <2>3, IInvType DEF ReplayExact
<1> QED
  BY <1>1, SpecInvariant, PTL

\* A session that sleeps has sent all that was committed when its Project was last
\* notified, wherever the notification fell between its read and its sleep
\* (observedWakeVersion against the wake of onProjectEventCommitted).
THEOREM NoWakeIsLost == EventsSpec => []NoLostWake
<1>1. IInv => NoLostWake
  <2> SUFFICES ASSUME IInv, NEW s \in SessionsAt("wait")
               PROVE  session[s].cursor >= noticed[session[s].project]
    BY DEF NoLostWake
  <2>1. s \in DOMAIN session /\ session[s].pc = "wait" /\ session[s] \in SessionRecord
    BY DEF SessionsAt, IInv, Book
  <2>2. noticed[session[s].project] <= session[s].cursor
    BY <2>1 DEF IInv, Sound, Logged
  <2>3. noticed[session[s].project] \in Int /\ session[s].cursor \in Int
    BY <2>1, Known DEF SessionRecord, Sequence
  <2> QED
    BY <2>2, <2>3
<1> QED
  BY <1>1, SpecInvariant, PTL

-----------------------------------------------------------------------------
(* Backup and export: the inductive invariant. *)

\* Where the steps of an operation belong: before the publication, verifying what is
\* published, removing the capture and the staging directory, removing the copies.
Detaching == {"detach", "sweep", "forget"}
Releasing == {"remove-intent", "unstage"} \cup Detaching
Discarded == {"unpublish", "undeliver", "unown", "unhome"}
Other     == {"idle", "prepare", "context", "request", "mark", "reread", "verify-published",
              "register", "complete", "settle"}
Label     == Abortable \cup Releasing \cup Discarded \cup Other

\* Versions of the rows and of the bundle, and the manifest that names one of each.
AreFiles(files) ==
  /\ files = [f \in File |-> files[f]]
  /\ files["coordination"] \in Nat /\ files["bundle"] \in Nat
  /\ files["manifest"] \in Nat \X Nat

RowTypes ==
  /\ profile \in {"backup", "export"} /\ phase \in Phase /\ stuck \in BOOLEAN
  /\ fingerprint \in [content : Nat, build : Nat] /\ digest \in Nat \X Nat
  /\ service \in {"active", "maintenance", "deleted"}
  /\ db \in Nat /\ git \in Nat /\ write \in {"none", "prepared", "moved"}
  /\ catalog \in Nat \X Nat
  /\ expired \in BOOLEAN /\ overdue \in BOOLEAN /\ build \in 0..MaxBuild
  /\ faults \in 0..MaxFaults

DiskTypes ==
  /\ staging \in Directory /\ AreFiles(staged)
  /\ capture \in {"absent", "unowned", "owned", "bundled", "marked"} /\ bundle \in Nat
  /\ removal \in {"none", "intent", "detached"}
  /\ home \in Directory /\ AreFiles(published) /\ delivery \in Receipt

CallType ==
  op \in [call : {"none", "create", "cancel", "recover", "settle", "reconcile"},
          step : Label, goal : {"none", "release", "discard"}, records : Nat, refs : Nat]

BackupTypes == RowTypes /\ DiskTypes /\ CallType

\* A Project with an operation under way is closed, and nothing moves it.
ClosedInv ==
  /\ phase \in {"none", "completed", "cancelled"} => service = "active"
  /\ phase = "gone" => service = "deleted"
  /\ write # "moved" => git = db
  /\ phase \in Active =>
       service = "maintenance" /\ write = "none" /\ fingerprint.content = db

\* The digest is recorded with the verification, the catalog entry with the publication.
RecordInv ==
  /\ phase \in {"none"} \cup (Capturing \ {"checkpoint-verified"}) => digest = NoDigest
  /\ phase \in {"checkpoint-verified", "artifact-published", "completed"} =>
       digest = <<fingerprint.content, fingerprint.content>>
  /\ catalog = (IF phase \in {"artifact-published", "completed"} /\ profile = "backup"
                THEN digest ELSE NoDigest)

\* What is published stays; only an export is delivered.
CopiesInv ==
  /\ phase = "artifact-published" \/ (phase = "completed" /\ profile = "backup") => CopiesExact
  /\ delivery # "none" => profile = "export"

\* The steps of a call and the phases they belong to.
PhaseInv ==
  /\ op.step \in Abortable \ {"capture-dir", "capture-owner"} => phase \in Capturing
  /\ op.step \in {"capture-dir", "capture-owner"} =>
       phase \in (Capturing \ {"prepared"}) \cup {"artifact-published"}
  /\ op.step \in {"bundle", "marker", "stage-bundle", "record-repository"} => phase # "prepared"
  /\ op.step \in {"manifest", "verify-staged", "record-verified"} =>
       phase \in {"repository-captured", "checkpoint-verified"}
  /\ op.step \in {"prepare-copy", "copy", "verify-copy", "publish"} =>
       phase = "checkpoint-verified"
  /\ op.step \in {"reread", "verify-published", "register"} => phase = "artifact-published"
  /\ Removing => op.step \in Releasing \cup Discarded
  /\ op.step \in Releasing \cup Discarded =>
       \/ /\ Removing /\ profile = "export" /\ phase \in {"completed", "gone"}
          /\ op.goal = "none"
       \/ ~Removing /\ op.goal = "discard" /\ phase = "cancel-intent"
       \/ /\ ~Removing /\ op.goal = "release" /\ phase = "artifact-published"
          /\ op.step \in Releasing
  /\ op.step \in Detaching => ~Removing

\* What a capture has read and staged so far is the version it began with.
CaptureInv ==
  /\ op.step \in {"staging", "coordination", "record-coordination", "capture-dir",
                  "capture-owner", "bundle", "marker", "stage-bundle", "record-repository",
                  "manifest"} /\ phase \in Capturing =>
       /\ op.refs = db
       /\ phase = "prepared" => op.records = db
       /\ op.step \notin {"staging", "coordination"} => staged["coordination"] = op.records
  /\ op.step \in {"marker", "stage-bundle", "record-repository", "manifest"} =>
       bundle = op.refs
  /\ op.step \in {"record-repository", "manifest"} => staged["bundle"] = bundle
  /\ op.step \in {"verify-staged", "record-verified"} => staged["manifest"] = <<db, db>>
  /\ op.step = "publish" => CopiesExact

\* What a removal has removed so far.
RemovalInv ==
  /\ op.step \in {"sweep", "forget"} => capture = "absent"
  /\ op.step \in {"unstage", "complete", "settle"} \cup Discarded =>
       capture = "absent" /\ removal = "none"
  /\ op.step \in {"complete", "settle"} \cup Discarded =>
       staging = "absent" /\ staged = NoFiles
  /\ op.step \in {"undeliver", "unown", "unhome", "settle"} => published = NoFiles
  /\ op.step \in {"unown", "unhome", "settle"} => delivery = "none"
  /\ op.step = "settle" => home = "absent"

\* What ended left nothing.
EndedInv ==
  /\ phase \in {"completed", "cancelled", "gone"} =>
       staging = "absent" /\ staged = NoFiles /\ capture = "absent" /\ removal = "none"
  /\ phase = "cancelled" => home = "absent" /\ published = NoFiles /\ delivery = "none"

BackupInv == /\ BackupTypes /\ ClosedInv /\ RecordInv /\ CopiesInv
             /\ PhaseInv /\ CaptureInv /\ RemovalInv /\ EndedInv

-----------------------------------------------------------------------------
(* The types. *)

\* A call that goes on to another step.
LEMMA GotoOp ==
  ASSUME CallType, NEW step, Goto(step)
  PROVE  /\ op'.step = step /\ op'.call = op.call /\ op'.goal = op.goal
         /\ op'.records = op.records /\ op'.refs = op.refs
         /\ op' = [call |-> op.call, step |-> step, goal |-> op.goal,
                   records |-> op.records, refs |-> op.refs]
BY DEF CallType, Goto

\* One file more, in the staging directory or among the copies.
LEMMA AddFile ==
  ASSUME NEW files, AreFiles(files), NEW f \in File, NEW value,
         IF f = "manifest" THEN value \in Nat \X Nat ELSE value \in Nat
  PROVE  /\ AreFiles([files EXCEPT ![f] = value])
         /\ \A g \in File :
              [files EXCEPT ![f] = value][g] = (IF g = f THEN value ELSE files[g])
BY DEF AreFiles, File

LEMMA NoneStaged == AreFiles(NoFiles)
BY DEF AreFiles, NoFiles, NoDigest, File

LEMMA InitInv == Init => BackupInv
<1> SUFFICES ASSUME Init PROVE BackupInv
  OBVIOUS
<1>1. RowTypes
  <2>1. stuck \in BOOLEAN /\ expired \in BOOLEAN /\ overdue \in BOOLEAN
    BY DEF Init
  <2>2. faults \in 0..MaxFaults /\ build \in 0..MaxBuild /\ phase \in Phase
    BY BackupAssumption DEF Init, Phase
  <2> QED
    BY <2>1, <2>2 DEF Init, RowTypes, NoDigest
<1>2. DiskTypes /\ CallType
  BY NoneStaged DEF Init, DiskTypes, Directory, Receipt, CallType, Idle, Label, Other
<1>3. ClosedInv /\ RecordInv /\ CopiesInv /\ EndedInv
  BY DEF Init, ClosedInv, RecordInv, CopiesInv, EndedInv, Active, Capturing
<1>4. PhaseInv /\ CaptureInv /\ RemovalInv
  BY DEF Init, PhaseInv, CaptureInv, RemovalInv, Idle, Abortable, Releasing, Detaching,
     Discarded, Removing
<1> QED
  BY <1>1, <1>2, <1>3, <1>4 DEF BackupInv, BackupTypes

-----------------------------------------------------------------------------
(* The types are kept. *)

\* A step that copies or removes nothing.
LEMMA DiskTypesKept == ASSUME DiskTypes, UNCHANGED storeVars PROVE DiskTypes'
BY DEF DiskTypes, AreFiles, storeVars, stagingVars, captureVars, publishVars

\* The steps that change rows, service or clock.
LEMMA RowSteps ==
  ASSUME Next
  PROVE  \/ Writes \/ DeleteProject \/ Expire \/ Overdue \/ Prepare \/ Request
         \/ MarkRecoveryRequired \/ Publish \/ Complete \/ Settle
         \/ RecordCoordination \/ RecordRepository \/ RecordVerified \/ Crash \/ Fail
         \/ FailVerify \/ UNCHANGED <<journalVars, projectVars, git, clockVars, faults>>
BY DEF Next, Calls, CallCreate, CallCancel, CallRecover, CallSettle, CallReconcile, Call,
   Step, TimeOut, Context, Snapshot, PrepareStaging, StageCoordination, Stage,
   CaptureDirectory, CaptureOwner, CaptureBundle, CaptureMarker, StageBundle, StageManifest,
   VerifyStaged, PrepareCopy, Copy, VerifyCopy, Reread, VerifyPublished, Register,
   RemoveIntent, Detach, Sweep, Forget, Unstage, Unpublish, Undeliver, Unown, Unhome, Refused

LEMMA RowTypesNext == ASSUME BackupTypes, Next PROVE RowTypes'
<1> USE DEF BackupTypes
<1>1. CASE Writes \/ DeleteProject
  BY <1>1 DEF RowTypes, Writes, WritePrepare, WriteMove, WriteSettle, DeleteProject,
     journalVars, clockVars, Phase, NoDigest
<1>2. CASE Expire \/ Overdue
  BY <1>2 DEF RowTypes, Expire, Overdue, journalVars, projectVars
<1>3. CASE Prepare
  BY <1>3, BackupAssumption DEF RowTypes, Prepare, Fingerprint, clockVars, Phase, Active,
     Capturing
<1>4. CASE Request \/ MarkRecoveryRequired \/ Publish \/ Complete \/ Settle
  BY <1>4 DEF RowTypes, Request, MarkRecoveryRequired, Publish, Complete, Settle, Finish,
     Catalogued, projectVars, clockVars, Phase, Active, Capturing
<1>5. CASE RecordCoordination \/ RecordRepository \/ RecordVerified
  BY <1>5 DEF RowTypes, DiskTypes, AreFiles, RecordCoordination, RecordRepository,
     RecordVerified, Record, projectVars, clockVars, Phase, Active, Capturing
<1>6. CASE Crash
  BY <1>6, BackupAssumption DEF RowTypes, Crash, journalVars, projectVars
<1>7. CASE Fail \/ FailVerify
  BY <1>7, BackupAssumption DEF RowTypes, Fail, FailVerify, journalVars, projectVars, clockVars
<1>8. CASE UNCHANGED <<journalVars, projectVars, git, clockVars, faults>>
  BY <1>8 DEF RowTypes, journalVars, projectVars, clockVars
<1> QED
  BY <1>1, <1>2, <1>3, <1>4, <1>5, <1>6, <1>7, <1>8, RowSteps


\* The steps that change files or directories.
LEMMA DiskSteps ==
  ASSUME Next
  PROVE  \/ StageCoordination \/ StageBundle \/ StageManifest \/ Copy \/ Unstage
         \/ Unpublish \/ PrepareStaging \/ PrepareCopy \/ Register
         \/ Undeliver \/ Unown \/ Unhome
         \/ CaptureDirectory \/ CaptureOwner \/ CaptureBundle \/ CaptureMarker \/ Fail
         \/ RemoveIntent \/ Detach \/ Sweep \/ Forget \/ UNCHANGED storeVars
BY DEF Next, Writes, WritePrepare, WriteMove, WriteSettle, DeleteProject, Expire, Overdue,
   Calls, CallCreate, CallCancel, CallRecover, CallSettle, CallReconcile, Call, Step,
   TimeOut, Crash, Prepare, Context, Request, Snapshot, RecordCoordination, RecordRepository,
   RecordVerified, Record, VerifyStaged, VerifyCopy, Publish, Reread, VerifyPublished, Complete,
   Settle, Finish, Refused, MarkRecoveryRequired, FailVerify

\* What a step that is cut off leaves of a directory or of a delivery marker.
LEMMA CutTypes ==
  ASSUME DiskTypes, Fail
  PROVE  staging' \in Directory /\ home' \in Directory /\ delivery' \in Receipt
BY DEF Fail, CutDirectory, CutReceipt, DiskTypes, Directory, Receipt

\* A step that writes one of the staged files.
LEMMA StageTypes ==
  ASSUME DiskTypes, NEW f \in File, NEW value,
         IF f = "manifest" THEN value \in Nat \X Nat ELSE value \in Nat,
         staged' = [staged EXCEPT ![f] = value], UNCHANGED <<staging, captureVars, publishVars>>
  PROVE  DiskTypes'
<1>1. AreFiles(staged')
  BY AddFile DEF DiskTypes
<1> QED
  BY <1>1 DEF DiskTypes, AreFiles, captureVars, publishVars

LEMMA DiskTypesNext == ASSUME BackupTypes, Next PROVE DiskTypes'
<1> USE DEF BackupTypes
<1>1. CASE StageCoordination \/ StageBundle \/ StageManifest
  <2>1. op.records \in Nat /\ bundle \in Nat /\ <<staged["coordination"], bundle>> \in Nat \X Nat
    BY DEF CallType, DiskTypes, AreFiles
  <2>2. \A step, f, value, next : Stage(step, f, value, next) =>
          /\ staged' = [staged EXCEPT ![f] = value]
          /\ UNCHANGED <<staging, captureVars, publishVars>>
    BY DEF Stage
  <2>3. "coordination" \in File /\ "bundle" \in File /\ "manifest" \in File
    BY DEF File
  <2>4. CASE StageCoordination
    BY <2>1, <2>2, <2>3, <2>4, StageTypes DEF StageCoordination
  <2>5. CASE StageBundle
    BY <2>1, <2>2, <2>3, <2>5, StageTypes DEF StageBundle
  <2>6. CASE StageManifest
    BY <2>1, <2>2, <2>3, <2>6, StageTypes DEF StageManifest
  <2> QED
    BY <1>1, <2>4, <2>5, <2>6
<1>2. CASE Copy
  <2>1. NextFile \in File /\ AreFiles(staged) /\ AreFiles(published)
    BY DEF NextFile, File, DiskTypes
  <2>2. IF NextFile = "manifest" THEN staged[NextFile] \in Nat \X Nat
        ELSE staged[NextFile] \in Nat
    BY <2>1 DEF AreFiles, File
  <2>3. AreFiles(published')
    BY <1>2, <2>1, <2>2, AddFile DEF Copy
  <2> QED
    BY <1>2, <2>3 DEF Copy, DiskTypes, AreFiles, stagingVars, captureVars
<1>3. CASE Unstage \/ Unpublish
  <2>1. AreFiles(staged') /\ AreFiles(published')
    BY <1>3, NoneStaged DEF Unstage, Unpublish, stagingVars, publishVars, DiskTypes, AreFiles
  <2> QED
    BY <1>3, <2>1 DEF Unstage, Unpublish, DiskTypes, Directory, stagingVars, captureVars,
       publishVars
<1>4. CASE PrepareStaging \/ PrepareCopy \/ Register \/ Undeliver \/ Unown \/ Unhome
  BY <1>4 DEF PrepareStaging, PrepareCopy, Register, Registered, Undeliver, Unown, Unhome,
     DiskTypes, Directory, Receipt, AreFiles, stagingVars, captureVars, publishVars
<1>5. CASE CaptureDirectory \/ CaptureOwner \/ CaptureBundle \/ CaptureMarker
  BY <1>5 DEF CaptureDirectory, CaptureOwner, CaptureBundle, CaptureMarker, DiskTypes,
     AreFiles, RowTypes, stagingVars, captureVars, publishVars
<1>8. CASE Fail
  <2>1. UNCHANGED <<staged, published>>
    BY <1>8 DEF Fail
  <2>2. /\ capture' \in {"absent", "unowned", "owned", "bundled", "marked"} /\ bundle' \in Nat
        /\ removal' \in {"none", "intent", "detached"}
    BY <1>8 DEF Fail, DiskTypes, captureVars
  <2> QED
    BY <1>8, <2>1, <2>2, CutTypes DEF DiskTypes, AreFiles
<1>6. CASE RemoveIntent \/ Detach \/ Sweep \/ Forget
  BY <1>6 DEF RemoveIntent, Detach, Sweep, Forget, DiskTypes, AreFiles, stagingVars,
     captureVars, publishVars
<1>7. CASE UNCHANGED storeVars
  BY <1>7, DiskTypesKept
<1> QED
  BY <1>1, <1>2, <1>3, <1>4, <1>5, <1>6, <1>7, <1>8, DiskSteps

\* How a call begins, and on which journal.
LEMMA CallsBegin ==
  ASSUME Calls
  PROVE  /\ UNCHANGED <<journalVars, projectVars, git, storeVars, clockVars, faults>>
         /\ \E c \in {"create", "cancel", "recover", "settle", "reconcile"},
               s \in {"prepare", "request", "context", "remove-intent"} :
              /\ op' = [call |-> c, step |-> s, goal |-> "none", records |-> 0, refs |-> 0]
              /\ c \in {"settle", "reconcile"} =>
                   /\ s = "remove-intent" /\ phase \in {"completed", "gone"}
                   /\ profile = "export" \/ delivery # "none"
              /\ c \notin {"settle", "reconcile"} => s # "remove-intent"
<1>1. \A c, s : Call(c, s) =>
        /\ UNCHANGED <<journalVars, projectVars, git, storeVars, clockVars, faults>>
        /\ op' = [call |-> c, step |-> s, goal |-> "none", records |-> 0, refs |-> 0]
  BY DEF Call, Idle
<1>2. CASE CallCreate
  BY <1>1, <1>2 DEF CallCreate, AdvanceStep
<1>3. CASE CallCancel
  BY <1>1, <1>3 DEF CallCancel, CancelStep
<1>4. CASE CallRecover
  BY <1>1, <1>4 DEF CallRecover, RecoverStep, AdvanceStep
<1>5. CASE CallSettle
  BY <1>1, <1>5 DEF CallSettle
<1>6. CASE CallReconcile
  BY <1>1, <1>6 DEF CallReconcile, Due, DeliveryOver
<1> QED
  BY <1>2, <1>3, <1>4, <1>5, <1>6 DEF Calls

\* Where a call can go.
LEMMA CallTypeNext == ASSUME BackupTypes, Next PROVE CallType'
<1> USE DEF BackupTypes
<1>1. \A step \in Label : Goto(step) => CallType'
  BY GotoOp DEF CallType
<1> USE DEF Label, Abortable, Releasing, Detaching, Discarded, Other
<1>2. CASE TimeOut \/ Prepare \/ Request \/ Refused \/ MarkRecoveryRequired \/ Complete
           \/ Settle
  BY <1>1, <1>2 DEF TimeOut, Prepare, Request, Refused, MarkRecoveryRequired, Complete, Settle,
     Finish, CallType, Idle
<1>3. CASE Context
  BY <1>3 DEF Context, CallType
<1>4. CASE Snapshot
  BY <1>4 DEF Snapshot, CallType, RowTypes, DiskTypes, AreFiles
<1>5. CASE PrepareStaging \/ StageCoordination \/ StageBundle \/ StageManifest
           \/ RecordCoordination \/ RecordRepository \/ RecordVerified
  BY <1>1, <1>5 DEF PrepareStaging, StageCoordination, StageBundle, StageManifest, Stage,
     RecordCoordination, RecordRepository, RecordVerified, Record
<1>6. CASE CaptureDirectory \/ CaptureOwner \/ CaptureBundle \/ CaptureMarker
           \/ VerifyStaged \/ PrepareCopy \/ Copy \/ VerifyCopy \/ Publish \/ Reread
           \/ VerifyPublished
  BY <1>1, <1>6 DEF CaptureDirectory, CaptureOwner, CaptureBundle, CaptureMarker, VerifyStaged,
     PrepareCopy, Copy, VerifyCopy, Publish, Reread, VerifyPublished
<1>7. CASE Register
  BY <1>7 DEF Register, CallType
<1>8. CASE RemoveIntent \/ Detach \/ Sweep \/ Forget \/ Unstage
           \/ Unpublish \/ Undeliver \/ Unown \/ Unhome
  BY <1>1, <1>8 DEF RemoveIntent, Detach, Sweep, Forget, Unstage, AfterStaging, Unpublish,
     Undeliver, Unown, Unhome, CallType, Idle
<1>9. CASE Calls
  BY <1>9, CallsBegin DEF CallType
<1>10. CASE Fail \/ FailVerify \/ Crash
  BY <1>1, <1>10 DEF Fail, FailVerify, Crash, Idle, CallType, Label, Other
<1>11. CASE Writes \/ DeleteProject \/ Expire \/ Overdue
  BY <1>11 DEF Writes, WritePrepare, WriteMove, WriteSettle, DeleteProject, Expire, Overdue,
     CallType
<1> QED
  BY <1>2, <1>3, <1>4, <1>5, <1>6, <1>7, <1>8, <1>9, <1>10, <1>11 DEF Next, Step

-----------------------------------------------------------------------------
(* The journal and its Project. *)

LEMMA ClosedNext == ASSUME BackupInv, Next PROVE ClosedInv'
<1> USE DEF BackupInv, ClosedInv, Phase, Active, Capturing
<1>1. CASE Writes
  BY <1>1 DEF Writes, WritePrepare, WriteMove, WriteSettle, Writable, journalVars
<1>2. CASE DeleteProject
  BY <1>2 DEF DeleteProject
<1>3. CASE Prepare
  BY <1>3 DEF Prepare, CanPrepare, Fingerprint
<1>4. CASE Request \/ MarkRecoveryRequired \/ Publish
  BY <1>4 DEF Request, MarkRecoveryRequired, Publish, projectVars
<1>5. CASE Complete \/ Settle
  BY <1>5 DEF Complete, Settle, Finish
<1>6. CASE RecordCoordination \/ RecordRepository \/ RecordVerified
  BY <1>6 DEF RecordCoordination, RecordRepository, RecordVerified, Record, projectVars
<1>7. CASE UNCHANGED <<journalVars, projectVars, git>>
  BY <1>7 DEF journalVars, projectVars
<1> QED
  BY <1>1, <1>2, <1>3, <1>4, <1>5, <1>6, <1>7, RowSteps
     DEF Expire, Overdue, Crash, Fail, FailVerify

LEMMA RecordNext == ASSUME BackupInv, Next PROVE RecordInv'
<1> USE DEF BackupInv, RecordInv, Phase, Active, Capturing, Catalogued
<1>1. CASE Writes
  BY <1>1 DEF Writes, WritePrepare, WriteMove, WriteSettle, journalVars
<1>2. CASE DeleteProject
  BY <1>2 DEF DeleteProject
<1>3. CASE Prepare
  BY <1>3 DEF Prepare, CanPrepare
<1>4. CASE Request
  BY <1>4 DEF Request, projectVars
<1>5. CASE MarkRecoveryRequired
  BY <1>5 DEF MarkRecoveryRequired, projectVars
<1>6. CASE Publish
  BY <1>6 DEF Publish
<1>7. CASE Complete \/ Settle
  BY <1>7 DEF Complete, Settle, Finish
<1>8. CASE RecordCoordination \/ RecordRepository
  BY <1>8 DEF RecordCoordination, RecordRepository, Record, projectVars
<1>9. CASE RecordVerified
  <2>1. staged["manifest"] = <<db, db>> /\ phase \in Capturing /\ fingerprint.content = db
    BY <1>9 DEF RecordVerified, Record, At, CaptureInv, PhaseInv, ClosedInv, Abortable
  <2> QED
    BY <1>9, <2>1 DEF RecordVerified, Record, projectVars
<1>10. CASE UNCHANGED <<journalVars, projectVars>>
  BY <1>10 DEF journalVars, projectVars
<1> QED
  BY <1>1, <1>2, <1>3, <1>4, <1>5, <1>6, <1>7, <1>8, <1>9, <1>10, RowSteps
     DEF Expire, Overdue, Crash, Fail, FailVerify

-----------------------------------------------------------------------------
(* The copies, and what an ended operation leaves. *)

\* The steps of the journal touch no file.
LEMMA RowsOnly ==
  ASSUME Writes \/ DeleteProject \/ Expire \/ Overdue \/ Prepare \/ Request
           \/ MarkRecoveryRequired \/ Publish \/ Complete \/ Settle
           \/ RecordCoordination \/ RecordRepository \/ RecordVerified \/ Crash
  PROVE  UNCHANGED storeVars /\ profile' = profile
BY DEF Writes, WritePrepare, WriteMove, WriteSettle, DeleteProject, Expire, Overdue, Prepare,
       Request, MarkRecoveryRequired, Publish, Complete, Settle, Finish, RecordCoordination,
       RecordRepository, RecordVerified, Record, Crash, journalVars

LEMMA CopiesNext == ASSUME BackupInv, Next PROVE CopiesInv'
<1> USE DEF BackupInv, CopiesInv, CopiesExact, Verified
<1>1. CASE Publish
  BY <1>1, RowsOnly DEF Publish, At, CaptureInv, storeVars, publishVars
<1>2. CASE Complete \/ Settle \/ Request \/ Prepare \/ DeleteProject
  BY <1>2, RowsOnly DEF Complete, Settle, Finish, Request, Prepare, DeleteProject, storeVars,
     publishVars
<1>3. CASE RecordCoordination \/ RecordRepository \/ RecordVerified
  BY <1>3, RowsOnly DEF RecordCoordination, RecordRepository, RecordVerified, Record, storeVars,
     publishVars
<1>4. CASE Copy
  BY <1>4 DEF Copy, At, PhaseInv, journalVars
<1>5. CASE Unpublish
  BY <1>5 DEF Unpublish, At, PhaseInv, Discarded, Releasing, Detaching, journalVars
<1>6. CASE Register
  BY <1>6 DEF Register, Registered, journalVars
<1>7. CASE Undeliver \/ Unown \/ Unhome
  BY <1>7 DEF Undeliver, Unown, Unhome, journalVars
<1>13. CASE Fail
  BY <1>13 DEF Fail, CutReceipt, Registered, journalVars
<1>8. CASE UNCHANGED <<profile, phase, digest, published, delivery>>
  BY <1>8
<1>9. CASE Writes \/ Expire \/ Overdue \/ MarkRecoveryRequired \/ Crash
  BY <1>9, <1>8, RowsOnly DEF Writes, WritePrepare, WriteMove, WriteSettle, Expire, Overdue,
     MarkRecoveryRequired, Crash, journalVars, storeVars, publishVars
<1>10. CASE PrepareStaging \/ PrepareCopy \/ CaptureDirectory \/ CaptureOwner
            \/ CaptureBundle \/ CaptureMarker
  BY <1>8, <1>10 DEF PrepareStaging, PrepareCopy, CaptureDirectory, CaptureOwner,
     CaptureBundle, CaptureMarker, journalVars, publishVars
<1>11. CASE RemoveIntent \/ Detach \/ Sweep \/ Forget \/ Unstage
            \/ StageCoordination \/ StageBundle \/ StageManifest
  BY <1>8, <1>11 DEF RemoveIntent, Detach, Sweep, Forget, Unstage, StageCoordination,
     StageBundle, StageManifest, Stage, journalVars, publishVars
<1>12. CASE UNCHANGED <<journalVars, storeVars>>
  BY <1>8, <1>12 DEF journalVars, storeVars, publishVars
<1> QED
  BY <1>1, <1>2, <1>3, <1>4, <1>5, <1>6, <1>7, <1>9, <1>10, <1>11, <1>12, <1>13, RowSteps,
     DiskSteps DEF FailVerify

LEMMA EndedNext == ASSUME BackupInv, Next PROVE EndedInv'
<1> USE DEF BackupInv, EndedInv
<1>1. CASE Complete \/ Settle
  BY <1>1, RowsOnly DEF Complete, Settle, Finish, At, RemovalInv, storeVars, stagingVars,
     captureVars, publishVars
<1>2. CASE DeleteProject \/ Request \/ Prepare \/ Publish
  BY <1>2, RowsOnly DEF DeleteProject, Request, Prepare, Publish, storeVars, stagingVars,
     captureVars, publishVars
<1>3. CASE RecordCoordination \/ RecordRepository \/ RecordVerified
  BY <1>3, RowsOnly DEF RecordCoordination, RecordRepository, RecordVerified, Record,
     storeVars, stagingVars, captureVars, publishVars
<1>4. CASE PrepareStaging \/ PrepareCopy \/ CaptureDirectory \/ CaptureOwner
           \/ CaptureBundle \/ CaptureMarker \/ Copy \/ Register
           \/ StageCoordination \/ StageBundle \/ StageManifest
  <2>1. phase \notin {"completed", "cancelled", "gone"} /\ phase' = phase
    BY <1>4 DEF PrepareStaging, PrepareCopy, CaptureDirectory, CaptureOwner, CaptureBundle,
       CaptureMarker, Copy, Register, StageCoordination, StageBundle, StageManifest, Stage, At,
       journalVars, PhaseInv, Abortable, Capturing
  <2> QED
    BY <2>1
<1>5. CASE RemoveIntent \/ Unstage \/ Unpublish \/ Undeliver \/ Unown \/ Unhome
  BY <1>5 DEF RemoveIntent, NothingCaptured, Unstage, Unpublish, Undeliver, Unown, Unhome,
     journalVars, stagingVars, captureVars, publishVars
<1>6. CASE Detach \/ Sweep \/ Forget
  <2>1. phase \notin {"completed", "cancelled", "gone"} /\ phase' = phase
    BY <1>6 DEF Detach, Sweep, Forget, At, journalVars, PhaseInv, Releasing, Detaching
  <2> QED
    BY <2>1
<1>7. CASE Fail
  <2>1. \/ ~At("marker") /\ ~At("staging") /\ ~At("prepare-copy") /\ ~At("register")
        \/ phase \notin {"completed", "cancelled", "gone"}
    BY DEF At, PhaseInv, Abortable, Capturing
  <2> QED
    BY <1>7, <2>1 DEF Fail, CutDirectory, CutReceipt, journalVars, captureVars
<1>8. CASE Writes \/ Expire \/ Overdue \/ MarkRecoveryRequired \/ Crash
  BY <1>8, RowsOnly DEF Writes, WritePrepare, WriteMove, WriteSettle, Expire, Overdue,
     MarkRecoveryRequired, Crash, journalVars, storeVars, stagingVars, captureVars, publishVars
<1>9. CASE UNCHANGED <<journalVars, storeVars>>
  BY <1>9 DEF journalVars, storeVars, stagingVars, captureVars, publishVars
<1> QED
  BY <1>1, <1>2, <1>3, <1>4, <1>5, <1>6, <1>7, <1>8, <1>9, RowSteps, DiskSteps
     DEF FailVerify

-----------------------------------------------------------------------------
(* The steps of a call. *)

\* A call that has not begun, has ended or waits for an operator has nothing under way.
LEMMA Quiet ==
  ASSUME \/ op'.step = "idle" /\ op'.call = "none"
         \/ op'.step \in {"mark", "prepare", "context", "request"} /\ ~Removing'
  PROVE  PhaseInv' /\ CaptureInv' /\ RemovalInv'
BY DEF PhaseInv, CaptureInv, RemovalInv, Abortable, Releasing, Detaching, Discarded, Removing

\* The calls that go on, and those that the rest of the server leaves alone.
LEMMA Elsewhere ==
  ASSUME BackupInv, Writes \/ DeleteProject \/ Expire \/ Overdue \/ Fail \/ Crash \/ Refused
                 \/ FailVerify \/ TimeOut \/ Prepare \/ Request \/ Complete \/ Settle
                 \/ MarkRecoveryRequired
  PROVE  PhaseInv' /\ CaptureInv' /\ RemovalInv'
<1> USE DEF BackupInv, BackupTypes
<1>1. CASE Fail \/ Crash
  BY <1>1, Quiet DEF Fail, Crash, Idle
<1>2. CASE Complete \/ Settle \/ MarkRecoveryRequired
  BY <1>2, Quiet DEF Complete, Settle, Finish, MarkRecoveryRequired, Idle
<1>3. CASE TimeOut \/ Prepare \/ Request
  <2>1. Goto("request") \/ Goto("context")
    BY <1>3 DEF TimeOut, Prepare, Request
  <2>2. ~Removing
    BY <1>3 DEF TimeOut, Prepare, Request, At, PhaseInv, Abortable, Releasing, Discarded,
       Detaching
  <2> QED
    BY <2>1, <2>2, GotoOp, Quiet DEF Removing
<1>4. CASE Refused
  BY <1>4, GotoOp, Quiet DEF Refused, Removing, Idle
<1>8. CASE FailVerify
  <2>1. Goto("mark") /\ ~Removing
    BY <1>8 DEF FailVerify, At, PhaseInv, Releasing, Detaching, Discarded
  <2> QED
    BY <2>1, GotoOp, Quiet DEF Removing
<1>5. CASE DeleteProject
  BY <1>5, Quiet DEF DeleteProject, Idle
<1>6. CASE Expire \/ Overdue
  BY <1>6 DEF Expire, Overdue, PhaseInv, CaptureInv, RemovalInv, Removing, CopiesExact,
     Verified, journalVars, projectVars, storeVars, stagingVars, captureVars, publishVars
<1>7. CASE Writes
  <2>1. op = Idle /\ op' = op
    BY <1>7 DEF Writes, WritePrepare, WriteMove, WriteSettle
  <2> QED
    BY <2>1, Quiet DEF Idle
<1> QED
  BY <1>1, <1>2, <1>3, <1>4, <1>5, <1>6, <1>7, <1>8

LEMMA CallsInv == ASSUME BackupInv, Calls PROVE PhaseInv' /\ CaptureInv' /\ RemovalInv'
<1>1. PICK c \in {"create", "cancel", "recover", "settle", "reconcile"},
           s \in {"prepare", "request", "context", "remove-intent"} :
        /\ op' = [call |-> c, step |-> s, goal |-> "none", records |-> 0, refs |-> 0]
        /\ c \in {"settle", "reconcile"} =>
             /\ s = "remove-intent" /\ phase \in {"completed", "gone"}
             /\ profile = "export" \/ delivery # "none"
        /\ c \notin {"settle", "reconcile"} => s # "remove-intent"
  BY CallsBegin
<1>2. CASE c \notin {"settle", "reconcile"}
  BY <1>1, <1>2, Quiet DEF Removing
<1>3. CASE c \in {"settle", "reconcile"}
  <2>1. op'.step = "remove-intent" /\ op'.goal = "none" /\ Removing'
    BY <1>1, <1>3 DEF Removing
  <2>2. profile' = "export" /\ phase' = phase /\ phase \in {"completed", "gone"}
    BY <1>1, <1>3, CallsBegin DEF BackupInv, CopiesInv, journalVars
  <2> QED
    BY <2>1, <2>2 DEF PhaseInv, CaptureInv, RemovalInv, Abortable, Releasing, Detaching,
       Discarded, Removing
<1> QED
  BY <1>1, <1>2, <1>3

LEMMA PhaseNext == ASSUME BackupInv, Step PROVE PhaseInv'
<1> USE DEF BackupInv, BackupTypes
<1>1. \A step : Goto(step) => op'.step = step /\ op'.goal = op.goal /\ op'.call = op.call
  BY GotoOp
<1>2. CASE Context
  BY <1>2 DEF Context, At, CallType, PhaseInv, Abortable, Releasing, Detaching, Discarded,
     Removing, ContextExact, Valid, ClosedInv, RowTypes, Phase, Active, journalVars
<1>3. CASE Snapshot \/ PrepareStaging \/ StageCoordination
  <2>1. /\ op'.step \in {"staging", "coordination", "record-coordination"}
        /\ op'.call = op.call
    BY <1>1, <1>3 DEF Snapshot, PrepareStaging, StageCoordination, Stage, CallType
  <2>2. phase \in Capturing /\ phase' = phase /\ ~Removing
    BY <1>3 DEF Snapshot, PrepareStaging, StageCoordination, Stage, At, PhaseInv, Abortable,
       Releasing, Detaching, Discarded, journalVars
  <2> QED
    BY <2>1, <2>2 DEF PhaseInv, Abortable, Releasing, Detaching, Discarded, Removing
<1>4. CASE RecordCoordination \/ RecordRepository \/ RecordVerified
  BY <1>1, <1>4 DEF RecordCoordination, RecordRepository, RecordVerified, Record, At, PhaseInv,
     Abortable, Releasing, Detaching, Discarded, Removing, Capturing
<1>5. CASE CaptureDirectory \/ CaptureOwner \/ CaptureBundle \/ CaptureMarker \/ StageBundle
  BY <1>1, <1>5 DEF CaptureDirectory, CaptureOwner, CaptureBundle, CaptureMarker, StageBundle,
     Stage, At, PhaseInv, Abortable, Releasing, Detaching, Discarded, Removing, Capturing,
     journalVars
<1>6. CASE StageManifest \/ VerifyStaged \/ PrepareCopy \/ Copy \/ VerifyCopy
  BY <1>1, <1>6 DEF StageManifest, Stage, VerifyStaged, PrepareCopy, Copy, VerifyCopy, At,
     PhaseInv, Abortable, Releasing, Detaching, Discarded, Removing, Capturing, journalVars
<1>7. CASE Publish \/ Reread \/ VerifyPublished \/ Register
  <2>1. /\ op'.call = op.call
        /\ \/ op'.step \in {"register", "capture-dir"}
           \/ op'.step = "remove-intent" /\ op'.goal = "release"
    BY <1>1, <1>7 DEF Publish, Reread, VerifyPublished, Register, CallType
  <2>2. phase' = "artifact-published" /\ ~Removing
    BY <1>7 DEF Publish, Reread, VerifyPublished, Register, At, PhaseInv, Abortable, Releasing, Detaching,
       Discarded, journalVars
  <2> QED
    BY <2>1, <2>2 DEF PhaseInv, Abortable, Releasing, Detaching, Discarded, Removing, Capturing
<1>8. CASE RemoveIntent
  BY <1>1, <1>8 DEF RemoveIntent, NothingCaptured, At, PhaseInv, EndedInv, Abortable,
     Releasing, Detaching, Discarded, Removing, journalVars
<1>9. CASE Detach \/ Sweep \/ Forget \/ Unstage
  BY <1>1, <1>9 DEF Detach, Sweep, Forget, Unstage, AfterStaging, At, PhaseInv, Abortable,
     Releasing, Detaching, Discarded, Removing, journalVars
<1>10. CASE Unpublish \/ Undeliver \/ Unown \/ Unhome
  BY <1>1, <1>10 DEF Unpublish, Undeliver, Unown, Unhome, At, PhaseInv, Abortable, Releasing, Detaching,
     Discarded, Removing, Idle, journalVars
<1> QED
  BY <1>2, <1>3, <1>4, <1>5, <1>6, <1>7, <1>8, <1>9, <1>10, Elsewhere DEF Step

LEMMA CaptureNext == ASSUME BackupInv, Step PROVE CaptureInv'
<1> USE DEF BackupInv, BackupTypes
<1>1. \A step : Goto(step) =>
        op'.step = step /\ op'.records = op.records /\ op'.refs = op.refs
  BY GotoOp
<1>2. CASE Context
  BY <1>2 DEF Context, CallType, CaptureInv
<1>3. CASE Snapshot
  <2>1. /\ op'.step = "staging" /\ op'.refs = git
        /\ op'.records = IF phase = "prepared" THEN db ELSE staged["coordination"]
    BY <1>3 DEF Snapshot, CallType
  <2>2. db' = db /\ git = db /\ phase' = phase
    BY <1>3 DEF Snapshot, At, PhaseInv, Abortable, ClosedInv, Active, journalVars, projectVars
  <2> QED
    BY <2>1, <2>2 DEF CaptureInv
<1>4. CASE PrepareStaging
  BY <1>1, <1>4 DEF PrepareStaging, At, CaptureInv, journalVars, projectVars
<1>5. CASE StageCoordination
  <2>1. staged'["coordination"] = op.records
    BY <1>5, AddFile DEF StageCoordination, Stage, DiskTypes, CallType, File
  <2> QED
    BY <1>1, <1>5, <2>1 DEF StageCoordination, Stage, At, CaptureInv, journalVars, projectVars
<1>6. CASE RecordCoordination
  BY <1>1, <1>6 DEF RecordCoordination, Record, At, CaptureInv, PhaseInv, Abortable, Capturing,
     projectVars, storeVars, stagingVars
<1>7. CASE CaptureDirectory \/ CaptureOwner
  BY <1>1, <1>7 DEF CaptureDirectory, CaptureOwner, At, CaptureInv, PhaseInv, journalVars,
     projectVars, stagingVars
<1>8. CASE CaptureBundle
  <2>1. git = db /\ phase \in Capturing
    BY <1>8 DEF CaptureBundle, At, PhaseInv, Abortable, ClosedInv, Active
  <2>2. bundle' = op.refs
    BY <1>8, <2>1 DEF CaptureBundle, Admits, At, CaptureInv
  <2> QED
    BY <1>1, <1>8, <2>1, <2>2 DEF CaptureBundle, At, CaptureInv, journalVars, projectVars,
       stagingVars
<1>9. CASE CaptureMarker
  BY <1>1, <1>9 DEF CaptureMarker, At, CaptureInv, journalVars, projectVars, stagingVars
<1>10. CASE StageBundle
  <2>1. staged'["bundle"] = bundle /\ staged'["coordination"] = staged["coordination"]
    BY <1>10, AddFile DEF StageBundle, Stage, DiskTypes, File
  <2> QED
    BY <1>1, <1>10, <2>1 DEF StageBundle, Stage, At, CaptureInv, journalVars, projectVars,
       captureVars
<1>11. CASE RecordRepository
  BY <1>1, <1>11 DEF RecordRepository, Record, At, CaptureInv, PhaseInv, Abortable, Capturing,
     projectVars, storeVars, stagingVars, captureVars
<1>12. CASE StageManifest
  <2>1. staged["coordination"] = db /\ bundle = db
    BY <1>12 DEF StageManifest, Stage, Admits, Consistent, At, CaptureInv, PhaseInv, Abortable
  <2>2. staged'["manifest"] = <<db, db>>
    BY <1>12, <2>1, AddFile DEF StageManifest, Stage, DiskTypes, RowTypes, File
  <2> QED
    BY <1>1, <1>12, <2>2 DEF StageManifest, Stage, CaptureInv, projectVars
<1>13. CASE VerifyStaged \/ RecordVerified \/ PrepareCopy \/ Copy
  BY <1>1, <1>13 DEF VerifyStaged, RecordVerified, Record, PrepareCopy, Copy, At, CaptureInv,
     projectVars, storeVars, stagingVars
<1>14. CASE VerifyCopy
  BY <1>1, <1>14 DEF VerifyCopy, Admits, At, CaptureInv, CopiesExact, Verified, journalVars,
     storeVars, publishVars
<1>15. CASE Publish \/ Reread \/ VerifyPublished
  BY <1>1, <1>15 DEF Publish, Reread, VerifyPublished, At, CaptureInv, PhaseInv, Capturing, journalVars
<1>16. CASE Register
  BY <1>16 DEF Register, CallType, CaptureInv
<1>17. CASE RemoveIntent \/ Detach \/ Sweep \/ Forget \/ Unstage
            \/ Unpublish \/ Undeliver \/ Unown \/ Unhome
  BY <1>1, <1>17 DEF RemoveIntent, Detach, Sweep, Forget, Unstage, AfterStaging, Unpublish,
     Undeliver, Unown, Unhome, Idle, CaptureInv
<1> QED
  BY <1>2, <1>3, <1>4, <1>5, <1>6, <1>7, <1>8, <1>9, <1>10, <1>11, <1>12, <1>13, <1>14, <1>15,
     <1>16, <1>17, Elsewhere DEF Step

LEMMA RemovalNext == ASSUME BackupInv, Step PROVE RemovalInv'
<1> USE DEF BackupInv, BackupTypes
<1>1. \A step : Goto(step) => op'.step = step
  BY GotoOp
<1>2. CASE Context \/ Snapshot \/ Register
  BY <1>2 DEF Context, Snapshot, Register, CallType, RemovalInv, Discarded
<1>3. CASE PrepareStaging \/ StageCoordination \/ RecordCoordination \/ CaptureDirectory
           \/ CaptureOwner \/ CaptureBundle \/ CaptureMarker \/ StageBundle
           \/ RecordRepository
  BY <1>1, <1>3 DEF PrepareStaging, StageCoordination, Stage, RecordCoordination, Record,
     CaptureDirectory, CaptureOwner, CaptureBundle, CaptureMarker, StageBundle,
     RecordRepository, RemovalInv, Discarded
<1>4. CASE StageManifest \/ VerifyStaged \/ RecordVerified \/ PrepareCopy \/ Copy
           \/ VerifyCopy \/ Publish \/ Reread \/ VerifyPublished
  BY <1>1, <1>4 DEF StageManifest, Stage, VerifyStaged, RecordVerified, Record, PrepareCopy,
     Copy, VerifyCopy, Publish, Reread, VerifyPublished, RemovalInv, Discarded
<1>5. CASE RemoveIntent \/ Detach \/ Sweep \/ Forget
  BY <1>1, <1>5 DEF RemoveIntent, NothingCaptured, Detach, Sweep, Forget, At, RemovalInv,
     Discarded, captureVars
<1>6. CASE Unstage \/ Unpublish \/ Undeliver \/ Unown \/ Unhome
  BY <1>1, <1>6 DEF Unstage, AfterStaging, Unpublish, Undeliver, Unown, Unhome, At, Idle, PhaseInv, Releasing,
     Discarded, Detaching, RemovalInv, stagingVars, captureVars
<1> QED
  BY <1>2, <1>3, <1>4, <1>5, <1>6, Elsewhere DEF Step

-----------------------------------------------------------------------------
(* Theorems. *)

LEMMA NextInv == BackupInv /\ [Next]_vars => BackupInv'
<1> SUFFICES ASSUME BackupInv, [Next]_vars PROVE BackupInv'
  OBVIOUS
<1>1. CASE Next
  <2>1. BackupTypes'
    BY <1>1, RowTypesNext, DiskTypesNext, CallTypeNext DEF BackupInv, BackupTypes
  <2>2. ClosedInv' /\ RecordInv' /\ CopiesInv' /\ EndedInv'
    BY <1>1, ClosedNext, RecordNext, CopiesNext, EndedNext
  <2>3. PhaseInv' /\ CaptureInv' /\ RemovalInv'
    BY <1>1, PhaseNext, CaptureNext, RemovalNext, CallsInv, Elsewhere DEF Next
  <2> QED
    BY <2>1, <2>2, <2>3 DEF BackupInv
<1>2. CASE UNCHANGED vars
  BY <1>2, DiskTypesKept DEF vars, journalVars, projectVars, storeVars, stagingVars,
     captureVars, publishVars, clockVars, BackupInv, BackupTypes, RowTypes, DiskTypes,
     AreFiles, CallType,
     ClosedInv, RecordInv, CopiesInv, CopiesExact, Verified, PhaseInv, CaptureInv,
     RemovalInv, EndedInv, Removing
<1> QED
  BY <1>1, <1>2

\* The types, the phase of the journal with what is recorded and copied for it, and what the
\* call under way has read, staged and removed stand together after every transaction, effect
\* on disk, failure, crash and time-out of the coordinator.
THEOREM BackupInvHolds == Spec => []BackupInv
BY InitInv, NextInv, PTL DEF Spec

\* What is published, and the backup that stays, is one checkpoint of the Project as it was
\* when the operation began: rows and repository of the same version under the recorded
\* digest, whichever attempt, build or recovery wrote each of the files.
THEOREM PublishedIsWhole == Spec => []PublishedExact
<1>1. BackupInv => PublishedExact
  BY DEF BackupInv, RecordInv, CopiesInv, CopiesExact, PublishedExact
<1> QED
  BY <1>1, BackupInvHolds, PTL

\* An operation that ended left no staging directory and no capture, a cancelled one no copies
\* and no catalog entry either, and the Project is open again; until then it is closed.
THEOREM EndedIsClean == Spec => []EndedLeavesNothing
<1>1. BackupInv => EndedLeavesNothing
  BY DEF BackupInv, ClosedInv, RecordInv, EndedInv, EndedLeavesNothing
<1> QED
  BY <1>1, BackupInvHolds, PTL
=============================================================================

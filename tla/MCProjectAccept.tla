-------------------------- MODULE MCProjectAccept --------------------------
(***************************************************************************)
(* Instances of ProjectAccept for TLC.                                     *)
(***************************************************************************)
EXTENDS ProjectAccept, TLC

CONSTANTS w1, w2, rec, m1, m2, k1, k2, r1, r2, t1, c1, c2, c3, o1, o2

OpSymmetry == Permutations({w1, w2}) \cup Permutations({o1, o2})

\* Two Members have each pushed a commit and published a request that
\* resolves the same ticket.
Published == InitWith(
  (m1 :> {c1}) @@ (m2 :> {c2}),
  [r \in Request |->
    [owner |-> IF r = r1 THEN m1 ELSE m2, head |-> IF r = r1 THEN {c1} ELSE {c2},
     rev |-> 1, status |-> "open", resolves |-> {t1}, merged |-> NoOid]])

\* The same, but the second Member has not published yet.
HalfPublished == InitWith(
  (m1 :> {c1}) @@ (m2 :> {c2}),
  [r \in Request |->
    IF r = r1 THEN [owner |-> m1, head |-> {c1}, rev |-> 1, status |-> "open",
                    resolves |-> {t1}, merged |-> NoOid]
              ELSE NoRequest])

PublishedSpec == (Published \/ HalfPublished) /\ [][Next]_vars

\* One Member has pushed and published.
OnePublished == InitWith(
  (m1 :> {c1}),
  (r1 :> [owner |-> m1, head |-> {c1}, rev |-> 1, status |-> "open",
          resolves |-> {t1}, merged |-> NoOid]))

FairSpec == OnePublished /\ [][Next]_vars /\ Fairness
=============================================================================

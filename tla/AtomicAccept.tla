---------------------------- MODULE AtomicAccept ----------------------------
(***************************************************************************)
(* What Accept promises the clients of one Project, as if PostgreSQL and   *)
(* Git committed together: an accepted intent moves main once, from        *)
(* exactly the main it was reviewed against to a commit that contains the  *)
(* request's head; and only an intent that took effect is acknowledged.    *)
(***************************************************************************)
VARIABLES
  main,       \* the main ref that clients fetch
  accepted,   \* the intents that took effect, with the main each produced
  replied     \* the acknowledgements sent

vars == <<main, accepted, replied>>

Init == main = {} /\ accepted = {} /\ replied = {}

\* The same intent (actor and key), or the same request, is not accepted twice.
New(in) ==
  \A a \in accepted : /\ <<a.in.actor, a.in.key>> # <<in.actor, in.key>>
                      /\ a.in.req # in.req

Accept ==
  /\ \E a \in accepted' \ accepted :
       /\ accepted' = accepted \cup {a}
       /\ New(a.in)
       /\ a.in.main = main
       /\ a.in.head \subseteq a.result /\ main \subseteq a.result
       /\ main' = a.result
  /\ UNCHANGED replied

Acknowledge ==
  /\ \E a \in accepted : replied' = replied \cup {a}
  /\ UNCHANGED <<main, accepted>>

Next == Accept \/ Acknowledge

Spec == Init /\ [][Next]_vars
=============================================================================

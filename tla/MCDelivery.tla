----------------------------- MODULE MCDelivery -----------------------------
(***************************************************************************)
(* An event on its way to the feed, one stretch of it at a time: from its  *)
(* emission to its delivery (EventDelivery: two events, two emissions, a   *)
(* relay and an operator), and from its delivery to its rows               *)
(* (FeedRecords: three deliveries, two replicas and two runs).             *)
(***************************************************************************)
EXTENDS EventDelivery, FeedRecords, TLC

CONSTANTS e1, e2, m1, m2, r1, op

MCEvents == {e1, e2}
MCEmitters == {m1, m2}
MCRelays == {r1}
MCOperators == {op}
Emitted(a, b, k1, k2, runless) ==
  [emits |-> (m1 :> a) @@ (m2 :> b), kind |-> (e1 :> k1) @@ (e2 :> k2), runless |-> runless]
\* One event emitted twice (its door, then the reconciler), sound or not yet
\* granted, of a run or a static change; and two events, one of them beyond
\* repair or no event at all.
MCOffers ==
  {Emitted(e1, e1, "sound", "sound", {}), Emitted(e1, e1, "ungranted", "sound", {}),
   Emitted(e1, e1, "ungranted", "sound", {e1}),
   Emitted(e1, e2, "ungranted", "poison", {e2}), Emitted(e1, e2, "sound", "unrepairable", {e1})}

CONSTANTS ea, eb, ec, shared, own, alice, bob, s1, s2, c1, c2, c3

Delivered(made, e, at, refused, forwards) ==
  [made |-> made, event |-> (c1 :> e[1]) @@ (c2 :> e[2]) @@ (c3 :> e[3]),
   at |-> (c1 :> at[1]) @@ (c2 :> at[2]) @@ (c3 :> at[3]),
   refused |-> refused, forwards |-> forwards]
\* Two authors on one run delivered together, the same run on two replicas (one
\* event twice, or under two authors), an event the catalog refuses, and two
\* forwarders.
MCDeliveries ==
  {Delivered({c1, c2, c3}, <<ea, eb, ec>>, <<s1, s1, s1>>, {}, {}),
   Delivered({c1, c2}, <<ea, ea, ec>>, <<s1, s2, s2>>, {}, {}),
   Delivered({c1, c2}, <<ea, eb, ec>>, <<s1, s2, s2>>, {}, {}),
   Delivered({c1, c2, c3}, <<ea, ec, ea>>, <<s1, s1, s1>>, {ec}, {}),
   Delivered({c1, c2}, <<ea, ec, ea>>, <<s1, s1, s1>>, {}, {s1, s2})}
NoDelivery == Delivered({}, <<ea, ea, ea>>, <<s1, s1, s1>>, {}, {})

AllDeliveries == MCDeliveries \cup {NoDelivery}
MCRunEvents == {ea, eb, ec}
MCRuns == {shared, own}
MCAuthors == {alice, bob}
MCRunOf == (ea :> shared) @@ (eb :> shared) @@ (ec :> own)
MCAuthorOf == (ea :> alice) @@ (eb :> bob) @@ (ec :> alice)
MCCalls == {c1, c2, c3}
MCStores == {s1, s2}

VARIABLE part   \* the stretch: "delivery", "records"

MCInit ==
  /\ Init /\ RecInit
  /\ \/ part = "delivery" /\ given = NoDelivery
     \/ part = "records" /\ given # NoDelivery /\ offer = Emitted(e1, e1, "sound", "sound", {})

MCNext ==
  /\ UNCHANGED part
  /\ \/ part = "delivery" /\ Next /\ UNCHANGED recVars
     \/ part = "records" /\ RecNext /\ UNCHANGED vars

\* The fairness of the two, each in its own stretch.
MCFairness ==
  /\ WF_vars(part = "delivery" /\ \E e \in Emitters : EmitStep(e))
  /\ WF_vars(part = "delivery" /\ \E v \in Events : IntakeStep(v))
  /\ WF_vars(part = "delivery" /\ \E d \in Drainers : DrainStep(d) \/ (d \in Relays /\ RelayStep(d)))
  /\ WF_recVars(part = "records" /\ \E c \in Calls : Record(c))
  /\ WF_recVars(part = "records" /\ \E c \in Calls : DeliversAgain(c))
  /\ WF_recVars(part = "records" /\ \E c \in Calls : ~landing[given.at[c]] /\ StopsWaiting(c))
  /\ WF_recVars(part = "records" /\ \E s \in Stores : WriterStep(s))

MCSpec == MCInit /\ [][MCNext]_<<part, vars, recVars>> /\ MCFairness
=============================================================================

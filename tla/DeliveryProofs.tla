--------------------------- MODULE DeliveryProofs ---------------------------
(***************************************************************************)
(* An event on its way to the feed, for any number of events, emitters,    *)
(* relays, operators, lineage replicas, deliveries and faults: what the    *)
(* outbox, the bus and the parking route keep (EventDelivery), then what   *)
(* the provenance tables hold of it (FeedRecords).                         *)
(***************************************************************************)
EXTENDS EventDelivery, FeedRecords, FiniteSetTheorems, SequenceTheorems, NaturalsInduction, TLAPS

\* The shape of a call's and of a drainer's locals.
Emitting == [pc : {"stage", "publish", "drop", "done"}, staged : BOOLEAN]
Draining == [pc : {"idle", "next", "republish", "drop", "refuse"}, left : SUBSET Events, event : SUBSET Events]
Shapes ==
  /\ emit \in [Emitters -> Emitting] /\ drain \in [Drainers -> Draining]
  /\ outbox \subseteq Events /\ offer \in Offers

\* Where an event is once it left the outbox.
Carried == stream \cup dlq \cup Settled \cup unkept

\* An event a publish of which returned is on its way or at rest, or its park failed.
ToldIsCarried == \A v \in told : Acked(v) \/ v \in Carried

\* Who drops a staged copy has published it, has its refusal on record, or
\* judged it beyond repair.
DropsAreSafe ==
  /\ \A e \in Emitters : emit[e].pc = "drop" => offer.emits[e] \in told
  /\ \A d \in Drainers : drain[d].pc = "drop" =>
       \A v \in drain[d].event : Acked(v) \/ v \in told \cup refusals

DeliveryInv == Shapes /\ ToldIsCarried /\ DropsAreSafe /\ NoEventVanishes

-----------------------------------------------------------------------------

\* A drainer at rest is typed, and so is one that goes on.
LEMMA RestShaped == NoDrain \in Draining
  BY DEF NoDrain, Draining

LEMMA OnwardShaped == ASSUME Shapes, NEW d \in Drainers
                      PROVE  Onward(d) \in Draining /\ Onward(d).pc \in {"next", "idle"}
  BY DEF Shapes, Onward, Draining

\* The emitters' and the drainers' steps keep their locals in shape.
LEMMA ShapesStep == ASSUME Shapes, Next PROVE Shapes'
<1>t. /\ emit \in [Emitters -> Emitting] /\ drain \in [Drainers -> Draining] /\ outbox \subseteq Events
      /\ Relays \subseteq Drainers /\ Operators \subseteq Drainers
      /\ \A e \in Emitters : offer.emits[e] \in Events
  BY DeliveryAssumption DEF Shapes, Drainers
<1>o. offer' = offer
  BY DEF Next, EmitStep, StageEvent, PublishEvent, DropEvent, StageFails, PublishFails, EmitStops, EmitVars,
         IntakeStep, Deliver, DeadLetter, Redelivered, RetriesRunOut, DeadLetterUnrecovered, DeadLetterReread, ReplayParked,
         IntakeVars, Granted, OperatorReplays, RelayStep, RelayLists, RelayRetiresParks, DrainRefuses,
         DrainEvent, DrainStep, DrainRepublish, DrainDrops, DrainStrands, DrainerDies, DrainVars, Done, vars
<1>q. ASSUME emit' \in [Emitters -> Emitting], drain' \in [Drainers -> Draining], outbox' \subseteq Events
      PROVE  Shapes'
  BY <1>q, <1>o DEF Shapes
<1>1. ASSUME NEW e \in Emitters,
             EmitStep(e) \/ StageFails(e) \/ PublishFails(e) \/ EmitStops(e)
      PROVE  Shapes'
  <2>1. drain' = drain /\ outbox' \subseteq Events
    BY <1>1, <1>t DEF EmitStep, StageEvent, PublishEvent, DropEvent, StageFails, PublishFails, EmitStops, EmitVars
  <2>2. emit[e] \in Emitting /\ \A pc \in {"publish", "drop", "done"} : [emit[e] EXCEPT !.pc = pc] \in Emitting
    BY <1>t DEF Emitting
  <2>3. CASE StageEvent(e)
    <3>1. [pc |-> "publish", staged |-> TRUE] \in Emitting
      BY DEF Emitting
    <3> QED BY <2>3, <3>1, <2>1, <1>t, <1>q DEF StageEvent
  <2>4. CASE PublishEvent(e) \/ PublishFails(e)
    <3>1. \A b \in BOOLEAN : AfterPublish(e, b) \in Emitting
      BY <2>2 DEF AfterPublish
    <3>2. emit' \in [Emitters -> Emitting]
      BY <2>4, <3>1, <1>t DEF PublishEvent, PublishFails
    <3> QED BY <3>2, <2>1, <1>t, <1>q
  <2>5. CASE DropEvent(e) \/ StageFails(e) \/ EmitStops(e)
    <3>1. \E pc \in {"publish", "done"} : emit' = [emit EXCEPT ![e] = [emit[e] EXCEPT !.pc = pc]]
      BY <2>5, <1>t DEF DropEvent, StageFails, EmitStops
    <3>2. emit' \in [Emitters -> Emitting]
      BY <3>1, <2>2, <1>t
    <3> QED BY <3>2, <2>1, <1>t, <1>q
  <2> QED BY <1>1, <2>3, <2>4, <2>5 DEF EmitStep
<1>2. ASSUME NEW v \in Events,
             IntakeStep(v) \/ Redelivered(v) \/ RetriesRunOut(v) \/ DeadLetterUnrecovered(v) \/ DeadLetterReread(v) \/ ReplayParked(v)
               \/ Granted(v)
      PROVE  Shapes'
  <2>1. UNCHANGED <<emit, drain, outbox>>
    BY <1>2 DEF IntakeStep, Deliver, DeadLetter, Redelivered, RetriesRunOut, DeadLetterUnrecovered, DeadLetterReread, ReplayParked,
                IntakeVars, Granted
  <2> QED BY <2>1, <1>t, <1>q
<1>d. ASSUME NEW d \in Drainers, NEW x \in Draining, drain' = [drain EXCEPT ![d] = x], emit' = emit, outbox' \subseteq outbox
      PROVE  Shapes'
  BY <1>d, <1>t, <1>q
<1>3. ASSUME NEW o \in Operators, NEW v \in Events, OperatorReplays(o, v) PROVE Shapes'
  <2>1. [pc |-> "republish", left |-> {}, event |-> {v}] \in Draining
    BY DEF Draining
  <2> QED BY <1>3, <2>1, <1>d, <1>t DEF OperatorReplays, DrainVars
<1>4. ASSUME NEW r \in Relays, RelayLists(r) PROVE Shapes'
  <2>1. [NoDrain EXCEPT !.pc = "next", !.left = outbox] \in Draining
    BY <1>t DEF NoDrain, Draining
  <2> QED BY <1>4, <2>1, <1>d, <1>t DEF RelayLists, DrainVars
<1>5. ASSUME NEW r \in Relays, NEW v \in Events, DrainEvent(r, v) PROVE Shapes'
  <2>1. AfterJudging(v) \in {"drop", "republish", "refuse"}
    BY DEF AfterJudging
  <2>2. [pc |-> AfterJudging(v), left |-> drain[r].left \ {v}, event |-> {v}] \in Draining
    BY <2>1, <1>t DEF Draining
  <2> QED BY <1>5, <2>2, <1>d, <1>t DEF DrainEvent, DrainVars
<1>6. ASSUME NEW d \in Drainers, DrainRepublish(d) \/ DrainRefuses(d) PROVE Shapes'
  <2>1. [drain[d] EXCEPT !.pc = "drop"] \in Draining
    BY <1>t DEF Draining
  <2>2. drain' = [drain EXCEPT ![d] = [drain[d] EXCEPT !.pc = "drop"]]
    BY <1>6, <1>t DEF DrainRepublish, DrainRefuses
  <2> QED BY <1>6, <2>1, <2>2, <1>d DEF DrainRepublish, DrainRefuses, DrainVars
<1>7. ASSUME NEW d \in Drainers, DrainDrops(d) \/ DrainStrands(d) \/ DrainerDies(d) \/ RelayRetiresParks(d) PROVE Shapes'
  <2>1. \E x \in {Onward(d), NoDrain} : drain' = [drain EXCEPT ![d] = x]
    BY <1>7 DEF DrainDrops, DrainStrands, DrainerDies, RelayRetiresParks
  <2>2. emit' = emit /\ outbox' \subseteq outbox
    BY <1>7 DEF DrainDrops, DrainStrands, DrainerDies, RelayRetiresParks, DrainVars
  <2> QED BY <2>1, <2>2, <1>d, RestShaped, OnwardShaped
<1>8. CASE Done
  BY <1>8, <1>t, <1>q DEF Done, vars
<1> QED BY <1>1, <1>2, <1>3, <1>4, <1>5, <1>6, <1>7, <1>8, <1>t DEF Next, RelayStep, DrainStep

\* What an event needs of a step: whoever takes it from where it is carried puts
\* it where it is carried too.
LEMMA CarriedStays == ASSUME Next PROVE \A v \in Carried : Acked(v) \/ v \in Carried'
<1> USE DEF Carried, Settled
<1>1. ASSUME NEW e \in Emitters, EmitStep(e) \/ StageFails(e) \/ PublishFails(e) \/ EmitStops(e)
      PROVE  Carried \subseteq Carried'
  BY <1>1 DEF EmitStep, StageEvent, PublishEvent, DropEvent, StageFails, PublishFails, EmitStops, EmitVars
<1>2. ASSUME NEW v \in Events, Deliver(v) PROVE \A w \in Carried : Acked(w) \/ w \in Carried'
  BY <1>2 DEF Deliver, IntakeVars
<1>3. ASSUME NEW v \in Events, DeadLetter(v) PROVE Carried \subseteq Carried'
  BY <1>3 DEF DeadLetter, IntakeVars
<1>4. ASSUME NEW v \in Events,
             Redelivered(v) \/ RetriesRunOut(v) \/ DeadLetterUnrecovered(v) \/ DeadLetterReread(v) \/ ReplayParked(v) \/ Granted(v)
      PROVE  Carried \subseteq Carried'
  BY <1>4 DEF Redelivered, RetriesRunOut, DeadLetterUnrecovered, DeadLetterReread, ReplayParked, Granted, IntakeVars
<1>5. ASSUME NEW d, RelayLists(d) \/ RelayRetiresParks(d) \/ DrainRefuses(d) \/ DrainStep(d) \/ DrainStrands(d) \/ DrainerDies(d)
      PROVE  Carried \subseteq Carried'
  BY <1>5 DEF RelayLists, RelayRetiresParks, DrainRefuses, DrainStep, DrainRepublish, DrainDrops, DrainStrands,
              DrainerDies, DrainVars
<1>6. ASSUME NEW d, NEW v, DrainEvent(d, v) \/ OperatorReplays(d, v) PROVE Carried \subseteq Carried'
  BY <1>6 DEF DrainEvent, OperatorReplays, DrainVars
<1>7. CASE Done
  BY <1>7 DEF Done, vars
<1> QED BY <1>1, <1>2, <1>3, <1>4, <1>5, <1>6, <1>7 DEF Next, IntakeStep, RelayStep

\* Records of what was told and refused only grow, what becomes told is on the
\* bus, and what becomes owed is staged or told.
LEMMA BooksGrow ==
  ASSUME Next
  PROVE  /\ offer' = offer /\ told \subseteq told' /\ refusals \subseteq refusals'
         /\ told' \subseteq told \cup stream' /\ owed' \subseteq owed \cup outbox' \cup told'
<1>1. ASSUME NEW e \in Emitters, EmitStep(e) \/ StageFails(e) \/ PublishFails(e) \/ EmitStops(e)
      PROVE  /\ offer' = offer /\ told \subseteq told' /\ refusals \subseteq refusals'
             /\ told' \subseteq told \cup stream' /\ owed' \subseteq owed \cup outbox' \cup told'
  BY <1>1 DEF EmitStep, StageEvent, PublishEvent, DropEvent, StageFails, PublishFails, EmitStops, EmitVars
<1>2. ASSUME NEW v \in Events,
             IntakeStep(v) \/ Redelivered(v) \/ RetriesRunOut(v) \/ DeadLetterUnrecovered(v) \/ DeadLetterReread(v) \/ ReplayParked(v)
               \/ Granted(v)
      PROVE  UNCHANGED <<offer, told, refusals, owed>>
  BY <1>2 DEF IntakeStep, Deliver, DeadLetter, Redelivered, RetriesRunOut, DeadLetterUnrecovered, DeadLetterReread, ReplayParked,
              IntakeVars, Granted
<1>3. ASSUME NEW d, \/ RelayLists(d) \/ RelayRetiresParks(d) \/ DrainRefuses(d) \/ DrainStep(d) \/ DrainStrands(d)
                    \/ DrainerDies(d) \/ \E v \in Events : DrainEvent(d, v) \/ OperatorReplays(d, v)
      PROVE  /\ offer' = offer /\ told \subseteq told' /\ refusals \subseteq refusals'
             /\ told' \subseteq told \cup stream' /\ owed' = owed
  BY <1>3 DEF RelayLists, RelayRetiresParks, DrainRefuses, DrainStep, DrainRepublish, DrainDrops, DrainStrands,
              DrainerDies, DrainVars, DrainEvent, OperatorReplays
<1>4. CASE Done
  BY <1>4 DEF Done, vars
<1> QED BY <1>1, <1>2, <1>3, <1>4 DEF Next, RelayStep

\* A staged copy that goes was published, refused on record, or beyond repair.
LEMMA DroppedIsSafe ==
  ASSUME Shapes, DropsAreSafe, Next PROVE \A v \in outbox \ outbox' : Acked(v) \/ v \in told \cup refusals
<1>1. ASSUME NEW e \in Emitters, DropEvent(e) PROVE \A v \in outbox \ outbox' : v \in told
  BY <1>1 DEF DropEvent, DropsAreSafe
<1>2. ASSUME NEW d \in Drainers, DrainDrops(d) PROVE \A v \in outbox \ outbox' : Acked(v) \/ v \in told \cup refusals
  BY <1>2 DEF DrainDrops, DropsAreSafe
<1>3. ASSUME NEW e \in Emitters, StageEvent(e) \/ PublishEvent(e) \/ StageFails(e) \/ PublishFails(e) \/ EmitStops(e)
      PROVE  outbox \subseteq outbox'
  BY <1>3 DEF StageEvent, PublishEvent, StageFails, PublishFails, EmitStops, EmitVars
<1>4. ASSUME NEW v \in Events,
             IntakeStep(v) \/ Redelivered(v) \/ RetriesRunOut(v) \/ DeadLetterUnrecovered(v) \/ DeadLetterReread(v) \/ ReplayParked(v)
               \/ Granted(v)
      PROVE  outbox' = outbox
  BY <1>4 DEF IntakeStep, Deliver, DeadLetter, Redelivered, RetriesRunOut, DeadLetterUnrecovered, DeadLetterReread, ReplayParked,
              IntakeVars, Granted
<1>5. ASSUME NEW d, \/ RelayLists(d) \/ RelayRetiresParks(d) \/ DrainRefuses(d) \/ DrainRepublish(d) \/ DrainStrands(d)
                    \/ DrainerDies(d) \/ \E v \in Events : DrainEvent(d, v) \/ OperatorReplays(d, v)
      PROVE  outbox' = outbox
  BY <1>5 DEF RelayLists, RelayRetiresParks, DrainRefuses, DrainRepublish, DrainStrands,
              DrainerDies, DrainEvent, OperatorReplays
<1>6. CASE Done
  BY <1>6 DEF Done, vars
<1> QED BY <1>1, <1>2, <1>3, <1>4, <1>5, <1>6 DEF Next, EmitStep, RelayStep, DrainStep

\* Nobody comes to drop a copy otherwise.
LEMMA DropsStep == ASSUME Shapes, DropsAreSafe, Next PROVE DropsAreSafe'
<1>t. /\ emit \in [Emitters -> Emitting] /\ drain \in [Drainers -> Draining]
      /\ Relays \subseteq Drainers /\ Operators \subseteq Drainers
  BY DEF Shapes, Drainers
<1>g. offer' = offer /\ told \subseteq told' /\ refusals \subseteq refusals' /\ \A v : Acked(v)' = Acked(v)
  BY BooksGrow DEF Acked
<1>e. ASSUME NEW e \in Emitters, emit'[e] = emit[e], emit'[e].pc = "drop" PROVE (offer.emits[e] \in told)'
  BY <1>e, <1>g DEF DropsAreSafe
<1>d. ASSUME NEW d \in Drainers, drain'[d] = drain[d], drain'[d].pc = "drop"
      PROVE  \A v \in drain'[d].event : Acked(v)' \/ v \in told' \cup refusals'
  BY <1>d, <1>g DEF DropsAreSafe
<1>1. ASSUME NEW e \in Emitters, EmitStep(e) \/ StageFails(e) \/ PublishFails(e) \/ EmitStops(e)
      PROVE  DropsAreSafe'
  <2>1. drain' = drain /\ \A f \in Emitters \ {e} : emit'[f] = emit[f]
    BY <1>1, <1>t DEF EmitStep, StageEvent, PublishEvent, DropEvent, StageFails, PublishFails, EmitStops, EmitVars
  <2>2. emit'[e].pc = "drop" => offer.emits[e] \in told'
    <3>1. CASE PublishEvent(e)
      BY <3>1 DEF PublishEvent
    <3>2. CASE StageEvent(e) \/ DropEvent(e) \/ StageFails(e) \/ EmitStops(e)
      BY <3>2, <1>t DEF StageEvent, DropEvent, StageFails, EmitStops, Emitting
    <3>3. CASE PublishFails(e)
      BY <3>3, <1>t DEF PublishFails, AfterPublish, Emitting
    <3> QED BY <1>1, <3>1, <3>2, <3>3 DEF EmitStep
  <2> QED BY <2>1, <2>2, <1>e, <1>d, <1>g DEF DropsAreSafe
<1>2. ASSUME UNCHANGED <<emit, drain>> PROVE DropsAreSafe'
  BY <1>2, <1>e, <1>d DEF DropsAreSafe
<1>3. ASSUME NEW v \in Events,
             IntakeStep(v) \/ Redelivered(v) \/ RetriesRunOut(v) \/ DeadLetterUnrecovered(v) \/ DeadLetterReread(v) \/ ReplayParked(v)
               \/ Granted(v)
      PROVE  UNCHANGED <<emit, drain>>
  BY <1>3 DEF IntakeStep, Deliver, DeadLetter, Redelivered, RetriesRunOut, DeadLetterUnrecovered, DeadLetterReread, ReplayParked,
              IntakeVars, Granted
<1>u. ASSUME NEW d \in Drainers, NEW x, drain' = [drain EXCEPT ![d] = x], emit' = emit,
             x.pc = "drop" => \A v \in x.event : Acked(v) \/ v \in told' \cup refusals'
      PROVE  DropsAreSafe'
  <2>1. drain'[d] = x /\ \A q \in Drainers \ {d} : drain'[q] = drain[q]
    BY <1>u, <1>t
  <2> QED BY <1>u, <2>1, <1>e, <1>d, <1>g DEF DropsAreSafe
<1>4. ASSUME NEW o \in Operators, NEW v \in Events, OperatorReplays(o, v) PROVE DropsAreSafe'
  BY <1>4, <1>u, <1>t DEF OperatorReplays, DrainVars
<1>5. ASSUME NEW r \in Relays, RelayLists(r) PROVE DropsAreSafe'
  <2>1. [NoDrain EXCEPT !.pc = "next", !.left = outbox].pc = "next"
    BY DEF NoDrain
  <2> QED BY <1>5, <2>1, <1>u, <1>t DEF RelayLists, DrainVars
<1>6. ASSUME NEW r \in Relays, NEW v \in Events, DrainEvent(r, v) PROVE DropsAreSafe'
  <2>1. AfterJudging(v) = "drop" => Acked(v)
    BY DEF AfterJudging, Acked
  <2> QED BY <1>6, <2>1, <1>u, <1>t DEF DrainEvent, DrainVars
<1>7. ASSUME NEW d \in Drainers, DrainRepublish(d) \/ DrainRefuses(d) PROVE DropsAreSafe'
  <2>1. [drain[d] EXCEPT !.pc = "drop"].event = drain[d].event
    BY <1>t DEF Draining
  <2>2. drain' = [drain EXCEPT ![d] = [drain[d] EXCEPT !.pc = "drop"]] /\ emit' = emit
    BY <1>7, <1>t DEF DrainRepublish, DrainRefuses, DrainVars
  <2>3. drain[d].event \subseteq told' \cup refusals'
    BY <1>7 DEF DrainRepublish, DrainRefuses
  <2> QED BY <2>1, <2>2, <2>3, <1>u
<1>8. ASSUME NEW d \in Drainers, DrainDrops(d) \/ DrainStrands(d) \/ DrainerDies(d) \/ RelayRetiresParks(d) PROVE DropsAreSafe'
  <2>1. \E x \in {Onward(d), NoDrain} : drain' = [drain EXCEPT ![d] = x]
    BY <1>8 DEF DrainDrops, DrainStrands, DrainerDies, RelayRetiresParks
  <2>2. emit' = emit /\ Onward(d).pc # "drop" /\ NoDrain.pc # "drop"
    BY <1>8, OnwardShaped DEF DrainDrops, DrainStrands, DrainerDies, RelayRetiresParks, DrainVars, NoDrain
  <2> QED BY <2>1, <2>2, <1>u
<1>9. CASE Done
  BY <1>9, <1>2 DEF Done, vars
<1> QED BY <1>1, <1>2, <1>3, <1>4, <1>5, <1>6, <1>7, <1>8, <1>9, <1>t DEF Next, RelayStep, DrainStep

-----------------------------------------------------------------------------

\* The invariant holds of the program.
LEMMA DeliveryInvariant == Spec => []DeliveryInv
<1>1. Init => DeliveryInv
  <2> SUFFICES ASSUME Init PROVE DeliveryInv
    OBVIOUS
  <2>1. Shapes
    BY RestShaped DEF Init, Shapes, Emitting
  <2>2. ToldIsCarried /\ DropsAreSafe /\ NoEventVanishes
    BY DEF Init, ToldIsCarried, DropsAreSafe, NoEventVanishes, NoDrain
  <2> QED BY <2>1, <2>2 DEF DeliveryInv
<1>2. ASSUME DeliveryInv, Next PROVE DeliveryInv'
  <2>1. Shapes' /\ DropsAreSafe'
    BY <1>2, ShapesStep, DropsStep DEF DeliveryInv
  <2>2. \A v \in Carried : Acked(v) \/ v \in Carried'
    BY <1>2, CarriedStays
  <2>3. /\ offer' = offer /\ told \subseteq told' /\ refusals \subseteq refusals'
        /\ told' \subseteq told \cup stream' /\ owed' \subseteq owed \cup outbox' \cup told'
    BY <1>2, BooksGrow
  <2>4. \A v : Acked(v)' = Acked(v)
    BY <2>3 DEF Acked
  <2>5. ToldIsCarried'
    BY <1>2, <2>2, <2>3, <2>4 DEF DeliveryInv, ToldIsCarried, Carried
  <2>6. \A v \in outbox \ outbox' : Acked(v) \/ v \in told \cup refusals
    BY <1>2, DroppedIsSafe DEF DeliveryInv
  <2>7. NoEventVanishes'
    <3> SUFFICES ASSUME NEW v \in owed', ~ Acked(v)
                 PROVE  v \in outbox' \cup Carried' /\ v \in outbox' \cup told' \cup refusals'
      BY <2>4 DEF NoEventVanishes, Carried
    <3>1. \/ v \in outbox' \cup told'
          \/ v \in owed /\ v \in outbox \cup Carried /\ v \in outbox \cup told \cup refusals
      BY <1>2, <2>3 DEF DeliveryInv, NoEventVanishes, Carried
    <3>2. v \in told' \cup refusals' => v \in Carried'
      BY <2>4, <2>5 DEF ToldIsCarried, Carried, Settled
    <3>3. v \in outbox' \cup told' \cup refusals'
      BY <3>1, <2>3, <2>6
    <3> QED BY <3>2, <3>3
  <2> QED BY <2>1, <2>5, <2>7 DEF DeliveryInv
<1>3. ASSUME DeliveryInv, UNCHANGED vars PROVE DeliveryInv'
  BY <1>3 DEF DeliveryInv, vars, Shapes, ToldIsCarried, DropsAreSafe, NoEventVanishes, Carried, Settled, Acked
<1> QED BY <1>1, <1>2, <1>3, PTL DEF Spec

\* No event that could ever be recorded vanishes on its way to the feed, and none
\* leaves the outbox untold and unrefused, whoever crashes wherever
\* (_publish_staged, _drain_outbox, on_dead_letter, replay_dlq).
THEOREM EventsAreKept == Spec => []NoEventVanishes
<1>1. DeliveryInv => NoEventVanishes
  BY DEF DeliveryInv
<1> QED BY <1>1, DeliveryInvariant, PTL

-----------------------------------------------------------------------------
(* The provenance tables: what a follower reads and what a delivery is     *)
(* answered, for any deliveries, replicas, batches and failures.           *)

\* Recordings of the deliveries made to a replica.
MadeRec(s) == {rec \in Recording : rec.call \in given.made /\ given.at[rec.call] = s}

AtWork(s) == writer[s].pc \in {"read", "bind", "edges", "feed"}

\* A replica works on what it was given.
WorkInv(s) ==
  /\ pending[s] \in Seq(MadeRec(s))
  /\ writer[s].batch \in Seq(MadeRec(s))
  /\ writer[s].work \in Seq(Seq(MadeRec(s)))
  /\ AtWork(s) => writer[s].work # <<>>

\* Some delivery of run r by this author was made to the replica.
GivenTo(s, r, author) ==
  \E c \in given.made : given.at[c] = s /\ RunOf[given.event[c]] = r /\ AuthorOf[given.event[c]] = author

\* What the writer read still stands, and a run bound since is another replica's.
BindInv(s) ==
  writer[s].pc = "bind" =>
    \A r \in Runs : runs[r] # writer[s].bound[r] =>
      /\ writer[s].bound[r] = None
      /\ \E t \in Stores : t # s /\ GivenTo(t, r, runs[r])

\* Past the bindings, the author the writer judges by is the one bound, unless
\* two replicas were given the run under two authors.
JudgedInv(s) ==
  writer[s].pc \in {"edges", "feed"} =>
    \A i \in DOMAIN Part(s) :
      LET r == RunOfRec(Part(s)[i]) IN runs[r] # None /\ (runs[r] = BoundBy(s)[r] \/ Contested(r))

\* Past the edges, what is to be fed has its edges.
LandedInv(s) == writer[s].pc = "feed" => Landing(s) \subseteq edges

\* Who is refused as foreign is refused for a binding that is there.
ForeignInv == \A c \in Calls : calls[c].pc = "foreign" => runs[RunOf[given.event[c]]] # None

RecInv ==
  /\ RecTypeOK /\ RowsFollowEdges /\ AnswersAreTheirOwn /\ ForeignInv
  /\ \A s \in Stores : WorkInv(s) /\ BindInv(s) /\ JudgedInv(s) /\ LandedInv(s)

LEMMA FirstOfSome ==
  ASSUME NEW S \in SUBSET Nat, S # {}
  PROVE  \E m \in S : \A x \in S : m <= x
  <1>1. \E m \in S : \A x \in S : ~ (<<x, m>> \in OpToRel(<, Nat))
    BY NatLessThanWellFounded, WFMin
  <1>2. PICK m \in S : \A x \in S : ~ (x < m)
    BY <1>1 DEF OpToRel
  <1> QED BY <1>2

\* The part in hand is of what the replica was given.
LEMMA PartOfWork ==
  ASSUME NEW s \in Stores, WorkInv(s), AtWork(s)
  PROVE  Part(s) \in Seq(MadeRec(s)) /\ Tail(writer[s].work) \in Seq(Seq(MadeRec(s)))
  BY DEF WorkInv, Part

LEMMA RecordingTyped ==
  ASSUME RecTypeOK, NEW s \in Stores, NEW rec \in MadeRec(s)
  PROVE  /\ rec \in Recording /\ rec.call \in given.made /\ given.at[rec.call] = s /\ rec.call \in Calls
         /\ EventOf(rec) \in RunEvents /\ RunOfRec(rec) \in Runs /\ AuthorOfRec(rec) \in Authors
         /\ RunOfRec(rec) = RunOf[given.event[rec.call]] /\ AuthorOfRec(rec) = AuthorOf[given.event[rec.call]]
  <1>1. rec \in Recording /\ rec.call \in given.made /\ given.at[rec.call] = s /\ rec.call \in Calls
    BY DEF MadeRec, Recording
  <1>2. given.event \in [Calls -> RunEvents]
    BY RecordsAssumption DEF RecTypeOK
  <1>3. given.event[rec.call] \in RunEvents
    BY <1>1, <1>2
  <1> QED BY <1>1, <1>3, RecordsAssumption DEF EventOf, RunOfRec, AuthorOfRec

\* A run the part names has a founder in it, given to the replica.
LEMMA FounderIsGiven ==
  ASSUME RecTypeOK, NEW s \in Stores, Part(s) \in Seq(MadeRec(s)), NEW i \in DOMAIN Part(s),
         NEW r, r = RunOfRec(Part(s)[i])
  PROVE  AuthorOfRec(Founder(s, r)) \in Authors /\ GivenTo(s, r, AuthorOfRec(Founder(s, r)))
  <1> DEFINE named == {k \in DOMAIN Part(s) : RunOfRec(Part(s)[k]) = r}
  <1>1. named \in SUBSET Nat /\ named # {} /\ DOMAIN Part(s) = 1..Len(Part(s)) /\ Len(Part(s)) \in Nat
    OBVIOUS
  <1>2. PICK m \in named : \A x \in named : m <= x
    BY <1>1, FirstOfSome
  <1>3. Founds(s, r, m)
    <2>1. RunOfRec(Part(s)[m]) = r
      BY <1>2
    <2>2. ASSUME NEW j \in 1..(m - 1) PROVE RunOfRec(Part(s)[j]) # r
      <3>1. m \in 1..Len(Part(s))
        BY <1>1, <1>2
      <3>2. j \in DOMAIN Part(s) /\ ~ (m <= j)
        BY <1>1, <2>2, <3>1
      <3>3. j \notin named
        BY <1>2, <3>2
      <3> QED BY <3>2, <3>3
    <2> QED BY <2>1, <2>2 DEF Founds
  <1> DEFINE k == CHOOSE k \in DOMAIN Part(s) : Founds(s, r, k)
  <1>4. k \in DOMAIN Part(s) /\ Founds(s, r, k)
    BY <1>2, <1>3
  <1>5. Founder(s, r) = Part(s)[k]
    BY DEF Founder
  <1> HIDE DEF k
  <1>6. Founder(s, r) \in MadeRec(s) /\ RunOfRec(Founder(s, r)) = r
    BY <1>4, <1>5 DEF Founds
  <1> QED BY <1>6, RecordingTyped DEF GivenTo

\* What the writer judges a run of the part by.
LEMMA JudgesBy ==
  ASSUME RecTypeOK, NEW s \in Stores, Part(s) \in Seq(MadeRec(s)), NEW r \in Runs
  PROVE  /\ BoundBy(s)[r] \in Authors \cup {None}
         /\ writer[s].bound[r] # None => BoundBy(s)[r] = writer[s].bound[r]
         /\ writer[s].bound[r] = None /\ BoundBy(s)[r] # None => GivenTo(s, r, BoundBy(s)[r])
         /\ \A i \in DOMAIN Part(s) : r = RunOfRec(Part(s)[i]) => BoundBy(s)[r] # None
  <1>1. writer[s].bound[r] \in Authors \cup {None}
    BY DEF RecTypeOK, Writer
  <1>2. CASE writer[s].bound[r] # None
    <2>1. BoundBy(s)[r] = writer[s].bound[r]
      BY <1>2 DEF BoundBy
    <2> QED BY <1>1, <1>2, <2>1
  <1>3. CASE writer[s].bound[r] = None /\ \A i \in DOMAIN Part(s) : RunOfRec(Part(s)[i]) # r
    <2>1. BoundBy(s)[r] = None
      BY <1>3 DEF BoundBy
    <2> QED BY <1>3, <2>1
  <1>4. ASSUME writer[s].bound[r] = None, NEW i \in DOMAIN Part(s), RunOfRec(Part(s)[i]) = r
        PROVE  BoundBy(s)[r] \in Authors /\ GivenTo(s, r, BoundBy(s)[r])
    <2>1. BoundBy(s)[r] = AuthorOfRec(Founder(s, r))
      BY <1>4 DEF BoundBy
    <2> QED BY <1>4, <2>1, FounderIsGiven
  <1> QED BY <1>2, <1>3, <1>4, RecordsAssumption

LEMMA MembersOfBoth ==
  ASSUME NEW S, NEW a \in Seq(S), NEW b \in Seq(S)
  PROVE  Members(a \o b) = Members(a) \cup Members(b) /\ a \o b \in Seq(S)
  <1> DEFINE ab == a \o b
  <1>1. /\ ab \in Seq(S) /\ Len(ab) = Len(a) + Len(b)
        /\ \A k \in 1..Len(ab) : ab[k] = IF k <= Len(a) THEN a[k] ELSE b[k - Len(a)]
    OBVIOUS
  <1>2. DOMAIN a = 1..Len(a) /\ DOMAIN b = 1..Len(b) /\ DOMAIN ab = 1..Len(ab) /\ Len(a) \in Nat /\ Len(b) \in Nat
    BY <1>1
  <1> HIDE DEF ab
  <1>3. ASSUME NEW k \in DOMAIN ab PROVE ab[k] \in Members(a) \cup Members(b)
    <2>1. CASE k <= Len(a)
      <3>1. k \in DOMAIN a /\ ab[k] = a[k]
        BY <1>1, <1>2, <1>3, <2>1
      <3> QED BY <3>1 DEF Members
    <2>2. CASE ~ (k <= Len(a))
      <3>1. k - Len(a) \in DOMAIN b /\ ab[k] = b[k - Len(a)]
        BY <1>1, <1>2, <1>3, <2>2
      <3> QED BY <3>1 DEF Members
    <2> QED BY <2>1, <2>2
  <1>4. ASSUME NEW k \in DOMAIN a PROVE a[k] \in Members(ab)
    <2>1. k \in DOMAIN ab /\ ab[k] = a[k]
      BY <1>1, <1>2, <1>4
    <2> QED BY <2>1 DEF Members
  <1>5. ASSUME NEW k \in DOMAIN b PROVE b[k] \in Members(ab)
    <2>1. k + Len(a) \in DOMAIN ab /\ ab[k + Len(a)] = b[k]
      BY <1>1, <1>2, <1>5
    <2> QED BY <2>1 DEF Members
  <1>6. Members(ab) = Members(a) \cup Members(b)
    BY <1>3, <1>4, <1>5 DEF Members
  <1> QED BY <1>1, <1>6 DEF ab

\* What a part that landed adds to the feed: its events that are no one else's.
LEMMA FreshCovers ==
  ASSUME RecTypeOK, NEW s \in Stores, Part(s) \in Seq(MadeRec(s)), NEW order \in InOrder(Fresh(s)),
         rows' = rows \o [k \in DOMAIN order |-> EventOf(Part(s)[order[k]])]
  PROVE  /\ Members(rows') = Members(rows) \cup Landing(s)
         /\ rows' \in Seq(RunEvents)
  <1> DEFINE new == [k \in DOMAIN order |-> EventOf(Part(s)[order[k]])]
             n == Cardinality(Fresh(s))
  <1>0. rows \in Seq(RunEvents) /\ DOMAIN Part(s) = 1..Len(Part(s)) /\ Len(Part(s)) \in Nat
    BY DEF RecTypeOK
  <1>1. /\ order \in [1..n -> Fresh(s)] /\ DOMAIN order = 1..n
        /\ \A i \in Fresh(s) : \E k \in 1..n : order[k] = i
    BY DEF InOrder
  <1>2. Fresh(s) \subseteq DOMAIN Part(s) \ Foreign(s)
    BY DEF Fresh
  <1>3. n \in Nat
    <2>1. IsFiniteSet(1..Len(Part(s)))
      BY <1>0, FS_Interval
    <2>2. IsFiniteSet(Fresh(s))
      BY <1>0, <1>2, <2>1, FS_Subset
    <2> QED BY <2>2, FS_CardinalityType
  <1> HIDE DEF n
  <1>4. \A k \in 1..n : order[k] \in DOMAIN Part(s) \ Foreign(s) /\ EventOf(Part(s)[order[k]]) \in RunEvents
    BY <1>1, <1>2, RecordingTyped
  <1>5. new \in Seq(RunEvents) /\ Len(new) = n /\ \A k \in 1..n : new[k] = EventOf(Part(s)[order[k]])
    <2>1. new \in [1..n -> RunEvents]
      BY <1>1, <1>4
    <2> QED BY <1>1, <1>3, <2>1
  <1>6. Members(new) = {EventOf(Part(s)[i]) : i \in Fresh(s)}
    <2>1. \A e \in Members(new) : \E k \in 1..n : e = EventOf(Part(s)[order[k]])
      BY <1>1, <1>5 DEF Members
    <2>2. \A i \in Fresh(s) : EventOf(Part(s)[i]) \in Members(new)
      BY <1>1, <1>5 DEF Members
    <2> QED BY <1>1, <2>1, <2>2
  <1> HIDE DEF new
  <1>7. rows' = rows \o new
    BY DEF new
  <1>8. Members(rows') = Members(rows) \cup Members(new) /\ rows' \in Seq(RunEvents)
    BY <1>0, <1>5, <1>7, MembersOfBoth
  <1>9. {EventOf(Part(s)[i]) : i \in Fresh(s)} \subseteq Landing(s)
    BY <1>2 DEF Landing
  <1>10. ASSUME NEW e \in Landing(s), e \notin Members(rows) PROVE e \in {EventOf(Part(s)[i]) : i \in Fresh(s)}
    <2>1. PICK i \in DOMAIN Part(s) \ Foreign(s) : e = EventOf(Part(s)[i])
      BY DEF Landing
    <2> DEFINE same == {k \in DOMAIN Part(s) : EventOf(Part(s)[k]) = e}
    <2>2. same \in SUBSET Nat /\ same # {}
      BY <1>0, <2>1
    <2>3. PICK m \in same : \A x \in same : m <= x
      BY <2>2, FirstOfSome
    <2>4. m \notin Foreign(s)
      BY <2>1, <2>3 DEF Foreign, RunOfRec, AuthorOfRec
    <2>5. ASSUME NEW j \in 1..(m - 1) PROVE EventOf(Part(s)[j]) # EventOf(Part(s)[m])
      <3>1. m \in 1..Len(Part(s))
        BY <1>0, <2>3
      <3>2. j \in DOMAIN Part(s) /\ ~ (m <= j)
        BY <1>0, <2>5, <3>1
      <3>3. j \notin same
        BY <2>3, <3>2
      <3> QED BY <2>3, <3>2, <3>3
    <2>6. m \in Fresh(s)
      BY <1>10, <2>3, <2>4, <2>5 DEF Fresh
    <2> QED BY <2>3, <2>6
  <1> QED BY <1>6, <1>8, <1>9, <1>10

-----------------------------------------------------------------------------
(* The writer's locals                                                     *)

Pcs == {"none", "take", "read", "bind", "edges", "feed"}
WorkOf(s) == [pc : Pcs, batch : Seq(MadeRec(s)), work : Seq(Seq(MadeRec(s))), bound : [Runs -> Authors \cup {None}]]

LEMMA WorkIsTyped ==
  ASSUME NEW s \in Stores
  PROVE  /\ Seq(MadeRec(s)) \subseteq Seq(Recording) /\ WorkOf(s) \subseteq Writer
         /\ NoWriter \in WorkOf(s) /\ NoWriter.pc = "none" /\ NoWriter.bound \in [Runs -> Authors \cup {None}]
  <1>1. MadeRec(s) \subseteq Recording
    BY DEF MadeRec
  <1>2. Seq(MadeRec(s)) \subseteq Seq(Recording)
    BY <1>1, SeqMonotonic
  <1>3. Seq(Seq(MadeRec(s))) \subseteq Seq(Seq(Recording))
    BY <1>2, SeqMonotonic
  <1>4. WorkOf(s) \subseteq Writer
    BY <1>2, <1>3 DEF WorkOf, Writer, Pcs
  <1>5. <<>> \in Seq(MadeRec(s)) /\ <<>> \in Seq(Seq(MadeRec(s)))
    BY EmptySeq
  <1>6. NoWriter \in WorkOf(s) /\ NoWriter.pc = "none" /\ NoWriter.bound \in [Runs -> Authors \cup {None}]
    BY <1>5 DEF NoWriter, WorkOf, Pcs
  <1> QED BY <1>2, <1>4, <1>6

LEMMA WriterIsWork ==
  ASSUME RecInv, NEW s \in Stores
  PROVE  writer[s] \in WorkOf(s) /\ writer[s].pc \in Pcs
  <1>1. WorkInv(s) /\ writer[s] \in Writer
    BY DEF RecInv, RecTypeOK
  <1> QED BY <1>1 DEF WorkInv, Writer, WorkOf, Pcs

\* A writer's step, by the locals it leaves.
LEMMA WriterMoves ==
  ASSUME RecInv, NEW s \in Stores, NEW w \in WorkOf(s), w.pc \in {"read", "bind", "edges", "feed"} => w.work # <<>>,
         writer' = [writer EXCEPT ![s] = w], given' = given, pending' = pending
  PROVE  /\ writer' \in [Stores -> Writer] /\ writer'[s] = w
         /\ \A t \in Stores : WorkInv(t)' /\ (t # s => writer'[t] = writer[t])
  <1>1. writer \in [Stores -> Writer] /\ w \in Writer
    BY WorkIsTyped DEF RecInv, RecTypeOK
  <1>2. writer' \in [Stores -> Writer] /\ writer'[s] = w /\ \A t \in Stores : t # s => writer'[t] = writer[t]
    BY <1>1
  <1>3. ASSUME NEW t \in Stores PROVE WorkInv(t)'
    <2>0. WorkInv(t) /\ MadeRec(t)' = MadeRec(t)
      BY DEF RecInv, MadeRec
    <2>1. CASE t = s
      <3>1. w.batch \in Seq(MadeRec(s)) /\ w.work \in Seq(Seq(MadeRec(s)))
        BY DEF WorkOf
      <3> QED BY <1>2, <2>0, <2>1, <3>1 DEF WorkInv, AtWork
    <2>2. CASE t # s
      BY <1>2, <2>0, <2>2 DEF WorkInv, AtWork
    <2> QED BY <2>1, <2>2
  <1> QED BY <1>2, <1>3

LEMMA AfterPartIsWork ==
  ASSUME RecInv, NEW s \in Stores, NEW parts \in Seq(Seq(MadeRec(s)))
  PROVE  /\ AfterPart(s, parts) \in WorkOf(s) /\ AfterPart(s, parts).pc \in {"take", "read"}
         /\ AfterPart(s, parts).pc \in {"read", "bind", "edges", "feed"} => AfterPart(s, parts).work # <<>>
  <1>1. writer[s] \in WorkOf(s) /\ NoWriter \in WorkOf(s) /\ NoWriter.bound \in [Runs -> Authors \cup {None}]
    BY WorkIsTyped, WriterIsWork
  <1>2. CASE parts = <<>>
    <2>1. AfterPart(s, parts) = [NoWriter EXCEPT !.pc = "take"]
      BY <1>2 DEF AfterPart
    <2> QED BY <1>1, <2>1 DEF WorkOf, Pcs
  <1>3. CASE parts # <<>>
    <2>1. AfterPart(s, parts) = [writer[s] EXCEPT !.pc = "read", !.work = parts, !.bound = NoWriter.bound]
      BY <1>3 DEF AfterPart
    <2> HIDE DEF NoWriter
    <2> QED BY <1>1, <1>3, <2>1 DEF WorkOf, Pcs
  <1> QED BY <1>2, <1>3

LEMMA HalvesAreWork ==
  ASSUME NEW s \in Stores, Part(s) \in Seq(MadeRec(s)), writer[s].work \in Seq(Seq(MadeRec(s))), writer[s].work # <<>>
  PROVE  /\ Halved(s) \in Seq(Seq(MadeRec(s)))
         /\ Len(Halved(s)) < Len(writer[s].work) => Len(Part(s)) = 1
  <1> DEFINE half == Len(Part(s)) \div 2
             rest == Tail(writer[s].work)
  <1>1. rest \in Seq(Seq(MadeRec(s))) /\ Len(rest) = Len(writer[s].work) - 1 /\ Len(writer[s].work) \in Nat
        /\ Len(rest) \in Nat
    BY HeadTailProperties, LenProperties
  <1>2. Len(Part(s)) \in Nat /\ half \in Int /\ 0 <= half /\ half <= Len(Part(s))
    OBVIOUS
  <1> HIDE DEF half, rest
  <1>3. CASE Len(Part(s)) = 1
    BY <1>1, <1>3 DEF Halved, rest
  <1>4. CASE Len(Part(s)) # 1
    <2> DEFINE a == SubSeq(Part(s), 1, half)
               b == SubSeq(Part(s), half + 1, Len(Part(s)))
    <2>1. a \in Seq(MadeRec(s)) /\ b \in Seq(MadeRec(s))
      <3>1. \A i \in 1..half : Part(s)[i] \in MadeRec(s)
        BY <1>2
      <3>2. \A i \in (half + 1)..Len(Part(s)) : Part(s)[i] \in MadeRec(s)
        BY <1>2
      <3>3. 1 \in Int /\ half + 1 \in Int /\ Len(Part(s)) \in Int
        BY <1>2
      <3> QED BY <1>2, <3>1, <3>2, <3>3, SubSeqProperties
    <2>2. Halved(s) = <<a, b>> \o rest
      BY <1>4 DEF Halved, half, rest
    <2> HIDE DEF a, b
    <2>3. <<a, b>> \in Seq(Seq(MadeRec(s))) /\ Len(<<a, b>>) = 2
      BY <2>1
    <2>4. <<a, b>> \o rest \in Seq(Seq(MadeRec(s))) /\ Len(<<a, b>> \o rest) = 2 + Len(rest)
      BY <1>1, <2>3, ConcatProperties
    <2> QED BY <1>1, <2>2, <2>4
  <1> QED BY <1>3, <1>4

\* Who is answered, and how.
LEMMA SettlesOwn ==
  ASSUME RecTypeOK, NEW recs, NEW outcome \in [Calls -> Outcomes], calls' = SettledBy(recs, outcome)
  PROVE  /\ calls' \in [Calls -> [pc : Outcomes, try : 1..MaxTries]]
         /\ \A c \in Calls : \/ calls'[c] = calls[c]
                             \/ calls'[c].pc = outcome[c] /\ [call |-> c, try |-> calls[c].try] \in recs
  <1>0. calls \in [Calls -> [pc : Outcomes, try : 1..MaxTries]]
    BY DEF RecTypeOK
  <1>1. ASSUME NEW c \in Calls
        PROVE  /\ calls'[c] \in [pc : Outcomes, try : 1..MaxTries]
               /\ \/ calls'[c] = calls[c]
                  \/ calls'[c].pc = outcome[c] /\ [call |-> c, try |-> calls[c].try] \in recs
    <2>1. CASE calls[c].pc = "waiting" /\ [call |-> c, try |-> calls[c].try] \in recs
      <3>1. calls'[c] = [calls[c] EXCEPT !.pc = outcome[c]]
        BY <2>1 DEF SettledBy
      <3>2. calls[c] \in [pc : Outcomes, try : 1..MaxTries] /\ outcome[c] \in Outcomes
        BY <1>0
      <3> QED BY <2>1, <3>1, <3>2
    <2>2. CASE ~ (calls[c].pc = "waiting" /\ [call |-> c, try |-> calls[c].try] \in recs)
      <3>1. calls'[c] = calls[c]
        BY <2>2 DEF SettledBy
      <3> QED BY <1>0, <3>1
    <2> QED BY <2>1, <2>2
  <1>2. calls' = [c \in Calls |-> calls'[c]]
    BY DEF SettledBy
  <1> QED BY <1>1, <1>2

LEMMA AllTyped ==
  ASSUME NEW outcome \in Outcomes
  PROVE  All(outcome) \in [Calls -> Outcomes] /\ \A c \in Calls : All(outcome)[c] = outcome
  BY DEF All

-----------------------------------------------------------------------------
(* What stands                                                             *)

RunsStand == \A r \in Runs : runs[r] # None => runs'[r] = runs[r]

\* A run bound by the step is bound for a delivery made to another replica than t.
BoundElsewhere(t) ==
  \A r \in Runs : runs'[r] # runs[r] => \E u \in Stores : u # t /\ GivenTo(u, r, runs'[r])

LEMMA SameWork ==
  ASSUME given' = given, NEW t \in Stores, writer'[t] = writer[t]
  PROVE  /\ Part(t)' = Part(t) /\ MadeRec(t)' = MadeRec(t)
         /\ BoundBy(t)' = BoundBy(t) /\ Landing(t)' = Landing(t)
  <1>1. Part(t)' = Part(t) /\ MadeRec(t)' = MadeRec(t)
    BY DEF Part, MadeRec
  <1>2. BoundBy(t)' = BoundBy(t)
    BY <1>1 DEF BoundBy, Founder, Founds, RunOfRec, AuthorOfRec, EventOf
  <1>3. Landing(t)' = Landing(t)
    BY <1>1, <1>2 DEF Landing, Foreign, RunOfRec, AuthorOfRec, EventOf
  <1> QED BY <1>1, <1>2, <1>3

LEMMA GivenStands ==
  ASSUME given' = given
  PROVE  /\ \A r : Contested(r)' <=> Contested(r)
         /\ \A t, r, a : GivenTo(t, r, a)' <=> GivenTo(t, r, a)
  BY DEF Contested, GivenTo

\* A writer that did not step keeps its standing.
LEMMA WriterStands ==
  ASSUME RecInv, given' = given, NEW t \in Stores, writer'[t] = writer[t],
         RunsStand, edges \subseteq edges', BoundElsewhere(t)
  PROVE  BindInv(t)' /\ JudgedInv(t)' /\ LandedInv(t)'
  <1>0. RecTypeOK /\ BindInv(t) /\ JudgedInv(t) /\ LandedInv(t) /\ WorkInv(t)
    BY DEF RecInv
  <1>1. /\ Part(t)' = Part(t) /\ BoundBy(t)' = BoundBy(t) /\ Landing(t)' = Landing(t)
        /\ \A r : Contested(r)' <=> Contested(r)
        /\ \A u, r, a : GivenTo(u, r, a)' <=> GivenTo(u, r, a)
    BY SameWork, GivenStands
  <1>2. BindInv(t)'
    <2> SUFFICES ASSUME writer[t].pc = "bind", NEW r \in Runs, runs'[r] # writer[t].bound[r]
                 PROVE  writer[t].bound[r] = None /\ \E u \in Stores : u # t /\ GivenTo(u, r, runs'[r])
      BY <1>1 DEF BindInv
    <2>1. CASE runs'[r] = runs[r]
      BY <1>0, <2>1 DEF BindInv
    <2>2. CASE runs'[r] # runs[r]
      <3>1. runs[r] = None
        BY <2>2 DEF RunsStand
      <3>2. writer[t].bound[r] = None
        BY <1>0, <3>1 DEF BindInv
      <3> QED BY <2>2, <3>2 DEF BoundElsewhere
    <2> QED BY <2>1, <2>2
  <1>3. JudgedInv(t)'
    <2> SUFFICES ASSUME writer[t].pc \in {"edges", "feed"}, NEW i \in DOMAIN Part(t)
                 PROVE  LET r == RunOfRec(Part(t)[i])
                        IN  runs'[r] # None /\ (runs'[r] = BoundBy(t)[r] \/ Contested(r))
      BY <1>1 DEF JudgedInv, RunOfRec, EventOf
    <2>1. Part(t) \in Seq(MadeRec(t))
      BY <1>0, PartOfWork DEF AtWork
    <2>2. RunOfRec(Part(t)[i]) \in Runs
      BY <1>0, <2>1, RecordingTyped
    <2> QED BY <1>0, <2>2 DEF JudgedInv, RunsStand
  <1>4. LandedInv(t)'
    BY <1>0, <1>1 DEF LandedInv
  <1> QED BY <1>2, <1>3, <1>4

LEMMA RowsStand ==
  ASSUME RecInv, given' = given, RunsStand, edges \subseteq edges', rows' = rows
  PROVE  RowsFollowEdges'
  <1>0. RowsFollowEdges /\ \A e \in Members(rows) : RunOf[e] \in Runs
    BY RecordsAssumption DEF RecInv, RecTypeOK, Members
  <1>1. \A r : Contested(r)' <=> Contested(r)
    BY GivenStands
  <1> QED BY <1>0, <1>1 DEF RowsFollowEdges, RunsStand

\* A delivery's answer stands, and a delivery that is not answered says nothing.
AnswersMove == \A c \in Calls : calls'[c].pc \in {"new", "waiting", "gone", "failed"} \/ calls'[c].pc = calls[c].pc

LEMMA AnswersStand ==
  ASSUME RecInv, given' = given, RunsStand, Members(rows) \subseteq Members(rows'), NEW c \in Calls,
         calls'[c].pc \in {"new", "waiting", "gone", "failed"} \/ calls'[c].pc = calls[c].pc
  PROVE  LET e == given.event[c] IN
         /\ calls'[c].pc = "recorded" => e \in Members(rows')
         /\ calls'[c].pc = "foreign" =>
               runs'[RunOf[e]] # None /\ (runs'[RunOf[e]] # AuthorOf[e] \/ Contested(RunOf[e]))
         /\ calls'[c].pc = "refused" => e \in given.refused
  <1>1. AnswersAreTheirOwn /\ ForeignInv
    BY DEF RecInv
  <1>2. RunOf[given.event[c]] \in Runs
    BY RecordsAssumption DEF RecInv, RecTypeOK
  <1> QED BY <1>1, <1>2 DEF AnswersAreTheirOwn, ForeignInv, RunsStand

LEMMA AnswersFollow ==
  ASSUME given' = given,
         \A c \in Calls : LET e == given.event[c] IN
           /\ calls'[c].pc = "recorded" => e \in Members(rows')
           /\ calls'[c].pc = "foreign" =>
                 runs'[RunOf[e]] # None /\ (runs'[RunOf[e]] # AuthorOf[e] \/ Contested(RunOf[e]))
           /\ calls'[c].pc = "refused" => e \in given.refused
  PROVE  AnswersAreTheirOwn' /\ ForeignInv'
  <1>1. \A r : Contested(r)' <=> Contested(r)
    BY GivenStands
  <1>2. AnswersAreTheirOwn'
    BY <1>1 DEF AnswersAreTheirOwn
  <1>3. ForeignInv'
    BY DEF ForeignInv
  <1> QED BY <1>2, <1>3

\* A step that leaves the three tables alone.
LEMMA TablesStand ==
  ASSUME RecInv, RecTypeOK', UNCHANGED <<given, runs, edges, rows>>, AnswersMove,
         \A t \in Stores : WorkInv(t)',
         \A t \in Stores : writer'[t] = writer[t] \/ writer'[t].pc \in {"none", "take", "read"}
  PROVE  RecInv'
  <1>1. RunsStand /\ edges \subseteq edges' /\ Members(rows) \subseteq Members(rows')
        /\ \A t \in Stores : BoundElsewhere(t)
    BY DEF RunsStand, BoundElsewhere
  <1>2. ASSUME NEW t \in Stores PROVE BindInv(t)' /\ JudgedInv(t)' /\ LandedInv(t)'
    <2>1. CASE writer'[t] = writer[t]
      BY <1>1, <2>1, WriterStands
    <2>2. CASE writer'[t].pc \in {"none", "take", "read"}
      BY <2>2 DEF BindInv, JudgedInv, LandedInv
    <2> QED BY <2>1, <2>2
  <1>3. RowsFollowEdges'
    BY <1>1, RowsStand
  <1>4. AnswersAreTheirOwn' /\ ForeignInv'
    BY <1>1, AnswersStand, AnswersFollow DEF AnswersMove
  <1> QED BY <1>2, <1>3, <1>4 DEF RecInv

-----------------------------------------------------------------------------
(* The deliveries, the forwarder and rest                                  *)

Calling == [pc : Outcomes, try : 1..MaxTries]
Ticking == [pc : {"idle", "send", "advance"}, mark : Nat, reached : Nat]

LEMMA LossTyped ==
  ASSUME RecTypeOK, Loss \/ UNCHANGED losses
  PROVE  losses' \in 0..MaxLosses
  BY RecordsAssumption DEF RecTypeOK, Loss

LEMMA DeliveriesKeep ==
  ASSUME RecInv, NEW c \in Calls,
         Record(c) \/ RecordStartsNoThread(c) \/ StopsWaiting(c) \/ DeliversAgain(c)
  PROVE  RecInv'
  <1>0. /\ RecTypeOK /\ calls \in [Calls -> Calling] /\ calls[c] \in Calling /\ writer \in [Stores -> Writer]
        /\ pending \in [Stores -> Seq(Recording)] /\ landing \in [Stores -> BOOLEAN] /\ given.at \in [Calls -> Stores]
        /\ \A t \in Stores : WorkInv(t) /\ writer[t] \in Writer
    BY RecordsAssumption DEF RecInv, RecTypeOK, Calling
  <1> USE <1>0
  <1>1. UNCHANGED <<given, runs, edges, rows, fwd, cursor, sent>>
    BY DEF Record, RecordStartsNoThread, StopsWaiting, DeliversAgain, CallVars
  <1>2. losses' \in 0..MaxLosses
    BY LossTyped DEF Record, RecordStartsNoThread, StopsWaiting, DeliversAgain
  <1>3. calls' \in [Calls -> Calling] /\ AnswersMove
    <2>1. CASE \E pc \in {"waiting", "failed", "gone"} : calls' = [calls EXCEPT ![c].pc = pc]
      <3>1. PICK pc \in {"waiting", "failed", "gone"} : calls' = [calls EXCEPT ![c].pc = pc]
        BY <2>1
      <3>2. [calls[c] EXCEPT !.pc = pc] \in Calling /\ [calls[c] EXCEPT !.pc = pc].pc = pc
        BY DEF Calling, Outcomes
      <3>3. calls' = [calls EXCEPT ![c] = [calls[c] EXCEPT !.pc = pc]]
        BY <3>1
      <3> QED BY <3>2, <3>3 DEF AnswersMove
    <2>2. CASE DeliversAgain(c)
      <3>1. calls' = [calls EXCEPT ![c] = [pc |-> "new", try |-> calls[c].try + 1]] /\ calls[c].try < MaxTries
        BY <2>2 DEF DeliversAgain
      <3>2. [pc |-> "new", try |-> calls[c].try + 1] \in Calling
        BY <3>1, RecordsAssumption DEF Calling, Outcomes
      <3> QED BY <3>1, <3>2 DEF AnswersMove
    <2> QED BY <2>1, <2>2 DEF Record, RecordStartsNoThread, StopsWaiting
  <1>4. CASE Record(c) \/ RecordStartsNoThread(c)
    <2> DEFINE s == given.at[c]
               rec == [call |-> c, try |-> calls[c].try]
    <2>1. s \in Stores /\ c \in given.made
      BY <1>4 DEF Record, RecordStartsNoThread
    <2>2. rec \in MadeRec(s)
      BY <2>1 DEF MadeRec, Recording, Calling
    <2>3. pending' = [pending EXCEPT ![s] = Append(pending[s], rec)]
      BY <1>4 DEF Record, RecordStartsNoThread
    <2>4. landing' \in [Stores -> BOOLEAN]
      BY <1>4, <2>1 DEF Record, RecordStartsNoThread
    <2>5. /\ writer' \in [Stores -> Writer]
          /\ \A t \in Stores : writer'[t] = writer[t] \/
                (writer'[t].pc = "take" /\ writer'[t].batch = writer[t].batch /\ writer'[t].work = writer[t].work)
      <3>1. CASE writer' = writer
        BY <3>1
      <3>2. CASE writer' = [writer EXCEPT ![s].pc = "take"]
        <4>1. writer' = [writer EXCEPT ![s] = [writer[s] EXCEPT !.pc = "take"]]
          BY <3>2
        <4>2. LET w == [writer[s] EXCEPT !.pc = "take"]
              IN  w \in Writer /\ w.pc = "take" /\ w.batch = writer[s].batch /\ w.work = writer[s].work
          BY <2>1 DEF Writer
        <4> QED BY <2>1, <4>1, <4>2
      <3> QED BY <1>4, <3>1, <3>2 DEF Record, RecordStartsNoThread
    <2> HIDE DEF s, rec
    <2>6. \A t \in Stores : pending'[t] \in Seq(MadeRec(t))
      BY <2>1, <2>2, <2>3, AppendProperties DEF WorkInv
    <2>7. ASSUME NEW t \in Stores PROVE WorkInv(t)'
      <3>1. MadeRec(t)' = MadeRec(t)
        BY <1>1 DEF MadeRec
      <3> QED BY <2>5, <2>6, <3>1 DEF WorkInv, AtWork
    <2>8. pending' \in [Stores -> Seq(Recording)]
      <3>1. \A t \in Stores : pending'[t] \in Seq(Recording)
        BY <2>6, WorkIsTyped
      <3> QED BY <2>3, <3>1
    <2>9. RecTypeOK'
      BY <1>1, <1>2, <1>3, <2>4, <2>5, <2>8 DEF RecTypeOK, Calling
    <2> QED BY <1>1, <1>3, <2>5, <2>7, <2>9, TablesStand
  <1>5. CASE StopsWaiting(c) \/ DeliversAgain(c)
    <2>1. UNCHANGED <<pending, landing, writer>>
      BY <1>5 DEF StopsWaiting, DeliversAgain
    <2>2. RecTypeOK'
      BY <1>1, <1>2, <1>3, <2>1 DEF RecTypeOK, Calling
    <2>3. \A t \in Stores : WorkInv(t)'
      BY <1>1, <2>1 DEF WorkInv, AtWork, MadeRec
    <2> QED BY <1>1, <1>3, <2>1, <2>2, <2>3, TablesStand
  <1> QED BY <1>4, <1>5

LEMMA ForwardKeeps ==
  ASSUME RecInv, (\E s \in Stores : ForwardStep(s) \/ ForwardStops(s)) \/ UNCHANGED recVars
  PROVE  RecInv'
  <1>0. /\ RecTypeOK /\ fwd \in [Stores -> Ticking] /\ cursor \in Nat /\ sent \subseteq Nat /\ Len(rows) \in Nat
        /\ \A t \in Stores : WorkInv(t)
    BY DEF RecInv, RecTypeOK, Ticking
  <1> USE <1>0
  <1>1. UNCHANGED <<given, calls, pending, landing, writer, runs, edges, rows>>
    BY DEF ForwardStep, ForwardReads, ForwardSends, ForwardStops, ForwardAdvances, ForwardVars, recVars
  <1>2. losses' \in 0..MaxLosses
    BY LossTyped DEF ForwardStep, ForwardReads, ForwardSends, ForwardStops, ForwardAdvances, recVars
  <1>3. fwd' \in [Stores -> Ticking] /\ cursor' \in Nat /\ sent' \subseteq Nat
    <2>1. CASE UNCHANGED recVars
      BY <2>1 DEF recVars
    <2>2. ASSUME NEW s \in Stores, ForwardStep(s) \/ ForwardStops(s)
          PROVE  fwd' \in [Stores -> Ticking] /\ cursor' \in Nat /\ sent' \subseteq Nat
      <3>0. fwd[s] \in Ticking /\ fwd[s].reached \in Nat /\ fwd[s].mark \in Nat
        BY DEF Ticking
      <3>1. CASE ForwardReads(s)
        BY <3>1 DEF ForwardReads, Ticking
      <3>2. CASE ForwardSends(s)
        <4>1. fwd' = [fwd EXCEPT ![s] = [fwd[s] EXCEPT !.reached = fwd[s].reached + 1]]
              /\ sent' = sent \cup {fwd[s].reached + 1} /\ cursor' = cursor
          BY <3>2 DEF ForwardSends
        <4>2. [fwd[s] EXCEPT !.reached = fwd[s].reached + 1] \in Ticking
          BY <3>0 DEF Ticking
        <4> QED BY <3>0, <4>1, <4>2
      <3>3. CASE ForwardStops(s)
        <4>1. fwd' = [fwd EXCEPT ![s] = [fwd[s] EXCEPT !.pc = "advance"]] /\ UNCHANGED <<cursor, sent>>
          BY <3>3 DEF ForwardStops
        <4>2. [fwd[s] EXCEPT !.pc = "advance"] \in Ticking
          BY <3>0 DEF Ticking
        <4> QED BY <4>1, <4>2
      <3>4. CASE ForwardAdvances(s)
        <4>1. NoTick \in Ticking
          BY DEF NoTick, Ticking
        <4> QED BY <3>0, <3>4, <4>1 DEF ForwardAdvances, Advanced
      <3> QED BY <2>2, <3>1, <3>2, <3>3, <3>4 DEF ForwardStep
    <2> QED BY <2>1, <2>2
  <1>4. RecTypeOK'
    BY <1>1, <1>2, <1>3 DEF RecTypeOK, Ticking
  <1>5. \A t \in Stores : WorkInv(t)'
    BY <1>1 DEF WorkInv, AtWork, MadeRec
  <1>6. AnswersMove
    BY <1>1 DEF AnswersMove
  <1> QED BY <1>1, <1>4, <1>5, <1>6, TablesStand

-----------------------------------------------------------------------------
(* The writer                                                              *)

LEMMA TakesKeep ==
  ASSUME RecInv, NEW s \in Stores, NextBatch(s)
  PROVE  RecInv'
  <1>0. /\ RecTypeOK /\ writer \in [Stores -> Writer] /\ pending \in [Stores -> Seq(Recording)]
        /\ landing \in [Stores -> BOOLEAN] /\ \A t \in Stores : WorkInv(t) /\ MadeRec(t)' = MadeRec(t)
        /\ pending[s] \in Seq(MadeRec(s)) /\ Len(pending[s]) \in Nat
    BY DEF RecInv, RecTypeOK, WorkInv, NextBatch, WriterVars, MadeRec
  <1> USE <1>0
  <1> DEFINE n == IF Len(pending[s]) < BatchLimit THEN Len(pending[s]) ELSE BatchLimit
             batch == SubSeq(pending[s], 1, n)
  <1>1. UNCHANGED <<given, fwd, cursor, sent, calls, runs, edges, rows, losses>> /\ AnswersMove
    BY DEF NextBatch, WriterVars, AnswersMove
  <1>2. n \in Nat /\ n <= Len(pending[s])
    BY RecordsAssumption
  <1>3. CASE /\ n > 0
             /\ pending' = [pending EXCEPT ![s] = SubSeq(@, n + 1, Len(@))]
             /\ writer' = [writer EXCEPT ![s] = [NoWriter EXCEPT !.pc = "read", !.batch = batch, !.work = <<batch>>]]
             /\ UNCHANGED landing
    <2> HIDE DEF n
    <2> DEFINE left == SubSeq(pending[s], n + 1, Len(pending[s]))
    <2>1. batch \in Seq(MadeRec(s)) /\ left \in Seq(MadeRec(s))
      <3>1. \A i \in 1..n : pending[s][i] \in MadeRec(s)
        BY <1>2
      <3>2. \A i \in (n + 1)..Len(pending[s]) : pending[s][i] \in MadeRec(s)
        BY <1>2
      <3>3. 1 \in Int /\ n \in Int /\ n + 1 \in Int /\ Len(pending[s]) \in Int
        BY <1>2
      <3> QED BY <3>1, <3>2, <3>3, SubSeqProperties
    <2> DEFINE w == [NoWriter EXCEPT !.pc = "read", !.batch = batch, !.work = <<batch>>]
    <2>2. pending' = [pending EXCEPT ![s] = left] /\ writer' = [writer EXCEPT ![s] = w] /\ landing' = landing
      BY <1>3
    <2> HIDE DEF batch, left
    <2>3. <<batch>> \in Seq(Seq(MadeRec(s))) /\ <<batch>> # <<>>
      BY <2>1
    <2>4. w \in WorkOf(s) /\ w.pc = "read" /\ w.batch = batch /\ w.work = <<batch>>
      <3>1. NoWriter \in WorkOf(s)
        BY WorkIsTyped
      <3> HIDE DEF NoWriter
      <3> QED BY <2>1, <2>3, <3>1 DEF WorkOf, Pcs
    <2> HIDE DEF w
    <2>5. /\ writer' \in [Stores -> Writer] /\ writer'[s] = w
          /\ \A t \in Stores : t # s => writer'[t] = writer[t]
      BY <2>2, <2>4, WorkIsTyped
    <2>6. pending' \in [Stores -> Seq(Recording)] /\ pending'[s] = left
          /\ \A t \in Stores : t # s => pending'[t] = pending[t]
      BY <2>1, <2>2, WorkIsTyped
    <2>7. ASSUME NEW t \in Stores PROVE WorkInv(t)'
      <3>1. CASE t = s
        BY <2>1, <2>3, <2>4, <2>5, <2>6, <3>1 DEF WorkInv, AtWork
      <3>2. CASE t # s
        BY <2>5, <2>6, <3>2 DEF WorkInv, AtWork
      <3> QED BY <3>1, <3>2
    <2>8. RecTypeOK'
      BY <1>1, <2>2, <2>5, <2>6 DEF RecTypeOK
    <2> QED BY <1>1, <2>4, <2>5, <2>7, <2>8, TablesStand
  <1>4. CASE landing' = EndsWriter(s) /\ writer' = [writer EXCEPT ![s] = NoWriter] /\ UNCHANGED pending
    <2>1. NoWriter \in WorkOf(s) /\ NoWriter.pc = "none"
      BY WorkIsTyped
    <2> HIDE DEF NoWriter
    <2>2. /\ writer' \in [Stores -> Writer] /\ writer'[s] = NoWriter
          /\ \A t \in Stores : WorkInv(t)' /\ (t # s => writer'[t] = writer[t])
      BY <1>1, <1>4, <2>1, WriterMoves
    <2>3. landing' \in [Stores -> BOOLEAN]
      BY <1>4 DEF EndsWriter
    <2>4. RecTypeOK'
      BY <1>1, <1>4, <2>2, <2>3 DEF RecTypeOK
    <2> QED BY <1>1, <2>1, <2>2, <2>4, TablesStand
  <1> QED BY <1>3, <1>4 DEF NextBatch

LEMMA ReadsKeep ==
  ASSUME RecInv, NEW s \in Stores, ReadRuns(s)
  PROVE  RecInv'
  <1>0. RecTypeOK /\ writer \in [Stores -> Writer] /\ runs \in [Runs -> Authors \cup {None}]
        /\ writer[s] \in WorkOf(s) /\ writer[s].pc = "read" /\ WorkInv(s)
    BY WriterIsWork DEF RecInv, RecTypeOK, ReadRuns
  <1> DEFINE w == [writer[s] EXCEPT !.pc = "bind", !.bound = runs]
  <1>1. writer' = [writer EXCEPT ![s] = w]
    BY <1>0 DEF ReadRuns
  <1>2. w \in WorkOf(s) /\ w.pc = "bind" /\ w.bound = runs /\ w.work = writer[s].work /\ w.work # <<>>
    BY <1>0 DEF WorkOf, Pcs, WorkInv, AtWork
  <1> HIDE DEF w
  <1>3. UNCHANGED <<given, fwd, cursor, sent, calls, pending, landing, runs, edges, rows, losses>>
    BY DEF ReadRuns, WriterVars
  <1>4. /\ writer' \in [Stores -> Writer] /\ writer'[s] = w
        /\ \A t \in Stores : WorkInv(t)' /\ (t # s => writer'[t] = writer[t])
    BY <1>1, <1>2, <1>3, WriterMoves
  <1>5. RecTypeOK'
    BY <1>0, <1>3, <1>4 DEF RecTypeOK
  <1>6. RunsStand /\ edges \subseteq edges' /\ \A t \in Stores : BoundElsewhere(t)
    BY <1>3 DEF RunsStand, BoundElsewhere
  <1>7. ASSUME NEW t \in Stores PROVE BindInv(t)' /\ JudgedInv(t)' /\ LandedInv(t)'
    <2>1. CASE t = s
      BY <1>2, <1>3, <1>4, <2>1 DEF BindInv, JudgedInv, LandedInv
    <2>2. CASE t # s
      BY <1>3, <1>4, <1>6, <2>2, WriterStands
    <2> QED BY <2>1, <2>2
  <1>8. RowsFollowEdges' /\ AnswersAreTheirOwn' /\ ForeignInv'
    BY <1>3, <1>6, RowsStand, AnswersStand, AnswersFollow
  <1> QED BY <1>4, <1>5, <1>7, <1>8 DEF RecInv

\* The part and its judgement stay when only the writer's step moves on.
LEMMA SamePart ==
  ASSUME given' = given, NEW s \in Stores, writer'[s].work = writer[s].work, writer'[s].bound = writer[s].bound
  PROVE  /\ Part(s)' = Part(s) /\ BoundBy(s)' = BoundBy(s) /\ Landing(s)' = Landing(s)
         /\ \A i \in DOMAIN Part(s) : RunOfRec(Part(s)[i])' = RunOfRec(Part(s)[i])
  <1>1. Part(s)' = Part(s)
    BY DEF Part
  <1>2. BoundBy(s)' = BoundBy(s)
    BY <1>1 DEF BoundBy, Founder, Founds, RunOfRec, AuthorOfRec, EventOf
  <1>3. Landing(s)' = Landing(s)
    BY <1>1, <1>2 DEF Landing, Foreign, RunOfRec, AuthorOfRec, EventOf
  <1>4. \A i \in DOMAIN Part(s) : RunOfRec(Part(s)[i])' = RunOfRec(Part(s)[i])
    BY <1>1 DEF RunOfRec, EventOf
  <1> QED BY <1>1, <1>2, <1>3, <1>4

\* A writer's step to another pc over the same work.
LEMMA StepsOn ==
  ASSUME RecInv, NEW s \in Stores, AtWork(s), NEW pc \in {"edges", "feed"},
         writer' = [writer EXCEPT ![s].pc = pc], given' = given, pending' = pending
  PROVE  /\ writer' \in [Stores -> Writer] /\ writer'[s].pc = pc
         /\ writer'[s].work = writer[s].work /\ writer'[s].bound = writer[s].bound
         /\ \A t \in Stores : WorkInv(t)' /\ (t # s => writer'[t] = writer[t])
  <1>0. writer \in [Stores -> Writer] /\ writer[s] \in WorkOf(s) /\ writer[s].work # <<>>
    BY WriterIsWork DEF RecInv, RecTypeOK, WorkInv
  <1> DEFINE w == [writer[s] EXCEPT !.pc = pc]
  <1>1. writer' = [writer EXCEPT ![s] = w]
    BY <1>0
  <1>2. w \in WorkOf(s) /\ w.pc = pc /\ w.bound = writer[s].bound /\ w.work = writer[s].work /\ w.work # <<>>
    BY <1>0 DEF WorkOf, Pcs
  <1> HIDE DEF w
  <1> QED BY <1>1, <1>2, WriterMoves

LEMMA BindsKeep ==
  ASSUME RecInv, NEW s \in Stores, BindRuns(s)
  PROVE  RecInv'
  <1>0. /\ RecTypeOK /\ writer[s].pc = "bind" /\ WorkInv(s) /\ BindInv(s) /\ AtWork(s)
        /\ runs \in [Runs -> Authors \cup {None}] /\ None \notin Authors
    BY RecordsAssumption DEF RecInv, RecTypeOK, BindRuns, AtWork
  <1>1. /\ UNCHANGED <<given, fwd, cursor, sent, calls, pending, landing, edges, rows, losses>>
        /\ writer' = [writer EXCEPT ![s].pc = "edges"]
        /\ runs' = [r \in Runs |-> IF runs[r] # None THEN runs[r] ELSE BoundBy(s)[r]]
    BY DEF BindRuns, WriterVars
  <1>2. /\ writer' \in [Stores -> Writer] /\ writer'[s].pc = "edges"
        /\ writer'[s].work = writer[s].work /\ writer'[s].bound = writer[s].bound
        /\ \A t \in Stores : WorkInv(t)' /\ (t # s => writer'[t] = writer[t])
    BY <1>0, <1>1, StepsOn
  <1>3. Part(s) \in Seq(MadeRec(s))
    BY <1>0, PartOfWork
  <1>4. ASSUME NEW r \in Runs
        PROVE  /\ BoundBy(s)[r] \in Authors \cup {None}
               /\ writer[s].bound[r] # None => BoundBy(s)[r] = writer[s].bound[r]
               /\ writer[s].bound[r] = None /\ BoundBy(s)[r] # None => GivenTo(s, r, BoundBy(s)[r])
               /\ \A i \in DOMAIN Part(s) : r = RunOfRec(Part(s)[i]) => BoundBy(s)[r] # None
    BY <1>0, <1>3, JudgesBy
  <1>5. runs' \in [Runs -> Authors \cup {None}] /\ RunsStand
    BY <1>0, <1>1, <1>4 DEF RunsStand
  <1>6. RecTypeOK'
    BY <1>0, <1>1, <1>2, <1>5 DEF RecTypeOK
  <1>7. ASSUME NEW r \in Runs, runs'[r] # runs[r] PROVE GivenTo(s, r, runs'[r])
    <2>1. runs[r] = None /\ runs'[r] = BoundBy(s)[r]
      BY <1>1, <1>7
    <2>2. writer[s].bound[r] = None
      BY <1>0, <2>1 DEF BindInv
    <2> QED BY <1>4, <1>7, <2>1, <2>2
  <1>8. \A t \in Stores : t # s => BoundElsewhere(t)
    BY <1>7 DEF BoundElsewhere
  <1>9. ASSUME NEW t \in Stores PROVE BindInv(t)' /\ JudgedInv(t)' /\ LandedInv(t)'
    <2>1. CASE t # s
      BY <1>1, <1>2, <1>5, <1>8, <2>1, WriterStands
    <2>2. CASE t = s
      <3>1. BindInv(s)' /\ LandedInv(s)'
        BY <1>2 DEF BindInv, LandedInv
      <3>2. /\ Part(s)' = Part(s) /\ BoundBy(s)' = BoundBy(s)
            /\ \A i \in DOMAIN Part(s) : RunOfRec(Part(s)[i])' = RunOfRec(Part(s)[i])
            /\ \A r : Contested(r)' <=> Contested(r)
        BY <1>1, <1>2, SamePart, GivenStands
      <3>3. ASSUME NEW i \in DOMAIN Part(s)
            PROVE  LET r == RunOfRec(Part(s)[i])
                   IN  runs'[r] # None /\ (runs'[r] = BoundBy(s)[r] \/ Contested(r))
        <4>1. PICK run \in Runs : run = RunOfRec(Part(s)[i])
          BY <1>0, <1>3, RecordingTyped
        <4> SUFFICES runs'[run] # None /\ (runs'[run] = BoundBy(s)[run] \/ Contested(run))
          BY <4>1
        <4>2. BoundBy(s)[run] # None /\ runs'[run] = IF runs[run] # None THEN runs[run] ELSE BoundBy(s)[run]
          BY <1>1, <1>4, <4>1
        <4>3. CASE runs[run] = None
          BY <4>2, <4>3
        <4>4. CASE runs[run] # None /\ runs[run] = writer[s].bound[run]
          BY <1>4, <4>2, <4>4
        <4>5. CASE runs[run] # None /\ runs[run] # writer[s].bound[run]
          <5>1. writer[s].bound[run] = None /\ \E t2 \in Stores : t2 # s /\ GivenTo(t2, run, runs[run])
            BY <1>0, <4>5 DEF BindInv
          <5>2. GivenTo(s, run, BoundBy(s)[run])
            BY <1>4, <4>2, <5>1
          <5>3. runs[run] # BoundBy(s)[run] => Contested(run)
            BY <5>1, <5>2 DEF GivenTo, Contested
          <5> QED BY <4>2, <4>5, <5>3
        <4> QED BY <4>3, <4>4, <4>5
      <3>4. JudgedInv(s)'
        BY <3>2, <3>3 DEF JudgedInv
      <3> QED BY <2>2, <3>1, <3>4
    <2> QED BY <2>1, <2>2
  <1>10. RowsFollowEdges' /\ AnswersAreTheirOwn' /\ ForeignInv'
    BY <1>1, <1>5, RowsStand, AnswersStand, AnswersFollow
  <1> QED BY <1>2, <1>6, <1>9, <1>10 DEF RecInv

LEMMA EdgesKeep ==
  ASSUME RecInv, NEW s \in Stores, MergeEdges(s)
  PROVE  RecInv'
  <1>0. RecTypeOK /\ writer[s].pc = "edges" /\ WorkInv(s) /\ JudgedInv(s) /\ AtWork(s)
    BY DEF RecInv, MergeEdges, AtWork
  <1>1. /\ UNCHANGED <<given, fwd, cursor, sent, calls, pending, landing, runs, rows, losses>>
        /\ writer' = [writer EXCEPT ![s].pc = "feed"] /\ edges' = edges \cup Landing(s)
    BY DEF MergeEdges, WriterVars
  <1>2. /\ writer' \in [Stores -> Writer] /\ writer'[s].pc = "feed"
        /\ writer'[s].work = writer[s].work /\ writer'[s].bound = writer[s].bound
        /\ \A t \in Stores : WorkInv(t)' /\ (t # s => writer'[t] = writer[t])
    BY <1>0, <1>1, StepsOn
  <1>3. Part(s) \in Seq(MadeRec(s))
    BY <1>0, PartOfWork
  <1>4. Landing(s) \subseteq RunEvents
    BY <1>0, <1>3, RecordingTyped DEF Landing
  <1>5. RecTypeOK'
    BY <1>0, <1>1, <1>2, <1>4 DEF RecTypeOK
  <1>6. RunsStand /\ edges \subseteq edges' /\ \A t \in Stores : BoundElsewhere(t)
    BY <1>1 DEF RunsStand, BoundElsewhere
  <1>7. /\ Part(s)' = Part(s) /\ BoundBy(s)' = BoundBy(s) /\ Landing(s)' = Landing(s)
        /\ \A i \in DOMAIN Part(s) : RunOfRec(Part(s)[i])' = RunOfRec(Part(s)[i])
        /\ \A r : Contested(r)' <=> Contested(r)
    BY <1>1, <1>2, SamePart, GivenStands
  <1>8. BindInv(s)' /\ LandedInv(s)'
    BY <1>1, <1>2, <1>7 DEF BindInv, LandedInv
  <1>9. JudgedInv(s)'
    BY <1>0, <1>1, <1>7 DEF JudgedInv
  <1>10. \A t \in Stores : BindInv(t)' /\ JudgedInv(t)' /\ LandedInv(t)'
    BY <1>1, <1>2, <1>6, <1>8, <1>9, WriterStands
  <1>11. RowsFollowEdges' /\ AnswersAreTheirOwn' /\ ForeignInv'
    BY <1>1, <1>6, RowsStand, AnswersStand, AnswersFollow
  <1> QED BY <1>2, <1>5, <1>10, <1>11 DEF RecInv

\* A recording of the part that its delivery still waits on.
LEMMA AnsweredRec ==
  ASSUME RecTypeOK, NEW s \in Stores, Part(s) \in Seq(MadeRec(s)), NEW c \in Calls, NEW try,
         [call |-> c, try |-> try] \in Members(Part(s))
  PROVE  \E i \in DOMAIN Part(s) : Part(s)[i].call = c /\ EventOf(Part(s)[i]) = given.event[c]
  <1>1. PICK i \in DOMAIN Part(s) : Part(s)[i] = [call |-> c, try |-> try]
    BY DEF Members
  <1>2. Part(s)[i].call = c
    BY <1>1
  <1> QED BY <1>2 DEF EventOf

LEMMA FeedKeeps ==
  ASSUME RecInv, NEW s \in Stores, MergeFeed(s)
  PROVE  RecInv'
  <1>0. /\ RecTypeOK /\ writer[s].pc = "feed" /\ WorkInv(s) /\ JudgedInv(s) /\ LandedInv(s) /\ AtWork(s)
        /\ RowsFollowEdges
    BY DEF RecInv, MergeFeed, AtWork
  <1>1. /\ UNCHANGED <<given, fwd, cursor, sent, pending, landing, runs, edges, losses>>
        /\ writer' = [writer EXCEPT ![s] = AfterPart(s, Tail(writer[s].work))]
        /\ calls' = SettledBy(Members(Part(s)), Outcome(s))
    BY DEF MergeFeed, WriterVars
  <1>2. Part(s) \in Seq(MadeRec(s)) /\ Tail(writer[s].work) \in Seq(Seq(MadeRec(s)))
    BY <1>0, PartOfWork
  <1>3. Members(rows') = Members(rows) \cup Landing(s) /\ rows' \in Seq(RunEvents)
    BY <1>0, <1>2, FreshCovers DEF MergeFeed
  <1> DEFINE w == AfterPart(s, Tail(writer[s].work))
  <1>4. w \in WorkOf(s) /\ w.pc \in {"take", "read"} /\ (w.pc \in {"read", "bind", "edges", "feed"} => w.work # <<>>)
    BY <1>2, AfterPartIsWork
  <1> HIDE DEF w
  <1>5. /\ writer' \in [Stores -> Writer] /\ writer'[s] = w
        /\ \A t \in Stores : WorkInv(t)' /\ (t # s => writer'[t] = writer[t])
    BY <1>1, <1>4, WriterMoves DEF w
  <1>6. Outcome(s) \in [Calls -> Outcomes]
    BY DEF Outcome, Outcomes
  <1>7. /\ calls' \in [Calls -> [pc : Outcomes, try : 1..MaxTries]]
        /\ \A c \in Calls : \/ calls'[c] = calls[c]
                            \/ /\ calls'[c].pc = Outcome(s)[c]
                               /\ [call |-> c, try |-> calls[c].try] \in Members(Part(s))
    BY <1>0, <1>1, <1>6, SettlesOwn
  <1>8. RecTypeOK'
    BY <1>0, <1>1, <1>3, <1>5, <1>7 DEF RecTypeOK
  <1>9. RunsStand /\ edges \subseteq edges' /\ Members(rows) \subseteq Members(rows')
        /\ \A t \in Stores : BoundElsewhere(t)
    BY <1>1, <1>3 DEF RunsStand, BoundElsewhere
  <1>10. ASSUME NEW t \in Stores PROVE BindInv(t)' /\ JudgedInv(t)' /\ LandedInv(t)'
    <2>1. CASE t = s
      BY <1>4, <1>5, <2>1 DEF BindInv, JudgedInv, LandedInv
    <2>2. CASE t # s
      BY <1>1, <1>5, <1>9, <2>2, WriterStands
    <2> QED BY <2>1, <2>2
  <1>11. ASSUME NEW i \in DOMAIN Part(s)
         PROVE  LET e == EventOf(Part(s)[i]) IN
                /\ runs[RunOf[e]] # None
                /\ i \notin Foreign(s) => runs[RunOf[e]] = AuthorOf[e] \/ Contested(RunOf[e])
                /\ i \in Foreign(s) => runs[RunOf[e]] # AuthorOf[e] \/ Contested(RunOf[e])
    BY <1>0 DEF JudgedInv, Foreign, RunOfRec, AuthorOfRec
  <1>12. \A r : Contested(r)' <=> Contested(r)
    BY <1>1, GivenStands
  <1>13. RowsFollowEdges'
    <2> SUFFICES ASSUME NEW e \in Members(rows')
                 PROVE  /\ e \in edges /\ runs[RunOf[e]] # None
                        /\ runs[RunOf[e]] = AuthorOf[e] \/ Contested(RunOf[e])
      BY <1>1, <1>12 DEF RowsFollowEdges
    <2>1. CASE e \in Members(rows)
      BY <1>0, <2>1 DEF RowsFollowEdges
    <2>2. CASE e \in Landing(s)
      <3>1. e \in edges
        BY <1>0, <2>2 DEF LandedInv
      <3>2. PICK i \in DOMAIN Part(s) \ Foreign(s) : e = EventOf(Part(s)[i])
        BY <2>2 DEF Landing
      <3> QED BY <1>11, <3>1, <3>2
    <2> QED BY <1>3, <2>1, <2>2
  <1>14. ASSUME NEW c \in Calls
         PROVE  LET e == given.event[c] IN
                /\ calls'[c].pc = "recorded" => e \in Members(rows')
                /\ calls'[c].pc = "foreign" =>
                      runs'[RunOf[e]] # None /\ (runs'[RunOf[e]] # AuthorOf[e] \/ Contested(RunOf[e]))
                /\ calls'[c].pc = "refused" => e \in given.refused
    <2>1. CASE calls'[c] = calls[c]
      BY <1>1, <1>9, <2>1, AnswersStand
    <2>2. CASE calls'[c].pc = Outcome(s)[c] /\ [call |-> c, try |-> calls[c].try] \in Members(Part(s))
      <3>1. PICK i \in DOMAIN Part(s) : Part(s)[i].call = c /\ EventOf(Part(s)[i]) = given.event[c]
        BY <1>0, <1>2, <2>2, AnsweredRec
      <3>2. CASE \E j \in Foreign(s) : Part(s)[j].call = c
        <4>1. PICK j \in Foreign(s) : Part(s)[j].call = c
          BY <3>2
        <4>2. j \in DOMAIN Part(s) /\ EventOf(Part(s)[j]) = given.event[c]
          BY <4>1 DEF Foreign, EventOf
        <4>3. calls'[c].pc = "foreign"
          BY <2>2, <3>2 DEF Outcome
        <4> QED BY <1>1, <1>11, <4>1, <4>2, <4>3
      <3>3. CASE ~ \E j \in Foreign(s) : Part(s)[j].call = c
        <4>1. calls'[c].pc = "recorded"
          BY <2>2, <3>3 DEF Outcome
        <4>2. given.event[c] \in Landing(s)
          BY <3>1, <3>3 DEF Landing
        <4> QED BY <1>3, <4>1, <4>2
      <3> QED BY <3>2, <3>3
    <2> QED BY <1>7, <2>1, <2>2
  <1>15. AnswersAreTheirOwn' /\ ForeignInv'
    BY <1>1, <1>14, AnswersFollow
  <1> QED BY <1>5, <1>8, <1>10, <1>13, <1>15 DEF RecInv

\* A part that failed, or that the catalog refused.
LEMMA FailuresKeep ==
  ASSUME RecInv, NEW s \in Stores, RowsRefused(s) \/ PartFails(s) \/ WriterPanics(s)
  PROVE  RecInv'
  <1>0. RecTypeOK /\ WorkInv(s) /\ AtWork(s) /\ landing \in [Stores -> BOOLEAN]
    BY DEF RecInv, RecTypeOK, RowsRefused, PartFails, WriterPanics, AtWork
  <1>1. UNCHANGED <<given, fwd, cursor, sent, pending, runs, edges, rows>>
    BY DEF RowsRefused, PartFails, WriterPanics, WriterVars
  <1>2. Part(s) \in Seq(MadeRec(s)) /\ Tail(writer[s].work) \in Seq(Seq(MadeRec(s)))
        /\ writer[s].work \in Seq(Seq(MadeRec(s))) /\ writer[s].work # <<>>
    BY <1>0, PartOfWork DEF WorkInv
  <1>3. losses' \in 0..MaxLosses /\ landing' \in [Stores -> BOOLEAN]
    BY <1>0, LossTyped DEF RowsRefused, PartFails, WriterPanics, EndsWriter
  <1>4. PICK w \in WorkOf(s) : /\ writer' = [writer EXCEPT ![s] = w] /\ w.pc \in {"none", "take", "read"}
                               /\ w.pc \in {"read", "bind", "edges", "feed"} => w.work # <<>>
    <2>1. CASE RowsRefused(s)
      <3>1. Halved(s) \in Seq(Seq(MadeRec(s)))
        BY <1>2, HalvesAreWork
      <3> QED BY <2>1, <3>1, AfterPartIsWork DEF RowsRefused
    <2>2. CASE PartFails(s)
      BY <1>2, <2>2, AfterPartIsWork DEF PartFails
    <2>3. CASE WriterPanics(s)
      <3>1. NoWriter \in WorkOf(s) /\ NoWriter.pc = "none"
        BY WorkIsTyped
      <3> QED BY <2>3, <3>1 DEF WriterPanics
    <2> QED BY <2>1, <2>2, <2>3
  <1>5. /\ writer' \in [Stores -> Writer] /\ writer'[s] = w
        /\ \A t \in Stores : WorkInv(t)' /\ (t # s => writer'[t] = writer[t])
    BY <1>1, <1>4, WriterMoves
  <1>6. RunsStand /\ edges \subseteq edges' /\ Members(rows) \subseteq Members(rows')
        /\ \A t \in Stores : BoundElsewhere(t)
    BY <1>1 DEF RunsStand, BoundElsewhere
  <1>7. ASSUME NEW recs, calls' = SettledBy(recs, All("failed"))
        PROVE  calls' \in [Calls -> [pc : Outcomes, try : 1..MaxTries]] /\ AnswersMove
    <2>1. All("failed") \in [Calls -> Outcomes] /\ \A c \in Calls : All("failed")[c] = "failed"
      BY AllTyped DEF Outcomes
    <2>2. /\ calls' \in [Calls -> [pc : Outcomes, try : 1..MaxTries]]
          /\ \A c \in Calls : calls'[c] = calls[c] \/ calls'[c].pc = All("failed")[c]
      BY <1>0, <1>7, <2>1, SettlesOwn
    <2> QED BY <2>1, <2>2 DEF AnswersMove
  <1>8. CASE PartFails(s) \/ WriterPanics(s)
    <2>1. calls' \in [Calls -> [pc : Outcomes, try : 1..MaxTries]] /\ AnswersMove
      BY <1>7, <1>8 DEF PartFails, WriterPanics
    <2>2. RecTypeOK'
      BY <1>0, <1>1, <1>3, <1>5, <2>1 DEF RecTypeOK
    <2> QED BY <1>1, <1>4, <1>5, <2>1, <2>2, TablesStand
  <1>9. CASE RowsRefused(s)
    <2>1. CASE calls' = calls
      <3>1. RecTypeOK' /\ AnswersMove
        BY <1>0, <1>1, <1>3, <1>5, <2>1 DEF RecTypeOK, AnswersMove
      <3> QED BY <1>1, <1>4, <1>5, <3>1, TablesStand
    <2>2. CASE Len(Halved(s)) < Len(writer[s].work) /\ calls' = SettledBy(Members(Part(s)), All("refused"))
      <3>1. Len(Part(s)) = 1
        BY <1>2, <2>2, HalvesAreWork
      <3>2. All("refused") \in [Calls -> Outcomes] /\ \A c \in Calls : All("refused")[c] = "refused"
        BY AllTyped DEF Outcomes
      <3>3. /\ calls' \in [Calls -> [pc : Outcomes, try : 1..MaxTries]]
            /\ \A c \in Calls : \/ calls'[c] = calls[c]
                                \/ /\ calls'[c].pc = All("refused")[c]
                                   /\ [call |-> c, try |-> calls[c].try] \in Members(Part(s))
        BY <1>0, <2>2, <3>2, SettlesOwn
      <3>4. RecTypeOK'
        BY <1>0, <1>1, <1>3, <1>5, <3>3 DEF RecTypeOK
      <3>5. ASSUME NEW i \in DOMAIN Part(s) PROVE EventOf(Part(s)[i]) \in given.refused
        <4>1. PICK e \in Landing(s) : e \in given.refused
          BY <1>9 DEF RowsRefused
        <4>2. PICK j \in DOMAIN Part(s) : e = EventOf(Part(s)[j])
          BY <4>1 DEF Landing
        <4>3. i = j
          BY <1>2, <3>1
        <4> QED BY <4>1, <4>2, <4>3
      <3>6. ASSUME NEW c \in Calls
            PROVE  LET e == given.event[c] IN
                   /\ calls'[c].pc = "recorded" => e \in Members(rows')
                   /\ calls'[c].pc = "foreign" =>
                         runs'[RunOf[e]] # None /\ (runs'[RunOf[e]] # AuthorOf[e] \/ Contested(RunOf[e]))
                   /\ calls'[c].pc = "refused" => e \in given.refused
        <4>1. CASE calls'[c] = calls[c]
          BY <1>1, <1>6, <4>1, AnswersStand
        <4>2. CASE calls'[c].pc = "refused" /\ [call |-> c, try |-> calls[c].try] \in Members(Part(s))
          <5>1. PICK i \in DOMAIN Part(s) : EventOf(Part(s)[i]) = given.event[c]
            BY <1>0, <1>2, <4>2, AnsweredRec
          <5> QED BY <3>5, <4>2, <5>1
        <4> QED BY <3>2, <3>3, <4>1, <4>2
      <3>7. AnswersAreTheirOwn' /\ ForeignInv'
        BY <1>1, <3>6, AnswersFollow
      <3>8. RowsFollowEdges'
        BY <1>1, <1>6, RowsStand
      <3>9. ASSUME NEW t \in Stores PROVE BindInv(t)' /\ JudgedInv(t)' /\ LandedInv(t)'
        <4>1. CASE t = s
          BY <1>4, <1>5, <4>1 DEF BindInv, JudgedInv, LandedInv
        <4>2. CASE t # s
          BY <1>1, <1>5, <1>6, <4>2, WriterStands
        <4> QED BY <4>1, <4>2
      <3> QED BY <1>5, <3>4, <3>7, <3>8, <3>9 DEF RecInv
    <2> QED BY <1>9, <2>1, <2>2 DEF RowsRefused
  <1> QED BY <1>8, <1>9

-----------------------------------------------------------------------------
(* The theorems                                                            *)

LEMMA RecInitInv == RecInit => RecInv
  <1> SUFFICES ASSUME RecInit PROVE RecInv
    OBVIOUS
  <1>1. \A s \in Stores : NoWriter \in WorkOf(s) /\ NoWriter \in Writer /\ NoWriter.pc = "none"
    BY WorkIsTyped
  <1>2. /\ given \in Deliveries /\ calls \in [Calls -> [pc : Outcomes, try : 1..MaxTries]]
        /\ \A c \in Calls : calls[c].pc = "new"
    BY RecordsAssumption DEF RecInit, Outcomes
  <1>3. \A s \in Stores : writer[s] = NoWriter /\ pending[s] = <<>>
    BY DEF RecInit
  <1>4. rows \in Seq(RunEvents) /\ Members(rows) = {}
    BY EmptySeq DEF RecInit, Members
  <1>5. RecTypeOK
    <2>1. pending \in [Stores -> Seq(Recording)] /\ landing \in [Stores -> BOOLEAN]
      BY EmptySeq DEF RecInit
    <2>2. writer \in [Stores -> Writer]
      BY <1>1 DEF RecInit
    <2>3. /\ runs \in [Runs -> Authors \cup {None}] /\ edges \subseteq RunEvents
          /\ fwd \in [Stores -> [pc : {"idle", "send", "advance"}, mark : Nat, reached : Nat]]
          /\ cursor \in Nat /\ sent \subseteq Nat /\ losses \in 0..MaxLosses
      BY RecordsAssumption DEF RecInit, NoTick
    <2> QED BY <1>2, <1>4, <2>1, <2>2, <2>3 DEF RecTypeOK
  <1>6. ASSUME NEW s \in Stores PROVE WorkInv(s) /\ BindInv(s) /\ JudgedInv(s) /\ LandedInv(s)
    <2>1. NoWriter.batch \in Seq(MadeRec(s)) /\ NoWriter.work \in Seq(Seq(MadeRec(s)))
      BY <1>1 DEF WorkOf
    <2>2. writer[s].pc = "none"
      BY <1>1, <1>3
    <2>3. pending[s] \in Seq(MadeRec(s))
      BY <1>3, EmptySeq
    <2> QED BY <1>3, <2>1, <2>2, <2>3 DEF WorkInv, BindInv, JudgedInv, LandedInv, AtWork
  <1>7. RowsFollowEdges /\ AnswersAreTheirOwn /\ ForeignInv
    BY <1>2, <1>4 DEF RowsFollowEdges, AnswersAreTheirOwn, ForeignInv
  <1> QED BY <1>5, <1>6, <1>7 DEF RecInv

LEMMA RecStepInv == RecInv /\ [RecNext]_recVars => RecInv'
  <1> SUFFICES ASSUME RecInv, [RecNext]_recVars PROVE RecInv'
    OBVIOUS
  <1>1. ASSUME NEW s \in Stores, WriterStep(s) \/ PartFails(s) \/ WriterPanics(s) PROVE RecInv'
    BY <1>1, TakesKeep, ReadsKeep, BindsKeep, EdgesKeep, FeedKeeps, FailuresKeep DEF WriterStep
  <1>2. CASE Rests \/ UNCHANGED recVars
    BY <1>2, ForwardKeeps DEF Rests
  <1> QED BY <1>1, <1>2, DeliveriesKeep, ForwardKeeps DEF RecNext

LEMMA RecAlwaysInv == RecSpec => []RecInv
  BY RecInitInv, RecStepInv, PTL DEF RecSpec

\* Every feed row has its edges and a bound run, and its author is the one its run
\* is bound to unless two replicas were given the run under two authors: for any
\* replicas, batches, halvings, failures and panics (ProvenanceStore._commit).
THEOREM RowsAlwaysFollowEdges == RecSpec => []RowsFollowEdges
  <1>1. RecInv => RowsFollowEdges
    BY DEF RecInv
  <1> QED BY <1>1, RecAlwaysInv, PTL

\* A delivery answered recorded has its row, one answered foreign is of a run bound
\* to another, one refused carries rows the catalog refuses: what halves and other
\* deliveries of its batch went through (ProvenanceStore._land).
THEOREM AnswersAreAlwaysTheirOwn == RecSpec => []AnswersAreTheirOwn
  <1>1. RecInv => AnswersAreTheirOwn
    BY DEF RecInv
  <1> QED BY <1>1, RecAlwaysInv, PTL
=============================================================================

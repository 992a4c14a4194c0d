---------------------------- MODULE EventDelivery ----------------------------
(***************************************************************************)
(* One lineage event from its producer to lineage's feed.  The producer    *)
(* stages the event in the outbox, publishes it and drops the staged copy; *)
(* the bus delivers it at least once; what a delivery refuses or cannot    *)
(* bring in goes to the dead-letter topic, where the parking route         *)
(* presents it once more and keeps what still fails; each lineage          *)
(* replica's relay tick drains what stays staged; and an operator replays  *)
(* a staged or a parked event by hand.                                     *)
(*                                                                         *)
(* An event stands for its outbox key and its feed key: two emissions of   *)
(* one event stage one object and write one row.                           *)
(***************************************************************************)
EXTENDS Integers, FiniteSets

CONSTANTS
  Events,
  Emitters,   \* calls of _publish_staged
  Relays,     \* lineage replicas, each with its relay tick
  Operators,  \* operators replaying staged events
  MaxFaults,  \* bound: failures of a store, a process or the bus
  Offers      \* what a behaviour emits: each emitter's event, each event's kind,
              \* and the events that name no run (static changes, broken bodies)

\* What lineage makes of an event: it is recorded, refused for a grant its
\* author lacks, refused for good (unsigned, unauthored, another author's run,
\* an ungoverned output), or no event at all.
Kinds == {"sound", "ungranted", "unrepairable", "poison"}

ASSUME DeliveryAssumption ==
  /\ MaxFaults \in Nat
  /\ Relays \cap Operators = {}
  /\ Offers \subseteq [emits : [Emitters -> Events], kind : [Events -> Kinds],
                        runless : SUBSET Events]

VARIABLES
  offer,     \* what this behaviour emits
  emit,      \* per emitter: where its _publish_staged is
  outbox,    \* staged events
  stream,    \* events the bus holds for lineage, unacknowledged
  dlq,       \* deliveries on the dead-letter topic
  parks,     \* deliveries kept in the refusals table
  unkept,    \* deliveries the parking route acknowledged and failed to keep: only
             \* the dead-letter stream's own retention still holds them
  refusals,  \* staged events whose refusal is recorded
  granted,   \* events whose missing grant was written since
  feed,      \* events the feed holds a row for
  drain,     \* per replica and operator: the staged event in hand
  owed,      \* events a stage or a publish of which returned
  told,      \* events a publish of which returned
  faults     \* failures so far

vars == <<offer, emit, outbox, stream, dlq, parks, unkept, refusals, granted,
          feed, drain, owed, told, faults>>

Drainers == Relays \cup Operators
NoDrain == [pc |-> "idle", left |-> {}, event |-> {}]

TypeOK ==
  /\ offer \in Offers
  /\ emit \in [Emitters -> [pc : {"stage", "publish", "drop", "done"}, staged : BOOLEAN]]
  /\ \A S \in {outbox, stream, dlq, parks, unkept, refusals, granted, feed, owed, told} :
       S \subseteq Events
  /\ drain \in [Drainers -> [pc : {"idle", "next", "republish", "drop", "refuse"},
                             left : SUBSET Events, event : SUBSET Events]]
  /\ \A d \in Drainers :
       Cardinality(drain[d].event) = IF drain[d].pc \in {"idle", "next"} THEN 0 ELSE 1
  /\ faults \in 0..MaxFaults

Init ==
  /\ offer \in Offers
  /\ emit = [e \in Emitters |-> [pc |-> "stage", staged |-> FALSE]]
  /\ drain = [d \in Drainers |-> NoDrain]
  /\ outbox = {} /\ stream = {} /\ dlq = {} /\ parks = {} /\ unkept = {}
  /\ refusals = {} /\ granted = {} /\ feed = {} /\ owed = {} /\ told = {}
  /\ faults = 0

Fault == faults < MaxFaults /\ faults' = faults + 1

-----------------------------------------------------------------------------
(* _publish_staged: stage, publish, drop once the publish returned.        *)

EmitVars == <<offer, dlq, parks, unkept, refusals, granted, feed, drain>>

StageEvent(e) ==
  /\ emit[e].pc = "stage"
  /\ outbox' = outbox \cup {offer.emits[e]}
  /\ owed' = owed \cup {offer.emits[e]}
  /\ emit' = [emit EXCEPT ![e] = [pc |-> "publish", staged |-> TRUE]]
  /\ UNCHANGED <<EmitVars, stream, told, faults>>

\* A stage that fails degrades the call to a plain publish.
StageFails(e) ==
  /\ emit[e].pc = "stage"
  /\ Fault
  /\ emit' = [emit EXCEPT ![e].pc = "publish"]
  /\ UNCHANGED <<EmitVars, outbox, stream, owed, told>>

\* Where the call goes once its publish returned or raised.
AfterPublish(e, returned) ==
  [emit[e] EXCEPT !.pc = IF returned /\ emit[e].staged THEN "drop" ELSE "done"]

PublishEvent(e) ==
  /\ emit[e].pc = "publish"
  /\ stream' = stream \cup {offer.emits[e]}
  /\ owed' = owed \cup {offer.emits[e]}
  /\ told' = told \cup {offer.emits[e]}
  /\ emit' = [emit EXCEPT ![e] = AfterPublish(e, TRUE)]
  /\ UNCHANGED <<EmitVars, outbox, faults>>

\* The publish raises: the staged copy stays for the relay.
PublishFails(e) ==
  /\ emit[e].pc = "publish"
  /\ Fault
  /\ emit' = [emit EXCEPT ![e] = AfterPublish(e, FALSE)]
  /\ UNCHANGED <<EmitVars, outbox, stream, owed, told>>

DropEvent(e) ==
  /\ emit[e].pc = "drop"
  /\ outbox' = outbox \ {offer.emits[e]}
  /\ emit' = [emit EXCEPT ![e].pc = "done"]
  /\ UNCHANGED <<EmitVars, stream, owed, told, faults>>

\* The process dies anywhere in the call, or the drop it suppresses fails.
EmitStops(e) ==
  /\ emit[e].pc # "done"
  /\ Fault
  /\ emit' = [emit EXCEPT ![e].pc = "done"]
  /\ UNCHANGED <<EmitVars, outbox, stream, owed, told>>

-----------------------------------------------------------------------------
(* The doors' verdict, and the three routes a delivery takes.              *)

\* enforce_bus_authz: a refused event is admitted all the same when the feed
\* holds this very event (_is_replay).
Admitted(v) ==
  \/ offer.kind[v] = "sound"
  \/ offer.kind[v] = "ungranted" /\ v \in granted
  \/ offer.kind[v] # "poison" /\ v \in feed

\* handle_cloud_event acknowledges what nothing could ever repair.
Acked(v) == offer.kind[v] \in {"unrepairable", "poison"}

IntakeVars == <<offer, emit, outbox, refusals, granted, drain, owed, told>>

\* handle_cloud_event on the subscription: recorded, or acknowledged as beyond
\* repair, or answered DROP, which the sidecar routes to the dead-letter topic.
Deliver(v) ==
  /\ v \in stream
  /\ stream' = stream \ {v}
  /\ feed' = IF Admitted(v) THEN feed \cup {v} ELSE feed
  /\ dlq' = IF Admitted(v) \/ Acked(v) THEN dlq ELSE dlq \cup {v}
  /\ UNCHANGED <<IntakeVars, parks, unkept, faults>>

\* The broker delivers once more what was acknowledged (a retained stream read
\* again), or its retries of RETRY answers run out.
Redelivered(v) ==
  /\ v \in told \ stream
  /\ Fault
  /\ stream' = stream \cup {v}
  /\ UNCHANGED <<IntakeVars, dlq, parks, unkept, feed>>

RetriesRunOut(v) ==
  /\ v \in stream
  /\ Fault
  /\ stream' = stream \ {v}
  /\ dlq' = dlq \cup {v}
  /\ UNCHANGED <<IntakeVars, parks, unkept, feed>>

\* _reingest_from_the_park: a dead-lettered delivery that names a run is given
\* one more presentation, which brings in what the doors now admit.
Presented(v) == v \notin offer.runless /\ Admitted(v)

\* on_dead_letter: nothing for what the feed holds, one more presentation for
\* what names a run, and what the feed still lacks is kept (_keep_the_park).
DeadLetter(v) ==
  /\ v \in dlq
  /\ dlq' = dlq \ {v}
  /\ feed' = IF Presented(v) THEN feed \cup {v} ELSE feed
  /\ parks' = IF v \in feed' THEN parks ELSE parks \cup {v}
  /\ UNCHANGED <<IntakeVars, stream, unkept, faults>>

\* The presentation, or the feed's read around it, meets an outage: the delivery
\* is kept; or keeping it fails, which the route acknowledges all the same.
DeadLetterUnrecovered(v) ==
  /\ v \in dlq
  /\ Fault
  /\ dlq' = dlq \ {v}
  /\ \/ parks' = parks \cup {v} /\ UNCHANGED unkept
     \/ v \notin feed /\ unkept' = unkept \cup {v} /\ UNCHANGED parks
  /\ UNCHANGED <<IntakeVars, stream, feed>>

\* The service restarts, and its consumer reads the dead-letter stream's retained
\* window again: what was kept, and what was not.
DeadLetterReread(v) ==
  /\ v \in parks \cup unkept
  /\ v \notin dlq
  /\ Fault
  /\ dlq' = dlq \cup {v}
  /\ unkept' = unkept \ {v}
  /\ UNCHANGED <<IntakeVars, stream, parks, feed>>

\* replay_parked, the estate admin's door, which addresses what is kept by its
\* run: what the feed then holds is let go.
ReplayParked(v) ==
  /\ v \in parks \ offer.runless
  /\ Admitted(v)
  /\ feed' = feed \cup {v}
  /\ parks' = parks \ {v}
  /\ UNCHANGED <<IntakeVars, stream, dlq, unkept, faults>>

\* The missing grant is written.
Granted(v) ==
  /\ offer.kind[v] = "ungranted"
  /\ v \in owed \ granted
  /\ granted' = granted \cup {v}
  /\ UNCHANGED <<offer, emit, outbox, stream, dlq, parks, unkept, refusals, feed,
                 drain, owed, told, faults>>

-----------------------------------------------------------------------------
(* The relay tick and the operator's replay of a staged event.             *)

DrainVars == <<offer, emit, dlq, unkept, granted, owed>>

\* _drain_outbox lists what is staged; a tick with nothing to do is no step.
RelayLists(r) ==
  /\ drain[r].pc = "idle"
  /\ outbox # {} \/ parks \cap feed # {}
  /\ drain' = [drain EXCEPT ![r] = [NoDrain EXCEPT !.pc = "next", !.left = outbox]]
  /\ UNCHANGED <<DrainVars, outbox, stream, parks, refusals, feed, told, faults>>

\* Mutant of AfterJudging: a recovered event is dropped and never re-announced.
AfterJudgingUnannounced(v) ==
  IF offer.kind[v] = "poison" THEN "drop" ELSE IF Admitted(v) THEN "drop" ELSE "refuse"

\* Poison is dropped, an admitted event re-announced, another refused.
AfterJudging(v) ==
  IF offer.kind[v] = "poison" THEN "drop" ELSE IF Admitted(v) THEN "republish" ELSE "refuse"

\* Mutant of DrainEvent: a refused event is left staged.
DrainEventLeavesRefused(r, v) ==
  /\ drain[r].pc = "next"
  /\ v \in drain[r].left
  /\ feed' = IF Admitted(v) THEN feed \cup {v} ELSE feed
  /\ drain' = [drain EXCEPT ![r] =
       IF AfterJudging(v) = "refuse"
       THEN [@ EXCEPT !.left = @ \ {v}]
       ELSE [pc |-> AfterJudging(v), left |-> @.left \ {v}, event |-> {v}]]
  /\ UNCHANGED <<DrainVars, outbox, stream, parks, refusals, told, faults>>

\* One listed event: parsed, authorized and recorded.
DrainEvent(r, v) ==
  /\ drain[r].pc = "next"
  /\ v \in drain[r].left
  /\ feed' = IF Admitted(v) THEN feed \cup {v} ELSE feed
  /\ drain' = [drain EXCEPT ![r] = [pc |-> AfterJudging(v), left |-> @.left \ {v}, event |-> {v}]]
  /\ UNCHANGED <<DrainVars, outbox, stream, parks, refusals, told, faults>>

\* replay_dlq: only what the doors admit, and the caller may see.
OperatorReplays(o, v) ==
  /\ drain[o].pc = "idle"
  /\ v \in outbox
  /\ Admitted(v)
  /\ feed' = feed \cup {v}
  /\ drain' = [drain EXCEPT ![o] = [pc |-> "republish", left |-> {}, event |-> {v}]]
  /\ UNCHANGED <<DrainVars, outbox, stream, parks, refusals, told, faults>>

\* Where a drainer goes once it is done with the event in hand.
Onward(d) ==
  [drain[d] EXCEPT !.event = {}, !.pc = IF d \in Relays THEN "next" ELSE "idle"]

\* republish_staged: the bus's subscribers hear of a recovered event too.
DrainRepublish(d) ==
  /\ drain[d].pc = "republish"
  /\ stream' = stream \cup drain[d].event
  /\ told' = told \cup drain[d].event
  /\ drain' = [drain EXCEPT ![d].pc = "drop"]
  /\ UNCHANGED <<DrainVars, outbox, parks, refusals, feed, faults>>

\* record_refusal, before the object is retired.
DrainRefuses(r) ==
  /\ drain[r].pc = "refuse"
  /\ refusals' = refusals \cup drain[r].event
  /\ drain' = [drain EXCEPT ![r].pc = "drop"]
  /\ UNCHANGED <<DrainVars, outbox, stream, parks, feed, told, faults>>

DrainDrops(d) ==
  /\ drain[d].pc = "drop"
  /\ outbox' = outbox \ drain[d].event
  /\ drain' = [drain EXCEPT ![d] = Onward(d)]
  /\ UNCHANGED <<DrainVars, stream, parks, refusals, feed, told, faults>>

\* A failure of one event's work leaves that event staged and goes on.
DrainStrands(d) ==
  /\ drain[d].event # {}
  /\ Fault
  /\ drain' = [drain EXCEPT ![d] = Onward(d)]
  /\ UNCHANGED <<DrainVars, outbox, stream, parks, refusals, feed, told>>

\* retire_recovered_parks, after the drain and the prune.
RelayRetiresParks(r) ==
  /\ drain[r].pc = "next"
  /\ drain[r].left = {}
  /\ parks' = parks \ feed
  /\ drain' = [drain EXCEPT ![r] = NoDrain]
  /\ UNCHANGED <<DrainVars, outbox, stream, refusals, feed, told, faults>>

DrainerDies(d) ==
  /\ drain[d].pc # "idle"
  /\ Fault
  /\ drain' = [drain EXCEPT ![d] = NoDrain]
  /\ UNCHANGED <<DrainVars, outbox, stream, parks, refusals, feed, told>>

-----------------------------------------------------------------------------

EmitStep(e) == StageEvent(e) \/ PublishEvent(e) \/ DropEvent(e)
IntakeStep(v) == Deliver(v) \/ DeadLetter(v)
RelayStep(r) ==
  \/ RelayLists(r) \/ RelayRetiresParks(r) \/ DrainRefuses(r)
  \/ \E v \in Events : DrainEvent(r, v)
DrainStep(d) == DrainRepublish(d) \/ DrainDrops(d)

Done ==
  /\ \A e \in Emitters : emit[e].pc = "done"
  /\ outbox = {} /\ stream = {} /\ dlq = {} /\ parks \cap feed = {}
  /\ UNCHANGED vars

Next ==
  \/ \E e \in Emitters : EmitStep(e) \/ StageFails(e) \/ PublishFails(e) \/ EmitStops(e)
  \/ \E v \in Events :
       \/ IntakeStep(v) \/ Redelivered(v) \/ RetriesRunOut(v)
       \/ DeadLetterUnrecovered(v) \/ DeadLetterReread(v) \/ ReplayParked(v) \/ Granted(v)
       \/ \E o \in Operators : OperatorReplays(o, v)
  \/ \E r \in Relays : RelayStep(r)
  \/ \E d \in Drainers : DrainStep(d) \/ DrainStrands(d) \/ DrainerDies(d)
  \/ Done

\* Requests in flight go on, the bus keeps delivering, and some replica's
\* relay tick keeps running; nobody need write a grant or replay an event.
Fairness ==
  /\ WF_vars(\E e \in Emitters : EmitStep(e))
  /\ WF_vars(\E v \in Events : IntakeStep(v))
  /\ WF_vars(\E d \in Drainers : DrainStep(d) \/ (d \in Relays /\ RelayStep(d)))

Spec == Init /\ [][Next]_vars /\ Fairness

-----------------------------------------------------------------------------

\* At rest where a reader of the catalog finds it: on the feed, or kept in the
\* refusals table as refused or as parked.
Settled == feed \cup refusals \cup parks

\* No event that could ever be recorded vanishes: from the moment a stage or a
\* publish of it returned it is staged, on the bus, on the dead-letter topic,
\* parked, refused on record or on the feed, whoever crashes in between.  The one
\* loss the code concedes is excepted by name: a dead-lettered delivery whose
\* park failed too is acknowledged (_keep_the_park logs it as unkept), and only
\* the dead-letter stream's retention still holds it.  And once an event's staged
\* copy is gone the bus's subscribers were told of it or its refusal is on
\* record, whoever dropped it (_publish_staged, _drain_outbox, on_dead_letter,
\* replay_dlq).
NoEventVanishes ==
  \A v \in owed : ~Acked(v) =>
    /\ v \notin unkept => v \in outbox \cup stream \cup dlq \cup Settled
    /\ v \in outbox \cup told \cup refusals

\* Every event owed comes to rest, recorded, refused on record or parked, unless
\* nothing could repair it or its park failed (_keep_the_park): a crash, a failed
\* publish or exhausted retries leave it to the relay or the park.
EventsSettle ==
  []<>(\A v \in owed \ unkept : v \in Settled \/ Acked(v))

=============================================================================

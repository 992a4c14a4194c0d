----------------------------- MODULE CommitFeed -----------------------------
(***************************************************************************)
(* How every committed version of one ref comes to be on lineage's feed.   *)
(* The door that commits a version announces it after the commit, and may  *)
(* die in between; the catalog's reconciler, a cron tick on each replica,  *)
(* reads the version log after the ref's mark and announces what the feed  *)
(* lacks, for the author the catalog recorded.  An announcement sent is    *)
(* delivered any number of times, or lost: EventDelivery shows what the    *)
(* outbox, the bus and the relay make of one.                              *)
(*                                                                         *)
(* The run id of an announcement is derived from the commit, so every      *)
(* announcement of a version is one event with one feed key, the version.  *)
(***************************************************************************)
EXTENDS Integers, FiniteSets, FiniteSetsExt

CONSTANTS
  MaxVersion,     \* bound: versions the ref may hold
  Replicas,       \* catalog replicas, each with its reconcile tick
  Authenticates,  \* whether the catalog authenticates its callers
  Grace,          \* LANCE_COMMIT_RECONCILE_GRACE_SECONDS
  Horizon,        \* LANCE_COMMIT_RECONCILE_HORIZON_SECONDS
  Retention,      \* LINEAGE_EVENTS_RETENTION_DAYS
  MaxTime,        \* bound: where the clock stops
  CommitTimes,    \* bound: when commits may be made
  MaxFaults,      \* bound: failures of a store, a process or the bus
  Histories       \* the commits a behaviour may make: who makes each version

Versions == 1..MaxVersion

ASSUME FeedAssumption ==
  /\ MaxVersion \in Nat \ {0}
  /\ Authenticates \in BOOLEAN
  /\ {Grace, Horizon, Retention, MaxTime, MaxFaults} \cup CommitTimes \subseteq Nat
  /\ Grace < Horizon /\ Horizon < Retention
  /\ Replicas \cap Versions = {}
  /\ Histories \subseteq [Versions -> {"door", "quiet", "past", "other", "registered"}]
  \* A table is registered with every version it has by then.
  /\ \A h \in Histories : \A w \in Versions :
       h[w] = "registered" => \A v \in 1..w : h[v] = "registered"

VARIABLES
  now,      \* the clock
  plan,     \* who commits each version
  log,      \* per version: who committed it, and when
  authors,  \* versions an author record is kept for
  door,     \* versions whose door has yet to announce them
  sent,     \* announcements on their way to the feed
  feed,     \* per version: when its feed row was received, NoTime if it has none
  heard,    \* versions the feed has ever held a row for
  mark,     \* the ref's mark in the table's CommitMarks
  tick,     \* per replica: the reconcile tick
  counted,  \* versions counted unauthored
  faults    \* failures so far

vars == <<now, plan, log, authors, door, sent, feed, heard, mark, tick, counted, faults>>

NoTime == -1
Time == 0..MaxTime

\* Who committed a version: nobody yet, a door that announces it, a door that
\* announces nothing of it, a writer past every door, such a writer landing
\* other bytes where a door had recorded its own commit, or such a writer
\* before the table was registered.
By == {"none", "door", "quiet", "past", "other", "registered"}

NoTick == [pc |-> "idle", at |-> 0, mark |-> 0, announced |-> {}, missing |-> {},
           unauthored |-> {}, confirmed |-> 0]

TypeOK ==
  /\ now \in Time
  /\ plan \in Histories
  /\ log \in [Versions -> [by : By, at : Time \cup {NoTime}]]
  /\ \A S \in {authors, door, sent, heard, counted} : S \subseteq Versions
  /\ feed \in [Versions -> Time \cup {NoTime}]
  /\ mark \in {0} \cup Versions
  /\ tick \in [Replicas -> [pc : {"idle", "scan", "mark", "announce"},
                            at : Time, mark : {0} \cup Versions,
                            announced : SUBSET Versions, missing : SUBSET Versions,
                            unauthored : SUBSET Versions,
                            confirmed : {0} \cup Versions]]
  /\ faults \in 0..MaxFaults

Committed == {v \in Versions : log[v].by # "none"}
OnFeed == {v \in Versions : feed[v] # NoTime}

\* mark_registered_heads: a registered table starts with its head marked.
Init ==
  /\ now = 0
  /\ plan \in Histories
  /\ log = [v \in Versions |-> IF plan[v] = "registered"
                               THEN [by |-> "registered", at |-> 0]
                               ELSE [by |-> "none", at |-> NoTime]]
  /\ mark = Max({0} \cup {v \in Versions : plan[v] = "registered"})
  /\ feed = [v \in Versions |-> NoTime]
  /\ tick = [r \in Replicas |-> NoTick]
  /\ authors = {} /\ door = {} /\ sent = {} /\ heard = {} /\ counted = {}
  /\ faults = 0

Fault == faults < MaxFaults /\ faults' = faults + 1

Tick ==
  /\ now < MaxTime
  /\ now' = now + 1
  /\ UNCHANGED <<plan, log, authors, door, sent, feed, heard, mark, tick, counted, faults>>

-----------------------------------------------------------------------------
(* Commits.  A door records the caller it authorized before its commit     *)
(* lands, and announces the version once it has.                           *)

Commit(v) ==
  /\ log[v].by = "none"
  /\ \A w \in 1..(v - 1) : log[w].by # "none"
  /\ now \in CommitTimes
  /\ log' = [log EXCEPT ![v] = [by |-> plan[v], at |-> now]]
  /\ authors' = IF plan[v] \in {"door", "other"} THEN authors \cup {v} ELSE authors
  /\ door' = IF plan[v] = "door" THEN door \cup {v} ELSE door
  /\ UNCHANGED <<now, plan, sent, feed, heard, mark, tick, counted, faults>>

DoorAnnounces(v) ==
  /\ v \in door
  /\ door' = door \ {v}
  /\ sent' = sent \cup {v}
  /\ UNCHANGED <<now, plan, log, authors, feed, heard, mark, tick, counted, faults>>

\* The process dies before it stages the event, or withholds it unsigned.
DoorDies(v) ==
  /\ v \in door
  /\ Fault
  /\ door' = door \ {v}
  /\ UNCHANGED <<now, plan, log, authors, sent, feed, heard, mark, tick, counted>>

-----------------------------------------------------------------------------
(* The way to the feed and the feed itself.                                *)

FeedVars == <<now, plan, log, authors, door, mark, tick, counted>>

\* ProvenanceStore.record: an insert-only merge on the feed key.
Deliver(v) ==
  /\ v \in sent
  /\ sent' = sent \ {v}
  /\ feed' = IF v \in OnFeed THEN feed ELSE [feed EXCEPT ![v] = now]
  /\ heard' = heard \cup {v}
  /\ UNCHANGED <<FeedVars, faults>>

\* The event is lost past its publish, or delivered once more.
SentLost(v) ==
  /\ v \in sent
  /\ Fault
  /\ sent' = sent \ {v}
  /\ UNCHANGED <<FeedVars, feed, heard>>

Redelivered(v) ==
  /\ v \in OnFeed \ sent
  /\ Fault
  /\ sent' = sent \cup {v}
  /\ UNCHANGED <<FeedVars, feed, heard>>

\* prune_events, on lineage's relay tick.
Prune ==
  LET old == {v \in OnFeed : feed[v] < now - Retention} IN
  /\ old # {}
  /\ feed' = [v \in Versions |-> IF v \in old THEN NoTime ELSE feed[v]]
  /\ UNCHANGED <<FeedVars, sent, heard, faults>>

-----------------------------------------------------------------------------
(* The commit reconciler's tick, one at a time per replica.                *)

TickVars == <<now, plan, log, door, feed, heard>>

\* The tick's clock, the mark, then the rows the feed holds (announced).
TickBegin(r) ==
  /\ tick[r].pc = "idle"
  /\ tick' = [tick EXCEPT ![r] = [NoTick EXCEPT !.pc = "scan", !.at = now, !.mark = mark,
                                                !.announced = OnFeed]]
  /\ UNCHANGED <<TickVars, authors, sent, mark, counted, faults>>

\* Mutant of Looked: the first version after the mark is skipped.
LookedPastNext(t) == {v \in Committed : v > t.mark + 1 /\ log[v].at < t.at - Grace}

\* The versions after the mark that are older than the grace.
Looked(t) == {v \in Committed : v > t.mark /\ log[v].at < t.at - Grace}

\* A version older than the horizon may have left the feed: it is not read for.
Confirmed(t, v) == log[v].at < t.at - Horizon \/ v \in t.announced

\* _signed_for: a record signs only the manifest it names.
Signed(v) == v \in authors /\ log[v].by = "door"

Missing(t) ==
  {v \in Looked(t) : /\ log[v].by # "quiet"
                     /\ ~Confirmed(t, v)
                     /\ Signed(v) \/ ~Authenticates}

Unauthored(t) ==
  {v \in Looked(t) : /\ log[v].by # "quiet"
                     /\ ~Confirmed(t, v)
                     /\ ~Signed(v)
                     /\ Authenticates}

\* Mutant of Forgettable: the author of a missing version is forgotten too.
ForgettableOnSight(t) == {v \in Looked(t) : log[v].by # "quiet"}

\* Whose author records are needed no more: a version's that is confirmed, and
\* a record's that names another manifest than the version it stands for.
Forgettable(t) ==
  {v \in Looked(t) : /\ log[v].by # "quiet"
                     /\ Confirmed(t, v) \/ v \in Unauthored(t) \cap authors}

\* Mutant of ConfirmedUpTo: the mark goes to the newest version not missing.
ConfirmedUpToNewest(t) == Max({t.mark} \cup (Looked(t) \ Missing(t)))

\* The highest version before which none is missing.
ConfirmedUpTo(t) ==
  Max({t.mark} \cup {v \in Looked(t) : \A w \in Missing(t) : v < w})

\* Where a mark must stop for the records it could not delete.
HeldBelow(stuck) == {v - 1 : v \in stuck}

\* scan_ref, then _forgotten_up_to: the author of each version confirmed is
\* forgotten, and the mark is held below a record the store refused to delete.
TickScan(r) ==
  LET t == tick[r] IN
  /\ t.pc = "scan"
  /\ \E stuck \in SUBSET (Forgettable(t) \cap authors) :
       /\ IF stuck = {} THEN UNCHANGED faults ELSE Fault
       /\ authors' = authors \ (Forgettable(t) \ stuck)
       /\ tick' = [tick EXCEPT ![r] =
            [t EXCEPT !.pc = "mark",
                      !.at = 0,
                      !.announced = {},
                      !.missing = Missing(t),
                      !.unauthored = Unauthored(t),
                      !.confirmed = Min({ConfirmedUpTo(t)} \cup HeldBelow(stuck))]]
  /\ UNCHANGED <<TickVars, sent, mark, counted>>

\* write_marks, when the pass's mark is not the one it read.
TickMark(r) ==
  LET t == tick[r] IN
  /\ t.pc = "mark"
  /\ mark' = IF t.confirmed # t.mark THEN t.confirmed ELSE mark
  /\ tick' = [tick EXCEPT ![r] = [t EXCEPT !.pc = "announce", !.mark = 0, !.confirmed = 0]]
  /\ UNCHANGED <<TickVars, authors, sent, counted, faults>>

\* _announce, oldest first, awaited inline.
TickAnnounce(r) ==
  LET t == tick[r] IN
  /\ t.pc = "announce"
  /\ t.missing # {}
  /\ sent' = sent \cup {Min(t.missing)}
  /\ tick' = [tick EXCEPT ![r].missing = @ \ {Min(@)}]
  /\ UNCHANGED <<TickVars, authors, mark, counted, faults>>

\* The unauthored versions are counted once the missing ones are announced.
TickEnd(r) ==
  LET t == tick[r] IN
  /\ t.pc = "announce"
  /\ t.missing = {}
  /\ counted' = counted \cup t.unauthored
  /\ tick' = [tick EXCEPT ![r] = NoTick]
  /\ UNCHANGED <<TickVars, authors, sent, mark, faults>>

\* A log or a feed that cannot be read, or the replica dying.
TickStops(r) ==
  /\ tick[r].pc # "idle"
  /\ Fault
  /\ tick' = [tick EXCEPT ![r] = NoTick]
  /\ UNCHANGED <<TickVars, authors, sent, mark, counted>>

-----------------------------------------------------------------------------

TickStep(r) ==
  TickBegin(r) \/ TickScan(r) \/ TickMark(r) \/ TickAnnounce(r) \/ TickEnd(r)

Next ==
  \/ Tick
  \/ \E v \in Versions :
       \/ Commit(v) \/ DoorAnnounces(v) \/ DoorDies(v)
       \/ Deliver(v) \/ SentLost(v) \/ Redelivered(v)
  \/ Prune
  \/ \E r \in Replicas : TickStep(r) \/ TickStops(r)

\* The cron binding keeps firing and some replica's tick goes on, a door that
\* lives announces, deliveries go on, and the clock runs to its bound.
Fairness ==
  /\ WF_vars(Tick)
  /\ WF_vars(\E v \in Versions : DoorAnnounces(v) \/ Deliver(v))
  /\ WF_vars(\E r \in Replicas : TickStep(r))

Spec == Init /\ [][Next]_vars /\ Fairness

-----------------------------------------------------------------------------

\* Versions a row is owed for no more: none was ever owed, or the version is
\* past the horizon.
Excused ==
  {v \in Committed : log[v].by # "door" \/ log[v].at < now - Horizon}

\* The announcing of commits, with its outbox, relay, bus and reconcilers,
\* implements Announcements: a version is heard of only once committed and at
\* most once, and the mark only ever passes versions heard of or excused,
\* whatever two reconcilers racing read and whatever the store refused.
Promise == INSTANCE Announcements WITH
  Versions <- Versions,
  committed <- Committed,
  heard <- heard,
  excused <- Excused,
  settled <- mark
ImplementsAnnouncements == Promise!Spec

\* A version counted unauthored was committed past every door, unless another
\* replica's tick settled it meanwhile and so forgot its author: a door's
\* commit that no reader of the feed was told of is never reported as none of
\* the catalog's (commit_reconcile.scan_ref).
CountedIsNotLost ==
  \A v \in counted :
    log[v].by # "door" \/ v \in heard \/ log[v].at < now - Horizon

\* Every commit a door made is heard of unless it passes the horizon first:
\* whether its door dies, its announcement is lost or a tick stops halfway, a
\* later pass finds the version and announces it (commit_reconcile._on_cron).
CommitsAreHeard ==
  \A v \in Versions :
    log[v].by = "door" ~> v \in heard \/ log[v].at < now - Horizon

=============================================================================

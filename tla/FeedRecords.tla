----------------------------- MODULE FeedRecords -----------------------------
(***************************************************************************)
(* ProvenanceStore.record: how the events one lineage replica takes in     *)
(* together share a commit on each of the provenance tables.  A call puts  *)
(* its recording on the pending queue and waits; the call that finds no    *)
(* writer landing starts one; the writer lands a batch at a time: the runs *)
(* the batch founds, then its edges, then its feed rows.  A batch whose    *)
(* rows the catalog refuses lands in halves.  The forwarder of each        *)
(* replica sends the feed on to a backend, behind one shared cursor.       *)
(***************************************************************************)
EXTENDS Integers, Sequences, FiniteSets

CONSTANTS
  RunEvents, Runs, Authors,
  Stores,      \* lineage replicas
  Calls,       \* deliveries waiting on record
  None,        \* no author
  RunOf, AuthorOf,
  BatchLimit,  \* recordings a batch takes (_BATCH_BYTES)
  MaxTries,    \* bound: deliveries of one event
  MaxLosses,   \* bound: failures of the catalog, a thread or a process
  Deliveries   \* what a behaviour is given: the calls made, each one's event and
               \* replica, the events whose rows the catalog refuses, who forwards

ASSUME RecordsAssumption ==
  /\ {BatchLimit, MaxTries} \subseteq Nat \ {0}
  /\ MaxLosses \in Nat
  /\ None \notin Authors
  /\ RunOf \in [RunEvents -> Runs]
  /\ AuthorOf \in [RunEvents -> Authors]
  /\ Deliveries \subseteq [made : SUBSET Calls, event : [Calls -> RunEvents], at : [Calls -> Stores],
                       refused : SUBSET RunEvents, forwards : SUBSET Stores]

VARIABLES
  given,
  calls,    \* per call: what became of it, and which delivery it is
  pending,  \* per replica: recordings no batch took yet, oldest first
  landing,  \* per replica: whether a writer thread is landing
  writer,   \* per replica: the writer thread
  runs,     \* the runs table: the author each run is bound to
  edges,    \* the edges table: events whose edges landed
  rows,     \* the feed table's rows, in seq order
  fwd,      \* per replica: the forwarder's tick
  cursor,   \* the forwarder's cursor
  sent,     \* feed rows the backend answered
  losses    \* failures so far

recVars == <<given, calls, pending, landing, writer, runs, edges, rows, fwd, cursor, sent, losses>>

Recording == [call : Calls, try : 1..MaxTries]
Outcomes == {"new", "waiting", "gone", "recorded", "foreign", "refused", "failed"}
NoWriter == [pc |-> "none", batch |-> <<>>, work |-> <<>>, bound |-> [r \in Runs |-> None]]
NoTick == [pc |-> "idle", mark |-> 0, reached |-> 0]
Writer == [pc : {"none", "take", "read", "bind", "edges", "feed"}, batch : Seq(Recording),
           work : Seq(Seq(Recording)), bound : [Runs -> Authors \cup {None}]]

RecTypeOK ==
  /\ given \in Deliveries
  /\ calls \in [Calls -> [pc : Outcomes, try : 1..MaxTries]]
  /\ pending \in [Stores -> Seq(Recording)]
  /\ landing \in [Stores -> BOOLEAN]
  /\ writer \in [Stores -> Writer]
  /\ runs \in [Runs -> Authors \cup {None}]
  /\ edges \subseteq RunEvents
  /\ rows \in Seq(RunEvents)
  /\ fwd \in [Stores -> [pc : {"idle", "send", "advance"}, mark : Nat, reached : Nat]]
  /\ cursor \in Nat
  /\ sent \subseteq Nat
  /\ losses \in 0..MaxLosses

RecInit ==
  /\ given \in Deliveries
  /\ calls = [c \in Calls |-> [pc |-> "new", try |-> 1]]
  /\ pending = [s \in Stores |-> <<>>]
  /\ landing = [s \in Stores |-> FALSE]
  /\ writer = [s \in Stores |-> NoWriter]
  /\ runs = [r \in Runs |-> None]
  /\ edges = {} /\ rows = <<>>
  /\ fwd = [s \in Stores |-> NoTick]
  /\ cursor = 0 /\ sent = {} /\ losses = 0

Loss == losses < MaxLosses /\ losses' = losses + 1

EventOf(rec) == given.event[rec.call]
Members(seq) == {seq[i] : i \in DOMAIN seq}

-----------------------------------------------------------------------------
(* The deliveries.                                                         *)

CallVars == <<given, runs, edges, rows, fwd, cursor, sent>>

\* record: queue the recording, and start a writer when none is landing.
Record(c) ==
  LET s == given.at[c] IN
  /\ c \in given.made
  /\ calls[c].pc = "new"
  /\ calls' = [calls EXCEPT ![c].pc = "waiting"]
  /\ pending' = [pending EXCEPT ![s] = Append(@, [call |-> c, try |-> calls[c].try])]
  /\ landing' = [landing EXCEPT ![s] = TRUE]
  /\ writer' = IF landing[s] THEN writer ELSE [writer EXCEPT ![s].pc = "take"]
  /\ UNCHANGED <<CallVars, losses>>

\* The thread cannot be started: the call raises, and its recording stays for
\* the writer the next call starts.
RecordStartsNoThread(c) ==
  LET s == given.at[c] IN
  /\ c \in given.made
  /\ calls[c].pc = "new"
  /\ ~landing[s]
  /\ Loss
  /\ calls' = [calls EXCEPT ![c].pc = "failed"]
  /\ pending' = [pending EXCEPT ![s] = Append(@, [call |-> c, try |-> calls[c].try])]
  /\ UNCHANGED <<CallVars, landing, writer>>

\* A delivery stops waiting: its own deadline passes, as it must when no writer
\* is left to answer it.
StopsWaiting(c) ==
  /\ calls[c].pc = "waiting"
  /\ IF landing[given.at[c]] THEN Loss ELSE UNCHANGED losses
  /\ calls' = [calls EXCEPT ![c].pc = "gone"]
  /\ UNCHANGED <<CallVars, pending, landing, writer>>

\* handle_cloud_event answered RETRY, or nothing: the sidecar delivers again.
DeliversAgain(c) ==
  /\ calls[c].pc \in {"gone", "failed", "refused"}
  /\ calls[c].try < MaxTries
  /\ calls' = [calls EXCEPT ![c] = [pc |-> "new", try |-> @.try + 1]]
  /\ UNCHANGED <<CallVars, pending, landing, writer, losses>>

-----------------------------------------------------------------------------
(* The writer thread.                                                      *)

WriterVars == <<given, fwd, cursor, sent>>

\* Mutant of EndsWriter: the flag is left for the thread's end.
EndsWriterLate(s) == landing

\* The emptied queue and the flag change under one lock: a call queued after
\* finds no writer landing.
EndsWriter(s) == [landing EXCEPT ![s] = FALSE]

\* _next_batch, within its bound; nothing pending ends the writer.
NextBatch(s) ==
  LET n == IF Len(pending[s]) < BatchLimit THEN Len(pending[s]) ELSE BatchLimit
      batch == SubSeq(pending[s], 1, n) IN
  /\ writer[s].pc = "take"
  /\ \/ /\ n > 0
        /\ pending' = [pending EXCEPT ![s] = SubSeq(@, n + 1, Len(@))]
        /\ writer' = [writer EXCEPT ![s] = [NoWriter EXCEPT !.pc = "read", !.batch = batch,
                                                            !.work = <<batch>>]]
        /\ UNCHANGED landing
     \/ /\ n = 0
        /\ landing' = EndsWriter(s)
        /\ writer' = [writer EXCEPT ![s] = NoWriter]
        /\ UNCHANGED pending
  /\ UNCHANGED <<WriterVars, calls, runs, edges, rows, losses>>

\* The part of the batch the writer is landing, its founders and what it refuses.
Part(s) == Head(writer[s].work)
RunOfRec(rec) == RunOf[EventOf(rec)]
AuthorOfRec(rec) == AuthorOf[EventOf(rec)]

\* The first of the part to name the run.
Founds(s, r, i) ==
  RunOfRec(Part(s)[i]) = r /\ \A j \in 1..(i - 1) : RunOfRec(Part(s)[j]) # r
Founder(s, r) == Part(s)[CHOOSE i \in DOMAIN Part(s) : Founds(s, r, i)]

\* The author each run of the part is bound to: the table's, or the founder.
BoundBy(s) ==
  [r \in Runs |->
     IF writer[s].bound[r] # None THEN writer[s].bound[r]
     ELSE IF \A i \in DOMAIN Part(s) : RunOfRec(Part(s)[i]) # r THEN None
     ELSE AuthorOfRec(Founder(s, r))]

\* Recordings of a run that is another author's (_extends_another_authors).
Foreign(s) ==
  {i \in DOMAIN Part(s) : BoundBy(s)[RunOfRec(Part(s)[i])] # AuthorOfRec(Part(s)[i])}

Landing(s) == {EventOf(Part(s)[i]) : i \in DOMAIN Part(s) \ Foreign(s)}

\* _authors_of.
ReadRuns(s) ==
  /\ writer[s].pc = "read"
  /\ writer' = [writer EXCEPT ![s].pc = "bind", ![s].bound = runs]
  /\ UNCHANGED <<WriterVars, calls, pending, landing, runs, edges, rows, losses>>

\* Mutant of BindRuns: the feed rows go before the edges.
BindRunsThenFeed(s) ==
  /\ writer[s].pc = "bind"
  /\ runs' = [r \in Runs |-> IF runs[r] # None THEN runs[r] ELSE BoundBy(s)[r]]
  /\ writer' = [writer EXCEPT ![s].pc = "feed"]
  /\ UNCHANGED <<WriterVars, calls, pending, landing, edges, rows, losses>>

\* An insert-only merge of the founders: a run bound meanwhile stays bound.
BindRuns(s) ==
  /\ writer[s].pc = "bind"
  /\ runs' = [r \in Runs |-> IF runs[r] # None THEN runs[r] ELSE BoundBy(s)[r]]
  /\ writer' = [writer EXCEPT ![s].pc = "edges"]
  /\ UNCHANGED <<WriterVars, calls, pending, landing, edges, rows, losses>>

MergeEdges(s) ==
  /\ writer[s].pc = "edges"
  /\ edges' = edges \cup Landing(s)
  /\ writer' = [writer EXCEPT ![s].pc = "feed"]
  /\ UNCHANGED <<WriterVars, calls, pending, landing, runs, rows, losses>>

\* _settle: only a delivery that still waits on this recording is answered.
SettledBy(recs, outcome) ==
  [c \in Calls |->
     IF calls[c].pc = "waiting" /\ [call |-> c, try |-> calls[c].try] \in recs
     THEN [calls[c] EXCEPT !.pc = outcome[c]]
     ELSE calls[c]]

All(outcome) == [c \in Calls |-> outcome]

\* Where the writer goes once a part landed or failed.
AfterPart(s, parts) ==
  IF parts = <<>>
  THEN [NoWriter EXCEPT !.pc = "take"]
  ELSE [writer[s] EXCEPT !.pc = "read", !.work = parts, !.bound = NoWriter.bound]

\* The part's rows the feed lacks, each key once, its first delivery's.
Fresh(s) ==
  {i \in DOMAIN Part(s) \ Foreign(s) :
     /\ EventOf(Part(s)[i]) \notin Members(rows)
     /\ \A j \in 1..(i - 1) : EventOf(Part(s)[j]) # EventOf(Part(s)[i])}

\* The one enumeration of a set of positions in their order.
InOrder(positions) ==
  {order \in [1..Cardinality(positions) -> positions] :
     /\ \A i \in positions : \E k \in DOMAIN order : order[k] = i
     /\ \A j, k \in DOMAIN order : j < k => order[j] < order[k]}

\* What _land answers a delivery of a part that landed.
Outcome(s) ==
  LET foreign == {Part(s)[i].call : i \in Foreign(s)} IN
  [c \in Calls |-> IF c \in foreign THEN "foreign" ELSE "recorded"]

\* The fresh rows are appended in the part's order, and its deliveries answered.
MergeFeed(s) ==
  /\ writer[s].pc = "feed"
  /\ Landing(s) \cap given.refused = {}
  /\ \E order \in InOrder(Fresh(s)) :
       rows' = rows \o [k \in DOMAIN order |-> EventOf(Part(s)[order[k]])]
  /\ calls' = SettledBy(Members(Part(s)), Outcome(s))
  /\ writer' = [writer EXCEPT ![s] = AfterPart(s, Tail(@.work))]
  /\ UNCHANGED <<WriterVars, pending, landing, runs, edges, losses>>

\* Mutant of Halved: a refused batch fails whole.
HalvedNever(s) == Tail(writer[s].work)

\* A part of several refused lands in halves.
Halved(s) ==
  LET half == Len(Part(s)) \div 2 IN
  IF Len(Part(s)) = 1
  THEN Tail(writer[s].work)
  ELSE <<SubSeq(Part(s), 1, half), SubSeq(Part(s), half + 1, Len(Part(s)))>> \o Tail(writer[s].work)

\* The catalog refuses the rows of the part (_REFUSED_ROWS).
RowsRefused(s) ==
  /\ writer[s].pc \in {"edges", "feed"}
  /\ Landing(s) \cap given.refused # {}
  /\ calls' = IF Len(Halved(s)) < Len(writer[s].work)
              THEN SettledBy(Members(Part(s)), All("refused"))
              ELSE calls
  /\ writer' = [writer EXCEPT ![s] = AfterPart(s, Halved(s))]
  /\ UNCHANGED <<WriterVars, pending, landing, runs, edges, rows, losses>>

\* Any other failure fails the part whole.
PartFails(s) ==
  /\ writer[s].pc \in {"read", "bind", "edges", "feed"}
  /\ Loss
  /\ calls' = SettledBy(Members(Part(s)), All("failed"))
  /\ writer' = [writer EXCEPT ![s] = AfterPart(s, Tail(@.work))]
  /\ UNCHANGED <<WriterVars, pending, landing, runs, edges, rows>>

\* A panic under the commit ends the thread: the batch fails with it, and what
\* is pending waits for the next call.
WriterPanics(s) ==
  /\ writer[s].pc \in {"read", "bind", "edges", "feed"}
  /\ Loss
  /\ calls' = SettledBy(Members(writer[s].batch), All("failed"))
  /\ writer' = [writer EXCEPT ![s] = NoWriter]
  /\ landing' = EndsWriter(s)
  /\ UNCHANGED <<WriterVars, pending, runs, edges, rows>>

-----------------------------------------------------------------------------
(* The forwarder's tick.                                                   *)

ForwardVars == <<given, calls, pending, landing, writer, runs, edges, rows>>

ForwardReads(s) ==
  /\ s \in given.forwards
  /\ fwd[s].pc = "idle"
  /\ cursor < Len(rows)
  /\ fwd' = [fwd EXCEPT ![s] = [pc |-> "send", mark |-> cursor, reached |-> cursor]]
  /\ UNCHANGED <<ForwardVars, cursor, sent, losses>>

\* The backend takes the row or refuses it for good: both are answers.
ForwardSends(s) ==
  /\ fwd[s].pc = "send"
  /\ fwd[s].reached < Len(rows)
  /\ fwd' = [fwd EXCEPT ![s].reached = @ + 1]
  /\ sent' = sent \cup {fwd[s].reached + 1}
  /\ UNCHANGED <<ForwardVars, cursor, losses>>

\* The feed's head is reached, or the backend answers an outage.
ForwardStops(s) ==
  /\ fwd[s].pc = "send"
  /\ IF fwd[s].reached < Len(rows) THEN Loss ELSE UNCHANGED losses
  /\ fwd' = [fwd EXCEPT ![s].pc = "advance"]
  /\ UNCHANGED <<ForwardVars, cursor, sent>>

\* advance_cursor: an upsert that never moves the cursor backward.
Advanced(s) ==
  IF fwd[s].reached > fwd[s].mark /\ fwd[s].reached > cursor THEN fwd[s].reached ELSE cursor

ForwardAdvances(s) ==
  /\ fwd[s].pc = "advance"
  /\ cursor' = Advanced(s)
  /\ fwd' = [fwd EXCEPT ![s] = NoTick]
  /\ UNCHANGED <<ForwardVars, sent, losses>>

-----------------------------------------------------------------------------

WriterStep(s) ==
  \/ NextBatch(s) \/ ReadRuns(s) \/ BindRuns(s)
  \/ MergeEdges(s) \/ MergeFeed(s) \/ RowsRefused(s)
ForwardStep(s) == ForwardReads(s) \/ ForwardSends(s) \/ ForwardAdvances(s)

\* Nothing is landing and no tick runs: the service waits for deliveries.
Rests ==
  /\ \A s \in Stores : writer[s].pc = "none" /\ fwd[s].pc = "idle"
  /\ UNCHANGED recVars

RecNext ==
  \/ \E c \in Calls : Record(c) \/ RecordStartsNoThread(c) \/ StopsWaiting(c) \/ DeliversAgain(c)
  \/ \E s \in Stores : WriterStep(s) \/ PartFails(s) \/ WriterPanics(s)
  \/ \E s \in Stores : ForwardStep(s) \/ ForwardStops(s)
  \/ Rests

\* Writer threads run on, the sidecar delivers and gives up on what nobody
\* will answer.
RecFairness ==
  /\ WF_recVars(\E c \in Calls : Record(c))
  /\ WF_recVars(\E c \in Calls : DeliversAgain(c))
  /\ WF_recVars(\E c \in Calls : ~landing[given.at[c]] /\ StopsWaiting(c))
  /\ WF_recVars(\E s \in Stores : WriterStep(s))

RecSpec == RecInit /\ [][RecNext]_recVars /\ RecFairness

-----------------------------------------------------------------------------

\* Two replicas were given a run under two authors: each judges by the binding
\* it read, and neither sees the other's founder.
Contested(r) ==
  \E c, d \in given.made :
    /\ given.at[c] # given.at[d]
    /\ RunOf[given.event[c]] = r /\ RunOf[given.event[d]] = r
    /\ AuthorOf[given.event[c]] # AuthorOf[given.event[d]]

\* A follower that sees an event's row can read every edge it asserts, and the
\* row's author is the one its run is bound to: the commits go bindings, edges,
\* feed, whatever part of a batch fails in between, and a run that one replica
\* was given is extended only by its author (ProvenanceStore._commit).
RowsFollowEdges ==
  \A e \in Members(rows) :
    /\ e \in edges
    /\ runs[RunOf[e]] # None
    /\ runs[RunOf[e]] = AuthorOf[e] \/ Contested(RunOf[e])

\* A delivery answered recorded has its row, one answered foreign is of a run
\* bound to another, and one refused carries rows the catalog refuses itself: a
\* failure one event causes stays its own (ProvenanceStore._land).
AnswersAreTheirOwn ==
  \A c \in Calls :
    LET e == given.event[c] IN
    /\ calls[c].pc = "recorded" => e \in Members(rows)
    /\ calls[c].pc = "foreign" => runs[RunOf[e]] # AuthorOf[e] \/ Contested(RunOf[e])
    /\ calls[c].pc = "refused" => e \in given.refused

\* Every delivery is answered once deliveries outnumber failures: a call queued
\* as the writer ends, a thread that cannot start and a panic leave none
\* waiting (ProvenanceStore.record, _land_pending).
DeliveriesAreAnswered ==
  <>(\A c \in given.made : given.event[c] \in given.refused \/ calls[c].pc \in {"recorded", "foreign"})

=============================================================================

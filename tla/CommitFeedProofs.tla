-------------------------- MODULE CommitFeedProofs --------------------------
(***************************************************************************)
(* The commit feed for any number of versions, replicas and faults, any    *)
(* grace, horizon and retention, and any history of commits.               *)
(***************************************************************************)
EXTENDS CommitFeed, WellFoundedInduction, TLAPS

\* A tick's locals.
TickLocals ==
  [pc : {"idle", "scan", "mark", "announce"}, at : Time, mark : {0} \cup Versions,
   announced : SUBSET Versions, missing : SUBSET Versions, unauthored : SUBSET Versions,
   confirmed : {0} \cup Versions]

\* The log is a prefix of the versions, committed in the order of time.
LogIsAPrefix ==
  /\ \A v \in Committed : log[v].at \in Time /\ log[v].at <= now
  /\ \A w \in Committed : \A v \in Versions : v < w => v \in Committed /\ log[v].at <= log[w].at

\* What is announced, sent, on the feed or heard of was committed.
AnnouncedIsCommitted ==
  /\ door \cup sent \cup heard \subseteq Committed
  /\ OnFeed \subseteq heard
  /\ \A r \in Replicas : /\ tick[r].missing \subseteq Committed
                         /\ tick[r].announced \subseteq heard
                         /\ tick[r].at <= now

\* A version nobody is owed a row for any more, or has had it.
Accounted == heard \cup Excused
Settled(m) == \A v \in Versions : v <= m => v \in Accounted

\* A door's commit keeps its author record until it is accounted for.
AuthorsAreKept == \A v \in Committed : v \in authors \cup Accounted \/ log[v].by # "door"

\* Marks, kept and carried, are of accounted versions.
MarksAreSettled ==
  /\ Settled(mark)
  /\ \A r \in Replicas : Settled(tick[r].mark) /\ Settled(tick[r].confirmed)

\* What a tick counts, and what was counted, is accounted for.
CountsAreAccounted ==
  /\ counted \subseteq Accounted
  /\ \A r \in Replicas : tick[r].unauthored \subseteq Accounted

FeedInv ==
  /\ TypeOK /\ LogIsAPrefix /\ AnnouncedIsCommitted
  /\ AuthorsAreKept /\ MarksAreSettled /\ CountsAreAccounted

-----------------------------------------------------------------------------

\* A set of naturals has a least element; a bounded one has a greatest.
LEMMA LeastOfNaturals ==
  ASSUME NEW S \in SUBSET Nat, S # {}
  PROVE  Min(S) \in S /\ \A x \in S : Min(S) <= x
<1>1. \E m \in S : \A x \in S : ~ (<<x, m>> \in OpToRel(<, Nat))
  BY NatLessThanWellFounded, WFMin
<1>2. PICK m \in S : \A x \in S : ~ (x < m)
  BY <1>1 DEF OpToRel
<1>3. \A x \in S : m <= x
  BY <1>2
<1> QED BY <1>3 DEF Min

LEMMA GreatestOfBounded ==
  ASSUME NEW n \in Nat, NEW S \in SUBSET (0..n), S # {}
  PROVE  Max(S) \in S /\ \A x \in S : Max(S) >= x
<1> DEFINE T == {n - x : x \in S}
<1>1. T \in SUBSET Nat /\ T # {}
  <2>1. \A x \in S : n - x \in Nat
    OBVIOUS
  <2>2. PICK x \in S : TRUE
    OBVIOUS
  <2>3. n - x \in T
    OBVIOUS
  <2> QED BY <2>1, <2>3
<1>2. PICK m \in T : \A y \in T : m <= y
  BY <1>1, LeastOfNaturals
<1>3. PICK z \in S : m = n - z
  BY <1>2
<1>4. \A x \in S : z >= x
  <2> TAKE x \in S
  <2>1. n - z <= n - x
    BY <1>2, <1>3
  <2> QED BY <2>1
<1> QED BY <1>4 DEF Max

\* Every set of versions has a least one, and with any mark a greatest.
LEMMA VersionBounds ==
  ASSUME NEW S \in SUBSET ({0} \cup Versions), S # {}
  PROVE  /\ Max(S) \in S /\ \A x \in S : Max(S) >= x
         /\ Min(S) \in S /\ \A x \in S : Min(S) <= x
<1>1. MaxVersion \in Nat /\ {0} \cup Versions \subseteq 0..MaxVersion
  BY FeedAssumption DEF Versions
<1>2. S \in SUBSET (0..MaxVersion) /\ S \in SUBSET Nat
  BY <1>1
<1> QED BY <1>1, <1>2, LeastOfNaturals, GreatestOfBounded

\* The constants are whole numbers.
LEMMA WholeNumbers ==
  /\ MaxVersion \in Nat /\ Grace \in Nat /\ Horizon \in Nat /\ Retention \in Nat
  /\ MaxTime \in Nat /\ MaxFaults \in Nat /\ Grace < Horizon
  BY FeedAssumption

\* The tick at rest is typed.
LEMMA RestTyped == NoTick \in TickLocals
  BY WholeNumbers DEF NoTick, TickLocals, Time

\* What a pass finds is of the versions after its mark.
LEMMA ScanTyped ==
  ASSUME TypeOK, NEW r \in Replicas, NEW stuck \in SUBSET (Forgettable(tick[r]) \cap authors)
  PROVE  /\ Looked(tick[r]) \subseteq Versions
         /\ Missing(tick[r]) \subseteq Looked(tick[r]) /\ Unauthored(tick[r]) \subseteq Looked(tick[r])
         /\ Forgettable(tick[r]) \subseteq Looked(tick[r])
         /\ ConfirmedUpTo(tick[r]) \in {0} \cup Versions
         /\ \/ ConfirmedUpTo(tick[r]) = tick[r].mark
            \/ /\ ConfirmedUpTo(tick[r]) \in Looked(tick[r])
               /\ \A w \in Missing(tick[r]) : ConfirmedUpTo(tick[r]) < w
         /\ Min({ConfirmedUpTo(tick[r])} \cup HeldBelow(stuck)) \in {0} \cup Versions
         /\ Min({ConfirmedUpTo(tick[r])} \cup HeldBelow(stuck)) <= ConfirmedUpTo(tick[r])
<1> DEFINE t == tick[r]
<1>1. Looked(t) \subseteq Versions
  BY DEF Looked, Committed
<1>2. Missing(t) \subseteq Looked(t) /\ Unauthored(t) \subseteq Looked(t) /\ Forgettable(t) \subseteq Looked(t)
  BY DEF Missing, Unauthored, Forgettable
<1>3. t.mark \in {0} \cup Versions
  BY DEF TypeOK
<1> DEFINE S == {t.mark} \cup {v \in Looked(t) : \A w \in Missing(t) : v < w}
<1>4. S \in SUBSET ({0} \cup Versions) /\ S # {}
  BY <1>1, <1>3
<1>5. Max(S) \in S
  BY <1>4, VersionBounds
<1>6. ConfirmedUpTo(t) = Max(S)
  BY DEF ConfirmedUpTo
<1>7. ConfirmedUpTo(t) \in {0} \cup Versions
  BY <1>4, <1>5, <1>6
<1>8. \/ ConfirmedUpTo(t) = t.mark
      \/ ConfirmedUpTo(t) \in Looked(t) /\ \A w \in Missing(t) : ConfirmedUpTo(t) < w
  BY <1>5, <1>6
<1> HIDE DEF S
<1>9. HeldBelow(stuck) \subseteq {0} \cup Versions
  <2>1. \A v \in stuck : v - 1 \in {0} \cup Versions
    BY <1>1, <1>2, WholeNumbers DEF Versions
  <2> QED BY <2>1 DEF HeldBelow
<1> DEFINE H == {ConfirmedUpTo(t)} \cup HeldBelow(stuck)
<1>10. H \in SUBSET ({0} \cup Versions) /\ H # {} /\ ConfirmedUpTo(t) \in H
  BY <1>7, <1>9
<1>11. Min(H) \in {0} \cup Versions /\ Min(H) <= ConfirmedUpTo(t)
  <2> HIDE DEF H
  <2>1. Min(H) \in H /\ \A x \in H : Min(H) <= x
    BY <1>10, VersionBounds
  <2> QED BY <1>10, <2>1
<1> QED BY <1>1, <1>2, <1>7, <1>8, <1>11

\* Every action keeps the variables in their types.
LEMMA FeedTypes == ASSUME TypeOK, Next PROVE TypeOK'
<1>t. /\ now \in Time /\ plan \in Histories /\ log \in [Versions -> [by : By, at : Time \cup {NoTime}]]
      /\ authors \subseteq Versions /\ door \subseteq Versions /\ sent \subseteq Versions
      /\ heard \subseteq Versions /\ counted \subseteq Versions
      /\ feed \in [Versions -> Time \cup {NoTime}] /\ mark \in {0} \cup Versions
      /\ tick \in [Replicas -> TickLocals] /\ faults \in 0..MaxFaults
  BY DEF TypeOK, TickLocals
<1>y. ASSUME /\ now' \in Time /\ plan' = plan /\ log' \in [Versions -> [by : By, at : Time \cup {NoTime}]]
             /\ authors' \subseteq Versions /\ door' \subseteq Versions /\ sent' \subseteq Versions
             /\ heard' \subseteq Versions /\ counted' \subseteq Versions
             /\ feed' \in [Versions -> Time \cup {NoTime}] /\ mark' \in {0} \cup Versions
             /\ tick' \in [Replicas -> TickLocals] /\ faults' \in 0..MaxFaults
      PROVE  TypeOK'
  BY <1>t, <1>y DEF TypeOK, TickLocals
<1>f. Fault => faults' \in 0..MaxFaults
  BY <1>t, WholeNumbers DEF Fault
<1>1. CASE Tick
  <2>1. now' \in Time
    BY <1>1, <1>t, WholeNumbers DEF Tick, Time
  <2> QED BY <1>1, <2>1, <1>t, <1>y DEF Tick
<1>2. ASSUME NEW v \in Versions, Commit(v) PROVE TypeOK'
  <2>1. plan[v] \in By
    BY <1>t, FeedAssumption DEF By
  <2>2. log' \in [Versions -> [by : By, at : Time \cup {NoTime}]]
    BY <1>2, <1>t, <2>1 DEF Commit
  <2> QED BY <1>2, <1>t, <1>y, <2>2 DEF Commit
<1>3. ASSUME NEW v \in Versions, DoorAnnounces(v) \/ DoorDies(v) PROVE TypeOK'
  BY <1>3, <1>t, <1>y, <1>f DEF DoorAnnounces, DoorDies
<1>4. ASSUME NEW v \in Versions, Deliver(v) PROVE TypeOK'
  BY <1>4, <1>t, <1>y DEF Deliver, FeedVars
<1>5. ASSUME NEW v \in Versions, SentLost(v) \/ Redelivered(v) PROVE TypeOK'
  BY <1>5, <1>t, <1>y, <1>f DEF SentLost, Redelivered, FeedVars
<1>6. CASE Prune
  <2>1. feed' \in [Versions -> Time \cup {NoTime}]
    BY <1>6, <1>t DEF Prune
  <2> QED BY <1>6, <2>1, <1>t, <1>y DEF Prune, FeedVars
<1>7. ASSUME NEW r \in Replicas, TickBegin(r) PROVE TypeOK'
  <2>1. OnFeed \in SUBSET Versions
    BY DEF OnFeed
  <2>2. [NoTick EXCEPT !.pc = "scan", !.at = now, !.mark = mark, !.announced = OnFeed] \in TickLocals
    BY RestTyped, <1>t, <2>1 DEF TickLocals
  <2>3. tick' \in [Replicas -> TickLocals]
    BY <1>7, <1>t, <2>2 DEF TickBegin
  <2> QED BY <1>7, <2>3, <1>t, <1>y DEF TickBegin, TickVars
<1>8. ASSUME NEW r \in Replicas, TickScan(r) PROVE TypeOK'
  <2>1. PICK stuck \in SUBSET (Forgettable(tick[r]) \cap authors) :
          /\ IF stuck = {} THEN UNCHANGED faults ELSE Fault
          /\ authors' = authors \ (Forgettable(tick[r]) \ stuck)
          /\ tick' = [tick EXCEPT ![r] =
               [tick[r] EXCEPT !.pc = "mark", !.at = 0, !.announced = {}, !.missing = Missing(tick[r]),
                               !.unauthored = Unauthored(tick[r]),
                               !.confirmed = Min({ConfirmedUpTo(tick[r])} \cup HeldBelow(stuck))]]
    BY <1>8 DEF TickScan
  <2>2. /\ Missing(tick[r]) \in SUBSET Versions /\ Unauthored(tick[r]) \in SUBSET Versions
        /\ Min({ConfirmedUpTo(tick[r])} \cup HeldBelow(stuck)) \in {0} \cup Versions
    BY ScanTyped
  <2>3. 0 \in Time /\ tick[r] \in TickLocals
    BY <1>t, WholeNumbers DEF Time
  <2>4. [tick[r] EXCEPT !.pc = "mark", !.at = 0, !.announced = {}, !.missing = Missing(tick[r]),
                        !.unauthored = Unauthored(tick[r]),
                        !.confirmed = Min({ConfirmedUpTo(tick[r])} \cup HeldBelow(stuck))] \in TickLocals
    BY <2>2, <2>3 DEF TickLocals
  <2>5. tick' \in [Replicas -> TickLocals]
    BY <1>t, <2>1, <2>4
  <2> QED BY <1>8, <2>1, <2>5, <1>t, <1>y, <1>f DEF TickScan, TickVars
<1>9. ASSUME NEW r \in Replicas, TickMark(r) PROVE TypeOK'
  <2>1. [tick[r] EXCEPT !.pc = "announce", !.mark = 0, !.confirmed = 0] \in TickLocals
    BY <1>t DEF TickLocals
  <2>2. tick' \in [Replicas -> TickLocals] /\ mark' \in {0} \cup Versions
    BY <1>9, <1>t, <2>1 DEF TickMark, TickLocals
  <2> QED BY <1>9, <2>2, <1>t, <1>y DEF TickMark, TickVars
<1>10. ASSUME NEW r \in Replicas, TickAnnounce(r) PROVE TypeOK'
  <2>1. tick[r].missing \in SUBSET Versions /\ tick[r].missing # {}
    BY <1>10, <1>t DEF TickAnnounce, TickLocals
  <2>2. Min(tick[r].missing) \in Versions
    BY <2>1, VersionBounds
  <2>3. [tick[r] EXCEPT !.missing = tick[r].missing \ {Min(tick[r].missing)}] \in TickLocals
    BY <1>t, <2>1 DEF TickLocals
  <2>4. tick' \in [Replicas -> TickLocals]
    BY <1>10, <1>t, <2>3 DEF TickAnnounce
  <2> QED BY <1>10, <2>2, <2>4, <1>t, <1>y DEF TickAnnounce, TickVars
<1>11. ASSUME NEW r \in Replicas, TickEnd(r) PROVE TypeOK'
  <2>1. tick[r].unauthored \in SUBSET Versions
    BY <1>t DEF TickLocals
  <2> QED BY <1>11, <2>1, <1>t, <1>y, RestTyped DEF TickEnd, TickVars
<1>12. ASSUME NEW r \in Replicas, TickStops(r) PROVE TypeOK'
  BY <1>12, <1>t, <1>y, <1>f, RestTyped DEF TickStops, TickVars
<1> QED BY <1>1, <1>2, <1>3, <1>4, <1>5, <1>6, <1>7, <1>8, <1>9, <1>10, <1>11, <1>12 DEF Next, TickStep

-----------------------------------------------------------------------------

\* What is committed, heard of or excused stays so.
LEMMA AccountsGrow ==
  ASSUME TypeOK, LogIsAPrefix, Next
  PROVE  /\ Committed \subseteq Committed' /\ \A v \in Committed : log'[v] = log[v]
         /\ heard \subseteq heard' /\ now <= now' /\ now' \in Int
         /\ Excused \subseteq Excused' /\ Accounted \subseteq Accounted'
         /\ \A m : Settled(m) => Settled(m)'
<1>t. now \in Int /\ log \in [Versions -> [by : By, at : Int]] /\ Horizon \in Int
  BY WholeNumbers DEF TypeOK, Time, NoTime
<1>1. log' = log \/ \E v \in Versions : log[v].by = "none" /\ log' = [log EXCEPT ![v] = [by |-> plan[v], at |-> now]]
  BY DEF Next, Tick, Commit, DoorAnnounces, DoorDies, Deliver, SentLost, Redelivered, Prune, FeedVars,
         TickStep, TickBegin, TickScan, TickMark, TickAnnounce, TickEnd, TickStops, TickVars
<1>2. Committed \subseteq Committed' /\ \A v \in Committed : log'[v] = log[v]
  BY <1>1, <1>t DEF Committed
<1>3. now' = now \/ now' = now + 1
  BY DEF Next, Tick, Commit, DoorAnnounces, DoorDies, Deliver, SentLost, Redelivered, Prune, FeedVars,
         TickStep, TickBegin, TickScan, TickMark, TickAnnounce, TickEnd, TickStops, TickVars
<1>4. heard \subseteq heard'
  BY DEF Next, Tick, Commit, DoorAnnounces, DoorDies, Deliver, SentLost, Redelivered, Prune, FeedVars,
         TickStep, TickBegin, TickScan, TickMark, TickAnnounce, TickEnd, TickStops, TickVars
<1>5. \A v \in Committed : log[v].at \in Int
  BY <1>t DEF Committed
<1>6. Excused \subseteq Excused'
  BY <1>2, <1>3, <1>5, <1>t DEF Excused
<1>7. Accounted \subseteq Accounted'
  BY <1>4, <1>6 DEF Accounted
<1>8. \A m : Settled(m) => Settled(m)'
  BY <1>7 DEF Settled
<1> QED BY <1>2, <1>3, <1>4, <1>6, <1>7, <1>8, <1>t

\* A commit extends the prefix, at a time no earlier than the others.
LEMMA LogStep == ASSUME TypeOK, LogIsAPrefix, Next PROVE LogIsAPrefix'
<1>t. now \in Int /\ log \in [Versions -> [by : By, at : Int]] /\ Versions \subseteq Int
  BY DEF TypeOK, Time, NoTime, Versions
<1>g. now <= now' /\ now' \in Int /\ now' \in Time
  BY AccountsGrow, FeedTypes DEF TypeOK
<1>1. ASSUME NEW v \in Versions, Commit(v) PROVE LogIsAPrefix'
  <2>1. plan[v] # "none"
    BY FeedAssumption DEF TypeOK
  <2>2. Committed' = Committed \cup {v} /\ v \notin Committed
    BY <1>1, <1>t, <2>1 DEF Commit, Committed
  <2>3. /\ log'[v].at = now /\ now' = now /\ now \in Time
        /\ \A w \in Versions \ {v} : log'[w] = log[w]
    BY <1>1, <1>t DEF Commit, TypeOK
  <2>4. \A w \in Versions : w < v => w \in Committed
    BY <1>1, <1>t DEF Commit, Committed, Versions
  <2>5. \A w \in Committed' : log'[w].at \in Time /\ log'[w].at <= now'
    BY <2>2, <2>3, <1>t DEF LogIsAPrefix, Committed
  <2>6. ASSUME NEW w \in Committed', NEW u \in Versions, u < w PROVE u \in Committed' /\ log'[u].at <= log'[w].at
    <3>1. CASE w = v
      BY <3>1, <2>2, <2>3, <2>4, <2>5, <2>6
    <3>2. CASE w # v
      <4>1. w \in Committed /\ u \in Committed /\ log[u].at <= log[w].at
        BY <3>2, <2>2, <2>6 DEF LogIsAPrefix
      <4> QED BY <4>1, <3>2, <2>2, <2>3 DEF Committed
    <3> QED BY <3>1, <3>2
  <2> QED BY <2>5, <2>6 DEF LogIsAPrefix
<1>2. ASSUME log' = log PROVE LogIsAPrefix'
  BY <1>2, <1>g, <1>t DEF LogIsAPrefix, Committed
<1>3. log' = log \/ \E v \in Versions : Commit(v)
  BY DEF Next, Tick, DoorAnnounces, DoorDies, Deliver, SentLost, Redelivered, Prune, FeedVars,
         TickStep, TickBegin, TickScan, TickMark, TickAnnounce, TickEnd, TickStops, TickVars
<1> QED BY <1>1, <1>2, <1>3

\* Announcements are of committed versions, and a tick reads rows of the past.
LEMMA AnnouncedStep ==
  ASSUME TypeOK, LogIsAPrefix, AnnouncedIsCommitted, Next PROVE AnnouncedIsCommitted'
<1>t. /\ now \in Int /\ tick \in [Replicas -> TickLocals] /\ feed \in [Versions -> Int]
      /\ \A r \in Replicas : tick[r].at \in Int
      /\ tick' \in [Replicas -> TickLocals]
  BY FeedTypes DEF TypeOK, TickLocals, Time, NoTime
<1>g. /\ Committed \subseteq Committed' /\ heard \subseteq heard' /\ now <= now' /\ now' \in Int
  BY AccountsGrow
<1> DEFINE Sent == door \cup sent \cup heard \subseteq Committed
           Fed  == OnFeed \subseteq heard
           Locals(r) == tick[r].missing \subseteq Committed /\ tick[r].announced \subseteq heard /\ tick[r].at <= now
<1>a. Sent /\ Fed /\ \A r \in Replicas : Locals(r)
  BY DEF AnnouncedIsCommitted
<1>q. ASSUME Sent', Fed', \A r \in Replicas : Locals(r)' PROVE AnnouncedIsCommitted'
  BY <1>q DEF AnnouncedIsCommitted
<1>r. ASSUME NEW r \in Replicas, tick'[r] = tick[r] PROVE Locals(r)'
  BY <1>r, <1>a, <1>g, <1>t
<1>z. 0 <= now
  BY DEF TypeOK, Time
<1>n. ASSUME NEW r \in Replicas, tick'[r] = NoTick PROVE Locals(r)'
  BY <1>n, <1>z, <1>g, <1>t DEF NoTick
<1>1. ASSUME NEW v \in Versions, Commit(v) PROVE AnnouncedIsCommitted'
  <2>1. v \in Committed'
    BY <1>1, FeedAssumption DEF Commit, Committed, TypeOK
  <2>2. door' \subseteq door \cup {v} /\ sent' = sent /\ heard' = heard /\ feed' = feed /\ tick' = tick
    BY <1>1 DEF Commit
  <2> QED BY <2>1, <2>2, <1>a, <1>g, <1>q, <1>r DEF OnFeed
<1>2. ASSUME NEW v \in Versions, DoorAnnounces(v) \/ DoorDies(v) \/ SentLost(v) \/ Redelivered(v)
      PROVE  AnnouncedIsCommitted'
  <2>1. /\ door' \subseteq door /\ sent' \subseteq sent \cup door \cup OnFeed
        /\ heard' = heard /\ feed' = feed /\ tick' = tick
    BY <1>2 DEF DoorAnnounces, DoorDies, SentLost, Redelivered, FeedVars
  <2> QED BY <2>1, <1>a, <1>g, <1>q, <1>r DEF OnFeed
<1>3. ASSUME NEW v \in Versions, Deliver(v) PROVE AnnouncedIsCommitted'
  <2>1. /\ door' = door /\ sent' \subseteq sent /\ heard' = heard \cup {v} /\ v \in sent /\ tick' = tick
    BY <1>3 DEF Deliver, FeedVars
  <2>2. OnFeed' \subseteq OnFeed \cup {v}
    BY <1>3, <1>t DEF Deliver, OnFeed
  <2> QED BY <2>1, <2>2, <1>a, <1>g, <1>q, <1>r
<1>4. CASE Prune
  <2>1. door' = door /\ sent' = sent /\ heard' = heard /\ tick' = tick
    BY <1>4 DEF Prune, FeedVars
  <2>2. OnFeed' \subseteq OnFeed
    BY <1>4, <1>t DEF Prune, OnFeed
  <2> QED BY <2>1, <2>2, <1>a, <1>g, <1>q, <1>r
<1>5. CASE Tick
  BY <1>5, <1>a, <1>g, <1>q, <1>r DEF Tick, OnFeed
<1>k. ASSUME NEW r \in Replicas, TickStep(r) \/ TickStops(r), Locals(r)', sent' \subseteq sent \cup tick[r].missing
      PROVE  AnnouncedIsCommitted'
  <2>1. UNCHANGED <<door, heard, feed, log>> /\ \A q \in Replicas \ {r} : tick'[q] = tick[q]
    BY <1>k, <1>t DEF TickStep, TickBegin, TickScan, TickMark, TickAnnounce, TickEnd, TickStops, TickVars
  <2> QED BY <1>k, <2>1, <1>a, <1>g, <1>q, <1>r DEF OnFeed
<1>6. ASSUME NEW r \in Replicas, TickBegin(r) PROVE AnnouncedIsCommitted'
  <2>1. /\ tick'[r].missing = {} /\ tick'[r].announced = OnFeed /\ tick'[r].at = now
        /\ sent' = sent /\ now' = now /\ heard' = heard
    BY <1>6, <1>t DEF TickBegin, NoTick, TickVars
  <2> QED BY <1>6, <2>1, <1>a, <1>g, <1>t, <1>k DEF TickStep
<1>7. ASSUME NEW r \in Replicas, TickScan(r) PROVE AnnouncedIsCommitted'
  <2>1. /\ tick'[r].missing = Missing(tick[r]) /\ tick'[r].announced = {} /\ tick'[r].at = 0
        /\ sent' = sent /\ now' = now
    BY <1>7, <1>t DEF TickScan, TickVars, TickLocals
  <2>2. Missing(tick[r]) \subseteq Committed
    BY DEF Missing, Looked
  <2> QED BY <1>7, <2>1, <2>2, <1>z, <1>g, <1>k DEF TickStep
<1>8. ASSUME NEW r \in Replicas, TickMark(r) \/ TickAnnounce(r) PROVE AnnouncedIsCommitted'
  <2>1. /\ tick'[r].missing \subseteq tick[r].missing /\ tick'[r].announced = tick[r].announced
        /\ tick'[r].at = tick[r].at
    <3>1. CASE TickMark(r)
      BY <3>1, <1>t DEF TickMark, TickLocals
    <3>2. CASE TickAnnounce(r)
      <4>1. tick'[r] = [tick[r] EXCEPT !.missing = @ \ {Min(@)}]
        BY <3>2, <1>t DEF TickAnnounce
      <4> QED BY <4>1, <1>t DEF TickLocals
    <3> QED BY <1>8, <3>1, <3>2
  <2>2. sent' \subseteq sent \cup tick[r].missing
    <3>1. tick[r].missing # {} => Min(tick[r].missing) \in tick[r].missing
      BY VersionBounds DEF TypeOK
    <3> QED BY <1>8, <3>1 DEF TickMark, TickAnnounce
  <2> QED BY <1>8, <2>1, <2>2, <1>a, <1>g, <1>t, <1>k DEF TickStep
<1>9. ASSUME NEW r \in Replicas, TickEnd(r) \/ TickStops(r) PROVE AnnouncedIsCommitted'
  <2>1. tick'[r] = NoTick /\ sent' = sent
    BY <1>9, <1>t DEF TickEnd, TickStops
  <2> QED BY <1>9, <2>1, <1>n, <1>k DEF TickStep
<1> QED BY <1>1, <1>2, <1>3, <1>4, <1>5, <1>6, <1>7, <1>8, <1>9 DEF Next, TickStep

\* What a pass looks at and does not find missing is accounted for: announced,
\* past the horizon, or of no door the catalog kept an author for.
LEMMA SkippedIsAccounted ==
  ASSUME TypeOK, LogIsAPrefix, AnnouncedIsCommitted, AuthorsAreKept, NEW r \in Replicas
  PROVE  Looked(tick[r]) \ Missing(tick[r]) \subseteq Accounted
<1> SUFFICES ASSUME NEW v \in Looked(tick[r]), v \notin Missing(tick[r]) PROVE v \in Accounted
  OBVIOUS
<1>1. v \in Committed /\ v \in Versions
  BY DEF Looked, Committed
<1>2. log[v].at \in Int /\ now \in Int /\ tick[r].at \in Int /\ tick[r].at <= now /\ Horizon \in Int
  BY <1>1, WholeNumbers DEF LogIsAPrefix, AnnouncedIsCommitted, TypeOK, Time
<1>3. CASE log[v].by # "door"
  BY <1>1, <1>3 DEF Accounted, Excused
<1>4. CASE log[v].by = "door" /\ Confirmed(tick[r], v)
  <2>1. CASE v \in tick[r].announced
    BY <2>1 DEF AnnouncedIsCommitted, Accounted
  <2>2. CASE log[v].at < tick[r].at - Horizon
    <3>1. log[v].at < now - Horizon
      BY <2>2, <1>2
    <3> QED BY <3>1, <1>1 DEF Accounted, Excused
  <2> QED BY <2>1, <2>2, <1>4 DEF Confirmed
<1>5. CASE log[v].by = "door" /\ ~ Confirmed(tick[r], v)
  <2>1. v \notin authors
    BY <1>5 DEF Missing, Signed
  <2> QED BY <2>1, <1>1, <1>5 DEF AuthorsAreKept
<1> QED BY <1>3, <1>4, <1>5

\* What a pass confirms, forgets and counts is accounted for.
LEMMA ScanIsAccounted ==
  ASSUME TypeOK, LogIsAPrefix, AnnouncedIsCommitted, AuthorsAreKept, MarksAreSettled, NEW r \in Replicas
  PROVE  /\ Unauthored(tick[r]) \subseteq Accounted
         /\ Forgettable(tick[r]) \subseteq Accounted
         /\ Settled(ConfirmedUpTo(tick[r]))
<1> DEFINE t == tick[r]
<1>1. Looked(t) \ Missing(t) \subseteq Accounted
  BY SkippedIsAccounted
<1>2. Unauthored(t) \subseteq Looked(t) \ Missing(t)
  BY DEF Unauthored, Missing
<1>3. Forgettable(t) \subseteq Looked(t) \ Missing(t)
  BY <1>2 DEF Forgettable, Missing
<1>4. Settled(ConfirmedUpTo(t))
  <2> DEFINE m == ConfirmedUpTo(t)
  <2> SUFFICES ASSUME NEW v \in Versions, v <= m PROVE v \in Accounted
    BY DEF Settled
  <2>1. Settled(t.mark)
    BY DEF MarksAreSettled
  <2>2. \/ m = t.mark
        \/ m \in Looked(t) /\ \A w \in Missing(t) : m < w
    BY ScanTyped
  <2>3. CASE v <= t.mark
    BY <2>1, <2>3 DEF Settled
  <2>4. CASE ~ (v <= t.mark)
    <3>i. v \in Int /\ t.mark \in Int /\ m \in Int /\ t.at \in Int /\ Grace \in Int
      <4>1. m \in {0} \cup Versions /\ t.mark \in {0} \cup Versions /\ t.at \in Time
        BY ScanTyped DEF TypeOK
      <4> HIDE DEF m, t
      <4> QED BY <4>1, WholeNumbers DEF Versions, Time
    <3>1. m \in Looked(t) /\ \A w \in Missing(t) : m < w
      BY <2>2, <2>4
    <3>2. m \in Committed /\ log[m].at < t.at - Grace
      BY <3>1 DEF Looked
    <3>3. v \in Committed /\ log[v].at <= log[m].at /\ log[v].at \in Int /\ log[m].at \in Int
      BY <3>2, <3>i DEF LogIsAPrefix, Time
    <3>4. v \in Looked(t)
      BY <3>2, <3>3, <3>i, <2>4 DEF Looked
    <3>5. v \notin Missing(t)
      BY <3>1, <3>i
    <3> QED BY <3>4, <3>5, <1>1
  <2> QED BY <2>3, <2>4
<1> QED BY <1>1, <1>2, <1>3, <1>4

\* The actions keep authors, marks and counts.
LEMMA KeptStep ==
  ASSUME FeedInv, Next PROVE AuthorsAreKept' /\ MarksAreSettled' /\ CountsAreAccounted'
<1> USE DEF FeedInv
<1>t. /\ log \in [Versions -> [by : By, at : Int]] /\ tick \in [Replicas -> TickLocals]
  BY DEF TypeOK, TickLocals, Time, NoTime
<1>g. /\ Committed \subseteq Committed' /\ \A v \in Committed : log'[v] = log[v]
      /\ Accounted \subseteq Accounted' /\ \A m : Settled(m) => Settled(m)'
  BY AccountsGrow
<1>0. Settled(0)'
  BY DEF Settled, Versions
<1>a. ASSUME Committed' = Committed, authors \subseteq authors' \cup Accounted' PROVE AuthorsAreKept'
  BY <1>a, <1>g DEF AuthorsAreKept
<1>k. ASSUME tick' = tick, mark' = mark, counted' = counted PROVE MarksAreSettled' /\ CountsAreAccounted'
  <2>1. MarksAreSettled'
    BY <1>k, <1>g DEF MarksAreSettled, Settled
  <2>2. CountsAreAccounted'
    BY <1>k, <1>g DEF CountsAreAccounted
  <2> QED BY <2>1, <2>2
<1>1. ASSUME NEW v \in Versions, Commit(v) PROVE AuthorsAreKept' /\ MarksAreSettled' /\ CountsAreAccounted'
  <2>1. MarksAreSettled' /\ CountsAreAccounted'
    BY <1>1, <1>k DEF Commit
  <2>2. /\ \A w \in Committed' : w \in Committed \cup {v}
        /\ log'[v].by = plan[v] /\ authors \subseteq authors'
        /\ plan[v] = "door" => v \in authors'
    BY <1>1, <1>t DEF Commit, Committed
  <2>3. AuthorsAreKept'
    BY <2>2, <1>g DEF AuthorsAreKept
  <2> QED BY <2>1, <2>3
<1>2. ASSUME \/ Tick \/ Prune
             \/ \E v \in Versions : DoorAnnounces(v) \/ DoorDies(v) \/ Deliver(v) \/ SentLost(v) \/ Redelivered(v)
      PROVE  AuthorsAreKept' /\ MarksAreSettled' /\ CountsAreAccounted'
  <2>1. UNCHANGED <<log, authors, tick, mark, counted>>
    BY <1>2 DEF Tick, Prune, DoorAnnounces, DoorDies, Deliver, SentLost, Redelivered, FeedVars
  <2>2. Committed' = Committed
    BY <2>1 DEF Committed
  <2> QED BY <2>1, <2>2, <1>a, <1>k
<1>c. ASSUME log' = log PROVE Committed' = Committed
  BY <1>c DEF Committed
<1>u. ASSUME NEW r \in Replicas, \A q \in Replicas \ {r} : tick'[q] = tick[q],
             (Settled(mark) /\ Settled(tick[r].mark) /\ Settled(tick[r].confirmed))',
             counted' \subseteq Accounted', tick'[r].unauthored \subseteq Accounted'
      PROVE  MarksAreSettled' /\ CountsAreAccounted'
  <2>1. MarksAreSettled'
    BY <1>u, <1>g DEF MarksAreSettled, Settled
  <2>2. CountsAreAccounted'
    BY <1>u, <1>g DEF CountsAreAccounted
  <2> QED BY <2>1, <2>2
<1>3. ASSUME NEW r \in Replicas, TickBegin(r) PROVE AuthorsAreKept' /\ MarksAreSettled' /\ CountsAreAccounted'
  <2>1. /\ tick'[r].mark = mark /\ tick'[r].confirmed = 0 /\ tick'[r].unauthored = {}
        /\ \A q \in Replicas \ {r} : tick'[q] = tick[q]
    BY <1>3, <1>t DEF TickBegin, NoTick
  <2>2. UNCHANGED <<log, authors, mark, counted>>
    BY <1>3 DEF TickBegin, TickVars
  <2>3. (Settled(mark) /\ Settled(tick[r].mark) /\ Settled(tick[r].confirmed))' /\ counted' \subseteq Accounted'
    BY <2>1, <2>2, <1>g, <1>0 DEF MarksAreSettled, CountsAreAccounted, Settled
  <2> QED BY <2>1, <2>2, <2>3, <1>a, <1>c, <1>u
<1>4. ASSUME NEW r \in Replicas, TickScan(r) PROVE AuthorsAreKept' /\ MarksAreSettled' /\ CountsAreAccounted'
  <2>1. PICK stuck \in SUBSET (Forgettable(tick[r]) \cap authors) :
          /\ authors' = authors \ (Forgettable(tick[r]) \ stuck)
          /\ tick' = [tick EXCEPT ![r] =
               [tick[r] EXCEPT !.pc = "mark", !.at = 0, !.announced = {}, !.missing = Missing(tick[r]),
                               !.unauthored = Unauthored(tick[r]),
                               !.confirmed = Min({ConfirmedUpTo(tick[r])} \cup HeldBelow(stuck))]]
    BY <1>4 DEF TickScan
  <2> DEFINE low == Min({ConfirmedUpTo(tick[r])} \cup HeldBelow(stuck))
  <2>2. /\ tick'[r].mark = tick[r].mark /\ tick'[r].unauthored = Unauthored(tick[r]) /\ tick'[r].confirmed = low
        /\ \A q \in Replicas \ {r} : tick'[q] = tick[q]
    BY <2>1, <1>t DEF TickLocals
  <2>3. UNCHANGED <<log, mark, counted>>
    BY <1>4 DEF TickScan, TickVars
  <2>4. /\ Unauthored(tick[r]) \subseteq Accounted /\ Forgettable(tick[r]) \subseteq Accounted
        /\ Settled(ConfirmedUpTo(tick[r]))
    BY ScanIsAccounted
  <2>5. Settled(low)
    <3>1. low \in Int /\ ConfirmedUpTo(tick[r]) \in Int /\ low <= ConfirmedUpTo(tick[r]) /\ Versions \subseteq Int
      BY ScanTyped DEF Versions
    <3> HIDE DEF low
    <3> QED BY <3>1, <2>4 DEF Settled
  <2>6. (Settled(mark) /\ Settled(tick[r].mark) /\ Settled(tick[r].confirmed))'
    <3> HIDE DEF low
    <3> QED BY <2>2, <2>3, <2>5, <1>g DEF MarksAreSettled, Settled
  <2>7. counted' \subseteq Accounted' /\ tick'[r].unauthored \subseteq Accounted'
    BY <2>2, <2>3, <2>4, <1>g DEF CountsAreAccounted
  <2>8. authors \subseteq authors' \cup Accounted'
    BY <2>1, <2>4, <1>g
  <2> QED BY <2>2, <2>3, <2>6, <2>7, <2>8, <1>a, <1>c, <1>u
<1>5. ASSUME NEW r \in Replicas, TickMark(r) PROVE AuthorsAreKept' /\ MarksAreSettled' /\ CountsAreAccounted'
  <2>1. /\ tick'[r].mark = 0 /\ tick'[r].confirmed = 0 /\ tick'[r].unauthored = tick[r].unauthored
        /\ \A q \in Replicas \ {r} : tick'[q] = tick[q]
    BY <1>5, <1>t DEF TickMark, TickLocals
  <2>2. UNCHANGED <<log, authors, counted>> /\ mark' \in {mark, tick[r].confirmed}
    BY <1>5 DEF TickMark, TickVars
  <2>3. (Settled(mark) /\ Settled(tick[r].mark) /\ Settled(tick[r].confirmed))'
    BY <2>1, <2>2, <1>g, <1>0 DEF MarksAreSettled, Settled
  <2>4. counted' \subseteq Accounted' /\ tick'[r].unauthored \subseteq Accounted'
    BY <2>1, <2>2, <1>g DEF CountsAreAccounted
  <2> QED BY <2>1, <2>2, <2>3, <2>4, <1>a, <1>c, <1>u
<1>6. ASSUME NEW r \in Replicas, TickAnnounce(r) PROVE AuthorsAreKept' /\ MarksAreSettled' /\ CountsAreAccounted'
  <2>0. tick' = [tick EXCEPT ![r] = [tick[r] EXCEPT !.missing = @ \ {Min(@)}]]
    BY <1>6, <1>t DEF TickAnnounce
  <2>1. /\ tick'[r].mark = tick[r].mark /\ tick'[r].confirmed = tick[r].confirmed
        /\ tick'[r].unauthored = tick[r].unauthored /\ \A q \in Replicas \ {r} : tick'[q] = tick[q]
    BY <2>0, <1>t DEF TickLocals
  <2>2. UNCHANGED <<log, authors, counted, mark>>
    BY <1>6 DEF TickAnnounce, TickVars
  <2>3. (Settled(mark) /\ Settled(tick[r].mark) /\ Settled(tick[r].confirmed))'
    BY <2>1, <2>2, <1>g DEF MarksAreSettled, Settled
  <2>4. counted' \subseteq Accounted' /\ tick'[r].unauthored \subseteq Accounted'
    BY <2>1, <2>2, <1>g DEF CountsAreAccounted
  <2> QED BY <2>1, <2>2, <2>3, <2>4, <1>a, <1>c, <1>u
<1>7. ASSUME NEW r \in Replicas, TickEnd(r) \/ TickStops(r)
      PROVE  AuthorsAreKept' /\ MarksAreSettled' /\ CountsAreAccounted'
  <2>1. /\ tick'[r].mark = 0 /\ tick'[r].confirmed = 0 /\ tick'[r].unauthored = {}
        /\ \A q \in Replicas \ {r} : tick'[q] = tick[q]
    BY <1>7, <1>t DEF TickEnd, TickStops, NoTick
  <2>2. UNCHANGED <<log, authors, mark>> /\ counted' \subseteq counted \cup tick[r].unauthored
    BY <1>7 DEF TickEnd, TickStops, TickVars
  <2>3. (Settled(mark) /\ Settled(tick[r].mark) /\ Settled(tick[r].confirmed))'
    BY <2>1, <2>2, <1>g, <1>0 DEF MarksAreSettled, Settled
  <2>4. counted' \subseteq Accounted' /\ tick'[r].unauthored \subseteq Accounted'
    BY <2>1, <2>2, <1>g DEF CountsAreAccounted
  <2> QED BY <2>1, <2>2, <2>3, <2>4, <1>a, <1>c, <1>u
<1> QED BY <1>1, <1>2, <1>3, <1>4, <1>5, <1>6, <1>7 DEF Next, TickStep

\* The program starts in the inductive invariant.
LEMMA FeedInit == ASSUME Init PROVE FeedInv
<1> DEFINE Registered == {v \in Versions : plan[v] = "registered"}
<1>1. {0} \cup Registered \in SUBSET ({0} \cup Versions)
  OBVIOUS
<1>2. mark \in {0} \cup Registered
  <2> HIDE DEF Registered
  <2>1. Max({0} \cup Registered) \in {0} \cup Registered
    BY <1>1, VersionBounds
  <2> QED BY <2>1 DEF Init, Registered
<1>3. Committed = Registered
  BY DEF Init, Committed
<1>4. /\ \A v \in Versions : /\ v \in Registered => log[v] = [by |-> "registered", at |-> 0]
                             /\ v \notin Registered => log[v] = [by |-> "none", at |-> NoTime]
  BY DEF Init
<1>5. \A w \in Registered : \A v \in Versions : v < w => v \in Registered
  BY FeedAssumption DEF Init, Versions
<1>6. TypeOK
  <2>1. 0 \in Time
    BY WholeNumbers DEF Time
  <2>2. log \in [Versions -> [by : By, at : Time \cup {NoTime}]]
    BY <2>1 DEF Init, By
  <2>3. tick \in [Replicas -> TickLocals]
    BY RestTyped DEF Init
  <2>4. mark \in {0} \cup Versions /\ now \in Time /\ faults \in 0..MaxFaults /\ plan \in Histories
    BY <1>2, <2>1, WholeNumbers DEF Init
  <2>5. feed \in [Versions -> Time \cup {NoTime}] /\ \A S \in {authors, door, sent, heard, counted} : S \subseteq Versions
    BY DEF Init
  <2> QED BY <2>2, <2>3, <2>4, <2>5 DEF TypeOK, TickLocals
<1>7. LogIsAPrefix
  <2>1. now = 0 /\ 0 \in Time
    BY WholeNumbers DEF Init, Time
  <2>2. \A v \in Committed : log[v].at = 0
    BY <1>3, <1>4
  <2>3. \A w \in Committed : \A v \in Versions : v < w => v \in Committed
    BY <1>3, <1>5
  <2> QED BY <2>1, <2>2, <2>3 DEF LogIsAPrefix
<1>8. AnnouncedIsCommitted
  BY DEF Init, AnnouncedIsCommitted, OnFeed, NoTick
<1>9. Registered \subseteq Excused
  BY <1>3, <1>4 DEF Excused
<1>10. AuthorsAreKept
  BY <1>3, <1>9 DEF AuthorsAreKept, Accounted
<1>11. MarksAreSettled
  <2>1. Settled(0)
    BY DEF Settled, Versions
  <2>2. Settled(mark)
    <3>1. CASE mark \in Registered
      <4> SUFFICES ASSUME NEW v \in Versions, v <= mark PROVE v \in Accounted
        BY DEF Settled
      <4>1. v \in Registered
        BY <3>1, <1>5 DEF Versions
      <4> QED BY <4>1, <1>9 DEF Accounted
    <3> QED BY <3>1, <2>1, <1>2
  <2> QED BY <2>1, <2>2 DEF MarksAreSettled, Init, NoTick
<1>12. CountsAreAccounted
  BY DEF Init, CountsAreAccounted, NoTick
<1> QED BY <1>6, <1>7, <1>8, <1>10, <1>11, <1>12 DEF FeedInv

\* The invariant holds of the program.
LEMMA FeedInvariant == Spec => []FeedInv
<1>1. Init => FeedInv
  BY FeedInit
<1>2. FeedInv /\ [Next]_vars => FeedInv'
  <2>1. ASSUME FeedInv, Next PROVE FeedInv'
    BY <2>1, FeedTypes, LogStep, AnnouncedStep, KeptStep DEF FeedInv
  <2>2. ASSUME FeedInv, UNCHANGED vars PROVE FeedInv'
    BY <2>2 DEF FeedInv, vars, TypeOK, LogIsAPrefix, AnnouncedIsCommitted, AuthorsAreKept, MarksAreSettled,
                CountsAreAccounted, Settled, Accounted, Excused, Committed, OnFeed
  <2> QED BY <2>1, <2>2
<1> QED BY <1>1, <1>2, PTL DEF Spec

-----------------------------------------------------------------------------

\* A door's commit no reader of the feed was told of is never counted as made
\* past every door, whatever another replica's tick forgets meanwhile
\* (commit_reconcile.scan_ref, _forgotten_up_to).
THEOREM CountsAreTrue == Spec => []CountedIsNotLost
<1>1. FeedInv => CountedIsNotLost
  BY DEF FeedInv, CountsAreAccounted, Accounted, Excused, CountedIsNotLost
<1> QED BY <1>1, FeedInvariant, PTL

\* A step of the program is a step of what is promised, or none.
LEMMA PromisedStep == ASSUME FeedInv, FeedInv', Next PROVE [Promise!Next]_(Promise!vars)
<1>g. /\ Committed \subseteq Committed' /\ Excused \subseteq Excused' /\ Excused' \subseteq Versions
  BY AccountsGrow DEF FeedInv, Excused, Committed
<1>t. /\ log \in [Versions -> [by : By, at : Int]] /\ now \in Int /\ Horizon \in Nat
  BY WholeNumbers DEF FeedInv, TypeOK, Time, NoTime
<1>1. CASE Tick
  <2>1. Committed' = Committed /\ heard' = heard /\ mark' = mark
    BY <1>1 DEF Tick, Committed
  <2> QED BY <2>1, <1>g DEF Promise!Next, Promise!Excuse, Promise!vars
<1>2. ASSUME NEW v \in Versions, Commit(v) PROVE [Promise!Next]_(Promise!vars)
  <2>1. plan[v] # "none"
    BY FeedAssumption DEF FeedInv, TypeOK
  <2>2. Committed' = Committed \cup {v} /\ v \notin Committed
    BY <1>2, <1>t, <2>1 DEF Commit, Committed
  <2>3. heard' = heard /\ mark' = mark /\ now' = now /\ \A w \in Committed : log'[w] = log[w]
    BY <1>2, <1>t DEF Commit, Committed
  <2>4. Excused' \in {Excused, Excused \cup {v}}
    <3>1. \A w \in Committed : w \in Excused' <=> w \in Excused
      BY <2>2, <2>3 DEF Excused
    <3>2. Excused' \subseteq Committed \cup {v} /\ Excused \subseteq Committed
      BY <2>2 DEF Excused
    <3> QED BY <3>1, <3>2, <2>2
  <2>5. Promise!Commit(v)
    BY <2>2, <2>3, <2>4 DEF Promise!Commit
  <2> QED BY <2>5 DEF Promise!Next
<1>s. ASSUME UNCHANGED <<log, now>> PROVE Committed' = Committed /\ Excused' = Excused
  BY <1>s DEF Committed, Excused
<1>3. ASSUME NEW v \in Versions, Deliver(v) PROVE [Promise!Next]_(Promise!vars)
  <2>1. heard' = heard \cup {v} /\ mark' = mark /\ Committed' = Committed /\ Excused' = Excused /\ v \in Committed
    BY <1>3, <1>s DEF Deliver, FeedVars, FeedInv, AnnouncedIsCommitted
  <2>2. CASE v \in heard
    BY <2>1, <2>2 DEF Promise!vars
  <2>3. CASE v \notin heard
    BY <2>1, <2>3 DEF Promise!Hear, Promise!Next
  <2> QED BY <2>2, <2>3
<1>4. ASSUME NEW r \in Replicas, TickMark(r) PROVE [Promise!Next]_(Promise!vars)
  <2>1. heard' = heard /\ Committed' = Committed /\ Excused' = Excused
    BY <1>4, <1>s DEF TickMark, TickVars
  <2>2. mark' \in {0} \cup Versions /\ Settled(mark)'
    BY DEF FeedInv, TypeOK, MarksAreSettled
  <2>3. \A v \in Versions : v <= mark' => v \in heard \cup Excused
    BY <2>1, <2>2 DEF Settled, Accounted
  <2>4. Promise!Settle(mark')
    BY <2>1, <2>3 DEF Promise!Settle
  <2> QED BY <2>2, <2>4 DEF Promise!Next
<1>5. ASSUME \/ Prune
             \/ \E v \in Versions : DoorAnnounces(v) \/ DoorDies(v) \/ SentLost(v) \/ Redelivered(v)
             \/ \E r \in Replicas : \/ TickBegin(r) \/ TickScan(r) \/ TickAnnounce(r)
                                    \/ TickEnd(r) \/ TickStops(r)
      PROVE  [Promise!Next]_(Promise!vars)
  <2>1. UNCHANGED <<log, now, heard, mark>>
    BY <1>5 DEF Prune, DoorAnnounces, DoorDies, SentLost, Redelivered, FeedVars, TickBegin, TickScan,
                TickAnnounce, TickEnd, TickStops, TickVars
  <2> QED BY <2>1, <1>s DEF Promise!vars
<1> QED BY <1>1, <1>2, <1>3, <1>4, <1>5 DEF Next, TickStep

\* The commit feed implements what is promised of it: versions are heard of only
\* once committed, and the reconcilers' mark only ever passes versions heard of or
\* excused, whatever two ticks racing read and the store refuses.
THEOREM FeedKeepsThePromise == Spec => ImplementsAnnouncements
<1>1. Init => Promise!Init
  <2>1. ASSUME Init PROVE Promise!Init
    <3>1. FeedInv
      BY <2>1, FeedInit
    <3>2. Committed \subseteq Versions /\ Excused \subseteq Versions /\ heard = {} /\ mark \in {0} \cup Versions
      BY <2>1, <3>1 DEF Committed, Excused, Init, FeedInv, TypeOK
    <3>3. \A v \in Versions : v <= mark => v \in Excused
      BY <3>1, <3>2 DEF FeedInv, MarksAreSettled, Settled, Accounted
    <3> QED BY <3>2, <3>3 DEF Promise!Init
  <2> QED BY <2>1
<1>2. FeedInv /\ FeedInv' /\ [Next]_vars => [Promise!Next]_(Promise!vars)
  <2>1. ASSUME UNCHANGED vars PROVE UNCHANGED Promise!vars
    BY <2>1 DEF vars, Promise!vars, Committed, Excused
  <2> QED BY <2>1, PromisedStep
<1> QED BY <1>1, <1>2, FeedInvariant, PTL DEF Spec, ImplementsAnnouncements, Promise!Spec

=============================================================================

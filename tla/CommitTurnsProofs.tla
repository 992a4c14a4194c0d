------------------------- MODULE CommitTurnsProofs -------------------------
(***************************************************************************)
(* For any commits, processes, refs and bounds: a ref has at most one live *)
(* turn and it is of a commit under way or left to lapse; a turn holds     *)
(* every waiter back that has not read a view from before it; and a        *)
(* process's seats are the threads that sleep in them.                     *)
(***************************************************************************)
EXTENDS CommitTurns, FiniteSetTheorems, TLAPS

\* The threads of a process asleep in a seat.
Seated(p) == {c \in Takers : ServedBy[c] = p /\ commit[c].seated = "yes"}

\* What the locals of a commit keep to, whatever the record holds. A door
\* takes a turn only with an attempt left to plan under it; and a take writes
\* only over a read that had the ref free.
Fit(c, l) ==
    /\ l \in CommitLocals
    /\ l.pc = "idle" => l.has = "no"
    /\ c \in DoorCommits /\ l.pc \in Taking => l.attempt < PLANS
    /\ l.seated = "yes" => c \in DoorCommits /\ l.pc \in Waiting
    /\ l.pc = "takeWrites" => OnRef(Live(l.seen.turns), c) = {}

CommitsFit == \A c \in Takers : Fit(c, commit[c])

\* A seat is counted for as long as its thread sleeps in it.
SeatsAreCounted ==
    \A p \in Processes : IsFiniteSet(Seated(p)) /\ Cardinality(Seated(p)) = seats[p]

\* A stock writer told its turn is not kept finalizes with none.
NotKeptIsGone ==
    \A w \in Writers :
        CommitAt(w, "finalizing") /\ commit[w].has = "no" =>
            \A t \in Live(record.turns) : t.token # TokenOf(w)

\* A shared view lacks only the turns taken since the last tick.
ViewsLackTheRecent ==
    \A p \in Processes : view[p].kept = "kept" =>
        \A t \in Live(record.turns) : t.token \in recent \/ t \in view[p].turns

TurnInv ==
    /\ TurnTypeOK
    /\ CommitsFit
    /\ SeatsAreCounted
    /\ OneLiveTurnPerRef
    /\ EndedCommitsHoldNoTurn
    /\ NotKeptIsGone
    /\ ViewsLackTheRecent

-----------------------------------------------------------------------------
(* Where a commit goes next fits.                                          *)

\* What the locals of a commit that is over, or at rest, keep to.
LEMMA FreshFits == Fresh \in CommitLocals /\ \A c : Fit(c, Fresh)
<1>1. AnyNonce \in Nonces
  BY TurnAssumption DEF AnyNonce
<1>2. Absent \in Record /\ Absent.turns = {}
  BY DEF Absent, Record
<1>3. Fresh \in CommitLocals
  BY <1>1, <1>2, TurnAssumption DEF Fresh, CommitLocals, CommitPhase, TurnTime
<1>4. QED
  BY <1>3 DEF Fit, Fresh, Taking, Waiting

\* A commit at rest fits, whichever transaction it remembers.
LEMMA RestFits ==
    ASSUME NEW c, NEW k \in Nonces, NEW x \in {"new", "again"}
    PROVE  Fit(c, Rest(k, x)) /\ Rest(k, x).seated = "no"
<1>1. Rest(k, x) \in CommitLocals /\ Rest(k, x).pc = "idle" /\ Rest(k, x).has = "no"
      /\ Rest(k, x).seated = "no"
  BY FreshFits DEF Rest, Fresh, CommitLocals
<1>2. QED
  BY <1>1 DEF Fit, Taking, Waiting

\* A commit that ends fits: it releases what it holds, or rests.
LEMMA EndsFit ==
    ASSUME NEW c, NEW l \in CommitLocals, NEW x \in {"new", "again"}
    PROVE  Fit(c, CommitEnds(l, x)) /\ CommitEnds(l, x).seated = "no"
<1>1. CASE l.has = "yes"
  <2>1. 1 \in 0 .. ROUNDS
    BY TurnAssumption
  <2>2. CommitEnds(l, x) = [Fresh EXCEPT !.pc = "releaseReads", !.nonce = l.nonce, !.has = "yes",
                                   !.txn = x, !.rounds = 1]
    BY <1>1 DEF CommitEnds
  <2>3. CommitEnds(l, x) \in CommitLocals
    BY <2>1, <2>2, FreshFits DEF CommitLocals, CommitPhase, Releasing
  <2>4. CommitEnds(l, x).pc = "releaseReads" /\ CommitEnds(l, x).seated = "no"
    BY <2>2 DEF Fresh
  <2>5. QED
    BY <2>3, <2>4 DEF Fit, Taking, Waiting
<1>2. CASE l.has # "yes"
  BY <1>2, RestFits DEF CommitEnds, CommitLocals
<1>3. QED
  BY <1>1, <1>2

\* A door with an attempt left plans it.
LEMMA ReplansFit ==
    ASSUME NEW c, NEW l \in CommitLocals, l.attempt < PLANS
    PROVE  Fit(c, Replans(l)) /\ Replans(l).seated = "no"
<1>1. l.attempt + 1 \in 1 .. PLANS
  BY TurnAssumption DEF CommitLocals
<1>2. Replans(l) \in CommitLocals /\ Replans(l).pc = "staged" /\ Replans(l).seated = "no"
  BY <1>1, FreshFits DEF Replans, Fresh, CommitLocals, CommitPhase
<1>3. QED
  BY <1>2 DEF Fit, Taking, Waiting

\* So does a commit a take ends for, with the turn or without it.
LEMMA TakeEndsFit ==
    ASSUME NEW c \in Takers, Fit(c, commit[c]), commit[c].pc \in Taking
    PROVE  /\ Fit(c, Busy(c)) /\ Busy(c).seated = "no"
           /\ Fit(c, TurnTaken(c)) /\ TurnTaken(c).seated = "no"
<1>1. CASE c \in DoorCommits
  <2>1. [commit[c] EXCEPT !.has = "yes"] \in CommitLocals
        /\ [commit[c] EXCEPT !.has = "yes"].attempt = commit[c].attempt
    BY DEF Fit, CommitLocals
  <2>2. commit[c] \in CommitLocals /\ commit[c].attempt < PLANS
    BY <1>1 DEF Fit
  <2>3. QED
    BY <1>1, <2>1, <2>2, ReplansFit DEF Busy, TurnTaken
<1>2. CASE c \notin DoorCommits
  <2>1. commit[c] \in CommitLocals /\ commit[c].nonce \in Nonces
    BY DEF Fit, CommitLocals
  <2>2. QED
    BY <1>2, <2>1, EndsFit, RestFits DEF Busy, TurnTaken
<1>3. QED
  BY <1>1, <1>2

\* And one that tries another round of its take.
LEMMA NextRoundFits ==
    ASSUME NEW c \in Takers, Fit(c, commit[c]), commit[c].pc \in Taking \ Waiting
    PROVE  Fit(c, NextRound(c)) /\ NextRound(c).seated = "no"
<1>1. CASE commit[c].rounds = ROUNDS
  BY <1>1, TakeEndsFit DEF NextRound
<1>2. CASE commit[c].rounds # ROUNDS
  <2>1. commit[c] \in CommitLocals /\ commit[c].seated = "no"
    BY DEF Fit, CommitLocals
  <2>2. commit[c].rounds + 1 \in 0 .. ROUNDS
    BY <1>2, <2>1, TurnAssumption DEF CommitLocals
  <2>3. Absent \in Record
    BY DEF Absent, Record
  <2> DEFINE next == IF commit[c].left = 0 THEN "takeReads" ELSE "takeWaits"
             n    == commit[c].rounds + 1
  <2>4. NextRound(c) = [commit[c] EXCEPT !.pc = next, !.rounds = n, !.hold = 0, !.seen = Absent]
    BY <1>2 DEF NextRound
  <2>5. next \in {"takeReads", "takeWaits"} /\ n \in 0 .. ROUNDS /\ 0 \in TurnTime
    BY <2>2, TurnAssumption DEF TurnTime
  <2> HIDE DEF next, n
  <2>6. next \in CommitPhase
    BY <2>5 DEF CommitPhase, Taking
  <2>7. NextRound(c) \in CommitLocals
    BY <2>1, <2>3, <2>4, <2>5, <2>6 DEF CommitLocals
  <2>8. /\ NextRound(c).seated = "no" /\ NextRound(c).pc = next
        /\ NextRound(c).attempt = commit[c].attempt
    BY <2>1, <2>4 DEF CommitLocals
  <2>9. QED
    BY <2>5, <2>7, <2>8 DEF Fit
<1>3. QED
  BY <1>1, <1>2

\* Time passing keeps a turn a turn, and makes none live.
LEMMA Aging ==
    ASSUME NEW turns \in SUBSET Turn
    PROVE  /\ Aged(turns) \in SUBSET Turn
           /\ \A s \in Live(Aged(turns)) :
                 \E t \in Live(turns) : s = [t EXCEPT !.left = t.left - 1]
<1>1. \A n \in TurnTime : Elapse(n) \in TurnTime
  BY TurnAssumption DEF Elapse, TurnTime
<1>2. \A t \in Turn : [t EXCEPT !.left = Elapse(t.left)] \in Turn
  BY <1>1 DEF Turn
<1>3. \A t \in Turn : [t EXCEPT !.left = Elapse(t.left)].left = Elapse(t.left)
  BY DEF Turn
<1>4. \A n \in TurnTime : Elapse(n) > 0 => n > 0 /\ Elapse(n) = n - 1
  BY TurnAssumption DEF Elapse, TurnTime
<1>5. \A t \in Turn : t.left \in TurnTime
  BY DEF Turn
<1>6. Aged(turns) = {[t EXCEPT !.left = Elapse(t.left)] : t \in turns}
  BY DEF Aged
<1>7. ASSUME NEW s \in Live(Aged(turns))
      PROVE  \E t \in Live(turns) : s = [t EXCEPT !.left = t.left - 1]
  <2>1. s \in Aged(turns) /\ s.left > 0
    BY <1>7 DEF Live
  <2>2. PICK t \in turns : s = [t EXCEPT !.left = Elapse(t.left)]
    BY <1>6, <2>1
  <2>3. t \in Turn /\ t.left \in TurnTime /\ s.left = Elapse(t.left)
    BY <1>3, <1>5, <2>2
  <2>4. t.left > 0 /\ Elapse(t.left) = t.left - 1
    BY <1>4, <2>1, <2>3
  <2>5. QED
    BY <2>2, <2>4 DEF Live
<1>8. QED
  BY <1>2, <1>6, <1>7

\* Only the commit that goes changes.
LEMMA OneGoes ==
    ASSUME TurnTypeOK, CommitsFit, NEW c \in Takers, NEW l, Fit(c, l), CommitGoes(c, l)
    PROVE  /\ commit' \in [Takers -> CommitLocals] /\ CommitsFit'
           /\ commit'[c] = l
           /\ \A d \in Takers \ {c} : commit'[d] = commit[d]
<1>1. l \in CommitLocals
  BY DEF Fit
<1>2. /\ commit' \in [Takers -> CommitLocals] /\ commit'[c] = l
      /\ \A d \in Takers \ {c} : commit'[d] = commit[d]
  BY <1>1 DEF CommitGoes, TurnTypeOK
<1>3. \A d \in Takers : Fit(d, commit'[d])
  BY <1>2 DEF CommitsFit
<1>4. QED
  BY <1>2, <1>3 DEF CommitsFit

\* Every step a commit takes by itself leaves it fit; a thread that is not
\* asleep has no seat.
LEMMA CommitStepsFit ==
    ASSUME TurnInv, NEW c \in Takers, Stages(c) \/ Step(c) \/ CommitFails(c)
    PROVE  \/ \E l : Fit(c, l) /\ CommitGoes(c, l)
                     /\ (l.seated = "no" \/ (Polls(c) /\ commit[c].seated = "no"))
           \/ UNCHANGED commit
           \/ FinalizeLands(c)
<1>1. Fit(c, commit[c]) /\ commit[c] \in CommitLocals /\ commit[c].nonce \in Nonces
      /\ commit[c].seated \in {"no", "yes"}
  BY DEF TurnInv, CommitsFit, Fit, CommitLocals
<1>2. commit[c].pc \notin Waiting => commit[c].seated = "no"
  BY <1>1 DEF Fit
<1>3. CASE Stages(c)
  <2>1. CASE CommitGoes(c, [commit[c] EXCEPT !.pc = "staged"])
    <3> DEFINE l == [commit[c] EXCEPT !.pc = "staged"]
    <3>1. l \in CommitLocals /\ l.pc = "staged" /\ l.seated = commit[c].seated
      BY <1>1 DEF CommitLocals, CommitPhase
    <3>2. l.seated = "no"
      BY <1>2, <1>3, <3>1 DEF Stages, CommitAt, Waiting
    <3>3. Fit(c, l)
      BY <3>1, <3>2 DEF Fit, Taking
    <3> QED BY <2>1, <3>2, <3>3
  <2>2. ASSUME NEW k \in Nonces, CommitGoes(c, [Fresh EXCEPT !.pc = "staged", !.nonce = k])
        PROVE  \E l : Fit(c, l) /\ CommitGoes(c, l) /\ l.seated = "no"
    <3> DEFINE l == [Fresh EXCEPT !.pc = "staged", !.nonce = k]
    <3>1. l \in CommitLocals /\ l.pc = "staged" /\ l.seated = "no"
      BY <2>2, FreshFits DEF Fresh, CommitLocals, CommitPhase
    <3>2. Fit(c, l)
      BY <3>1 DEF Fit, Taking
    <3> QED BY <2>2, <3>1, <3>2
  <2>3. CASE CommitGoes(c, [Fresh EXCEPT !.pc = "staged"])
    <3> DEFINE l == [Fresh EXCEPT !.pc = "staged"]
    <3>1. l \in CommitLocals /\ l.pc = "staged" /\ l.seated = "no"
      BY FreshFits DEF Fresh, CommitLocals, CommitPhase
    <3>2. Fit(c, l)
      BY <3>1 DEF Fit, Taking
    <3> QED BY <2>3, <3>1, <3>2
  <2>4. QED
    BY <1>3, <2>1, <2>2, <2>3 DEF Stages
<1>4. CASE AsksToFinalize(c)
  <2> DEFINE l == Deadline(commit[c], "waiting")
  <2>1. l \in CommitLocals /\ l.pc = "waiting" /\ l.seated = "no"
    <3>1. HOLD \in TurnTime
      BY TurnAssumption DEF TurnTime
    <3>2. QED
      BY <1>1, <3>1 DEF Deadline, CommitLocals, CommitPhase
  <2>2. Fit(c, l)
    BY <2>1 DEF Fit, Taking
  <2>3. QED
    BY <1>4, <2>1, <2>2 DEF AsksToFinalize
<1>5. CASE Polls(c)
  <2>1. ASSUME NEW next \in {"takeReads", "finalizing", "keeps"}, NEW n \in {0, commit[c].left},
               next = "takeReads" => CommitAt(c, "takeWaits"),
               CommitGoes(c, [commit[c] EXCEPT !.pc = next, !.seated = "no", !.left = n])
        PROVE  \E l : Fit(c, l) /\ CommitGoes(c, l) /\ l.seated = "no"
    <3> DEFINE l == [commit[c] EXCEPT !.pc = next, !.seated = "no", !.left = n]
    <3>1. next \in CommitPhase /\ n \in TurnTime
      BY <1>1, TurnAssumption DEF CommitPhase, Taking, TurnTime, CommitLocals
    <3>2. l \in CommitLocals /\ l.pc = next /\ l.seated = "no" /\ l.attempt = commit[c].attempt
      BY <1>1, <3>1 DEF CommitLocals
    <3>3. c \in DoorCommits /\ next \in Taking => commit[c].attempt < PLANS
      BY <1>1, <2>1 DEF Fit, CommitAt, Taking
    <3>4. Fit(c, l)
      BY <3>2, <3>3 DEF Fit
    <3> QED BY <2>1, <3>2, <3>4
  <2>2. ASSUME c \in DoorCommits, commit[c].pc \in Waiting,
               CommitGoes(c, [commit[c] EXCEPT !.seated = "yes"])
        PROVE  \E l : Fit(c, l) /\ CommitGoes(c, l)
    <3> DEFINE l == [commit[c] EXCEPT !.seated = "yes"]
    <3>1. /\ l \in CommitLocals /\ l.pc = commit[c].pc /\ l.attempt = commit[c].attempt
          /\ l.has = commit[c].has /\ l.seen = commit[c].seen
      BY <1>1 DEF CommitLocals
    <3>2. Fit(c, l)
      BY <1>1, <2>2, <3>1 DEF Fit
    <3> QED BY <2>2, <3>2
  <2> DEFINE next == CASE CommitAt(c, "takeWaits") -> "takeReads"
                       [] CommitAt(c, "waiting") /\ c \in DoorCommits -> "finalizing"
                       [] OTHER -> "keeps"
  <2>3. \/ /\ CommitGoes(c, [commit[c] EXCEPT !.pc = next, !.seated = "no",
                                        !.left = IF next = "takeReads" THEN @ ELSE 0])
        \/ UNCHANGED commit
        \/ c \in DoorCommits /\ commit[c].seated = "no" /\ CommitGoes(c, [commit[c] EXCEPT !.seated = "yes"])
    BY <1>5 DEF Polls
  <2>4. next \in {"takeReads", "finalizing", "keeps"} /\ (next = "takeReads" => CommitAt(c, "takeWaits"))
    BY DEF CommitAt
  <2>5. (IF next = "takeReads" THEN commit[c].left ELSE 0) \in {0, commit[c].left}
    OBVIOUS
  <2>6. commit[c].pc \in Waiting
    BY <1>5 DEF Polls
  <2> HIDE DEF next
  <2>7. QED
    BY <1>5, <2>1, <2>2, <2>3, <2>4, <2>5, <2>6
<1>6. CASE IsRefusedASeat(c)
  <2>1. CASE CommitAt(c, "waiting")
    BY <1>1, <1>6, <2>1, EndsFit DEF IsRefusedASeat
  <2>2. CASE ~ CommitAt(c, "waiting")
    <3>1. commit[c].pc \in Taking /\ CommitGoes(c, Busy(c))
      BY <1>6, <2>2 DEF IsRefusedASeat, Waiting, Taking, CommitAt
    <3>2. QED
      BY <1>1, <3>1, TakeEndsFit
  <2>3. QED
    BY <2>1, <2>2
<1>7. CASE AsksWhetherKept(c)
  <2>1. ASSUME NEW has \in {"yes", "no"},
               CommitGoes(c, [commit[c] EXCEPT !.pc = "finalizing", !.has = has])
        PROVE  \E l : Fit(c, l) /\ CommitGoes(c, l) /\ l.seated = "no"
    <3> DEFINE l == [commit[c] EXCEPT !.pc = "finalizing", !.has = has]
    <3>1. l \in CommitLocals /\ l.pc = "finalizing" /\ l.seated = "no"
      BY <1>1, <1>2, <1>7 DEF CommitLocals, CommitPhase, AsksWhetherKept, CommitAt, Waiting
    <3>2. Fit(c, l)
      BY <3>1 DEF Fit, Taking
    <3> QED BY <2>1, <3>1, <3>2
  <2>2. QED
    BY <1>7, <2>1 DEF AsksWhetherKept
<1>8. CASE Loses(c)
  <2>1. commit[c].seated = "no"
    BY <1>2, <1>8 DEF Loses, CommitAt, Waiting
  <2>2. CASE c \in Writers
    <3> DEFINE l == [commit[c] EXCEPT !.pc = "takeReads", !.txn = "again", !.plan = "latest",
                                      !.rounds = 1]
    <3>1. 1 \in 0 .. ROUNDS
      BY TurnAssumption
    <3>2. l \in CommitLocals /\ l.pc = "takeReads" /\ l.seated = "no"
      BY <1>1, <2>1, <3>1 DEF CommitLocals, CommitPhase, Taking
    <3>3. c \notin DoorCommits
      BY <2>2, TurnAssumption
    <3>4. Fit(c, l)
      BY <3>2, <3>3 DEF Fit
    <3>5. CommitGoes(c, l)
      BY <1>8, <2>2, <3>3 DEF Loses
    <3> QED BY <3>2, <3>4, <3>5
  <2>3. CASE c \in DoorCommits /\ commit[c].attempt = PLANS
    <3>1. CommitGoes(c, CommitEnds(commit[c], "new"))
      <4>1. c \notin Writers
        BY <2>3, TurnAssumption
      <4>2. ~ (commit[c].attempt < PLANS)
        BY <2>3, TurnAssumption
      <4>3. QED
        BY <1>8, <2>3, <4>1, <4>2 DEF Loses
    <3> QED BY <1>1, <3>1, EndsFit
  <2>4. CASE c \in DoorCommits /\ commit[c].attempt # PLANS
    <3>1. commit[c].attempt < PLANS /\ c \notin Writers
      BY <1>1, <2>4, TurnAssumption DEF CommitLocals
    <3>2. CASE commit[c].has = "yes"
      <4>1. CommitGoes(c, Replans(commit[c]))
        BY <1>8, <2>4, <3>1, <3>2 DEF Loses
      <4> QED BY <1>1, <3>1, <4>1, ReplansFit
    <3>3. CASE commit[c].has # "yes"
      <4>1. PICK k \in Nonces :
              CommitGoes(c, [Deadline(commit[c], "takeWaits") EXCEPT !.nonce = k, !.plan = "latest",
                                                              !.rounds = 1])
        BY <1>8, <2>4, <3>1, <3>3 DEF Loses
      <4> DEFINE d == Deadline(commit[c], "takeWaits")
                 l == [d EXCEPT !.nonce = k, !.plan = "latest", !.rounds = 1]
      <4>2. 1 \in 0 .. ROUNDS /\ HOLD \in TurnTime
        BY TurnAssumption DEF TurnTime
      <4>3. /\ d \in CommitLocals /\ d.pc = "takeWaits" /\ d.seated = "no"
            /\ d.attempt = commit[c].attempt
        BY <1>1, <4>2 DEF Deadline, CommitLocals, CommitPhase, Taking
      <4> HIDE DEF d
      <4>4. /\ l \in CommitLocals /\ l.pc = "takeWaits" /\ l.seated = "no"
            /\ l.attempt = commit[c].attempt
        BY <4>2, <4>3 DEF CommitLocals
      <4>5. Fit(c, l)
        BY <3>1, <4>4 DEF Fit
      <4> QED BY <4>1, <4>4, <4>5 DEF d
    <3> QED BY <3>2, <3>3
  <2>5. QED
    BY <2>2, <2>3, <2>4 DEF Takers
<1>9. CASE Take(c)
  <2>1. commit[c].pc \in Taking \ Waiting
    BY <1>9 DEF Take, TakeReads, TakeWrites, TakeAnswerLost, TakeLoses, CommitAt, Taking, Waiting
  <2>2. \/ CommitGoes(c, TurnTaken(c)) \/ CommitGoes(c, Busy(c)) \/ CommitGoes(c, NextRound(c))
        \/ /\ OnRef(Live(record.turns), c) = {}
           /\ CommitGoes(c, [commit[c] EXCEPT !.pc = "takeWrites", !.hold = HOLD, !.seen = record])
    BY <1>9 DEF Take, TakeReads, TakeWrites, TakeAnswerLost, TakeLoses
  <2>3. ASSUME OnRef(Live(record.turns), c) = {},
               CommitGoes(c, [commit[c] EXCEPT !.pc = "takeWrites", !.hold = HOLD, !.seen = record])
        PROVE  \E l : Fit(c, l) /\ CommitGoes(c, l) /\ l.seated = "no"
    <3> DEFINE l == [commit[c] EXCEPT !.pc = "takeWrites", !.hold = HOLD, !.seen = record]
    <3>1. /\ l \in CommitLocals /\ l.pc = "takeWrites" /\ l.seated = "no"
          /\ l.attempt = commit[c].attempt /\ l.seen = record
      <4>1. HOLD \in TurnTime /\ record \in Record
        BY TurnAssumption DEF TurnInv, TurnTypeOK, TurnTime
      <4>2. commit[c].seated = "no"
        BY <1>2, <2>1
      <4>3. QED
        BY <1>1, <4>1, <4>2 DEF CommitLocals, CommitPhase, Taking
    <3>2. Fit(c, l)
      BY <1>1, <2>1, <2>3, <3>1 DEF Fit
    <3> QED BY <2>3, <3>1, <3>2
  <2>4. QED
    BY <1>1, <2>1, <2>2, <2>3, TakeEndsFit, NextRoundFits
<1>10. CASE Release(c)
  <2>1. commit[c].seated = "no" /\ commit[c].pc \in Releasing
    BY <1>2, <1>10 DEF Release, ReleaseReads, ReleaseWrites, ReleaseLoses, CommitAt, Waiting, Releasing
  <2>2. \/ CommitGoes(c, Rest(commit[c].nonce, commit[c].txn))
        \/ CommitGoes(c, [commit[c] EXCEPT !.pc = "releaseWrites", !.seen = record])
        \/ /\ commit[c].rounds < ROUNDS
           /\ CommitGoes(c, [commit[c] EXCEPT !.pc = "releaseReads", !.rounds = @ + 1, !.seen = Absent])
    BY <1>10 DEF Release, ReleaseReads, ReleaseWrites, ReleaseLoses
  <2>3. CASE CommitGoes(c, [commit[c] EXCEPT !.pc = "releaseWrites", !.seen = record])
    <3> DEFINE l == [commit[c] EXCEPT !.pc = "releaseWrites", !.seen = record]
    <3>1. l \in CommitLocals /\ l.pc = "releaseWrites" /\ l.seated = "no"
      BY <1>1, <2>1 DEF TurnInv, TurnTypeOK, CommitLocals, CommitPhase, Releasing
    <3>2. Fit(c, l)
      BY <3>1 DEF Fit, Taking
    <3> QED BY <2>3, <3>1, <3>2
  <2>4. ASSUME commit[c].rounds < ROUNDS,
               CommitGoes(c, [commit[c] EXCEPT !.pc = "releaseReads", !.rounds = @ + 1, !.seen = Absent])
        PROVE  \E l : Fit(c, l) /\ CommitGoes(c, l) /\ l.seated = "no"
    <3> DEFINE n == commit[c].rounds + 1
               l == [commit[c] EXCEPT !.pc = "releaseReads", !.rounds = n, !.seen = Absent]
    <3>1. n \in 0 .. ROUNDS
      BY <1>1, <2>4, TurnAssumption DEF CommitLocals
    <3>2. Absent \in Record
      BY DEF Absent, Record
    <3>3. CommitGoes(c, l)
      BY <2>4
    <3> HIDE DEF n
    <3>4. l \in CommitLocals /\ l.pc = "releaseReads" /\ l.seated = "no"
      BY <1>1, <2>1, <3>1, <3>2 DEF CommitLocals, CommitPhase, Releasing
    <3>5. Fit(c, l)
      BY <3>4 DEF Fit, Taking
    <3> QED BY <3>3, <3>4, <3>5
  <2>5. commit[c].txn \in {"new", "again"}
    BY <1>1 DEF CommitLocals
  <2>6. QED
    BY <1>1, <2>2, <2>3, <2>4, <2>5, RestFits
<1>11. CASE CommitFails(c)
  <2>1. PICK x \in {"new", "again"} : CommitGoes(c, CommitEnds(commit[c], x))
    BY <1>11 DEF CommitFails
  <2>2. QED
    BY <1>1, <2>1, EndsFit
<1>12. QED
  BY <1>3, <1>4, <1>5, <1>6, <1>7, <1>8, <1>9, <1>10, <1>11 DEF Step

\* A commit landing on a ref changes the others' plans only.
LEMMA OutdatedFits ==
    ASSUME NEW ref, NEW d \in Takers, Fit(d, commit[d])
    PROVE  /\ Fit(d, Outdated(ref, d))
           /\ \A f \in {"pc", "nonce", "has", "txn", "seated"} : Outdated(ref, d)[f] = commit[d][f]
<1>1. commit[d] \in CommitLocals
  BY DEF Fit
<1>2. CASE Outdated(ref, d) = commit[d]
  BY <1>2
<1>3. CASE Outdated(ref, d) = [commit[d] EXCEPT !.plan = "behind"]
  <2> DEFINE l == [commit[d] EXCEPT !.plan = "behind"]
  <2>1. /\ l \in CommitLocals /\ l.attempt = commit[d].attempt /\ l.seen = commit[d].seen
        /\ l.pc = commit[d].pc /\ l.nonce = commit[d].nonce /\ l.has = commit[d].has
        /\ l.txn = commit[d].txn /\ l.seated = commit[d].seated
    BY <1>1 DEF CommitLocals
  <2>2. Fit(d, l)
    BY <2>1 DEF Fit
  <2>3. QED
    BY <1>3, <2>1, <2>2
<1>4. QED
  BY <1>2, <1>3 DEF Outdated

\* Time passing changes no commit's phase, nonce, turn, transaction or seat.
LEMMA TickFits ==
    ASSUME NEW d \in Takers, NEW l, Fit(d, l)
    PROVE  LET n == [l EXCEPT !.left = Elapse(@), !.hold = Elapse(@), !.seen.turns = Aged(@)]
           IN  Fit(d, n) /\ n.pc = l.pc /\ n.nonce = l.nonce /\ n.has = l.has
               /\ n.txn = l.txn /\ n.seated = l.seated
<1> DEFINE seen == [l.seen EXCEPT !.turns = Aged(@)]
           left == Elapse(l.left)
           hold == Elapse(l.hold)
           n    == [l EXCEPT !.left = left, !.hold = hold, !.seen = seen]
<1>1. l \in CommitLocals /\ l.left \in TurnTime /\ l.hold \in TurnTime /\ l.seen \in Record
      /\ l.seen.turns \in SUBSET Turn
  BY DEF Fit, CommitLocals, Record
<1>2. left \in TurnTime /\ hold \in TurnTime
  BY <1>1, TurnAssumption DEF Elapse, TurnTime
<1>3. seen \in Record /\ seen.turns = Aged(l.seen.turns)
  BY <1>1, Aging DEF Record
<1>4. n = [l EXCEPT !.left = Elapse(@), !.hold = Elapse(@), !.seen.turns = Aged(@)]
  BY <1>1 DEF CommitLocals
<1> HIDE DEF seen, left, hold
<1>5. /\ n \in CommitLocals /\ n.pc = l.pc /\ n.nonce = l.nonce /\ n.has = l.has
      /\ n.txn = l.txn /\ n.seated = l.seated /\ n.attempt = l.attempt /\ n.seen = seen
  BY <1>1, <1>2, <1>3 DEF CommitLocals
<1>6. OnRef(Live(l.seen.turns), d) = {} => OnRef(Live(seen.turns), d) = {}
  <2>1. SUFFICES ASSUME NEW s \in OnRef(Live(seen.turns), d)
                 PROVE  OnRef(Live(l.seen.turns), d) # {}
    OBVIOUS
  <2>2. s \in Live(Aged(l.seen.turns)) /\ s.ref = RefOf[d]
    BY <1>3, <2>1 DEF OnRef
  <2>3. PICK t \in Live(l.seen.turns) : s = [t EXCEPT !.left = t.left - 1]
    BY <1>1, <2>2, Aging
  <2>4. t \in Turn /\ s.ref = t.ref
    BY <1>1, <2>3 DEF Live, Turn
  <2>5. QED
    BY <2>2, <2>3, <2>4 DEF OnRef
<1>7. Fit(d, n)
  BY <1>5, <1>6 DEF Fit
<1>8. QED
  BY <1>4, <1>5, <1>7

\* Every commit stays fit.
LEMMA FitNext ==
    ASSUME TurnInv, [TurnsNext]_turnVars
    PROVE  commit' \in [Takers -> CommitLocals] /\ CommitsFit'
<1>0. TurnTypeOK /\ CommitsFit /\ commit \in [Takers -> CommitLocals]
  BY DEF TurnInv, TurnTypeOK
<1>1. ASSUME NEW c \in Takers, Stages(c) \/ Step(c) \/ CommitFails(c), ~ FinalizeLands(c)
      PROVE  commit' \in [Takers -> CommitLocals] /\ CommitsFit'
  <2>1. CASE UNCHANGED commit
    BY <1>0, <2>1 DEF CommitsFit
  <2>2. CASE ~ UNCHANGED commit
    <3>1. PICK l : Fit(c, l) /\ CommitGoes(c, l)
      BY <1>1, <2>2, CommitStepsFit
    <3>2. QED
      BY <1>0, <3>1, OneGoes
  <2>3. QED
    BY <2>1, <2>2
<1>2. ASSUME NEW locals, commit' = [d \in Takers |-> locals[d]],
             \A d \in Takers : Fit(d, locals[d])
      PROVE  commit' \in [Takers -> CommitLocals] /\ CommitsFit'
  <2>1. \A d \in Takers : Fit(d, commit'[d]) /\ locals[d] \in CommitLocals
    BY <1>2 DEF Fit
  <2>2. QED
    BY <1>2, <2>1 DEF CommitsFit
<1>3. ASSUME NEW c \in Takers, FinalizeLands(c)
      PROVE  commit' \in [Takers -> CommitLocals] /\ CommitsFit'
  <2> DEFINE locals == [d \in Takers |-> IF d = c THEN CommitEnds(commit[c], "new")
                                          ELSE Outdated(RefOf[c], d)]
  <2>1. commit' = [d \in Takers |-> locals[d]]
    BY <1>3 DEF FinalizeLands
  <2>2. \A d \in Takers : Fit(d, locals[d])
    BY <1>0, EndsFit, OutdatedFits DEF CommitsFit, Fit
  <2>3. QED
    BY <1>2, <2>1, <2>2
<1>4. ASSUME NEW ref \in Refs, AnotherLands(ref)
      PROVE  commit' \in [Takers -> CommitLocals] /\ CommitsFit'
  <2> DEFINE locals == [d \in Takers |-> Outdated(ref, d)]
  <2>1. commit' = [d \in Takers |-> locals[d]]
    BY <1>4 DEF AnotherLands
  <2>2. \A d \in Takers : Fit(d, locals[d])
    BY <1>0, OutdatedFits DEF CommitsFit
  <2>3. QED
    BY <1>2, <2>1, <2>2
<1>5. ASSUME NEW p \in Processes, Restarts(p)
      PROVE  commit' \in [Takers -> CommitLocals] /\ CommitsFit'
  <2> DEFINE gone == {c \in Takers : ServedBy[c] = p /\ ~ CommitAt(c, "idle")}
             locals == [c \in Takers |-> IF c \in gone
                          THEN IF c \in Writers THEN Rest(commit[c].nonce, "again") ELSE Fresh
                          ELSE commit[c]]
  <2>1. commit' = [d \in Takers |-> locals[d]]
    BY <1>5 DEF Restarts
  <2>2. \A d \in Takers : commit[d].nonce \in Nonces
    BY <1>0 DEF CommitLocals
  <2>3. \A d \in Takers : Fit(d, locals[d])
    BY <1>0, <2>2, FreshFits, RestFits DEF CommitsFit
  <2>4. QED
    BY <1>2, <2>1, <2>3
<1>6. CASE TimePasses
  <2> DEFINE locals == [c \in Takers |->
           [commit[c] EXCEPT !.left = Elapse(@), !.hold = Elapse(@), !.seen.turns = Aged(@)]]
  <2>1. commit' = [d \in Takers |-> locals[d]]
    BY <1>6 DEF TimePasses
  <2>2. \A d \in Takers : Fit(d, locals[d])
    BY <1>0, TickFits DEF CommitsFit
  <2>3. QED
    BY <1>2, <2>1, <2>2
<1>7. CASE UNCHANGED turnVars
  BY <1>0, <1>7 DEF turnVars, CommitsFit
<1>8. QED
  BY <1>1, <1>3, <1>4, <1>5, <1>6, <1>7 DEF TurnsNext

-----------------------------------------------------------------------------
(* The seats                                                               *)

\* Nobody sits down or gets up.
LEMMA SeatsKept ==
    ASSUME TurnInv, UNCHANGED seats,
           \A d \in Takers : commit'[d].seated = commit[d].seated
    PROVE  SeatsAreCounted' /\ seats' \in [Processes -> 0 .. SEATS]
<1>1. \A p \in Processes : Seated(p)' = Seated(p)
  BY DEF Seated
<1>2. QED
  BY <1>1 DEF TurnInv, TurnTypeOK, SeatsAreCounted

\* A thread gives its seat back, if it has one.
LEMMA SeatGivenBack ==
    ASSUME TurnInv, NEW c \in Takers, NEW l, Fit(c, l), CommitGoes(c, l), l.seated = "no", SeatBack(c)
    PROVE  SeatsAreCounted' /\ seats' \in [Processes -> 0 .. SEATS]
<1>0. TurnTypeOK /\ CommitsFit
  BY DEF TurnInv
<1>1. commit'[c].seated = "no" /\ \A d \in Takers \ {c} : commit'[d] = commit[d]
  BY <1>0, OneGoes
<1>2. CASE commit[c].seated = "yes"
  <2> DEFINE p == ServedBy[c]
  <2>1. p \in Processes /\ seats \in [Processes -> 0 .. SEATS]
        /\ seats' = [seats EXCEPT ![p] = seats[p] - 1]
    BY <1>0, <1>2, TurnAssumption DEF SeatBack, TurnTypeOK
  <2>2. IsFiniteSet(Seated(p)) /\ Cardinality(Seated(p)) = seats[p]
    BY <2>1 DEF TurnInv, SeatsAreCounted
  <2>3. c \in Seated(p) /\ Seated(p)' = Seated(p) \ {c}
    BY <1>1, <1>2 DEF Seated
  <2>4. IsFiniteSet(Seated(p)') /\ Cardinality(Seated(p)') = seats[p] - 1
    BY <2>2, <2>3, FS_RemoveElement
  <2>5. Cardinality(Seated(p)') \in Nat
    BY <2>4, FS_CardinalityType
  <2>6. seats[p] - 1 \in 0 .. SEATS
    BY <2>1, <2>4, <2>5, TurnAssumption
  <2>7. \A q \in Processes \ {p} : Seated(q)' = Seated(q) /\ seats'[q] = seats[q]
    BY <1>1, <2>1 DEF Seated
  <2>8. \A q \in Processes : IsFiniteSet(Seated(q)') /\ Cardinality(Seated(q)') = seats'[q]
    BY <2>1, <2>4, <2>7 DEF TurnInv, SeatsAreCounted
  <2>9. QED
    BY <2>1, <2>6, <2>8 DEF SeatsAreCounted
<1>3. CASE commit[c].seated # "yes"
  <2>1. commit[c].seated = "no" /\ UNCHANGED seats
    BY <1>0, <1>3 DEF SeatBack, TurnTypeOK, CommitLocals
  <2>2. QED
    BY <1>1, <2>1, SeatsKept
<1>4. QED
  BY <1>2, <1>3

\* A thread takes a free seat.
LEMMA SeatTaken ==
    ASSUME TurnInv, NEW c \in Takers, NEW l, Fit(c, l), CommitGoes(c, l),
           l.seated = "yes", commit[c].seated = "no", seats[ServedBy[c]] < SEATS,
           seats' = [seats EXCEPT ![ServedBy[c]] = @ + 1]
    PROVE  SeatsAreCounted' /\ seats' \in [Processes -> 0 .. SEATS]
<1>0. TurnTypeOK /\ CommitsFit
  BY DEF TurnInv
<1>1. commit'[c].seated = "yes" /\ \A d \in Takers \ {c} : commit'[d] = commit[d]
  BY <1>0, OneGoes
<1> DEFINE p == ServedBy[c]
<1>2. p \in Processes /\ seats \in [Processes -> 0 .. SEATS]
      /\ seats' = [seats EXCEPT ![p] = seats[p] + 1] /\ seats[p] < SEATS
  BY <1>0, TurnAssumption DEF TurnTypeOK
<1>3. IsFiniteSet(Seated(p)) /\ Cardinality(Seated(p)) = seats[p]
  BY <1>2 DEF TurnInv, SeatsAreCounted
<1>4. c \notin Seated(p) /\ Seated(p)' = Seated(p) \cup {c}
  BY <1>1 DEF Seated
<1>5. IsFiniteSet(Seated(p)') /\ Cardinality(Seated(p)') = seats[p] + 1
  BY <1>3, <1>4, FS_AddElement
<1>6. seats[p] + 1 \in 0 .. SEATS
  BY <1>2, TurnAssumption
<1>7. \A q \in Processes \ {p} : Seated(q)' = Seated(q) /\ seats'[q] = seats[q]
  BY <1>1, <1>2 DEF Seated
<1>8. \A q \in Processes : IsFiniteSet(Seated(q)') /\ Cardinality(Seated(q)') = seats'[q]
  BY <1>2, <1>5, <1>7 DEF TurnInv, SeatsAreCounted
<1>9. QED
  BY <1>2, <1>6, <1>8 DEF SeatsAreCounted

\* A process counts its seats right through every step.
LEMMA SeatsNext ==
    ASSUME TurnInv, [TurnsNext]_turnVars
    PROVE  SeatsAreCounted' /\ seats' \in [Processes -> 0 .. SEATS]
<1>0. TurnTypeOK /\ CommitsFit /\ commit \in [Takers -> CommitLocals]
  BY DEF TurnInv, TurnTypeOK
<1>1. \A d \in Takers : commit[d].pc \notin Waiting => commit[d].seated = "no"
  BY <1>0 DEF CommitsFit, Fit, CommitLocals
<1>2. ASSUME NEW c \in Takers, Stages(c) \/ Step(c), ~ Polls(c), ~ FinalizeLands(c)
      PROVE  SeatsAreCounted' /\ seats' \in [Processes -> 0 .. SEATS]
  <2>1. UNCHANGED seats /\ commit[c].seated = "no"
    BY <1>1, <1>2 DEF Stages, Step, AsksToFinalize, IsRefusedASeat, AsksWhetherKept, Loses,
       Take, TakeReads, TakeWrites, TakeAnswerLost, TakeLoses,
       Release, ReleaseReads, ReleaseWrites, ReleaseLoses, CommitAt, Waiting
  <2>2. CASE UNCHANGED commit
    BY <2>1, <2>2, SeatsKept
  <2>3. CASE ~ UNCHANGED commit
    <3>1. PICK l : Fit(c, l) /\ CommitGoes(c, l) /\ l.seated = "no"
      BY <1>2, <2>3, CommitStepsFit
    <3>2. \A d \in Takers : commit'[d].seated = commit[d].seated
      BY <1>0, <2>1, <3>1, OneGoes
    <3>3. QED
      BY <2>1, <3>2, SeatsKept
  <2>4. QED
    BY <2>2, <2>3
<1>3. ASSUME NEW c \in Takers, Polls(c)
      PROVE  SeatsAreCounted' /\ seats' \in [Processes -> 0 .. SEATS]
  <2>1. CASE UNCHANGED <<commit, seats>>
    BY <2>1, SeatsKept
  <2>2. CASE ~ UNCHANGED <<commit, seats>>
    <3>1. \/ /\ SeatBack(c)
             /\ \E next, left : CommitGoes(c, [commit[c] EXCEPT !.pc = next, !.seated = "no",
                                                         !.left = left])
          \/ /\ commit[c].seated = "no" /\ seats[ServedBy[c]] < SEATS
             /\ CommitGoes(c, [commit[c] EXCEPT !.seated = "yes"])
             /\ seats' = [seats EXCEPT ![ServedBy[c]] = @ + 1]
      BY <1>3, <2>2 DEF Polls
    <3>2. commit[c] \in CommitLocals
      BY <1>0
    <3>3. Stages(c) \/ Step(c) \/ CommitFails(c)
      BY <1>3 DEF Step
    <3>4. CASE UNCHANGED commit
      <4>1. commit'[c] = commit[c]
        BY <3>4
      <4>2. ASSUME NEW next, NEW left, SeatBack(c),
                   CommitGoes(c, [commit[c] EXCEPT !.pc = next, !.seated = "no", !.left = left])
            PROVE  FALSE
        <5>1. commit'[c] = [commit[c] EXCEPT !.pc = next, !.seated = "no", !.left = left]
          BY <1>0, <4>2 DEF CommitGoes
        <5>2. commit'[c].seated = "no"
          BY <3>2, <5>1 DEF CommitLocals
        <5>3. QED
          BY <2>2, <3>4, <4>1, <4>2, <5>2 DEF SeatBack
      <4>3. ASSUME commit[c].seated = "no", CommitGoes(c, [commit[c] EXCEPT !.seated = "yes"])
            PROVE  FALSE
        <5>1. commit'[c] = [commit[c] EXCEPT !.seated = "yes"]
          BY <1>0, <4>3 DEF CommitGoes
        <5>2. QED
          BY <3>2, <4>1, <4>3, <5>1 DEF CommitLocals
      <4>4. QED
        BY <3>1, <4>2, <4>3
    <3>5. CASE ~ UNCHANGED commit
      <4>1. PICK l : Fit(c, l) /\ CommitGoes(c, l)
        <5>1. ~ FinalizeLands(c)
          BY <1>3 DEF FinalizeLands, Polls, CommitAt, Waiting
        <5>2. QED
          BY <3>3, <3>5, <5>1, CommitStepsFit
      <4>2. commit'[c] = l
        BY <1>0, <4>1 DEF CommitGoes
      <4>3. ASSUME NEW next, NEW left, SeatBack(c),
                   CommitGoes(c, [commit[c] EXCEPT !.pc = next, !.seated = "no", !.left = left])
            PROVE  SeatsAreCounted' /\ seats' \in [Processes -> 0 .. SEATS]
        <5>1. commit'[c] = [commit[c] EXCEPT !.pc = next, !.seated = "no", !.left = left]
          BY <1>0, <4>3 DEF CommitGoes
        <5>2. l.seated = "no"
          BY <3>2, <4>2, <5>1 DEF CommitLocals
        <5>3. QED
          BY <4>1, <4>3, <5>2, SeatGivenBack
      <4>4. ASSUME commit[c].seated = "no", seats[ServedBy[c]] < SEATS,
                   CommitGoes(c, [commit[c] EXCEPT !.seated = "yes"]),
                   seats' = [seats EXCEPT ![ServedBy[c]] = @ + 1]
            PROVE  SeatsAreCounted' /\ seats' \in [Processes -> 0 .. SEATS]
        <5>1. commit'[c] = [commit[c] EXCEPT !.seated = "yes"]
          BY <1>0, <4>4 DEF CommitGoes
        <5>2. l.seated = "yes"
          BY <3>2, <4>2, <5>1 DEF CommitLocals
        <5>3. QED
          BY <4>1, <4>4, <5>2, SeatTaken
      <4>5. QED
        BY <3>1, <4>3, <4>4
    <3>6. QED
      BY <3>4, <3>5
  <2>3. QED
    BY <2>1, <2>2
<1>4. ASSUME NEW c \in Takers, CommitFails(c)
      PROVE  SeatsAreCounted' /\ seats' \in [Processes -> 0 .. SEATS]
  <2>1. PICK x \in {"new", "again"} : CommitGoes(c, CommitEnds(commit[c], x))
    BY <1>4 DEF CommitFails
  <2>2. Fit(c, CommitEnds(commit[c], x)) /\ CommitEnds(commit[c], x).seated = "no"
    BY <1>0, EndsFit
  <2>3. SeatBack(c)
    BY <1>4 DEF CommitFails
  <2>4. QED
    BY <2>1, <2>2, <2>3, SeatGivenBack
<1>5. ASSUME NEW c \in Takers, FinalizeLands(c)
      PROVE  SeatsAreCounted' /\ seats' \in [Processes -> 0 .. SEATS]
  <2>1. commit[c].seated = "no"
    BY <1>1, <1>5 DEF FinalizeLands, CommitAt, Waiting
  <2>2. CommitEnds(commit[c], "new").seated = "no"
    BY <1>0, EndsFit
  <2>3. \A d \in Takers : Outdated(RefOf[c], d).seated = commit[d].seated
    BY <1>0, OutdatedFits DEF CommitsFit
  <2>4. \A d \in Takers : commit'[d].seated = commit[d].seated
    BY <1>5, <2>1, <2>2, <2>3 DEF FinalizeLands
  <2>5. QED
    BY <1>5, <2>4, SeatsKept DEF FinalizeLands
<1>6. ASSUME NEW ref \in Refs, AnotherLands(ref)
      PROVE  SeatsAreCounted' /\ seats' \in [Processes -> 0 .. SEATS]
  <2>1. \A d \in Takers : Outdated(ref, d).seated = commit[d].seated
    BY <1>0, OutdatedFits DEF CommitsFit
  <2>2. \A d \in Takers : commit'[d].seated = commit[d].seated
    BY <1>6, <2>1 DEF AnotherLands
  <2>3. QED
    BY <1>6, <2>2, SeatsKept DEF AnotherLands
<1>7. ASSUME NEW p \in Processes, Restarts(p)
      PROVE  SeatsAreCounted' /\ seats' \in [Processes -> 0 .. SEATS]
  <2> DEFINE gone == {c \in Takers : ServedBy[c] = p /\ ~ CommitAt(c, "idle")}
  <2>1. \A c \in Takers : commit'[c] =
            IF c \in gone THEN IF c \in Writers THEN Rest(commit[c].nonce, "again") ELSE Fresh
            ELSE commit[c]
    BY <1>7 DEF Restarts
  <2>2. \A c \in gone : commit'[c].seated = "no"
    <3>1. \A c \in gone : Rest(commit[c].nonce, "again").seated = "no" /\ Fresh.seated = "no"
      BY <1>0, RestFits DEF Fresh, CommitLocals
    <3>2. QED
      BY <2>1, <3>1
  <2>3. \A c \in Takers \ gone : commit'[c] = commit[c]
    BY <2>1
  <2> HIDE DEF gone
  <2>4. \A c \in Takers \ gone : ServedBy[c] = p => commit[c].seated = "no"
    BY <1>1 DEF gone, CommitAt, Waiting
  <2>5. Seated(p)' = {}
    BY <2>2, <2>3, <2>4 DEF Seated
  <2>6. \A q \in Processes \ {p} : Seated(q)' = Seated(q)
    BY <2>3 DEF Seated, gone
  <2>7. seats' = [seats EXCEPT ![p] = 0] /\ seats \in [Processes -> 0 .. SEATS]
    BY <1>0, <1>7 DEF Restarts, TurnTypeOK
  <2>8. IsFiniteSet(Seated(p)') /\ Cardinality(Seated(p)') = 0
    BY <2>5, FS_EmptySet
  <2>9. \A q \in Processes : IsFiniteSet(Seated(q)') /\ Cardinality(Seated(q)') = seats'[q]
    BY <2>6, <2>7, <2>8 DEF TurnInv, SeatsAreCounted
  <2>10. QED
    BY <2>7, <2>9, TurnAssumption DEF SeatsAreCounted
<1>8. CASE TimePasses
  <2>1. \A d \in Takers : commit'[d].seated = commit[d].seated
    BY <1>0, <1>8, TickFits DEF TimePasses, CommitsFit
  <2>2. QED
    BY <1>8, <2>1, SeatsKept DEF TimePasses
<1>9. CASE UNCHANGED turnVars
  BY <1>9, SeatsKept DEF turnVars
<1>10. QED
  BY <1>2, <1>3, <1>4, <1>5, <1>6, <1>7, <1>8, <1>9 DEF TurnsNext

-----------------------------------------------------------------------------
(* The record                                                              *)

\* A take that lands adds its own turn, on a ref no live turn is on, to the
\* live turns the record held.
LEMMA TakeAdds ==
    ASSUME TurnInv, NEW c \in Takers, TakeWrites(c) \/ TakeAnswerLost(c)
    PROVE  /\ record' \in Record
           /\ OnRef(Live(record.turns), c) = {}
           /\ recent' = recent \cup {TokenOf(c)}
           /\ \E own \in Turn :
                 /\ own.token = TokenOf(c) /\ own.ref = RefOf[c]
                 /\ record'.turns = Live(record.turns) \cup {own}
<1> DEFINE own == [token |-> TokenOf(c), ref |-> RefOf[c], left |-> commit[c].hold]
<1>1. commit[c] \in CommitLocals /\ Fit(c, commit[c]) /\ record \in Record
  BY DEF TurnInv, TurnTypeOK, CommitsFit
<1>2. own \in Turn /\ own.token = TokenOf(c) /\ own.ref = RefOf[c]
  BY <1>1, TurnAssumption DEF Turn, Token, TokenOf, CommitLocals
<1>3. /\ CommitAt(c, "takeWrites") /\ record = commit[c].seen /\ recent' = recent \cup {TokenOf(c)}
      /\ record' = [kept |-> "stored", turns |-> TakenTurns(c)]
  BY DEF TakeWrites, TakeAnswerLost, Writes
<1>4. OnRef(Live(record.turns), c) = {}
  BY <1>1, <1>3 DEF Fit, CommitAt
<1>5. record'.turns = Live(record.turns) \cup {own}
  BY <1>3 DEF TakenTurns
<1>6. Live(record.turns) \subseteq Turn
  BY <1>1 DEF Live, Record
<1> HIDE DEF own
<1>7. record'.turns \in SUBSET Turn
  BY <1>2, <1>5, <1>6
<1>8. record' = [kept |-> "stored", turns |-> record'.turns]
  BY <1>3
<1>9. record' \in Record
  BY <1>7, <1>8 DEF Record
<1>10. QED
  BY <1>2, <1>3, <1>4, <1>5, <1>9

\* A release that lands leaves the live turns of the others.
LEMMA ReleaseRemoves ==
    ASSUME TurnInv, NEW c \in Takers, ReleaseWrites(c)
    PROVE  /\ record' \in Record
           /\ recent' = recent \ {TokenOf(c)}
           /\ record'.turns = {t \in Live(record.turns) : t.token # TokenOf(c)}
<1>1. record \in Record
  BY DEF TurnInv, TurnTypeOK
<1>2. /\ record = commit[c].seen /\ recent' = recent \ {TokenOf(c)}
      /\ record' = [kept |-> "stored", turns |-> KeptTurns(c)]
  BY DEF ReleaseWrites, Writes
<1>3. record'.turns = {t \in Live(record.turns) : t.token # TokenOf(c)}
  BY <1>2 DEF KeptTurns
<1>4. KeptTurns(c) \in SUBSET Turn
  BY <1>1, <1>2 DEF KeptTurns, Live, Record
<1>5. record' \in Record
  BY <1>2, <1>4 DEF Record
<1>6. QED
  BY <1>2, <1>3, <1>5

\* The steps of commits that leave the record alone.
LEMMA RecordKept ==
    ASSUME NEW c, Stages(c) \/ Step(c) \/ CommitFails(c),
           ~ TakeWrites(c), ~ TakeAnswerLost(c), ~ ReleaseWrites(c)
    PROVE  UNCHANGED <<record, recent>>
  BY DEF Stages, Step, CommitFails, AsksToFinalize, Polls, IsRefusedASeat, AsksWhetherKept,
         FinalizeLands, Loses, Take, TakeReads, TakeLoses, Release, ReleaseReads, ReleaseLoses

\* Every step leaves the record's turns as they were, adds one or removes one
\* commit's, or ages them.
LEMMA RecordSteps ==
    ASSUME TurnInv, [TurnsNext]_turnVars
    PROVE  \/ UNCHANGED <<record, recent>>
           \/ \E c \in Takers : TakeWrites(c) \/ TakeAnswerLost(c)
           \/ \E c \in Takers : ReleaseWrites(c)
           \/ TimePasses
<1>1. ASSUME NEW c \in Takers, Stages(c) \/ Step(c) \/ CommitFails(c)
      PROVE  UNCHANGED <<record, recent>> \/ TakeWrites(c) \/ TakeAnswerLost(c) \/ ReleaseWrites(c)
  BY <1>1, RecordKept
<1>2. ASSUME NEW ref \in Refs, AnotherLands(ref)
      PROVE  UNCHANGED <<record, recent>>
  BY <1>2 DEF AnotherLands
<1>3. ASSUME NEW p \in Processes, Restarts(p)
      PROVE  UNCHANGED <<record, recent>>
  BY <1>3 DEF Restarts
<1>4. CASE UNCHANGED turnVars
  BY <1>4 DEF turnVars
<1>5. QED
  BY <1>1, <1>2, <1>3, <1>4 DEF TurnsNext

\* The tick: every live turn was one, of the same commit on the same ref.
LEMMA TickAges ==
    ASSUME TurnInv, TimePasses
    PROVE  /\ record' \in Record
           /\ \A s \in Live(record'.turns) : \E t \in Live(record.turns) :
                 s = [t EXCEPT !.left = t.left - 1] /\ s.token = t.token /\ s.ref = t.ref
<1>1. record \in Record /\ record.turns \in SUBSET Turn
  BY DEF TurnInv, TurnTypeOK, Record
<1>2. record' \in Record /\ record'.turns = Aged(record.turns)
  BY <1>1, Aging DEF TimePasses, Record
<1>3. ASSUME NEW s \in Live(record'.turns)
      PROVE  \E t \in Live(record.turns) :
                 s = [t EXCEPT !.left = t.left - 1] /\ s.token = t.token /\ s.ref = t.ref
  <2>1. PICK t \in Live(record.turns) : s = [t EXCEPT !.left = t.left - 1]
    BY <1>1, <1>2, <1>3, Aging
  <2>2. t \in Turn
    BY <1>1, <2>1 DEF Live
  <2>3. s.token = t.token /\ s.ref = t.ref
    BY <2>1, <2>2 DEF Turn
  <2>4. QED
    BY <2>1, <2>3
<1>4. QED
  BY <1>2, <1>3

\* The record stays well formed, with one live turn a ref.
LEMMA OneLiveNext ==
    ASSUME TurnInv, [TurnsNext]_turnVars
    PROVE  record' \in Record /\ recent' \in SUBSET Token /\ OneLiveTurnPerRef'
<1>1. /\ record \in Record /\ recent \in SUBSET Token /\ OneLiveTurnPerRef
      /\ \A c \in Takers : TokenOf(c) \in Token
  BY DEF TurnInv, TurnTypeOK, TokenOf, Token, CommitLocals
<1>2. CASE UNCHANGED <<record, recent>>
  BY <1>1, <1>2 DEF OneLiveTurnPerRef
<1>3. ASSUME NEW c \in Takers, TakeWrites(c) \/ TakeAnswerLost(c)
      PROVE  record' \in Record /\ recent' \in SUBSET Token /\ OneLiveTurnPerRef'
  <2>1. /\ record' \in Record /\ recent' = recent \cup {TokenOf(c)}
        /\ OnRef(Live(record.turns), c) = {}
    BY <1>3, TakeAdds
  <2>2. PICK own \in Turn : /\ own.ref = RefOf[c]
                            /\ record'.turns = Live(record.turns) \cup {own}
    BY <1>3, TakeAdds
  <2>3. \A t \in Live(record'.turns) : t \in Live(record.turns) \/ t = own
    BY <2>2 DEF Live
  <2>4. \A t \in Live(record.turns) : t.ref # own.ref
    BY <2>1, <2>2 DEF OnRef
  <2>5. OneLiveTurnPerRef'
    BY <1>1, <2>3, <2>4 DEF OneLiveTurnPerRef
  <2>6. QED
    BY <1>1, <2>1, <2>5
<1>4. ASSUME NEW c \in Takers, ReleaseWrites(c)
      PROVE  record' \in Record /\ recent' \in SUBSET Token /\ OneLiveTurnPerRef'
  <2>1. /\ record' \in Record /\ recent' = recent \ {TokenOf(c)}
        /\ record'.turns = {t \in Live(record.turns) : t.token # TokenOf(c)}
    BY <1>4, ReleaseRemoves
  <2>2. \A t \in Live(record'.turns) : t \in Live(record.turns)
    BY <2>1 DEF Live
  <2>3. QED
    BY <1>1, <2>1, <2>2 DEF OneLiveTurnPerRef
<1>5. CASE TimePasses
  <2>1. /\ record' \in Record
        /\ \A s \in Live(record'.turns) : \E t \in Live(record.turns) :
              s = [t EXCEPT !.left = t.left - 1] /\ s.token = t.token /\ s.ref = t.ref
    BY <1>5, TickAges
  <2>2. ASSUME NEW a \in Live(record'.turns), NEW b \in Live(record'.turns), a.ref = b.ref
        PROVE  a = b
    <3>1. PICK s \in Live(record.turns) : a = [s EXCEPT !.left = s.left - 1] /\ a.ref = s.ref
      BY <2>1
    <3>2. PICK t \in Live(record.turns) : b = [t EXCEPT !.left = t.left - 1] /\ b.ref = t.ref
      BY <2>1
    <3>3. s = t
      BY <1>1, <2>2, <3>1, <3>2 DEF OneLiveTurnPerRef
    <3>4. QED
      BY <3>1, <3>2, <3>3
  <2>3. OneLiveTurnPerRef'
    BY <2>2 DEF OneLiveTurnPerRef
  <2>4. QED
    BY <1>5, <2>1, <2>3 DEF TimePasses
<1>6. QED
  BY <1>2, <1>3, <1>4, <1>5, RecordSteps

\* The views stay behind by no more than the turns taken since the last tick.
LEMMA ViewsNext ==
    ASSUME TurnInv, [TurnsNext]_turnVars
    PROVE  /\ view' \in [Processes -> [kept: {"none", "kept"}, turns: SUBSET Turn]]
           /\ ViewsLackTheRecent'
<1> DEFINE View == [kept: {"none", "kept"}, turns: SUBSET Turn]
<1>1. record \in Record /\ view \in [Processes -> View] /\ ViewsLackTheRecent
  BY DEF TurnInv, TurnTypeOK
<1>2. NoView \in View /\ NoView.kept = "none"
  BY DEF NoView
<1>3. [kept |-> "kept", turns |-> Live(record.turns)] \in View
  BY <1>1 DEF Live, Record
\* A poll leaves its process an answer.
<1>4. ASSUME NEW c \in Takers, NEW answer \in PollAnswers(c), Sees(c, answer),
             UNCHANGED <<record, recent>>
      PROVE  view' \in [Processes -> View] /\ ViewsLackTheRecent'
  <2> DEFINE p == ServedBy[c]
  <2>1. p \in Processes
    BY TurnAssumption
  <2>2. \/ answer = [kept |-> "kept", turns |-> Live(record.turns)]
        \/ answer = view[p]
    BY <1>4 DEF PollAnswers
  <2>3. answer \in View
    BY <1>1, <1>3, <2>1, <2>2
  <2>4. view' = [view EXCEPT ![p] = answer]
    BY <1>4 DEF Sees
  <2>5. view' \in [Processes -> View]
    BY <1>1, <2>3, <2>4
  <2>6. \A t \in Live(record.turns) : answer.kept = "kept" => t.token \in recent \/ t \in answer.turns
    BY <1>1, <2>1, <2>2 DEF ViewsLackTheRecent
  <2>7. \A q \in Processes : view'[q] = answer \/ view'[q] = view[q]
    BY <1>1, <2>4
  <2>8. ViewsLackTheRecent'
    BY <1>1, <1>4, <2>6, <2>7 DEF ViewsLackTheRecent
  <2>9. QED
    BY <2>5, <2>8
\* A view kept, or forgotten, while the record gains no turn but a recent one.
<1>5. ASSUME view' \in [Processes -> View],
             \A q \in Processes : view'[q] = view[q] \/ view'[q] = NoView,
             \A t \in Live(record'.turns) :
                 t.token \in recent' \/ (t \in Live(record.turns) /\ t.token \notin recent)
      PROVE  ViewsLackTheRecent'
  BY <1>1, <1>2, <1>5 DEF ViewsLackTheRecent
<1>6. ASSUME NEW c \in Takers, Forgets(c) \/ UNCHANGED view
      PROVE  view' \in [Processes -> View]
             /\ \A q \in Processes : view'[q] = view[q] \/ view'[q] = NoView
  <2>1. CASE UNCHANGED view
    BY <1>1, <2>1
  <2>2. CASE Forgets(c)
    BY <1>1, <1>2, <2>2, TurnAssumption DEF Forgets, Sees
  <2>3. QED
    BY <1>6, <2>1, <2>2
<1>7. ASSUME NEW c \in Takers, TakeWrites(c) \/ TakeAnswerLost(c)
      PROVE  view' \in [Processes -> View] /\ ViewsLackTheRecent'
  <2>1. Forgets(c) \/ UNCHANGED view
    BY <1>7 DEF TakeWrites, TakeAnswerLost
  <2>2. PICK own \in Turn : /\ own.token = TokenOf(c)
                            /\ record'.turns = Live(record.turns) \cup {own}
    BY <1>7, TakeAdds
  <2>3. recent' = recent \cup {TokenOf(c)}
    BY <1>7, TakeAdds
  <2>4. \A t \in Live(record'.turns) :
            t.token \in recent' \/ (t \in Live(record.turns) /\ t.token \notin recent)
    BY <2>2, <2>3 DEF Live
  <2>5. QED
    BY <1>5, <1>6, <2>1, <2>4
<1>8. ASSUME NEW c \in Takers, ReleaseWrites(c)
      PROVE  view' \in [Processes -> View] /\ ViewsLackTheRecent'
  <2>1. Forgets(c)
    BY <1>8 DEF ReleaseWrites
  <2>2. /\ recent' = recent \ {TokenOf(c)}
        /\ record'.turns = {t \in Live(record.turns) : t.token # TokenOf(c)}
    BY <1>8, ReleaseRemoves
  <2>3. \A t \in Live(record'.turns) :
            t.token \in recent' \/ (t \in Live(record.turns) /\ t.token \notin recent)
    BY <2>2 DEF Live
  <2>4. QED
    BY <1>5, <1>6, <2>1, <2>3
<1>9. ASSUME NEW c \in Takers, Stages(c) \/ Step(c) \/ CommitFails(c),
             ~ TakeWrites(c), ~ TakeAnswerLost(c), ~ ReleaseWrites(c)
      PROVE  view' \in [Processes -> View] /\ ViewsLackTheRecent'
  <2>1. UNCHANGED <<record, recent>>
    BY <1>9, RecordKept
  <2>2. CASE Polls(c) \/ IsRefusedASeat(c)
    <3>1. PICK answer \in PollAnswers(c) : Sees(c, answer)
      BY <2>2 DEF Polls, IsRefusedASeat
    <3>2. QED
      BY <1>4, <2>1, <3>1
  <2>3. CASE ~ (Polls(c) \/ IsRefusedASeat(c))
    <3>1. Forgets(c) \/ UNCHANGED view
      BY <1>9, <2>3 DEF Stages, Step, CommitFails, AsksToFinalize, AsksWhetherKept, FinalizeLands,
         Loses, Take, TakeReads, TakeLoses, Release, ReleaseReads, ReleaseLoses
    <3>2. \A t \in Live(record'.turns) :
              t.token \in recent' \/ (t \in Live(record.turns) /\ t.token \notin recent)
      BY <2>1
    <3>3. QED
      BY <1>5, <1>6, <3>1, <3>2
  <2>4. QED
    BY <2>2, <2>3
<1>10. ASSUME NEW p \in Processes, Restarts(p)
      PROVE  view' \in [Processes -> View] /\ ViewsLackTheRecent'
  <2>1. view' = [view EXCEPT ![p] = NoView] /\ UNCHANGED <<record, recent>>
    BY <1>10 DEF Restarts
  <2>2. /\ view' \in [Processes -> View]
        /\ \A q \in Processes : view'[q] = view[q] \/ view'[q] = NoView
    BY <1>1, <1>2, <2>1
  <2>3. QED
    BY <1>5, <2>1, <2>2
<1>11. CASE TimePasses
  <2>1. /\ view' \in [Processes -> View]
        /\ \A q \in Processes : view'[q] = NoView
    BY <1>2, <1>11 DEF TimePasses
  <2>2. QED
    BY <1>2, <2>1 DEF ViewsLackTheRecent
<1>12. CASE UNCHANGED <<view, record, recent>>
  BY <1>1, <1>12 DEF ViewsLackTheRecent
<1>13. QED
  BY <1>7, <1>8, <1>9, <1>10, <1>11, <1>12 DEF TurnsNext, AnotherLands, turnVars

-----------------------------------------------------------------------------
(* Who is left to end a turn                                               *)

\* With these locals the commit still answers for the turn it has now.
Keeps(c, l) ==
    /\ l.nonce = commit[c].nonce
    /\ l.has = "yes" \/ l.pc \in Releasing \/ (c \in Writers /\ l.txn = "again")

\* A commit that ends answers for the turn it holds, and a stock writer for
\* that of a transaction it will try again.
LEMMA EndsKeeps ==
    ASSUME NEW c \in Takers, commit[c] \in CommitLocals, NEW x \in {"new", "again"},
           Keeps(c, commit[c]), commit[c].pc \notin Releasing
    PROVE  commit[c].has = "yes" \/ x = "again" => Keeps(c, CommitEnds(commit[c], x))
<1>1. CASE commit[c].has = "yes"
  <2>1. CommitEnds(commit[c], x) = [Fresh EXCEPT !.pc = "releaseReads", !.nonce = commit[c].nonce,
                                           !.has = "yes", !.txn = x, !.rounds = 1]
    BY <1>1 DEF CommitEnds
  <2>2. /\ CommitEnds(commit[c], x).pc = "releaseReads" /\ CommitEnds(commit[c], x).has = "yes"
        /\ CommitEnds(commit[c], x).nonce = commit[c].nonce
    BY <2>1 DEF Fresh
  <2>3. QED
    BY <2>2 DEF Keeps
<1>2. CASE commit[c].has # "yes"
  <2>1. c \in Writers
    BY <1>2 DEF Keeps
  <2>2. CommitEnds(commit[c], x) = Rest(commit[c].nonce, x)
    BY <1>2 DEF CommitEnds
  <2>3. /\ Rest(commit[c].nonce, x).pc = "idle" /\ Rest(commit[c].nonce, x).txn = x
        /\ x = "again" => Rest(commit[c].nonce, x).nonce = commit[c].nonce
    BY DEF Rest, Fresh
  <2>4. QED
    BY <1>2, <2>1, <2>2, <2>3 DEF Keeps
<1>3. QED
  BY <1>1, <1>2

\* Where a commit goes from a take, or at its end.
LEMMA EndPhases ==
    ASSUME NEW c \in Takers, commit[c] \in CommitLocals
    PROVE  /\ \A x \in {"new", "again"} :
                 /\ CommitEnds(commit[c], x).pc \in {"releaseReads", "idle"}
                 /\ \A k : Rest(k, x).pc = "idle"
           /\ Replans(commit[c]).pc = "staged"
           /\ Busy(c).pc \in {"staged", "releaseReads", "idle"}
           /\ TurnTaken(c).pc \in {"staged", "idle"}
           /\ NextRound(c).pc \in {"staged", "releaseReads", "idle", "takeReads", "takeWaits"}
<1>1. \A x \in {"new", "again"} : \A k : Rest(k, x).pc = "idle"
  BY DEF Rest, Fresh
<1>2. \A x \in {"new", "again"} : CommitEnds(commit[c], x).pc \in {"releaseReads", "idle"}
  <2>1. ASSUME NEW x \in {"new", "again"}, commit[c].has = "yes"
        PROVE  CommitEnds(commit[c], x).pc = "releaseReads"
    <3>1. CommitEnds(commit[c], x) = [Fresh EXCEPT !.pc = "releaseReads", !.nonce = commit[c].nonce,
                                             !.has = "yes", !.txn = x, !.rounds = 1]
      BY <2>1 DEF CommitEnds
    <3>2. QED
      BY <3>1 DEF Fresh
  <2>2. QED
    BY <1>1, <2>1 DEF CommitEnds
<1>3. \A l : Replans(l).pc = "staged"
  BY DEF Replans, Fresh
<1>4. Busy(c).pc \in {"staged", "releaseReads", "idle"}
  BY <1>2, <1>3 DEF Busy
<1>5. TurnTaken(c).pc \in {"staged", "idle"}
  BY <1>1, <1>3 DEF TurnTaken
<1>6. NextRound(c).pc \in {"staged", "releaseReads", "idle", "takeReads", "takeWaits"}
  <2> DEFINE next == IF commit[c].left = 0 THEN "takeReads" ELSE "takeWaits"
             n    == commit[c].rounds + 1
  <2>1. CASE commit[c].rounds = ROUNDS
    BY <1>4, <2>1 DEF NextRound
  <2>2. CASE commit[c].rounds # ROUNDS
    <3>1. NextRound(c) = [commit[c] EXCEPT !.pc = next, !.rounds = n, !.hold = 0, !.seen = Absent]
      BY <2>2 DEF NextRound
    <3>2. NextRound(c).pc = next
      BY <3>1 DEF CommitLocals
    <3>3. QED
      BY <3>2
  <2>3. QED
    BY <2>1, <2>2
<1>7. QED
  BY <1>1, <1>2, <1>3, <1>4, <1>5, <1>6

\* A take, however it ends, leaves the commit answering for its turn.
LEMMA TakeKeeps ==
    ASSUME NEW c \in Takers, commit[c] \in CommitLocals, commit[c].pc \in Taking
    PROVE  /\ Keeps(c, TurnTaken(c))
           /\ Keeps(c, commit[c]) => Keeps(c, Busy(c)) /\ Keeps(c, NextRound(c))
<1>1. \A l \in CommitLocals : l.has = "yes" => Replans(l).nonce = l.nonce /\ Replans(l).has = "yes"
  BY DEF Replans, Fresh, CommitLocals
<1>2. Keeps(c, TurnTaken(c))
  <2>1. CASE c \in DoorCommits
    <3> DEFINE l == [commit[c] EXCEPT !.has = "yes"]
    <3>1. l \in CommitLocals /\ l.has = "yes" /\ l.nonce = commit[c].nonce
      BY DEF CommitLocals
    <3>2. TurnTaken(c) = Replans(l)
      BY <2>1 DEF TurnTaken
    <3>3. QED
      BY <1>1, <3>1, <3>2 DEF Keeps
  <2>2. CASE c \notin DoorCommits
    <3>1. c \in Writers /\ TurnTaken(c) = Rest(commit[c].nonce, "again")
      BY <2>2 DEF TurnTaken, Takers
    <3>2. /\ Rest(commit[c].nonce, "again").nonce = commit[c].nonce
          /\ Rest(commit[c].nonce, "again").txn = "again"
      BY DEF Rest, Fresh
    <3>3. QED
      BY <3>1, <3>2 DEF Keeps
  <2>3. QED
    BY <2>1, <2>2
<1>3. commit[c].pc \notin Releasing
  BY DEF Taking, Releasing
<1>4. ASSUME Keeps(c, commit[c])
      PROVE  Keeps(c, Busy(c))
  <2>1. CASE c \in DoorCommits
    <3>1. commit[c].has = "yes"
      BY <1>3, <1>4, <2>1, TurnAssumption DEF Keeps
    <3>2. QED
      BY <1>1, <2>1, <3>1 DEF Busy, Keeps
  <2>2. CASE c \notin DoorCommits
    BY <1>3, <1>4, <2>2, EndsKeeps DEF Busy
  <2>3. QED
    BY <2>1, <2>2
<1>5. ASSUME Keeps(c, commit[c])
      PROVE  Keeps(c, NextRound(c))
  <2> DEFINE next == IF commit[c].left = 0 THEN "takeReads" ELSE "takeWaits"
             n    == commit[c].rounds + 1
  <2>1. CASE commit[c].rounds = ROUNDS
    BY <1>4, <1>5, <2>1 DEF NextRound
  <2>2. CASE commit[c].rounds # ROUNDS
    <3>1. NextRound(c) = [commit[c] EXCEPT !.pc = next, !.rounds = n, !.hold = 0, !.seen = Absent]
      BY <2>2 DEF NextRound
    <3>2. /\ NextRound(c).nonce = commit[c].nonce /\ NextRound(c).has = commit[c].has
          /\ NextRound(c).txn = commit[c].txn
      BY <3>1 DEF CommitLocals
    <3>3. QED
      BY <1>3, <1>5, <3>2 DEF Keeps
  <2>3. QED
    BY <2>1, <2>2
<1>6. QED
  BY <1>2, <1>4, <1>5

\* One commit's step keeps every turn answered for if it keeps its own.
LEMMA EndedByOne ==
    ASSUME TurnInv, NEW c \in Takers, record' \in Record,
           \A d \in Takers \ {c} : commit'[d] = commit[d],
           \A t \in Live(record'.turns) : t \in Live(record.turns) \/ t.token = TokenOf(c),
           \A t \in Live(record'.turns) :
               t.token \in abandoned /\ t.token # TokenOf(c) => t.token \in abandoned',
           \A t \in Live(record'.turns) :
               t.token = TokenOf(c) => t.token \in abandoned' \/ Keeps(c, commit'[c])
    PROVE  EndedCommitsHoldNoTurn'
<1>1. SUFFICES ASSUME NEW t \in Live(record'.turns), t.token \notin abandoned'
               PROVE  /\ t.token[2] = commit'[t.token[1]].nonce
                      /\ \/ commit'[t.token[1]].has = "yes" \/ commit'[t.token[1]].pc \in Releasing
                         \/ t.token[1] \in Writers /\ commit'[t.token[1]].txn = "again"
  BY DEF EndedCommitsHoldNoTurn
<1>2. t.token \in Token /\ t.token[1] \in Takers
  BY DEF Live, Record, Turn, Token
<1>3. CASE t.token = TokenOf(c)
  <2>1. t.token[1] = c /\ t.token[2] = commit[c].nonce
    BY <1>3 DEF TokenOf
  <2>2. QED
    BY <1>1, <1>3, <2>1 DEF Keeps
<1>4. CASE t.token # TokenOf(c)
  <2>1. t \in Live(record.turns) /\ t.token \notin abandoned
    BY <1>1, <1>4
  <2>2. /\ t.token[2] = commit[t.token[1]].nonce
        /\ \/ commit[t.token[1]].has = "yes" \/ commit[t.token[1]].pc \in Releasing
           \/ t.token[1] \in Writers /\ commit[t.token[1]].txn = "again"
    BY <2>1 DEF TurnInv, EndedCommitsHoldNoTurn
  <2>3. t.token[1] # c
    <3>1. t.token = <<t.token[1], t.token[2]>>
      BY <1>2 DEF Token
    <3>2. QED
      BY <1>4, <2>2, <3>1 DEF TokenOf
  <2>4. QED
    BY <1>2, <2>2, <2>3
<1>5. QED
  BY <1>3, <1>4

\* The live turn of a commit is answered for, by its own account.
LEMMA OwnTurn ==
    ASSUME TurnInv, NEW c \in Takers, NEW t \in Live(record.turns), t.token = TokenOf(c)
    PROVE  t.token \in abandoned \/ Keeps(c, commit[c])
<1>1. t.token[1] = c /\ t.token[2] = commit[c].nonce
  BY DEF TokenOf
<1>2. QED
  BY <1>1 DEF TurnInv, EndedCommitsHoldNoTurn, Keeps

\* A step of one commit that leaves the record and the abandoned turns.
LEMMA EndedQuietly ==
    ASSUME TurnInv, NEW c \in Takers, NEW l, Fit(c, l), CommitGoes(c, l), UNCHANGED <<record, abandoned>>,
           \A t \in Live(record.turns) :
               t.token = TokenOf(c) /\ Keeps(c, commit[c]) => t.token \in abandoned \/ Keeps(c, l)
    PROVE  EndedCommitsHoldNoTurn'
<1>1. TurnTypeOK /\ CommitsFit /\ record \in Record
  BY DEF TurnInv, TurnTypeOK
<1>2. commit'[c] = l /\ \A d \in Takers \ {c} : commit'[d] = commit[d]
  BY <1>1, OneGoes
<1>3. \A t \in Live(record.turns) : t.token = TokenOf(c) => t.token \in abandoned \/ Keeps(c, l)
  BY OwnTurn
<1>4. QED
  BY <1>1, <1>2, <1>3, EndedByOne

\* What Abandons keeps of the live turns.
LEMMA AbandonsLive ==
    ASSUME NEW tokens, Abandons(tokens)
    PROVE  \A t \in Live(record'.turns) : t.token \in abandoned' <=> t.token \in tokens
  BY DEF Abandons, Live

\* A step of one commit that leaves the record and settles what is abandoned.
LEMMA EndedAbandoning ==
    ASSUME TurnInv, NEW c \in Takers, NEW l, Fit(c, l), CommitGoes(c, l), UNCHANGED record,
           NEW tokens, Abandons(tokens), abandoned \ {TokenOf(c)} \subseteq tokens,
           TokenOf(c) \in tokens \/ Keeps(c, l)
    PROVE  EndedCommitsHoldNoTurn'
<1>1. TurnTypeOK /\ CommitsFit /\ record \in Record
  BY DEF TurnInv, TurnTypeOK
<1>2. commit'[c] = l /\ \A d \in Takers \ {c} : commit'[d] = commit[d]
  BY <1>1, OneGoes
<1>3. \A t \in Live(record'.turns) : t.token \in abandoned' <=> t.token \in tokens
  BY AbandonsLive
<1>4. QED
  BY <1>1, <1>2, <1>3, EndedByOne

\* A turn keeps being answered for through every step that leaves the record
\* alone.
LEMMA EndedKept ==
    ASSUME TurnInv, NEW c \in Takers, Stages(c) \/ Step(c) \/ CommitFails(c),
           ~ TakeWrites(c), ~ TakeAnswerLost(c), ~ ReleaseWrites(c), ~ FinalizeLands(c)
    PROVE  EndedCommitsHoldNoTurn'
<1>0. /\ UNCHANGED record /\ commit[c] \in CommitLocals /\ TurnTypeOK /\ CommitsFit
      /\ commit \in [Takers -> CommitLocals] /\ Fit(c, commit[c])
  BY RecordKept DEF TurnInv, TurnTypeOK, CommitsFit
<1>1. CASE UNCHANGED <<commit, abandoned>>
  BY <1>0, <1>1 DEF TurnInv, EndedCommitsHoldNoTurn
<1>2. ASSUME NEW l, CommitGoes(c, l)
      PROVE  commit'[c] = l
  BY <1>0, <1>2 DEF CommitGoes
\* The locals it goes to fit.
<1>3. ASSUME NEW l, CommitGoes(c, l)
      PROVE  Fit(c, l)
  <2>1. commit'[c] = l
    BY <1>2, <1>3
  <2>2. CASE UNCHANGED commit
    BY <1>0, <2>1, <2>2
  <2>3. CASE ~ UNCHANGED commit
    <3>1. PICK m : Fit(c, m) /\ CommitGoes(c, m)
      BY <2>3, CommitStepsFit
    <3>2. commit'[c] = m
      BY <1>2, <3>1
    <3>3. QED
      BY <2>1, <3>1, <3>2
  <2>4. QED
    BY <2>2, <2>3
\* The nonce, the turn and the transaction stay.
<1>4. ASSUME NEW l, CommitGoes(c, l), UNCHANGED abandoned, commit[c].pc \notin Releasing \/ l.pc \in Releasing,
             l.nonce = commit[c].nonce, l.has = commit[c].has, l.txn = commit[c].txn
      PROVE  EndedCommitsHoldNoTurn'
  <2>1. Keeps(c, commit[c]) => Keeps(c, l)
    BY <1>4 DEF Keeps
  <2>2. QED
    BY <1>0, <1>3, <1>4, <2>1, EndedQuietly
\* A door without a turn, outside its release, answers for none.
<1>5. ASSUME NEW l, CommitGoes(c, l), UNCHANGED abandoned, c \in DoorCommits, commit[c].has = "no",
             commit[c].pc \notin Releasing
      PROVE  EndedCommitsHoldNoTurn'
  <2>1. ~ Keeps(c, commit[c])
    BY <1>5, TurnAssumption DEF Keeps
  <2>2. QED
    BY <1>0, <1>3, <1>5, <2>1, EndedQuietly
<1>6. ASSUME NEW l, CommitGoes(c, l), UNCHANGED abandoned, Keeps(c, commit[c]) => Keeps(c, l)
      PROVE  EndedCommitsHoldNoTurn'
  BY <1>0, <1>3, <1>6, EndedQuietly
<1>7. commit[c].has \in {"no", "yes"}
  BY <1>0 DEF CommitLocals
<1>8. CASE Stages(c)
  <2>1. CommitAt(c, "idle") /\ commit[c].has = "no" /\ commit[c].pc \notin Releasing
    BY <1>0, <1>8 DEF Stages, Fit, CommitAt, Releasing
  <2>2. CASE CommitGoes(c, [commit[c] EXCEPT !.pc = "staged"]) /\ UNCHANGED abandoned
    <3> DEFINE l == [commit[c] EXCEPT !.pc = "staged"]
    <3>1. l.nonce = commit[c].nonce /\ l.has = commit[c].has /\ l.txn = commit[c].txn
      BY <1>0 DEF CommitLocals
    <3> HIDE DEF l
    <3>2. QED
      BY <1>4, <2>1, <2>2, <3>1 DEF l
  <2>3. ASSUME NEW k, CommitGoes(c, [Fresh EXCEPT !.pc = "staged", !.nonce = k]),
               Abandons(abandoned \cup {TokenOf(c)})
        PROVE  EndedCommitsHoldNoTurn'
    <3> DEFINE l == [Fresh EXCEPT !.pc = "staged", !.nonce = k]
    <3>1. Fit(c, l)
      BY <1>3, <2>3
    <3> HIDE DEF l
    <3>2. QED
      BY <1>0, <2>3, <3>1, EndedAbandoning DEF l
  <2>4. CASE c \in DoorCommits /\ CommitGoes(c, [Fresh EXCEPT !.pc = "staged"]) /\ UNCHANGED abandoned
    BY <1>5, <2>1, <2>4
  <2>5. QED
    BY <1>8, <2>2, <2>3, <2>4 DEF Stages
<1>9. CASE AsksToFinalize(c)
  <2> DEFINE l == Deadline(commit[c], "waiting")
  <2>1. l.nonce = commit[c].nonce /\ l.has = commit[c].has /\ l.txn = commit[c].txn
    BY <1>0 DEF Deadline, CommitLocals
  <2>2. CommitGoes(c, l) /\ UNCHANGED abandoned /\ commit[c].pc \notin Releasing
    BY <1>9 DEF AsksToFinalize, CommitAt, Releasing
  <2> HIDE DEF l
  <2>3. QED
    BY <1>4, <2>1, <2>2
<1>10. CASE Polls(c)
  <2>1. UNCHANGED abandoned /\ commit[c].pc \notin Releasing
    BY <1>10 DEF Polls, Waiting, Releasing
  <2>2. ASSUME NEW next, NEW left,
               CommitGoes(c, [commit[c] EXCEPT !.pc = next, !.seated = "no", !.left = left])
        PROVE  EndedCommitsHoldNoTurn'
    <3> DEFINE l == [commit[c] EXCEPT !.pc = next, !.seated = "no", !.left = left]
    <3>1. l.nonce = commit[c].nonce /\ l.has = commit[c].has /\ l.txn = commit[c].txn
      BY <1>0 DEF CommitLocals
    <3> HIDE DEF l
    <3>2. QED
      BY <1>4, <2>1, <2>2, <3>1 DEF l
  <2>3. ASSUME CommitGoes(c, [commit[c] EXCEPT !.seated = "yes"])
        PROVE  EndedCommitsHoldNoTurn'
    <3> DEFINE l == [commit[c] EXCEPT !.seated = "yes"]
    <3>1. l.nonce = commit[c].nonce /\ l.has = commit[c].has /\ l.txn = commit[c].txn
      BY <1>0 DEF CommitLocals
    <3> HIDE DEF l
    <3>2. QED
      BY <1>4, <2>1, <2>3, <3>1 DEF l
  <2>4. \/ \E next, left : CommitGoes(c, [commit[c] EXCEPT !.pc = next, !.seated = "no", !.left = left])
        \/ CommitGoes(c, [commit[c] EXCEPT !.seated = "yes"])
        \/ UNCHANGED commit
    BY <1>10 DEF Polls
  <2>5. QED
    BY <1>1, <2>1, <2>2, <2>3, <2>4
<1>11. CASE IsRefusedASeat(c)
  <2>1. c \in DoorCommits /\ UNCHANGED abandoned /\ commit[c].pc \notin Releasing
    BY <1>11 DEF IsRefusedASeat, Waiting, Releasing
  <2>2. \/ CommitGoes(c, CommitEnds(commit[c], "new"))
        \/ commit[c].pc \in Taking /\ CommitGoes(c, Busy(c))
    BY <1>11 DEF IsRefusedASeat, Waiting, Taking, CommitAt
  <2>3. CASE commit[c].has = "no"
    BY <1>5, <2>1, <2>2, <2>3
  <2>4. CASE commit[c].has = "yes"
    <3>1. Keeps(c, commit[c]) => Keeps(c, CommitEnds(commit[c], "new"))
      BY <1>0, <2>1, <2>4, EndsKeeps
    <3>2. commit[c].pc \in Taking => (Keeps(c, commit[c]) => Keeps(c, Busy(c)))
      BY <1>0, TakeKeeps
    <3>3. QED
      BY <1>6, <2>1, <2>2, <3>1, <3>2
  <2>5. QED
    BY <1>7, <2>3, <2>4
<1>12. CASE AsksWhetherKept(c)
  <2> DEFINE kept == \E t \in Live(record.turns) : t.token = TokenOf(c)
             has  == IF kept THEN "yes" ELSE "no"
             l    == [commit[c] EXCEPT !.pc = "finalizing", !.has = has]
  <2>1. CommitGoes(c, l) /\ UNCHANGED abandoned
    BY <1>12 DEF AsksWhetherKept
  <2>2. kept => has = "yes"
    OBVIOUS
  <2> HIDE DEF has
  <2>3. l.nonce = commit[c].nonce /\ l.has = has
    BY <1>0 DEF CommitLocals
  <2> HIDE DEF l
  <2>4. \A t \in Live(record.turns) : t.token = TokenOf(c) => Keeps(c, l)
    BY <2>2, <2>3 DEF Keeps
  <2>5. QED
    BY <1>0, <1>3, <2>1, <2>4, EndedQuietly
<1>13. CASE Loses(c)
  <2>1. UNCHANGED abandoned /\ commit[c].pc \notin Releasing
    BY <1>13 DEF Loses, CommitAt, Releasing
  <2>2. CASE c \in Writers
    <3> DEFINE l == [commit[c] EXCEPT !.pc = "takeReads", !.txn = "again", !.plan = "latest",
                                      !.rounds = 1]
    <3>1. l.nonce = commit[c].nonce /\ l.txn = "again"
      BY <1>0 DEF CommitLocals
    <3>2. c \notin DoorCommits
      BY <2>2, TurnAssumption
    <3>3. CommitGoes(c, l)
      BY <1>13, <2>2, <3>2 DEF Loses
    <3> HIDE DEF l
    <3>4. Keeps(c, l)
      BY <2>2, <3>1 DEF Keeps
    <3>5. QED
      BY <1>6, <2>1, <3>3, <3>4
  <2>3. CASE c \notin Writers
    <3>1. c \in DoorCommits /\ \E l : CommitGoes(c, l)
      BY <1>13, <2>3 DEF Loses, Takers
    <3>2. CASE commit[c].has = "no"
      BY <1>5, <2>1, <3>1, <3>2
    <3>3. CASE commit[c].has = "yes"
      <4>1. CommitGoes(c, CommitEnds(commit[c], "new")) \/ CommitGoes(c, Replans(commit[c]))
        <5>1. commit[c].attempt = PLANS \/ commit[c].attempt < PLANS
          <6>1. commit[c].attempt \in 1 .. PLANS
            BY <1>0 DEF CommitLocals
          <6>2. QED
            BY <6>1, TurnAssumption
        <5>2. QED
          BY <1>13, <2>3, <3>1, <3>3, <5>1 DEF Loses
      <4>2. Keeps(c, commit[c]) => Keeps(c, CommitEnds(commit[c], "new"))
        BY <1>0, <2>1, <3>3, EndsKeeps
      <4>3. Replans(commit[c]).nonce = commit[c].nonce /\ Replans(commit[c]).has = "yes"
        BY <3>3 DEF Replans, Fresh
      <4>4. Keeps(c, Replans(commit[c]))
        BY <4>3 DEF Keeps
      <4>5. QED
        BY <1>6, <2>1, <4>1, <4>2, <4>4
    <3>4. QED
      BY <1>7, <3>2, <3>3
  <2>4. QED
    BY <2>2, <2>3
<1>14. CASE TakeReads(c)
  <2>1. commit[c].pc \in Taking /\ commit[c].pc \notin Releasing
    BY <1>14 DEF TakeReads, CommitAt, Taking, Releasing
  <2>2. /\ Keeps(c, TurnTaken(c))
        /\ Keeps(c, commit[c]) => Keeps(c, Busy(c)) /\ Keeps(c, NextRound(c))
    BY <1>0, <2>1, TakeKeeps
  <2>3. CASE CommitGoes(c, TurnTaken(c)) /\ Abandons(abandoned \ {TokenOf(c)})
    BY <1>0, <1>3, <2>2, <2>3, EndedAbandoning
  <2>4. ASSUME CommitGoes(c, [commit[c] EXCEPT !.pc = "takeWrites", !.hold = HOLD, !.seen = record]),
               UNCHANGED abandoned
        PROVE  EndedCommitsHoldNoTurn'
    <3> DEFINE l == [commit[c] EXCEPT !.pc = "takeWrites", !.hold = HOLD, !.seen = record]
    <3>1. l.nonce = commit[c].nonce /\ l.has = commit[c].has /\ l.txn = commit[c].txn
      BY <1>0 DEF CommitLocals
    <3> HIDE DEF l
    <3>2. QED
      BY <1>4, <2>1, <2>4, <3>1 DEF l
  <2>5. CASE (CommitGoes(c, Busy(c)) \/ CommitGoes(c, NextRound(c))) /\ UNCHANGED abandoned
    BY <1>6, <2>2, <2>5
  <2>6. QED
    BY <1>14, <2>3, <2>4, <2>5 DEF TakeReads
<1>15. CASE TakeLoses(c)
  <2>1. commit[c].pc \in Taking
    BY <1>15 DEF TakeLoses, CommitAt, Taking
  <2>2. QED
    BY <1>0, <1>6, <1>15, <2>1, TakeKeeps DEF TakeLoses
<1>16. CASE ReleaseReads(c)
  <2>1. CommitAt(c, "releaseReads") /\ UNCHANGED abandoned
    BY <1>16 DEF ReleaseReads
  <2>2. CASE \E t \in Live(record.turns) : t.token = TokenOf(c)
    <3> DEFINE l == [commit[c] EXCEPT !.pc = "releaseWrites", !.seen = record]
    <3>1. l.pc \in Releasing /\ l.nonce = commit[c].nonce
      BY <1>0 DEF CommitLocals, Releasing
    <3>2. CommitGoes(c, l)
      BY <1>16, <2>2 DEF ReleaseReads
    <3> HIDE DEF l
    <3>3. QED
      BY <1>6, <2>1, <3>1, <3>2 DEF Keeps
  <2>3. CASE ~ \E t \in Live(record.turns) : t.token = TokenOf(c)
    <3>1. CommitGoes(c, Rest(commit[c].nonce, commit[c].txn))
      BY <1>16, <2>3 DEF ReleaseReads
    <3>2. QED
      BY <1>0, <1>3, <2>1, <2>3, <3>1, EndedQuietly
  <2>4. QED
    BY <2>2, <2>3
<1>17. CASE ReleaseLoses(c)
  <2>1. CASE CommitGoes(c, Rest(commit[c].nonce, commit[c].txn)) /\ Abandons(abandoned \cup {TokenOf(c)})
    BY <1>0, <1>3, <2>1, EndedAbandoning
  <2>2. ASSUME UNCHANGED abandoned,
               CommitGoes(c, [commit[c] EXCEPT !.pc = "releaseReads", !.rounds = @ + 1, !.seen = Absent])
        PROVE  EndedCommitsHoldNoTurn'
    <3> DEFINE n == commit[c].rounds + 1
               l == [commit[c] EXCEPT !.pc = "releaseReads", !.rounds = n, !.seen = Absent]
    <3>1. CommitGoes(c, l)
      BY <2>2
    <3> HIDE DEF n
    <3>2. l.pc \in Releasing /\ l.nonce = commit[c].nonce
      BY <1>0 DEF CommitLocals, Releasing
    <3> HIDE DEF l
    <3>3. QED
      BY <1>6, <2>2, <3>1, <3>2 DEF Keeps
  <2>3. QED
    BY <1>17, <2>1, <2>2 DEF ReleaseLoses
<1>18. CASE CommitFails(c)
  <2> DEFINE x == IF c \in Writers THEN "again" ELSE "new"
             tokens == IF commit[c].pc \in Taking /\ c \in DoorCommits
                       THEN abandoned \cup {TokenOf(c)} ELSE abandoned
             l == CommitEnds(commit[c], x)
  <2>1. CommitGoes(c, l) /\ Abandons(tokens) /\ commit[c].pc \notin Releasing
    BY <1>18 DEF CommitFails, Taking, Releasing
  <2>2. abandoned \subseteq tokens
    OBVIOUS
  <2>3. x \in {"new", "again"} /\ (x # "again" => c \notin Writers)
    OBVIOUS
  <2> HIDE DEF tokens, x
  <2>4. Keeps(c, commit[c]) => Keeps(c, l)
    <3>1. Keeps(c, commit[c]) => commit[c].has = "yes" \/ x = "again"
      BY <2>1, <2>3 DEF Keeps
    <3>2. QED
      BY <1>0, <2>1, <2>3, <3>1, EndsKeeps
  <2> HIDE DEF l
  <2>5. \A t \in Live(record.turns) : t.token = TokenOf(c) => t.token \in tokens \/ Keeps(c, l)
    BY <2>2, <2>4, OwnTurn
  <2>6. CASE \E t \in Live(record.turns) : t.token = TokenOf(c)
    BY <1>0, <1>3, <2>1, <2>2, <2>5, <2>6, EndedAbandoning
  <2>7. CASE ~ \E t \in Live(record.turns) : t.token = TokenOf(c)
    <3>1. \A t \in Live(record'.turns) : t.token \in abandoned' <=> t.token \in tokens
      BY <2>1, AbandonsLive
    <3>2. \A d \in Takers \ {c} : commit'[d] = commit[d]
      BY <1>0, <1>3, <2>1, OneGoes
    <3>3. record' \in Record
      BY <1>0 DEF TurnTypeOK
    <3>4. QED
      BY <1>0, <2>2, <2>7, <3>1, <3>2, <3>3, EndedByOne
  <2>8. QED
    BY <2>6, <2>7
<1>19. QED
  BY <1>8, <1>9, <1>10, <1>11, <1>12, <1>13, <1>14, <1>15, <1>16, <1>17, <1>18
     DEF Step, Take, Release

\* A stock writer told its turn is not kept has none when it lands.
LEMMA EndedAtLanding ==
    ASSUME TurnInv, NEW c \in Takers, FinalizeLands(c)
    PROVE  EndedCommitsHoldNoTurn'
<1>0. /\ UNCHANGED <<record, abandoned>> /\ commit \in [Takers -> CommitLocals] /\ CommitsFit
      /\ record \in Record
  BY DEF FinalizeLands, TurnInv, TurnTypeOK
<1>1. SUFFICES ASSUME NEW t \in Live(record.turns), t.token \notin abandoned
               PROVE  /\ t.token[2] = commit'[t.token[1]].nonce
                      /\ \/ commit'[t.token[1]].has = "yes" \/ commit'[t.token[1]].pc \in Releasing
                         \/ t.token[1] \in Writers /\ commit'[t.token[1]].txn = "again"
  BY <1>0 DEF EndedCommitsHoldNoTurn
<1> DEFINE d == t.token[1]
<1>2. d \in Takers /\ t.token = <<d, t.token[2]>>
  BY <1>0 DEF Live, Record, Turn, Token
<1>3. /\ t.token[2] = commit[d].nonce
      /\ commit[d].has = "yes" \/ commit[d].pc \in Releasing
         \/ (d \in Writers /\ commit[d].txn = "again")
  BY <1>1 DEF TurnInv, EndedCommitsHoldNoTurn
<1>4. CASE d = c
  <2>1. CommitAt(c, "finalizing") /\ commit[c].pc \notin Releasing /\ commit'[c] = CommitEnds(commit[c], "new")
    BY DEF FinalizeLands, CommitAt, Releasing
  <2>2. commit[c].has \in {"no", "yes"}
    BY <1>0 DEF CommitLocals
  <2>3. t.token = TokenOf(c)
    BY <1>2, <1>3, <1>4 DEF TokenOf
  <2>4. commit[c].has = "yes"
    BY <1>3, <1>4, <2>1, <2>2, <2>3 DEF TurnInv, NotKeptIsGone
  <2>5. Keeps(c, CommitEnds(commit[c], "new"))
    BY <1>0, <2>1, <2>4, EndsKeeps DEF Keeps
  <2>6. QED
    BY <1>3, <1>4, <2>1, <2>5 DEF Keeps
<1>5. CASE d # c
  <2>1. commit'[d] = Outdated(RefOf[c], d)
    BY <1>2, <1>5 DEF FinalizeLands
  <2>2. /\ commit'[d].nonce = commit[d].nonce /\ commit'[d].has = commit[d].has
        /\ commit'[d].pc = commit[d].pc /\ commit'[d].txn = commit[d].txn
    BY <1>0, <1>2, <2>1, OutdatedFits DEF CommitsFit
  <2>3. QED
    BY <1>3, <2>2
<1>6. QED
  BY <1>4, <1>5

\* Every live turn stays answered for, or abandoned.
LEMMA EndedNext ==
    ASSUME TurnInv, [TurnsNext]_turnVars
    PROVE  abandoned' \in SUBSET Token /\ EndedCommitsHoldNoTurn'
<1>0. /\ TurnTypeOK /\ CommitsFit /\ commit \in [Takers -> CommitLocals] /\ record \in Record
      /\ abandoned \in SUBSET Token /\ EndedCommitsHoldNoTurn
  BY DEF TurnInv, TurnTypeOK
<1>1. ASSUME NEW c \in Takers, TakeWrites(c) \/ TakeAnswerLost(c)
      PROVE  EndedCommitsHoldNoTurn'
  <2>1. /\ commit[c] \in CommitLocals /\ Fit(c, commit[c]) /\ commit[c].pc \in Taking \ Waiting
    BY <1>0, <1>1 DEF CommitsFit, TakeWrites, TakeAnswerLost, CommitAt, Taking, Waiting
  <2>2. PICK own \in Turn : /\ own.token = TokenOf(c)
                            /\ record'.turns = Live(record.turns) \cup {own}
    BY <1>1, TakeAdds
  <2>3. record' \in Record /\ \A t \in Live(record'.turns) :
            t \in Live(record.turns) \/ t.token = TokenOf(c)
    BY <1>1, <2>2, TakeAdds DEF Live
  <2>4. CASE TakeWrites(c)
    <3>1. CommitGoes(c, TurnTaken(c)) /\ Abandons(abandoned \ {TokenOf(c)})
      BY <2>4 DEF TakeWrites
    <3>2. Fit(c, TurnTaken(c)) /\ Keeps(c, TurnTaken(c))
      BY <2>1, TakeEndsFit, TakeKeeps
    <3>3. commit'[c] = TurnTaken(c) /\ \A d \in Takers \ {c} : commit'[d] = commit[d]
      BY <1>0, <3>1, <3>2, OneGoes
    <3>4. \A t \in Live(record'.turns) : t.token \in abandoned' <=> t.token \in abandoned \ {TokenOf(c)}
      BY <3>1, AbandonsLive
    <3>5. QED
      BY <2>3, <3>2, <3>3, <3>4, EndedByOne
  <2>5. CASE TakeAnswerLost(c)
    <3>1. CommitGoes(c, NextRound(c)) /\ Abandons(abandoned \cup {TokenOf(c)})
      BY <2>5 DEF TakeAnswerLost
    <3>2. Fit(c, NextRound(c))
      BY <2>1, NextRoundFits
    <3>3. \A d \in Takers \ {c} : commit'[d] = commit[d]
      BY <1>0, <3>1, <3>2, OneGoes
    <3>4. \A t \in Live(record'.turns) : t.token \in abandoned' <=> t.token \in abandoned \cup {TokenOf(c)}
      BY <3>1, AbandonsLive
    <3>5. QED
      BY <2>3, <3>3, <3>4, EndedByOne
  <2>6. QED
    BY <1>1, <2>4, <2>5
<1>2. ASSUME NEW c \in Takers, ReleaseWrites(c)
      PROVE  EndedCommitsHoldNoTurn'
  <2>1. /\ record' \in Record
        /\ record'.turns = {t \in Live(record.turns) : t.token # TokenOf(c)}
    BY <1>2, ReleaseRemoves
  <2>2. CommitGoes(c, Rest(commit[c].nonce, commit[c].txn)) /\ Abandons(abandoned)
    BY <1>2 DEF ReleaseWrites
  <2>3. commit[c].nonce \in Nonces /\ commit[c].txn \in {"new", "again"}
    BY <1>0 DEF CommitLocals
  <2>4. Fit(c, Rest(commit[c].nonce, commit[c].txn))
    BY <2>3, RestFits
  <2>5. \A d \in Takers \ {c} : commit'[d] = commit[d]
    BY <1>0, <2>2, <2>4, OneGoes
  <2>6. \A t \in Live(record'.turns) : t.token \in abandoned' <=> t.token \in abandoned
    BY <2>2, AbandonsLive
  <2>7. \A t \in Live(record'.turns) : t \in Live(record.turns) /\ t.token # TokenOf(c)
    BY <2>1 DEF Live
  <2>8. QED
    BY <2>1, <2>5, <2>6, <2>7, EndedByOne
<1>3. ASSUME NEW ref \in Refs, AnotherLands(ref)
      PROVE  EndedCommitsHoldNoTurn'
  <2>1. UNCHANGED <<record, abandoned>> /\ \A d \in Takers : commit'[d] = Outdated(ref, d)
    BY <1>3 DEF AnotherLands
  <2>2. \A d \in Takers :
            /\ commit'[d].nonce = commit[d].nonce /\ commit'[d].has = commit[d].has
            /\ commit'[d].pc = commit[d].pc /\ commit'[d].txn = commit[d].txn
    BY <1>0, <2>1, OutdatedFits DEF CommitsFit
  <2>3. \A t \in Live(record.turns) : t.token[1] \in Takers
    BY <1>0 DEF Live, Record, Turn, Token
  <2>4. QED
    BY <1>0, <2>1, <2>2, <2>3 DEF EndedCommitsHoldNoTurn
<1>4. ASSUME NEW p \in Processes, Restarts(p)
      PROVE  EndedCommitsHoldNoTurn'
  <2> DEFINE gone == {c \in Takers : ServedBy[c] = p /\ ~ CommitAt(c, "idle")}
             tokens == abandoned \cup {TokenOf(c) : c \in gone \cap DoorCommits}
  <2>1. UNCHANGED record /\ Abandons(tokens)
    BY <1>4 DEF Restarts
  <2>2. \A c \in Takers : commit'[c] =
            IF c \in gone THEN IF c \in Writers THEN Rest(commit[c].nonce, "again") ELSE Fresh
            ELSE commit[c]
    BY <1>4 DEF Restarts
  <2>3. \A t \in Live(record'.turns) : t.token \in abandoned' <=> t.token \in tokens
    BY <2>1, AbandonsLive
  <2>4. SUFFICES ASSUME NEW t \in Live(record.turns), t.token \notin tokens
                 PROVE  /\ t.token[2] = commit'[t.token[1]].nonce
                        /\ \/ commit'[t.token[1]].has = "yes" \/ commit'[t.token[1]].pc \in Releasing
                           \/ t.token[1] \in Writers /\ commit'[t.token[1]].txn = "again"
    BY <2>1, <2>3 DEF EndedCommitsHoldNoTurn
  <2> DEFINE d == t.token[1]
  <2>5. d \in Takers /\ t.token = <<d, t.token[2]>>
    BY <1>0 DEF Live, Record, Turn, Token
  <2>6. /\ t.token[2] = commit[d].nonce
        /\ commit[d].has = "yes" \/ commit[d].pc \in Releasing
           \/ (d \in Writers /\ commit[d].txn = "again")
    BY <1>0, <2>4 DEF EndedCommitsHoldNoTurn
  <2>7. CASE d \notin gone
    BY <2>2, <2>5, <2>6, <2>7
  <2>8. CASE d \in gone
    <3>1. t.token = TokenOf(d)
      BY <2>5, <2>6 DEF TokenOf
    <3>2. d \notin DoorCommits
      BY <2>4, <2>8, <3>1
    <3>3. d \in Writers /\ commit'[d] = Rest(commit[d].nonce, "again")
      BY <2>2, <2>5, <2>8, <3>2 DEF Takers
    <3>4. Rest(commit[d].nonce, "again").nonce = commit[d].nonce
          /\ Rest(commit[d].nonce, "again").txn = "again"
      BY DEF Rest, Fresh
    <3>5. QED
      BY <2>6, <3>3, <3>4
  <2>9. QED
    BY <2>7, <2>8
<1>5. CASE TimePasses
  <2>1. \A s \in Live(record'.turns) : \E t \in Live(record.turns) : s.token = t.token
    BY <1>5, TickAges
  <2>2. \A d \in Takers :
            /\ commit'[d].nonce = commit[d].nonce /\ commit'[d].has = commit[d].has
            /\ commit'[d].pc = commit[d].pc /\ commit'[d].txn = commit[d].txn
    BY <1>0, <1>5, TickFits DEF TimePasses, CommitsFit
  <2>3. \A t \in Live(record.turns) : t.token[1] \in Takers
    BY <1>0 DEF Live, Record, Turn, Token
  <2>4. UNCHANGED abandoned
    BY <1>5 DEF TimePasses
  <2>5. QED
    BY <1>0, <2>1, <2>2, <2>3, <2>4 DEF EndedCommitsHoldNoTurn
<1>6. CASE UNCHANGED turnVars
  BY <1>0, <1>6 DEF turnVars, EndedCommitsHoldNoTurn
<1>7. EndedCommitsHoldNoTurn'
  BY <1>1, <1>2, <1>3, <1>4, <1>5, <1>6, EndedKept, EndedAtLanding DEF TurnsNext
<1>8. abandoned' \in SUBSET Token
  <2>1. record' \in Record
    BY OneLiveNext
  <2>2. UNCHANGED abandoned \/ \E tokens : Abandons(tokens)
    <3>1. ASSUME NEW c \in Takers, Stages(c) \/ Step(c) \/ CommitFails(c)
          PROVE  UNCHANGED abandoned \/ \E tokens : Abandons(tokens)
      BY <3>1 DEF Stages, Step, CommitFails, AsksToFinalize, Polls, IsRefusedASeat, AsksWhetherKept,
         FinalizeLands, Loses, Take, TakeReads, TakeWrites, TakeAnswerLost, TakeLoses,
         Release, ReleaseReads, ReleaseWrites, ReleaseLoses
    <3>2. QED
      BY <3>1 DEF TurnsNext, AnotherLands, Restarts, TimePasses, turnVars
  <2>3. \A t \in record'.turns : t.token \in Token
    BY <2>1 DEF Record, Turn
  <2>4. QED
    BY <1>0, <2>2, <2>3 DEF Abandons
<1>9. QED
  BY <1>7, <1>8

\* A stock writer told its turn is not kept still has none.
LEMMA NotKeptNext ==
    ASSUME TurnInv, [TurnsNext]_turnVars
    PROVE  NotKeptIsGone'
<1>0. /\ TurnTypeOK /\ CommitsFit /\ commit \in [Takers -> CommitLocals] /\ NotKeptIsGone
  BY DEF TurnInv, TurnTypeOK
\* The writer goes on as it was, and the record gains no turn of its.
<1>1. ASSUME NEW w \in Writers,
             commit'[w].pc = commit[w].pc, commit'[w].has = commit[w].has,
             commit'[w].nonce = commit[w].nonce,
             \A s \in Live(record'.turns) :
                 s.token[1] # w \/ \E t \in Live(record.turns) : s.token = t.token,
             commit'[w].pc = "finalizing", commit'[w].has = "no"
      PROVE  \A s \in Live(record'.turns) : s.token # <<w, commit'[w].nonce>>
  <2>1. \A t \in Live(record.turns) : t.token # <<w, commit[w].nonce>>
    BY <1>0, <1>1 DEF NotKeptIsGone, CommitAt, TokenOf
  <2>2. QED
    BY <1>1, <2>1
<1>2. ASSUME NEW c \in Takers, Stages(c) \/ Step(c) \/ CommitFails(c), ~ FinalizeLands(c)
      PROVE  NotKeptIsGone'
  <2>1. \A d \in Takers \ {c} : commit'[d] = commit[d]
    <3>1. CASE UNCHANGED commit
      BY <3>1
    <3>2. CASE ~ UNCHANGED commit
      <4>1. PICK l : Fit(c, l) /\ CommitGoes(c, l)
        BY <1>2, <3>2, CommitStepsFit
      <4>2. QED
        BY <1>0, <4>1, OneGoes
    <3>3. QED
      BY <3>1, <3>2
  <2>2. \A s \in Live(record'.turns) :
            s.token = TokenOf(c) \/ \E t \in Live(record.turns) : s.token = t.token
    <3>1. CASE TakeWrites(c) \/ TakeAnswerLost(c)
      <4>1. PICK own \in Turn : /\ own.token = TokenOf(c)
                                /\ record'.turns = Live(record.turns) \cup {own}
        BY <3>1, TakeAdds
      <4>2. QED
        BY <4>1 DEF Live
    <3>2. CASE ReleaseWrites(c)
      <4>1. record'.turns = {t \in Live(record.turns) : t.token # TokenOf(c)}
        BY <3>2, ReleaseRemoves
      <4>2. QED
        BY <4>1 DEF Live
    <3>3. CASE UNCHANGED record
      BY <3>3
    <3>4. QED
      BY <1>2, <3>1, <3>2, <3>3, RecordKept
  <2>3. ASSUME NEW w \in Writers \ {c}, commit'[w].pc = "finalizing", commit'[w].has = "no"
        PROVE  \A s \in Live(record'.turns) : s.token # <<w, commit'[w].nonce>>
    <3>1. commit'[w] = commit[w]
      BY <2>1, <2>3 DEF Takers
    <3>2. \A s \in Live(record'.turns) :
              s.token[1] # w \/ \E t \in Live(record.turns) : s.token = t.token
      BY <2>2, <2>3 DEF TokenOf
    <3>3. QED
      BY <1>1, <2>3, <3>1, <3>2
  <2>4. ASSUME c \in Writers, commit'[c].pc = "finalizing", commit'[c].has = "no"
        PROVE  \A s \in Live(record'.turns) : s.token # <<c, commit'[c].nonce>>
    <3>1. AsksWhetherKept(c)
      <4>0. commit[c] \in CommitLocals /\ c \notin DoorCommits
        BY <1>0, <2>4, TurnAssumption
      <4>1. \A l : CommitGoes(c, l) => commit'[c] = l
        BY <1>0 DEF CommitGoes
      <4>2. ~ Stages(c)
        <5>1. /\ [commit[c] EXCEPT !.pc = "staged"].pc = "staged"
              /\ \A k : [Fresh EXCEPT !.pc = "staged", !.nonce = k].pc = "staged"
          BY <4>0 DEF CommitLocals, Fresh
        <5>2. QED
          BY <2>4, <4>0, <4>1, <5>1 DEF Stages
      <4>3. ~ AsksToFinalize(c)
        <5>1. Deadline(commit[c], "waiting").pc = "waiting"
          BY <4>0 DEF Deadline, CommitLocals
        <5>2. QED
          BY <2>4, <4>1, <5>1 DEF AsksToFinalize
      <4>4. ~ Polls(c)
        <5>1. SUFFICES ASSUME Polls(c) PROVE FALSE
          OBVIOUS
        <5>2. commit[c].pc \in Waiting /\ commit[c].pc # "finalizing"
          BY <5>1 DEF Polls, Waiting
        <5>3. ~ UNCHANGED commit
          BY <2>4, <5>2
        <5> DEFINE next == CASE CommitAt(c, "takeWaits") -> "takeReads"
                             [] CommitAt(c, "waiting") /\ c \in DoorCommits -> "finalizing"
                             [] OTHER -> "keeps"
                   left == IF next = "takeReads" THEN commit[c].left ELSE 0
        <5>4. CommitGoes(c, [commit[c] EXCEPT !.pc = next, !.seated = "no", !.left = left])
          BY <4>0, <5>1, <5>3 DEF Polls
        <5>5. next # "finalizing"
          BY <4>0 DEF CommitAt
        <5> HIDE DEF next, left
        <5>6. [commit[c] EXCEPT !.pc = next, !.seated = "no", !.left = left].pc = next
          BY <4>0 DEF CommitLocals
        <5>7. QED
          BY <2>4, <4>1, <5>4, <5>5, <5>6
      <4>5. ~ IsRefusedASeat(c)
        BY <4>0 DEF IsRefusedASeat
      <4>6. ~ Loses(c)
        <5>1. SUFFICES ASSUME Loses(c) PROVE FALSE
          OBVIOUS
        <5>2. CommitGoes(c, [commit[c] EXCEPT !.pc = "takeReads", !.txn = "again", !.plan = "latest",
                                        !.rounds = 1])
          BY <2>4, <4>0, <5>1 DEF Loses
        <5>3. commit'[c].pc = "takeReads"
          BY <4>0, <4>1, <5>2 DEF CommitLocals
        <5>4. QED
          BY <2>4, <5>3
      <4>7. ~ Take(c)
        <5>1. SUFFICES ASSUME Take(c) PROVE FALSE
          OBVIOUS
        <5>2. \/ CommitGoes(c, TurnTaken(c)) \/ CommitGoes(c, Busy(c)) \/ CommitGoes(c, NextRound(c))
              \/ CommitGoes(c, [commit[c] EXCEPT !.pc = "takeWrites", !.hold = HOLD, !.seen = record])
          BY <5>1 DEF Take, TakeReads, TakeWrites, TakeAnswerLost, TakeLoses
        <5>3. [commit[c] EXCEPT !.pc = "takeWrites", !.hold = HOLD, !.seen = record].pc = "takeWrites"
          BY <4>0 DEF CommitLocals
        <5>4. QED
          BY <2>4, <4>0, <4>1, <5>2, <5>3, EndPhases
      <4>8. ~ Release(c)
        <5>1. SUFFICES ASSUME Release(c) PROVE FALSE
          OBVIOUS
        <5>2. \/ CommitGoes(c, Rest(commit[c].nonce, commit[c].txn))
              \/ CommitGoes(c, [commit[c] EXCEPT !.pc = "releaseWrites", !.seen = record])
              \/ CommitGoes(c, [commit[c] EXCEPT !.pc = "releaseReads", !.rounds = @ + 1, !.seen = Absent])
          BY <5>1 DEF Release, ReleaseReads, ReleaseWrites, ReleaseLoses
        <5>3. /\ [commit[c] EXCEPT !.pc = "releaseWrites", !.seen = record].pc = "releaseWrites"
              /\ [commit[c] EXCEPT !.pc = "releaseReads", !.rounds = @ + 1, !.seen = Absent].pc = "releaseReads"
              /\ commit[c].txn \in {"new", "again"}
          BY <4>0 DEF CommitLocals
        <5>4. QED
          BY <2>4, <4>0, <4>1, <5>2, <5>3, EndPhases
      <4>9. ~ CommitFails(c)
        <5>1. SUFFICES ASSUME CommitFails(c) PROVE FALSE
          OBVIOUS
        <5>2. PICK x \in {"new", "again"} : CommitGoes(c, CommitEnds(commit[c], x))
          BY <5>1 DEF CommitFails
        <5>3. QED
          BY <2>4, <4>0, <4>1, <5>2, EndPhases
      <4>10. QED
        BY <1>2, <4>2, <4>3, <4>4, <4>5, <4>6, <4>7, <4>8, <4>9 DEF Step
    <3> DEFINE kept == \E t \in Live(record.turns) : t.token = TokenOf(c)
               has  == IF kept THEN "yes" ELSE "no"
               l    == [commit[c] EXCEPT !.pc = "finalizing", !.has = has]
    <3>2. CommitGoes(c, l) /\ UNCHANGED record
      BY <3>1 DEF AsksWhetherKept
    <3>3. kept => has = "yes"
      OBVIOUS
    <3> HIDE DEF has
    <3>4. l.nonce = commit[c].nonce /\ l.has = has
      BY <1>0 DEF CommitLocals
    <3> HIDE DEF l
    <3>5. commit'[c] = l
      BY <1>0, <3>2 DEF CommitGoes
    <3>6. ~ kept
      BY <2>4, <3>3, <3>4, <3>5
    <3>7. QED
      BY <3>2, <3>4, <3>5, <3>6 DEF TokenOf
  <2>5. \A w \in Writers : commit'[w].pc = "finalizing" /\ commit'[w].has = "no" =>
            \A s \in Live(record'.turns) : s.token # <<w, commit'[w].nonce>>
    BY <2>3, <2>4
  <2>6. QED
    BY <2>5 DEF NotKeptIsGone, CommitAt, TokenOf
\* The steps that leave every commit's phase, turn and nonce, but for ends.
<1>3. ASSUME \A s \in Live(record'.turns) : \E t \in Live(record.turns) : s.token = t.token,
             \A w \in Writers : \/ commit'[w].pc # "finalizing"
                                \/ /\ commit'[w].pc = commit[w].pc /\ commit'[w].has = commit[w].has
                                   /\ commit'[w].nonce = commit[w].nonce
      PROVE  NotKeptIsGone'
  <2>1. \A w \in Writers : commit'[w].pc = "finalizing" /\ commit'[w].has = "no" =>
            \A s \in Live(record'.turns) : s.token # <<w, commit'[w].nonce>>
    BY <1>1, <1>3
  <2>2. QED
    BY <2>1 DEF NotKeptIsGone, CommitAt, TokenOf
<1>4. ASSUME NEW c \in Takers, FinalizeLands(c)
      PROVE  NotKeptIsGone'
  <2>1. CommitEnds(commit[c], "new").pc # "finalizing"
    BY <1>0, EndPhases
  <2>2. \A d \in Takers : commit'[d] = IF d = c THEN CommitEnds(commit[c], "new") ELSE Outdated(RefOf[c], d)
    BY <1>4 DEF FinalizeLands
  <2>3. \A d \in Takers : /\ Outdated(RefOf[c], d).pc = commit[d].pc
                           /\ Outdated(RefOf[c], d).has = commit[d].has
                           /\ Outdated(RefOf[c], d).nonce = commit[d].nonce
    BY <1>0, OutdatedFits DEF CommitsFit
  <2>4. UNCHANGED record
    BY <1>4 DEF FinalizeLands
  <2>5. QED
    BY <1>3, <2>1, <2>2, <2>3, <2>4 DEF Takers
<1>5. ASSUME NEW ref \in Refs, AnotherLands(ref)
      PROVE  NotKeptIsGone'
  <2>1. \A d \in Takers : /\ Outdated(ref, d).pc = commit[d].pc
                           /\ Outdated(ref, d).has = commit[d].has
                           /\ Outdated(ref, d).nonce = commit[d].nonce
    BY <1>0, OutdatedFits DEF CommitsFit
  <2>2. UNCHANGED record /\ \A d \in Takers : commit'[d] = Outdated(ref, d)
    BY <1>5 DEF AnotherLands
  <2>3. QED
    BY <1>3, <2>1, <2>2 DEF Takers
<1>6. ASSUME NEW p \in Processes, Restarts(p)
      PROVE  NotKeptIsGone'
  <2>1. UNCHANGED record /\ \A c \in Takers :
            \/ commit'[c] = Rest(commit[c].nonce, "again") \/ commit'[c] = Fresh
            \/ commit'[c] = commit[c]
    BY <1>6 DEF Restarts
  <2>2. Fresh.pc = "idle" /\ \A k : Rest(k, "again").pc = "idle"
    BY DEF Rest, Fresh
  <2>3. QED
    BY <1>3, <2>1, <2>2 DEF Takers
<1>7. CASE TimePasses
  <2>1. \A s \in Live(record'.turns) : \E t \in Live(record.turns) : s.token = t.token
    BY <1>7, TickAges
  <2>2. \A d \in Takers :
            /\ commit'[d].nonce = commit[d].nonce /\ commit'[d].has = commit[d].has
            /\ commit'[d].pc = commit[d].pc
    BY <1>0, <1>7, TickFits DEF TimePasses, CommitsFit
  <2>3. QED
    BY <1>3, <2>1, <2>2 DEF Takers
<1>8. CASE UNCHANGED turnVars
  BY <1>0, <1>8 DEF turnVars, NotKeptIsGone, CommitAt, TokenOf
<1>9. QED
  BY <1>2, <1>4, <1>5, <1>6, <1>7, <1>8 DEF TurnsNext

-----------------------------------------------------------------------------
(* The theorems                                                            *)

\* The initial state keeps the invariant.
LEMMA TurnInit == TurnsInit => TurnInv
<1> SUFFICES ASSUME TurnsInit PROVE TurnInv
  OBVIOUS
<1>1. Absent \in Record /\ Live(record.turns) = {}
  BY DEF TurnsInit, Absent, Record, Live
<1>2. CommitsFit /\ commit \in [Takers -> CommitLocals]
  BY FreshFits DEF TurnsInit, CommitsFit
<1>3. TurnTypeOK
  BY <1>1, <1>2, TurnAssumption DEF TurnsInit, TurnTypeOK, NoView
<1>4. SeatsAreCounted
  <2>1. \A p \in Processes : Seated(p) = {} /\ seats[p] = 0
    BY DEF TurnsInit, Seated, Fresh
  <2>2. QED
    BY <2>1, FS_EmptySet DEF SeatsAreCounted
<1>5. OneLiveTurnPerRef /\ EndedCommitsHoldNoTurn /\ NotKeptIsGone /\ ViewsLackTheRecent
  BY <1>1 DEF OneLiveTurnPerRef, EndedCommitsHoldNoTurn, NotKeptIsGone, ViewsLackTheRecent
<1>6. QED
  BY <1>2, <1>3, <1>4, <1>5 DEF TurnInv

\* Every step keeps it.
LEMMA TurnStep == TurnInv /\ [TurnsNext]_turnVars => TurnInv'
<1> SUFFICES ASSUME TurnInv, [TurnsNext]_turnVars PROVE TurnInv'
  OBVIOUS
<1>1. TurnTypeOK'
  BY FitNext, SeatsNext, OneLiveNext, ViewsNext, EndedNext DEF TurnTypeOK
<1>2. QED
  BY <1>1, FitNext, SeatsNext, OneLiveNext, ViewsNext, EndedNext, NotKeptNext DEF TurnInv

\* The invariant holds for any commits, processes, refs and bounds.
LEMMA TurnsKeepTheInvariant == TurnsSpec => []TurnInv
<1>1. TurnsInit => TurnInv
  BY TurnInit
<1>2. TurnInv /\ [TurnsNext]_turnVars => TurnInv'
  BY TurnStep
<1>3. QED
  BY <1>1, <1>2, PTL DEF TurnsSpec

\* TableTurns: "at most one live per ref", and a turn outlives its commit only
\* where nobody is left to release it, for any number of doors, stock writers,
\* replicas and refs, any HOLD and any bounds on rounds, attempts and seats.
THEOREM OneTurnAtATime == TurnsSpec => []TurnsEndWithCommits
<1>1. TurnInv => TurnsEndWithCommits
  BY DEF TurnInv, TurnsEndWithCommits
<1>2. QED
  BY <1>1, TurnsKeepTheInvariant, PTL

\* wait's poll: a commit passes a live turn it minds only at its deadline, or
\* on a view read in the tick before the turn was written.
THEOREM HoldersMeetNoLateWaiters == TurnsSpec => TurnHoldsOthersBack
<1> DEFINE Passes(c) == /\ commit[c].pc \in Waiting /\ commit[c].left > 0
                        /\ commit'[c].pc \in {"finalizing", "keeps", "takeReads"}
           HoldsBack == \A c \in Takers :
                            Passes(c) => \A t \in Live(record.turns) : Minds(c, t) => t.token \in recent
<1>1. TurnInv /\ [TurnsNext]_turnVars => HoldsBack
  <2>1. SUFFICES ASSUME TurnInv, [TurnsNext]_turnVars, NEW c \in Takers, Passes(c)
                 PROVE  \A t \in Live(record.turns) : Minds(c, t) => t.token \in recent
    OBVIOUS
  <2>2. /\ TurnTypeOK /\ CommitsFit /\ commit \in [Takers -> CommitLocals] /\ ViewsLackTheRecent
        /\ commit[c] \in CommitLocals
    BY <2>1 DEF TurnInv, TurnTypeOK
  <2>3. commit'[c].pc # commit[c].pc
    BY <2>1 DEF Waiting
  <2>4. ASSUME Polls(c)
        PROVE  \A t \in Live(record.turns) : Minds(c, t) => t.token \in recent
    <3>1. ~ Outlasted(c)
      <4>1. commit[c].left \in TurnTime
        BY <2>2 DEF CommitLocals
      <4>2. QED
        BY <2>1, <4>1, TurnAssumption DEF Outlasted, TurnTime
    <3>2. PICK answer \in PollAnswers(c) :
              \/ ~ \E t \in answer.turns : Minds(c, t)
              \/ UNCHANGED commit
              \/ CommitGoes(c, [commit[c] EXCEPT !.seated = "yes"])
      BY <2>4, <3>1 DEF Polls
    <3>3. ~ UNCHANGED commit
      BY <2>3
    <3>4. ~ CommitGoes(c, [commit[c] EXCEPT !.seated = "yes"])
      <4>1. CommitGoes(c, [commit[c] EXCEPT !.seated = "yes"]) =>
                commit'[c] = [commit[c] EXCEPT !.seated = "yes"]
        BY <2>2 DEF CommitGoes
      <4>2. [commit[c] EXCEPT !.seated = "yes"].pc = commit[c].pc
        BY <2>2 DEF CommitLocals
      <4>3. QED
        BY <2>3, <4>1, <4>2
    <3>5. \A t \in Live(record.turns) : t.token \in recent \/ t \in answer.turns
      <4>1. ServedBy[c] \in Processes
        BY TurnAssumption
      <4>2. QED
        BY <2>2, <3>2, <4>1 DEF PollAnswers, ViewsLackTheRecent
    <3>6. QED
      BY <3>2, <3>3, <3>4, <3>5
  <2>5. ASSUME NEW d \in Takers, Stages(d) \/ Step(d) \/ CommitFails(d), ~ FinalizeLands(d)
        PROVE  Polls(c)
    <3>1. d = c
      <4>1. PICK l : Fit(d, l) /\ CommitGoes(d, l)
        BY <2>1, <2>3, <2>5, CommitStepsFit
      <4>2. QED
        BY <2>2, <2>3, <4>1, OneGoes
    <3>2. commit[c].pc \in Waiting
      BY <2>1
    <3>3. \A l : CommitGoes(c, l) => commit'[c] = l
      BY <2>2 DEF CommitGoes
    <3>4. ~ IsRefusedASeat(c)
      BY <2>1, <2>2, <3>3, EndPhases DEF IsRefusedASeat
    <3>5. ~ CommitFails(c)
      <4>1. SUFFICES ASSUME CommitFails(c) PROVE FALSE
        OBVIOUS
      <4>2. PICK x \in {"new", "again"} : CommitGoes(c, CommitEnds(commit[c], x))
        BY <4>1 DEF CommitFails
      <4>3. QED
        BY <2>1, <2>2, <3>3, <4>2, EndPhases
    <3>6. QED
      BY <2>5, <3>1, <3>2, <3>4, <3>5 DEF Stages, Step, AsksToFinalize, AsksWhetherKept, Loses,
         Take, TakeReads, TakeWrites, TakeAnswerLost, TakeLoses,
         Release, ReleaseReads, ReleaseWrites, ReleaseLoses, CommitAt, Waiting
  <2>6. ASSUME NEW d \in Takers, FinalizeLands(d)
        PROVE  FALSE
    <3>1. d # c
      BY <2>1, <2>6 DEF FinalizeLands, CommitAt, Waiting
    <3>2. commit'[c] = Outdated(RefOf[d], c)
      BY <2>6, <3>1 DEF FinalizeLands
    <3>3. QED
      BY <2>2, <2>3, <3>2, OutdatedFits DEF CommitsFit
  <2>7. ASSUME NEW ref \in Refs, AnotherLands(ref)
        PROVE  FALSE
    <3>1. commit'[c] = Outdated(ref, c)
      BY <2>7 DEF AnotherLands
    <3>2. QED
      BY <2>2, <2>3, <3>1, OutdatedFits DEF CommitsFit
  <2>8. ASSUME NEW p \in Processes, Restarts(p)
        PROVE  FALSE
    <3>1. \/ commit'[c] = Rest(commit[c].nonce, "again") \/ commit'[c] = Fresh
          \/ commit'[c] = commit[c]
      BY <2>8 DEF Restarts
    <3>2. Fresh.pc = "idle" /\ \A k : Rest(k, "again").pc = "idle"
      BY DEF Rest, Fresh
    <3>3. QED
      BY <2>1, <2>3, <3>1, <3>2
  <2>9. ASSUME TimePasses PROVE FALSE
    BY <2>2, <2>3, <2>9, TickFits DEF TimePasses, CommitsFit
  <2>10. ASSUME UNCHANGED turnVars PROVE FALSE
    BY <2>3, <2>10 DEF turnVars
  <2>11. QED
    BY <2>1, <2>4, <2>5, <2>6, <2>7, <2>8, <2>9, <2>10 DEF TurnsNext
<1>2. HoldsBack => [\A c \in Takers :
           /\ commit[c].pc \in Waiting /\ commit[c].left > 0
           /\ commit'[c].pc \in {"finalizing", "keeps", "takeReads"}
           => \A t \in Live(record.turns) : Minds(c, t) => t.token \in recent]_turnVars
  OBVIOUS
<1>3. TurnInv /\ [TurnsNext]_turnVars => [\A c \in Takers :
           /\ commit[c].pc \in Waiting /\ commit[c].left > 0
           /\ commit'[c].pc \in {"finalizing", "keeps", "takeReads"}
           => \A t \in Live(record.turns) : Minds(c, t) => t.token \in recent]_turnVars
  BY <1>1, <1>2
<1>4. TurnsSpec => [][TurnsNext]_turnVars
  BY PTL DEF TurnsSpec
<1>5. QED
  BY <1>3, <1>4, TurnsKeepTheInvariant, PTL DEF TurnHoldsOthersBack

\* _THREAD_WAITER_SEATS: what a process counts as taken is what its threads
\* sleep in, and never more than THREAD_WAITERS: whether a wait passes, fails
\* or dies with its process, its seat is given back.
THEOREM SeatsAreNeverLost == TurnsSpec => [](TurnTypeOK /\ SeatsAreCounted)
<1>1. TurnInv => TurnTypeOK /\ SeatsAreCounted
  BY DEF TurnInv
<1>2. QED
  BY <1>1, TurnsKeepTheInvariant, PTL
=============================================================================

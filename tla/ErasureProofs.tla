---------------------------- MODULE ErasureProofs ----------------------------
(***************************************************************************)
(* Proofs about modules ErasureRelease and Erasure: whatever the branches, *)
(* the users and the failures, the recorded plan covers what the release   *)
(* deleted, a finished release owes no branch, and nothing it was          *)
(* scheduled for is left; and a released obligation accounts for the       *)
(* tables derived from the erased one.                                     *)
(***************************************************************************)
EXTENDS ErasureRelease, Erasure, FiniteSetTheorems, TLAPS

\* The branches whose history holds the subject, and the named tags still on main.
Subject == {b \in Branches : branch[b].holds = "subject"}
PinTags == {t \in NamedTags : tag[t] = Main}

\* Where a tick works under the fence.
Critical == {"planning", "claiming", "untagging", "deleting", "listing", "recreating"}

\* A tick ends within its hold, and the fence is held by one.
FenceInv ==
    /\ \A c \in Ticks : tick[c].pc \in Critical => hold[c] + tick[c].age >= HOLD
    /\ \A c, d \in Ticks : hold[c] > 0 /\ hold[d] > 0 => c = d

\* Branches are cut from ones that stand, never in a circle, and what is gone
\* holds nothing.
ForestInv ==
    /\ \A b \in Branches : branch[b].parent \in Branches => branch[b].parent \in Present
    /\ \A s \in SUBSET Branches : s # {} => \E b \in s : branch[b].parent \notin s
    /\ \A b \in Branches : branch[b].parent = None => branch[b].holds = "clean"

\* The subject is on a named branch or came with the branch a branch was cut from.
RootedInv == \A b \in Subject : b \in Named \/ branch[b].parent \in Subject

\* What the release owes, by the record.
OwedInv ==
    /\ owed \cap Present = {}
    /\ owed \subseteq Planned(record.plan)
    /\ record.phase = "pending" => owed = {}

\* What the record's phase says of the table.
PhaseInv ==
    /\ record.phase = "recreating" => Subject = {} /\ PinTags = {}
    /\ record.kept = "gone" => record.phase = "recreating" /\ owed = {}

\* What a tick knows at each of its steps.
TickInv(c) ==
    /\ At(c, "fencing") \/ At(c, "planning") => tick[c].head \in Versions
    /\ tick[c].phase = "recreating" => record.phase = "recreating"
    /\ At(c, "claiming") => \/ record.phase = "recreating"
                            \/ Subject \subseteq Planned(tick[c].plan) /\ PinTags \subseteq tick[c].tags
    /\ At(c, "untagging") => /\ record.phase = "deleting" /\ tick[c].plan = record.plan
                             /\ Subject \subseteq Planned(tick[c].plan)
                             /\ PinTags \subseteq tick[c].tags
    /\ At(c, "deleting") => /\ record.phase = "deleting" /\ PinTags = {}
                            /\ Planned(tick[c].todo) \subseteq Planned(record.plan)
                            /\ Subject \subseteq Planned(tick[c].todo)
    /\ At(c, "listing") => record.phase = "recreating" /\ tick[c].plan = record.plan
    /\ At(c, "recreating") => record.phase = "recreating" /\ owed \subseteq Planned(tick[c].todo)
    /\ At(c, "finishing") => record.phase = "recreating" /\ owed = {}

\* The inductive invariant.
ReleaseInv ==
    /\ TypeOK /\ FenceInv /\ ForestInv /\ RootedInv /\ OwedInv /\ PhaseInv
    /\ \A c \in Ticks : TickInv(c)

-----------------------------------------------------------------------------
(* The operators                                                           *)

LEMMA PlannedSet == ASSUME NEW plan, NEW b PROVE b \in Planned(plan) <=> \E i \in DOMAIN plan : plan[i].branch = b
  BY DEF Planned

\* Picking steps of a plan by name picks all of them and no other.
LEMMA StepsForFacts ==
  ASSUME NEW plan \in Seq(Step), NEW names, NEW picked \in StepsFor(plan, names)
  PROVE  /\ picked \in Seq(Step)
         /\ \A b : b \in Planned(picked) <=> b \in Planned(plan) /\ b \in names
  <1> DEFINE I == {i \in DOMAIN plan : plan[i].branch \in names}
  <1>1. PICK order \in Ascending(I) : picked = [k \in DOMAIN order |-> plan[order[k]]]
    BY DEF StepsFor
  <1>2. Len(plan) \in Nat /\ DOMAIN plan = 1 .. Len(plan) /\ \A i \in DOMAIN plan : plan[i] \in Step
    OBVIOUS
  <1>3. IsFiniteSet(I) /\ Cardinality(I) \in Nat
    <2>1. IsFiniteSet(1 .. Len(plan))
      BY <1>2, FS_Interval
    <2>2. I \subseteq 1 .. Len(plan)
      BY <1>2
    <2> QED BY <2>1, <2>2, FS_Subset, FS_CardinalityType
  <1> DEFINE n == Cardinality(I)
  <1> HIDE DEF n
  <1>4. /\ order \in [1 .. n -> I]
        /\ \A i \in I : \E k \in DOMAIN order : order[k] = i
    BY <1>1 DEF Ascending, n
  <1>5. n \in Nat
    BY <1>3 DEF n
  <1>6. picked \in [1 .. n -> Step]
    BY <1>1, <1>2, <1>4
  <1>7. picked \in Seq(Step)
    BY <1>5, <1>6
  <1>8. ASSUME NEW b, b \in Planned(picked) PROVE b \in Planned(plan) /\ b \in names
    <2>1. PICK k \in DOMAIN picked : picked[k].branch = b
      BY <1>8, PlannedSet
    <2>2. order[k] \in I /\ picked[k] = plan[order[k]]
      BY <1>1, <1>4, <2>1
    <2> QED BY <2>1, <2>2, PlannedSet
  <1>9. ASSUME NEW b, b \in Planned(plan), b \in names PROVE b \in Planned(picked)
    <2>1. PICK i \in DOMAIN plan : plan[i].branch = b
      BY <1>9, PlannedSet
    <2>2. i \in I
      BY <2>1, <1>9
    <2>3. PICK k \in DOMAIN order : order[k] = i
      BY <2>2, <1>4
    <2>4. k \in DOMAIN picked /\ picked[k].branch = b
      BY <2>3, <2>1, <1>1
    <2> QED BY <2>4, PlannedSet
  <1> QED BY <1>7, <1>8, <1>9

\* A resumed plan keeps what was recorded and takes in every newcomer.
LEMMA JoinedFacts ==
  ASSUME NEW recorded \in Seq(Step), NEW fresh \in Seq(Step), NEW plan \in Joined(recorded, fresh),
         Planned(fresh) \subseteq Branches
  PROVE  /\ plan \in Seq(Step)
         /\ Planned(recorded) \subseteq Planned(plan)
         /\ Planned(fresh) \subseteq Planned(plan)
  <1>1. PICK newcomers \in StepsFor(fresh, Branches \ Planned(recorded)) :
            plan = recorded \o [i \in DOMAIN newcomers |->
                    IF recorded = <<>> THEN newcomers[i]
                    ELSE [newcomers[i] EXCEPT !.version = recorded[1].version]]
    BY DEF Joined
  <1> DEFINE more == [i \in DOMAIN newcomers |->
                    IF recorded = <<>> THEN newcomers[i]
                    ELSE [newcomers[i] EXCEPT !.version = recorded[1].version]]
  <1>2. /\ newcomers \in Seq(Step)
        /\ \A b : b \in Planned(newcomers) <=> b \in Planned(fresh) /\ b \in Branches \ Planned(recorded)
    BY StepsForFacts
  <1>3. Len(newcomers) \in Nat /\ DOMAIN newcomers = 1 .. Len(newcomers)
        /\ \A i \in DOMAIN newcomers : newcomers[i] \in Step
    BY <1>2
  <1>4. recorded # <<>> => recorded[1] \in Step
    OBVIOUS
  <1>5. ASSUME NEW i \in DOMAIN newcomers PROVE more[i] \in Step /\ more[i].branch = newcomers[i].branch
    BY <1>3, <1>4 DEF Step
  <1>6. more \in Seq(Step) /\ DOMAIN more = DOMAIN newcomers
    BY <1>3, <1>5
  <1>7. plan \in Seq(Step) /\ Len(plan) = Len(recorded) + Len(more) /\ DOMAIN plan = 1 .. Len(plan)
    BY <1>1, <1>6
  <1>71. plan = recorded \o more
    BY <1>1
  <1> HIDE DEF more
  <1>8. ASSUME NEW b, b \in Planned(recorded) PROVE b \in Planned(plan)
    <2>1. PICK i \in DOMAIN recorded : recorded[i].branch = b
      BY <1>8, PlannedSet
    <2>2. i \in DOMAIN plan /\ plan[i] = recorded[i]
      BY <1>71, <1>6, <1>7, <2>1
    <2> QED BY <2>1, <2>2, PlannedSet
  <1>9. ASSUME NEW b, b \in Planned(newcomers) PROVE b \in Planned(plan)
    <2>1. PICK i \in DOMAIN newcomers : newcomers[i].branch = b
      BY <1>9, PlannedSet
    <2>2. i \in 1 .. Len(more)
      BY <2>1, <1>6
    <2>3. Len(recorded) + i \in DOMAIN plan /\ plan[Len(recorded) + i] = more[i]
      BY <1>71, <1>6, <1>7, <2>2
    <2> QED BY <2>1, <2>3, <1>5, PlannedSet
  <1>10. ASSUME NEW b, b \in Planned(fresh) PROVE b \in Planned(plan)
    <2>1. CASE b \in Planned(recorded)
      BY <2>1, <1>8
    <2>2. CASE b \notin Planned(recorded)
      BY <2>2, <1>10, <1>2, <1>9
    <2> QED BY <2>1, <2>2
  <1> QED BY <1>7, <1>8, <1>10

LEMMA PlannedTyped == ASSUME NEW plan \in Seq(Step) PROVE Planned(plan) \subseteq Branches
  <1> SUFFICES ASSUME NEW b \in Planned(plan) PROVE b \in Branches
    OBVIOUS
  <1>1. PICK i \in DOMAIN plan : plan[i].branch = b
    BY PlannedSet
  <1>2. plan[i] \in Step
    BY <1>1
  <1> QED BY <1>1, <1>2 DEF Step

\* The subtree of the named branches holds every branch with the subject.
LEMMA SubtreeCovers ==
  ASSUME TypeOK, ForestInv, RootedInv, NEW roots, Named \subseteq roots
  PROVE  Subject \subseteq Subtree(roots)
  <1> SUFFICES ASSUME NEW b \in Subject, NEW s \in SUBSET Present,
                      roots \cap Present \subseteq s, \A d \in s : Children(d) \subseteq s
               PROVE  b \in s
    <2>1. \A b \in Subject : b \in Present
      BY DEF TypeOK, Cut, Subject, Present, ForestInv
    <2> QED BY <2>1 DEF Subtree
  <1> DEFINE missed == Subject \ s
  <1>1. SUFFICES ASSUME missed # {} PROVE FALSE
    OBVIOUS
  <1>2. missed \in SUBSET Branches
    BY DEF Subject
  <1>3. PICK d \in missed : branch[d].parent \notin missed
    BY <1>1, <1>2 DEF ForestInv
  <1>4. d \in Branches /\ d \in Present /\ d \notin s
    BY <1>3 DEF Subject, Present, ForestInv
  <1>5. d \notin Named
    BY <1>4
  <1>6. branch[d].parent \in Subject /\ branch[d].parent \in s
    BY <1>3, <1>5 DEF RootedInv
  <1>7. d \in Children(branch[d].parent)
    BY <1>4 DEF Children
  <1> QED BY <1>4, <1>6, <1>7

-----------------------------------------------------------------------------
(* Types                                                                   *)

LEMMA IdleTyped == Idle \in Locals
  BY ReleaseAssumption DEF Idle, Locals, Phase, Age

LEMMA NoCutTyped == NoCut \in Cut
  BY ReleaseAssumption DEF NoCut, Cut

LEMMA GoesTyped ==
  ASSUME TypeOK, NEW c \in Ticks, NEW locals \in Locals, Goes(c, locals)
  PROVE  tick' \in [Ticks -> Locals]
  BY DEF TypeOK, Goes

\* The values a failing or leaving tick writes.
LEMMA DropsTyped ==
  ASSUME TypeOK, NEW c \in Ticks, Drops(c)
  PROVE  hold' \in [Ticks -> 0 .. HOLD]
  BY ReleaseAssumption DEF TypeOK, Drops

LEMMA BreaksTyped ==
  ASSUME TypeOK, NEW c \in Ticks, Breaks(c)
  PROVE  tick' \in [Ticks -> Locals] /\ hold' \in [Ticks -> 0 .. HOLD]
  <1>1. [Idle EXCEPT !.pc = "handingBack", !.age = tick[c].age] \in Locals
    BY IdleTyped DEF TypeOK, Locals, Phase
  <1> QED BY <1>1, GoesTyped, DropsTyped DEF Breaks

\* What a claim writes: the record's plan covers what was recorded and what the
\* tick found.
LEMMA ClaimedFacts ==
  ASSUME TypeOK, NEW c \in Ticks, NEW r \in Claimed(c)
  PROVE  /\ r \in Record
         /\ r.kept = record.kept
         /\ r.phase = IF record.phase = "recreating" THEN "recreating" ELSE "deleting"
         /\ record.phase = "recreating" => r.plan = record.plan
         /\ record.phase # "pending" => Planned(record.plan) \subseteq Planned(r.plan)
         /\ record.phase # "recreating" => /\ Planned(tick[c].plan) \subseteq Planned(r.plan)
                                          /\ tick[c].tags \subseteq r.tags
  <1> DEFINE leased == [record EXCEPT !.lease = LEASE - tick[c].age]
  <1>0. /\ record \in Record /\ tick[c] \in Locals
        /\ record.plan \in Seq(Step) /\ tick[c].plan \in Seq(Step)
        /\ tick[c].age \in 0 .. MaxAge
        /\ record.phase \in {"pending", "deleting", "recreating"}
    BY DEF TypeOK, Record, Locals, Age
  <1>1. /\ leased \in Record /\ leased.kept = record.kept /\ leased.phase = record.phase
        /\ leased.plan = record.plan /\ leased.tags = record.tags
    <2>1. LEASE - tick[c].age \in -MaxAge .. LEASE
      BY <1>0, ReleaseAssumption
    <2> QED BY <1>0, <2>1 DEF Record
  <1> HIDE DEF leased
  <1>2. CASE record.phase = "pending"
    <2>1. r = [leased EXCEPT !.phase = "deleting", !.tags = tick[c].tags, !.plan = tick[c].plan]
      BY <1>2 DEF Claimed, leased
    <2> QED BY <1>0, <1>1, <1>2, <2>1 DEF Record, Locals
  <1>3. CASE record.phase = "deleting"
    <2>1. PICK plan \in Joined(record.plan, tick[c].plan) :
             r = [leased EXCEPT !.tags = @ \cup tick[c].tags, !.plan = plan]
      BY <1>3 DEF Claimed, leased
    <2>2. /\ plan \in Seq(Step)
          /\ Planned(record.plan) \subseteq Planned(plan)
          /\ Planned(tick[c].plan) \subseteq Planned(plan)
      BY <1>0, JoinedFacts, PlannedTyped
    <2> QED BY <1>0, <1>1, <1>3, <2>1, <2>2 DEF Record, Locals
  <1>4. CASE record.phase = "recreating"
    <2>1. r = leased
      BY <1>4 DEF Claimed, leased
    <2> QED BY <1>0, <1>1, <1>4, <2>1
  <1> QED BY <1>0, <1>2, <1>3, <1>4

\* The plan a tick makes is a sequence of steps, one for each branch of the subtree.
LEMMA PlanFacts ==
  ASSUME TypeOK, NEW c \in Ticks, tick[c].head \in Versions, NEW roots,
         NEW order \in TopDown(Subtree(roots)), NEW plan,
         plan = [i \in DOMAIN order |->
                    [branch |-> order[i], version |-> tick[c].head,
                     parent |-> IF branch[order[i]].parent \in Subtree(roots)
                                THEN branch[order[i]].parent ELSE Main]]
  PROVE  plan \in Seq(Step) /\ Planned(plan) = Subtree(roots)
  <1> DEFINE subtree == Subtree(roots)
  <1>1. subtree \subseteq Branches
    BY DEF Subtree, Present
  <1>2. Cardinality(subtree) \in Nat
    BY <1>1, ReleaseAssumption, FS_Subset, FS_CardinalityType
  <1> DEFINE n == Cardinality(subtree)
  <1> HIDE DEF n
  <1>3. /\ order \in [1 .. n -> subtree]
        /\ \A b \in subtree : \E i \in DOMAIN order : order[i] = b
    BY DEF TopDown, n
  <1>4. n \in Nat
    BY <1>2 DEF n
  <1> HIDE DEF subtree
  <1>5. \A i \in 1 .. n : plan[i] \in Step /\ plan[i].branch = order[i]
    BY <1>1, <1>3 DEF Step, subtree
  <1>6. DOMAIN plan = 1 .. n
    BY <1>3
  <1>7. plan \in Seq(Step)
    BY <1>4, <1>5, <1>6
  <1>8. Planned(plan) = subtree
    BY <1>3, <1>5, <1>6 DEF Planned
  <1> QED BY <1>7, <1>8 DEF subtree

\* Every step of a tick keeps the types.
LEMMA RunsTyped ==
  ASSUME TypeOK, NEW c \in Ticks, TickInv(c), Runs(c)
  PROVE  TypeOK'
  <1>0. /\ record \in Record /\ record.plan \in Seq(Step) /\ tick[c] \in Locals
        /\ tick[c].plan \in Seq(Step) /\ tick[c].todo \in Seq(Step)
        /\ tick[c].age \in 0 .. MaxAge /\ Idle \in Locals
    BY IdleTyped DEF TypeOK, Record, Locals, Age
  <1> USE <1>0
  <1>1. CASE Begins(c)
    <2>1. [Idle EXCEPT !.pc = "fencing", !.head = head, !.phase = record.phase,
                       !.tags = record.tags, !.plan = record.plan] \in Locals
      <3>1. head \in 0 .. MaxHead
        BY ReleaseAssumption DEF TypeOK, Versions
      <3>2. record.phase \in {"pending", "deleting", "recreating"} /\ record.tags \in SUBSET Tags
        BY DEF Record
      <3> QED BY <3>1, <3>2 DEF Locals, Phase
    <2>2. tick' \in [Ticks -> Locals]
      BY <1>1, <2>1, GoesTyped DEF Begins
    <2> QED BY <1>1, <2>2 DEF Begins, TypeOK, refs, main, counts
  <1>2. CASE Fences(c)
    <2>1. [tick[c] EXCEPT !.pc = "planning"] \in Locals
      BY DEF Locals, Phase
    <2>2. tick' \in [Ticks -> Locals]
      BY <1>2, <2>1, GoesTyped DEF Fences
    <2>3. hold' \in [Ticks -> 0 .. HOLD]
      <3>1. HOLD \in 0 .. HOLD /\ hold \in [Ticks -> 0 .. HOLD]
        BY ReleaseAssumption DEF TypeOK
      <3>2. hold' = hold \/ hold' = [hold EXCEPT ![c] = HOLD]
        BY <1>2 DEF Fences
      <3> QED BY <3>1, <3>2
    <2> QED BY <1>2, <2>2, <2>3 DEF Fences, TypeOK, refs, main, counts
  <1>3. CASE MakesPlan(c)
    <2>1. tick[c].head \in Versions
      BY <1>3 DEF MakesPlan, TickInv
    <2>2. CASE tick[c].phase = "recreating"
      <3>1. [tick[c] EXCEPT !.pc = "claiming"] \in Locals
        BY DEF Locals, Phase
      <3>2. tick' \in [Ticks -> Locals]
        BY <1>3, <2>2, <3>1, GoesTyped DEF MakesPlan
      <3> QED BY <1>3, <3>2 DEF MakesPlan, TypeOK, refs, main, counts
    <2>3. CASE tick[c].phase # "recreating"
      <3> DEFINE roots == Named \cup {tick[c].plan[i].branch : i \in DOMAIN tick[c].plan}
                 pins == {t \in Tags : /\ tag[t] # None
                                       /\ tag[t] \in Subtree(roots) \/ t \in NamedTags \cup tick[c].tags}
                 planOf(order) == [i \in DOMAIN order |->
                        [branch |-> order[i], version |-> tick[c].head,
                         parent |-> IF branch[order[i]].parent \in Subtree(roots)
                                    THEN branch[order[i]].parent ELSE Main]]
      <3>1. PICK order \in TopDown(Subtree(roots)) :
              Goes(c, [tick[c] EXCEPT !.pc = "claiming", !.tags = pins, !.plan = planOf(order)])
        BY <1>3, <2>3 DEF MakesPlan
      <3>2. planOf(order) \in Seq(Step)
        BY <2>1, PlanFacts
      <3>3. pins \in SUBSET Tags
        OBVIOUS
      <3> HIDE DEF roots, pins, planOf
      <3>4. [tick[c] EXCEPT !.pc = "claiming", !.tags = pins, !.plan = planOf(order)] \in Locals
        BY <3>2, <3>3 DEF Locals, Phase
      <3>5. tick' \in [Ticks -> Locals]
        BY <3>1, <3>4, GoesTyped
      <3> QED BY <1>3, <3>5 DEF MakesPlan, TypeOK, refs, main, counts
    <2> QED BY <2>2, <2>3
  <1>4. CASE Claims(c)
    <2>1. CASE record.kept = "kept" /\ Claimable(tick[c].age)
      <3>1. record' \in Claimed(c)
        BY <1>4, <2>1 DEF Claims
      <3>2. record' \in Record
        BY <3>1, ClaimedFacts
      <3>3. [Holding(c, record') EXCEPT !.pc = IF record'.phase = "deleting"
                                               THEN "untagging" ELSE "listing"] \in Locals
        BY <3>2 DEF Holding, Record, Locals, Phase, Age
      <3>4. tick' \in [Ticks -> Locals]
        BY <1>4, <2>1, <3>3, GoesTyped DEF Claims
      <3> QED BY <1>4, <2>1, <3>2, <3>4 DEF Claims, TypeOK, refs, main, counts
    <2>2. CASE ~ (record.kept = "kept" /\ Claimable(tick[c].age))
      <3>1. tick' \in [Ticks -> Locals] /\ hold' \in [Ticks -> 0 .. HOLD]
        BY <1>4, <2>2, GoesTyped, DropsTyped DEF Claims
      <3> QED BY <1>4, <2>2, <3>1 DEF Claims, TypeOK, refs, main, counts
    <2> QED BY <2>1, <2>2
  <1>5. CASE Untags(c)
    <2>1. PICK standing \in StepsFor(tick[c].plan, Present) :
            Goes(c, [Idle EXCEPT !.pc = "deleting", !.age = tick[c].age, !.todo =
                        [i \in DOMAIN standing |-> standing[Len(standing) + 1 - i]]])
      BY <1>5 DEF Untags
    <2>2. standing \in Seq(Step)
      BY StepsForFacts
    <2>3. [i \in DOMAIN standing |-> standing[Len(standing) + 1 - i]] \in Seq(Step)
      <3>1. Len(standing) \in Nat /\ DOMAIN standing = 1 .. Len(standing)
        BY <2>2
      <3>2. \A i \in DOMAIN standing : standing[Len(standing) + 1 - i] \in Step
        BY <3>1, <2>2
      <3> QED BY <3>1, <3>2
    <2> DEFINE todo == [i \in DOMAIN standing |-> standing[Len(standing) + 1 - i]]
    <2> HIDE DEF todo
    <2>4. [Idle EXCEPT !.pc = "deleting", !.age = tick[c].age, !.todo = todo] \in Locals
      BY <2>3 DEF Locals, Phase, Age, todo
    <2>5. tick' \in [Ticks -> Locals]
      BY <2>1, <2>4, GoesTyped DEF todo
    <2>6. tag' \in [Tags -> Branches \cup {Main, None}]
      BY <1>5 DEF Untags, TypeOK
    <2> QED BY <1>5, <2>5, <2>6 DEF Untags, TypeOK, main, counts
  <1>6. CASE Deletes(c)
    <2> DEFINE b == Head(tick[c].todo).branch
    <2>1. b \in Branches /\ Tail(tick[c].todo) \in Seq(Step)
      <3>1. Head(tick[c].todo) \in Step
        BY <1>6 DEF Deletes
      <3> QED BY <1>6, <3>1 DEF Deletes, Step
    <2> HIDE DEF b
    <2>2. CASE Deletable(b)
      <3>1. branch' \in [Branches -> Cut]
        BY <1>6, <2>1, <2>2, NoCutTyped DEF Deletes, b, TypeOK
      <3>2. owed' \in SUBSET Branches
        BY <1>6, <2>1, <2>2 DEF Deletes, b, TypeOK
      <3>3. [tick[c] EXCEPT !.todo = Tail(@)] \in Locals
        BY <2>1 DEF Locals
      <3>4. tick' \in [Ticks -> Locals]
        BY <1>6, <2>2, <3>3, GoesTyped DEF Deletes, b
      <3> QED BY <1>6, <2>2, <3>1, <3>2, <3>4 DEF Deletes, b, TypeOK, main, counts
    <2>3. CASE ~ Deletable(b)
      <3>1. tick' \in [Ticks -> Locals] /\ hold' \in [Ticks -> 0 .. HOLD]
        BY <1>6, <2>3, BreaksTyped DEF Deletes, b
      <3> QED BY <1>6, <2>3, <3>1 DEF Deletes, b, TypeOK, main, counts
    <2> QED BY <2>2, <2>3
  <1>7. CASE Marks(c)
    <2>1. CASE record.kept = "kept"
      <3>1. record' \in Record
        BY <1>7, <2>1 DEF Marks, Record
      <3>2. [Holding(c, record) EXCEPT !.pc = "listing"] \in Locals
        BY DEF Holding, Record, Locals, Phase, Age
      <3>3. tick' \in [Ticks -> Locals]
        BY <1>7, <2>1, <3>2, GoesTyped DEF Marks
      <3> QED BY <1>7, <2>1, <3>1, <3>3 DEF Marks, TypeOK, refs, main, counts
    <2>2. CASE record.kept # "kept"
      <3>1. tick' \in [Ticks -> Locals] /\ hold' \in [Ticks -> 0 .. HOLD]
        BY <1>7, <2>2, GoesTyped, DropsTyped DEF Marks
      <3> QED BY <1>7, <2>2, <3>1 DEF Marks, TypeOK, refs, main, counts
    <2> QED BY <2>1, <2>2
  <1>8. CASE Lists(c)
    <2>1. PICK missing \in StepsFor(tick[c].plan, Branches \ Present) :
            Goes(c, [Idle EXCEPT !.pc = "recreating", !.age = tick[c].age, !.todo = missing])
      BY <1>8 DEF Lists
    <2>2. missing \in Seq(Step)
      BY StepsForFacts
    <2>3. [Idle EXCEPT !.pc = "recreating", !.age = tick[c].age, !.todo = missing] \in Locals
      BY <2>2 DEF Locals, Phase, Age
    <2>4. tick' \in [Ticks -> Locals]
      BY <2>1, <2>3, GoesTyped
    <2> QED BY <1>8, <2>4 DEF Lists, TypeOK, refs, main, counts
  <1>9. CASE Recreates(c)
    <2> DEFINE s == Head(tick[c].todo)
    <2>1. s \in Step /\ Tail(tick[c].todo) \in Seq(Step)
      BY <1>9 DEF Recreates
    <2> HIDE DEF s
    <2>2. CASE Creatable(s)
      <3> DEFINE cut == [parent |-> s.parent, version |-> s.version,
                         holds |-> IF s.parent = Main THEN "clean" ELSE branch[s.parent].holds]
      <3>1. cut \in Cut
        BY <2>1, <2>2 DEF Step, Cut, Creatable, Present, TypeOK, Versions
      <3> HIDE DEF cut
      <3>2. branch' = [branch EXCEPT ![s.branch] = cut]
        BY <1>9, <2>2 DEF Recreates, s, cut
      <3>3. branch' \in [Branches -> Cut]
        BY <3>1, <3>2 DEF TypeOK
      <3>4. owed' \in SUBSET Branches
        BY <1>9, <2>2 DEF Recreates, s, TypeOK
      <3>5. [tick[c] EXCEPT !.todo = Tail(@)] \in Locals
        BY <2>1 DEF Locals
      <3>6. tick' \in [Ticks -> Locals]
        BY <1>9, <2>2, <3>5, GoesTyped DEF Recreates, s
      <3> QED BY <1>9, <2>2, <3>3, <3>4, <3>6 DEF Recreates, s, TypeOK, main, counts
    <2>3. CASE ~ Creatable(s)
      <3>1. tick' \in [Ticks -> Locals] /\ hold' \in [Ticks -> 0 .. HOLD]
        BY <1>9, <2>3, BreaksTyped DEF Recreates, s
      <3> QED BY <1>9, <2>3, <3>1 DEF Recreates, s, TypeOK, main, counts
    <2> QED BY <2>2, <2>3
  <1>10. CASE Releases(c)
    <2>1. [Idle EXCEPT !.pc = "finishing", !.age = tick[c].age] \in Locals
      BY DEF Locals, Phase, Age
    <2>2. tick' \in [Ticks -> Locals] /\ hold' \in [Ticks -> 0 .. HOLD]
      BY <1>10, <2>1, GoesTyped, DropsTyped DEF Releases
    <2> QED BY <1>10, <2>2 DEF Releases, TypeOK, refs, main, counts
  <1>11. CASE Finishes(c)
    <2>1. record' \in Record /\ tick' \in [Ticks -> Locals]
      BY <1>11, GoesTyped DEF Finishes, Record
    <2> QED BY <1>11, <2>1 DEF Finishes, TypeOK, refs, main, counts
  <1>12. CASE HandsBack(c)
    <2>1. -tick[c].age \in -MaxAge .. LEASE
      BY ReleaseAssumption
    <2>2. record' \in Record /\ tick' \in [Ticks -> Locals]
      BY <1>12, <2>1, GoesTyped DEF HandsBack, Record
    <2> QED BY <1>12, <2>2 DEF HandsBack, TypeOK, refs, main, counts
  <1> QED BY <1>1, <1>2, <1>3, <1>4, <1>5, <1>6, <1>7, <1>8, <1>9, <1>10, <1>11, <1>12 DEF Runs

\* So does every other step.
LEMMA TypeStep ==
  ASSUME TypeOK, \A c \in Ticks : TickInv(c), [Next]_vars
  PROVE  TypeOK'
  <1>1. CASE UNCHANGED vars
    BY <1>1 DEF vars, TypeOK
  <1>2. ASSUME NEW c \in Ticks, Runs(c) PROVE TypeOK'
    BY <1>2, RunsTyped
  <1>3. ASSUME NEW c \in Ticks, Fails(c) PROVE TypeOK'
    <2>1. tick' \in [Ticks -> Locals] /\ hold' \in [Ticks -> 0 .. HOLD]
      BY <1>3, BreaksTyped DEF Fails
    <2> QED BY <1>3, <2>1, ReleaseAssumption DEF Fails, Fault, TypeOK, refs, main
  <1>4. ASSUME NEW c \in Ticks, ClaimAnswerLost(c) PROVE TypeOK'
    <2>1. tick' \in [Ticks -> Locals] /\ hold' \in [Ticks -> 0 .. HOLD] /\ record' \in Record
      BY <1>4, GoesTyped, DropsTyped, IdleTyped, ClaimedFacts DEF ClaimAnswerLost
    <2> QED BY <1>4, <2>1, ReleaseAssumption DEF ClaimAnswerLost, Fault, TypeOK, refs, main
  <1>5. ASSUME NEW c \in Ticks, Dies(c) PROVE TypeOK'
    <2>1. tick' \in [Ticks -> Locals]
      BY <1>5, GoesTyped, IdleTyped DEF Dies
    <2> QED BY <1>5, <2>1, ReleaseAssumption DEF Dies, Fault, TypeOK, refs, main
  <1>6. CASE UserCuts
    <2>1. PICK b \in Cuttable \ Present, p \in Present \cup {Main} :
            /\ owed' = owed \ {b}
            /\ branch' = [branch EXCEPT ![b] =
                 IF p = Main THEN [parent |-> Main, version |-> head, holds |-> "clean"]
                 ELSE [branch[p] EXCEPT !.parent = p]]
      BY <1>6 DEF UserCuts
    <2>2. (IF p = Main THEN [parent |-> Main, version |-> head, holds |-> "clean"]
           ELSE [branch[p] EXCEPT !.parent = p]) \in Cut
      BY ReleaseAssumption DEF Present, Cut, TypeOK, Versions
    <2>3. branch' \in [Branches -> Cut]
      BY <2>1, <2>2, ReleaseAssumption DEF TypeOK
    <2> QED BY <1>6, <2>1, <2>3, ReleaseAssumption DEF UserCuts, Change, TypeOK, main
  <1>7. CASE UserTags
    <2>1. tag' \in [Tags -> Branches \cup {Main, None}]
      BY <1>7 DEF UserTags, TypeOK, Present
    <2> QED BY <1>7, <2>1, ReleaseAssumption DEF UserTags, Change, TypeOK, main
  <1>8. CASE UserDeletes
    <2>1. branch' \in [Branches -> Cut]
      BY <1>8, NoCutTyped DEF UserDeletes, TypeOK
    <2> QED BY <1>8, <2>1, ReleaseAssumption DEF UserDeletes, Change, TypeOK, main
  <1>9. CASE UserCommits
    BY <1>9, ReleaseAssumption DEF UserCommits, TypeOK, Versions, refs, counts
  <1>10. CASE Reclaims
    BY <1>10 DEF Reclaims, TypeOK, refs, counts
  <1>11. CASE Passes
    <2>1. record' \in Record
      <3>1. record \in Record /\ record.lease \in -MaxAge .. LEASE
        BY DEF TypeOK, Record
      <3>2. Elapse(record.lease, -MaxAge) \in -MaxAge .. LEASE
        BY <3>1, ReleaseAssumption DEF Elapse
      <3>3. record' = [record EXCEPT !.lease = Elapse(record.lease, -MaxAge)]
        BY <1>11 DEF Passes
      <3> QED BY <3>1, <3>2, <3>3 DEF Record
    <2>2. hold' \in [Ticks -> 0 .. HOLD]
      BY <1>11, ReleaseAssumption DEF Passes, Elapse, TypeOK
    <2>3. tick' \in [Ticks -> Locals]
      <3>1. ASSUME NEW c \in Ticks
            PROVE  (IF At(c, "idle") THEN Idle ELSE [tick[c] EXCEPT !.age = @ + 1]) \in Locals
        <4>1. tick[c] \in Locals /\ tick[c].age \in 0 .. MaxAge /\ tick[c].age < MaxAge
          BY <1>11 DEF Passes, TypeOK, Locals, Age
        <4>2. tick[c].age + 1 \in Age
          BY <4>1, ReleaseAssumption DEF Age
        <4> QED BY <4>1, <4>2, IdleTyped DEF Locals
      <3> QED BY <3>1, <1>11 DEF Passes
    <2> QED BY <1>11, <2>1, <2>2, <2>3 DEF Passes, TypeOK, refs, main, counts
  <1> QED BY <1>1, <1>2, <1>3, <1>4, <1>5, <1>6, <1>7, <1>8, <1>9, <1>10, <1>11 DEF Next

-----------------------------------------------------------------------------
(* The fence                                                               *)

\* Two ticks are never at work under the fence, and none is while it is free.
LEMMA OneWorks ==
  ASSUME TypeOK, FenceInv, NEW c \in Ticks, tick[c].pc \in Critical
  PROVE  /\ \A d \in Ticks : tick[d].pc \in Critical => d = c
         /\ ~ Free
  <1>1. ASSUME NEW d \in Ticks, tick[d].pc \in Critical PROVE hold[d] > 0
    <2>1. tick[d].age \in 0 .. MaxAge /\ hold[d] \in 0 .. HOLD
      BY DEF TypeOK, Locals, Age
    <2>2. hold[d] + tick[d].age >= HOLD
      BY <1>1 DEF FenceInv
    <2> QED BY <2>1, <2>2, ReleaseAssumption
  <1>2. hold[c] > 0
    BY <1>1
  <1>3. hold[c] # 0
    BY <1>2 DEF TypeOK
  <1>4. ASSUME NEW d \in Ticks, tick[d].pc \in Critical PROVE d = c
    <2>1. hold[d] > 0
      BY <1>1, <1>4
    <2> QED BY <2>1, <1>2 DEF FenceInv
  <1> QED BY <1>3, <1>4 DEF Free

\* A step of c that takes no hold: it stays where it was or leaves.
StaysIn(c) ==
    /\ \A d \in Ticks : d # c => tick'[d] = tick[d]
    /\ tick'[c].pc \in Critical => tick[c].pc \in Critical /\ tick'[c].age = tick[c].age /\ hold' = hold
    /\ hold' = hold \/ hold' = [hold EXCEPT ![c] = 0]

LEMMA GoesStays ==
  ASSUME TypeOK, NEW c \in Ticks, NEW locals, Goes(c, locals)
  PROVE  /\ tick'[c] = locals
         /\ \A d \in Ticks : d # c => tick'[d] = tick[d]
  BY DEF TypeOK, Goes

LEMMA LeavesInv ==
  ASSUME TypeOK, NEW c \in Ticks, Goes(c, Idle) \/ Breaks(c)
  PROVE  TickInv(c)' /\ tick'[c].pc \in {"idle", "handingBack"} /\ \A d \in Ticks : d # c => tick'[d] = tick[d]
  <1>1. /\ tick'[c].pc \in {"idle", "handingBack"} /\ tick'[c].phase = "pending"
        /\ \A d \in Ticks : d # c => tick'[d] = tick[d]
    <2>1. CASE Goes(c, Idle)
      <3>1. tick'[c] = Idle /\ \A d \in Ticks : d # c => tick'[d] = tick[d]
        BY <2>1, GoesStays
      <3> QED BY <3>1 DEF Idle
    <2>2. CASE Breaks(c)
      <3>1. /\ tick'[c] = [Idle EXCEPT !.pc = "handingBack", !.age = tick[c].age]
            /\ \A d \in Ticks : d # c => tick'[d] = tick[d]
        BY <2>2, GoesStays DEF Breaks
      <3> QED BY <3>1 DEF Idle
    <2> QED BY <2>1, <2>2
  <1> QED BY <1>1 DEF TickInv, At

LEMMA StaysFence ==
  ASSUME TypeOK, FenceInv, NEW c \in Ticks, StaysIn(c)
  PROVE  FenceInv'
  <1>1. \A d \in Ticks : hold'[d] = hold[d] \/ hold'[d] = 0
    BY DEF StaysIn, TypeOK
  <1>2. \A d \in Ticks : d # c => hold'[d] = hold[d]
    BY DEF StaysIn, TypeOK
  <1>3. \A d \in Ticks : tick'[d].pc \in Critical => hold'[d] + tick'[d].age >= HOLD
    BY <1>2 DEF StaysIn, FenceInv
  <1>4. \A d, e \in Ticks : hold'[d] > 0 /\ hold'[e] > 0 => d = e
    BY <1>1 DEF FenceInv
  <1> QED BY <1>3, <1>4 DEF FenceInv

LEMMA FenceStep ==
  ASSUME TypeOK, FenceInv, [Next]_vars
  PROVE  FenceInv'
  <1>1. ASSUME NEW c \in Ticks, Runs(c), ~ Fences(c) PROVE FenceInv'
    <2> SUFFICES StaysIn(c)
      BY StaysFence
    <2>1. CASE Begins(c)
      <3>1. tick'[c].pc = "fencing" /\ (\A d \in Ticks : d # c => tick'[d] = tick[d]) /\ hold' = hold
        <4>1. /\ tick'[c] = [Idle EXCEPT !.pc = "fencing", !.head = head, !.phase = record.phase,
                                        !.tags = record.tags, !.plan = record.plan]
              /\ (\A d \in Ticks : d # c => tick'[d] = tick[d]) /\ hold' = hold
          BY <2>1, GoesStays DEF Begins
        <4> QED BY <4>1 DEF Idle
      <3> QED BY <3>1 DEF StaysIn, Critical
    <2>2. CASE MakesPlan(c)
      <3>1. tick[c].pc \in Critical /\ hold' = hold
        BY <2>2 DEF MakesPlan, At, Critical
      <3>2. \E locals : Goes(c, locals) /\ locals.age = tick[c].age
        <4>1. CASE tick[c].phase = "recreating"
          <5>1. Goes(c, [tick[c] EXCEPT !.pc = "claiming"])
            BY <2>2, <4>1 DEF MakesPlan
          <5>2. [tick[c] EXCEPT !.pc = "claiming"].age = tick[c].age
            BY DEF TypeOK, Locals
          <5> QED BY <5>1, <5>2
        <4>2. CASE tick[c].phase # "recreating"
          <5>1. PICK pins, plan : Goes(c, [tick[c] EXCEPT !.pc = "claiming", !.tags = pins, !.plan = plan])
            BY <2>2, <4>2 DEF MakesPlan
          <5>2. [tick[c] EXCEPT !.pc = "claiming", !.tags = pins, !.plan = plan].age = tick[c].age
            BY DEF TypeOK, Locals
          <5> QED BY <5>1, <5>2
        <4> QED BY <4>1, <4>2
      <3> QED BY <3>1, <3>2, GoesStays DEF StaysIn
    <2>3. CASE Claims(c)
      <3>1. CASE record.kept = "kept" /\ Claimable(tick[c].age)
        <4>1. /\ tick'[c] = [Holding(c, record') EXCEPT !.pc = IF record'.phase = "deleting"
                                                              THEN "untagging" ELSE "listing"]
              /\ (\A d \in Ticks : d # c => tick'[d] = tick[d]) /\ hold' = hold /\ tick[c].pc = "claiming"
          BY <2>3, <3>1, GoesStays DEF Claims, At
        <4>2. tick'[c].age = tick[c].age
          BY <4>1 DEF Holding, Idle
        <4> QED BY <4>1, <4>2 DEF StaysIn, Critical
      <3>2. CASE ~ (record.kept = "kept" /\ Claimable(tick[c].age))
        BY <2>3, <3>2, LeavesInv DEF Claims, Drops, StaysIn, Critical
      <3> QED BY <3>1, <3>2
    <2>4. CASE Untags(c)
      <3>1. PICK todo : Goes(c, [Idle EXCEPT !.pc = "deleting", !.age = tick[c].age, !.todo = todo])
        BY <2>4 DEF Untags
      <3>2. hold' = hold /\ tick[c].pc \in Critical
        BY <2>4 DEF Untags, At, Critical
      <3>3. tick'[c].age = tick[c].age
        <4>1. tick'[c] = [Idle EXCEPT !.pc = "deleting", !.age = tick[c].age, !.todo = todo]
          BY <3>1, GoesStays
        <4> QED BY <4>1 DEF Idle
      <3> QED BY <3>1, <3>2, <3>3, GoesStays DEF StaysIn
    <2>5. CASE Deletes(c)
      <3>1. CASE Goes(c, [tick[c] EXCEPT !.todo = Tail(@)]) /\ hold' = hold
        <4>1. /\ tick'[c] = [tick[c] EXCEPT !.todo = Tail(@)]
              /\ \A d \in Ticks : d # c => tick'[d] = tick[d]
          BY <3>1, GoesStays
        <4>2. tick'[c].age = tick[c].age /\ tick'[c].pc = tick[c].pc
          BY <4>1 DEF TypeOK, Locals
        <4> QED BY <3>1, <4>1, <4>2 DEF StaysIn
      <3>2. CASE Breaks(c)
        BY <3>2, LeavesInv DEF Breaks, Drops, StaysIn, Critical
      <3> QED BY <2>5, <3>1, <3>2 DEF Deletes
    <2>6. CASE Marks(c)
      <3>1. CASE record.kept = "kept"
        <4>1. /\ tick'[c] = [Holding(c, record) EXCEPT !.pc = "listing"]
              /\ (\A d \in Ticks : d # c => tick'[d] = tick[d]) /\ hold' = hold /\ tick[c].pc = "deleting"
          BY <2>6, <3>1, GoesStays DEF Marks, At
        <4>2. tick'[c].age = tick[c].age
          BY <4>1 DEF Holding, Idle
        <4> QED BY <4>1, <4>2 DEF StaysIn, Critical
      <3>2. CASE record.kept # "kept"
        BY <2>6, <3>2, LeavesInv DEF Marks, Drops, StaysIn, Critical
      <3> QED BY <3>1, <3>2
    <2>7. CASE Lists(c)
      <3>1. PICK todo : Goes(c, [Idle EXCEPT !.pc = "recreating", !.age = tick[c].age, !.todo = todo])
        BY <2>7 DEF Lists
      <3>2. hold' = hold /\ tick[c].pc \in Critical
        BY <2>7 DEF Lists, At, Critical
      <3>3. tick'[c].age = tick[c].age
        <4>1. tick'[c] = [Idle EXCEPT !.pc = "recreating", !.age = tick[c].age, !.todo = todo]
          BY <3>1, GoesStays
        <4> QED BY <4>1 DEF Idle
      <3> QED BY <3>1, <3>2, <3>3, GoesStays DEF StaysIn
    <2>8. CASE Recreates(c)
      <3>1. CASE Goes(c, [tick[c] EXCEPT !.todo = Tail(@)]) /\ hold' = hold
        <4>1. /\ tick'[c] = [tick[c] EXCEPT !.todo = Tail(@)]
              /\ \A d \in Ticks : d # c => tick'[d] = tick[d]
          BY <3>1, GoesStays
        <4>2. tick'[c].age = tick[c].age /\ tick'[c].pc = tick[c].pc
          BY <4>1 DEF TypeOK, Locals
        <4> QED BY <3>1, <4>1, <4>2 DEF StaysIn
      <3>2. CASE Breaks(c)
        BY <3>2, LeavesInv DEF Breaks, Drops, StaysIn, Critical
      <3> QED BY <2>8, <3>1, <3>2 DEF Recreates
    <2>9. CASE Releases(c)
      <3>1. /\ tick'[c] = [Idle EXCEPT !.pc = "finishing", !.age = tick[c].age]
            /\ (\A d \in Ticks : d # c => tick'[d] = tick[d]) /\ hold' = [hold EXCEPT ![c] = 0]
        BY <2>9, GoesStays DEF Releases, Drops
      <3>2. tick'[c].pc = "finishing"
        BY <3>1 DEF Idle
      <3> QED BY <3>1, <3>2 DEF StaysIn, Critical
    <2>10. CASE Finishes(c)
      BY <2>10, LeavesInv DEF Finishes, StaysIn, Critical
    <2>11. CASE HandsBack(c)
      BY <2>11, LeavesInv DEF HandsBack, StaysIn, Critical
    <2> QED BY <1>1, <2>1, <2>2, <2>3, <2>4, <2>5, <2>6, <2>7, <2>8, <2>9, <2>10, <2>11 DEF Runs
  <1>2. ASSUME NEW c \in Ticks, Fences(c) PROVE FenceInv'
    <2>1. CASE ~ Free
      <3>1. StaysIn(c)
        BY <1>2, <2>1, LeavesInv DEF Fences, StaysIn, Critical
      <3> QED BY <3>1, StaysFence
    <2>2. CASE Free
      <3>1. /\ tick'[c] = [tick[c] EXCEPT !.pc = "planning"]
            /\ \A d \in Ticks : d # c => tick'[d] = tick[d]
        BY <1>2, <2>2, GoesStays DEF Fences
      <3>2. hold'[c] = HOLD /\ \A d \in Ticks : d # c => hold'[d] = 0
        BY <1>2, <2>2 DEF Fences, TypeOK, Free
      <3>3. ASSUME NEW d \in Ticks, d # c PROVE tick[d].pc \notin Critical
        BY <2>2, OneWorks
      <3>4. tick'[c].age \in Nat
        BY <3>1 DEF TypeOK, Locals, Age
      <3>5. \A d \in Ticks : tick'[d].pc \in Critical => hold'[d] + tick'[d].age >= HOLD
        <4>1. hold'[c] + tick'[c].age >= HOLD
          BY <3>2, <3>4, ReleaseAssumption
        <4> QED BY <3>1, <3>3, <4>1
      <3>6. \A d, e \in Ticks : hold'[d] > 0 /\ hold'[e] > 0 => d = e
        BY <3>2
      <3> QED BY <3>5, <3>6 DEF FenceInv
    <2> QED BY <2>1, <2>2
  <1>3. ASSUME NEW c \in Ticks, Fails(c) \/ ClaimAnswerLost(c) \/ Dies(c) PROVE FenceInv'
    <2>1. StaysIn(c)
      BY <1>3, LeavesInv DEF Fails, ClaimAnswerLost, Dies, Breaks, Drops, StaysIn, Critical
    <2> QED BY <2>1, StaysFence
  <1>4. CASE Passes
    <2>1. \A c \in Ticks : hold'[c] = Elapse(hold[c], 0) /\ hold[c] \in 0 .. HOLD
      BY <1>4 DEF Passes, TypeOK
    <2>2. ASSUME NEW c \in Ticks, tick'[c].pc \in Critical PROVE hold'[c] + tick'[c].age >= HOLD
      <3>1. tick[c] \in Locals /\ tick[c].age \in 0 .. MaxAge /\ tick[c].age < MaxAge
        BY <1>4 DEF Passes, TypeOK, Locals, Age
      <3>2. ~ At(c, "idle") /\ tick'[c] = [tick[c] EXCEPT !.age = @ + 1]
        BY <1>4, <2>2 DEF Passes, Idle, Critical
      <3>3. tick'[c].pc = tick[c].pc /\ tick'[c].age = tick[c].age + 1
        BY <3>1, <3>2 DEF Locals
      <3>4. hold[c] + tick[c].age >= HOLD
        BY <2>2, <3>3 DEF FenceInv
      <3> QED BY <2>1, <3>1, <3>3, <3>4, ReleaseAssumption DEF Elapse
    <2>3. \A c, d \in Ticks : hold'[c] > 0 /\ hold'[d] > 0 => c = d
      <3>1. \A c \in Ticks : hold'[c] > 0 => hold[c] > 0
        BY <2>1 DEF Elapse
      <3> QED BY <3>1 DEF FenceInv
    <2> QED BY <2>2, <2>3 DEF FenceInv
  <1>5. CASE UNCHANGED <<tick, hold>>
    BY <1>5 DEF FenceInv
  <1> QED BY <1>1, <1>2, <1>3, <1>4, <1>5
          DEF Next, vars, UserCuts, UserTags, UserDeletes, UserCommits, Reclaims

-----------------------------------------------------------------------------
(* The branches                                                            *)

\* Cutting a branch where none stands keeps the forest.
LEMMA CutKeeps ==
  ASSUME TypeOK, ForestInv, RootedInv, NEW b \in Branches, b \notin Present,
         NEW p \in Present \cup {Main}, NEW cut \in Cut, cut.parent = p,
         cut.holds = "subject" => p \in Subject,
         branch' = [branch EXCEPT ![b] = cut]
  PROVE  /\ ForestInv' /\ RootedInv'
         /\ Present' = Present \cup {b}
         /\ Subject = {} => Subject' = {}
  <1>0. /\ branch'[b] = cut /\ branch'[b].parent = p /\ p # None /\ p # b
        /\ \A d \in Branches : d # b => branch'[d] = branch[d]
    BY ReleaseAssumption DEF TypeOK, Present, Main, None
  <1>1. Present' = Present \cup {b}
    BY <1>0 DEF Present
  <1>2. \A d \in Branches : branch[d].parent # b
    BY DEF ForestInv
  <1>3. \A d \in Branches : branch'[d].parent \in Branches => branch'[d].parent \in Present'
    BY <1>0, <1>1, ReleaseAssumption DEF ForestInv
  <1>4. ASSUME NEW s \in SUBSET Branches, s # {} PROVE \E d \in s : branch'[d].parent \notin s
    <2>1. CASE s \subseteq {b}
      BY <1>4, <2>1, <1>0
    <2>2. CASE ~ (s \subseteq {b})
      <3>1. PICK d \in s \ {b} : branch[d].parent \notin s \ {b}
        <4>1. s \ {b} \in SUBSET Branches /\ s \ {b} # {}
          BY <2>2
        <4> QED BY <4>1 DEF ForestInv
      <3>2. d \in Branches /\ branch'[d] = branch[d] /\ branch[d].parent # b
        BY <3>1, <1>0, <1>2
      <3> QED BY <3>1, <3>2
    <2> QED BY <2>1, <2>2
  <1>5. \A d \in Branches : branch'[d].parent = None => branch'[d].holds = "clean"
    BY <1>0 DEF ForestInv
  <1>6. ForestInv'
    BY <1>3, <1>4, <1>5 DEF ForestInv
  <1>7. Subject \subseteq Subject'
    <2>1. b \notin Subject
      BY DEF Subject, ForestInv, Present
    <2> QED BY <2>1, <1>0 DEF Subject
  <1>8. \A d \in Subject' : d \in Subject \/ d = b
    BY <1>0 DEF Subject
  <1>9. b \in Subject' => p \in Subject
    BY <1>0 DEF Subject
  <1>10. RootedInv'
    <2> SUFFICES ASSUME NEW d \in Subject' PROVE d \in Named \/ branch'[d].parent \in Subject'
      BY DEF RootedInv
    <2>1. CASE d = b
      BY <2>1, <1>0, <1>7, <1>9
    <2>2. CASE d # b
      <3>1. d \in Subject /\ d \in Branches
        BY <2>2, <1>8 DEF Subject
      <3> QED BY <2>2, <3>1, <1>0, <1>7 DEF RootedInv
    <2> QED BY <2>1, <2>2
  <1>11. Subject = {} => Subject' = {}
    BY <1>8, <1>9
  <1> QED BY <1>1, <1>6, <1>10, <1>11

\* So does deleting one that no other was cut from.
LEMMA DropKeeps ==
  ASSUME TypeOK, ForestInv, RootedInv, NEW b \in Branches, Deletable(b),
         branch' = [branch EXCEPT ![b] = NoCut]
  PROVE  /\ ForestInv' /\ RootedInv'
         /\ Present' = Present \ {b}
         /\ Subject' = Subject \ {b}
  <1>0. /\ branch'[b].parent = None /\ branch'[b].holds = "clean"
        /\ \A d \in Branches : d # b => branch'[d] = branch[d]
    BY DEF TypeOK, NoCut
  <1>1. Present' = Present \ {b}
    BY <1>0 DEF Present
  <1>2. \A d \in Branches : branch[d].parent # b
    BY DEF Deletable, Children
  <1>3. \A d \in Branches : branch'[d].parent \in Branches => branch'[d].parent \in Present'
    BY <1>0, <1>1, <1>2, ReleaseAssumption DEF ForestInv
  <1>4. ASSUME NEW s \in SUBSET Branches, s # {} PROVE \E d \in s : branch'[d].parent \notin s
    <2>1. CASE b \in s
      BY <2>1, <1>0, ReleaseAssumption
    <2>2. CASE b \notin s
      <3>1. PICK d \in s : branch[d].parent \notin s
        BY <1>4 DEF ForestInv
      <3> QED BY <2>2, <3>1, <1>0
    <2> QED BY <2>1, <2>2
  <1>5. \A d \in Branches : branch'[d].parent = None => branch'[d].holds = "clean"
    BY <1>0 DEF ForestInv
  <1>6. ForestInv'
    BY <1>3, <1>4, <1>5 DEF ForestInv
  <1>7. Subject' = Subject \ {b}
    BY <1>0 DEF Subject
  <1>8. RootedInv'
    <2> SUFFICES ASSUME NEW d \in Subject' PROVE d \in Named \/ branch'[d].parent \in Subject'
      BY DEF RootedInv
    <2>1. d \in Subject /\ d # b /\ d \in Branches
      BY <1>7 DEF Subject
    <2> QED BY <2>1, <1>0, <1>2, <1>7 DEF RootedInv
  <1> QED BY <1>1, <1>6, <1>7, <1>8

-----------------------------------------------------------------------------
(* The record and the ticks                                                *)

\* What the invariant says beside the types and the fence.
RestInv ==
    /\ ForestInv /\ RootedInv /\ OwedInv /\ PhaseInv
    /\ \A c \in Ticks : TickInv(c)

\* A step of c that leaves the record and the refs alone.
LEMMA LocalStep ==
  ASSUME RestInv, NEW c \in Ticks, UNCHANGED <<record, branch, tag, owed>>,
         \A d \in Ticks : d # c => tick'[d] = tick[d], TickInv(c)'
  PROVE  RestInv'
  <1>1. Present' = Present /\ Subject' = Subject /\ PinTags' = PinTags
    BY DEF Present, Subject, PinTags
  <1>2. ForestInv' /\ RootedInv' /\ OwedInv' /\ PhaseInv'
    BY <1>1 DEF RestInv, ForestInv, RootedInv, OwedInv, PhaseInv
  <1>3. ASSUME NEW d \in Ticks, d # c PROVE TickInv(d)'
    <2>1. tick'[d] = tick[d] /\ TickInv(d)
      BY <1>3 DEF RestInv
    <2> QED BY <2>1, <1>1 DEF TickInv, At
  <1> QED BY <1>2, <1>3 DEF RestInv

LEMMA LocalRuns ==
  ASSUME ReleaseInv, NEW c \in Ticks,
         Begins(c) \/ Fences(c) \/ MakesPlan(c) \/ Lists(c) \/ Releases(c) \/ Fails(c) \/ Dies(c)
  PROVE  RestInv'
  <1>0. TypeOK /\ RestInv /\ TickInv(c)
    BY DEF ReleaseInv, RestInv
  <1>01. Present' = Present /\ Subject' = Subject /\ PinTags' = PinTags
         /\ UNCHANGED <<record, branch, tag, owed>>
    BY DEF Begins, Fences, MakesPlan, Lists, Releases, Fails, Dies, refs, Present, Subject, PinTags
  <1> SUFFICES TickInv(c)' /\ \A d \in Ticks : d # c => tick'[d] = tick[d]
    BY <1>0, <1>01, LocalStep
  <1> USE <1>0
  <1>1. CASE Begins(c)
    <2>1. /\ tick'[c] = [Idle EXCEPT !.pc = "fencing", !.head = head, !.phase = record.phase,
                                   !.tags = record.tags, !.plan = record.plan]
          /\ \A d \in Ticks : d # c => tick'[d] = tick[d]
      BY <1>1, GoesStays DEF Begins
    <2>2. tick'[c].pc = "fencing" /\ tick'[c].head = head /\ tick'[c].phase = record.phase
      BY <2>1 DEF Idle
    <2>3. head \in Versions
      BY DEF TypeOK
    <2> QED BY <2>1, <2>2, <2>3, <1>01 DEF TickInv, At, Versions
  <1>2. CASE Fences(c)
    <2>1. CASE Free
      <3>1. /\ tick'[c] = [tick[c] EXCEPT !.pc = "planning"]
            /\ \A d \in Ticks : d # c => tick'[d] = tick[d]
        BY <1>2, <2>1, GoesStays DEF Fences
      <3>2. tick'[c].pc = "planning" /\ tick'[c].head = tick[c].head /\ tick'[c].phase = tick[c].phase
        BY <3>1 DEF TypeOK, Locals
      <3>3. tick[c].head \in Versions
        BY <1>2 DEF Fences, TickInv
      <3> QED BY <3>1, <3>2, <3>3, <1>01 DEF TickInv, At, Versions
    <2>2. CASE ~ Free
      BY <1>2, <2>2, LeavesInv DEF Fences
    <2> QED BY <2>1, <2>2
  <1>3. CASE MakesPlan(c)
    <2>1. CASE tick[c].phase = "recreating"
      <3>1. /\ tick'[c] = [tick[c] EXCEPT !.pc = "claiming"]
            /\ \A d \in Ticks : d # c => tick'[d] = tick[d]
        BY <1>3, <2>1, GoesStays DEF MakesPlan
      <3>2. tick'[c].pc = "claiming" /\ tick'[c].phase = tick[c].phase
        BY <3>1 DEF TypeOK, Locals
      <3>3. record.phase = "recreating"
        BY <2>1 DEF TickInv
      <3> QED BY <3>1, <3>2, <3>3, <1>01 DEF TickInv, At
    <2>2. CASE tick[c].phase # "recreating"
      <3> DEFINE roots == Named \cup {tick[c].plan[i].branch : i \in DOMAIN tick[c].plan}
                 pins == {t \in Tags : /\ tag[t] # None
                                       /\ tag[t] \in Subtree(roots) \/ t \in NamedTags \cup tick[c].tags}
                 planOf(order) == [i \in DOMAIN order |->
                        [branch |-> order[i], version |-> tick[c].head,
                         parent |-> IF branch[order[i]].parent \in Subtree(roots)
                                    THEN branch[order[i]].parent ELSE Main]]
      <3>1. PICK order \in TopDown(Subtree(roots)) :
              Goes(c, [tick[c] EXCEPT !.pc = "claiming", !.tags = pins, !.plan = planOf(order)])
        BY <1>3, <2>2 DEF MakesPlan
      <3>2. tick[c].head \in Versions
        BY <1>3 DEF MakesPlan, TickInv
      <3>3. Planned(planOf(order)) = Subtree(roots)
        BY <3>2, PlanFacts
      <3>4. Subject \subseteq Subtree(roots)
        BY SubtreeCovers DEF RestInv
      <3>5. PinTags \subseteq pins
        BY ReleaseAssumption DEF PinTags, Main, None
      <3> HIDE DEF pins, planOf, roots
      <3>6. /\ tick'[c] = [tick[c] EXCEPT !.pc = "claiming", !.tags = pins, !.plan = planOf(order)]
            /\ \A d \in Ticks : d # c => tick'[d] = tick[d]
        BY <3>1, GoesStays
      <3>7. /\ tick'[c].pc = "claiming" /\ tick'[c].phase = tick[c].phase
            /\ tick'[c].tags = pins /\ tick'[c].plan = planOf(order)
        BY <3>6 DEF TypeOK, Locals
      <3> QED BY <2>2, <3>3, <3>4, <3>5, <3>6, <3>7, <1>01 DEF TickInv, At
    <2> QED BY <2>1, <2>2
  <1>4. CASE Lists(c)
    <2>1. PICK missing \in StepsFor(tick[c].plan, Branches \ Present) :
            Goes(c, [Idle EXCEPT !.pc = "recreating", !.age = tick[c].age, !.todo = missing])
      BY <1>4 DEF Lists
    <2>2. record.phase = "recreating" /\ tick[c].plan = record.plan /\ record.plan \in Seq(Step)
      BY <1>4 DEF Lists, TickInv, TypeOK, Record
    <2>3. owed \subseteq Planned(missing)
      <3>1. \A b : b \in Planned(missing) <=> b \in Planned(record.plan) /\ b \in Branches \ Present
        BY <2>2, StepsForFacts
      <3> QED BY <3>1 DEF TypeOK, RestInv, OwedInv
    <2>4. /\ tick'[c] = [Idle EXCEPT !.pc = "recreating", !.age = tick[c].age, !.todo = missing]
          /\ \A d \in Ticks : d # c => tick'[d] = tick[d]
      BY <2>1, GoesStays
    <2>5. tick'[c].pc = "recreating" /\ tick'[c].todo = missing /\ tick'[c].phase = "pending"
      BY <2>4 DEF Idle
    <2> QED BY <2>2, <2>3, <2>4, <2>5, <1>01 DEF TickInv, At
  <1>5. CASE Releases(c)
    <2>1. record.phase = "recreating" /\ owed = {}
      <3>1. Planned(<<>>) = {}
        BY DEF Planned
      <3> QED BY <1>5, <3>1 DEF Releases, TickInv
    <2>2. /\ tick'[c] = [Idle EXCEPT !.pc = "finishing", !.age = tick[c].age]
          /\ \A d \in Ticks : d # c => tick'[d] = tick[d]
      BY <1>5, GoesStays DEF Releases
    <2>3. tick'[c].pc = "finishing" /\ tick'[c].phase = "pending"
      BY <2>2 DEF Idle
    <2> QED BY <2>1, <2>2, <2>3, <1>01 DEF TickInv, At
  <1>6. CASE Fails(c) \/ Dies(c)
    BY <1>6, LeavesInv DEF Fails, Dies
  <1> QED BY <1>1, <1>2, <1>3, <1>4, <1>5, <1>6

\* A claim writes the plan before anything is deleted.
LEMMA ClaimStep ==
  ASSUME ReleaseInv, NEW c \in Ticks, At(c, "claiming"), record.kept = "kept",
         record' \in Claimed(c), UNCHANGED <<branch, tag, owed>>,
         \A d \in Ticks : d # c => tick'[d] = tick[d],
         \/ Goes(c, Idle)
         \/ Goes(c, [Holding(c, record') EXCEPT !.pc = IF record'.phase = "deleting"
                                                       THEN "untagging" ELSE "listing"])
  PROVE  RestInv'
  <1>0. TypeOK /\ FenceInv /\ RestInv /\ TickInv(c) /\ record \in Record
    BY DEF ReleaseInv, RestInv, TypeOK
  <1> USE <1>0
  <1>1. /\ record' \in Record
        /\ record'.kept = record.kept
        /\ record'.phase = IF record.phase = "recreating" THEN "recreating" ELSE "deleting"
        /\ record.phase = "recreating" => record'.plan = record.plan
        /\ record.phase # "pending" => Planned(record.plan) \subseteq Planned(record'.plan)
        /\ record.phase # "recreating" => /\ Planned(tick[c].plan) \subseteq Planned(record'.plan)
                                         /\ tick[c].tags \subseteq record'.tags
    BY ClaimedFacts
  <1>2. Present' = Present /\ Subject' = Subject /\ PinTags' = PinTags
    BY DEF Present, Subject, PinTags
  <1>3. ForestInv' /\ RootedInv'
    BY <1>2 DEF RestInv, ForestInv, RootedInv
  <1>4. OwedInv'
    BY <1>1, <1>2 DEF RestInv, OwedInv, Record
  <1>5. PhaseInv'
    BY <1>1, <1>2 DEF RestInv, PhaseInv, Record
  <1>6. ASSUME NEW d \in Ticks, d # c PROVE TickInv(d)'
    <2>1. tick'[d] = tick[d] /\ TickInv(d)
      BY <1>6 DEF RestInv
    <2>2. tick[d].pc \notin Critical
      BY <1>6, OneWorks DEF At, Critical
    <2>3. record.phase = "recreating" => record'.phase = "recreating"
      BY <1>1
    <2> QED BY <2>1, <2>2, <2>3 DEF TickInv, At, Critical
  <1>7. TickInv(c)'
    <2>1. CASE Goes(c, Idle)
      BY <2>1, LeavesInv
    <2>2. CASE Goes(c, [Holding(c, record') EXCEPT !.pc = IF record'.phase = "deleting"
                                                          THEN "untagging" ELSE "listing"])
      <3>1. tick'[c] = [Holding(c, record') EXCEPT !.pc = IF record'.phase = "deleting"
                                                          THEN "untagging" ELSE "listing"]
        BY <2>2, GoesStays
      <3>2. /\ tick'[c].pc = IF record'.phase = "deleting" THEN "untagging" ELSE "listing"
            /\ tick'[c].plan = record'.plan /\ tick'[c].tags = record'.tags /\ tick'[c].phase = "pending"
        BY <3>1 DEF Holding, Idle
      <3>3. CASE record.phase = "recreating"
        BY <3>2, <3>3, <1>1 DEF TickInv, At
      <3>4. CASE record.phase # "recreating"
        <4>1. Subject \subseteq Planned(tick[c].plan) /\ PinTags \subseteq tick[c].tags
          BY <3>4 DEF TickInv
        <4>2. Subject' \subseteq Planned(record'.plan) /\ PinTags' \subseteq record'.tags
          BY <4>1, <3>4, <1>1, <1>2
        <4>3. tick'[c].pc = "untagging" /\ record'.phase = "deleting"
          BY <3>2, <3>4, <1>1
        <4> QED BY <3>2, <4>2, <4>3 DEF TickInv, At
      <3> QED BY <3>3, <3>4
    <2> QED BY <2>1, <2>2
  <1> QED BY <1>3, <1>4, <1>5, <1>6, <1>7 DEF RestInv

LEMMA ClaimsStep ==
  ASSUME ReleaseInv, NEW c \in Ticks, Claims(c) \/ ClaimAnswerLost(c)
  PROVE  RestInv'
  <1>0. TypeOK /\ RestInv
    BY DEF ReleaseInv, RestInv
  <1>1. CASE record.kept = "kept" /\ record' \in Claimed(c)
    <2>1. At(c, "claiming") /\ UNCHANGED <<branch, tag, owed>>
      BY DEF Claims, ClaimAnswerLost, refs
    <2>2. \/ Goes(c, Idle)
          \/ Goes(c, [Holding(c, record') EXCEPT !.pc = IF record'.phase = "deleting"
                                                        THEN "untagging" ELSE "listing"])
      BY DEF Claims, ClaimAnswerLost
    <2>3. \A d \in Ticks : d # c => tick'[d] = tick[d]
      BY <1>0, <2>2, GoesStays
    <2> QED BY <1>1, <2>1, <2>2, <2>3, ClaimStep
  <1>2. CASE ~ (record.kept = "kept" /\ record' \in Claimed(c))
    <2>1. Goes(c, Idle) /\ UNCHANGED <<record, branch, tag, owed>>
      BY <1>2 DEF Claims, ClaimAnswerLost, refs
    <2> QED BY <1>0, <2>1, LeavesInv, LocalStep
  <1> QED BY <1>1, <1>2

LEMMA UntagsStep ==
  ASSUME ReleaseInv, NEW c \in Ticks, Untags(c)
  PROVE  RestInv'
  <1>0. TypeOK /\ FenceInv /\ RestInv /\ TickInv(c)
    BY DEF ReleaseInv, RestInv
  <1> USE <1>0
  <1>1. PICK standing \in StepsFor(tick[c].plan, Present) :
            Goes(c, [Idle EXCEPT !.pc = "deleting", !.age = tick[c].age, !.todo =
                        [i \in DOMAIN standing |-> standing[Len(standing) + 1 - i]]])
    BY DEF Untags
  <1> DEFINE todo == [i \in DOMAIN standing |-> standing[Len(standing) + 1 - i]]
  <1>2. tick[c].plan \in Seq(Step) /\ tick[c].pc = "untagging"
    BY DEF TypeOK, Locals, Untags, At
  <1>3. /\ standing \in Seq(Step)
        /\ \A b : b \in Planned(standing) <=> b \in Planned(tick[c].plan) /\ b \in Present
    BY <1>2, StepsForFacts
  <1>4. Len(standing) \in Nat /\ DOMAIN standing = 1 .. Len(standing)
    BY <1>3
  <1>5. \A b : b \in Planned(todo) <=> b \in Planned(standing)
    <2>1. ASSUME NEW b, NEW i \in DOMAIN standing, standing[i].branch = b PROVE b \in Planned(todo)
      <3>1. /\ Len(standing) + 1 - i \in DOMAIN todo
            /\ Len(standing) + 1 - (Len(standing) + 1 - i) = i
        BY <1>4
      <3>2. todo[Len(standing) + 1 - i] = standing[i]
        BY <3>1
      <3> QED BY <3>1, <3>2, <2>1, PlannedSet
    <2>2. ASSUME NEW b, NEW i \in DOMAIN todo, todo[i].branch = b PROVE b \in Planned(standing)
      <3>1. Len(standing) + 1 - i \in DOMAIN standing /\ todo[i] = standing[Len(standing) + 1 - i]
        BY <1>4
      <3> QED BY <3>1, <2>2, PlannedSet
    <2> HIDE DEF todo
    <2> QED BY <2>1, <2>2, PlannedSet
  <1> HIDE DEF todo
  <1>6. tick'[c] = [Idle EXCEPT !.pc = "deleting", !.age = tick[c].age, !.todo = todo]
        /\ \A d \in Ticks : d # c => tick'[d] = tick[d]
    BY <1>1, GoesStays DEF todo
  <1>7. tick'[c].pc = "deleting" /\ tick'[c].todo = todo /\ tick'[c].phase = "pending"
    BY <1>6 DEF Idle
  <1>8. /\ record.phase = "deleting" /\ tick[c].plan = record.plan
        /\ Subject \subseteq Planned(tick[c].plan) /\ PinTags \subseteq tick[c].tags
    BY <1>2 DEF TickInv, At
  <1>9. Present' = Present /\ Subject' = Subject /\ record' = record /\ owed' = owed /\ branch' = branch
    BY DEF Untags, Present, Subject
  <1>10. PinTags' = {} /\ PinTags' \subseteq PinTags
    BY <1>8, ReleaseAssumption DEF Untags, PinTags, Main, None
  <1>11. Subject \subseteq Present
    BY DEF RestInv, ForestInv, Subject, Present
  <1>12. TickInv(c)'
    BY <1>3, <1>5, <1>7, <1>8, <1>9, <1>10, <1>11 DEF TickInv, At
  <1>13. ASSUME NEW d \in Ticks, d # c PROVE TickInv(d)'
    <2>1. tick'[d] = tick[d] /\ TickInv(d)
      BY <1>13, <1>6 DEF RestInv
    <2> QED BY <2>1, <1>9, <1>10 DEF TickInv, At
  <1>14. ForestInv' /\ RootedInv' /\ OwedInv' /\ PhaseInv'
    BY <1>9, <1>10 DEF RestInv, ForestInv, RootedInv, OwedInv, PhaseInv
  <1> QED BY <1>12, <1>13, <1>14 DEF RestInv

\* Taking the first step off the list.
LEMMA TailPlanned ==
  ASSUME NEW todo \in Seq(Step), todo # <<>>
  PROVE  /\ Head(todo) \in Step /\ Tail(todo) \in Seq(Step)
         /\ \A b : b \in Planned(todo) <=> b = Head(todo).branch \/ b \in Planned(Tail(todo))
  <1>1. /\ Len(todo) \in Nat /\ Len(todo) > 0 /\ DOMAIN todo = 1 .. Len(todo)
        /\ Tail(todo) \in Seq(Step) /\ DOMAIN Tail(todo) = 1 .. Len(todo) - 1
        /\ Head(todo) = todo[1] /\ Head(todo) \in Step
        /\ \A i \in 1 .. Len(todo) - 1 : Tail(todo)[i] = todo[i + 1]
    OBVIOUS
  <1>2. ASSUME NEW b, NEW i \in DOMAIN todo, todo[i].branch = b
        PROVE  b = Head(todo).branch \/ b \in Planned(Tail(todo))
    <2>1. CASE i = 1
      BY <1>1, <1>2, <2>1
    <2>2. CASE i # 1
      <3>1. i - 1 \in 1 .. Len(todo) - 1 /\ (i - 1) + 1 = i
        BY <1>1, <2>2
      <3>2. i - 1 \in DOMAIN Tail(todo) /\ Tail(todo)[i - 1] = todo[i]
        BY <1>1, <3>1
      <3> QED BY <3>2, <1>2, PlannedSet
    <2> QED BY <2>1, <2>2
  <1>3. ASSUME NEW b, NEW i \in DOMAIN Tail(todo), Tail(todo)[i].branch = b PROVE b \in Planned(todo)
    <2>1. i + 1 \in DOMAIN todo /\ Tail(todo)[i] = todo[i + 1]
      BY <1>1
    <2> QED BY <2>1, <1>3, PlannedSet
  <1>4. Head(todo).branch \in Planned(todo)
    <2>1. 1 \in DOMAIN todo
      BY <1>1
    <2> QED BY <1>1, <2>1, PlannedSet
  <1> QED BY <1>1, <1>2, <1>3, <1>4, PlannedSet

LEMMA DeletesStep ==
  ASSUME ReleaseInv, NEW c \in Ticks, Deletes(c)
  PROVE  RestInv'
  <1>0. TypeOK /\ FenceInv /\ RestInv /\ TickInv(c) /\ ForestInv /\ RootedInv
    BY DEF ReleaseInv, RestInv
  <1> USE <1>0
  <1> DEFINE b == Head(tick[c].todo).branch
  <1>1. /\ tick[c].todo \in Seq(Step) /\ tick[c].todo # <<>> /\ tick[c].pc = "deleting"
    BY DEF TypeOK, Locals, Deletes, At
  <1>2. /\ Head(tick[c].todo) \in Step
        /\ \A d : d \in Planned(tick[c].todo) <=> d = b \/ d \in Planned(Tail(tick[c].todo))
    BY <1>1, TailPlanned
  <1>3. b \in Branches
    BY <1>2 DEF Step
  <1>4. /\ record.phase = "deleting" /\ PinTags = {}
        /\ Planned(tick[c].todo) \subseteq Planned(record.plan)
        /\ Subject \subseteq Planned(tick[c].todo)
    BY <1>1 DEF TickInv, At
  <1>5. record' = record /\ tag' = tag /\ PinTags' = PinTags
    BY DEF Deletes, PinTags
  <1> HIDE DEF b
  <1>6. CASE Deletable(b)
    <2>1. /\ branch' = [branch EXCEPT ![b] = NoCut] /\ owed' = owed \cup {b}
          /\ Goes(c, [tick[c] EXCEPT !.todo = Tail(@)])
      BY <1>6 DEF Deletes, b
    <2>2. /\ ForestInv' /\ RootedInv' /\ Present' = Present \ {b} /\ Subject' = Subject \ {b}
      BY <1>3, <1>6, <2>1, DropKeeps
    <2>3. OwedInv'
      BY <1>2, <1>4, <1>5, <2>1, <2>2 DEF RestInv, OwedInv
    <2>4. PhaseInv'
      BY <1>4, <1>5, <2>1 DEF RestInv, PhaseInv
    <2>5. /\ tick'[c] = [tick[c] EXCEPT !.todo = Tail(@)]
          /\ \A d \in Ticks : d # c => tick'[d] = tick[d]
      BY <2>1, GoesStays
    <2>6. tick'[c].pc = "deleting" /\ tick'[c].todo = Tail(tick[c].todo) /\ tick'[c].phase = tick[c].phase
      BY <1>1, <2>5 DEF TypeOK, Locals
    <2>7. TickInv(c)'
      BY <1>1, <1>2, <1>4, <1>5, <2>2, <2>6 DEF TickInv, At
    <2>8. ASSUME NEW d \in Ticks, d # c PROVE TickInv(d)'
      <3>1. tick'[d] = tick[d] /\ TickInv(d)
        BY <2>8, <2>5 DEF RestInv
      <3>2. tick[d].pc \notin Critical
        BY <1>1, <2>8, OneWorks DEF Critical
      <3> QED BY <3>1, <3>2, <1>4, <1>5 DEF TickInv, At, Critical
    <2> QED BY <2>2, <2>3, <2>4, <2>7, <2>8 DEF RestInv
  <1>7. CASE ~ Deletable(b)
    <2>1. Breaks(c) /\ UNCHANGED <<record, branch, tag, owed>>
      BY <1>7 DEF Deletes, b
    <2> QED BY <2>1, LeavesInv, LocalStep
  <1> QED BY <1>6, <1>7

LEMMA MarksStep ==
  ASSUME ReleaseInv, NEW c \in Ticks, Marks(c)
  PROVE  RestInv'
  <1>0. TypeOK /\ FenceInv /\ RestInv /\ TickInv(c) /\ record \in Record
    BY DEF ReleaseInv, RestInv, TypeOK
  <1> USE <1>0
  <1>1. tick[c].pc = "deleting" /\ tick[c].todo = <<>> /\ UNCHANGED <<branch, tag, owed>>
    BY DEF Marks, At, refs
  <1>2. record.phase = "deleting" /\ PinTags = {} /\ Subject = {}
    <2>1. Planned(<<>>) = {}
      BY DEF Planned
    <2> QED BY <1>1, <2>1 DEF TickInv, At
  <1>3. Present' = Present /\ Subject' = Subject /\ PinTags' = PinTags
    BY <1>1 DEF Present, Subject, PinTags
  <1>4. CASE record.kept = "kept"
    <2>1. /\ record' = [record EXCEPT !.phase = "recreating"]
          /\ Goes(c, [Holding(c, record) EXCEPT !.pc = "listing"])
      BY <1>4 DEF Marks
    <2>2. record'.phase = "recreating" /\ record'.kept = "kept" /\ record'.plan = record.plan
      BY <1>4, <2>1 DEF Record
    <2>3. /\ tick'[c] = [Holding(c, record) EXCEPT !.pc = "listing"]
          /\ \A d \in Ticks : d # c => tick'[d] = tick[d]
      BY <2>1, GoesStays
    <2>4. tick'[c].pc = "listing" /\ tick'[c].plan = record.plan /\ tick'[c].phase = "pending"
      BY <2>3 DEF Holding, Idle
    <2>5. ForestInv' /\ RootedInv' /\ OwedInv' /\ PhaseInv'
      BY <1>1, <1>2, <1>3, <2>2 DEF RestInv, ForestInv, RootedInv, OwedInv, PhaseInv
    <2>6. TickInv(c)'
      BY <2>2, <2>4 DEF TickInv, At
    <2>7. ASSUME NEW d \in Ticks, d # c PROVE TickInv(d)'
      <3>1. tick'[d] = tick[d] /\ TickInv(d)
        BY <2>7, <2>3 DEF RestInv
      <3>2. tick[d].pc \notin Critical
        BY <1>1, <2>7, OneWorks DEF Critical
      <3> QED BY <3>1, <3>2, <1>1, <2>2 DEF TickInv, At, Critical
    <2> QED BY <2>5, <2>6, <2>7 DEF RestInv
  <1>5. CASE record.kept # "kept"
    <2>1. Goes(c, Idle) /\ UNCHANGED <<record, branch, tag, owed>>
      BY <1>1, <1>5 DEF Marks
    <2> QED BY <2>1, LeavesInv, LocalStep
  <1> QED BY <1>4, <1>5

LEMMA RecreatesStep ==
  ASSUME ReleaseInv, NEW c \in Ticks, Recreates(c)
  PROVE  RestInv'
  <1>0. TypeOK /\ FenceInv /\ RestInv /\ TickInv(c) /\ ForestInv /\ RootedInv
    BY DEF ReleaseInv, RestInv
  <1> USE <1>0
  <1> DEFINE s == Head(tick[c].todo)
  <1>1. /\ tick[c].todo \in Seq(Step) /\ tick[c].todo # <<>> /\ tick[c].pc = "recreating"
    BY DEF TypeOK, Locals, Recreates, At
  <1>2. /\ s \in Step
        /\ \A d : d \in Planned(tick[c].todo) <=> d = s.branch \/ d \in Planned(Tail(tick[c].todo))
    BY <1>1, TailPlanned
  <1>3. record.phase = "recreating" /\ owed \subseteq Planned(tick[c].todo) /\ Subject = {}
    BY <1>1 DEF TickInv, At, RestInv, PhaseInv
  <1>4. record' = record /\ tag' = tag /\ PinTags' = PinTags
    BY DEF Recreates, PinTags
  <1> HIDE DEF s
  <1>5. CASE Creatable(s)
    <2> DEFINE cut == [parent |-> s.parent, version |-> s.version,
                       holds |-> IF s.parent = Main THEN "clean" ELSE branch[s.parent].holds]
    <2>1. /\ cut \in Cut /\ cut.parent = s.parent
          /\ cut.holds = "subject" => s.parent \in Subject
      BY <1>2, <1>5 DEF Step, Cut, Creatable, Present, TypeOK, Versions, Subject
    <2>2. s.branch \in Branches /\ s.branch \notin Present /\ s.parent \in Present \cup {Main}
      BY <1>2, <1>5 DEF Step, Creatable
    <2> HIDE DEF cut
    <2>3. /\ branch' = [branch EXCEPT ![s.branch] = cut] /\ owed' = owed \ {s.branch}
          /\ Goes(c, [tick[c] EXCEPT !.todo = Tail(@)])
      BY <1>5 DEF Recreates, s, cut
    <2>4. ForestInv' /\ RootedInv' /\ Present' = Present \cup {s.branch} /\ Subject' = {}
      BY <1>3, <2>1, <2>2, <2>3, CutKeeps
    <2>5. OwedInv'
      BY <1>4, <2>3, <2>4 DEF RestInv, OwedInv
    <2>6. PhaseInv'
      BY <1>3, <1>4, <2>3, <2>4 DEF RestInv, PhaseInv
    <2>7. /\ tick'[c] = [tick[c] EXCEPT !.todo = Tail(@)]
          /\ \A d \in Ticks : d # c => tick'[d] = tick[d]
      BY <2>3, GoesStays
    <2>8. tick'[c].pc = "recreating" /\ tick'[c].todo = Tail(tick[c].todo) /\ tick'[c].phase = tick[c].phase
      BY <1>1, <2>7 DEF TypeOK, Locals
    <2>9. TickInv(c)'
      BY <1>2, <1>3, <1>4, <2>3, <2>8 DEF TickInv, At
    <2>10. ASSUME NEW d \in Ticks, d # c PROVE TickInv(d)'
      <3>1. tick'[d] = tick[d] /\ TickInv(d)
        BY <2>10, <2>7 DEF RestInv
      <3>2. tick[d].pc \notin Critical
        BY <1>1, <2>10, OneWorks DEF Critical
      <3> QED BY <3>1, <3>2, <1>3, <1>4, <2>3 DEF TickInv, At, Critical
    <2> QED BY <2>4, <2>5, <2>6, <2>9, <2>10 DEF RestInv
  <1>6. CASE ~ Creatable(s)
    <2>1. Breaks(c) /\ UNCHANGED <<record, branch, tag, owed>>
      BY <1>6 DEF Recreates, s
    <2> QED BY <2>1, LeavesInv, LocalStep
  <1> QED BY <1>5, <1>6

\* The record goes, or its lease ends: neither changes the phase or the plan.
LEMMA LastStep ==
  ASSUME ReleaseInv, NEW c \in Ticks, Finishes(c) \/ HandsBack(c)
  PROVE  RestInv'
  <1>0. TypeOK /\ RestInv /\ TickInv(c) /\ record \in Record
    BY DEF ReleaseInv, RestInv, TypeOK
  <1> USE <1>0
  <1>1. Goes(c, Idle) /\ UNCHANGED <<branch, tag, owed>>
    BY DEF Finishes, HandsBack, refs
  <1>2. TickInv(c)' /\ \A d \in Ticks : d # c => tick'[d] = tick[d]
    BY <1>1, LeavesInv
  <1>3. record'.phase = record.phase /\ record'.plan = record.plan
    BY DEF Finishes, HandsBack, Record
  <1>4. record'.kept = "gone" => record.phase = "recreating" /\ owed = {}
    <2>1. CASE Finishes(c)
      BY <2>1 DEF Finishes, TickInv
    <2>2. CASE HandsBack(c)
      <3>1. record'.kept = record.kept
        BY <2>2 DEF HandsBack, Record
      <3> QED BY <3>1 DEF RestInv, PhaseInv
    <2> QED BY <2>1, <2>2
  <1>5. Present' = Present /\ Subject' = Subject /\ PinTags' = PinTags
    BY <1>1 DEF Present, Subject, PinTags
  <1>6. ForestInv' /\ RootedInv' /\ OwedInv' /\ PhaseInv'
    BY <1>1, <1>3, <1>4, <1>5 DEF RestInv, ForestInv, RootedInv, OwedInv, PhaseInv
  <1>7. ASSUME NEW d \in Ticks, d # c PROVE TickInv(d)'
    <2>1. tick'[d] = tick[d] /\ TickInv(d)
      BY <1>7, <1>2 DEF RestInv
    <2> QED BY <2>1, <1>1, <1>3, <1>5 DEF TickInv, At
  <1> QED BY <1>2, <1>6, <1>7 DEF RestInv

\* What users do beside the release.
LEMMA UsersStep ==
  ASSUME ReleaseInv, UserCuts \/ UserTags \/ UserDeletes
  PROVE  RestInv'
  <1>0. TypeOK /\ FenceInv /\ RestInv /\ ForestInv /\ RootedInv /\ record.kept = "kept"
    BY DEF ReleaseInv, RestInv, UserCuts, UserTags, UserDeletes, Change
  <1> USE <1>0
  <1>01. record' = record /\ tick' = tick
    BY DEF UserCuts, UserTags, UserDeletes
  <1>1. CASE UserCuts
    <2>1. PICK b \in Cuttable \ Present, p \in Present \cup {Main} :
            /\ owed' = owed \ {b}
            /\ branch' = [branch EXCEPT ![b] =
                 IF p = Main THEN [parent |-> Main, version |-> head, holds |-> "clean"]
                 ELSE [branch[p] EXCEPT !.parent = p]]
      BY <1>1 DEF UserCuts
    <2> DEFINE cut == IF p = Main THEN [parent |-> Main, version |-> head, holds |-> "clean"]
                      ELSE [branch[p] EXCEPT !.parent = p]
    <2>2. cut \in Cut /\ cut.parent = p /\ (cut.holds = "subject" => p \in Subject)
      BY ReleaseAssumption DEF Present, Cut, TypeOK, Versions, Subject
    <2>3. b \in Branches /\ b \notin Present /\ branch' = [branch EXCEPT ![b] = cut]
      BY <2>1, ReleaseAssumption
    <2> HIDE DEF cut
    <2>4. ForestInv' /\ RootedInv' /\ Present' = Present \cup {b} /\ (Subject = {} => Subject' = {})
      BY <2>2, <2>3, CutKeeps
    <2>5. PinTags' = PinTags
      BY <1>1 DEF UserCuts, PinTags
    <2>6. OwedInv'
      BY <1>01, <2>1, <2>4 DEF RestInv, OwedInv
    <2>7. PhaseInv'
      BY <1>01, <2>4, <2>5 DEF RestInv, PhaseInv
    <2>8. ASSUME NEW d \in Ticks PROVE TickInv(d)'
      <3>1. TickInv(d) /\ tick'[d] = tick[d]
        BY <1>01 DEF RestInv
      <3>2. tick[d].pc \notin Critical
        BY <1>1, OneWorks DEF UserCuts
      <3> QED BY <3>1, <3>2, <1>01, <2>1 DEF TickInv, At, Critical
    <2> QED BY <2>4, <2>6, <2>7, <2>8 DEF RestInv
  <1>2. CASE UserTags
    <2>1. Present' = Present /\ Subject' = Subject /\ owed' = owed /\ branch' = branch
      BY <1>2 DEF UserTags, Present, Subject
    <2>2. PinTags' \subseteq PinTags
      BY <1>2, ReleaseAssumption DEF UserTags, PinTags, Present, TypeOK
    <2>3. ForestInv' /\ RootedInv' /\ OwedInv' /\ PhaseInv'
      BY <1>01, <2>1, <2>2 DEF RestInv, ForestInv, RootedInv, OwedInv, PhaseInv
    <2>4. ASSUME NEW d \in Ticks PROVE TickInv(d)'
      <3>1. TickInv(d) /\ tick'[d] = tick[d]
        BY <1>01 DEF RestInv
      <3> QED BY <3>1, <1>01, <2>1, <2>2 DEF TickInv, At
    <2> QED BY <2>3, <2>4 DEF RestInv
  <1>3. CASE UserDeletes
    <2>1. PICK b \in Branches : Deletable(b) /\ branch' = [branch EXCEPT ![b] = NoCut]
      BY <1>3 DEF UserDeletes
    <2>2. ForestInv' /\ RootedInv' /\ Present' = Present \ {b} /\ Subject' = Subject \ {b}
      BY <2>1, DropKeeps
    <2>3. owed' = owed /\ PinTags' = PinTags
      BY <1>3 DEF UserDeletes, PinTags
    <2>4. OwedInv' /\ PhaseInv'
      BY <1>01, <2>2, <2>3 DEF RestInv, OwedInv, PhaseInv
    <2>5. ASSUME NEW d \in Ticks PROVE TickInv(d)'
      <3>1. TickInv(d) /\ tick'[d] = tick[d]
        BY <1>01 DEF RestInv
      <3> QED BY <3>1, <1>01, <2>2, <2>3 DEF TickInv, At
    <2> QED BY <2>2, <2>4, <2>5 DEF RestInv
  <1> QED BY <1>1, <1>2, <1>3

\* Time passes.
LEMMA PassesStep ==
  ASSUME ReleaseInv, Passes
  PROVE  RestInv'
  <1>0. TypeOK /\ RestInv /\ record \in Record
    BY DEF ReleaseInv, RestInv, TypeOK
  <1> USE <1>0
  <1>1. record'.phase = record.phase /\ record'.plan = record.plan /\ record'.kept = record.kept
    BY DEF Passes, Record
  <1>2. /\ Present' = Present /\ Subject' = Subject /\ PinTags' = PinTags
        /\ UNCHANGED <<branch, tag, owed>>
    BY DEF Passes, refs, Present, Subject, PinTags
  <1>3. ForestInv' /\ RootedInv' /\ OwedInv' /\ PhaseInv'
    BY <1>1, <1>2 DEF RestInv, ForestInv, RootedInv, OwedInv, PhaseInv
  <1>4. ASSUME NEW c \in Ticks PROVE TickInv(c)'
    <2>1. CASE At(c, "idle")
      <3>1. tick'[c] = Idle
        BY <2>1 DEF Passes
      <3> QED BY <3>1 DEF Idle, TickInv, At
    <2>2. CASE ~ At(c, "idle")
      <3>1. tick'[c] = [tick[c] EXCEPT !.age = @ + 1] /\ tick[c] \in Locals
        BY <2>2 DEF Passes, TypeOK
      <3>2. /\ tick'[c].pc = tick[c].pc /\ tick'[c].head = tick[c].head /\ tick'[c].phase = tick[c].phase
            /\ tick'[c].tags = tick[c].tags /\ tick'[c].plan = tick[c].plan /\ tick'[c].todo = tick[c].todo
        BY <3>1 DEF Locals
      <3>3. TickInv(c)
        BY DEF RestInv
      <3> QED BY <3>2, <3>3, <1>1, <1>2 DEF TickInv, At, Versions
    <2> QED BY <2>1, <2>2
  <1> QED BY <1>3, <1>4 DEF RestInv

\* Nothing the invariant speaks of changes.
LEMMA StutterStep ==
  ASSUME RestInv, UNCHANGED <<record, branch, tag, tick, owed>>
  PROVE  RestInv'
  <1>1. Present' = Present /\ Subject' = Subject /\ PinTags' = PinTags
    BY DEF Present, Subject, PinTags
  <1>2. ForestInv' /\ RootedInv' /\ OwedInv' /\ PhaseInv'
    BY <1>1 DEF RestInv, ForestInv, RootedInv, OwedInv, PhaseInv
  <1>3. ASSUME NEW c \in Ticks PROVE TickInv(c)'
    <2>1. TickInv(c)
      BY DEF RestInv
    <2> QED BY <2>1, <1>1 DEF TickInv, At, Versions
  <1> QED BY <1>2, <1>3 DEF RestInv

LEMMA RestStep ==
  ASSUME ReleaseInv, [Next]_vars
  PROVE  RestInv'
  <1>0. RestInv
    BY DEF ReleaseInv, RestInv
  <1>1. ASSUME NEW c \in Ticks, Runs(c) PROVE RestInv'
    BY <1>1, LocalRuns, ClaimsStep, UntagsStep, DeletesStep, MarksStep, RecreatesStep, LastStep DEF Runs
  <1>2. ASSUME NEW c \in Ticks, Fails(c) \/ ClaimAnswerLost(c) \/ Dies(c) PROVE RestInv'
    BY <1>2, LocalRuns, ClaimsStep
  <1>3. CASE UserCuts \/ UserTags \/ UserDeletes
    BY <1>3, UsersStep
  <1>4. CASE Passes
    BY <1>4, PassesStep
  <1>5. CASE UserCommits \/ Reclaims \/ UNCHANGED vars
    <2>1. UNCHANGED <<record, branch, tag, tick, owed>>
      BY <1>5 DEF UserCommits, Reclaims, vars, refs
    <2> QED BY <1>0, <2>1, StutterStep
  <1> QED BY <1>1, <1>2, <1>3, <1>4, <1>5 DEF Next

-----------------------------------------------------------------------------
(* The theorem                                                             *)

\* What pins the subject at first was named, or was cut from what does.
LEMMA PinnedRooted ==
  ASSUME NEW b \in Pinned, b \notin Named
  PROVE  Forks[b] \in Pinned
  <1> SUFFICES ASSUME Forks[b] \notin Pinned PROVE FALSE
    OBVIOUS
  <1> DEFINE s == Pinned \ {b}
  <1>1. s \in SUBSET Branches /\ b \notin s
    BY DEF Pinned
  <1>2. Named \subseteq s
    <2>1. Named \subseteq Pinned
      BY ReleaseAssumption DEF Pinned
    <2> QED BY <2>1
  <1>3. ASSUME NEW d \in Branches, Forks[d] \in s PROVE d \in s
    <2>1. Forks[d] \in Pinned
      BY <1>3
    <2>2. d \in Pinned
      BY <2>1 DEF Pinned
    <2> QED BY <2>1, <2>2
  <1> HIDE DEF s
  <1> QED BY <1>1, <1>2, <1>3 DEF Pinned

LEMMA ReleaseInit == Init => ReleaseInv
  <1> SUFFICES ASSUME Init PROVE ReleaseInv
    OBVIOUS
  <1>0. <<>> \in Seq(Step) /\ Planned(<<>>) = {}
    BY DEF Planned
  <1>1. ASSUME NEW b \in Branches
        PROVE  /\ branch[b] \in Cut /\ branch[b].parent = Forks[b]
               /\ branch[b].holds = IF Forks[b] # None /\ b \in Pinned THEN "subject" ELSE "clean"
    <2>1. CASE Forks[b] = None
      BY <2>1, NoCutTyped DEF Init, NoCut
    <2>2. CASE Forks[b] # None
      <3>1. branch[b] = [parent |-> Forks[b], version |-> 1,
                         holds |-> IF b \in Pinned THEN "subject" ELSE "clean"]
        BY <2>2 DEF Init
      <3>2. Forks[b] \in Branches \cup {Main, None} /\ 1 \in 0 .. MaxHead
        BY ReleaseAssumption
      <3> QED BY <2>2, <3>1, <3>2 DEF Cut
    <2> QED BY <2>1, <2>2
  <1>2. TypeOK
    <2>1. branch \in [Branches -> Cut]
      BY <1>1 DEF Init
    <2>2. record \in Record
      BY <1>0, ReleaseAssumption DEF Init, Record
    <2>3. tick \in [Ticks -> Locals] /\ hold \in [Ticks -> 0 .. HOLD]
      BY IdleTyped, ReleaseAssumption DEF Init
    <2>4. tag \in [Tags -> Branches \cup {Main, None}]
      BY DEF Init
    <2>5. /\ versions \in SUBSET Versions /\ head \in Versions /\ owed \in SUBSET Branches
          /\ faults \in 0 .. MaxFaults /\ changes \in 0 .. MaxChanges
      BY ReleaseAssumption DEF Init, Versions
    <2> QED BY <2>1, <2>2, <2>3, <2>4, <2>5 DEF TypeOK
  <1>3. FenceInv
    BY DEF Init, FenceInv, Idle, Critical
  <1>4. Present = {b \in Branches : Forks[b] # None}
    BY <1>1 DEF Present
  <1>5. ForestInv
    <2>1. \A b \in Branches : branch[b].parent \in Branches => branch[b].parent \in Present
      BY <1>1, <1>4, ReleaseAssumption
    <2>2. \A s \in SUBSET Branches : s # {} => \E b \in s : branch[b].parent \notin s
      <3> SUFFICES ASSUME NEW s \in SUBSET Branches, s # {} PROVE \E b \in s : branch[b].parent \notin s
        OBVIOUS
      <3>1. PICK b \in s : Forks[b] \notin s
        BY ReleaseAssumption
      <3> QED BY <3>1, <1>1
    <2>3. \A b \in Branches : branch[b].parent = None => branch[b].holds = "clean"
      BY <1>1
    <2> QED BY <2>1, <2>2, <2>3 DEF ForestInv
  <1>6. RootedInv
    <2> SUFFICES ASSUME NEW b \in Subject PROVE b \in Named \/ branch[b].parent \in Subject
      BY DEF RootedInv
    <2>1. b \in Branches /\ b \in Pinned /\ branch[b].parent = Forks[b]
      BY <1>1 DEF Subject
    <2>2. CASE b \notin Named
      <3>1. Forks[b] \in Pinned /\ Forks[b] \in Branches
        BY <2>1, <2>2, PinnedRooted DEF Pinned
      <3>2. Forks[Forks[b]] # None
        BY <2>1, <3>1, ReleaseAssumption
      <3>3. Forks[b] \in Subject
        BY <3>1, <3>2, <1>1 DEF Subject
      <3> QED BY <2>1, <3>3
    <2> QED BY <2>2
  <1>7. OwedInv /\ PhaseInv
    BY DEF Init, OwedInv, PhaseInv
  <1>8. \A c \in Ticks : TickInv(c)
    BY DEF Init, TickInv, At, Idle
  <1> QED BY <1>2, <1>3, <1>5, <1>6, <1>7, <1>8 DEF ReleaseInv

LEMMA ReleaseStep == ReleaseInv /\ [Next]_vars => ReleaseInv'
  <1> SUFFICES ASSUME ReleaseInv, [Next]_vars PROVE ReleaseInv'
    OBVIOUS
  <1>1. TypeOK'
    BY TypeStep DEF ReleaseInv
  <1>2. FenceInv'
    BY FenceStep DEF ReleaseInv
  <1>3. RestInv'
    BY RestStep
  <1> QED BY <1>1, <1>2, <1>3 DEF ReleaseInv, RestInv

\* The recorded plan covers what the release deleted and has not brought back,
\* and a release that is over owes nothing, left no named tag on main and no
\* branch that holds the subject (release_due), for every forest of branches,
\* every choice of pins and every schedule of ticks, failures and users.
THEOREM PlanAlwaysCovers == Spec => []PlanCoversTheRelease
  <1>1. ReleaseInv => PlanCoversTheRelease
    <2> SUFFICES ASSUME ReleaseInv PROVE PlanCoversTheRelease
      OBVIOUS
    <2>1. record.kept \in {"kept", "gone"} /\ \A b \in Branches : branch[b].holds \in {"clean", "subject"}
      BY DEF ReleaseInv, TypeOK, Record, Cut
    <2>2. owed \subseteq Planned(record.plan)
      BY DEF ReleaseInv, OwedInv
    <2>3. record.kept = "gone" => owed = {} /\ Subject = {} /\ PinTags = {}
      BY DEF ReleaseInv, PhaseInv
    <2>4. Subject = {} => \A b \in Branches : branch[b].holds = "clean"
      BY <2>1 DEF Subject
    <2>5. PinTags = {} => \A t \in NamedTags : tag[t] # Main
      BY DEF PinTags
    <2> QED BY <2>1, <2>2, <2>3, <2>4, <2>5 DEF PlanCoversTheRelease
  <1> QED BY <1>1, ReleaseInit, ReleaseStep, PTL DEF Spec

-----------------------------------------------------------------------------
(* The tables derived from the erased one, in module Erasure: for any      *)
(* derivations, declarations, verifications and failures, a released       *)
(* obligation accounts for them.                                           *)

\* The tables nothing is owed on.
Accountable == Followed \cup {d \in Derived : claim[d] \in {"gone", "taken"}}

\* What the derivations, the claims and the records are.
KinInv ==
    /\ edges \cup declaring \subseteq Edges
    /\ follows \in [Derived -> {Nothing, Source} \cup Derived]
    /\ claim \in [Derived -> {"held", "kept", "gone", "taken"}]
    /\ DOMAIN since = {"known", "late", "then"}
    /\ DOMAIN request = Verifiers

\* Where a verification has not judged the derived tables yet.
BeforeJudging == {"list", "judge", "tags", "fence", "reclaim", "relist", "probe", "derive"}

\* What a verification knows of the tables that were derived when it began.
JudgingInv(r) ==
    /\ DOMAIN request[r] = DOMAIN NotVerifying
    /\ request[r].pc \in BeforeJudging => request[r].then \subseteq Walked(edges)
    /\ request[r].pc = "follow" => request[r].then \subseteq request[r].derived
    /\ request[r].then \subseteq Derived
    /\ request[r].pc \in {"schedule", "settle"} /\ request[r].settled => request[r].then \subseteq Accountable

DerivedInv ==
    /\ KinInv
    /\ since.then \subseteq Accountable
    /\ \A r \in Verifiers : JudgingInv(r)

LEMMA WalkedGrows ==
  ASSUME NEW known, NEW more, known \subseteq more
  PROVE  Walked(known) \subseteq Walked(more)
  BY DEF Walked

LEMMA WalkedDerived == \A known : Walked(known) \subseteq Derived
  BY DEF Walked

LEMMA WalkedClosed ==
  ASSUME NEW known, known \subseteq Edges, NEW e \in known, e[1] \in Walked(known) \cup {Source}
  PROVE  e[2] \in Walked(known)
  <1>1. e[2] \in Derived
    BY DEF Edges
  <1>2. ASSUME NEW s \in SUBSET Derived, \A f \in known : f[1] \in s \cup {Source} => f[2] \in s
        PROVE  e[2] \in s
    BY <1>2 DEF Walked
  <1> QED BY <1>1, <1>2 DEF Walked

\* Every table a walk comes to, it comes to through a recorded input.
LEMMA WalkedThrough ==
  ASSUME NEW known, known \subseteq Edges, NEW d \in Walked(known)
  PROVE  \E e \in known : e[2] = d /\ e[1] \in Walked(known) \cup {Source}
  <1> SUFFICES ASSUME \A e \in known : e[2] = d => e[1] \notin Walked(known) \cup {Source}
               PROVE  FALSE
    OBVIOUS
  <1> DEFINE s == Walked(known) \ {d}
  <1>1. s \in SUBSET Derived
    BY WalkedDerived
  <1>2. ASSUME NEW e \in known, e[1] \in s \cup {Source} PROVE e[2] \in s
    <2>1. e[1] \in Walked(known) \cup {Source}
      BY <1>2
    <2>2. e[2] \in Walked(known)
      BY <2>1, WalkedClosed
    <2> QED BY <2>1, <2>2
  <1>3. d \in s
    BY <1>1, <1>2 DEF Walked
  <1> QED BY <1>3

\* Obligations that follow others stay.
LEMMA FollowedGrows ==
  ASSUME KinInv, \A c \in Derived : follows[c] # Nothing => follows'[c] = follows[c]
  PROVE  Followed \subseteq Followed'
  <1> SUFFICES ASSUME NEW d \in Derived, d \in Followed, NEW s \in SUBSET Derived,
                      \A c \in Derived : follows'[c] \in s \cup {Source} => c \in s
               PROVE  d \in s
    BY DEF Followed
  <1>1. \A c \in Derived : follows[c] \in s \cup {Source} => c \in s
    BY ErasureAssumption DEF Source, Nothing
  <1> QED BY <1>1 DEF Followed

\* Nothing is owed again on a table on which nothing was.
LEMMA AccountableGrows ==
  ASSUME KinInv, \A c \in Derived : follows[c] # Nothing => follows'[c] = follows[c],
         \A c \in Derived : claim[c] \in {"gone", "taken"} => claim'[c] \in {"gone", "taken"}
  PROVE  Accountable \subseteq Accountable'
  BY FollowedGrows DEF Accountable

LEMMA KinSteps ==
  ASSUME DerivedInv, ErasureNext
  PROVE  /\ edges \subseteq edges' /\ (edges \cup declaring)' \subseteq Edges
         /\ follows' \in [Derived -> {Nothing, Source} \cup Derived]
         /\ claim' \in [Derived -> {"held", "kept", "gone", "taken"}]
         /\ Accountable \subseteq Accountable'
  <1>0. KinInv
    BY DEF DerivedInv
  <1>1. CASE UNCHANGED kin
    BY <1>0, <1>1, AccountableGrows DEF kin, KinInv
  <1>2. CASE Declares
    BY <1>0, <1>2, AccountableGrows DEF Declares, KinInv
  <1>3. CASE Records
    BY <1>0, <1>3, AccountableGrows DEF Records, KinInv
  <1>4. CASE Follows
    <2>1. PICK d \in Derived, o \in {Source} \cup Derived : follows[d] = Nothing /\ follows' = [follows EXCEPT ![d] = o]
      BY <1>4 DEF Follows
    <2>2. claim' = claim /\ edges' = edges /\ declaring' = declaring
      BY <1>4 DEF Follows
    <2>3. follows' \in [Derived -> {Nothing, Source} \cup Derived]
      BY <1>0, <2>1 DEF KinInv
    <2>4. \A c \in Derived : follows[c] # Nothing => follows'[c] = follows[c]
      BY <1>0, <2>1 DEF KinInv
    <2> QED BY <1>0, <2>2, <2>3, <2>4, AccountableGrows DEF KinInv
  <1>5. CASE Leaves
    <2>1. follows' = follows /\ edges' = edges /\ declaring' = declaring
      BY <1>5 DEF Leaves
    <2>2. claim' \in [Derived -> {"held", "kept", "gone", "taken"}]
      BY <1>0, <1>5 DEF Leaves, KinInv
    <2>3. \A c \in Derived : claim[c] \in {"gone", "taken"} => claim'[c] \in {"gone", "taken"}
      BY <1>0, <1>5 DEF Leaves, KinInv
    <2> QED BY <1>0, <2>1, <2>2, <2>3, AccountableGrows DEF KinInv
  <1>6. UNCHANGED kin \/ Declares \/ Records \/ Follows \/ Leaves
    <2>1. CASE Rewrites \/ Cuts \/ Pinning \/ DropsBranch \/ Ages \/ Sweeps \/ PinsGo \/ Erases
      BY <2>1 DEF Rewrites, Cuts, Pinning, DropsBranch, Ages, Sweeps, PinsGo, Erases, Others
    <2>2. ASSUME NEW r \in Verifiers, Verifies(r) \/ VerifyFails(r) \/ VerifierDies(r) PROVE UNCHANGED kin
      BY <2>2 DEF Verifies, VerifyFails, VerifierDies, Reads, ListsBranches, Judges, ListsTags, DropsTag, FencesHistory,
         ReclaimsRefs, Unfences, Relists, Probes, Accounts, Walks, JudgesDerived, Schedules, Settles, VerifyVars
    <2>3. CASE Watches \/ ListsLate \/ WatchFails
      BY <2>3 DEF Watches, ListsLate, WatchFails
    <2> QED BY <2>1, <2>2, <2>3 DEF ErasureNext
  <1> QED BY <1>1, <1>2, <1>3, <1>4, <1>5, <1>6

LEMMA LocalsHave == {"pc", "then", "derived", "settled", "late", "known"} \subseteq DOMAIN NotVerifying
  BY DEF NotVerifying

\* What a verification knows is kept while it neither begins nor judges.
LEMMA KeptJudging ==
  ASSUME NEW r, JudgingInv(r), edges \subseteq edges', Accountable \subseteq Accountable',
         DOMAIN request'[r] = DOMAIN request[r], request'[r].then = request[r].then,
         \/ /\ request'[r].pc = request[r].pc
            /\ request'[r].derived = request[r].derived
            /\ request'[r].settled => request[r].settled
         \/ request[r].pc \in BeforeJudging /\ request'[r].pc \in BeforeJudging
         \/ request'[r].pc \in {"schedule", "settle"} /\ (request'[r].settled => request[r].then \subseteq Accountable)
  PROVE  JudgingInv(r)'
  <1>1. Walked(edges) \subseteq Walked(edges')
    BY WalkedGrows
  <1>2. request'[r].pc \in BeforeJudging => request'[r].then \subseteq Walked(edges')
    BY <1>1 DEF JudgingInv, BeforeJudging
  <1>3. request'[r].pc = "follow" => request'[r].then \subseteq request'[r].derived
    BY DEF JudgingInv, BeforeJudging
  <1>4. request'[r].pc \in {"schedule", "settle"} /\ request'[r].settled => request'[r].then \subseteq Accountable'
    BY DEF JudgingInv, BeforeJudging
  <1> QED BY <1>2, <1>3, <1>4 DEF JudgingInv

\* A verification's step is its own.
LEMMA BecomesOwn ==
  ASSUME DerivedInv, NEW r \in Verifiers, NEW l, Becomes(r, l)
  PROVE  /\ request'[r] = l /\ DOMAIN request' = Verifiers
         /\ \A q \in Verifiers : q # r => request'[q] = request[q]
  BY DEF Becomes, DerivedInv, KinInv

\* A verification that ended or was never begun knows nothing.
LEMMA NotVerifyingJudges ==
  ASSUME NEW r, request'[r] = NotVerifying
  PROVE  JudgingInv(r)'
  BY DEF JudgingInv, NotVerifying, BeforeJudging

LEMMA AccountedKeeps ==
  ASSUME NEW l, DOMAIN l = DOMAIN NotVerifying, NEW tags
  PROVE  /\ DOMAIN Accounted(l, tags) = DOMAIN l
         /\ Accounted(l, tags).then = l.then /\ Accounted(l, tags).pc = "derive"
  BY LocalsHave DEF Accounted

\* The steps before the derived tables are judged go on with what was known.
LEMMA EarlySteps ==
  ASSUME DerivedInv, NEW r \in Verifiers,
         \/ ListsBranches(r) \/ Judges(r) \/ ListsTags(r) \/ DropsTag(r) \/ FencesHistory(r) \/ ReclaimsRefs(r)
         \/ Unfences(r) \/ Relists(r) \/ Probes(r) \/ Accounts(r)
  PROVE  /\ DOMAIN request'[r] = DOMAIN request[r] /\ request'[r].then = request[r].then
         /\ request[r].pc \in BeforeJudging /\ request'[r].pc \in BeforeJudging
  <1>0. /\ DOMAIN request[r] = DOMAIN NotVerifying /\ {"pc", "then"} \subseteq DOMAIN request[r]
        /\ DOMAIN request = Verifiers
    BY LocalsHave DEF DerivedInv, JudgingInv, KinInv
  <1>1. CASE ListsBranches(r)
    <2>1. request'[r] = [request[r] EXCEPT !.pc = "judge", !.listed = Standing, !.todo = Standing \cup {Trunk},
                                           !.forks = [b \in Standing |-> fork[b]]]
      BY <1>1, BecomesOwn DEF ListsBranches
    <2> QED BY <1>0, <1>1, <2>1 DEF ListsBranches, IsAt, BeforeJudging
  <1>2. CASE Judges(r)
    <2>1. PICK ref :
            LET clean == Exists(ref) /\ Probe(<<ref, HeadOf(ref)>>, {}) = "clean" IN
            Becomes(r, [request[r] EXCEPT !.todo = @ \ {ref}, !.open = @ \/ ~ clean,
                            !.clean  = IF clean THEN @ \cup {ref} ELSE @,
                            !.proved = IF clean THEN @ \cup SegmentsIn(Latest(ref).objs) ELSE @])
      BY <1>2 DEF Judges
    <2>2. request'[r].then = request[r].then /\ request'[r].pc = request[r].pc /\ DOMAIN request'[r] = DOMAIN request[r]
      BY <1>0, <2>1 DEF Becomes
    <2> QED BY <1>2, <2>2 DEF Judges, IsAt, BeforeJudging
  <1>3. CASE ListsTags(r)
    <2>1. \/ \E tags : request'[r] = [request[r] EXCEPT !.pc = "tags", !.tags = tags]
          \/ \E open : request'[r] = [request[r] EXCEPT !.pc = "fence", !.open = open]
      BY <1>3, BecomesOwn DEF ListsTags
    <2> QED BY <1>0, <1>3, <2>1 DEF ListsTags, IsAt, BeforeJudging
  <1>4. CASE DropsTag(r)
    <2>1. \/ request'[r] = [request[r] EXCEPT !.pc = "fence"]
          \/ \E t : Becomes(r, [request[r] EXCEPT !.tags = [u \in DOMAIN @ \ {t} |-> @[u]],
                               !.open = @ \/ (Answers(request[r].tags[t]) /\ tagged[t] = NoRef)])
      BY <1>4, BecomesOwn DEF DropsTag
    <2>2. request'[r].then = request[r].then /\ request'[r].pc \in {request[r].pc, "fence"}
          /\ DOMAIN request'[r] = DOMAIN request[r]
      BY <1>0, <2>1 DEF Becomes
    <2> QED BY <1>4, <2>2 DEF DropsTag, IsAt, BeforeJudging
  <1>5. CASE FencesHistory(r)
    <2>1. request'[r] = [request[r] EXCEPT !.pc = "reclaim", !.todo = request[r].listed \cup {Trunk}]
      BY <1>5, BecomesOwn DEF FencesHistory
    <2> QED BY <1>0, <1>5, <2>1 DEF FencesHistory, IsAt, BeforeJudging
  <1>6. CASE ReclaimsRefs(r)
    <2>1. PICK ref :
            \/ Becomes(r, [request[r] EXCEPT !.todo = @ \ {ref}, !.reclaimed = @ \cup {ref},
                      !.beyond = @ \cup {x \in Retained : x[1] = ref /\ log[ref][x[2]].old}])
            \/ Becomes(r, [request[r] EXCEPT !.todo = @ \ {ref}, !.open = TRUE])
      BY <1>6 DEF ReclaimsRefs
    <2>2. request'[r].then = request[r].then /\ request'[r].pc = request[r].pc /\ DOMAIN request'[r] = DOMAIN request[r]
      BY <1>0, <2>1 DEF Becomes
    <2> QED BY <1>6, <2>2 DEF ReclaimsRefs, IsAt, BeforeJudging
  <1>7. CASE Unfences(r)
    <2>1. request'[r] = [request[r] EXCEPT !.pc = "relist"]
      BY <1>7, BecomesOwn DEF Unfences
    <2> QED BY <1>0, <1>7, <2>1 DEF Unfences, IsAt, BeforeJudging
  <1>8. CASE Relists(r)
    <2>1. request'[r] = [request[r] EXCEPT !.pc = "probe", !.todo = Relisted(request[r]) \cup {Trunk}, !.settled = TRUE,
                              !.forks = [b \in Standing |-> fork[b]], !.known = Retained, !.late = {}]
      BY <1>8, BecomesOwn DEF Relists
    <2> QED BY <1>0, <1>8, <2>1 DEF Relists, IsAt, BeforeJudging
  <1>9. CASE Probes(r)
    <2>1. PICK ref :
            Becomes(r, [request[r] EXCEPT !.todo = @ \ {ref}, !.settled = @ /\ Exists(ref),
                            !.seen = @ \cup {<<x, Probe(x, request[r].proved)>> : x \in {y \in Retained : y[1] = ref}}])
      BY <1>9 DEF Probes
    <2>2. request'[r].then = request[r].then /\ request'[r].pc = request[r].pc /\ DOMAIN request'[r] = DOMAIN request[r]
      BY <1>0, <2>1 DEF Becomes
    <2> QED BY <1>9, <2>2 DEF Probes, IsAt, BeforeJudging
  <1>10. CASE Accounts(r)
    <2>1. request'[r] = Accounted(request[r], tagged)
      BY <1>10, BecomesOwn DEF Accounts
    <2> QED BY <1>0, <1>10, <2>1, AccountedKeeps DEF Accounts, IsAt, BeforeJudging
  <1> QED BY <1>1, <1>2, <1>3, <1>4, <1>5, <1>6, <1>7, <1>8, <1>9, <1>10

\* A failure leaves a verification before its judgement, or unsettled.
LEMMA FailingSteps ==
  ASSUME DerivedInv, NEW r \in Verifiers, VerifyFails(r)
  PROVE  /\ DOMAIN request'[r] = DOMAIN request[r] /\ request'[r].then = request[r].then
         /\ \/ request[r].pc \in BeforeJudging /\ request'[r].pc \in BeforeJudging
            \/ request'[r].pc \in {"schedule", "settle"} /\ ~ request'[r].settled
  <1>0. /\ DOMAIN request[r] = DOMAIN NotVerifying /\ {"pc", "then", "settled", "late"} \subseteq DOMAIN request[r]
        /\ DOMAIN request = Verifiers
    BY LocalsHave DEF DerivedInv, JudgingInv, KinInv
  <1> DEFINE Kept == DOMAIN request'[r] = DOMAIN request[r] /\ request'[r].then = request[r].then
  <1>1. CASE IsAt(r, "list") /\ Becomes(r, [request[r] EXCEPT !.pc = "judge", !.todo = {Trunk}, !.open = TRUE,
                                                     !.named = FALSE])
    <2>1. Kept /\ request'[r].pc = "judge"
      BY <1>0, <1>1 DEF Becomes
    <2> QED BY <1>1, <2>1 DEF IsAt, BeforeJudging
  <1>2. CASE IsAt(r, "fence") /\ Becomes(r, [request[r] EXCEPT !.pc = "relist", !.open = TRUE])
    <2>1. Kept /\ request'[r].pc = "relist"
      BY <1>0, <1>2 DEF Becomes
    <2> QED BY <1>2, <2>1 DEF IsAt, BeforeJudging
  <1>3. CASE /\ IsAt(r, "judge") \/ IsAt(r, "reclaim")
             /\ \E ref \in request[r].todo : Becomes(r, [request[r] EXCEPT !.todo = @ \ {ref}, !.open = TRUE])
    <2>1. Kept /\ request'[r].pc = request[r].pc
      BY <1>0, <1>3 DEF Becomes
    <2> QED BY <1>3, <2>1 DEF IsAt, BeforeJudging
  <1>4. CASE IsAt(r, "judge") /\ Becomes(r, [request[r] EXCEPT !.pc = "fence"])
    <2>1. Kept /\ request'[r].pc = "fence"
      BY <1>0, <1>4 DEF Becomes
    <2> QED BY <1>4, <2>1 DEF IsAt, BeforeJudging
  <1>5. CASE IsAt(r, "relist") /\ Becomes(r, [request[r] EXCEPT !.pc = "derive", !.open = TRUE])
    <2>1. Kept /\ request'[r].pc = "derive"
      BY <1>0, <1>5 DEF Becomes
    <2> QED BY <1>5, <2>1 DEF IsAt, BeforeJudging
  <1>6. CASE IsAt(r, "probe") /\ \E ref \in request[r].todo :
               Becomes(r, [request[r] EXCEPT !.todo = @ \ {ref}, !.settled = FALSE])
    <2>1. Kept /\ request'[r].pc = request[r].pc
      BY <1>0, <1>6 DEF Becomes
    <2> QED BY <1>6, <2>1 DEF IsAt, BeforeJudging
  <1>7. CASE /\ IsAt(r, "probe")
             /\ Becomes(r, [Accounted(request[r], [t \in TagNames |-> NoRef]) EXCEPT !.late = @ \cup TagNames])
    <2> DEFINE m == Accounted(request[r], [t \in TagNames |-> NoRef])
    <2>1. DOMAIN m = DOMAIN request[r] /\ m.then = request[r].then /\ m.pc = "derive"
      BY <1>0, AccountedKeeps
    <2>2. request'[r] = [m EXCEPT !.late = @ \cup TagNames]
      BY <1>7, BecomesOwn
    <2> HIDE DEF m
    <2>3. Kept /\ request'[r].pc = "derive"
      BY <1>0, <2>1, <2>2
    <2> QED BY <1>7, <2>3 DEF IsAt, BeforeJudging
  <1>8. CASE Becomes(r, [request[r] EXCEPT !.pc = "schedule", !.open = TRUE, !.settled = FALSE])
    BY <1>0, <1>8 DEF Becomes
  <1>9. CASE Becomes(r, [request[r] EXCEPT !.pc = "settle", !.settled = FALSE])
    BY <1>0, <1>9 DEF Becomes
  <1> HIDE DEF Kept
  <1> QED BY <1>1, <1>2, <1>3, <1>4, <1>5, <1>6, <1>7, <1>8, <1>9 DEF VerifyFails

LEMMA JudgingSteps ==
  ASSUME DerivedInv, NEW r \in Verifiers, Verifies(r) \/ VerifyFails(r) \/ VerifierDies(r),
         edges \subseteq edges', Accountable \subseteq Accountable'
  PROVE  JudgingInv(r)'
  <1>0. JudgingInv(r) /\ {"pc", "then", "derived", "settled"} \subseteq DOMAIN request[r] /\ KinInv
    BY LocalsHave DEF DerivedInv, JudgingInv
  <1>1. CASE Reads(r)
    <2>1. CASE obligation.state = "open"
      <3>1. request'[r] = [NotVerifying EXCEPT !.pc = "list", !.then = Walked(edges)]
        BY <1>1, <2>1, BecomesOwn DEF Reads
      <3>2. /\ DOMAIN request'[r] = DOMAIN NotVerifying /\ request'[r].pc = "list"
            /\ request'[r].then = Walked(edges)
        BY <3>1, LocalsHave
      <3>3. edges' = edges
        BY <1>1 DEF Reads, kin
      <3> QED BY <3>2, <3>3, WalkedDerived DEF JudgingInv, BeforeJudging
    <2>2. CASE obligation.state # "open"
      <3>1. request' = request
        BY <1>1, <2>2 DEF Reads
      <3> QED BY <1>0, <3>1, KeptJudging
    <2> QED BY <2>1, <2>2
  <1>2. CASE \/ ListsBranches(r) \/ Judges(r) \/ ListsTags(r) \/ DropsTag(r) \/ FencesHistory(r) \/ ReclaimsRefs(r)
             \/ Unfences(r) \/ Relists(r) \/ Probes(r) \/ Accounts(r)
    BY <1>0, <1>2, EarlySteps, KeptJudging
  <1>3. CASE Walks(r)
    <2>1. request'[r] = [request[r] EXCEPT !.pc = "follow", !.derived = Walked(edges)] /\ request[r].pc = "derive"
      BY <1>3, BecomesOwn DEF Walks, IsAt
    <2>2. /\ DOMAIN request'[r] = DOMAIN request[r] /\ request'[r].pc = "follow"
          /\ request'[r].then = request[r].then /\ request'[r].derived = Walked(edges)
      BY <1>0, <2>1
    <2> QED BY <1>0, <2>1, <2>2 DEF JudgingInv, BeforeJudging
  <1>4. CASE JudgesDerived(r)
    <2> DEFINE due == Owed(request[r].derived)
    <2>1. /\ request'[r] = [request[r] EXCEPT !.pc = "schedule", !.open = @ \/ due # {}, !.derived = {},
                              !.settled = @ /\ ~ request[r].open /\ due = {}]
          /\ request[r].pc = "follow"
      BY <1>4, BecomesOwn DEF JudgesDerived, IsAt
    <2>2. /\ DOMAIN request'[r] = DOMAIN request[r] /\ request'[r].pc = "schedule"
          /\ request'[r].then = request[r].then /\ (request'[r].settled => due = {})
      BY <1>0, <2>1
    <2>3. due = {} => request[r].then \subseteq Accountable
      BY <1>0, <2>1 DEF Owed, Accountable, JudgingInv, KinInv
    <2> QED BY <1>0, <2>2, <2>3, KeptJudging
  <1>5. CASE Schedules(r)
    <2>1. /\ request'[r] = [request[r] EXCEPT !.pc = "settle", !.settled = @ /\ (release = {} \/ Covered(request[r].pins))]
          /\ request[r].pc = "schedule"
      BY <1>5, BecomesOwn DEF Schedules, IsAt
    <2>2. /\ DOMAIN request'[r] = DOMAIN request[r] /\ request'[r].pc = "settle"
          /\ request'[r].then = request[r].then /\ (request'[r].settled => request[r].settled)
      BY <1>0, <2>1
    <2>3. request[r].settled => request[r].then \subseteq Accountable
      BY <1>0, <2>1 DEF JudgingInv
    <2> QED BY <1>0, <2>2, <2>3, KeptJudging
  <1>6. CASE Settles(r) \/ VerifierDies(r)
    <2>1. request'[r] = NotVerifying
      BY <1>6, BecomesOwn DEF Settles, VerifierDies
    <2> QED BY <2>1, NotVerifyingJudges
  <1>7. CASE VerifyFails(r)
    BY <1>0, <1>7, FailingSteps, KeptJudging
  <1> QED BY <1>1, <1>2, <1>3, <1>4, <1>5, <1>6, <1>7 DEF Verifies

\* A verification is released by its own judgement.
LEMMA SinceSteps ==
  ASSUME DerivedInv, ErasureNext, Accountable \subseteq Accountable'
  PROVE  DOMAIN since' = {"known", "late", "then"} /\ since'.then \subseteq Accountable'
  <1>0. DOMAIN since = {"known", "late", "then"} /\ since.then \subseteq Accountable
    BY DEF DerivedInv, KinInv
  <1>1. CASE \E r \in Verifiers : Settles(r)
    <2>1. PICK r \in Verifiers : Settles(r)
      BY <1>1
    <2>2. CASE since' = since
      BY <1>0, <2>2
    <2>3. CASE since' # since
      <3>1. since' = [known |-> request[r].known, late |-> request[r].late, then |-> request[r].then]
            /\ request[r].settled /\ request[r].pc = "settle"
        BY <2>1, <2>3 DEF Settles, IsAt
      <3>2. request[r].then \subseteq Accountable
        BY <3>1 DEF DerivedInv, JudgingInv
      <3> QED BY <3>1, <3>2
    <2> QED BY <2>2, <2>3
  <1>2. CASE \E late : since' = [since EXCEPT !.late = late]
    BY <1>0, <1>2
  <1>3. CASE \E known : since' = [since EXCEPT !.known = known]
    BY <1>0, <1>3
  <1>4. CASE UNCHANGED since
    BY <1>0, <1>4
  <1>5. \/ \E r \in Verifiers : Settles(r)
        \/ \E late : since' = [since EXCEPT !.late = late]
        \/ \E known : since' = [since EXCEPT !.known = known]
        \/ UNCHANGED since
    <2>1. CASE Cuts \/ Pinning
      BY <2>1 DEF Cuts, Pinning, Late
    <2>2. CASE DropsBranch \/ PinsGo
      BY <2>2 DEF DropsBranch, PinsGo, Forgets
    <2>3. CASE Rewrites \/ Ages \/ Sweeps \/ Erases
      BY <2>3 DEF Rewrites, Ages, Sweeps, Erases, Others
    <2>4. ASSUME NEW r \in Verifiers, Verifies(r) \/ VerifyFails(r) \/ VerifierDies(r), ~ Settles(r)
          PROVE  UNCHANGED since
      BY <2>4 DEF Verifies, VerifyFails, VerifierDies, Reads, ListsBranches, Judges, ListsTags, DropsTag, FencesHistory,
         ReclaimsRefs, Unfences, Relists, Probes, Accounts, Walks, JudgesDerived, Schedules
    <2>5. CASE Declares \/ Records \/ Follows \/ Leaves \/ Watches \/ ListsLate \/ WatchFails
      BY <2>5 DEF Declares, Records, Follows, Leaves, Watches, ListsLate, WatchFails
    <2> QED BY <2>1, <2>2, <2>3, <2>4, <2>5 DEF ErasureNext
  <1> QED BY <1>1, <1>2, <1>3, <1>4, <1>5

\* Others' steps leave what a verification knows of the derived tables.
LEMMA OthersSteps ==
  ASSUME DerivedInv,
         \/ Rewrites \/ Cuts \/ Pinning \/ DropsBranch \/ Ages \/ Sweeps \/ PinsGo \/ Erases
         \/ Declares \/ Records \/ Follows \/ Leaves \/ Watches \/ ListsLate \/ WatchFails
  PROVE  /\ DOMAIN request' = Verifiers
         /\ \A r \in Verifiers : /\ DOMAIN request'[r] = DOMAIN request[r] /\ request'[r].pc = request[r].pc
                                 /\ request'[r].then = request[r].then /\ request'[r].derived = request[r].derived
                                 /\ request'[r].settled = request[r].settled
  <1>0. /\ DOMAIN request = Verifiers
        /\ \A r \in Verifiers : {"pc", "then", "derived", "settled"} \subseteq DOMAIN request[r]
    BY LocalsHave DEF DerivedInv, KinInv, JudgingInv
  <1>1. CASE \E pin : Late(pin)
    <2>1. PICK pin : request' = [r \in Verifiers |-> [request[r] EXCEPT !.late = @ \cup {pin}]]
      BY <1>1 DEF Late
    <2> QED BY <1>0, <2>1
  <1>2. CASE \E gone : Forgets(gone)
    <2>1. PICK gone : request' = [r \in Verifiers |-> [request[r] EXCEPT !.known = {x \in @ : x[1] \notin gone}]]
      BY <1>2 DEF Forgets
    <2> QED BY <1>0, <2>1
  <1>3. CASE UNCHANGED request
    BY <1>0, <1>3
  <1>4. (\E pin : Late(pin)) \/ (\E gone : Forgets(gone)) \/ UNCHANGED request
    <2>1. CASE Cuts \/ Pinning
      BY <2>1 DEF Cuts, Pinning
    <2>2. CASE DropsBranch \/ PinsGo
      BY <2>2 DEF DropsBranch, PinsGo
    <2>3. CASE Rewrites \/ Ages \/ Sweeps \/ Erases
      BY <2>3 DEF Rewrites, Ages, Sweeps, Erases, Others
    <2>4. CASE Declares \/ Records \/ Follows \/ Leaves \/ Watches \/ ListsLate \/ WatchFails
      BY <2>4 DEF Declares, Records, Follows, Leaves, Watches, ListsLate, WatchFails
    <2> QED BY <2>1, <2>2, <2>3, <2>4
  <1> QED BY <1>1, <1>2, <1>3, <1>4

LEMMA DerivedStep ==
  ASSUME DerivedInv, ErasureNext
  PROVE  DerivedInv'
  <1>1. /\ edges \subseteq edges' /\ (edges \cup declaring)' \subseteq Edges
        /\ follows' \in [Derived -> {Nothing, Source} \cup Derived]
        /\ claim' \in [Derived -> {"held", "kept", "gone", "taken"}]
        /\ Accountable \subseteq Accountable'
    BY KinSteps
  <1>2. DOMAIN since' = {"known", "late", "then"} /\ since'.then \subseteq Accountable'
    BY <1>1, SinceSteps
  <1>3. DOMAIN request' = Verifiers /\ \A q \in Verifiers : JudgingInv(q)'
    <2>0. \A q \in Verifiers : JudgingInv(q)
      BY DEF DerivedInv
    <2>1. CASE \/ Rewrites \/ Cuts \/ Pinning \/ DropsBranch \/ Ages \/ Sweeps \/ PinsGo \/ Erases
               \/ Declares \/ Records \/ Follows \/ Leaves \/ Watches \/ ListsLate \/ WatchFails
      BY <1>1, <2>0, <2>1, OthersSteps, KeptJudging
    <2>2. ASSUME NEW r \in Verifiers, Verifies(r) \/ VerifyFails(r) \/ VerifierDies(r)
          PROVE  DOMAIN request' = Verifiers /\ \A q \in Verifiers : JudgingInv(q)'
      <3>1. request' = request \/ \E l : Becomes(r, l)
        BY <2>2 DEF Verifies, VerifyFails, VerifierDies, Reads, ListsBranches, Judges, ListsTags, DropsTag, FencesHistory,
           ReclaimsRefs, Unfences, Relists, Probes, Accounts, Walks, JudgesDerived, Schedules, Settles
      <3>2. DOMAIN request' = Verifiers /\ \A q \in Verifiers : q # r => request'[q] = request[q]
        BY <3>1, BecomesOwn DEF DerivedInv, KinInv
      <3>3. JudgingInv(r)'
        BY <1>1, <2>2, JudgingSteps
      <3>4. ASSUME NEW q \in Verifiers, q # r PROVE JudgingInv(q)'
        BY <1>1, <2>0, <3>2, <3>4, KeptJudging
      <3> QED BY <3>2, <3>3, <3>4
    <2> QED BY <2>1, <2>2 DEF ErasureNext
  <1> QED BY <1>1, <1>2, <1>3 DEF DerivedInv, KinInv

LEMMA DerivedInit == ErasureInit => DerivedInv
  <1> SUFFICES ASSUME ErasureInit PROVE DerivedInv
    OBVIOUS
  <1>1. edges \cup declaring \subseteq Edges
    BY ErasureAssumption DEF ErasureInit
  <1>2. /\ follows \in [Derived -> {Nothing, Source} \cup Derived]
        /\ claim \in [Derived -> {"held", "kept", "gone", "taken"}]
        /\ DOMAIN request = Verifiers /\ \A r \in Verifiers : request[r] = NotVerifying
        /\ DOMAIN since = {"known", "late", "then"} /\ since.then = {}
    BY DEF ErasureInit
  <1>3. ASSUME NEW r \in Verifiers PROVE JudgingInv(r)
    BY <1>2 DEF JudgingInv, NotVerifying, BeforeJudging
  <1> QED BY <1>1, <1>2, <1>3 DEF DerivedInv, KinInv

LEMMA DerivedStutters == DerivedInv /\ UNCHANGED erasureVars => DerivedInv'
  BY DEF DerivedInv, KinInv, JudgingInv, Accountable, Followed, Walked, erasureVars, kin

LEMMA DerivedAlwaysInv == ErasureSpec => []DerivedInv
  BY DerivedInit, DerivedStep, DerivedStutters, PTL DEF ErasureSpec

\* A released obligation accounts for the tables derived from the erased one: those
\* recorded when its verification began are followed, gone or taken, and once the
\* watch finds nothing more to list, so are, or are listed, those declared before
\* the release through whatever tables; for any derivations and however they are
\* declared, recorded, dropped and followed beside it (judge, watch_released).
THEOREM DerivedAreAlwaysAccountedFor == ErasureSpec => []DerivedAreAccountedFor
  <1>1. DerivedInv => DerivedAreAccountedFor
    <2> SUFFICES ASSUME DerivedInv PROVE DerivedAreAccountedFor
      OBVIOUS
    <2>1. KinInv /\ since.then \subseteq Accountable
      BY DEF DerivedInv
    <2> DEFINE before == edges \cap obligation.before
    <2>2. ASSUME LateOf = {}, NEW d \in Walked(before) PROVE d \in Accountable \cup obligation.late
      <3>1. before \subseteq Edges /\ Walked(before) \subseteq Walked(edges) /\ d \in Derived
        BY <2>1, WalkedGrows, WalkedDerived DEF KinInv
      <3>2. PICK e \in before : e[2] = d /\ e[1] \in Walked(before) \cup {Source}
        BY <3>1, WalkedThrough
      <3>3. d \notin Owed(Walked(edges)) \ obligation.late
        BY <2>2, <3>1, <3>2 DEF LateOf
      <3> QED BY <2>1, <3>1, <3>3 DEF Owed, Accountable, KinInv
    <2> QED BY <2>1, <2>2 DEF DerivedAreAccountedFor, Accountable
  <1> QED BY <1>1, DerivedAlwaysInv, PTL

=============================================================================

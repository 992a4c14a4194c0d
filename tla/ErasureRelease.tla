--------------------------- MODULE ErasureRelease ---------------------------
(***************************************************************************)
(* The release of the branches and tags that pin an erasure's residual:    *)
(* catalog/services/erasure_release.py, from the moment it is due, run by  *)
(* the cron ticks of several replicas (catalog/api/erasure_release.py)     *)
(* beside the users of the table.                                          *)
(*                                                                         *)
(* Time is relative: the lease counts down, below zero once it has lapsed, *)
(* and a tick's age is how long ago it read the `now` it judges and writes *)
(* leases by. A conditional mutate_json is one step: it lands on the       *)
(* record it read or reads again. The table's fence (module HistoryFence)  *)
(* is the time each tick's hold still has; a user's branch create and a    *)
(* reclaim take it, work and release it in one step. A tick ends within    *)
(* its hold ("Longer than a release takes"), though not within its lease,  *)
(* which counts from an earlier `now`.                                     *)
(***************************************************************************)
EXTENDS Integers, Sequences, FiniteSets

CONSTANTS
    Ticks,      \* the replicas' ticks
    Branches,   \* branch names
    Tags,       \* tag names
    Forks,      \* the branches the release finds, each with the one it was cut from
    Named,      \* the branches the erasure named as pins
    NamedTags,  \* the tags on main's versions it named
    Cuttable,   \* the names users cut branches under
    LEASE,      \* LEASE, in ticks of the clock
    HOLD,       \* the history fence's HOLD
    MaxAge,     \* bound on how long a tick runs
    MaxHead,    \* bound on main's versions
    MaxFaults,  \* bound on failures and crashes
    MaxChanges  \* bound on what users change

None == "none"
Main == "main"

ASSUME ReleaseAssumption ==
    /\ Forks \in [Branches -> Branches \cup {Main, None}]
    /\ \A b \in Branches : Forks[b] \in Branches => Forks[Forks[b]] # None
    /\ \A s \in SUBSET Branches : s # {} => \E b \in s : Forks[b] \notin s
    /\ IsFiniteSet(Branches)
    /\ Named \subseteq {b \in Branches : Forks[b] # None}
    /\ NamedTags \subseteq Tags
    /\ Cuttable \subseteq Branches
    /\ Main \notin Branches /\ None \notin Branches
    /\ LEASE \in Nat \ {0} /\ HOLD \in Nat \ {0} /\ MaxAge \in Nat \ {0} /\ MaxHead \in Nat \ {0}
    /\ MaxAge < HOLD
    /\ MaxFaults \in Nat /\ MaxChanges \in Nat

VARIABLES
    record,    \* the release's record on the control root
    branch,    \* where each branch was cut, and whether its history holds the subject
    tag,       \* the ref each tag names a version of
    versions,  \* the versions main holds
    head,      \* main's latest version
    tick,      \* how far each tick is
    hold,      \* how long each tick's hold of the history lasts yet
    owed,      \* the branches the release deleted that are not back
    faults,    \* failures and crashes so far
    changes    \* what users changed so far

vars == <<record, branch, tag, versions, head, tick, hold, owed, faults, changes>>

-----------------------------------------------------------------------------

Versions == 1 .. MaxHead
Age      == 0 .. MaxAge
Step     == [branch: Branches, parent: Branches \cup {Main}, version: Versions]

Record == [kept: {"kept", "gone"}, phase: {"pending", "deleting", "recreating"},
           lease: -MaxAge .. LEASE, tags: SUBSET Tags, plan: Seq(Step)]
Cut    == [parent: Branches \cup {Main, None}, version: 0 .. MaxHead, holds: {"clean", "subject"}]
NoCut  == [parent |-> None, version |-> 0, holds |-> "clean"]

Phase  == {"idle", "fencing", "planning", "claiming", "untagging", "deleting",
           "listing", "recreating", "finishing", "handingBack"}
Locals == [pc: Phase, age: Age, head: 0 .. MaxHead, phase: {"pending", "deleting", "recreating"},
           tags: SUBSET Tags, plan: Seq(Step), todo: Seq(Step)]

Idle == [pc |-> "idle", age |-> 0, head |-> 0, phase |-> "pending", tags |-> {},
         plan |-> <<>>, todo |-> <<>>]

TypeOK ==
    /\ record \in Record
    /\ branch \in [Branches -> Cut]
    /\ tag \in [Tags -> Branches \cup {Main, None}]
    /\ versions \in SUBSET Versions /\ head \in Versions
    /\ tick \in [Ticks -> Locals]
    /\ hold \in [Ticks -> 0 .. HOLD]
    /\ owed \in SUBSET Branches
    /\ faults \in 0 .. MaxFaults /\ changes \in 0 .. MaxChanges

\* What pins the subject when the release is scheduled: the named branches, with
\* every branch cut from one of them.
Pinned ==
    {b \in Branches : \A s \in SUBSET Branches :
        Named \subseteq s /\ (\A d \in Branches : Forks[d] \in s => d \in s) => b \in s}

Init ==
    /\ record = [kept |-> "kept", phase |-> "pending", lease |-> 0, tags |-> {}, plan |-> <<>>]
    /\ branch = [b \in Branches |-> IF Forks[b] = None THEN NoCut
                    ELSE [parent |-> Forks[b], version |-> 1,
                          holds |-> IF b \in Pinned THEN "subject" ELSE "clean"]]
    /\ tag = [t \in Tags |-> IF t \in NamedTags THEN Main ELSE None]
    /\ versions = {1} /\ head = 1
    /\ tick = [c \in Ticks |-> Idle]
    /\ hold = [c \in Ticks |-> 0]
    /\ owed = {} /\ faults = 0 /\ changes = 0

refs   == <<branch, tag>>
main   == <<versions, head>>
counts == <<faults, changes>>

At(c, pc)       == tick[c].pc = pc
Goes(c, locals) == tick' = [tick EXCEPT ![c] = locals]

Present      == {b \in Branches : branch[b].parent # None}
Children(b)  == {d \in Branches : branch[d].parent = b}
Free         == \A c \in Ticks : hold[c] = 0

\* Lance deletes a branch no other is cut from and no tag names ...
Deletable(b) == b \in Present /\ Children(b) = {} /\ \A t \in Tags : tag[t] # b

\* ... and cuts one from a version its parent has: main's, or the one a
\* branch starts at (external).
Creatable(s) ==
    /\ s.branch \notin Present
    /\ IF s.parent = Main THEN s.version \in versions
       ELSE s.parent \in Present /\ branch[s.parent].version = s.version

-----------------------------------------------------------------------------
(* release_due: what one tick does                                         *)

\* _claimable, by the tick's own `now`.
Claimable(age) == record.lease <= -age

\* The tick lists the record, finds it claimable and opens the table: the
\* version the handle is at is the head to come back at.
Begins(c) ==
    /\ At(c, "idle")
    /\ record.kept = "kept" /\ Claimable(0)
    /\ Goes(c, [Idle EXCEPT !.pc = "fencing", !.head = head, !.phase = record.phase,
                            !.tags = record.tags, !.plan = record.plan])
    /\ UNCHANGED <<record, refs, main, hold, owed, counts>>

\* history.held(BRANCH), before the claim: refused, the release is left as it is.
Fences(c) ==
    /\ At(c, "fencing")
    /\ IF Free
       THEN /\ hold' = [hold EXCEPT ![c] = HOLD]
            /\ Goes(c, [tick[c] EXCEPT !.pc = "planning"])
       ELSE Goes(c, Idle) /\ UNCHANGED hold
    /\ UNCHANGED <<record, refs, main, owed, counts>>

\* The branches of `roots` that stand, with every branch cut from one of them.
Subtree(roots) ==
    {b \in Present : \A s \in SUBSET Present :
        roots \cap Present \subseteq s /\ (\A d \in s : Children(d) \subseteq s) => b \in s}

\* A subtree's branches, each after the one it was cut from.
TopDown(subtree) ==
    {order \in [1 .. Cardinality(subtree) -> subtree] :
        /\ \A b \in subtree : \E i \in DOMAIN order : order[i] = b
        /\ \A i, j \in DOMAIN order : branch[order[i]].parent = order[j] => j < i}

\* _plan: the subtree and its tags as they stand, at the head the tick opened.
\* A release that is recreating goes by what it recorded.
MakesPlan(c) ==
    /\ At(c, "planning")
    /\ IF tick[c].phase = "recreating"
       THEN Goes(c, [tick[c] EXCEPT !.pc = "claiming"])
       ELSE LET subtree == Subtree(Named \cup {tick[c].plan[i].branch : i \in DOMAIN tick[c].plan})
                pins    == {t \in Tags : /\ tag[t] # None
                                         /\ tag[t] \in subtree \/ t \in NamedTags \cup tick[c].tags}
            IN \E order \in TopDown(subtree) :
                Goes(c, [tick[c] EXCEPT !.pc = "claiming", !.tags = pins,
                    !.plan = [i \in DOMAIN order |->
                        [branch |-> order[i], version |-> tick[c].head,
                         parent |-> IF branch[order[i]].parent \in subtree
                                    THEN branch[order[i]].parent ELSE Main]]])
    /\ UNCHANGED <<record, refs, main, hold, owed, counts>>

Planned(plan) == {plan[i].branch : i \in DOMAIN plan}

\* The one enumeration of a set of positions in their order.
Ascending(positions) ==
    {order \in [1 .. Cardinality(positions) -> positions] :
        /\ \A i \in positions : \E k \in DOMAIN order : order[k] = i
        /\ \A j, k \in DOMAIN order : j < k => order[j] < order[k]}

\* The steps of a plan for the branches in `names`, in the plan's order.
StepsFor(plan, names) ==
    {[k \in DOMAIN order |-> plan[order[k]]] :
        order \in Ascending({i \in DOMAIN plan : plan[i].branch \in names})}

\* Mutants of Joined: the plan is made again from the refs the tick found; a
\* newcomer does not join.
JoinedAnew(recorded, fresh) == {IF fresh = <<>> THEN recorded ELSE fresh}

JoinedNever(recorded, fresh) == {IF recorded = <<>> THEN fresh ELSE recorded}

\* A resumed plan: recorded steps keep their reference, and a newcomer joins
\* at the recorded head.
Joined(recorded, fresh) ==
    {recorded \o [i \in DOMAIN newcomers |->
                    IF recorded = <<>> THEN newcomers[i]
                    ELSE [newcomers[i] EXCEPT !.version = recorded[1].version]] :
        newcomers \in StepsFor(fresh, Branches \ Planned(recorded))}

\* _claim: the lease, and the plan before anything is deleted.
Claimed(c) ==
    LET leased == [record EXCEPT !.lease = LEASE - tick[c].age] IN
    CASE record.phase = "pending" ->
           {[leased EXCEPT !.phase = "deleting", !.tags = tick[c].tags, !.plan = tick[c].plan]}
      [] record.phase = "deleting" ->
           {[leased EXCEPT !.tags = @ \cup tick[c].tags, !.plan = plan] :
               plan \in Joined(record.plan, tick[c].plan)}
      [] OTHER -> {leased}

\* _Lost, and every other way out: the hold is released.
Drops(c) == hold' = [hold EXCEPT ![c] = 0]

\* The tick goes on by the record it wrote.
Holding(c, written) ==
    [Idle EXCEPT !.age = tick[c].age, !.tags = written.tags, !.plan = written.plan]

Claims(c) ==
    /\ At(c, "claiming")
    /\ IF record.kept = "kept" /\ Claimable(tick[c].age)
       THEN /\ record' \in Claimed(c)
            /\ Goes(c, [Holding(c, record') EXCEPT !.pc = IF record'.phase = "deleting"
                                                          THEN "untagging" ELSE "listing"])
            /\ UNCHANGED hold
       ELSE Goes(c, Idle) /\ Drops(c) /\ UNCHANGED record
    /\ UNCHANGED <<refs, main, owed, counts>>

\* The tick fails: its hold is released, and its lease is handed back next.
Breaks(c) == Goes(c, [Idle EXCEPT !.pc = "handingBack", !.age = tick[c].age]) /\ Drops(c)

\* _delete: every tag, then the branches it lists, leaf first ...
Untags(c) ==
    /\ At(c, "untagging")
    /\ tag' = [t \in Tags |-> IF t \in tick[c].tags THEN None ELSE tag[t]]
    /\ \E standing \in StepsFor(tick[c].plan, Present) :
       Goes(c, [Idle EXCEPT !.pc = "deleting", !.age = tick[c].age, !.todo =
           [i \in DOMAIN standing |-> standing[Len(standing) + 1 - i]]])
    /\ UNCHANGED <<record, branch, main, hold, owed, counts>>

\* ... unless Lance refuses one: a branch or a tag on it since the plan.
Deletes(c) ==
    /\ At(c, "deleting") /\ tick[c].todo # <<>>
    /\ LET b == Head(tick[c].todo).branch IN
       IF Deletable(b)
       THEN /\ branch' = [branch EXCEPT ![b] = NoCut]
            /\ owed' = owed \cup {b}
            /\ Goes(c, [tick[c] EXCEPT !.todo = Tail(@)])
            /\ UNCHANGED hold
       ELSE Breaks(c) /\ UNCHANGED <<branch, owed>>
    /\ UNCHANGED <<record, tag, main, counts>>

\* The deletes are done: the record, if it is still there, says so.
Marks(c) ==
    /\ At(c, "deleting") /\ tick[c].todo = <<>>
    /\ IF record.kept = "kept"
       THEN /\ record' = [record EXCEPT !.phase = "recreating"]
            /\ Goes(c, [Holding(c, record) EXCEPT !.pc = "listing"])
            /\ UNCHANGED hold
       ELSE Goes(c, Idle) /\ Drops(c) /\ UNCHANGED record
    /\ UNCHANGED <<refs, main, owed, counts>>

\* _recreate: the branches that are not back yet, top-down ...
Lists(c) ==
    /\ At(c, "listing")
    /\ \E missing \in StepsFor(tick[c].plan, Branches \ Present) :
       Goes(c, [Idle EXCEPT !.pc = "recreating", !.age = tick[c].age, !.todo = missing])
    /\ UNCHANGED <<record, refs, main, hold, owed, counts>>

\* ... each at its recorded reference, if the table still has it.
Recreates(c) ==
    /\ At(c, "recreating") /\ tick[c].todo # <<>>
    /\ LET s == Head(tick[c].todo) IN
       IF Creatable(s)
       THEN /\ branch' = [branch EXCEPT ![s.branch] =
                   [parent |-> s.parent, version |-> s.version,
                    holds |-> IF s.parent = Main THEN "clean" ELSE branch[s.parent].holds]]
            /\ owed' = owed \ {s.branch}
            /\ Goes(c, [tick[c] EXCEPT !.todo = Tail(@)])
            /\ UNCHANGED hold
       ELSE Breaks(c) /\ UNCHANGED <<branch, owed>>
    /\ UNCHANGED <<record, tag, main, counts>>

\* The hold is released, and then the record deleted.
Releases(c) ==
    /\ At(c, "recreating") /\ tick[c].todo = <<>>
    /\ Goes(c, [Idle EXCEPT !.pc = "finishing", !.age = tick[c].age])
    /\ Drops(c)
    /\ UNCHANGED <<record, refs, main, owed, counts>>

\* _finish: the record goes, whatever it says by now.
Finishes(c) ==
    /\ At(c, "finishing")
    /\ record' = [record EXCEPT !.kept = "gone"]
    /\ Goes(c, Idle)
    /\ UNCHANGED <<refs, main, hold, owed, counts>>

\* _hand_back: the lease ends at the tick's own `now`, whoever's it is by then.
HandsBack(c) ==
    /\ At(c, "handingBack")
    /\ record' = IF record.kept = "kept" THEN [record EXCEPT !.lease = -tick[c].age] ELSE record
    /\ Goes(c, Idle)
    /\ UNCHANGED <<refs, main, hold, owed, counts>>

-----------------------------------------------------------------------------
(* Failures                                                                *)

Fault == faults < MaxFaults /\ faults' = faults + 1 /\ UNCHANGED changes

\* The store refuses a call of the tick.
Fails(c) ==
    /\ Fault
    /\ tick[c].pc \notin {"idle", "handingBack"}
    /\ Breaks(c)
    /\ UNCHANGED <<record, refs, main, owed>>

\* The claim lands and its answer is lost: read again, the lease is live, and
\* the tick takes the release for another's.
ClaimAnswerLost(c) ==
    /\ Fault
    /\ At(c, "claiming")
    /\ record.kept = "kept" /\ Claimable(tick[c].age)
    /\ record' \in Claimed(c)
    /\ Goes(c, Idle) /\ Drops(c)
    /\ UNCHANGED <<refs, main, owed>>

\* The replica dies (or the hand back fails): the lease and the hold run out.
Dies(c) ==
    /\ Fault
    /\ ~ At(c, "idle")
    /\ Goes(c, Idle)
    /\ UNCHANGED <<record, refs, main, hold, owed>>

-----------------------------------------------------------------------------
(* The users of the table, while the release is scheduled                  *)

Change == record.kept = "kept" /\ changes < MaxChanges /\ changes' = changes + 1 /\ UNCHANGED faults

\* create_branch, under the fence.
UserCuts ==
    /\ Change /\ Free
    /\ \E b \in Cuttable \ Present, p \in Present \cup {Main} :
        /\ owed' = owed \ {b}
        /\ branch' = [branch EXCEPT ![b] =
               IF p = Main THEN [parent |-> Main, version |-> head, holds |-> "clean"]
               ELSE [branch[p] EXCEPT !.parent = p]]
    /\ UNCHANGED <<record, tag, main, tick, hold>>

\* create_tag excludes no release, and delete_branch takes no fence.
UserTags ==
    /\ Change
    /\ \E t \in Tags, b \in Present : tag[t] = None /\ tag' = [tag EXCEPT ![t] = b]
    /\ UNCHANGED <<record, branch, main, tick, hold, owed>>

UserDeletes ==
    /\ Change
    /\ \E b \in Branches : Deletable(b) /\ branch' = [branch EXCEPT ![b] = NoCut]
    /\ UNCHANGED <<record, tag, main, tick, hold, owed>>

UserCommits ==
    /\ record.kept = "kept"
    /\ head < MaxHead
    /\ head' = head + 1 /\ versions' = versions \cup {head + 1}
    /\ UNCHANGED <<record, refs, tick, hold, owed, counts>>

\* version/delete and the expiry: a version below the head that no branch was
\* cut at, under the fence.
Reclaims ==
    /\ record.kept = "kept" /\ Free
    /\ \E v \in versions :
        /\ v < head
        /\ \A b \in Children(Main) : branch[b].version # v
        /\ versions' = versions \ {v}
    /\ UNCHANGED <<record, refs, head, tick, hold, owed, counts>>

Elapse(n, floor) == IF n > floor THEN n - 1 ELSE floor

Passes ==
    /\ \A c \in Ticks : tick[c].age < MaxAge
    /\ record' = [record EXCEPT !.lease = Elapse(@, -MaxAge)]
    /\ hold' = [c \in Ticks |-> Elapse(hold[c], 0)]
    /\ tick' = [c \in Ticks |-> IF At(c, "idle") THEN Idle ELSE [tick[c] EXCEPT !.age = @ + 1]]
    /\ UNCHANGED <<refs, main, owed, counts>>

Runs(c) ==
    \/ Begins(c) \/ Fences(c) \/ MakesPlan(c) \/ Claims(c) \/ Untags(c) \/ Deletes(c)
    \/ Marks(c) \/ Lists(c) \/ Recreates(c) \/ Releases(c) \/ Finishes(c) \/ HandsBack(c)

Next ==
    \/ \E c \in Ticks : Runs(c) \/ Fails(c) \/ ClaimAnswerLost(c) \/ Dies(c)
    \/ UserCuts \/ UserTags \/ UserDeletes \/ UserCommits \/ Reclaims \/ Passes

Spec == Init /\ [][Next]_vars

\* The cron binding fires for ever, a running tick is scheduled, time passes.
Fairness == WF_vars(Passes) /\ \A c \in Ticks : WF_vars(Runs(c))
FairSpec == Spec /\ Fairness

-----------------------------------------------------------------------------
(* Properties                                                              *)

\* "The tick that claims a release writes the plan ... before it deletes
\* anything": a branch the release deleted and has not brought back is in the
\* plan of a record that is still kept, whichever tick deleted it and however
\* leases lapsed or were handed back under it; and once the record is gone no
\* named tag is left and no branch keeps the history that holds the subject, one
\* cut from a pin while the release ran included.
PlanCoversTheRelease ==
    IF record.kept = "kept" THEN owed \subseteq Planned(record.plan)
    ELSE /\ owed = {}
         /\ record.kept = "gone" => /\ \A b \in Branches : branch[b].holds = "clean"
                                   /\ \A t \in NamedTags : tag[t] # Main

\* A branch the plan cuts from main is missing, and so is the version it names.
Stranded ==
    \E i \in DOMAIN record.plan : LET s == record.plan[i] IN
        s.parent = Main /\ s.branch \notin Present /\ s.version \notin versions

\* However replicas' ticks fail, die, overtake each other and meet refusals,
\* once that and the users' changes stop, the release is finished, whatever main
\* has done since; unless what it needs was reclaimed: the head a tick opened
\* at before its hold, or, between two ticks, the version a plan recorded
\* (PlanSuffices), after which a missing branch is never made again.
ReleaseFinishes == <>(record.kept = "gone" \/ []Stranded)

\* The plan names versions main holds.
Recreatable == \A i \in DOMAIN record.plan : record.plan[i].version \in versions

\* "A tick that dies anywhere is finished by a later one from the record, at the
\* recorded reference, whatever main has done since": a plan recorded at a
\* version main then holds is carried out.
PlanSuffices == (record.plan # <<>> /\ Recreatable) ~> record.kept = "gone"
=============================================================================

---------------------------- MODULE HistoryFence ----------------------------
(***************************************************************************)
(* The history fence of ONE table: lakehouse_kit/history_fences.py, with   *)
(* the work its callers do inside `held`: the reclaims (maintenance        *)
(* expiry, run_gc, delete_versions, the erasure's reclaim), the tag        *)
(* writers (create_tag, update_tag) and create_branch.                     *)
(*                                                                         *)
(* A call is one run of `with history.held(work)`. The fence is one record *)
(* on the control root, read with its ETag and the store's own clock and   *)
(* written create-if-absent or replace-under-ETag. A hold lapses HOLD      *)
(* after the read it was judged on. Nothing stops a call from working on   *)
(* past its hold; `outlived` remembers which did. A call that crashed is   *)
(* one that takes no further step: nothing here is fair, so every call may *)
(* stop anywhere.                                                          *)
(***************************************************************************)
EXTENDS Integers, FiniteSets

CONSTANTS
    Calls,      \* calls of TableHistory.held
    Tags,       \* tag names
    Branches,   \* branch names
    Inside,     \* pairs <<b, a>> with tree/<b>/ under tree/<a>/ (branch_layout)
    HOLD,       \* how long one take holds the fence
    ATTEMPTS,   \* _ATTEMPTS: rounds a take or a release runs
    MaxClock,   \* bound on the store's clock
    MaxVersion  \* bound on the table's versions

Work == {"reclaim", "refs", "branch"}
None == "none"

ASSUME FenceAssumption ==
    /\ Inside \subseteq Branches \X Branches
    /\ \A b \in Branches : <<b, b>> \notin Inside
    /\ None \notin Branches
    /\ HOLD \in Nat \ {0}
    /\ ATTEMPTS \in Nat \ {0}
    /\ MaxClock \in Nat
    /\ MaxVersion \in Nat \ {0}

VARIABLES
    clock,      \* the store's clock, the `Date` of its answers
    fence,      \* the fence record: whether the store holds one, and its holders
    work,       \* what each call holds the history for: take's argument
    call,       \* what each call has read and how far it is
    versions,   \* the versions main holds
    head,       \* main's latest version
    tags,       \* the version each tag names, 0 for no tag
    branches,   \* the version each branch was cut at, 0 for no branch
    outlived    \* calls that did work of their block past their hold

vars == <<clock, fence, work, call, versions, head, tags, branches, outlived>>

-----------------------------------------------------------------------------

Token  == Calls \X (1 .. ATTEMPTS)
Holder == [token: Token, work: Work, expires: Nat]
Record == [kept: {"absent", "stored"}, holders: SUBSET Holder]
Absent == [kept |-> "absent", holders |-> {}]

\* Mutants of Excludes: the fence as it was before branch creates took turns,
\* and one that forgets the reclaim.
ExcludesNotItself(held, wanted) ==
    IF held = wanted THEN FALSE ELSE "reclaim" \in {held, wanted}

ExcludesBranchOnly(held, wanted) == held = "branch" /\ wanted = "branch"

\* Whether a holder doing `held` refuses a take for `wanted`.
Excludes(held, wanted) ==
    IF held = wanted THEN wanted = "branch" ELSE "reclaim" \in {held, wanted}

\* The holders of a read record whose hold has not lapsed at `now`.
Live(holders, now) == {h \in holders : h.expires > now}

\* The hold a take judged at `now` would write.
Mine(c, now, attempt) ==
    [token |-> <<c, attempt>>, work |-> work[c], expires |-> now + HOLD]

\* The block's phases, per kind of work: what a call does between take and release.
Block == {"working", "deleting", "opened", "judged"}
Ended == {"refused", "done"}
Phase == {"taking", "writing"} \cup Block \cup {"releasing", "clearing"} \cup Ended

\* Branch names that may not coexist: one's directory lies inside the other's.
Nests(a, b) == <<a, b>> \in Inside \/ <<b, a>> \in Inside

\* The versions a ref pins: every tag's, and every version a branch was cut at.
Pinned == {tags[t] : t \in Tags} \cup {branches[b] : b \in Branches}

Locals == [pc: Phase, tries: 0 .. ATTEMPTS, at: Nat, seen: Record, expires: Nat,
           doomed: SUBSET (1 .. MaxVersion), version: 0 .. MaxVersion,
           name: Branches \cup {None}]

\* A call's locals before it reads and after it returns.
Fresh(pc) == [pc |-> pc, tries |-> 0, at |-> 0, seen |-> Absent,
              expires |-> 0, doomed |-> {}, version |-> 0, name |-> None]

TypeOK ==
    /\ clock \in 0 .. MaxClock
    /\ fence \in Record
    /\ work \in [Calls -> Work]
    /\ call \in [Calls -> Locals]
    /\ versions \in SUBSET (1 .. MaxVersion)
    /\ head \in 1 .. MaxVersion
    /\ tags \in [Tags -> 0 .. MaxVersion]
    /\ branches \in [Branches -> 0 .. MaxVersion]
    /\ outlived \in SUBSET Calls

Init ==
    /\ clock = 0
    /\ fence = Absent
    /\ work \in [Calls -> Work]
    /\ call = [c \in Calls |-> Fresh("taking")]
    /\ head = 1
    /\ versions = {1}
    /\ tags = [t \in Tags |-> 0]
    /\ branches = [b \in Branches |-> 0]
    /\ outlived = {}

table == <<versions, head, tags, branches>>

\* The step leaves call `c` with these locals.
Moves(c, locals) == call' = [call EXCEPT ![c] = locals]

-----------------------------------------------------------------------------
(* The conditional writes of lakehouse_kit/records.py. An ETag is a hash   *)
(* of the body, so a replace under it lands when the record still is what  *)
(* was read, and a create when there still is none.                        *)

\* The record is still the one `c` read: the store takes the write.
Unchanged(c) == fence = call[c].seen

Written(holders) == fence' = [kept |-> "stored", holders |-> holders]

-----------------------------------------------------------------------------
(* take                                                                    *)

\* Mutant of TakeReads: a call does not count the hold its own earlier round
\* left behind.
TakeReadsOverItsOwn(c) ==
    /\ call[c].pc = "taking"
    /\ call[c].tries < ATTEMPTS
    /\ ~ \E h \in Live(fence.holders, clock) : h.token[1] # c /\ Excludes(h.work, work[c])
    /\ Moves(c, [call[c] EXCEPT !.pc = "writing", !.tries = @ + 1, !.at = clock, !.seen = fence])
    /\ UNCHANGED <<clock, work, fence, table, outlived>>

\* One round's read, and the judgement on it. An excluding live holder
\* refuses the take, and so does running out of rounds.
TakeReads(c) ==
    /\ call[c].pc = "taking"
    /\ IF \/ call[c].tries = ATTEMPTS
          \/ \E h \in Live(fence.holders, clock) : Excludes(h.work, work[c])
       THEN Moves(c, Fresh("refused"))
       ELSE Moves(c, [call[c] EXCEPT !.pc = "writing", !.tries = @ + 1, !.at = clock,
                                      !.seen = fence])
    /\ UNCHANGED <<clock, work, fence, table, outlived>>

\* The holders a take writes: the live ones it read, and its own hold.
TakenHolders(c) ==
    Live(call[c].seen.holders, call[c].at) \cup {Mine(c, call[c].at, call[c].tries)}

\* The round's conditional write lands, and the block begins.
TakeWrites(c) ==
    /\ call[c].pc = "writing"
    /\ Unchanged(c)
    /\ Written(TakenHolders(c))
    /\ Moves(c, [Fresh("working") EXCEPT !.tries = call[c].tries,
                                         !.expires = call[c].at + HOLD])
    /\ UNCHANGED <<clock, work, table, outlived>>

\* The write lost: RecordExistsError or RecordChangedError, and another round.
TakeLoses(c) ==
    /\ call[c].pc = "writing"
    /\ ~ Unchanged(c)
    /\ Moves(c, [Fresh("taking") EXCEPT !.tries = call[c].tries])
    /\ UNCHANGED <<clock, work, fence, table, outlived>>

\* The write landed and its answer was lost: the S3 client's own retry is
\* refused by the record it wrote, and the call takes another round under a
\* new token, leaving a hold nobody will release.
TakeAnswerLost(c) ==
    /\ call[c].pc = "writing"
    /\ Unchanged(c)
    /\ Written(TakenHolders(c))
    /\ Moves(c, [Fresh("taking") EXCEPT !.tries = call[c].tries])
    /\ UNCHANGED <<clock, work, table, outlived>>

-----------------------------------------------------------------------------
(* The block                                                               *)

\* The block over, a call keeps only the token it releases.
Leaving(c) == [Fresh("releasing") EXCEPT !.tries = call[c].tries]

\* Work done by `c` counts against its hold once the hold has lapsed.
Works(c) == outlived' = IF call[c].expires > clock THEN outlived ELSE outlived \cup {c}

\* cleanup_old_versions lists the refs once, and what it will delete with
\* them: versions below the head that no listed ref pins. The policy's
\* age, retain_versions and named ranges choose among those.
ReclaimLists(c) ==
    /\ call[c].pc = "working" /\ work[c] = "reclaim"
    /\ \E doomed \in SUBSET {v \in versions : v < head /\ v \notin Pinned} :
           Moves(c, [call[c] EXCEPT !.pc = "deleting", !.doomed = doomed])
    /\ Works(c)
    /\ UNCHANGED <<clock, work, fence, table>>

\* It deletes what it listed, one version at a time.
ReclaimDeletes(c) ==
    /\ call[c].pc = "deleting"
    /\ \E v \in call[c].doomed :
           /\ versions' = versions \ {v}
           /\ Moves(c, [call[c] EXCEPT !.doomed = @ \ {v}])
    /\ Works(c)
    /\ UNCHANGED <<clock, work, fence, head, tags, branches>>

\* create_tag and update_tag: Lance opens the version the tag will name ...
TagOpens(c) ==
    /\ call[c].pc = "working" /\ work[c] = "refs"
    /\ \E v \in versions : Moves(c, [call[c] EXCEPT !.pc = "opened", !.version = v])
    /\ Works(c)
    /\ UNCHANGED <<clock, work, fence, table>>

\* ... and writes the tag.
TagWrites(c) ==
    /\ call[c].pc = "opened"
    /\ \E t \in Tags : tags' = [tags EXCEPT ![t] = call[c].version]
    /\ Moves(c, Leaving(c))
    /\ Works(c)
    /\ UNCHANGED <<clock, work, fence, versions, head, branches>>

\* create_branch judges the listing: the name is free and nests with none.
BranchJudges(c) ==
    /\ call[c].pc = "working" /\ work[c] = "branch"
    /\ \E name \in Branches, v \in versions :
           /\ branches[name] = 0
           /\ \A b \in Branches : branches[b] # 0 => ~ Nests(name, b)
           /\ Moves(c, [call[c] EXCEPT !.pc = "judged", !.name = name, !.version = v])
    /\ Works(c)
    /\ UNCHANGED <<clock, work, fence, table>>

\* It commits the branch, unless the name is taken by then (pylance fails).
BranchCreates(c) ==
    /\ call[c].pc = "judged"
    /\ branches' = IF branches[call[c].name] = 0
                   THEN [branches EXCEPT ![call[c].name] = call[c].version] ELSE branches
    /\ Moves(c, Leaving(c))
    /\ Works(c)
    /\ UNCHANGED <<clock, work, fence, versions, head, tags>>

\* The block ends without (more) work: nothing left to delete, a refusal of
\* the name, the version or the layout, or an exception.
BlockEnds(c) ==
    /\ call[c].pc \in Block
    /\ Moves(c, Leaving(c))
    /\ UNCHANGED <<clock, work, fence, table, outlived>>

-----------------------------------------------------------------------------
(* release: runs in held's `finally` and never raises                      *)

\* One round's read. A record without the token ends the release.
ReleaseReads(c) ==
    /\ call[c].pc = "releasing"
    /\ IF \E h \in fence.holders : h.token = <<c, call[c].tries>>
       THEN Moves(c, [call[c] EXCEPT !.pc = "clearing", !.at = clock, !.seen = fence])
       ELSE Moves(c, Fresh("done"))
    /\ UNCHANGED <<clock, work, fence, table, outlived>>

\* Mutant of KeptHolders: the release writes the fence back empty.
KeptHoldersEmpty(c) == {h \in call[c].seen.holders : FALSE}

\* The record without this hold and without the lapsed ones.
KeptHolders(c) ==
    {h \in Live(call[c].seen.holders, call[c].at) : h.token # <<c, call[c].tries>>}

ReleaseWrites(c) ==
    /\ call[c].pc = "clearing"
    /\ Unchanged(c)
    /\ Written(KeptHolders(c))
    /\ Moves(c, Fresh("done"))
    /\ UNCHANGED <<clock, work, table, outlived>>

\* A lost race takes another round, until the rounds run out (or the store
\* fails) and the hold is left to lapse.
ReleaseLoses(c) ==
    /\ call[c].pc = "clearing"
    /\ ~ Unchanged(c)
    /\ \/ Moves(c, Leaving(c))
       \/ Moves(c, Fresh("done"))
    /\ UNCHANGED <<clock, work, fence, table, outlived>>

-----------------------------------------------------------------------------
(* What goes on around the fence                                           *)

\* A commit on main, which no fence orders.
Commit ==
    /\ head < MaxVersion
    /\ head' = head + 1
    /\ versions' = versions \cup {head + 1}
    /\ UNCHANGED <<clock, work, fence, call, tags, branches, outlived>>

\* delete_tag and delete_branch take no fence: they only unpin.
DeleteTag ==
    /\ \E t \in Tags : tags[t] # 0 /\ tags' = [tags EXCEPT ![t] = 0]
    /\ UNCHANGED <<clock, work, fence, call, versions, head, branches, outlived>>

DeleteBranch ==
    /\ \E b \in Branches : branches[b] # 0 /\ branches' = [branches EXCEPT ![b] = 0]
    /\ UNCHANGED <<clock, work, fence, call, versions, head, tags, outlived>>

Tick ==
    /\ clock < MaxClock
    /\ clock' = clock + 1
    /\ UNCHANGED <<work, fence, call, table, outlived>>

Take(c)    == TakeReads(c) \/ TakeWrites(c) \/ TakeLoses(c) \/ TakeAnswerLost(c)
Body(c)    == \/ ReclaimLists(c) \/ ReclaimDeletes(c) \/ TagOpens(c) \/ TagWrites(c)
              \/ BranchJudges(c) \/ BranchCreates(c) \/ BlockEnds(c)
Release(c) == ReleaseReads(c) \/ ReleaseWrites(c) \/ ReleaseLoses(c)

Next ==
    \/ \E c \in Calls : Take(c) \/ Body(c) \/ Release(c)
    \/ Commit \/ DeleteTag \/ DeleteBranch \/ Tick

Spec == Init /\ [][Next]_vars
-----------------------------------------------------------------------------
(* Properties                                                              *)

\* HistoryFence's docstring: "its live holders, none of which excludes
\* another". Whatever reads are stale, answers lost and calls crashed, the
\* record never lists two live holds that exclude each other.
LiveHoldersCompatible ==
    \A g, h \in Live(fence.holders, clock) : g # h => ~ Excludes(g.work, h.work)

\* What the fence is for (history_fences.py, "SO THE TWO NEVER OVERLAP"):
\* as long as no call worked past its hold, no tag and no branch names a
\* version a reclaim deleted.
RefsNameLiveVersions ==
    outlived = {} =>
        /\ \A t \in Tags : tags[t] # 0 => tags[t] \in versions
        /\ \A b \in Branches : branches[b] # 0 => branches[b] \in versions

\* What BRANCH excluding itself is for: as long as no call worked past its
\* hold, no branch's directory lies inside another's, though each create
\* judges a listing it read earlier.
NoNestedBranches ==
    outlived = {} =>
        \A a, b \in Branches : branches[a] # 0 /\ branches[b] # 0 => ~ <<a, b>> \in Inside

\* A hold that has not lapsed leaves the record only by the release of the
\* call that took it: no take and no other release drops it.
LiveHoldEndsByItsRelease ==
    [][\A h \in fence.holders :
           h \notin fence'.holders =>
               \/ h.expires <= clock
               \/ call[h.token[1]].pc = "clearing" /\ call'[h.token[1]].pc = "done"]_vars
=============================================================================

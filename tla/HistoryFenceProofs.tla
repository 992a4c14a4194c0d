------------------------- MODULE HistoryFenceProofs -------------------------
(***************************************************************************)
(* The history fence for any number of calls, tags, branches and versions, *)
(* any HOLD and any number of rounds.                                      *)
(***************************************************************************)
EXTENDS HistoryFence, TLAPS

\* The hold a call in its block wrote.
HoldOf(c) == [token |-> <<c, call[c].tries>>, work |-> work[c], expires |-> call[c].expires]

\* A call is within its hold while it works.
Within(c) == call[c].pc \in Block /\ call[c].expires > clock

\* A judgement is on a read of the past, and it found nothing excluding.
ReadsPast == \A c \in Calls : call[c].at <= clock
JudgedFree ==
    \A c \in Calls : call[c].pc = "writing" =>
        /\ call[c].tries > 0
        /\ \A h \in Live(call[c].seen.holders, call[c].at) : ~ Excludes(h.work, work[c])

\* A call within its hold is on the record: nobody dropped it.
HoldRecorded == \A c \in Calls : Within(c) => HoldOf(c) \in fence.holders

\* The phase of a block tells its work.
PhaseOfWork ==
    \A c \in Calls :
        /\ call[c].pc = "deleting" => work[c] = "reclaim"
        /\ call[c].pc = "opened" => work[c] = "refs"
        /\ call[c].pc = "judged" => work[c] = "branch" /\ call[c].name \in Branches

\* What a call within its hold read of the table still stands.
ListingStands ==
    outlived = {} =>
        \A c \in Calls : Within(c) =>
            /\ call[c].pc = "deleting" => call[c].doomed \cap Pinned = {}
            /\ call[c].pc \in {"opened", "judged"} => call[c].version \in versions
            /\ call[c].pc = "judged" =>
                   \A b \in Branches : branches[b] # 0 => ~ Nests(call[c].name, b)

FenceInv == TypeOK /\ ReadsPast /\ JudgedFree /\ HoldRecorded /\ LiveHoldersCompatible
TableInv == PhaseOfWork /\ ListingStands /\ RefsNameLiveVersions /\ NoNestedBranches

-----------------------------------------------------------------------------

\* Exclusion goes both ways.
LEMMA ExcludesSymmetric ==
    ASSUME NEW g \in Work, NEW h \in Work
    PROVE  Excludes(g, h) <=> Excludes(h, g)
  BY DEF Excludes

\* A fresh call is typed whatever its phase.
LEMMA FreshTyped == ASSUME NEW pc \in Phase PROVE Fresh(pc) \in Locals
  BY FenceAssumption DEF Fresh, Locals, Absent, Record

\* The locals stay typed under the updates the actions make.
LEMMA UpdateTyped ==
    ASSUME NEW r \in Locals
    PROVE  /\ \A pc \in Phase, tries \in 0 .. ATTEMPTS, at \in Nat, seen \in Record :
                  [r EXCEPT !.pc = pc, !.tries = tries, !.at = at, !.seen = seen] \in Locals
           /\ \A pc \in Phase, at \in Nat, seen \in Record :
                  [r EXCEPT !.pc = pc, !.at = at, !.seen = seen] \in Locals
           /\ \A tries \in 0 .. ATTEMPTS : [r EXCEPT !.tries = tries] \in Locals
           /\ \A tries \in 0 .. ATTEMPTS, expires \in Nat :
                  [r EXCEPT !.tries = tries, !.expires = expires] \in Locals
           /\ \A doomed \in SUBSET (1 .. MaxVersion) : [r EXCEPT !.doomed = doomed] \in Locals
           /\ \A pc \in Phase, doomed \in SUBSET (1 .. MaxVersion) :
                  [r EXCEPT !.pc = pc, !.doomed = doomed] \in Locals
           /\ \A pc \in Phase, version \in 0 .. MaxVersion :
                  [r EXCEPT !.pc = pc, !.version = version] \in Locals
           /\ \A pc \in Phase, name \in Branches, version \in 0 .. MaxVersion :
                  [r EXCEPT !.pc = pc, !.name = name, !.version = version] \in Locals
  BY DEF Locals

\* What a take and a release write are holders.
LEMMA HoldersTyped ==
    ASSUME TypeOK, JudgedFree, NEW c \in Calls
    PROVE  /\ call[c].pc = "writing" => TakenHolders(c) \in SUBSET Holder
           /\ KeptHolders(c) \in SUBSET Holder
<1>1. call[c] \in Locals /\ call[c].seen.holders \in SUBSET Holder
  BY DEF TypeOK, Locals, Record
<1>2. ASSUME call[c].pc = "writing" PROVE Mine(c, call[c].at, call[c].tries) \in Holder
  BY <1>1, <1>2, FenceAssumption DEF Mine, Holder, Token, Locals, TypeOK, JudgedFree
<1> QED BY <1>1, <1>2 DEF TakenHolders, KeptHolders, Live

\* Every action keeps the variables in their types.
LEMMA TypeStep == ASSUME TypeOK, JudgedFree, Next PROVE TypeOK'
<1> USE FenceAssumption
<1>p. {"taking", "writing", "working", "deleting", "opened", "judged", "releasing", "clearing",
       "refused", "done"} \subseteq Phase
  BY DEF Phase, Block, Ended
<1>a. ASSUME NEW c \in Calls PROVE call[c] \in Locals
  BY DEF TypeOK
<1>1. ASSUME NEW c \in Calls, TakeReads(c) PROVE TypeOK'
  <2>1. Fresh("refused") \in Locals
    BY <1>p, FreshTyped
  <2>2. ASSUME call[c].tries # ATTEMPTS
        PROVE  [call[c] EXCEPT !.pc = "writing", !.tries = @ + 1, !.at = clock, !.seen = fence] \in Locals
    <3>1. call[c].tries + 1 \in 0 .. ATTEMPTS /\ clock \in Nat /\ fence \in Record
      BY <1>a, <2>2 DEF Locals, TypeOK
    <3> QED BY <1>p, <1>a, <3>1, UpdateTyped
  <2>3. call' \in [Calls -> Locals]
    BY <1>1, <2>1, <2>2 DEF Moves, TypeOK, TakeReads
  <2> QED BY <1>1, <2>3 DEF TakeReads, TypeOK, table
<1>2. ASSUME NEW c \in Calls, TakeWrites(c) \/ TakeLoses(c) \/ TakeAnswerLost(c) PROVE TypeOK'
  <2>1. Fresh("working") \in Locals /\ Fresh("taking") \in Locals
    BY <1>p, FreshTyped
  <2>2. /\ [Fresh("working") EXCEPT !.tries = call[c].tries, !.expires = call[c].at + HOLD] \in Locals
        /\ [Fresh("taking") EXCEPT !.tries = call[c].tries] \in Locals
    <3>1. call[c].tries \in 0 .. ATTEMPTS /\ call[c].at + HOLD \in Nat /\ call[c].at \in Nat
      BY <1>a DEF Locals
    <3> QED BY <1>p, <2>1, <3>1, UpdateTyped
  <2>3. call' \in [Calls -> Locals]
    BY <1>2, <2>2 DEF Moves, TypeOK, TakeWrites, TakeLoses, TakeAnswerLost
  <2>4. fence' \in Record
    BY <1>2, HoldersTyped DEF TakeWrites, TakeLoses, TakeAnswerLost, Written, Record, TypeOK
  <2> QED BY <1>2, <2>3, <2>4 DEF TakeWrites, TakeLoses, TakeAnswerLost, TypeOK, table
<1>3. ASSUME NEW c \in Calls PROVE Leaving(c) \in Locals
  BY <1>p, <1>a, FreshTyped DEF Leaving, Locals, Fresh
<1>4. ASSUME NEW c \in Calls, Body(c) PROVE TypeOK'
  <2>1. outlived' \in SUBSET Calls
    BY <1>4 DEF Body, ReclaimLists, ReclaimDeletes, TagOpens, TagWrites, BranchJudges, BranchCreates, BlockEnds, Works, TypeOK
  <2>2. CASE ReclaimLists(c)
    <3>1. PICK doomed \in SUBSET (1 .. MaxVersion) :
              Moves(c, [call[c] EXCEPT !.pc = "deleting", !.doomed = doomed])
      BY <2>2 DEF ReclaimLists, TypeOK
    <3>2. [call[c] EXCEPT !.pc = "deleting", !.doomed = doomed] \in Locals
      BY <1>a, <1>p, UpdateTyped
    <3>3. call' \in [Calls -> Locals]
      BY <3>1, <3>2 DEF Moves, TypeOK
    <3> QED BY <2>1, <2>2, <3>3 DEF ReclaimLists, TypeOK, table
  <2>6. CASE ReclaimDeletes(c)
    <3>1. PICK v \in call[c].doomed : /\ versions' = versions \ {v}
                                      /\ Moves(c, [call[c] EXCEPT !.doomed = call[c].doomed \ {v}])
      BY <2>6 DEF ReclaimDeletes
    <3>2. call[c].doomed \ {v} \in SUBSET (1 .. MaxVersion)
      BY <1>a DEF Locals
    <3>3. [call[c] EXCEPT !.doomed = call[c].doomed \ {v}] \in Locals
      BY <1>a, <3>2, UpdateTyped, <1>p
    <3>4. call' \in [Calls -> Locals]
      BY <3>1, <3>3 DEF Moves, TypeOK
    <3> QED BY <2>1, <2>6, <3>1, <3>4 DEF ReclaimDeletes, TypeOK
  <2>3. CASE TagOpens(c)
    <3>1. PICK v \in versions : Moves(c, [call[c] EXCEPT !.pc = "opened", !.version = v])
      BY <2>3 DEF TagOpens
    <3>2. [call[c] EXCEPT !.pc = "opened", !.version = v] \in Locals
      <4>1. v \in 0 .. MaxVersion
        BY DEF TypeOK
      <4> QED BY <1>p, <1>a, <4>1, UpdateTyped
    <3>3. call' \in [Calls -> Locals]
      BY <3>1, <3>2 DEF Moves, TypeOK
    <3> QED BY <2>1, <2>3, <3>3 DEF TagOpens, TypeOK, table
  <2>4. CASE BranchJudges(c)
    <3>1. PICK name \in Branches, v \in versions :
              Moves(c, [call[c] EXCEPT !.pc = "judged", !.name = name, !.version = v])
      BY <2>4 DEF BranchJudges
    <3>2. [call[c] EXCEPT !.pc = "judged", !.name = name, !.version = v] \in Locals
      <4>1. v \in 0 .. MaxVersion
        BY DEF TypeOK
      <4> QED BY <1>p, <1>a, <4>1, UpdateTyped
    <3>3. call' \in [Calls -> Locals]
      BY <3>1, <3>2 DEF Moves, TypeOK
    <3> QED BY <2>1, <2>4, <3>3 DEF BranchJudges, TypeOK, table
  <2>5. CASE TagWrites(c) \/ BranchCreates(c) \/ BlockEnds(c)
    <3>1. call' \in [Calls -> Locals]
      BY <1>3, <2>5 DEF Moves, TypeOK, TagWrites, BranchCreates, BlockEnds
    <3>2. tags' \in [Tags -> 0 .. MaxVersion] /\ branches' \in [Branches -> 0 .. MaxVersion]
      BY <1>p, <1>a, <2>5 DEF TagWrites, BranchCreates, BlockEnds, TypeOK, Locals, table
    <3> QED BY <2>1, <2>5, <3>1, <3>2 DEF TagWrites, BranchCreates, BlockEnds, TypeOK, table
  <2> QED BY <1>4, <2>2, <2>3, <2>4, <2>5, <2>6 DEF Body
<1>5. ASSUME NEW c \in Calls, Release(c) PROVE TypeOK'
  <2>1. Fresh("done") \in Locals
    BY <1>p, FreshTyped
  <2>2. [call[c] EXCEPT !.pc = "clearing", !.at = clock, !.seen = fence] \in Locals
    <3>1. clock \in Nat /\ fence \in Record
      BY DEF TypeOK
    <3> QED BY <1>p, <1>a, <3>1, UpdateTyped
  <2>3. call' \in [Calls -> Locals]
    BY <1>3, <1>5, <2>1, <2>2 DEF Moves, TypeOK, Release, ReleaseReads, ReleaseWrites, ReleaseLoses
  <2>4. fence' \in Record
    BY <1>5, HoldersTyped DEF Release, ReleaseReads, ReleaseWrites, ReleaseLoses, Written, Record, TypeOK
  <2> QED BY <1>5, <2>3, <2>4 DEF Release, ReleaseReads, ReleaseWrites, ReleaseLoses, TypeOK, table
<1>6. ASSUME Commit \/ DeleteTag \/ DeleteBranch \/ Tick PROVE TypeOK'
  <2>1. CASE Commit
    BY <2>1 DEF Commit, TypeOK
  <2>2. CASE DeleteTag
    BY <2>2 DEF DeleteTag, TypeOK
  <2>3. CASE DeleteBranch
    BY <2>3 DEF DeleteBranch, TypeOK
  <2>4. CASE Tick
    BY <2>4 DEF Tick, TypeOK, table
  <2> QED BY <1>6, <2>1, <2>2, <2>3, <2>4
<1> QED BY <1>1, <1>2, <1>4, <1>5, <1>6 DEF Next, Take

-----------------------------------------------------------------------------
(* The record                                                              *)

\* The holders a take writes are compatible when those it read are, and
\* every hold it read that is live now is among them.
LEMMA TakenCompatible ==
    ASSUME FenceInv, NEW c \in Calls, call[c].pc = "writing", Unchanged(c)
    PROVE  /\ \A h \in fence.holders : h.expires > clock => h \in TakenHolders(c)
           /\ \A g, h \in Live(TakenHolders(c), clock) : g # h => ~ Excludes(g.work, h.work)
<1> DEFINE mine == Mine(c, call[c].at, call[c].tries)
<1>1. call[c].at <= clock /\ call[c].at \in Nat /\ clock \in Nat /\ fence \in Record /\ work[c] \in Work
  BY FenceAssumption DEF FenceInv, TypeOK, ReadsPast, Locals
<1>2. call[c].seen = fence
  BY DEF Unchanged
<1>3. \A h \in fence.holders : h \in Holder /\ h.expires \in Nat /\ h.work \in Work
  BY <1>1 DEF Record, Holder
<1>4. \A h \in fence.holders : h.expires > clock => h \in Live(fence.holders, call[c].at)
  BY <1>1, <1>3 DEF Live
<1>5. TakenHolders(c) = Live(fence.holders, call[c].at) \cup {mine}
  BY <1>2 DEF TakenHolders
<1>6. \A h \in Live(fence.holders, call[c].at) : ~ Excludes(h.work, work[c]) /\ ~ Excludes(work[c], h.work)
  <2>1. \A h \in Live(fence.holders, call[c].at) : h \in fence.holders /\ ~ Excludes(h.work, work[c])
    BY <1>2 DEF FenceInv, JudgedFree, Live
  <2> QED BY <1>1, <1>3, <2>1, ExcludesSymmetric
<1>7. mine.work = work[c]
  BY DEF Mine
<1>8. \A g, h \in fence.holders :
          g.expires > clock /\ h.expires > clock /\ g # h => ~ Excludes(g.work, h.work)
  BY DEF FenceInv, LiveHoldersCompatible, Live
<1>9. ASSUME NEW g \in Live(TakenHolders(c), clock), NEW h \in Live(TakenHolders(c), clock), g # h
      PROVE  ~ Excludes(g.work, h.work)
  <2>1. g.expires > clock /\ h.expires > clock
    BY DEF Live
  <2>2. g \in Live(fence.holders, call[c].at) \cup {mine} /\ h \in Live(fence.holders, call[c].at) \cup {mine}
    BY <1>5 DEF Live
  <2>3. CASE g = mine
    BY <1>6, <1>7, <1>9, <2>2, <2>3
  <2>4. CASE h = mine
    BY <1>6, <1>7, <1>9, <2>2, <2>4
  <2>5. CASE g # mine /\ h # mine
    <3>1. g \in fence.holders /\ h \in fence.holders
      BY <2>2, <2>5 DEF Live
    <3> QED BY <1>8, <1>9, <2>1, <3>1
  <2> QED BY <2>3, <2>4, <2>5
<1> QED BY <1>4, <1>5, <1>9

\* A take that landed leaves the record right, whether or not it was told so.
LEMMA TakenStep ==
    ASSUME FenceInv, NEW c \in Calls, TakeWrites(c) \/ TakeAnswerLost(c)
    PROVE  /\ LiveHoldersCompatible'
           /\ \A h \in fence.holders : h.expires > clock => h \in fence'.holders
           /\ TakeWrites(c) => HoldOf(c)' \in fence'.holders
<1>1. fence'.holders = TakenHolders(c) /\ clock' = clock /\ work' = work
  BY DEF TakeWrites, TakeAnswerLost, Written
<1>2. call[c].pc = "writing" /\ Unchanged(c)
  BY DEF TakeWrites, TakeAnswerLost
<1>3. ASSUME TakeWrites(c) PROVE HoldOf(c)' = Mine(c, call[c].at, call[c].tries)
  <2>1. call'[c] = [Fresh("working") EXCEPT !.tries = call[c].tries, !.expires = call[c].at + HOLD]
    BY <1>3 DEF TakeWrites, Moves, FenceInv, TypeOK
  <2>2. call'[c].tries = call[c].tries /\ call'[c].expires = call[c].at + HOLD
    BY <2>1 DEF Fresh
  <2> QED BY <1>1, <2>2 DEF HoldOf, Mine
<1> QED BY <1>1, <1>2, <1>3, TakenCompatible DEF LiveHoldersCompatible, TakenHolders

\* What a release keeps: every live hold but its own.
LEMMA KeptStep ==
    ASSUME FenceInv, NEW c \in Calls, ReleaseWrites(c)
    PROVE  /\ LiveHoldersCompatible'
           /\ \A h \in fence.holders :
                  h.expires > clock /\ h.token # <<c, call[c].tries>> => h \in fence'.holders
<1>1. fence'.holders = KeptHolders(c) /\ clock' = clock /\ call[c].seen = fence
  BY DEF ReleaseWrites, Written, Unchanged
<1>2. call[c].at <= clock /\ call[c].at \in Nat /\ clock \in Nat
  BY FenceAssumption DEF FenceInv, TypeOK, ReadsPast, Locals
<1>3. \A h \in fence.holders : h.expires \in Nat
  BY DEF FenceInv, TypeOK, Record, Holder
<1>4. fence'.holders = {h \in fence.holders : h.expires > call[c].at /\ h.token # <<c, call[c].tries>>}
  BY <1>1 DEF KeptHolders, Live
<1> QED BY <1>1, <1>2, <1>3, <1>4 DEF FenceInv, LiveHoldersCompatible, Live

\* What a step of call `c` leaves alone, and where it can leave `c`.
LEMMA CallStep ==
    ASSUME FenceInv, NEW c \in Calls, Take(c) \/ Body(c) \/ Release(c)
    PROVE  /\ clock' = clock /\ work' = work
           /\ \A d \in Calls \ {c} : call'[d] = call[d]
           /\ call'[c].at <= clock
           /\ call'[c].pc = "writing" => TakeReads(c)
           /\ call'[c].pc \in Block =>
                  \/ TakeWrites(c)
                  \/ /\ call[c].pc \in Block /\ call'[c].expires = call[c].expires
                     /\ call'[c].tries = call[c].tries /\ Body(c)
<1>1. call \in [Calls -> Locals] /\ call[c] \in Locals /\ call[c].at <= clock /\ clock \in Nat
  BY FenceAssumption DEF FenceInv, TypeOK, ReadsPast
<1> USE <1>1
<1>2. CASE TakeReads(c)
  <2>1. \/ call'[c] = Fresh("refused")
        \/ call'[c] = [call[c] EXCEPT !.pc = "writing", !.tries = @ + 1, !.at = clock, !.seen = fence]
    BY <1>2 DEF TakeReads, Moves
  <2>2. call'[c].pc \in {"refused", "writing"} /\ call'[c].at \in {0, clock}
    <3>1. CASE call'[c] = Fresh("refused")
      BY <3>1 DEF Fresh
    <3>2. CASE call'[c] = [call[c] EXCEPT !.pc = "writing", !.tries = @ + 1, !.at = clock, !.seen = fence]
      BY <3>2 DEF Locals
    <3> QED BY <2>1, <3>1, <3>2
  <2>3. call'[c].pc \notin Block /\ call'[c].at <= clock
    BY <2>2 DEF Block
  <2> QED BY <1>2, <2>3 DEF TakeReads, Moves
<1>3. CASE TakeWrites(c)
  BY <1>3 DEF TakeWrites, Moves, Fresh, Block, Locals
<1>4. CASE TakeLoses(c) \/ TakeAnswerLost(c)
  BY <1>4 DEF TakeLoses, TakeAnswerLost, Moves, Fresh, Block, Locals
<1>5. CASE ReclaimLists(c) \/ ReclaimDeletes(c)
  <2>1. PICK doomed :
            call' = [call EXCEPT ![c] = [call[c] EXCEPT !.pc = "deleting", !.doomed = doomed]]
    <3>1. CASE ReclaimLists(c)
      BY <3>1 DEF ReclaimLists, Moves
    <3>2. CASE ReclaimDeletes(c)
      <4>1. PICK v : call' = [call EXCEPT ![c] = [call[c] EXCEPT !.doomed = call[c].doomed \ {v}]]
        BY <3>2 DEF ReclaimDeletes, Moves
      <4>2. [call[c] EXCEPT !.doomed = call[c].doomed \ {v}]
                = [call[c] EXCEPT !.pc = "deleting", !.doomed = call[c].doomed \ {v}]
        BY <3>2 DEF ReclaimDeletes, Locals
      <4> QED BY <4>1, <4>2
    <3> QED BY <1>5, <3>1, <3>2
  <2>2. /\ call'[c].pc = "deleting" /\ call'[c].at = call[c].at
        /\ call'[c].expires = call[c].expires /\ call'[c].tries = call[c].tries
    BY <2>1 DEF Locals
  <2>3. call[c].pc \in Block /\ Body(c) /\ clock' = clock /\ work' = work
    BY <1>5 DEF ReclaimLists, ReclaimDeletes, Block, Body
  <2> QED BY <2>1, <2>2, <2>3
<1>6. CASE TagOpens(c) \/ BranchJudges(c)
  <2>1. PICK pc \in {"opened", "judged"}, name \in Branches \cup {None}, version \in versions :
            \/ call' = [call EXCEPT ![c] = [call[c] EXCEPT !.pc = pc, !.version = version]]
            \/ call' = [call EXCEPT ![c] = [call[c] EXCEPT !.pc = pc, !.name = name, !.version = version]]
    BY <1>6 DEF TagOpens, BranchJudges, Moves
  <2>2. /\ call'[c].pc = pc /\ call'[c].at = call[c].at
        /\ call'[c].expires = call[c].expires /\ call'[c].tries = call[c].tries
    <3>1. CASE call'[c] = [call[c] EXCEPT !.pc = pc, !.version = version]
      BY <3>1 DEF Locals
    <3>2. CASE call'[c] = [call[c] EXCEPT !.pc = pc, !.name = name, !.version = version]
      BY <3>2 DEF Locals
    <3> QED BY <2>1, <3>1, <3>2
  <2>3. call[c].pc \in Block /\ Body(c) /\ clock' = clock /\ work' = work
    BY <1>6 DEF TagOpens, BranchJudges, Block, Body
  <2> QED BY <2>1, <2>2, <2>3
<1>7. CASE TagWrites(c) \/ BranchCreates(c) \/ BlockEnds(c)
  BY <1>7 DEF TagWrites, BranchCreates, BlockEnds, Moves, Leaving, Fresh, Block, Locals
<1>8. CASE Release(c)
  <2>1. \/ call'[c] = Fresh("done") \/ call'[c] = Leaving(c)
        \/ call'[c] = [call[c] EXCEPT !.pc = "clearing", !.at = clock, !.seen = fence]
    BY <1>8 DEF Release, ReleaseReads, ReleaseWrites, ReleaseLoses, Moves
  <2>2. call'[c].pc \in {"done", "releasing", "clearing"} /\ call'[c].at \in {0, clock}
    <3>1. CASE call'[c] = Fresh("done") \/ call'[c] = Leaving(c)
      BY <3>1 DEF Fresh, Leaving
    <3>2. CASE call'[c] = [call[c] EXCEPT !.pc = "clearing", !.at = clock, !.seen = fence]
      BY <3>2 DEF Locals
    <3> QED BY <2>1, <3>1, <3>2
  <2>3. call'[c].pc \notin Block /\ call'[c].at <= clock
    BY <2>2 DEF Block
  <2> QED BY <1>8, <2>2, <2>3 DEF Release, ReleaseReads, ReleaseWrites, ReleaseLoses, Moves
<1> QED BY <1>2, <1>3, <1>4, <1>5, <1>6, <1>7, <1>8 DEF Take, Body

\* The fence's invariant is inductive.
LEMMA FenceStep == ASSUME FenceInv, [Next]_vars PROVE FenceInv'
<1>0. ASSUME UNCHANGED vars PROVE FenceInv'
  BY <1>0 DEF FenceInv, vars, TypeOK, ReadsPast, JudgedFree, HoldRecorded, LiveHoldersCompatible, Within, HoldOf, Live
<1>1. ASSUME Next PROVE TypeOK'
  BY <1>1, TypeStep DEF FenceInv
<1>2. ASSUME NEW c \in Calls, Take(c) \/ Body(c) \/ Release(c)
      PROVE  (ReadsPast /\ JudgedFree /\ HoldRecorded /\ LiveHoldersCompatible)'
  <2> USE <1>2
  <2>0. /\ clock' = clock /\ work' = work
        /\ \A d \in Calls \ {c} : call'[d] = call[d]
        /\ call'[c].at <= clock
        /\ call'[c].pc = "writing" => TakeReads(c)
        /\ call'[c].pc \in Block =>
               \/ TakeWrites(c)
               \/ /\ call[c].pc \in Block /\ call'[c].expires = call[c].expires
                  /\ call'[c].tries = call[c].tries /\ Body(c)
    BY CallStep
  <2>1. ReadsPast'
    BY <2>0 DEF FenceInv, ReadsPast
  <2>2. ASSUME call'[c].pc = "writing"
        PROVE  /\ call'[c].tries > 0
               /\ \A h \in Live(call'[c].seen.holders, call'[c].at) : ~ Excludes(h.work, work[c])
    <3>1. TakeReads(c)
      BY <2>0, <2>2
    <3>2. call[c] \in Locals /\ call \in [Calls -> Locals]
      BY DEF FenceInv, TypeOK
    <3>3. ~ (call'[c] = Fresh("refused"))
      BY <2>2 DEF Fresh
    <3>4. /\ ~ \E h \in Live(fence.holders, clock) : Excludes(h.work, work[c])
          /\ call'[c] = [call[c] EXCEPT !.pc = "writing", !.tries = @ + 1, !.at = clock, !.seen = fence]
      BY <3>1, <3>2, <3>3 DEF TakeReads, Moves
    <3>5. call'[c].tries = call[c].tries + 1 /\ call'[c].at = clock /\ call'[c].seen = fence
      BY <3>2, <3>4 DEF Locals
    <3> QED BY <3>2, <3>4, <3>5, FenceAssumption DEF Locals
  <2>3. JudgedFree'
    BY <2>0, <2>2 DEF FenceInv, JudgedFree
  <2>4. \A d \in Calls : Within(d) => HoldOf(d) \in fence.holders
    BY DEF FenceInv, HoldRecorded
  <2>5. CASE TakeWrites(c) \/ TakeAnswerLost(c)
    <3>1. /\ LiveHoldersCompatible'
          /\ \A h \in fence.holders : h.expires > clock => h \in fence'.holders
          /\ TakeWrites(c) => HoldOf(c)' \in fence'.holders
      BY <2>5, TakenStep
    <3>2. call[c].pc \notin Block
      BY <2>5 DEF TakeWrites, TakeAnswerLost, Block
    <3>3. HoldRecorded'
      <4> SUFFICES ASSUME NEW d \in Calls, Within(d)' PROVE HoldOf(d)' \in fence'.holders
        BY DEF HoldRecorded
      <4>1. CASE d = c
        BY <2>0, <3>1, <3>2, <4>1 DEF Within
      <4>2. CASE d # c
        <5>1. Within(d) /\ HoldOf(d)' = HoldOf(d)
          BY <2>0, <4>2 DEF Within, HoldOf
        <5>2. HoldOf(d).expires > clock
          BY <5>1 DEF Within, HoldOf
        <5> QED BY <2>4, <3>1, <5>1, <5>2
      <4> QED BY <4>1, <4>2
    <3> QED BY <2>1, <2>3, <3>1, <3>3
  <2>6. CASE ReleaseWrites(c)
    <3>1. /\ LiveHoldersCompatible'
          /\ \A h \in fence.holders :
                 h.expires > clock /\ h.token # <<c, call[c].tries>> => h \in fence'.holders
      BY <2>6, KeptStep
    <3>2. HoldRecorded'
      <4> SUFFICES ASSUME NEW d \in Calls, Within(d)' PROVE HoldOf(d)' \in fence'.holders
        BY DEF HoldRecorded
      <4>1. d # c
        BY <2>0, <2>6 DEF Within, Block, ReleaseWrites, TakeWrites
      <4>2. Within(d) /\ HoldOf(d)' = HoldOf(d)
        BY <2>0, <4>1 DEF Within, HoldOf
      <4>3. HoldOf(d).expires > clock /\ HoldOf(d).token # <<c, call[c].tries>>
        BY <4>1, <4>2 DEF Within, HoldOf
      <4> QED BY <2>4, <3>1, <4>2, <4>3
    <3> QED BY <2>1, <2>3, <3>1, <3>2
  <2>7. CASE ~ (TakeWrites(c) \/ TakeAnswerLost(c) \/ ReleaseWrites(c))
    <3>1. fence' = fence
      BY <2>7 DEF Take, Body, Release, TakeReads, TakeLoses, ReclaimLists, ReclaimDeletes, TagOpens,
                  TagWrites, BranchJudges, BranchCreates, BlockEnds, ReleaseReads, ReleaseLoses
    <3>2. LiveHoldersCompatible'
      BY <2>0, <3>1 DEF FenceInv, LiveHoldersCompatible
    <3>3. HoldRecorded'
      BY <2>0, <2>4, <2>7, <3>1 DEF HoldRecorded, Within, HoldOf
    <3> QED BY <2>1, <2>3, <3>2, <3>3
  <2> QED BY <2>5, <2>6, <2>7
<1>3. ASSUME Commit \/ DeleteTag \/ DeleteBranch \/ Tick
      PROVE  (ReadsPast /\ JudgedFree /\ HoldRecorded /\ LiveHoldersCompatible)'
  <2>1. /\ clock \in Nat /\ clock' \in Nat /\ clock' >= clock
        /\ call' = call /\ fence' = fence /\ work' = work
    BY <1>3, FenceAssumption DEF Commit, DeleteTag, DeleteBranch, Tick, FenceInv, TypeOK, table
  <2>2. \A c \in Calls : call[c].at \in Nat /\ call[c].expires \in Nat
    BY DEF FenceInv, TypeOK, Locals
  <2>3. \A h \in fence.holders : h.expires \in Nat
    BY DEF FenceInv, TypeOK, Record, Holder
  <2>4. ReadsPast' /\ JudgedFree'
    BY <2>1, <2>2 DEF FenceInv, ReadsPast, JudgedFree
  <2>5. HoldRecorded'
    BY <2>1, <2>2 DEF FenceInv, HoldRecorded, Within, HoldOf
  <2>6. LiveHoldersCompatible'
    BY <2>1, <2>3 DEF FenceInv, LiveHoldersCompatible, Live
  <2> QED BY <2>4, <2>5, <2>6
<1> QED BY <1>0, <1>1, <1>2, <1>3 DEF Next, FenceInv

-----------------------------------------------------------------------------
(* The table                                                               *)

\* Two calls within their holds do not exclude each other.
LEMMA WithinExclusive ==
    ASSUME FenceInv, NEW c \in Calls, NEW d \in Calls, c # d, Within(c), Within(d)
    PROVE  ~ Excludes(work[c], work[d])
<1>1. HoldOf(c) \in fence.holders /\ HoldOf(d) \in fence.holders
  BY DEF FenceInv, HoldRecorded
<1>2. /\ HoldOf(c).expires > clock /\ HoldOf(c).work = work[c]
      /\ HoldOf(d).expires > clock /\ HoldOf(d).work = work[d]
  BY DEF Within, HoldOf
<1>3. HoldOf(c).token # HoldOf(d).token
  BY DEF HoldOf
<1> QED BY <1>1, <1>2, <1>3 DEF FenceInv, LiveHoldersCompatible, Live

\* A call that did work of its block while `outlived` stayed empty is within its hold.
LEMMA WorkedWithin ==
    ASSUME NEW c \in Calls, Works(c), outlived' = {}, call[c].pc \in Block
    PROVE  outlived = {} /\ Within(c)
  BY DEF Works, Within

\* What the calls that stood still keep when refs only go, versions only
\* come, and the step's own call keeps its part.
LEMMA BystandersStand ==
    ASSUME FenceInv, TableInv, clock' = clock, work' = work, NEW c \in Calls,
           \A d \in Calls \ {c} : call'[d] = call[d],
           outlived' = {} => outlived = {},
           versions \subseteq versions', Pinned' \subseteq Pinned,
           \A b \in Branches : branches'[b] # 0 => branches[b] # 0,
           NEW d \in Calls, d # c, outlived' = {}, Within(d)'
    PROVE  /\ call'[d].pc = "deleting" => call'[d].doomed \cap Pinned' = {}
           /\ call'[d].pc \in {"opened", "judged"} => call'[d].version \in versions'
           /\ call'[d].pc = "judged" =>
                  \A b \in Branches : branches'[b] # 0 => ~ Nests(call'[d].name, b)
<1>1. call'[d] = call[d] /\ Within(d) /\ outlived = {}
  BY DEF Within
<1> QED BY <1>1 DEF TableInv, ListingStands

\* The table's invariant is inductive, given the fence's.
LEMMA TableStep == ASSUME FenceInv, TableInv, [Next]_vars PROVE TableInv'
<1> DEFINE Stands(c) ==
        /\ call[c].pc = "deleting" => call[c].doomed \cap Pinned = {}
        /\ call[c].pc \in {"opened", "judged"} => call[c].version \in versions
        /\ call[c].pc = "judged" =>
               \A b \in Branches : branches[b] # 0 => ~ Nests(call[c].name, b)
<1>0. ASSUME UNCHANGED vars PROVE TableInv'
  BY <1>0 DEF TableInv, vars, PhaseOfWork, ListingStands, RefsNameLiveVersions, NoNestedBranches, Within, Pinned
<1>t. call \in [Calls -> Locals] /\ versions \subseteq 1 .. MaxVersion /\ \A c \in Calls : call[c] \in Locals
  BY DEF FenceInv, TypeOK
<1>1. ASSUME NEW c \in Calls, Take(c) \/ Release(c) \/ BlockEnds(c) PROVE TableInv'
  <2>1. /\ clock' = clock /\ work' = work
        /\ \A d \in Calls \ {c} : call'[d] = call[d]
    BY <1>1, CallStep DEF Body
  <2>2. UNCHANGED <<table, outlived>>
    BY <1>1 DEF Take, Release, TakeReads, TakeWrites, TakeLoses, TakeAnswerLost, ReleaseReads,
                ReleaseWrites, ReleaseLoses, BlockEnds
  <2>3. call'[c].pc \notin {"deleting", "opened", "judged"}
    <3>1. CASE call'[c].pc \in Block
      <4>1. TakeWrites(c) \/ (call[c].pc \in Block /\ Body(c))
        BY <1>1, <3>1, CallStep DEF Body
      <4>2. TakeWrites(c) \/ BlockEnds(c)
        BY <1>1, <4>1 DEF Take, Release, TakeReads, TakeLoses, TakeAnswerLost, ReleaseReads,
                          ReleaseWrites, ReleaseLoses, Block
      <4> QED BY <1>t, <4>2 DEF TakeWrites, BlockEnds, Moves, Leaving, Fresh
    <3>2. CASE call'[c].pc \notin Block
      BY <3>2 DEF Block
    <3> QED BY <3>1, <3>2
  <2>4. PhaseOfWork'
    BY <2>1, <2>3 DEF TableInv, PhaseOfWork
  <2>5. ListingStands'
    BY <2>1, <2>2, <2>3 DEF TableInv, ListingStands, Within, Pinned, table
  <2> QED BY <2>2, <2>4, <2>5 DEF TableInv, RefsNameLiveVersions, NoNestedBranches, table
<1>2. ASSUME NEW c \in Calls, ReclaimLists(c) PROVE TableInv'
  <2>1. PICK doomed \in SUBSET {v \in versions : v < head /\ v \notin Pinned} :
            call' = [call EXCEPT ![c] = [call[c] EXCEPT !.pc = "deleting", !.doomed = doomed]]
    BY <1>2 DEF ReclaimLists, Moves
  <2>2. /\ clock' = clock /\ work' = work /\ UNCHANGED table /\ call[c].pc = "working"
        /\ work[c] = "reclaim" /\ Works(c)
    BY <1>2 DEF ReclaimLists
  <2>3. call'[c].pc = "deleting" /\ call'[c].doomed = doomed
    BY <1>t, <2>1 DEF Locals
  <2>4. \A d \in Calls \ {c} : call'[d] = call[d]
    BY <1>t, <2>1
  <2>5. outlived' = {} => outlived = {}
    BY <2>2 DEF Works
  <2>6. Pinned' = Pinned /\ versions' = versions /\ branches' = branches /\ tags' = tags
    BY <2>2 DEF Pinned, table
  <2>7. PhaseOfWork'
    BY <2>2, <2>3, <2>4 DEF TableInv, PhaseOfWork
  <2>8. ListingStands'
    <3> SUFFICES ASSUME outlived' = {}, NEW d \in Calls, Within(d)' PROVE Stands(d)'
      BY DEF ListingStands
    <3>1. CASE d = c
      BY <2>3, <2>6, <3>1
    <3>2. CASE d # c
      BY <2>2, <2>4, <2>5, <2>6, <3>2, BystandersStand
    <3> QED BY <3>1, <3>2
  <2> QED BY <2>5, <2>6, <2>7, <2>8 DEF TableInv, RefsNameLiveVersions, NoNestedBranches
<1>3. ASSUME NEW c \in Calls, ReclaimDeletes(c) PROVE TableInv'
  <2>1. PICK v \in call[c].doomed :
            /\ call' = [call EXCEPT ![c] = [call[c] EXCEPT !.doomed = call[c].doomed \ {v}]]
            /\ versions' = versions \ {v}
    BY <1>3 DEF ReclaimDeletes, Moves
  <2>2. /\ clock' = clock /\ work' = work /\ tags' = tags /\ branches' = branches
        /\ call[c].pc = "deleting" /\ Works(c)
    BY <1>3 DEF ReclaimDeletes
  <2>3. call'[c].pc = "deleting" /\ call'[c].doomed = call[c].doomed \ {v} /\ call'[c].expires = call[c].expires
    BY <1>t, <2>1, <2>2 DEF Locals
  <2>4. \A d \in Calls \ {c} : call'[d] = call[d]
    BY <1>t, <2>1
  <2>5. PhaseOfWork'
    BY <2>2, <2>3, <2>4 DEF TableInv, PhaseOfWork
  <2>6. Pinned' = Pinned
    BY <2>2 DEF Pinned
  <2>7. ASSUME outlived' = {} PROVE outlived = {} /\ Within(c)
    BY <2>2, <2>7, WorkedWithin DEF Block
  <2>8. ASSUME outlived' = {} PROVE v \notin Pinned
    BY <2>2, <2>7, <2>8 DEF TableInv, ListingStands
  <2>9. ListingStands'
    <3> SUFFICES ASSUME outlived' = {}, NEW d \in Calls, Within(d)' PROVE Stands(d)'
      BY DEF ListingStands
    <3>1. CASE d = c
      BY <2>2, <2>3, <2>6, <2>7, <3>1 DEF TableInv, ListingStands
    <3>2. CASE d # c
      <4>1. call'[d] = call[d] /\ Within(d)
        BY <2>2, <2>4, <3>2 DEF Within
      <4>2. call[d].pc \notin {"opened", "judged"}
        BY <2>2, <2>7, <3>2, <4>1, WithinExclusive DEF TableInv, PhaseOfWork, Excludes
      <4>3. call[d].pc = "deleting" => call[d].doomed \cap Pinned = {}
        BY <2>7, <4>1 DEF TableInv, ListingStands
      <4> QED BY <2>6, <4>1, <4>2, <4>3
    <3> QED BY <3>1, <3>2
  <2>10. RefsNameLiveVersions'
    BY <2>1, <2>2, <2>7, <2>8 DEF TableInv, RefsNameLiveVersions, Pinned
  <2> QED BY <2>2, <2>5, <2>7, <2>9, <2>10 DEF TableInv, NoNestedBranches
<1>4. ASSUME NEW c \in Calls, TagOpens(c) \/ BranchJudges(c) PROVE TableInv'
  <2>1. PICK v \in versions, name \in Branches \cup {None} :
          \/ /\ TagOpens(c)
             /\ call' = [call EXCEPT ![c] = [call[c] EXCEPT !.pc = "opened", !.version = v]]
          \/ /\ BranchJudges(c) /\ name \in Branches
             /\ \A b \in Branches : branches[b] # 0 => ~ Nests(name, b)
             /\ call' = [call EXCEPT ![c] = [call[c] EXCEPT !.pc = "judged", !.name = name, !.version = v]]
    BY <1>4 DEF TagOpens, BranchJudges, Moves
  <2>2. /\ clock' = clock /\ work' = work /\ UNCHANGED table /\ Works(c)
        /\ TagOpens(c) => work[c] = "refs"
        /\ BranchJudges(c) => work[c] = "branch"
    BY <1>4 DEF TagOpens, BranchJudges
  <2>3. /\ call'[c].version = v
        /\ \/ TagOpens(c) /\ call'[c].pc = "opened"
           \/ /\ BranchJudges(c) /\ call'[c].pc = "judged" /\ call'[c].name = name /\ name \in Branches
              /\ \A b \in Branches : branches[b] # 0 => ~ Nests(name, b)
    <3>1. CASE TagOpens(c) /\ call' = [call EXCEPT ![c] = [call[c] EXCEPT !.pc = "opened", !.version = v]]
      BY <1>t, <3>1 DEF Locals
    <3>2. CASE /\ BranchJudges(c) /\ name \in Branches
               /\ \A b \in Branches : branches[b] # 0 => ~ Nests(name, b)
               /\ call' = [call EXCEPT ![c] = [call[c] EXCEPT !.pc = "judged", !.name = name, !.version = v]]
      BY <1>t, <3>2 DEF Locals
    <3> QED BY <2>1, <3>1, <3>2
  <2>4. \A d \in Calls \ {c} : call'[d] = call[d]
    BY <1>t, <2>1
  <2>5. outlived' = {} => outlived = {}
    BY <2>2 DEF Works
  <2>6. Pinned' = Pinned /\ versions' = versions /\ branches' = branches /\ tags' = tags
    BY <2>2 DEF Pinned, table
  <2>7. PhaseOfWork'
    BY <2>2, <2>3, <2>4 DEF TableInv, PhaseOfWork
  <2>8. ListingStands'
    <3> SUFFICES ASSUME outlived' = {}, NEW d \in Calls, Within(d)' PROVE Stands(d)'
      BY DEF ListingStands
    <3>1. CASE d = c
      BY <2>3, <2>6, <3>1
    <3>2. CASE d # c
      BY <2>2, <2>4, <2>5, <2>6, <3>2, BystandersStand
    <3> QED BY <3>1, <3>2
  <2> QED BY <2>5, <2>6, <2>7, <2>8 DEF TableInv, RefsNameLiveVersions, NoNestedBranches
<1>5. ASSUME NEW c \in Calls, TagWrites(c) \/ BranchCreates(c) PROVE TableInv'
  <2>1. /\ clock' = clock /\ work' = work /\ versions' = versions /\ Works(c)
        /\ call[c].pc \in {"opened", "judged"} /\ call' = [call EXCEPT ![c] = Leaving(c)]
        /\ TagWrites(c) => call[c].pc = "opened" /\ branches' = branches
        /\ BranchCreates(c) => call[c].pc = "judged" /\ tags' = tags
    BY <1>5 DEF TagWrites, BranchCreates, Moves
  <2>2. call'[c].pc = "releasing" /\ \A d \in Calls \ {c} : call'[d] = call[d]
    BY <1>t, <2>1 DEF Leaving, Fresh
  <2>3. ASSUME outlived' = {} PROVE outlived = {} /\ Within(c)
    BY <2>1, <2>3, WorkedWithin DEF Block
  <2>4. ASSUME outlived' = {} PROVE call[c].version \in versions
    BY <2>1, <2>3, <2>4 DEF TableInv, ListingStands
  <2>5. PhaseOfWork'
    BY <2>1, <2>2 DEF TableInv, PhaseOfWork
  <2>6. /\ \A t \in Tags : tags'[t] = tags[t] \/ tags'[t] = call[c].version
        /\ \A b \in Branches : \/ branches'[b] = branches[b]
                               \/ call[c].pc = "judged" /\ b = call[c].name /\ branches'[b] = call[c].version
    BY <1>5 DEF TagWrites, BranchCreates, FenceInv, TypeOK
  <2>7. RefsNameLiveVersions'
    BY <2>1, <2>3, <2>4, <2>6 DEF TableInv, RefsNameLiveVersions
  <2>8. NoNestedBranches'
    <3> SUFFICES ASSUME outlived' = {}, NEW a \in Branches, NEW b \in Branches,
                        branches'[a] # 0, branches'[b] # 0
                 PROVE  <<a, b>> \notin Inside
      BY DEF NoNestedBranches
    <3>1. \A n \in Branches : <<n, n>> \notin Inside
      BY FenceAssumption
    <3>2. call[c].pc = "judged" => \A n \in Branches : branches[n] # 0 => ~ Nests(call[c].name, n)
      BY <2>3 DEF TableInv, ListingStands
    <3>3. branches[a] # 0 /\ branches[b] # 0 => <<a, b>> \notin Inside
      BY <2>3 DEF TableInv, NoNestedBranches
    <3> QED BY <2>6, <3>1, <3>2, <3>3 DEF Nests
  <2>9. ListingStands'
    <3> SUFFICES ASSUME outlived' = {}, NEW d \in Calls, Within(d)' PROVE Stands(d)'
      BY DEF ListingStands
    <3>1. d # c
      BY <2>2 DEF Within, Block
    <3>2. call'[d] = call[d] /\ Within(d)
      BY <2>1, <2>2, <3>1 DEF Within
    <3>3. ~ Excludes(work[c], work[d])
      BY <2>3, <3>1, <3>2, WithinExclusive
    <3>4. call[d].pc # "deleting"
      BY <2>1, <3>3 DEF TableInv, PhaseOfWork, Excludes
    <3>5. call[d].pc \in {"opened", "judged"} => call[d].version \in versions
      BY <2>3, <3>2 DEF TableInv, ListingStands
    <3>6. ASSUME call[d].pc = "judged" PROVE branches' = branches
      <4>1. call[c].pc # "judged"
        BY <3>3, <3>6 DEF TableInv, PhaseOfWork, Excludes
      <4> QED BY <1>5, <2>1, <4>1
    <3>7. call[d].pc = "judged" => \A b \in Branches : branches[b] # 0 => ~ Nests(call[d].name, b)
      BY <2>3, <3>2 DEF TableInv, ListingStands
    <3> QED BY <2>1, <3>2, <3>4, <3>5, <3>6, <3>7
  <2> QED BY <2>5, <2>7, <2>8, <2>9 DEF TableInv
<1>6. ASSUME Commit \/ DeleteTag \/ DeleteBranch \/ Tick PROVE TableInv'
  <2>1. /\ clock \in Nat /\ clock' \in Nat /\ clock' >= clock
        /\ call' = call /\ work' = work /\ outlived' = outlived /\ versions \subseteq versions'
        /\ \A t \in Tags : tags'[t] = tags[t] \/ tags'[t] = 0
        /\ \A b \in Branches : branches'[b] = branches[b] \/ branches'[b] = 0
    BY <1>6, FenceAssumption DEF Commit, DeleteTag, DeleteBranch, Tick, FenceInv, TypeOK, table
  <2>2. \A c \in Calls : Within(c)' => Within(c)
    BY <1>t, <2>1 DEF Within, Locals
  <2>3. \A c \in Calls : 0 \notin call[c].doomed
    BY <1>t DEF Locals
  <2>4. Pinned' \subseteq Pinned \cup {0}
    BY <2>1 DEF Pinned
  <2>5. ListingStands'
    BY <2>1, <2>2, <2>3, <2>4 DEF TableInv, ListingStands
  <2>6. PhaseOfWork'
    BY <2>1 DEF TableInv, PhaseOfWork
  <2>7. RefsNameLiveVersions' /\ NoNestedBranches'
    BY <2>1 DEF TableInv, RefsNameLiveVersions, NoNestedBranches
  <2> QED BY <2>5, <2>6, <2>7 DEF TableInv
<1> QED BY <1>0, <1>1, <1>2, <1>3, <1>4, <1>5, <1>6 DEF Next, Body

-----------------------------------------------------------------------------
(* The theorems                                                            *)

\* Both invariants hold of every behaviour of the fence.
LEMMA FenceInvariant == Spec => [](FenceInv /\ TableInv)
<1>1. Init => FenceInv /\ TableInv
  <2> SUFFICES ASSUME Init PROVE FenceInv /\ TableInv
    OBVIOUS
  <2>1. Fresh("taking") \in Locals
    BY FreshTyped DEF Phase
  <2>2. TypeOK
    BY <2>1, FenceAssumption DEF Init, TypeOK, Absent, Record
  <2>3. \A c \in Calls : call[c].pc = "taking" /\ call[c].at = 0
    BY DEF Init, Fresh
  <2>4. ReadsPast /\ JudgedFree /\ HoldRecorded
    BY <2>2, <2>3, FenceAssumption DEF ReadsPast, JudgedFree, HoldRecorded, Within, Block, Init
  <2>5. LiveHoldersCompatible
    BY DEF Init, LiveHoldersCompatible, Live, Absent
  <2>6. PhaseOfWork /\ ListingStands
    BY <2>3 DEF PhaseOfWork, ListingStands, Within, Block
  <2>7. RefsNameLiveVersions /\ NoNestedBranches
    BY DEF Init, RefsNameLiveVersions, NoNestedBranches
  <2> QED BY <2>2, <2>4, <2>5, <2>6, <2>7 DEF FenceInv, TableInv
<1>2. FenceInv /\ TableInv /\ [Next]_vars => (FenceInv /\ TableInv)'
  BY FenceStep, TableStep
<1> QED BY <1>1, <1>2, PTL DEF Spec

\* The variables keep their types.
THEOREM FenceTypeCorrect == Spec => []TypeOK
<1>1. FenceInv /\ TableInv => TypeOK
  BY DEF FenceInv
<1> QED BY <1>1, FenceInvariant, PTL

\* The record history_fences.py keeps never lists two live holds that
\* exclude each other, for any number of calls racing takes, releases,
\* lapses and lost answers.
THEOREM FenceHoldersCompatible == Spec => []LiveHoldersCompatible
<1>1. FenceInv /\ TableInv => LiveHoldersCompatible
  BY DEF FenceInv
<1> QED BY <1>1, FenceInvariant, PTL

\* No tag or branch names a version a reclaim deleted, unless a call worked
\* past its hold.
THEOREM FenceKeepsRefs == Spec => []RefsNameLiveVersions
<1>1. FenceInv /\ TableInv => RefsNameLiveVersions
  BY DEF TableInv
<1> QED BY <1>1, FenceInvariant, PTL

\* No branch lands inside another's directory, unless a call worked past
\* its hold.
THEOREM FenceKeepsBranchesApart == Spec => []NoNestedBranches
<1>1. FenceInv /\ TableInv => NoNestedBranches
  BY DEF TableInv
<1> QED BY <1>1, FenceInvariant, PTL

\* A live hold leaves the record only by its own call's release.
THEOREM FenceHoldEndsByItsRelease == Spec => LiveHoldEndsByItsRelease
<1> DEFINE Ends == \A h \in fence.holders :
               h \notin fence'.holders =>
                   \/ h.expires <= clock
                   \/ call[h.token[1]].pc = "clearing" /\ call'[h.token[1]].pc = "done"
<1>1. FenceInv /\ [Next]_vars => [Ends]_vars
  <2> SUFFICES ASSUME FenceInv, Next PROVE Ends
    OBVIOUS
  <2>0. clock \in Nat /\ \A h \in fence.holders : h.expires \in Nat
    BY FenceAssumption DEF FenceInv, TypeOK, Record, Holder
  <2>1. ASSUME NEW c \in Calls, TakeWrites(c) \/ TakeAnswerLost(c) PROVE Ends
    BY <2>0, <2>1, TakenStep
  <2>2. ASSUME NEW c \in Calls, ReleaseWrites(c) PROVE Ends
    <3>1. call'[c] = Fresh("done") /\ call[c].pc = "clearing"
      BY <2>2 DEF ReleaseWrites, Moves, FenceInv, TypeOK
    <3>2. call'[c].pc = "done"
      BY <3>1 DEF Fresh
    <3> QED BY <2>0, <2>2, <3>1, <3>2, KeptStep
  <2>3. ASSUME fence' = fence PROVE Ends
    BY <2>3
  <2>4. \/ \E c \in Calls : TakeWrites(c) \/ TakeAnswerLost(c) \/ ReleaseWrites(c)
        \/ fence' = fence
    BY DEF Next, Take, Body, Release, TakeReads, TakeLoses, ReclaimLists, ReclaimDeletes, TagOpens,
           TagWrites, BranchJudges, BranchCreates, BlockEnds, ReleaseReads, ReleaseLoses, Commit,
           DeleteTag, DeleteBranch, Tick
  <2> QED BY <2>1, <2>2, <2>3, <2>4
<1> QED BY <1>1, FenceInvariant, PTL DEF Spec, LiveHoldEndsByItsRelease
=============================================================================

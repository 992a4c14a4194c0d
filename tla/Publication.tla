---------------------------- MODULE Publication ----------------------------
(***************************************************************************)
(* The publish door, the promotion holds and the cron that expires them,   *)
(* on one table.  Readers read the version tagged `published`.  A publish  *)
(* gates a version and moves the tag; under review a breach is held for a  *)
(* person, whose approval moves the tag and whose rejection restores main. *)
(* A tag has no conditional update; the hold is one record under its ETag. *)
(***************************************************************************)
EXTENDS Integers, Sequences

CONSTANTS
    Calls,       \* requests and cron ticks, by what each asks for
    Hours,       \* review_hours: how long a hold waits
    MaxVersion,  \* bound: the versions of main
    MaxTime,     \* bound: where the clock stops
    Band,        \* review_band, in percent of the published row count
    Offerings       \* what is asked of which table, and what may fail

VARIABLES
    head,      \* the newest version of main
    contents,  \* per version: its failed assertions and its row count
    stored,    \* the versions cleanup has not collected
    tags,      \* published, publishing and rask.held: the version each names, or 0
    hold,      \* the table's hold record
    time,
    offering,  \* what is left to ask and to fail, and whether the gate has review on
    call,      \* per call: its locals
    cleared,   \* history: how a version was let through to readers
    acts,      \* history: what was done under which hold
    reached    \* history: the newest version readers have read

pubVars == <<head, contents, stored, tags, hold, time, offering, call, cleared, acts, reached>>

Versions == 1..MaxVersion
Content  == [failed : SUBSET {"structural", "waivable"}, rows : Nat]
Closed   == {"approved", "rejected", "expired", "superseded"}
Hold     == [id : Nat, version : 0..MaxVersion, expires : Nat,
             state : {"none", "open"} \cup Closed, owed : BOOLEAN, restored : 0..MaxVersion]
NoHold   == [id |-> 0, version |-> 0, expires |-> 0, state |-> "none", owed |-> FALSE, restored |-> 0]

\* A call names its door, its version, whether it accepts the failed assertions
\* a validator may, and who makes it.
CallAsk   == [door : {"publish", "approve", "reject", "expire"}, version : 0..MaxVersion,
              waives : BOOLEAN, by : Nat]
CallFault == {"gate", "tag", "record", "answer", "restore"}
Offering  == [contents : Seq(Content), published : 0..MaxVersion,
              work : SUBSET Calls, faults : SUBSET CallFault,
              review : BOOLEAN, commits : BOOLEAN, cleans : BOOLEAN]

ASSUME PublicationAssumption ==
    /\ MaxVersion \in Nat \ {0} /\ Hours \in Nat /\ MaxTime \in Nat /\ Band \in Nat
    /\ Calls \subseteq CallAsk
    /\ Offerings \subseteq Offering
    /\ \A o \in Offerings : Len(o.contents) \in Versions /\ o.published <= Len(o.contents)

CallLocals == [pc : {"idle", "begun", "reading", "pinning", "judging", "moving", "unpinning", "holding",
                     "closing", "rereading", "syncing", "deciding", "advancing", "owing", "restoring",
                     "settling", "expiring", "ended"},
               previous : 0..MaxVersion, review : BOOLEAN,
               verdict : {"none", "refused", "failed", "refuse", "hold", "publish", "moved", "done",
                          "approved", "rejected"},
               mine : Hold, seen : Hold]

NotBegun == [pc |-> "idle", previous |-> 0, review |-> FALSE, verdict |-> "none", mine |-> NoHold, seen |-> NoHold]

PubTypeOK ==
    /\ head \in Versions
    /\ contents \in [1..head -> Content]
    /\ stored \subseteq 1..head /\ head \in stored
    /\ tags \in [published : 0..head, publishing : 0..head, held : 0..head]
    /\ hold \in Hold
    /\ time \in 0..MaxTime
    /\ offering \in Offering
    /\ call \in [Calls -> CallLocals]
    /\ cleared \subseteq Versions \X {"gate", "waiver", "approval"}
    /\ acts \subseteq [id : Nat, kind : Closed, asked : 0..MaxVersion, held : 0..MaxVersion]
    /\ reached \in 0..MaxVersion

PubInit ==
    /\ offering \in Offerings
    /\ contents = offering.contents
    /\ head = Len(contents)
    /\ stored = 1..head
    /\ tags = [published |-> offering.published, publishing |-> 0, held |-> 0]
    /\ hold = NoHold
    /\ time = 0
    /\ call = [c \in Calls |-> NotBegun]
    /\ cleared = {}
    /\ acts = {}
    /\ reached = offering.published

data    == <<head, contents, stored>>
history == <<cleared, acts, reached>>

CallAt(c, pc) == call[c].pc = pc
AsksFor(c, door) == c.door = door
V(c) == c.version

CallGoes(c, locals) == call' = [call EXCEPT ![c] = locals]
CallGoesTo(c, pc)   == CallGoes(c, [call[c] EXCEPT !.pc = pc])
Answers(c, as)  == CallGoes(c, [call[c] EXCEPT !.pc = "ended", !.verdict = as])

MeetsFault(fault) == fault \in offering.faults /\ offering' = [offering EXCEPT !.faults = @ \ {fault}]

CallBegins(c) ==
    /\ CallAt(c, "idle") /\ c \in offering.work
    /\ CallGoesTo(c, "begun")
    /\ UNCHANGED <<data, tags, hold, time, offering, history>>

-----------------------------------------------------------------------------
(* set_tag and drop_tag.  The read only says which of create and update to *)
(* try; a refusal to create is answered by the update.  Lance writes a tag *)
(* on a version that is there; a reclaim that holds the table's history,   *)
(* or a tag deleted between the read and the update, refuses it.           *)

CanTag(v) == v \in stored

SetsTag(tag, v) == CanTag(v) /\ tags' = [tags EXCEPT ![tag] = v] /\ UNCHANGED offering

TagRefused(v) == UNCHANGED tags /\ IF CanTag(v) THEN MeetsFault("tag") ELSE UNCHANGED offering

-----------------------------------------------------------------------------
(* publication.publish, under the publish door.                            *)

\* resolve_effective_gate: the project's declaration, or, when it cannot be read,
\* the request's own gate, which has no review.
ResolvesGate(c) ==
    /\ CallAt(c, "begun") /\ AsksFor(c, "publish")
    /\ \/ CallGoes(c, [call[c] EXCEPT !.pc = "reading", !.review = offering.review]) /\ UNCHANGED offering
       \/ offering.review /\ MeetsFault("gate") /\ CallGoesTo(c, "reading")
    /\ UNCHANGED <<data, tags, hold, time, history>>

\* The version asked for must exist and not lie before what is published.
PublishReads(c) ==
    /\ CallAt(c, "reading")
    /\ IF V(c) > head \/ V(c) < tags.published
       THEN Answers(c, "refused")
       ELSE CallGoes(c, [call[c] EXCEPT !.pc = "pinning", !.previous = tags.published])
    /\ UNCHANGED <<data, tags, hold, time, offering, history>>

\* The candidate is pinned while its gate runs; the finally runs all the same.
PublishPins(c) ==
    /\ CallAt(c, "pinning")
    /\ \/ SetsTag("publishing", V(c)) /\ CallGoesTo(c, "judging")
       \/ TagRefused(V(c)) /\ CallGoes(c, [call[c] EXCEPT !.pc = "unpinning", !.verdict = "failed"])
    /\ UNCHANGED <<data, hold, time, history>>

Distance(m, n) == IF m < n THEN n - m ELSE m - n

\* review_reasons: nothing to compare with, or further from it than the band.
Unusual(rows, published) == published = 0 \/ 100 * Distance(rows, published) > Band * published

RowsAt(v) == IF v = 0 THEN 0 ELSE contents[v].rows

\* Mutant of Judged: the candidate is opened bare, so the gate scans the newest version.
JudgedAtHead(c) == contents[head]

\* The version the gate scans: the one being published.
Judged(c) == contents[V(c)]

\* judge_findings, with the assertions the request accepts.
VerdictOn(c) ==
    LET unaccepted == Judged(c).failed \ (IF c.waives THEN {"waivable"} ELSE {})
        unusual    == Unusual(Judged(c).rows, RowsAt(call[c].previous))
    IN  IF "structural" \in unaccepted \/ (unaccepted # {} /\ ~call[c].review) THEN "refuse"
        ELSE IF call[c].review /\ (unaccepted # {} \/ unusual) THEN "hold"
        ELSE "publish"

\* The candidate, and under review the published version, are opened at their versions.
Opens(c) == {V(c)} \cup IF call[c].review THEN {call[c].previous} \ {0} ELSE {}

PublishJudges(c) ==
    /\ CallAt(c, "judging")
    /\ LET verdict == IF Opens(c) \subseteq stored THEN VerdictOn(c) ELSE "failed" IN
       CallGoes(c, [call[c] EXCEPT !.verdict = verdict,
                  !.pc = IF verdict = "publish" /\ V(c) # call[c].previous THEN "moving" ELSE "unpinning"])
    /\ UNCHANGED <<data, tags, hold, time, offering, history>>

How(c) == IF c.waives THEN "waiver" ELSE "gate"

Reaches(v) == reached' = IF v > reached THEN v ELSE reached

\* The mover is recorded, then the tag moves; a refusal of either leaves the tag.
PublishMoves(c) ==
    /\ CallAt(c, "moving") /\ AsksFor(c, "publish")
    /\ \/ /\ SetsTag("published", V(c))
          /\ CallGoes(c, [call[c] EXCEPT !.pc = "unpinning", !.verdict = "moved"])
          /\ cleared' = cleared \cup {<<V(c), How(c)>>}
          /\ Reaches(V(c))
       \/ /\ TagRefused(V(c))
          /\ CallGoes(c, [call[c] EXCEPT !.pc = "unpinning", !.verdict = "failed"])
          /\ UNCHANGED <<cleared, reached>>
    /\ UNCHANGED <<data, hold, time, acts>>

\* The finally: publishing goes, whoever's it is by now, or stays if it cannot.
PublishUnpins(c) ==
    /\ CallAt(c, "unpinning")
    /\ \/ tags' = [tags EXCEPT !.publishing = 0] /\ UNCHANGED offering
       \/ tags.publishing # 0 /\ MeetsFault("tag") /\ UNCHANGED tags
    /\ CallGoesTo(c, CASE call[c].verdict = "hold" -> "holding"
                   [] call[c].verdict = "moved" -> "closing"
                   [] OTHER -> "ended")
    /\ UNCHANGED <<data, hold, time, history>>

-----------------------------------------------------------------------------
(* The hold record.  Each of these is one write on the record as it is     *)
(* then; a write whose answer is lost fails its call.                      *)

Opened(c) == [NoHold EXCEPT !.id = hold.id + 1, !.version = V(c), !.expires = time + Hours, !.state = "open"]

\* open_hold: a newer version held is decided first, the same one keeps its hold.
OpensHold(c) ==
    /\ CallAt(c, "holding")
    /\ IF hold.state = "open" /\ hold.version > V(c)
       THEN Answers(c, "refused") /\ UNCHANGED <<hold, offering>>
       ELSE LET standing == IF hold.state = "open" /\ hold.version = V(c) THEN hold ELSE Opened(c) IN
            /\ hold' = standing
            /\ \/ CallGoes(c, [call[c] EXCEPT !.pc = "syncing", !.mine = standing, !.seen = standing]) /\ UNCHANGED offering
               \/ MeetsFault("answer") /\ Answers(c, "failed")
    /\ UNCHANGED <<data, tags, time, history>>

Acts(c, kind, held) ==
    acts' = acts \cup {[id |-> held.id, kind |-> kind, asked |-> V(c), held |-> held.version]}

\* supersede: the open hold that published reached is closed.
Supersedes(c, published) ==
    IF hold.state = "open" /\ hold.version <= published
    THEN /\ hold' = [hold EXCEPT !.state = "superseded"]
         /\ acts' = acts \cup {[id |-> hold.id, kind |-> "superseded", asked |-> hold.version, held |-> hold.version]}
         /\ CallGoesTo(c, "rereading")
    ELSE CallGoesTo(c, "ended") /\ UNCHANGED <<hold, acts>>

\* _close_what_published_reached, best-effort.
ClosesReached(c) ==
    /\ CallAt(c, "closing")
    /\ \/ Supersedes(c, IF call[c].verdict = "moved" THEN V(c) ELSE call[c].previous) /\ UNCHANGED offering
       \/ MeetsFault("record") /\ CallGoesTo(c, "ended") /\ UNCHANGED <<hold, acts>>
    /\ UNCHANGED <<data, tags, time, cleared, reached>>

\* _repin and _unpin: the record as it stands now, then the tag.
Rereads(c) ==
    /\ CallAt(c, "rereading")
    /\ CallGoes(c, [call[c] EXCEPT !.pc = "syncing", !.seen = hold])
    /\ UNCHANGED <<data, tags, hold, time, offering, history>>

Settled(c) == IF call[c].verdict \in {"none", "hold"} THEN "done" ELSE call[c].verdict

\* sync_pin, by the hold its call read.
SyncsPin(c) ==
    /\ CallAt(c, "syncing")
    /\ LET seen == call[c].seen IN
       \/ /\ IF seen.state = "open" THEN SetsTag("held", seen.version)
             ELSE tags' = [tags EXCEPT !.held = 0] /\ UNCHANGED offering
          /\ Answers(c, Settled(c))
       \/ /\ IF seen.state = "open" THEN TagRefused(seen.version)
             ELSE tags.held # 0 /\ MeetsFault("tag") /\ UNCHANGED tags
          /\ Answers(c, "failed")
    /\ UNCHANGED <<data, hold, time, history>>

-----------------------------------------------------------------------------
(* _decision, approve_promotion and reject_promotion.                      *)

Decision(c) == IF AsksFor(c, "approve") THEN "approved" ELSE "rejected"
ActsNext(c) == IF AsksFor(c, "approve") THEN "advancing" ELSE "owing"

\* A hold that published reached is closed, unless the same decision stands on it.
DecisionReads(c) ==
    /\ CallAt(c, "begun") /\ (AsksFor(c, "approve") \/ AsksFor(c, "reject"))
    /\ LET read == [call[c] EXCEPT !.previous = tags.published] IN
       IF tags.published = 0 \/ tags.published < V(c) THEN CallGoes(c, [read EXCEPT !.pc = "deciding"])
       ELSE IF hold.version = V(c) /\ hold.state = Decision(c)
            THEN CallGoes(c, [read EXCEPT !.pc = ActsNext(c), !.mine = hold])
            ELSE CallGoes(c, [read EXCEPT !.pc = "closing", !.verdict = "refused"])
    /\ UNCHANGED <<data, tags, hold, time, offering, history>>

\* Mutant of Decidable: a hold of the version is decided whatever became of it.
DecidableAgain(c) == hold.version = V(c)

\* The hold is open on the version the decision names.
Decidable(c) == hold.state = "open" /\ hold.version = V(c)

Decided(c) == [hold EXCEPT !.state = Decision(c), !.owed = AsksFor(c, "reject") /\ call[c].previous # 0]

\* decide: recorded before it acts; the same decision asked again goes on with it.
Decides(c) ==
    /\ CallAt(c, "deciding")
    /\ \/ /\ Decidable(c)
          /\ hold' = Decided(c)
          /\ \/ CallGoes(c, [call[c] EXCEPT !.pc = ActsNext(c), !.mine = hold']) /\ UNCHANGED offering
             \/ MeetsFault("answer") /\ Answers(c, "failed")
       \/ /\ ~Decidable(c)
          /\ IF hold.version = V(c) /\ hold.state = Decision(c)
             THEN CallGoes(c, [call[c] EXCEPT !.pc = ActsNext(c), !.mine = hold])
             ELSE Answers(c, "refused")
          /\ UNCHANGED <<hold, offering>>
    /\ UNCHANGED <<data, tags, time, history>>

\* advance: read again right before the move.
AdvanceReads(c) ==
    /\ CallAt(c, "advancing")
    /\ CallGoes(c, [call[c] EXCEPT !.verdict = "approved",
                  !.pc = IF tags.published >= V(c) THEN "rereading" ELSE "moving"])
    /\ UNCHANGED <<data, tags, hold, time, offering, history>>

AdvanceMoves(c) ==
    /\ CallAt(c, "moving") /\ AsksFor(c, "approve")
    /\ \/ /\ SetsTag("published", V(c))
          /\ CallGoesTo(c, "rereading")
          /\ cleared' = cleared \cup {<<V(c), "approval">>}
          /\ Acts(c, "approved", call[c].mine)
          /\ Reaches(V(c))
       \/ /\ TagRefused(V(c))
          /\ Answers(c, "failed")
          /\ UNCHANGED history
    /\ UNCHANGED <<data, hold, time>>

\* What the rejection owes main, by what is published now.
RejectReads(c) ==
    /\ CallAt(c, "owing")
    /\ CallGoes(c, [call[c] EXCEPT !.verdict = "rejected", !.previous = tags.published,
                  !.pc = IF ~call[c].mine.owed THEN "rereading"
                         ELSE IF tags.published < V(c) THEN "restoring" ELSE "settling"])
    /\ UNCHANGED <<data, tags, hold, time, offering, history>>

\* dataplane.restore: the published version again, as main's newest.
RestoresMain(c) ==
    /\ CallAt(c, "restoring")
    /\ \/ /\ call[c].previous \in stored /\ head < MaxVersion
          /\ head' = head + 1
          /\ contents' = [v \in 1..head' |-> IF v = head' THEN contents[call[c].previous] ELSE contents[v]]
          /\ stored' = stored \cup {head'}
          /\ CallGoes(c, [call[c] EXCEPT !.pc = "settling", !.mine.restored = head'])
          /\ Acts(c, "rejected", call[c].mine)
          /\ UNCHANGED offering
       \/ /\ IF call[c].previous \in stored THEN MeetsFault("restore") ELSE UNCHANGED offering
          /\ Answers(c, "failed")
          /\ UNCHANGED <<data, acts>>
    /\ UNCHANGED <<tags, hold, time, cleared, reached>>

\* record_restore: what was owed is settled, once.
RecordsRestore(c) ==
    /\ CallAt(c, "settling")
    /\ IF hold.version = V(c) /\ hold.state = "rejected"
       THEN /\ hold' = IF hold.owed THEN [hold EXCEPT !.owed = FALSE, !.restored = call[c].mine.restored] ELSE hold
            /\ CallGoesTo(c, "rereading")
       ELSE Answers(c, "failed") /\ UNCHANGED hold
    /\ UNCHANGED <<data, tags, time, offering, history>>

-----------------------------------------------------------------------------
(* The expiry tick, the clock, other writers and the cleanup of versions.  *)

\* due: the open hold past its deadline.
ExpiryLists(c) ==
    /\ CallAt(c, "begun") /\ AsksFor(c, "expire")
    /\ IF hold.state = "open" /\ hold.expires <= time
       THEN CallGoes(c, [call[c] EXCEPT !.pc = "expiring", !.mine = hold])
       ELSE Answers(c, "done")
    /\ UNCHANGED <<data, tags, hold, time, offering, history>>

\* expire: if it is still open on the same version past its deadline.
ExpiresHold(c) ==
    /\ CallAt(c, "expiring")
    /\ IF hold.state = "open" /\ hold.version = call[c].mine.version /\ hold.expires <= time
       THEN /\ hold' = [hold EXCEPT !.state = "expired"]
            /\ acts' = acts \cup {[id |-> hold.id, kind |-> "expired", asked |-> hold.version, held |-> hold.version]}
            /\ CallGoesTo(c, "rereading")
       ELSE Answers(c, "done") /\ UNCHANGED <<hold, acts>>
    /\ UNCHANGED <<data, tags, time, offering, cleared, reached>>

HourPasses ==
    /\ time < MaxTime
    /\ time' = time + 1
    /\ UNCHANGED <<data, tags, hold, offering, call, history>>

\* Another writer's version, on main.
Commits ==
    /\ head < MaxVersion /\ offering.commits
    /\ head' = head + 1
    /\ contents' = [v \in 1..head' |-> IF v = head' THEN contents[head] ELSE contents[v]]
    /\ stored' = stored \cup {head'}
    /\ offering' = [offering EXCEPT !.commits = FALSE]
    /\ UNCHANGED <<tags, hold, time, call, history>>

\* cleanup_old_versions keeps the newest version and the tagged ones.
Collects(v) ==
    /\ offering.cleans
    /\ v \in stored \ ({head} \cup {tags[t] : t \in DOMAIN tags})
    /\ stored' = stored \ {v}
    /\ UNCHANGED <<head, contents, tags, hold, time, offering, call, history>>

CallStep(c) ==
    \/ CallBegins(c)
    \/ ResolvesGate(c) \/ PublishReads(c) \/ PublishPins(c) \/ PublishJudges(c)
    \/ PublishMoves(c) \/ PublishUnpins(c)
    \/ OpensHold(c) \/ ClosesReached(c) \/ Rereads(c) \/ SyncsPin(c)
    \/ DecisionReads(c) \/ Decides(c) \/ AdvanceReads(c) \/ AdvanceMoves(c)
    \/ RejectReads(c) \/ RestoresMain(c) \/ RecordsRestore(c)
    \/ ExpiryLists(c) \/ ExpiresHold(c)

PubNext == (\E c \in Calls : CallStep(c)) \/ HourPasses \/ Commits \/ (\E v \in Versions : Collects(v))

PubSpec == PubInit /\ [][PubNext]_pubVars

-----------------------------------------------------------------------------
(* Properties                                                              *)

\* "an approval cannot land on a newer hold the approver never reviewed, two
\* people deciding one hold cannot both act, and two replicas' sweeps expire one
\* hold once" (promotions.py): what was done under a hold is of one kind and on
\* the version it named; an approval that was answered had the version reach
\* readers, and a rejection that was answered settled what it owed main.
DecisionsAct ==
    /\ \A a, b \in acts : a.id = b.id => a.kind = b.kind
    /\ \A a \in acts : a.asked = a.held
    /\ \A c \in Calls : CallAt(c, "ended") =>
          /\ call[c].verdict = "approved" => reached >= V(c)
          /\ call[c].verdict = "rejected" /\ call[c].mine.owed =>
                reached >= V(c) \/ \E a \in acts : a.id = call[c].mine.id /\ a.kind = "rejected"

\* "a version reaches them only through this door", "no approval makes broken
\* data right" (publication.py): what readers read has no structural finding,
\* and one that failed an assertion was waived by a validator or approved.
ReadersReadReviewed ==
    tags.published \notin {0, offering.published} =>
        LET failed == contents[tags.published].failed IN
        /\ "structural" \notin failed
        /\ failed # {} => \E how \in {"waiver", "approval"} : <<tags.published, how>> \in cleared
=============================================================================

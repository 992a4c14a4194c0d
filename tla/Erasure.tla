------------------------------ MODULE Erasure ------------------------------
(***************************************************************************)
(* The erasure of a subject from one table: the obligation                 *)
(* (catalog/services/erasure_obligations.py), the verification that judges *)
(* what the rewriting job left, reclaims and settles                       *)
(* (catalog/services/erasure.py, endpoints/erasure.py), and the tables     *)
(* derived from the erased one (catalog/services/erasure_derived.py).      *)
(* Verifications run beside each other, the job, the table's users and the *)
(* retention sweep. What a scheduled release of pins does is one step      *)
(* here; module ErasureRelease shows how it gets there.                    *)
(*                                                                         *)
(* A version is the objects its manifest names: data files and index       *)
(* segments, each under the ref whose directory holds it. A file holds the *)
(* subject or not; deleting a row leaves it in its file. Reclaims share    *)
(* the history fence (module HistoryFence); users' tags and branches, and  *)
(* the release, wait until none holds it.                                  *)
(***************************************************************************)
EXTENDS Integers, FiniteSets, FiniteSetsExt, TLC

CONSTANTS
    BranchNames, \* branch names
    TagNames,    \* tag names
    Derived,     \* the tables that may come to be derived from the erased one
    Verifiers,   \* verification requests under way at once
    Offers,      \* the table to begin with, and what is asked of it
    MaxVersion,  \* bound on a ref's versions
    MaxFailures  \* bound on failures and crashes

Trunk   == "main"
Source  == "source"
Nothing == "none"
Refs    == {Trunk} \cup BranchNames

Data     == {"rows", "rest", "again", "clean"}
Segments == {"dirty", "good", "new"}
Objects  == Refs \X (Data \cup Segments)

DataIn(objs)     == {o \in objs : o[2] \in Data}
SegmentsIn(objs) == {o \in objs : o[2] \in Segments}

\* What holds the subject: the rows and those written again; the segment built
\* over them, and, at worst, one the job built since.
SubjectIn(objs) == {o \in objs : o[2] \in {"rows", "again", "dirty", "new"}}

\* deleted: the files whose rows of the subject a deletion vector hides; old:
\* outside the retention window.
Version    == [objs: SUBSET Objects, deleted: SUBSET Objects, old: BOOLEAN]
References == Refs \X (1 .. MaxVersion)
NoRef      == <<Nothing, 0>>

VARIABLES
    log,         \* the versions each ref retains
    fork,        \* where each branch was cut
    tagged,      \* the version each tag names
    stored,      \* the objects on storage
    fence,       \* the verifications that hold the table's history to reclaim it
    obligation,  \* the obligation's record
    release,     \* the refs of the scheduled release, {} when none is
    edges,       \* the recorded inputs of derived tables, <<input, table>>
    declaring,   \* inputs declared and not recorded yet
    follows,     \* what the obligation on each derived table follows
    claim,       \* its location claim: held, kept (released, the bytes left), gone, taken by another
    asked,       \* what the job and the users have yet to do
    request,     \* how far each verification is
    watch,       \* the reconciler's watch of a released obligation
    failures,    \* failures and crashes so far
    since        \* the refs made, and versions left, since the release was judged

table       == <<log, fork, tagged, stored>>
kin         == <<edges, declaring, follows, claim>>
erasureVars == <<table, fence, obligation, release, kin, asked, request, watch, failures, since>>

-----------------------------------------------------------------------------

Pins     == BranchNames \cup TagNames
Verdicts == {"answers", "hidden", "indexed", "clean", "dangling"}
Edges    == (Derived \cup {Source}) \X Derived

ASSUME ErasureAssumption ==
    /\ Source \notin Derived /\ Nothing \notin Derived
    /\ \A o \in Offers : o.edges \subseteq Edges

NotVerifying == [pc |-> "idle", listed |-> {}, forks |-> <<>>, todo |-> {}, clean |-> {}, proved |-> {},
                 tags |-> <<>>, open |-> FALSE, named |-> TRUE, reclaimed |-> {}, beyond |-> {}, seen |-> {},
                 pins |-> {}, settled |-> FALSE, derived |-> {}, then |-> {}, known |-> {}, late |-> {}]

NoWatch == [pc |-> "idle", late |-> {}]

ErasureTypeOK ==
    /\ \A r \in Refs : DOMAIN log[r] \subseteq 1 .. MaxVersion /\ \A n \in DOMAIN log[r] : log[r][n] \in Version
    /\ fork \in [BranchNames -> References \cup {NoRef}]
    /\ tagged \in [TagNames -> References \cup {NoRef}]
    /\ stored \subseteq Objects
    /\ fence \subseteq Verifiers
    /\ obligation.state \in {"none", "open", "released"}
    /\ obligation.trusted \in [Refs -> 0 .. MaxVersion]
    /\ obligation.late \subseteq Derived /\ obligation.before \subseteq Edges
    /\ release \subseteq Pins
    /\ edges \cup declaring \subseteq Edges
    /\ follows \in [Derived -> {Nothing, Source} \cup Derived]
    /\ claim \in [Derived -> {"held", "kept", "gone", "taken"}]
    /\ \A r \in Verifiers : /\ request[r].clean \cup request[r].reclaimed \subseteq Refs
                            /\ request[r].pins \cup request[r].late \subseteq Pins
                            /\ request[r].seen \subseteq References \X Verdicts
    /\ watch.late \subseteq Derived
    /\ failures \in 0 .. MaxFailures
    /\ since.known \subseteq References /\ since.late \subseteq Pins /\ since.then \subseteq Derived

ErasureInit ==
    \E o \in Offers :
       /\ log = o.log /\ fork = o.fork /\ tagged = o.tag
       /\ stored = UNION {UNION {o.log[r][n].objs : n \in DOMAIN o.log[r]} : r \in Refs}
       /\ edges = o.edges /\ asked = o.asks
       /\ fence = {} /\ release = {} /\ declaring = {}
       /\ obligation = [state |-> "none", trusted |-> [r \in Refs |-> 0], late |-> {}, before |-> {}]
       /\ follows = [d \in Derived |-> Nothing] /\ claim = [d \in Derived |-> "held"]
       /\ request = [r \in Verifiers |-> NotVerifying] /\ watch = NoWatch
       /\ failures = o.faults /\ since = [known |-> {}, late |-> {}, then |-> {}]

Exists(ref)  == DOMAIN log[ref] # {}
Standing     == {b \in BranchNames : Exists(b)}
HeadOf(ref)  == Max(DOMAIN log[ref])
Retained     == {x \in References : x[2] \in DOMAIN log[x[1]]}
IsAt(r, pc)  == request[r].pc = pc
Becomes(r, l) == request' = [request EXCEPT ![r] = l]

Failure == failures < MaxFailures /\ failures' = failures + 1

\* A step of the job or the users, each asked once.
Asked(a) == a \in asked /\ asked' = asked \ {a}

-----------------------------------------------------------------------------
(* The table: what Lance does (external)                                   *)

Commits(ref, version) ==
    /\ HeadOf(ref) < MaxVersion
    /\ log' = [log EXCEPT ![ref] = @ @@ (HeadOf(ref) + 1 :> version)]
    /\ stored' = stored \cup version.objs

\* _with_descendants: some branches and every branch cut from one of them.
WithDescendants(first, forks) ==
    {b \in BranchNames : \A s \in SUBSET BranchNames :
        first \subseteq s /\ (\A c \in DOMAIN forks : forks[c][1] \in s => c \in s) => b \in s}

\* The branches cut at a version, and from one of those.
CutFrom(forks, x) == WithDescendants({b \in DOMAIN forks : forks[b] = x}, forks)

Shares(x, y) == DataIn(log[x[1]][x[2]].objs) \cap DataIn(log[y[1]][y[2]].objs) # {}

\* cleanup_old_versions through one ref's handle: the versions outside the
\* window go, but for the head, what a tag names and what a branch stands on;
\* of those last only the files still referred to are kept.
Cleaned(ref) ==
    LET whole(n)  == n = HeadOf(ref) \/ ~ log[ref][n].old \/ \E t \in TagNames : tagged[t] = <<ref, n>>
        pinned(n) == \E y \in Retained : y[1] \in CutFrom(fork, <<ref, n>>) /\ Shares(<<ref, n>>, y)
        keeps     == {n \in DOMAIN log[ref] : whole(n) \/ pinned(n)}
        used      == UNION ({log[ref][n].objs : n \in {m \in keeps : whole(m)}} \cup
                            {log[y[1]][y[2]].objs : y \in {z \in Retained : z[1] # ref}})
    IN  /\ log' = [log EXCEPT ![ref] = [n \in keeps |-> log[ref][n]]]
        /\ stored' = {o \in stored : o[1] = ref => o \in used}

-----------------------------------------------------------------------------
(* The job, the users, the sweep                                           *)

Others == <<fence, obligation, release, kin, request, watch, failures, since>>

Latest(ref) == [log[ref][HeadOf(ref)] EXCEPT !.old = FALSE]

\* The job deletes the subject's rows, compacts the files that held them, drops
\* the indexes, builds them again; another writer writes the rows again.
Rewritten(ref, what) ==
    LET latest == Latest(ref)
        rows   == SubjectIn(DataIn(latest.objs))
    IN  CASE what = "delete"  -> [latest EXCEPT !.deleted = rows]
          [] what = "compact" -> [latest EXCEPT !.objs = (@ \ latest.deleted) \cup {<<ref, "clean">>}, !.deleted = {}]
          [] what = "unindex" -> [latest EXCEPT !.objs = DataIn(@)]
          [] what = "index"   -> [latest EXCEPT !.objs = @ \cup {<<ref, "new">>}]
          [] what = "write"   -> [latest EXCEPT !.objs = @ \cup {<<ref, "again">>}]

Rewrites ==
    /\ \E ref \in Refs, what \in {"delete", "compact", "unindex", "index", "write"} :
          /\ Asked(<<what, ref>>) /\ Exists(ref)
          /\ Commits(ref, Rewritten(ref, what))
    /\ UNCHANGED <<fork, tagged, Others>>

\* Refs made from now on are late for every verification that listed them.
Late(pin) ==
    /\ request' = [r \in Verifiers |-> [request[r] EXCEPT !.late = @ \cup {pin}]]
    /\ since' = [since EXCEPT !.late = @ \cup {pin}]

\* create_branch and create_tag, under the fence.
Cuts ==
    /\ fence = {}
    /\ \E b \in BranchNames, x \in Retained :
          /\ Asked(<<"cut", b>>) /\ ~ Exists(b)
          /\ log' = [log EXCEPT ![b] = (1 :> [log[x[1]][x[2]] EXCEPT !.old = FALSE])]
          /\ fork' = [fork EXCEPT ![b] = x]
          /\ Late(b)
    /\ UNCHANGED <<tagged, stored, fence, obligation, release, kin, watch, failures>>

Pinning ==
    /\ fence = {}
    /\ \E t \in TagNames, x \in Retained :
          /\ Asked(<<"tag", t>>)
          /\ tagged' = [tagged EXCEPT ![t] = x]
          /\ Late(t)
    /\ UNCHANGED <<log, fork, stored, fence, obligation, release, kin, watch, failures>>

\* What a verification found of a branch that is gone says nothing any more.
Forgets(gone) ==
    /\ request' = [r \in Verifiers |-> [request[r] EXCEPT !.known = {x \in @ : x[1] \notin gone}]]
    /\ since' = [since EXCEPT !.known = {x \in @ : x[1] \notin gone}]

\* delete_branch: no branch is cut from it and no tag names a version of it.
DropsBranch ==
    /\ \E b \in BranchNames :
          /\ Asked(<<"drop", b>>) /\ Exists(b)
          /\ \A c \in Standing : fork[c][1] # b
          /\ \A t \in TagNames : tagged[t][1] # b
          /\ log' = [log EXCEPT ![b] = <<>>]
          /\ fork' = [fork EXCEPT ![b] = NoRef]
          /\ stored' = {o \in stored : o[1] # b}
          /\ Forgets({b})
    /\ UNCHANGED <<tagged, fence, obligation, release, kin, watch, failures>>

\* Time passes: every version there is leaves the retention window.
Ages ==
    /\ Asked(<<"age", Trunk>>)
    /\ log' = [r \in Refs |-> [n \in DOMAIN log[r] |-> [log[r][n] EXCEPT !.old = TRUE]]]
    /\ UNCHANGED <<fork, tagged, stored, Others>>

\* The expiry of the retention sweep.
Sweeps ==
    /\ \E ref \in Refs : Asked(<<"sweep", ref>>) /\ Exists(ref) /\ Cleaned(ref)
    /\ UNCHANGED <<fork, tagged, Others>>

\* erasure_release.release_due, done: the tags go, and each branch with those
\* cut from it is deleted and recreated at main's head.
PinsGo ==
    LET named  == release \cap Standing
        doomed == WithDescendants(named, fork)
        top    == Latest(Trunk)
    IN  /\ release # {} /\ fence = {}
        /\ log' = [r \in Refs |-> IF r \in doomed THEN (1 :> top) ELSE log[r]]
        /\ fork' = [b \in BranchNames |-> IF b \notin doomed THEN fork[b]
                                       ELSE IF fork[b][1] \in doomed THEN <<fork[b][1], 1>>
                                       ELSE <<Trunk, HeadOf(Trunk)>>]
        /\ tagged' = [t \in TagNames |-> IF t \in release \/ tagged[t][1] \in doomed THEN NoRef ELSE tagged[t]]
        /\ stored' = {o \in stored : o[1] \notin doomed}
        /\ release' = {}
        /\ Forgets(doomed)
        /\ UNCHANGED <<fence, obligation, kin, asked, watch, failures>>

-----------------------------------------------------------------------------
(* erase_subject: the obligation                                           *)

\* The predicate is planned, every ref's commit-path cleanup is disarmed (no
\* ref here is armed), the heads are read and the record created.
Erases ==
    /\ Asked(<<"erase", Trunk>>)
    /\ obligation' = [obligation EXCEPT !.state = "open",
                          !.trusted = [r \in Refs |-> IF Exists(r) THEN HeadOf(r) ELSE 0]]
    /\ UNCHANGED <<table, fence, release, kin, request, watch, failures, since>>

-----------------------------------------------------------------------------
(* erasure.verify, step by step                                            *)

\* fresh_build: a segment the retained commit of a trusted version built over
\* rows that are still there. "good" was built at main's first version.
Proof(seg, objs, trusted) ==
    /\ seg[2] = "good"
    /\ 1 \in DOMAIN log[Trunk] /\ trusted[Trunk] >= 1
    /\ <<Trunk, "rest">> \in objs

\* Mutant of Unproved: only what answers a filter is looked for.
UnprovedNever(version, proved, trusted, whole) == {}

\* _unproved_segments
Unproved(version, proved, trusted, whole) ==
    {s \in SegmentsIn(version.objs) \cap stored :
        s \notin proved /\ ~ (whole /\ Proof(s, version.objs, trusted))}

\* _probe: what one version holds, read from its bytes.
Probe(x, proved) ==
    LET version == log[x[1]][x[2]]
        held    == SubjectIn(DataIn(version.objs)) \cap stored
        whole   == DataIn(version.objs) \subseteq stored
    IN  IF held # {} THEN IF held \subseteq version.deleted THEN "hidden" ELSE "answers"
        ELSE IF Unproved(version, proved, obligation.trusted, whole) # {} THEN "indexed"
        ELSE IF whole THEN "clean" ELSE "dangling"

\* derived_tables.walk, to the last table.
Walked(known) ==
    {d \in Derived : \A s \in SUBSET Derived :
        (\A e \in known : e[1] \in s \cup {Source} => e[2] \in s) => d \in s}

VerifyVars == <<obligation, release, kin, asked, watch, failures>>

\* verify_erasure: the obligation is read; a released one is refused.
Reads(r) ==
    /\ IsAt(r, "idle")
    /\ Asked(<<"verify", r>>)
    /\ IF obligation.state = "open"
       THEN Becomes(r, [NotVerifying EXCEPT !.pc = "list", !.then = Walked(edges)])
       ELSE UNCHANGED request
    /\ UNCHANGED <<table, fence, obligation, release, kin, watch, failures, since>>

\* The branches, with where each was cut; then the heads are judged.
ListsBranches(r) ==
    /\ IsAt(r, "list")
    /\ Becomes(r, [request[r] EXCEPT !.pc = "judge", !.listed = Standing, !.todo = Standing \cup {Trunk},
                                  !.forks = [b \in Standing |-> fork[b]]])
    /\ UNCHANGED <<table, fence, VerifyVars, since>>

\* _judge_head: branches, then main. A head that is not clean leaves its ref open.
Judges(r) ==
    LET l == request[r] IN
    /\ IsAt(r, "judge") /\ l.todo # {}
    /\ \E ref \in IF l.todo = {Trunk} THEN {Trunk} ELSE l.todo \ {Trunk} :
          LET clean == Exists(ref) /\ Probe(<<ref, HeadOf(ref)>>, {}) = "clean" IN
          Becomes(r, [l EXCEPT !.todo = @ \ {ref}, !.open = @ \/ ~ clean,
                            !.clean  = IF clean THEN @ \cup {ref} ELSE @,
                            !.proved = IF clean THEN @ \cup SegmentsIn(Latest(ref).objs) ELSE @])
    /\ UNCHANGED <<table, fence, VerifyVars, since>>

EveryHeadClean(l) == l.named /\ l.clean = l.listed \cup {Trunk}

\* _drop_subject_tags: the tags are listed, and kept while a head is not clean.
ListsTags(r) ==
    LET l     == request[r]
        named == {t \in TagNames : tagged[t] # NoRef}
    IN  /\ IsAt(r, "judge") /\ l.todo = {}
        /\ Becomes(r, IF EveryHeadClean(l) THEN [l EXCEPT !.pc = "tags", !.tags = [t \in named |-> tagged[t]]]
                   ELSE [l EXCEPT !.pc = "fence", !.open = @ \/ named # {}])
        /\ UNCHANGED <<table, fence, VerifyVars, since>>

\* Whether a tagged version answers the predicate; one that cannot be read does.
Answers(x) ==
    \/ x \notin Retained
    \/ ~ DataIn(log[x[1]][x[2]].objs) \subseteq stored
    \/ ~ SubjectIn(DataIn(log[x[1]][x[2]].objs)) \subseteq log[x[1]][x[2]].deleted

DropsTag(r) ==
    LET l == request[r] IN
    /\ IsAt(r, "tags")
    /\ IF DOMAIN l.tags = {} THEN Becomes(r, [l EXCEPT !.pc = "fence"]) /\ UNCHANGED tagged
       ELSE \E t \in DOMAIN l.tags :
          LET drops == Answers(l.tags[t]) IN
          /\ tagged' = IF drops THEN [tagged EXCEPT ![t] = NoRef] ELSE tagged
          /\ Becomes(r, [l EXCEPT !.tags = [u \in DOMAIN @ \ {t} |-> @[u]],
                               !.open = @ \/ (drops /\ tagged[t] = NoRef)])
    /\ UNCHANGED <<log, fork, stored, fence, VerifyVars, since>>

\* history.held(RECLAIM), beside other reclaims.
FencesHistory(r) ==
    /\ IsAt(r, "fence")
    /\ fence' = fence \cup {r}
    /\ Becomes(r, [request[r] EXCEPT !.pc = "reclaim", !.todo = request[r].listed \cup {Trunk}])
    /\ UNCHANGED <<table, VerifyVars, since>>

\* The branches no other one left is cut from, then main.
Deepest(todo, forks) ==
    IF todo = {Trunk} THEN {Trunk}
    ELSE {b \in todo \ {Trunk} : \A c \in todo \ {Trunk} : forks[c][1] # b}

\* _reclaim_refs: a clean ref's history is cleaned, and its cutoff noted: what
\* was beyond it then is out of the window.
ReclaimsRefs(r) ==
    LET l == request[r] IN
    /\ IsAt(r, "reclaim") /\ l.todo # {}
    /\ \E ref \in Deepest(l.todo, l.forks) :
          IF ref \in l.clean /\ Exists(ref)
          THEN /\ Cleaned(ref)
               /\ Becomes(r, [l EXCEPT !.todo = @ \ {ref}, !.reclaimed = @ \cup {ref},
                      !.beyond = @ \cup {x \in Retained : x[1] = ref /\ log[ref][x[2]].old}])
          ELSE /\ Becomes(r, [l EXCEPT !.todo = @ \ {ref}, !.open = TRUE])
               /\ UNCHANGED <<log, stored>>
    /\ UNCHANGED <<fork, tagged, fence, VerifyVars, since>>

Unfences(r) ==
    /\ IsAt(r, "reclaim") /\ request[r].todo = {}
    /\ fence' = fence \ {r}
    /\ Becomes(r, [request[r] EXCEPT !.pc = "relist"])
    /\ UNCHANGED <<table, VerifyVars, since>>

Relisted(l) == l.listed \cup Standing

\* _verify: opened again on a session of its own, the branches are listed again.
Relists(r) ==
    LET l == request[r] IN
    /\ IsAt(r, "relist")
    /\ Becomes(r, [l EXCEPT !.pc = "probe", !.todo = Relisted(l) \cup {Trunk}, !.settled = TRUE,
                         !.forks = [b \in Standing |-> fork[b]], !.known = Retained, !.late = {}])
    /\ UNCHANGED <<table, fence, VerifyVars, since>>

\* _versions_still_matching, one ref at a time; one that cannot be listed leaves
\* the verification unsettled.
Probes(r) ==
    LET l == request[r] IN
    /\ IsAt(r, "probe") /\ l.todo # {}
    /\ \E ref \in l.todo :
          Becomes(r, [l EXCEPT !.todo = @ \ {ref}, !.settled = @ /\ Exists(ref),
                            !.seen = @ \cup {<<x, Probe(x, l.proved)>> : x \in {y \in Retained : y[1] = ref}}])
    /\ UNCHANGED <<table, fence, VerifyVars, since>>

-----------------------------------------------------------------------------
(* What keeps a residual version                                           *)

Listed(l)   == {s[1] : s \in l.seen}
HeadSeen(l, ref) == Max({x[2] : x \in {y \in Listed(l) : y[1] = ref}})

\* _holders: the refs that keep a version, and what else does: "window" (it is
\* inside the retention window), "unreclaimed" (its ref was not), "unread".
Holders(l, forks, tags, reclaimed, beyond) ==
    LET readable(x) == x \in Retained
        held[x \in Listed(l)] ==
          IF x[1] \notin reclaimed THEN {"unreclaimed"}
          ELSE {t \in TagNames : tags[t] = x} \cup
               (IF x \in beyond THEN {} ELSE {"window"}) \cup
               (IF ~ readable(x) THEN {"unread"}
                ELSE UNION {IF ~ readable(y) THEN {"unread"}
                            ELSE IF ~ Shares(x, y) THEN {}
                            ELSE IF y[2] = HeadSeen(l, y[1]) THEN {y[1]}
                            ELSE held[y] : y \in {z \in Listed(l) : z[1] \in CutFrom(forks, x)}})
    IN  held

\* _account: the tags and branches to release, and whether they alone hold what
\* is left.
Accounted(l, tags) ==
    LET residual  == {v \in l.seen : v[2] \notin {"clean", "dangling"}}
        heads     == {v \in residual : v[1][2] = HeadSeen(l, v[1][1])}
        rest      == {v[1] : v \in residual \ heads}
        holders   == Holders(l, l.forks, tags, l.reclaimed, l.beyond)
        answering == {v[1][1] : v \in {h \in heads : h[2] = "answers"}}
        keeping   == (BranchNames \ answering) \cap UNION {holders[x] : x \in rest}
        doomed    == WithDescendants(keeping, l.forks)
        pinning   == {t \in TagNames : tags[t] # NoRef /\ (tags[t][1] \in doomed \/ \E x \in rest : t \in holders[x])}
    IN  [l EXCEPT !.pc = "derive", !.seen = {}, !.pins = pinning \cup doomed,
                  !.settled = /\ @ /\ heads = {}
                              /\ \A x \in rest : holders[x] # {} /\ holders[x] \subseteq Pins]

Accounts(r) ==
    /\ IsAt(r, "probe") /\ request[r].todo = {}
    /\ Becomes(r, Accounted(request[r], tagged))
    /\ UNCHANGED <<table, fence, VerifyVars, since>>

-----------------------------------------------------------------------------
(* The tables derived from the erased one                                  *)

\* followed_tables: an obligation on it follows this one, directly or by a chain.
Followed ==
    {d \in Derived : \A s \in SUBSET Derived :
        (\A c \in Derived : follows[c] \in s \cup {Source} => c \in s) => d \in s}

\* Mutant of Owed: a deregistered table is taken for a dropped one.
OwedWhileHeld(tables) == {d \in tables \ Followed : claim[d] = "held"}

\* _judged: what is owed on a derived table that is not followed, while its
\* claim is held or its bytes are left.
Owed(tables) == {d \in tables \ Followed : claim[d] \in {"held", "kept"}}

Walks(r) ==
    /\ IsAt(r, "derive")
    /\ Becomes(r, [request[r] EXCEPT !.pc = "follow", !.derived = Walked(edges)])
    /\ UNCHANGED <<table, fence, VerifyVars, since>>

JudgesDerived(r) ==
    LET l == request[r] IN
    /\ IsAt(r, "follow")
    /\ Becomes(r, [l EXCEPT !.pc = "schedule", !.open = @ \/ Owed(l.derived) # {}, !.derived = {},
                         !.settled = @ /\ ~ l.open /\ Owed(l.derived) = {}])
    /\ UNCHANGED <<table, fence, VerifyVars, since>>

-----------------------------------------------------------------------------
(* The end of a verification                                               *)

\* _take_the_earlier_release: it names every pin found.
Covered(pins) == pins \subseteq release

\* _schedule_release, under the obligation's id: the first one is kept.
Schedules(r) ==
    LET l == request[r] IN
    /\ IsAt(r, "schedule")
    /\ IF l.settled /\ l.pins # {} /\ release = {} THEN release' = l.pins ELSE UNCHANGED release
    /\ Becomes(r, [l EXCEPT !.pc = "settle", !.settled = @ /\ (release = {} \/ Covered(l.pins))])
    /\ UNCHANGED <<table, fence, obligation, kin, asked, watch, failures, since>>

\* settle: a released obligation stays released, a settled report releases it.
Settles(r) ==
    LET l == request[r] IN
    /\ IsAt(r, "settle")
    /\ IF obligation.state = "open" /\ l.settled
       THEN /\ obligation' = [obligation EXCEPT !.state = "released", !.before = edges \cup declaring]
            /\ since' = [known |-> l.known, late |-> l.late, then |-> l.then]
       ELSE UNCHANGED <<obligation, since>>
    /\ Becomes(r, NotVerifying)
    /\ UNCHANGED <<table, fence, release, kin, asked, watch, failures>>

\* A call of the verification fails: its surface is open, and it goes on. The
\* branches not listed are not judged; tags not listed are taken for none.
VerifyFails(r) ==
    LET l == request[r] IN
    /\ Failure
    /\ \/ IsAt(r, "list")    /\ Becomes(r, [l EXCEPT !.pc = "judge", !.todo = {Trunk}, !.open = TRUE,
                                                     !.named = FALSE])
       \/ IsAt(r, "fence")   /\ Becomes(r, [l EXCEPT !.pc = "relist", !.open = TRUE])
       \/ IsAt(r, "judge")   /\ \E ref \in l.todo : Becomes(r, [l EXCEPT !.todo = @ \ {ref}, !.open = TRUE])
       \/ IsAt(r, "judge")   /\ l.todo = {} /\ Becomes(r, [l EXCEPT !.pc = "fence"])
       \/ IsAt(r, "reclaim") /\ \E ref \in l.todo : Becomes(r, [l EXCEPT !.todo = @ \ {ref}, !.open = TRUE])
       \/ IsAt(r, "relist")  /\ Becomes(r, [l EXCEPT !.pc = "derive", !.open = TRUE])
       \/ IsAt(r, "probe")   /\ \E ref \in l.todo : Becomes(r, [l EXCEPT !.todo = @ \ {ref}, !.settled = FALSE])
       \/ IsAt(r, "probe")   /\ l.todo = {}
                             /\ Becomes(r, [Accounted(l, [t \in TagNames |-> NoRef]) EXCEPT !.late = @ \cup TagNames])
       \/ IsAt(r, "derive")  /\ Becomes(r, [l EXCEPT !.pc = "schedule", !.open = TRUE, !.settled = FALSE])
       \/ IsAt(r, "schedule") /\ Becomes(r, [l EXCEPT !.pc = "settle", !.settled = FALSE])
    /\ UNCHANGED <<table, fence, obligation, release, kin, asked, watch, since>>

\* The replica dies; its hold lapses.
VerifierDies(r) ==
    /\ Failure
    /\ ~ IsAt(r, "idle")
    /\ Becomes(r, NotVerifying)
    /\ fence' = fence \ {r}
    /\ UNCHANGED <<table, obligation, release, kin, asked, watch, since>>

-----------------------------------------------------------------------------
(* Derived tables and the watch of a released obligation                   *)

\* A commit declares its input (table_inputs.record, or an outside producer's
\* event), which is recorded later.
Declares ==
    /\ \E e \in Edges : Asked(<<"declare", e>>) /\ declaring' = declaring \cup {e}
    /\ UNCHANGED <<table, fence, obligation, release, edges, follows, claim, request, watch, failures, since>>

Records ==
    /\ \E e \in declaring : edges' = edges \cup {e} /\ declaring' = declaring \ {e}
    /\ UNCHANGED <<table, fence, obligation, release, follows, claim, asked, request, watch, failures, since>>

\* erase_subject on a derived table, following a recorded obligation.
Follows ==
    /\ \E d \in Derived, o \in {Source} \cup Derived :
          /\ Asked(<<"follow", <<o, d>>>>) /\ follows[d] = Nothing /\ claim[d] = "held"
          /\ IF o = Source THEN obligation.state # "none" ELSE follows[o] # Nothing
          /\ follows' = [follows EXCEPT ![d] = o]
    /\ UNCHANGED <<table, fence, obligation, release, edges, declaring, claim, request, watch, failures, since>>

\* The derived table is deregistered, its bytes left, and dropped with them; or
\* another table takes the location of one deregistered.
Leaves ==
    /\ \E d \in Derived :
          \/ Asked(<<"deregister", d>>) /\ claim[d] = "held" /\ claim' = [claim EXCEPT ![d] = "kept"]
          \/ Asked(<<"purge", d>>) /\ claim[d] \in {"held", "kept"} /\ claim' = [claim EXCEPT ![d] = "gone"]
          \/ Asked(<<"take", d>>) /\ claim[d] = "kept" /\ claim' = [claim EXCEPT ![d] = "taken"]
    /\ UNCHANGED <<table, fence, obligation, release, edges, declaring, follows, request, watch, failures, since>>

\* watch_released: _late, the tables owed whose first declaration is from before
\* the release ...
LateOf ==
    {d \in Owed(Walked(edges)) \ obligation.late :
        \E e \in edges \cap obligation.before : e[2] = d /\ e[1] \in Walked(edges) \cup {Source}}

Watches ==
    /\ watch.pc = "idle" /\ obligation.state = "released" /\ LateOf # {}
    /\ watch' = [pc |-> "list", late |-> LateOf]
    /\ UNCHANGED <<table, fence, obligation, release, kin, asked, request, failures, since>>

\* ... are listed on the obligation.
ListsLate ==
    /\ watch.pc = "list"
    /\ obligation' = [obligation EXCEPT !.late = @ \cup watch.late]
    /\ watch' = NoWatch
    /\ UNCHANGED <<table, fence, release, kin, asked, request, failures, since>>

WatchFails ==
    /\ Failure
    /\ watch.pc = "list"
    /\ watch' = NoWatch
    /\ UNCHANGED <<table, fence, obligation, release, kin, asked, request, since>>

-----------------------------------------------------------------------------

Verifies(r) ==
    \/ Reads(r) \/ ListsBranches(r) \/ Judges(r) \/ ListsTags(r) \/ DropsTag(r) \/ FencesHistory(r)
    \/ ReclaimsRefs(r) \/ Unfences(r) \/ Relists(r) \/ Probes(r) \/ Accounts(r) \/ Walks(r) \/ JudgesDerived(r)
    \/ Schedules(r) \/ Settles(r)

ErasureNext ==
    \/ Rewrites \/ Cuts \/ Pinning \/ DropsBranch \/ Ages \/ Sweeps \/ PinsGo \/ Erases
    \/ \E r \in Verifiers : Verifies(r) \/ VerifyFails(r) \/ VerifierDies(r)
    \/ Declares \/ Records \/ Follows \/ Leaves \/ Watches \/ ListsLate \/ WatchFails

ErasureSpec == ErasureInit /\ [][ErasureNext]_erasureVars

-----------------------------------------------------------------------------
(* Properties                                                              *)

\* What holds a retained version now, were every ref's history reclaimed.
HoldersNow ==
    Holders([NotVerifying EXCEPT !.seen = {<<x, "clean">> : x \in Retained}], fork, tagged, Refs,
            {x \in Retained : log[x[1]][x[2]].old})

\* A released obligation is erased: of the versions there were when the
\* verification listed the branches again, one that still holds the subject is
\* no ref's head and is out of the retention window, and only refs the scheduled
\* release names keep it, refs made since, or tags whose list could not be read;
\* whatever the job, the users, the sweep and a second verification did between
\* two reads (verify, _verify, settle).
ReleasedIsErased ==
    obligation.state = "released" =>
        \A x \in since.known \cap Retained :
           SubjectIn(log[x[1]][x[2]].objs) \cap stored # {} =>
              /\ x[2] # HeadOf(x[1])
              /\ HoldersNow[x] \subseteq release \cup since.late

\* A released obligation accounts for the tables derived from the erased one,
\* whatever was declared, recorded, registered, dropped or followed meanwhile: of
\* those recorded when its verification began, each is followed by an obligation
\* of its own, or its claim was gone or taken (judge); and once the watch finds
\* nothing more to list, so is each one declared before the release, through
\* whatever tables, or else it is listed (watch_released).
DerivedAreAccountedFor ==
    LET settled == Followed \cup {d \in Derived : claim[d] \in {"gone", "taken"}} IN
    obligation.state = "released" =>
        /\ since.then \subseteq settled
        /\ LateOf = {} => Walked(edges \cap obligation.before) \subseteq settled \cup obligation.late

=============================================================================

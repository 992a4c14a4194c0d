# TLA+ models of rask

rask is a governed lakehouse over Lance tables on an object store: a *catalog*
service that owns every table's name, versions, refs, policies and
authorization; a *maintenance* service that expires, purges and reconciles; a
*lineage* service that keeps a signed feed of what was committed; and the
packages they share (`lakehouse-kit`, `service-kit`, `lineage-kit`). There is no
database transaction and no lock service anywhere. What several replicas must
agree on is a small JSON record on the object store, read with its ETag and the
store's own clock and written create-if-absent or replace-under-ETag, and a
version of a table is whichever manifest a put-if-not-exists landed first.

So the hard part of rask is a set of protocols over such records: leases that
lapse while their holder still works, conditional writes whose answer is lost
and whose retry is refused by the very record it wrote, values judged on a read
that is stale when they are used, and multi-step operations that stop between
two steps. That is what is modelled here. Arrow I/O, HTTP, parsing, signing,
logging and metrics are not.

Paths below are relative to `src/`.

## Inventory

| Component | State it keeps | Operations | What is hard | What makes it correct |
|---|---|---|---|---|
| **History fence** `packages/lakehouse-kit/.../history_fences.py` | one record per table: live holders with their work and expiry | `take`, `release`, `held` around reclaims, tag writes, branch creates | stale reads, lost answers, lapsed holds, crashed holders | no two excluding live holds; no ref names a reclaimed version; no nested branches |
| **Version commits** `services/catalog/.../services/dataplane.py` (`commit_stamped`), `managed_versions.py`, `endpoints/versions.py` | versions of a ref, files of an attempt, committed-files and author records | plan, judge, record, finalize, read the landing back, discard, retry | conflicts that are one's own landing, failures of unknown outcome, overlapping retries | a change lands at most once, answers are true, landed files and authors are kept |
| **Commit turns, shared reads** `commit_turns.py`, `DoorTable` in `table_claims.py` | one record per table: at most one live turn per ref; per process a shared view and wait seats | `wait`, `wait_in_loop`, `keeps`, `take`, `hand`, `release`; `get`, `peek`, `forget` | losers racing for one turn, views outdated by another replica or by a load in flight, waits that never end | one live turn per ref, turns hold others back, every wait ends, no view from before the process's own write |
| **Location claims and table doors** `location_claims.py`, `table_claims.py`, `endpoints/tables.py`, `trash.py`, the purge | per location a claim (table, uuid, token, released, fence), the name registry, trash records | declare, register, drop, undrop, rename, deregister, destroy, purge | two doors on one location, a failure between two registries | one name per location, bytes never deleted under a live name |
| **Publication and promotions** `services/publication.py`, `promotions.py`, `endpoints/publication.py` | the tags `published`, `publishing`, `rask.held`; one hold record per table | publish, hold, approve, reject, expire, supersede | the table moves on under a gate or a decision; a tag has no conditional update | readers read what was judged or approved; one decision acts on a hold |
| **Data directories** `table_bases.py`, `data_directories.py`, `base_reclaim.py` | base records, the directory's claim, its files | create, register, rename, end, reclaim | ownership read before a delete, steps over several stores | a file a table reads is deleted only with it; files never outlive what leads to them |
| **Erasure** `services/erasure*.py` | obligations per subject and table, versions, refs, derived tables | open, verify, reclaim, settle, watch | users cut and tag beside a verification, verifications overlap | nothing is reported erased that is still readable |
| **Erasure release** `services/erasure_release.py` | a leased record: pending, deleting, recreating, with its plan | claim, plan, delete refs, recreate refs, finish | stops between delete and recreate, an overtaken lease | every ref deleted is recreated where it was |
| **Commit reconcile, lineage emission** `commit_reconcile.py`, `core/lineage_emit.py`, `commit_authors.py` | per-ref marks, author records | announce, re-announce, settle | a door dies between finalize and announcement; the feed expires | every commit is heard once, under its recorded author |
| **Outbox and delivery** `outbox.py`, lineage's consumer, parking and relay | staged events, dead letters, parked refusals | stage, publish, drop, deliver, park, drain, replay | crash between publish and drop, at-least-once delivery | no event vanishes, each comes to rest |
| **Lineage intake** `services/lineage/.../provenance.py` | pending queue, runs, edges, feed, forwarder's cursor | record, land a batch, halve it, forward | group commit by one thread, batches that fail or panic | a row has its edges, every caller its own answer |
| **Idempotency keys** `idempotency.py` | a record per key | claim, replay, take over, release | two requests at once, a lapse under a running one | one outcome per key |
| **Warehouses, projects, namespaces** `endpoints/warehouses.py`, `projects.py`, `namespaces.py` | registry records, bindings, buckets, namespaces, trash, tuples | create, activate, protect, bind, unbind, drop, undrop, delete | a dozen steps over four stores, stopped anywhere and asked again | tenants never share a bucket; what is gone leaves nothing, what stands keeps its grants |
| **Authorization** `endpoints/access*.py`, `roles.py`, `project_admins.py`, `role_membership.py`, `fga_deps.py` | OpenFGA tuples, role records, `admin_revision` | grant, revoke, assign, end, offboard | several admins revoked at once; sequences of legal grants | a project keeps an admin; nobody raises themselves |
| **Cross-store reconcile** `services/maintenance/.../reconcile.py`, `repair.py`, `rebuild.py`, `tombstones.py` | what a tick has read of each store | report, rebuild, repair, sweep, gate the purge | an absence from a partial read is no absence; the doors go on meanwhile | nothing that stands loses its tuples; clean means clean |

They meet on the store: a door that commits takes its turn (*commit turns*),
records its author and its files, finalizes (*version commits*) and announces
(*outbox*, *lineage*); the *reconciler* announces what a dead door did not. A
reclaim, a tag writer and a branch create meet in the *history fence*. A drop, a
rename and a purge meet in the *location claim*. The doors of *warehouses* and
the *cross-store reconcile* meet on the tuples and the registry. `PROJECT.json`
lists every component with its sources and status, and every hazard at the line
where it bites.

## Modules

| Module | Models | Run in |
|---|---|---|
| `HistoryFence` | `history_fences.py`, with the work done under it (`expiry.py`, `dataplane.py` tags and branches) | `MCTables` |
| `HistoryFenceProofs`, `VersionCommitsProofs`, `CommitTurnsProofs`, `CommitFeedProofs`, `PublicationProofs` | theorems about the modules they are named for | (TLAPS) |
| `ErasureProofs` | theorems about `Erasure` and `ErasureRelease` | (TLAPS) |
| `DeliveryProofs` | theorems about `EventDelivery` and `FeedRecords` | (TLAPS) |
| `SharedStateProofs` | theorems about `Warehouses`, `DriftReport`, `KeyedDoors` and `SharedReads` | (TLAPS) |
| `VersionCommits` | `commit_stamped` and `version/create` on one ref | `MCVersionCommits` |
| `CommitTurns` | `TableTurns`, with the doors and stock writers that use it | `MCDoors`, `MCCommitTurns` |
| `SharedReads` | `_SharedReads`, thread by thread | `MCSharedState` |
| `TableDoors` | `location_claims.py` and the doors of `endpoints/tables.py`, `dataplane.py` (rename, destroy), the purge | `MCDoors` (mixes in `MCTableDoors`) |
| `Publication` | the publish door, the holds, the decisions and the expiry tick | `MCDoors` (mixes in `MCPublication`) |
| `DataDirectories` | base records, directory claims and the reclaim inside a directory | `MCTables` (mixes in `MCDirectories`) |
| `AccessDoors` | grants, members, roles, offboarding over the tuples | `MCTables` (mixes in `MCAccessDoors`) |
| `Erasure` | obligations, verifications, derived tables | `MCErasure` |
| `ErasureRelease` | `erasure_release.py`, tick by tick, beside the table's users | `MCErasure` |
| `Announcements` | abstract: what a reader of the feed is promised about a ref | implemented by `CommitFeed` |
| `CommitFeed` | doors' announcements and the reconcile ticks on one ref | `MCCommitFeed` |
| `EventDelivery` | one event from its producer to the feed: outbox, bus, parking, relay, operator | `MCDelivery` |
| `FeedRecords` | the group commit of `provenance.py` and the forwarder | `MCDelivery` |
| `KeyedDoors` | requests under one Idempotency-Key | `MCSharedState` |
| `Warehouses` | the doors of warehouses, projects and top-level namespaces over registry, store, trash and tuples | `MCSharedState` (mixes in `MCWarehouses`) |
| `DriftReport` | the reconcile tick of maintenance; extends `Warehouses`, whose doors go on beside it | `MCSharedState` |

A run of an `MC` module with several parts picks one part in its initial state
and takes the steps of that part only: the parts share no state, and the run
checks each of them. Where a part's state depends on another's (`DriftReport` and
`Warehouses`, `Erasure` and the release it schedules) it is one module's.

Most modules are driven by *offers*: an offer is a world to begin in, what its
users ask for together (each ask once), and the faults that may happen. Every
request may take its steps in any order with every other; the offers bound which
requests meet, never how they interleave.

An ETag is a hash of the body, so "the ETag still matches" is "the record still
equals what was read". A conditional loop that reads again whenever it loses
(`mutate_json`) is one step; one that judges on its first read is two.

### HistoryFence

State: the store's `clock`; the `fence` record (absent, or stored with its
holders); per call of `held` its `work` and its locals (`seen` and `at`, the
record and the clock it last read; `expires`, its hold); the table's
`versions`, `head`, `tags` and `branches`; and `outlived`, a history variable
for the calls that worked past their hold (the code logs
`history_fence_outlived` and goes on).

Each round of `take` is a read-and-judge step (`TakeReads`) and a conditional
write that lands (`TakeWrites`), loses (`TakeLoses`) or lands with its answer
lost (`TakeAnswerLost`: the S3 client retries its own put, the retry is refused
by the record it wrote, and the caller takes another round under a new token).
The block is what the callers do: a reclaim lists refs once and deletes
afterwards one version at a time; a tag writer opens a version and then writes
the tag; a branch create judges a listing and then commits. `release` runs the
same rounds and never raises. Commits on main and deletions of refs go on
unfenced, as in the code. A crash is a call that takes no further step.

### VersionCommits

One ref. A manifest is named by its author and attempt, which is what its
digest tells apart. `DoorOpens` … `DoorForgetsFiles` follow `commit_stamped`
statement by statement: open, plan (or find the plan stale), detached commit,
judges, committed-files record, author record, finalize, and on a conflict the
read-back that tells its own landing from a loss. A finalize that landed may be
answered as a landing, as a conflict or as a failure of unknown outcome; every
delete may be refused by the store. `RequestStages` … `RequestForgetsAuthor` are
one `version/create` request; the client that stages and restages (pylance) is
external. `offer` says which doors and requests take part and how many versions
an owner deletes; two requests of one transaction are an HTTP retry that
overlaps the request it repeats.

`exposed` remembers the limits of the protocol (below): manifests deleted before
their writer read the landing, those a deletion freed the slot of for a late copy
of a request whose transaction was staged anew, and those whose author record was
deleted under a request still to land them. The properties are claimed of the rest.

### CommitTurns and SharedReads

Time is relative in `CommitTurns`: what is left of a turn, of a waiter's deadline
and of a hold judged on an earlier read all count down with `TimePasses`, so commits
may go on for ever in a finite model. A tick outlives a process's shared view, so
`PollAnswers` is the store's record or the view of the same tick. A door waits,
finalizes, on a loss takes the ref's turn (waiting for it up to its deadline) and
plans its remaining attempts under it; a stock writer waits without a seat
(`wait_in_loop`), is asked whether it `keeps` a turn, and on a loss is *handed*
the next one, which waits for none. `CommitFails` is any store failure,
`TableChangedError` or cancellation; `Restarts` is a replica dying. `recent` and
`abandoned` are history variables. A stock `Merge` (no turn, it names no writer)
is `AnotherLands`.

`SharedReads` has the threads of one process: waiters in `get` (peek, lock, peek
again, count the clearings, load, keep) and writers that change the record and
`forget` its view. Locks are named by table and by the start of the locks they
were made in; `LIMIT` is one table, so the locks start over under their waiters.
`astray` remembers the one case the counting cannot see (below).

### TableDoors

State: `row` (where `__manifest` says each name is: at this location, at another,
nowhere), the location's `claim`, the `trash` records by uuid, the `bytes`, and
how far each `request` is. A request resolves its name in two reads (`Starts`
describes, `ReadsClaim` reads the claim), fences or hands over the claim it read
(`FencesClaim`, `HandsClaimOver`), and then takes its backend calls one by one.
`JudgesClaim` and `WritesClaim` are one round of `take`; `Released` and `Lifted`
are loops that read again when they lose, so one step each.

A door acts within the lease of the claim it wrote (the comment on `LEASE`
chooses it for that); the deletion of bytes and the purge may outlast it. The
fence lapses, so `Tick` passes only while no door would act on a lapsed one.
At most `MaxServed` of an offer's asks are begun.

### Publication

One table: main's `contents` by version (which assertions fail, how many rows),
the versions `stored`, the three `tags`, the `hold` record, the clock, and one
call per ask. `PublishReads` … `PublishUnpins` follow `publish` (bounds, pin,
gate on the pinned version, move, the `finally` that unpins), `OpensHold`,
`ClosesReached`, `Rereads` and `SyncsPin` the hold it leaves; `DecisionReads` …
`RecordsRestore` are the two decision doors, `ExpiryLists` and `ExpiresHold` the tick.
`Commits` is another writer, `Collects` the version cleanup, which spares the
newest version and the tagged ones. The hold's writes are `mutate_json`, one step
each, and may lose their answer. `cleared`, `acts` and `reached` are histories.

### DataDirectories

One directory, two names, two locations. Three things say whose the directory is:
a dataset that declares it, the base record under the table's location, and the
directory's claim. The doors (create, register, deregister, rename, drop, undrop,
destroy, detach, purge, clear, forget) move them one store write at a time,
beside the maintenance pass, which plans, probes, scans and deletes. The table's
own location and claim are `TableDoors`'; here a row is written in one step. A pass
reads the claim once and deletes later; `Overtaken` names the pass under which the
claim went to another table (Known limits).

### AccessDoors

The tuples, each project's `admin_revision`, the role records, and up to three
requests at once: grant, revoke, managed access, members, roles made, ended and
filled, offboarding, and the raw tuple door. What tuples *mean* (`InsideIn`,
`DirectIn`, `OwnerIn` and the rest) follows the authorization model. Each
read, check and Write of a door is a step; a Write is atomic and fails whole.

### Erasure and ErasureRelease

`Erasure` keeps each ref's versions as the objects their manifests name, the
tags, the objects stored, the obligation, the scheduled release and the derived
tables. A verification judges heads on bytes, drops tags, reclaims refs, lists
branches again, probes every version, accounts for what is left, schedules the
release and settles; two run at once beside the job, users and the sweep.

`ErasureRelease` is that release: `Begins` … `HandsBack` follow one tick (open,
hold the history, plan, claim, delete tags and branches leaf first, mark,
recreate top-down, let go, delete the record; on a failure hand the lease back).
A tick reads `now` once and judges and writes leases by it, so time is relative.
A tick ends within its hold ("Longer than a release takes", `ReleaseAssumption`)
but not within its lease, so two may run at once. `Cuttable` names what users
cut: reusing the name of a planned branch on top of a newcomer makes Lance refuse
the delete for as long as it stands, which is the users' to undo. Nothing pins the
versions a recorded plan names: `Stranded` is the state in which one it cuts from
main was reclaimed before its branch was back, which `ReleaseFinishes` excepts and the
run `stranded_release` shows.

### Announcements and CommitFeed

`Announcements` is what a reader of the feed may rely on: a version is heard of
at most once and never before it is committed, and only a prefix of versions
heard of or excused is put behind. `CommitFeed` is how that comes about: a door
announces after its commit and may die in between; each replica's tick reads the
version log after the ref's mark, asks the feed, announces what it lacks for the
author recorded, moves the mark and forgets the author. `ImplementsAnnouncements`
is the refinement (`settled <- mark`, `excused <-` the versions of no door and
those past the horizon).

### EventDelivery and FeedRecords

`EventDelivery` follows one event through stage, publish and drop, a bus that
delivers at least once, the dead-letter topic, the parking route, the relay of
each replica and an operator's replay; an event is sound, ungranted (until its
grant is written), beyond repair or no event at all, and of a run or of none: the
parking route presents again, and the estate admin's door addresses, only what names
a run. A park that fails is acknowledged all the same; `unkept` is what then only the
dead-letter stream's retention holds, for a restart to read again. `FeedRecords` is what
`ProvenanceStore.record` makes of deliveries: a pending queue, one writer thread
per replica, batches that found runs, write edges and rows and are halved when
refused, and the forwarder behind one cursor.

### KeyedDoors, Warehouses, DriftReport

`KeyedDoors`: the record of one key, requests that claim it (under a time read
before the store is asked), run, record their answer or give the claim back, and
the takeover of a lapsed claim.

`Warehouses`: the registry's records and bindings, bucket claims, namespaces and
tables per bucket, trash, bytes and tuples, and the doors over them, one call to
a store per step; every door may stop anywhere and be asked again. A create repeated
for a warehouse that stands arms its protection, clears it or leaves it as it is
(`Declared`).

`DriftReport` extends it with the tick: each store is read in a step of its own
(the tuple scan as the typed objects it buckets, `counts_by_type`), whole, in part or
not at all, while the doors go on; then the report's categories are computed as
`build_report` does, project edges are written back, the tuples of what is gone
revoked, tombstones cleared, the drops past their deadline released (`DueReads` …
`DueEnds`: the trash and the roots are read, and what does not stand again loses its
tuples while its record stays, marked `released`), and the purge let through or not.
A drop whose deadline has passed (`term`) is not what `TicksSpareWhatStands` spares.

## Runs

| Run | Instance | Shows |
|---|---|---|
| `tables` | *history*: two calls of any work, one tag, branches `a` and `a/b`, HOLD 1, 2 rounds, clock ≤ 2, versions ≤ 3; *directory*: fourteen mixes on two names, two locations and two files; *access*: six mixes, up to three requests at once or four in a row | exclusion, refs, nesting and who may end a hold; files that stay with their table; projects that keep an admin; nobody raises themselves |
| `version_commits` | two doors and a transaction, or one door and a transaction sent twice; two attempts, versions ≤ 4, one delete | each change lands at most once, is answered truthfully and keeps its files and author |
| `turn_waits` | two doors on one replica with one seat, or a door and a stock writer, under fairness | every wait ends though turns are taken for ever |
| `erasure` | *verify*: six mixes of asks on a table with a branch, two tags and two derived tables; *release*: two ticks, a named branch with one cut from it, a name users cut, a tag, one failure, one change | what is released is erased, derived tables are accounted for; the plan covers what was deleted, the release finishes unless what it needs was reclaimed |
| `table_doors` | *doors*: up to four requests from ten offers on names `a` to `d`, one fault, LEASE 1, clock ≤ 2; *publication*: eight mixes on a table of up to four versions; *turns*: a door and a stock writer on two replicas, HOLD 2, 2 rounds, 2 attempts | one name per location, recoverable drops, bytes and uuids that last as their table, doors that end only their own; readers read what was judged or approved, one decision per hold; one live turn per ref, none left by an ended commit, turns hold others back |
| `commit_feed` | two versions, two replicas, one fault, an expiring feed | every commit is heard, only what cannot be signed is counted instead; implements `Announcements` |
| `delivery` | *delivery*: two events of a run or of none, two emissions, a relay, an operator, two faults; *records*: up to three deliveries, two replicas, two runs, two authors (in one mix of one run on both replicas), one fault | no event vanishes, each settles (but for one whose park failed); a row has its edges, every caller its own answer, every delivery is answered |
| `shared_state` | *estate*: twelve mixes on two tenants, two warehouses, three buckets; *drift*: thirteen mixes on nine worlds under a tick; *key*: three requests of one or two operations, LEASE 1, clock ≤ 2; *view*: two waiters, two writers, two tables, one lock | tenants apart, the estate whole, grants kept, lifecycle kept; a tick spares what stands, clean means clean; nobody runs beside the request that made the key's record, replays are true; no view from before an own write |
| `sole_admin_role` (violation) | two removals of the last assignees of the only admin | both commit |
| `readmitted_directory` (violation) | a deregistered table, a copy of it, the table again | two tables read one directory |
| `drift_repair` (violation) | a tick that cannot read the warehouse registry | the tuples of standing tables are revoked |
| `stranded_release` (violation) | the release part of `erasure` alone | a plan recorded at a version that is reclaimed between two ticks is never finished |

**Bounds.** Each property relates two parties (two holds, two takers, a reclaim
and a ref, a gate and a writer), and the record they race for is the only thing
they share, so two actors are enough for every race but two: of the doors four let
a drop, its undrop, a rename and a registration meet, and of the requests under a
key three let two judge the claim a first one abandoned. HOLD and the clock
bounds let a hold lapse while it is used and a second one be taken after it. Two
rounds and two attempts reach "lost once and tried again" and "out of rounds".
`MaxClock`, `MaxVersion`, `MaxTime`, `MaxWrites`, `MaxStarts`, `MaxServed`,
`MaxObjects`, `MaxTries` and the bounds on faults are the model's; the other
constants are the code's own limits made small. Deadlock is checked where the
system never stops (the waits for turns, the feed, the delivery) and off where requests end
or a bounded clock or version runs out.
`table_doors` tells states apart by what moves in their part (`VIEW WhatMoves`): the
variables of its other parts keep the one value they begin with.

**Fairness.** In `turn_waits` time passes (`WF(TimePasses)`) and a thread inside a
commit is scheduled (`WF(Step(c))`: every poll sleeps a bounded time and runs
again). In `ErasureRelease` time passes and each replica's tick goes on and is
fired again (the cron binding fires for ever). In `CommitFeed` time passes, a
door that lives announces, what was sent is delivered, and some replica's tick
goes on. In `EventDelivery` an emitter, an intake and a relay or operator in the
middle of its work go on. In `FeedRecords` a delivered call is recorded, the bus
redelivers what was not acknowledged, the writer thread runs, and a call whose
writer is gone stops waiting. Failures, restarts, new commits and other writers'
landings are never assumed to happen or to stop, only bounded: a store that
always fails finishes nothing.

## What the runs found

Four places where the code does what its comments exclude, each a run that
expects the violation (`findings` in `PROJECT.json`): `unassign` reads a role's
assignees before the revision it commits under (`role_membership.py:46`, against
`:4-6`); a table registered again asks for no claim on the directory its record
names (`table_bases.py:277`, against `:437-438`); and the armed repair revokes
tuples of tables whose roots an unread warehouse registry left unlisted
(`repair.py:97`, against `repair.py:28` and `reconcile.py:1078`); and an erasure release
that stopped between its deletes and its recreates never finishes once the version its
plan names was reclaimed (`erasure_release.py:314`, against `:16-17`).

## Known limits

What TLC or the reading of the code met on the way, beside what the runs claim.
The mixes that lead to them are left out of the offers, or a history variable
excludes them, so what a run shows is what holds beside them.

**Commits.** A retry that overlaps its request relies on a record the other may
delete (`versions.py:292`: "Only the request that created the record deletes it: a
retry sharing the transaction relies on its twin's"). A version deleted between a
landing answered as a conflict and the read that judges it makes a landed attempt
look lost (`dataplane.py:1415`); a put into a deleted slot lands below the head, so a
late copy of a request lands a transaction a second time when its client restaged
it meanwhile and an owner deleted the version the copy names.
A waiter holding a lock of before a start-over of the locks loads unprotected
(`commit_turns.py:196`). `hand_turn`'s comment (`table_claims.py:275-278`) names a
cooldown the code has not.

**Release.** The head a tick planned for may be reclaimed between its open and its
hold (`erasure_release.py:220`), and a version the recorded plan names between two
ticks, when a commit has moved main on (the finding above): `ReleaseFinishes` excepts
`Stranded`, which is both. `delete_versions` (`services/maintenance.py:320-322`)
says nothing orders ref creation with a reclaim, which the fence does.

**Erasure.** `_tags` answers `{}` when the tags cannot be read (`erasure.py:1438`).
Payloads outside the table (`_record_held`, not modelled) are reported held by a
first verification, which reclaims the versions naming them; a second finds none
named. A derived table whose location another took counts as gone. A commit on a
branch the release names makes its former head a version kept by the retention
window: it goes with the branch, but `ReleasedIsErased` counts the window as a keeper
the release does not name, so no offer has such a branch whose older version is tagged.

**Table doors.** Each of these mixes breaks the property named in brackets when
given to TLC as an offer.

- The describe and the claim read of `resolve` are two reads. When the table is
  dropped, destroyed, deregistered or renamed away and ended between them, and its
  name is created anew elsewhere, the fence or the hand-over takes the claim it
  left and the deregister ends the new table's row (`DoorsEndTheirOwnTable`). The
  ETag does not tell, being a hash of the content: a fence set and lifted leaves
  the claim as it was.
- A second rename that resolved before the first one died, or that waited out
  the lease while both names were taken, takes the claim of a gone holder and
  ends a new table's row (`DoorsEndTheirOwnTable`).
- A destroy beside a recoverable drop of the same table: the destroy overwrites
  the drop's record with a residue, or the drop files a record for bytes that a
  destroy slower than its lease has deleted (`TrashedStaysRecoverable`).
- A registration of a rename's destination at the location, during the rename,
  replaces the uuid the rename handed over (`NamedTablesLast`).
- A rename whose registration lands with a lost answer puts its source back: two
  names on the location (`OneNamePerLocation`).
- A rename that loses the answer of its hand-over, or dies after it, leaves the
  claim with a name that does not stand. Past the lease a registration at the
  location replaces the live table's uuid before `require_exclusive_location`
  refuses it (`NamedTablesLast`).
- A drop that fails after filing its record leaves it on a live table. An undrop
  of it beside a rename registers a second name (`OneNamePerLocation`), and so
  does a drop and undrop of the source of a rename that is being renamed back; a
  deregister releases the claim the record needs (`TrashedStaysRecoverable`).
- The purge and a rename share no claim: after a destroy that died with its
  residue filed, a purge that judges in the instant a renamed table has no row
  deletes what the rename registers (`NamedTablesLast`). The same happens to a
  registration when a destroy's deregister loses its answer and its describe
  fails too, since the residue record is then cleared.
- An undrop beside the purge: it found its record before the deadline, the purge
  judges again and sees no row, the undrop takes the claim and registers, and the purge
  deletes the bytes (`purge.py:806-811` shrinks "what an undrop must win" to one call).
  `Regained` names it in `NamedTablesLast`, and an offer has the two. With a third
  request, a registration after the purge has released the claim, the uuid goes too.
- A registration that is refused releases the claim of the trashed table it was
  refused for (`endpoints/tables.py:816`, `:1199`, `:1206`).

No property speaks of an undrop whose name is created elsewhere after its check:
it takes the refusal of its registration for its own recovery and clears the
record (`endpoints/tables.py`, `TableAlreadyExistsError`), so the table is left
under no name and no record, its claim held.

**Publication.** The `finally` drops `publishing` before the hold's pin is set, so
the cleanup may collect the held version in between; `sync_pin` writes the tag
from an earlier read, so a slow one leaves `rask.held` on another version or on
none; a crash between the record and the tag leaves no pin (`promotions.py:5-6`:
"pinned by the tag … so version cleanup cannot collect it while it waits"). Two
rejections at once, or one that dies between its restore and `record_restore`,
restore main twice, the second discarding a commit made between
(`promotions.py:85-87`). `published` is read before the gate and moved after it
without another read, so overlapping publishes can move it backwards; the band is
judged against what was read first. `publishing` is one tag for concurrent
publishes. A lost answer of a decision makes its caller believe another decided:
no event, the pin left. A declaration that cannot be read turns review off.

**Directories.** A failed first write leaves the files it wrote. A destroy beside a
create still writing, or beside a rename's hand-over, leaves files with no record.
The pass that reclaims reads the
claim once (`sweep.py:390`) and `base_reclaim.reclaim` deletes without reading it again:
when the table it runs for is dropped and forgotten, or detached, and a copy takes the
directory meanwhile, it deletes an expired file the copy reads (`Overtaken`). A
warehouse's delete that has released a trashed table's claim and stops before its record
leaves the record to a table whose directory a copy may take, whose pass then deletes
what the trashed table reads; no offer has it. A pass over the directory two tables read
(the finding above) deletes by the claim of one what the other reads, so the mix that
readmits a table has no pass. A copy registered while a renamed table's claim is under its old name, or while a
failed create is being taken back, may lose its files. Two requests deleting one
table's bytes at once: the ownership judged outlives the first one's release. Vended
credentials outlive the row they were vended for. No door writes a `DERIVED_FROM`
entry, so pinned clones are not reachable.

**Access.** An empty role counts as a direct admin, so an unassign and a revoke, or
a grant to a role beside an unarbitrated removal, may leave a project with no
person; the raw tuple door deletes an admin tuple unarbitrated; a role whose record
landed with its answer lost is listed and cannot be governed; a grant and an
assignment slower than a role's deletion survive it. `NobodyRaisesThemselves` is
claimed of requests one after another.

**Warehouses.** A namespace unbound, adopted by a sibling on the same bucket, loses
its grants when the first warehouse is deleted; a purge of the bucket that fails
after the record is gone cannot be asked again (`warehouses.py:1314` says "re-issue
this call to finish it"); a delete after a half-done recoverable drop revokes grants
of a table still registered. Unfenced: undrop, bind or create beside a delete;
recoverable beside purging drop; a create's late seed after a delete; a re-POST with
another bucket and then a cascade; unbinding a namespace with a trashed table; a
sibling created after the purge's check; `delete_project`'s emptiness read beside a
create. A refused create keeps its bucket claim.

**Reconcile.** A recoverable drop between the tick's trash listing and its tables
listing makes the table a ghost; a project or warehouse created between the registry
listing and the tuple scan, or re-created before the revoke, is revoked; a re-POST
of a warehouse with another bucket leaves its tables under no root, and a tick revokes
them (so no offer of `TicksSpareWhatStands` has one); an unread
trash index names every table ungoverned (report only). The release of the expired
trash lists warehouse records leniently: a namespace an undrop has recreated but not yet
cleared from the trash, past its deadline, in a warehouse whose record that listing
passes over, loses its grants while it stands (a table in such a root is held). A
deadline passes before a run of `DriftReport` or not at all. `config.py:185` says the
service "only ever READS tuples", which repair and rebuild do not.

**Feed and delivery.** A dead-lettered delivery whose park fails is acknowledged
(`dapr.py:145-148`): only the dead-letter stream holds it, for seven days, and a restart
reads it again. `NoEventVanishes` and `EventsSettle` except it by name (`unkept`). A
parked delivery that names no run is kept, and nothing presents it again but such a
restart, in vain (`dapr.py:120-121`, `dlq.py:194-215`). Two replicas may count a door's commit as unauthored after
the other forgot its author (`CountedIsNotLost` states what holds); a tick that dies
between `write_marks` and the count never counts it. Two lineage replicas
given one run under two authors each judge by the binding they read, so the feed may
have rows of both (`provenance.py:617`, "a run is bound to the author of its first
event"); `Contested` names such a run in `RowsFollowEdges` and `AnswersAreTheirOwn`,
which hold of every other. The chart runs one replica by default. A rebuilt feed that
grew past the forwarder's cursor is skipped (`forward.py:104`).

**Keys.** Two requests that read one abandoned claim both take it over and run at
once, against the comment on the takeover ("Re-stamping the lease is enough to stop a
third attempt piling in", `lakehouse_kit/idempotency.py:132-135`): the merge re-judges
nothing, so the second lands on a claim just re-stamped, or on an outcome already
recorded, which it sets back to `in_flight`. `OneOutcomePerKey` states what holds for
any number of requests. The endpoint recorded is the route template, so one key on
another table replays.

## Proofs

Eight modules hold theorems that TLAPS checks for every value of the constants;
the runs show the same properties on the instances above. Assumptions are the named `ASSUME`s of the
module a theorem is about, which TLC evaluates on the instance of the run: whole numbers where a bound
is one, and what is said below.

| Theorem | Property | Inductive invariant |
|---|---|---|
| `FenceTypeCorrect`, `FenceHoldersCompatible`, `FenceKeepsRefs`, `FenceKeepsBranchesApart`, `FenceHoldEndsByItsRelease` | types, `LiveHoldersCompatible`, `RefsNameLiveVersions`, `NoNestedBranches`, `LiveHoldEndsByItsRelease` | `FenceInv`, `TableInv` |
| `CommitsLandOnce`, `AnswersAreSo`, `PartsAreKept` | `LandsAtMostOnce`, `AnswersAreTrue`, `LandedKeepsItsParts` | `VersionInv` |
| `OneTurnAtATime`, `HoldersMeetNoLateWaiters`, `SeatsAreNeverLost` | `TurnsEndWithCommits`, `TurnHoldsOthersBack`, `TurnTypeOK /\ SeatsAreCounted` | `TurnInv` |
| `ViewsAreFresh` | `NoViewFromBeforeOwnWrite` | `ViewInv` |
| `CountsAreTrue`, `FeedKeepsThePromise` | `CountedIsNotLost`, `ImplementsAnnouncements` | `FeedInv` |
| `EventsAreKept` | `NoEventVanishes` | `DeliveryInv` |
| `RowsAlwaysFollowEdges`, `AnswersAreAlwaysTheirOwn` | `RowsFollowEdges`, `AnswersAreTheirOwn` | `RecInv` |
| `PlanAlwaysCovers` | `PlanCoversTheRelease` | `ReleaseInv` |
| `DerivedAreAlwaysAccountedFor` | `DerivedAreAccountedFor` | `DerivedInv` |
| `DecisionsAlwaysAct`, `ReadersAlwaysReadReviewed` | `DecisionsAct`, `ReadersReadReviewed` | `PubInv` |
| `FirstRunsAlone` | `OneOutcomePerKey` | `KeyInv` |
| `OneTenantPerBucket`, `LifecycleStands` | `TenantsStayApart`, `LifecycleIsKept` | `EstateInv` |
| `CleanReportsAreClean` | `CleanMeansClean` | `DriftInv` |

**History fence.** `LiveHoldersCompatible` is not inductive: a take writes what it
judged on an earlier read. `FenceInv` adds that reads are in the past
(`ReadsPast`), that a call about to write has seen no excluding hold that is live
*at its read* (`JudgedFree`), and that a call inside its block and its hold is
recorded (`HoldRecorded`). The write lands only on the record that was read, so a
hold live now was live then, and compatible. For the refs, `TableInv` adds that
what a call within its hold listed still stands (`ListingStands`): the versions a
reclaim will delete are unpinned, the version a tag writer opened exists, the
name a branch create judged nests with none. Each can only be disturbed by
excluding work, and `WithinExclusive` says nobody within its hold excludes
another; both fall away once a call has outlived its hold, which is why the two
properties are conditional on `outlived = {}`. Assumed (`FenceAssumption`): HOLD
and ATTEMPTS are positive, no branch is inside itself.

**Version commits.** That a commit lands once depends on what its writer knows of
the landing. A door knows: before its finalize nothing of it landed, after a
conflict its landing, if any, is still in the slot it will read (`DoorsKnow`). A
stock transaction is put by any number of requests, so the invariant speaks of the
slot: a landed manifest is in its slot, which refuses every later put, or
everybody who sent it has heard of its landing (`LandingsAreHeard`); it lies
under the version the transaction is staged for now, and a copy of an earlier
staging is kept out by what holds its version (`StagingIsCurrent`). Parts stay
because a door discards only what did not land (`DoorsKeepParts`) and behind every
landed stock manifest is a request that does not delete its author
(`LandersRemain`). Proving it widened `exposed`: with three requests of one
transaction, which the run does not have, a deletion lets a late copy land a
second time (Known limits). Assumed (`CommitAssumption`): doors and transactions
are different things, and offers and requests name them.

**Commit turns.** A take writes only over a record whose read had the ref free
(`Fit`), and the write lands only on that record, so one live turn follows as in the
fence. That turns end with their commits needs what each step of a commit knows
of its own turn, and that a stock writer told its turn is not kept has none
(`NotKeptIsGone`). `TurnHoldsOthersBack` is an action property: it follows from
`ViewsLackTheRecent`, that a shared view lacks only the turns taken since the last
tick. Seats are counted by cardinality over the threads asleep in one, for any
number of threads. Assumed (`TurnAssumption`): doors and stock writers are
different, each has one ref and one process, HOLD, ROUNDS and PLANS are positive.

**Shared reads.** Freshness of a view is not inductive without what a load in
flight may still store: `LoadedIsFresh` says it has every forgotten write unless a
clearing was counted since, which is what `get` compares, and `CountedInThePast`
orders the clearings across start-overs of the locks. Assumed (`ViewAssumption`):
there is a table.

**Commit feed.** The refinement maps `settled` to the mark and `excused` to what
no reader is owed. Its core is `MarksAreSettled` (a mark, stored or carried by a
tick, covers only accounted versions) and `AuthorsAreKept` (a door's commit keeps
its author until it is accounted for), which need each other: a version without
author is skipped, and only a skipped or confirmed version is passed. Marks never
go back below what was settled because accounts only grow (`AccountsGrow`).
Assumed (`FeedAssumption`): the grace is shorter than the horizon and the horizon
than the retention, and the registered versions are a prefix, since a table is
registered with every version it has by then (`mark_registered_heads`).

**Event delivery.** `NoEventVanishes` needs that whoever drops a staged copy has
published it, has its refusal on record, or judged it beyond repair
(`DropsAreSafe`), and that an event of which a publish returned is carried by the
bus, the dead-letter topic or a resting place, or is `unkept`, its park having failed
(`ToldIsCarried`). Assumed
(`DeliveryAssumption`): relays and operators are different, and an offer says what
each emitter emits and of which kind each event is.

**Feed records.** A row must have its edges and a bound run though its part may fail
at any merge and land again in halves. `RecInv` follows a part through its commit:
what the writer read of the runs still stands, and a run bound since is another
replica's (`BindInv`); past the bindings the author it judges by is the one bound,
unless the run is contested (`JudgedInv`); past the edges everything to be fed has its
edges (`LandedInv`). Answers need that whoever is refused as foreign is refused for a
binding that is there (`ForeignInv`) and that a replica works only on what was
delivered to it (`WorkInv`), since the contest is between deliveries. Assumed
(`RecordsAssumption`): each event has a run and an author, a batch takes at least one.
The attempt without `Contested` failed at the merge of the runs, for the reason the
Known limits give; TLC then found it too.

**Erasure release.** Three threads meet. That the plan covers what is owed needs the
fence (`FenceInv`: one tick at a time is between its plan and its last recreate,
within its hold) and what a tick knows at each step (`TickInv`). That a finished
release leaves no subject needs that the subject is on a named branch or came from
its parent (`RootedInv`) in a forest without circles (`ForestInv`): a set of branches
closed under children that contains the named ones contains the subject, so the
subtree the tick plans does, and a branch cut while the fence is free joins the next
plan. The recorded plan only grows (`JoinedFacts`), whatever the order of names is.
Assumed (`ReleaseAssumption`): finitely many branches, which form a forest when the
release is scheduled, a tick shorter than its hold.

**Erasure.** A verification judges the derived tables long after it began, on a walk
of the inputs recorded by then. What was derived when it began (`then`) is still
walked to (`JudgingInv`), because inputs are only added (`WalkedGrows`); what it judged
settled stays so (`Accountable`), because an obligation that follows another keeps
following it and a lost claim stays lost (`AccountableGrows`); so `since.then`, which
the settling verification leaves behind, is accounted for. The second half rests on
`WalkedThrough`: a table a walk comes to, it comes to through a recorded input, so a
table declared before the release that is neither settled nor listed has a first such
one on its way, which the watch's `LateOf` contains. Assumed (`ErasureAssumption`): the
source is not one of its own derived tables, and offers declare inputs between the
tables there are.

**Publication.** Two decisions of one hold are the same (`PairInv`), because the
second is judged on the record the first wrote, and what was done under a hold is of
the hold's state while it is the newest (`ActsInv`). A call carries the hold it
decided (`MineInv`), which another may replace under it, so what it does next is
bound to the hold it holds and not to the record. For the readers, what is held, and
what a publish is about to move to, has no structural finding (`HeldIsSound`,
`StepInv`). `reached` bounds the tag from above (`ReadInv`), which makes an approval's
"already reached" true. Assumed (`PublicationAssumption`): asks and offerings are of
their types and begin with a version.

**Keys.** `FirstIsAlone`: while the request that made the record is inside its
lease, the record shows its claim, so every other judges it busy. It needs the
claim's time to be of the past, and nobody past a claim before the record exists.
Assumed (`KeyAssumption`): each request names an endpoint, and the mark of no
request is none.

**Warehouses.** `BucketsAreClaimed` ties every record to its project's claim, and
`CreatesHoldTheirClaim` says a create past `claim_bucket` still has it: claims are
never given back. Beside the doors that touch no record the proof is one
argument, so it is made once. Assumed (`EstateAssumption`): asks name tenants,
warehouses and buckets that are, and in the world an offer begins in every
record's bucket is claimed by its project. The edge half of tenancy
(`EdgesFollowRecords`) does not hold for every mix (a create's late seed after a
delete, Known limits) and stays with the run's mixes, in `EstateStaysWhole`.

**Reconcile.** A drift that was there throughout was there at every read, whichever
order they came in, so each store that was read whole shows its side of it
(`TuplesShow`, `ProjectsShow`, `WarehousesShow`, `BindingsShow`, `BucketsShow`;
`ReadsShow` is the one lemma about what a read answers). A clean report has every
source read and none in error or in part, so all of them show it and a detector finds
it (`CleanShowsNone`). A dangling binding is told by two reads, so the doors must not
move a binding between them: one that is bound before a step and after it is bound to
the same warehouse (`DoorsHoldBindings`, for every door of `Warehouses`), since a
binding is written once and only taken away. Assumed beside `EstateAssumption`'s other
parts: an estate begins with a binding, or none, for each name.

**Only model-checked.** Liveness is out of the prover's reach: `WaitsEnd`,
`ReleaseFinishes`, `CommitsAreHeard`, `EventsSettle`, `DeliveriesAreAnswered`.
Claimed of the offered mixes only, because other mixes break them (Known limits),
so no theorem for every offer is true: `OneNamePerLocation`,
`TrashedStaysRecoverable`, `NamedTablesLast`, `DoorsEndTheirOwnTable`,
`FilesAreFindable`, `ReadFilesStay`, `ProjectsKeepAnAdmin`,
`NobodyRaisesThemselves`, `EstateStaysWhole`, `StandingKeepsGrants`,
`TicksSpareWhatStands`, `ReleasedIsErased`.

## Plan

1. Mixes of the offers stated as assumptions on them, so that the properties claimed
   of the offered mixes only become theorems about every offer that meets them.
2. The parts listed below that hold state of their own.

## Not modelled

Arrow reads and writes, Lance's own formats and transactions (their effect on a
ref is), HTTP adapters, the contents the staged-version judges look at, STS
policies, cryptography, metrics and the console. They hold no shared state of
rask's own or are another program's. The per-component reasons are in
`PROJECT.json`. The modelled parts
are about 18 % of the repository's Python lines: the map names the lines that hold
the protocols, not the adapters, schemas and judges around them.

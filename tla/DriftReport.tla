----------------------------- MODULE DriftReport -----------------------------
(***************************************************************************)
(* The reconcile tick of maintenance/api/routes.py beside the doors of     *)
(* Warehouses: the cross-store drift report of services/reconcile.py, the  *)
(* passes that act on it (services/rebuild.py writes project edges back,   *)
(* repair.py revokes the tuples of what is gone, tombstones.py clears the  *)
(* trash records of what is gone, trash_release.py revokes the tuples of a *)
(* drop past its deadline) and the gate it holds before the purge of the   *)
(* expired trash (purge.report_is_clean; TableDoors has the purge).        *)
(*                                                                         *)
(* The stores are read one after another while the doors go on, and a read *)
(* may fail or come back in part: an absence from what was read is not an  *)
(* absence. A listing is one step; the report's caps per tick, its wording *)
(* and the scan inside each dataset (orphans.py) are left out, with the    *)
(* raise of the listing floors, which touches none of this state, and      *)
(* every pass is armed. A drop's deadline passes before the run or not at  *)
(* all: a grace period is days, and a record is left SETTLE past it.       *)
(***************************************************************************)
EXTENDS Warehouses

VARIABLES
    tick,   \* how far the tick is, and what it has read
    stood,  \* what has stood in one place since the tick began
    drift   \* the drift that has stood since the tick began

driftVars == <<vars, tick, stood, drift>>

-----------------------------------------------------------------------------

\* The reads load_sources gathers, and those that need an answer of theirs.
Gathered == {"tuples", "projects", "warehouses", "bindings", "buckets", "trash"}
Sources  == Gathered \cup {"namespaces", "tables", "uuids", "files"}
Outcomes == {"unread", "whole", "part", "error"}

NoTick == [pc |-> "idle", how |-> [s \in Sources |-> "unread"], seen |-> [s \in Sources |-> {}], todo |-> {}]

Begun(pc) == tick.pc = pc
How(s)    == tick.how[s]
Seen(s)   == tick.seen[s]

DriftTypeOK ==
    /\ TypeOK
    /\ tick.pc \in {"idle", "reading", "rebuild", "repair", "probe", "clear", "release", "revoke", "judge", "purge"}
    /\ tick.how \in [Sources -> Outcomes]
    /\ DOMAIN tick.seen = Sources

\* The objects a tuple is on, each with its type: a project's admins, a warehouse's
\* project edge and child edges, a namespace's and a table's own. The default
\* warehouse object is the estate's, which no registry records.
Tupled ==
    {<<"project", p>> : p \in admins}
       \cup {<<"warehouse", w>> : w \in {v \in Warehouses : tenancy[v] # {} \/ Below(v) # {}}}
       \cup {<<o.kind, o>> : o \in {x \in Objects : On(x) # {} \/ Below(x) # {}}}

Governed == {x[2] : x \in Tupled}

Registered == {w \in Warehouses : record[w] # None}
Bound      == {n \in Names : binding[n] # None}

\* Every bucket's __manifest rows of the roots, and the namespaces of those rows.
NamespacesAcross(roots) == {x \in Names \X roots : spaces[x[2]][x[1]] # None}
SpacesAcross(roots)     == {spaces[b][n] : b \in roots, n \in Names} \ {None}
TablesAcross(roots)     == {tables[b][n] : b \in roots, n \in Names} \ {None}

\* What each of the gathered reads would answer now.
Contents ==
    [tuples     |-> Tupled,
     projects   |-> projects,
     warehouses |-> {[id |-> w, project |-> record[w].project, bucket |-> record[w].bucket] : w \in Registered},
     bindings   |-> {[name |-> n, wh |-> binding[n].wh] : n \in Bound},
     buckets    |-> buckets,
     trash      |-> trash]

-----------------------------------------------------------------------------
(* What stands, and what has drifted                                       *)

\* Each object with the place its record is in; one whose grace period is over
\* stands no longer by its trash record.
StandingNow ==
    {<<"registry", p>> : p \in projects} \cup {<<"registry", w>> : w \in Registered}
       \cup {<<"manifest", o>> : o \in TablesAcross(Buckets) \cup SpacesAcross(Buckets)}
       \cup {<<"trash", e.obj>> : e \in {x \in trash : x.term = "running"}}

Claimed == {record[w].bucket : w \in Registered} \cup {Estate}

\* What the gating categories look for, as it is.
Drifted ==
    {<<"ghost_projects", p>> : p \in admins \ projects}
       \cup {<<"ghost_warehouses", w>> : w \in {v \in Warehouses : <<"warehouse", v>> \in Tupled} \ Registered}
       \cup {<<"unreferenced_projects", p>> : p \in projects \ admins}
       \cup {<<"orphan_buckets", b>> : b \in buckets \ Claimed}
       \cup {<<"dangling_bindings", n>> : n \in {m \in Bound : binding[m].wh \notin Registered}}

\* Kept up beside every step of a tick.
Watched == stood' = stood \cap StandingNow' /\ drift' = drift \cap Drifted'
Forgotten == stood' = {} /\ drift' = {}

-----------------------------------------------------------------------------
(* The reads                                                               *)

\* on_reconcile_cron, which skips while another runs.
TickBegins ==
    /\ Begun("idle")
    /\ tick' = [NoTick EXCEPT !.pc = "reading"]
    /\ stood' = StandingNow /\ drift' = Drifted
    /\ UNCHANGED vars

Took(s, how, what) ==
    tick' = [tick EXCEPT !.how[s] = how, !.seen[s] = what]

Falters == faults > 0 /\ faults' = faults - 1 /\ UNCHANGED <<registry, store, authz, trash, asked, request>>

\* _read_async: the answer, or the reason there is none.
Reads(s) ==
    /\ Begun("reading") /\ How(s) = "unread"
    /\ Took(s, "whole", Contents[s])
    /\ UNCHANGED vars /\ Watched

ReadFails(s) ==
    /\ Begun("reading") /\ How(s) = "unread" /\ Falters
    /\ Took(s, "error", {})
    /\ Watched

\* A record that cannot be read, a listing of one page, a scan at its ceiling:
\* the rest is answered, with an IncompleteScan.
ReadsInPart(s) ==
    /\ Begun("reading") /\ How(s) = "unread" /\ Falters
    /\ \E x \in Contents[s] : Took(s, "part", Contents[s] \ {x})
    /\ Watched

HasRead(S) == \A s \in S : How(s) # "unread"

\* The roots are the shared one and those of the registry as it was read.
NamespaceRoots == {Estate} \cup {r.bucket : r \in Seen("warehouses")}

ReadNext(s) == Begun("reading") /\ How(s) = "unread" /\ HasRead(Gathered)

\* _top_level_namespaces_across: a root that cannot be read is passed over.
ReadsNamespaces ==
    /\ ReadNext("namespaces")
    /\ \/ Took("namespaces", "whole", NamespacesAcross(NamespaceRoots)) /\ UNCHANGED vars
       \/ /\ Falters
          /\ \E b \in NamespaceRoots : Took("namespaces", "part", NamespacesAcross(NamespaceRoots \ {b}))
    /\ Watched

\* _tables_across
ReadsTables ==
    /\ ReadNext("tables") /\ HasRead({"namespaces"})
    /\ \/ Took("tables", "whole", TablesAcross(NamespaceRoots)) /\ UNCHANGED vars
       \/ /\ Falters
          /\ \E b \in NamespaceRoots : Took("tables", "part", TablesAcross(NamespaceRoots \ {b}))
    /\ Watched

\* The tables whose location's claim is not released.
ClaimedTables == TablesAcross(Buckets) \cup InTrash

\* _uuids_of: the uuid of each listed table by its location's claim, whatever
\* name holds it. Not asked while the trash is unread.
ReadsUuids ==
    /\ ReadNext("uuids") /\ HasRead({"tables"})
    /\ \/ Took("uuids", "whole", IF How("trash") = "error" THEN {} ELSE Seen("tables") \cap ClaimedTables) /\ UNCHANGED vars
       \/ How("trash") # "error" /\ Falters /\ Took("uuids", "error", {})
    /\ Watched

\* _scannable_buckets
ScannableBuckets == {Estate} \cup {r.bucket : r \in Seen("warehouses")}

\* _registration_drift: the listed tables in a bucket that was not walked, whose
\* bytes were not looked for, leave the tables incomplete.
TablesWalked(b) ==
    IF How("tables") = "whole" /\ \E t \in Seen("tables") : <<b, t>> \in bytes /\ t \notin {e.obj : e \in Seen("trash")}
    THEN "part" ELSE How("tables")

\* _orphan_category's walk for datasets: the object store cannot be opened, or a
\* bucket's discovery fails and its datasets are unknown. The tick then acts.
WalksBuckets ==
    /\ ReadNext("files") /\ HasRead({"uuids"})
    /\ LET found(B) == {x \in bytes : x[1] \in B}
           goesOn(how, what, tabs) ==
               tick' = [tick EXCEPT !.how = [@ EXCEPT !["files"] = how, !["tables"] = tabs],
                                    !.seen["files"] = what, !.pc = "rebuild"]
       IN  \/ goesOn("whole", found(ScannableBuckets), How("tables")) /\ UNCHANGED vars
           \/ Falters /\ goesOn("error", {}, How("tables"))
           \/ Falters /\ \E b \in ScannableBuckets : goesOn("part", found(ScannableBuckets \ {b}), TablesWalked(b))
    /\ Watched

-----------------------------------------------------------------------------
(* The report                                                              *)

Categories ==
    {"ghost_projects", "ghost_warehouses", "unreferenced_projects", "unbound_namespaces", "ghost_tables",
     "ungoverned_tables", "orphan_buckets", "orphaned_trash", "dangling_bindings", "unregistered_datasets",
     "absent_datasets", "orphan_files"}

NonGating ==
    {"unbound_namespaces", "ungoverned_tables", "orphaned_trash", "ghost_tables", "unregistered_datasets",
     "absent_datasets"}

\* The sources whose error leaves a category unchecked.
Inputs ==
    [c \in Categories |->
       CASE c \in {"ghost_projects", "unreferenced_projects"}          -> {"tuples", "projects"}
         [] c = "ghost_warehouses"                                     -> {"tuples", "warehouses"}
         [] c = "unbound_namespaces"                                   -> {"namespaces", "bindings", "warehouses"}
         [] c = "ghost_tables"                                         -> {"tables", "tuples", "trash", "uuids"}
         [] c = "ungoverned_tables"                                    -> {"tables", "tuples", "uuids"}
         [] c = "orphan_buckets"                                       -> {"buckets", "warehouses"}
         [] c = "orphaned_trash"                                       -> {"trash", "warehouses"}
         [] c = "dangling_bindings"                                    -> {"bindings", "warehouses"}
         [] c \in {"unregistered_datasets", "absent_datasets"}         -> {"tables", "trash", "files"}
         [] OTHER                                                      -> {"files"}]

\* _run_category: a category one of whose inputs has an error is not counted.
Unavailable(c) == \E s \in Inputs[c] : How(s) = "error"

Ids(records)   == {r.id : r \in records}
TrashedUuids   == {e.obj : e \in Seen("trash")}
ClaimedBuckets == {r.bucket : r \in Seen("warehouses")} \cup {Estate}

\* _by_type
ByType(kind) == {x[2] : x \in {y \in Seen("tuples") : y[1] = kind}}

\* _ghosts
Ghosts(kind, ids, exclude) == (ByType(kind) \ ids) \ exclude

\* The detectors, each on what was read.
Detected(c) ==
    CASE c = "ghost_projects"        -> Ghosts("project", Seen("projects"), {})
      [] c = "ghost_warehouses"      -> Ghosts("warehouse", Ids(Seen("warehouses")), {})
      [] c = "unreferenced_projects" -> Seen("projects") \ ByType("project")
      [] c = "unbound_namespaces"    -> {x \in Seen("namespaces") : x[1] \notin {b.name : b \in Seen("bindings")}}
      [] c = "ghost_tables"          -> Ghosts("table", Seen("uuids"), TrashedUuids)
      [] c = "ungoverned_tables"     -> Seen("tables") \ (Seen("uuids") \cap ByType("table"))
      [] c = "orphan_buckets"        -> Seen("buckets") \ ClaimedBuckets
      [] c = "orphaned_trash"        -> {e \in Seen("trash") : e.root # None /\ e.root \notin ClaimedBuckets}
      [] c = "dangling_bindings"     -> {b \in Seen("bindings") : b.wh \notin Ids(Seen("warehouses"))}
      [] c = "unregistered_datasets" -> {x \in Seen("files") : x[2] \notin Seen("tables") \cup TrashedUuids}
      [] c = "absent_datasets"       -> Seen("tables") \ ({x[2] : x \in Seen("files")} \cup TrashedUuids)
      [] OTHER                       -> {}

\* build_report
Findings(c) == IF Unavailable(c) THEN {} ELSE Detected(c)

\* Mutant of Incomplete: only a source that failed outright is remembered.
IncompleteNone == {}

\* report.incomplete: the sources read in part.
Incomplete == {s \in Sources : How(s) = "part"}

\* report_is_clean, the orphan scan being on.
ReportIsClean ==
    /\ \A c \in Categories \ NonGating : Findings(c) = {}
    /\ \A c \in Categories : ~ Unavailable(c)
    /\ Incomplete = {}

-----------------------------------------------------------------------------
(* The passes                                                              *)

GoesOn(pc, todo) == tick' = [tick EXCEPT !.pc = pc, !.todo = todo]

\* plan_rebuild: the project edge of each warehouse of a project with no tuple.
Stranded(w) ==
    {r.project : r \in {x \in Seen("warehouses") : x.id = w /\ x.project \in Findings("unreferenced_projects")}}

\* Mutant of SubtractedFrom: the trash is not among what a ghost table is told by.
SubtractedFromListing(c) ==
    CASE c = "ghost_projects" -> {"projects"} [] c = "ghost_warehouses" -> {"warehouses"} [] OTHER -> {"tables"}

\* _SUBTRACTED_FROM: the listings an absence is measured against.
SubtractedFrom(c) ==
    CASE c = "ghost_projects" -> {"projects"} [] c = "ghost_warehouses" -> {"warehouses"} [] OTHER -> {"tables", "trash"}

\* plan_repair: the ghosts of every category read whole.
PlanRepair ==
    UNION {Findings(c) : c \in {k \in {"ghost_projects", "ghost_warehouses", "ghost_tables"} :
                                   SubtractedFrom(k) \cap Incomplete = {}}}

\* rebuild_tuples: one write, which may be refused.
Rebuilds ==
    /\ Begun("rebuild") /\ GoesOn("repair", PlanRepair)
    /\ \/ /\ tenancy' = [w \in Warehouses |-> tenancy[w] \cup Stranded(w)]
          /\ UNCHANGED <<registry, store, admins, grants, edges, trash, book, request>>
       \/ (\E w \in Warehouses : Stranded(w) # {}) /\ Falters
    /\ Watched

\* revoke_object_tuples of one object, each after the one before.
RepairRevokes ==
    /\ Begun("repair")
    /\ \E o \in tick.todo :
          /\ GoesOn("repair", tick.todo \ {o})
          /\ \/ /\ o \in Projects
                /\ admins' = admins \ {o} /\ UNCHANGED <<tenancy, grants, edges>>
             \/ /\ o \in Warehouses
                /\ tenancy' = [tenancy EXCEPT ![o] = {}] /\ edges' = edges \ Below(o)
                /\ UNCHANGED <<admins, grants>>
             \/ /\ o \in Table
                /\ Revoked(o) /\ UNCHANGED <<admins, tenancy>>
    /\ UNCHANGED <<registry, store, trash, book, request>> /\ Watched

\* An object the store will not revoke is left for the next tick.
RepairFails ==
    /\ Begun("repair") /\ Falters
    /\ \E o \in tick.todo : GoesOn("repair", tick.todo \ {o})
    /\ Watched

RepairEnds ==
    /\ Begun("repair") /\ tick.todo = {}
    /\ GoesOn("probe", {}) /\ UNCHANGED vars /\ Watched

\* objects_held of the record's location
Emptied(e) == <<e.root, e.obj>> \notin bytes

\* plan_sweep: the orphaned records whose location is proven to hold nothing.
SweepProbes ==
    /\ Begun("probe")
    /\ GoesOn("clear", {e \in Findings("orphaned_trash") : Emptied(e)})
    /\ UNCHANGED vars /\ Watched

\* sweep_tombstones: trash.clear of the object's record.
SweepClears ==
    /\ Begun("clear")
    /\ \E e \in tick.todo :
          /\ trash' = {x \in trash : x.obj # e.obj}
          /\ GoesOn("clear", tick.todo \ {e})
    /\ UNCHANGED <<registry, store, authz, book, request>> /\ Watched

\* A record whose location cannot be probed, or that cannot be cleared, stays.
SweepFails ==
    /\ Begun("clear") /\ Falters
    /\ \E e \in tick.todo : GoesOn("clear", tick.todo \ {e})
    /\ Watched

SweepEnds ==
    /\ Begun("clear") /\ tick.todo = {}
    /\ GoesOn("release", {}) /\ UNCHANGED vars /\ Watched

\* still_registered: a table by its location, a namespace by its name and uuid.
StillRegistered(e, roots) ==
    IF e.obj.kind = "table" THEN e.root \in roots /\ e.obj \in TablesAcross({e.root})
    ELSE \E b \in roots : spaces[b][e.name] = e.obj

\* _why_held: what stands again, and a table under no root read, is held.
Releasable(roots) ==
    {e \in trash : /\ e.term = "over" /\ ~ StillRegistered(e, roots)
                   /\ e.obj.kind = "table" => e.root \in roots}

\* roots_read: the swept bucket and every warehouse's, deactivated ones included.
RootsRead(ws) == {Estate} \cup {record[w].bucket : w \in ws}

\* release_expired_trash: the trash, the roots and what they hold are read; a
\* warehouse record that cannot be read is passed over (list_warehouse_records),
\* and what stands in its bucket is not vouched for from here on.
DueReads ==
    /\ Begun("release")
    /\ \/ GoesOn("revoke", Releasable(RootsRead(Registered))) /\ UNCHANGED vars /\ Watched
       \/ /\ Falters
          /\ \E w \in Registered :
                LET roots == RootsRead(Registered \ {w})
                IN  /\ GoesOn("revoke", Releasable(roots))
                    /\ stood' = (stood \cap StandingNow') \
                                   {<<"manifest", o>> : o \in SpacesAcross(Buckets \ roots) \cap InTrash}
                    /\ drift' = drift \cap Drifted'

\* The trash, the registry or a root's manifest cannot be read: nothing is
\* released by this tick.
DueBlocked ==
    /\ Begun("release") /\ Falters
    /\ GoesOn("judge", {}) /\ Watched

\* _release_one: the object's tuples go, and its record, if it is still there,
\* is marked, or the mark fails.
DueRevokes ==
    /\ Begun("revoke")
    /\ \E e \in tick.todo :
          /\ GoesOn("revoke", tick.todo \ {e})
          /\ Revoked(e.obj)
          /\ \/ /\ trash' = {IF x.obj = e.obj THEN [x EXCEPT !.term = "released"] ELSE x : x \in trash}
                /\ UNCHANGED faults
             \/ faults > 0 /\ faults' = faults - 1 /\ UNCHANGED trash
    /\ UNCHANGED <<registry, store, admins, tenancy, asked, request>> /\ Watched

\* A revoke that failed leaves the record for the next tick.
DueFails ==
    /\ Begun("revoke") /\ Falters
    /\ \E e \in tick.todo : GoesOn("revoke", tick.todo \ {e})
    /\ Watched

DueEnds ==
    /\ Begun("revoke") /\ tick.todo = {}
    /\ GoesOn("judge", {}) /\ UNCHANGED vars /\ Watched

\* purge_expired_trash goes on only on a clean report.
PurgeJudges ==
    /\ Begun("judge")
    /\ UNCHANGED vars
    /\ \/ ReportIsClean /\ GoesOn("purge", {}) /\ Watched
       \/ ~ ReportIsClean /\ tick' = NoTick /\ Forgotten

TickEnds == Begun("purge") /\ tick' = NoTick /\ Forgotten /\ UNCHANGED vars

-----------------------------------------------------------------------------

TickSteps ==
    \/ TickBegins
    \/ \E s \in Gathered : Reads(s) \/ ReadFails(s) \/ ReadsInPart(s)
    \/ ReadsNamespaces \/ ReadsTables \/ ReadsUuids \/ WalksBuckets
    \/ Rebuilds \/ RepairRevokes \/ RepairFails \/ RepairEnds
    \/ SweepProbes \/ SweepClears \/ SweepFails \/ SweepEnds
    \/ DueReads \/ DueBlocked \/ DueRevokes \/ DueFails \/ DueEnds \/ PurgeJudges \/ TickEnds

DriftInit == Init /\ tick = NoTick /\ stood = {} /\ drift = {}

DriftNext ==
    \/ TickSteps
    \/ Next /\ UNCHANGED tick /\ Watched

DriftSpec == DriftInit /\ [][DriftNext]_driftVars

-----------------------------------------------------------------------------
(* Properties                                                              *)

\* A tick takes nothing from what stands. A project, a warehouse, a namespace
\* or a table whose record has stood in one place since the tick began - the
\* registry, the manifest, or the trash until the drop's deadline - keeps its
\* tuples, whichever read failed or came back in part and whatever the doors do
\* meanwhile: a table as long as the warehouses were read whole (that read names
\* the roots the tables are listed from), and a namespace with a trash record
\* past its deadline as long as the release did not pass over its warehouse's
\* record (still_registered: "strip a live object's grants").
\* And no trash record goes while the bytes it points at are there (plan_repair,
\* plan_sweep, release_expired_trash).
TicksSpareWhatStands ==
    [][request' = request /\ tick.pc # "idle" =>
          /\ \A x \in stood : x[2] \in Governed /\ (x[2] \in Table => How("warehouses") = "whole") => x[2] \in Governed'
          /\ \A e \in trash : e.root # None /\ e.obj \notin InTrash' => <<e.root, e.obj>> \notin bytes]_driftVars

\* The purge is let through only over an estate the tick has seen: a ghost, a
\* project nobody administers, an unclaimed bucket or a binding that leads
\* nowhere, there since the tick began, holds it back, whichever read failed or
\* came back in part (report_is_clean).
CleanMeansClean == tick.pc = "purge" => drift = {}

\* What repair.py says of itself: "A REVOKE IS JUSTIFIED BY AN ABSENCE, SO A
\* PARTIAL READ JUSTIFIES NOTHING". In an estate where no door is at work, a
\* table in the manifest keeps its tuples whatever the tick could not read.
RepairsSpareTables ==
    [][request' = request => \A t \in TablesAcross(Buckets) : t \in Governed => t \in Governed']_driftVars
=============================================================================

------------------------------ MODULE Warehouses ------------------------------
(***************************************************************************)
(* Tenants' warehouses and what stands in them: the doors of               *)
(* catalog/api/v1/endpoints/warehouses.py (create, deactivate, activate,   *)
(* protect, bind a namespace, unbind one, delete) and projects.py (create, *)
(* delete), and the cascading drop and the undrop of a top-level namespace *)
(* in namespaces.py, over the registry's records                           *)
(* (catalog/services/warehouses.py, projects.py), the namespaces and       *)
(* tables of the buckets, the trash and the OpenFGA tuples                 *)
(* (catalog/api/fga_deps.py, service_kit/governed/fga.py).                 *)
(*                                                                         *)
(* There is no transaction over the four: every door changes them one call *)
(* at a time, may be stopped between any two, and is asked again. A        *)
(* namespace holds at most one table and no namespace; its table stands    *)
(* from the beginning (TableDoors models the doors of tables). A write of  *)
(* the registry is conditional and reads again when it loses, so it is one *)
(* step.                                                                   *)
(***************************************************************************)
EXTENDS Naturals, FiniteSets, Sequences

CONSTANTS
    Projects, Warehouses, Buckets, Names,
    Estate,      \* settings.root: the bucket of the names bound to no warehouse
    Requests,    \* requests under way at once
    Offers,      \* the estate to begin with and what is asked of it
    MaxObjects,  \* bound on the uuids minted
    None         \* no record, no binding, nothing read

Maybe(S) == S \cup {None}

Doors == {"create", "status", "protect", "bind", "unbind", "delete", "drop", "undrop", "project", "retire"}

\* What a request sets: the status or the protection it asks for (a create may
\* ask for it, ask for it to be cleared, or name neither), adopt_existing,
\* cascade, purge_bucket and force of a delete, and purge of a namespace's drop.
Flags == {"active", "protected", "unprotected", "adopt", "cascade", "purge", "force"}

Ask == [door: Doors, project: Maybe(Projects), wh: Maybe(Warehouses), bucket: Maybe(Buckets),
        name: Maybe(Names), flags: SUBSET Flags]

Namespace == [uuid: 1 .. MaxObjects, kind: {"namespace"}]
Table     == [uuid: 1 .. MaxObjects, kind: {"table"}]
Objects   == Namespace \cup Table

\* What a parent tuple names; the default warehouse object stands for Estate.
Containers == Warehouses \cup {Estate} \cup Namespace

WarehouseRecord == [project: Projects, bucket: Buckets, status: {"active", "deactivated"}, protected: BOOLEAN]
Binding         == [wh: Warehouses, root: Buckets]

\* lakehouse_kit.trash: what a recoverable drop files. root is where a table's
\* bytes are, bound the binding of a namespace, cascade the namespace dropped;
\* term is its grace period: running, over, or over with its grants released.
TrashRecord == [obj: Objects, name: Names, root: Maybe(Buckets), bound: Maybe(Binding), cascade: Namespace,
                term: {"running", "over", "released"}]

\* A create names its tenant, its warehouse and its bucket.
Asks == {a \in Ask : a.door = "create" => a.project \in Projects /\ a.wh \in Warehouses /\ a.bucket \in Buckets}

\* An estate begins with every warehouse's bucket claimed by its tenant.
ASSUME EstateAssumption ==
    /\ None \notin Projects
    /\ \A o \in Offers :
           /\ o.asks \in Seq(SUBSET Asks)
           /\ o.world.record \in [Warehouses -> Maybe(WarehouseRecord)]
           /\ o.world.claims \in [Buckets -> Maybe(Projects)]
           /\ o.world.binding \in [Names -> Maybe(Binding)]
           /\ \A w \in Warehouses : o.world.record[w] # None =>
                  o.world.claims[o.world.record[w].bucket] = o.world.record[w].project

VARIABLES
    projects,   \* the tenants with a record
    admins,     \* the tenants whose admin tuple stands
    record,     \* each warehouse's record
    claims,     \* the project each bucket is claimed by
    binding,    \* the binding of each top-level namespace
    buckets,    \* the buckets that exist
    spaces,     \* the namespaces in each bucket's __manifest
    tables,     \* the table in each of them
    bytes,      \* the datasets, <<bucket, table>>
    minted,     \* how many uuids were minted
    tenancy,    \* the project edges of each warehouse
    grants,     \* the tuples on each object, <<object, the container its parent tuple names>>
    edges,      \* the child edges, <<container, object>>
    trash,      \* the trash records
    asked,      \* what is asked: each set once all of the one before has ended
    faults,     \* how often something still goes wrong
    request     \* how far each request is

registry == <<projects, record, claims, binding>>
store    == <<buckets, spaces, tables, bytes, minted>>
authz    == <<admins, tenancy, grants, edges>>
book     == <<asked, faults>>
vars     == <<registry, store, authz, trash, book, request>>

-----------------------------------------------------------------------------

Steps == Doors \cup
    {"idle", "claim", "provision", "register", "seed warehouse", "set", "make", "write binding", "read uuid", "seed",
     "take back grants", "take back", "take back binding", "list", "remove binding", "file", "deregister",
     "drop space", "file space", "unbind dropped", "destroy table", "destroy space", "unbind destroyed", "end",
     "rebind", "rebuild", "clear", "judge", "enumerate", "trashed", "forget", "subtree", "delete space",
     "end subtree", "delete binding", "orphans", "end orphans", "revoke warehouse", "delete record", "purge",
     "seed admin", "revoke project", "delete project"}

Found == [space: Maybe(Namespace), table: Maybe(Table)]
Standing(f) == {f.space, f.table} \ {None}
Nothing == [space |-> None, table |-> None]

Idle == [pc |-> "idle", ask |-> None, read |-> None, root |-> None, name |-> None, obj |-> None,
         found |-> Nothing, adopted |-> FALSE, bound |-> None, todo |-> {},
         listed |-> [n \in Names |-> Nothing], entries |-> {}, ending |-> {}, seen |-> {}]

TypeOK ==
    /\ projects \subseteq Projects /\ admins \subseteq Projects
    /\ record \in [Warehouses -> Maybe(WarehouseRecord)]
    /\ claims \in [Buckets -> Maybe(Projects)]
    /\ binding \in [Names -> Maybe(Binding)]
    /\ buckets \subseteq Buckets
    /\ spaces \in [Buckets -> [Names -> Maybe(Namespace)]]
    /\ tables \in [Buckets -> [Names -> Maybe(Table)]]
    /\ bytes \subseteq Buckets \X Table
    /\ minted \in 0 .. MaxObjects
    /\ tenancy \in [Warehouses -> SUBSET Projects]
    /\ grants \subseteq Objects \X Containers
    /\ edges \subseteq Containers \X Objects
    /\ trash \subseteq TrashRecord
    /\ faults \in Nat
    /\ \A r \in Requests :
          /\ request[r].pc \in Steps /\ request[r].ask \in Maybe(Ask)
          /\ request[r].root \in Maybe(Buckets) /\ request[r].name \in Maybe(Names)
          /\ request[r].obj \in Maybe(Objects) /\ request[r].found \in Found
          /\ request[r].listed \in [Names -> Found]
          /\ request[r].ending \cup request[r].seen \subseteq Objects
          /\ request[r].entries \subseteq TrashRecord

StartsFrom(o) ==
    /\ projects = o.world.projects /\ admins = o.world.admins
    /\ record = o.world.record /\ claims = o.world.claims /\ binding = o.world.binding
    /\ buckets = o.world.buckets /\ spaces = o.world.spaces /\ tables = o.world.tables
    /\ bytes = o.world.bytes /\ minted = o.world.minted
    /\ tenancy = o.world.tenancy /\ grants = o.world.grants /\ edges = o.world.edges
    /\ trash = o.world.trash
    /\ asked = o.asks /\ faults = o.faults
    /\ request = [r \in Requests |-> Idle]

Init == \E o \in Offers : StartsFrom(o)

At(r, pc)  == request[r].pc = pc
W(r)       == request[r].ask.wh
N(r)       == request[r].name
P(r)       == request[r].ask.project
With(r, f) == f \in request[r].ask.flags

Goes(r, locals) == request' = [request EXCEPT ![r] = locals]
GoesTo(r, pc)   == Goes(r, [request[r] EXCEPT !.pc = pc])
Ends(r)         == Goes(r, Idle)

\* A request that is refused, or answers with nothing changed.
Refused(r) == Ends(r) /\ UNCHANGED <<registry, store, authz, trash, book>>

\* What stands under the request's name in the bucket it works on.
Space(r) == spaces[request[r].root][N(r)]
Held(r)  == tables[request[r].root][N(r)]

SetSpace(r, s)   == spaces' = [spaces EXCEPT ![request[r].root][N(r)] = s]
SetTable(r, t)   == tables' = [tables EXCEPT ![request[r].root][N(r)] = t]
SetBinding(r, b) == binding' = [binding EXCEPT ![N(r)] = b]

Active(w) == record[w] # None /\ record[w].status = "active"

-----------------------------------------------------------------------------
(* What is asked                                                           *)

\* A request comes in.
Begins(r) ==
    /\ At(r, "idle") /\ asked # <<>>
    /\ \E a \in Head(asked) :
          /\ Goes(r, [Idle EXCEPT !.pc = a.door, !.ask = a, !.name = a.name])
          /\ asked' = <<Head(asked) \ {a}>> \o Tail(asked)
    /\ UNCHANGED <<registry, store, authz, trash, faults>>

\* All that was asked together has ended.
AsksOn ==
    /\ asked # <<>> /\ Head(asked) = {} /\ \A r \in Requests : At(r, "idle")
    /\ asked' = Tail(asked)
    /\ UNCHANGED <<registry, store, authz, trash, faults, request>>

\* The handler does nothing more, and its caller may ask again.
GivesUp(r) ==
    /\ faults > 0
    /\ faults' = faults - 1
    /\ asked' \in {asked, <<Head(asked) \cup {request[r].ask}>> \o Tail(asked)}
    /\ Ends(r)

\* A store or OpenFGA fails, or the replica dies, between two calls.
Stops(r) ==
    /\ ~ At(r, "idle") /\ GivesUp(r)
    /\ UNCHANGED <<registry, store, authz, trash>>

-----------------------------------------------------------------------------
(* Tuples                                                                  *)

\* trash.object_uuid of every record
InTrash == {e.obj : e \in trash}

\* grant_on_create: the object's tuples and the two edges, in one write.
Seeded(o, parent) == grants' = grants \cup {<<o, parent>>} /\ edges' = edges \cup {<<parent, o>>}

On(o) == {g \in grants : g[1] = o}

\* The child edges of the object itself.
Below(o) == {e \in edges : e[1] = o}

\* revoke_object_tuples: the object's own tuples, then the inverse of the first
\* parent tuple read. An object with no tuple is left as it is.
Revoked(o) ==
    /\ grants' = grants \ On(o)
    /\ IF On(o) = {} THEN edges' = edges \ Below(o)
       ELSE \E g \in On(o) : edges' = edges \ (Below(o) \cup {<<g[2], o>>})

\* RevokeInterrupted: the tuples go one write at a time, the inverse edge last.
RevokeInterrupted(r, o) ==
    /\ On(o) # {} /\ GivesUp(r)
    /\ grants' = grants \ On(o) /\ edges' \in {edges, edges \ Below(o)}
    /\ UNCHANGED <<registry, store, admins, tenancy, trash>>

\* The objects only a child edge still names, but for those in the trash.
Children(objs, r) == {o \in Objects : \E p \in objs : <<p, o>> \in edges} \ (request[r].seen \cup InTrash)

\* end_removed_subtree: the next object to end, children first.
NextToEnd(r) ==
    LET all  == request[r].ending \cup Children(request[r].ending, r)
        tabs == all \cap Table
    IN  IF tabs # {} THEN tabs ELSE all

EndsOne(r) ==
    /\ request[r].pc \in {"end", "end subtree", "end orphans"}
    /\ \E o \in NextToEnd(r) :
          \/ /\ Revoked(o)
             /\ Goes(r, [request[r] EXCEPT !.ending = (@ \cup Children(@, r)) \ {o}, !.seen = @ \cup {o}])
             /\ UNCHANGED <<registry, store, admins, tenancy, trash, book>>
          \/ RevokeInterrupted(r, o)

\* The walk is over: a drop answers, a delete goes on.
EndsLast(r) ==
    /\ request[r].pc \in {"end", "end subtree", "end orphans"} /\ NextToEnd(r) = {}
    /\ \/ At(r, "end")         /\ Ends(r)
       \/ At(r, "end subtree") /\ GoesTo(r, "delete binding")
       \/ At(r, "end orphans") /\ GoesTo(r, "revoke warehouse")
    /\ UNCHANGED <<registry, store, authz, trash, book>>

-----------------------------------------------------------------------------
(* Tenants and their warehouses                                            *)

\* require_project_exists, require_can_create_warehouse and the two reads of
\* the registry before anything is changed.
CreateJudges(r) ==
    LET live == record[W(r)]
    IN  /\ At(r, "create")
        /\ IF /\ P(r) \in projects \cap admins
              /\ live # None => live.project = P(r)
              /\ \A w \in Warehouses : record[w] # None /\ record[w].bucket = request[r].ask.bucket
                                          => record[w].project = P(r)
           THEN /\ Goes(r, [request[r] EXCEPT !.pc = "claim", !.read = live, !.root = request[r].ask.bucket])
                /\ UNCHANGED <<registry, store, authz, trash, book>>
           ELSE Refused(r)

\* Mutant of Claimable: the answer of the create-only write is not looked at.
ClaimableByAll(b, p) == TRUE

\* claim_bucket: the claim is made, or is already the project's.
Claimable(b, p) == claims[b] \in {None, p}

CreateClaims(r) ==
    /\ At(r, "claim")
    /\ IF Claimable(request[r].root, P(r))
       THEN /\ claims' = [claims EXCEPT ![request[r].root] = P(r)]
            /\ GoesTo(r, "provision")
            /\ UNCHANGED <<projects, record, binding, store, authz, trash, book>>
       ELSE Refused(r)

\* provision_bucket and the storage probe, which the store passes or Stops.
CreateProvisions(r) ==
    /\ At(r, "provision")
    /\ buckets' = buckets \cup {request[r].root}
    /\ GoesTo(r, "register")
    /\ UNCHANGED <<registry, spaces, tables, bytes, minted, authz, trash, book>>

MintedRecord(r) ==
    [project |-> P(r), bucket |-> request[r].root, status |-> "active", protected |-> With(r, "protected")]

\* with_protection: what the request says of the protection, or as it was.
Declared(was, r) == With(r, "protected") \/ (was /\ ~ With(r, "unprotected"))

\* Mutant of Merged: the record the door read at its start is written back.
MergedAsRead(live, r) ==
    [IF request[r].read = None THEN live ELSE request[r].read
       EXCEPT !.bucket = request[r].root, !.protected = Declared(@, r)]

\* upsert_warehouse's merge: the caller's own fields over the live record.
Merged(live, r) == [live EXCEPT !.bucket = request[r].root, !.protected = Declared(@, r)]

\* create_warehouse_record, or _converge on the record that stands.
CreateRegisters(r) ==
    LET live == record[W(r)]
    IN  /\ At(r, "register")
        /\ \/ /\ live = None /\ request[r].read = None
              /\ record' = [record EXCEPT ![W(r)] = MintedRecord(r)]
              /\ GoesTo(r, "seed warehouse")
              /\ UNCHANGED <<projects, claims, binding, store, authz, trash, book>>
           \/ /\ live # None /\ live.project = P(r)
              /\ record' = [record EXCEPT ![W(r)] = Merged(live, r)]
              /\ GoesTo(r, "seed warehouse")
              /\ UNCHANGED <<projects, claims, binding, store, authz, trash, book>>
           \/ /\ IF live = None THEN request[r].read # None ELSE live.project # P(r)
              /\ Refused(r)

\* seed_warehouse
CreateSeeds(r) ==
    /\ At(r, "seed warehouse")
    /\ tenancy' = [tenancy EXCEPT ![W(r)] = @ \cup {P(r)}]
    /\ Ends(r)
    /\ UNCHANGED <<registry, store, admins, grants, edges, trash, book>>

\* _set_warehouse_status and administered_warehouse of set_warehouse_protection.
LifecycleReads(r) ==
    /\ request[r].pc \in {"status", "protect"}
    /\ IF record[W(r)] # None /\ record[W(r)].project \in admins
       THEN /\ Goes(r, [request[r] EXCEPT !.pc = "set", !.read = record[W(r)]])
            /\ UNCHANGED <<registry, store, authz, trash, book>>
       ELSE Refused(r)

\* mutate_json on the live record; set_warehouse_protection refuses one of another project.
LifecycleWrites(r) ==
    LET live == record[W(r)]
    IN  /\ At(r, "set")
        /\ \/ /\ live # None /\ request[r].ask.door = "status"
              /\ record' = [record EXCEPT ![W(r)].status = IF With(r, "active") THEN "active" ELSE "deactivated"]
              /\ Ends(r)
              /\ UNCHANGED <<projects, claims, binding, store, authz, trash, book>>
           \/ /\ live # None /\ request[r].ask.door = "protect" /\ live.project = request[r].read.project
              /\ record' = [record EXCEPT ![W(r)].protected = With(r, "protected")]
              /\ Ends(r)
              /\ UNCHANGED <<projects, claims, binding, store, authz, trash, book>>
           \/ /\ live # None => request[r].ask.door = "protect" /\ live.project # request[r].read.project
              /\ Refused(r)

\* create_project: the record is minted or converged on, then the admin is seeded.
ProjectMints(r) ==
    /\ At(r, "project")
    /\ projects' = projects \cup {P(r)}
    /\ GoesTo(r, "seed admin")
    /\ UNCHANGED <<record, claims, binding, store, authz, trash, book>>

ProjectSeeds(r) ==
    /\ At(r, "seed admin")
    /\ admins' = admins \cup {P(r)}
    /\ Ends(r)
    /\ UNCHANGED <<registry, store, tenancy, grants, edges, trash, book>>

\* delete_project: the tenant's own admin asks, and no warehouse is its own.
RetireReads(r) ==
    /\ At(r, "retire")
    /\ IF P(r) \in projects \cap admins /\ \A w \in Warehouses : record[w] # None => record[w].project # P(r)
       THEN GoesTo(r, "revoke project") /\ UNCHANGED <<registry, store, authz, trash, book>>
       ELSE Refused(r)

RetireRevokes(r) ==
    /\ At(r, "revoke project")
    /\ admins' = admins \ {P(r)}
    /\ GoesTo(r, "delete project")
    /\ UNCHANGED <<registry, store, tenancy, grants, edges, trash, book>>

RetireRemoves(r) ==
    /\ At(r, "delete project")
    /\ projects' = projects \ {P(r)}
    /\ Ends(r)
    /\ UNCHANGED <<record, claims, binding, store, authz, trash, book>>

-----------------------------------------------------------------------------
(* A namespace bound to a warehouse                                        *)

\* create_warehouse_namespace's conditions.
BindJudges(r) ==
    LET w == W(r)
    IN  /\ At(r, "bind")
        /\ IF /\ Active(w) /\ tenancy[w] # {}
              /\ binding[N(r)] # None => binding[N(r)].root = record[w].bucket
              /\ spaces[Estate][N(r)] = None
           THEN /\ Goes(r, [request[r] EXCEPT !.pc = "make", !.root = record[w].bucket])
                /\ UNCHANGED <<registry, store, authz, trash, book>>
           ELSE Refused(r)

\* The native create, or the namespace already there adopted.
BindCreates(r) ==
    /\ At(r, "make")
    /\ \/ /\ Space(r) = None /\ minted < MaxObjects /\ request[r].root \in buckets
          /\ LET o == [uuid |-> minted + 1, kind |-> "namespace"]
             IN  /\ SetSpace(r, o) /\ minted' = minted + 1
                 /\ GoesTo(r, "write binding")
          /\ UNCHANGED <<registry, buckets, tables, bytes, authz, trash, book>>
       \/ /\ Space(r) # None /\ With(r, "adopt")
          /\ Goes(r, [request[r] EXCEPT !.pc = "write binding", !.adopted = TRUE])
          /\ UNCHANGED <<registry, store, authz, trash, book>>
       \/ /\ IF Space(r) = None THEN request[r].root \notin buckets ELSE ~ With(r, "adopt")
          /\ Refused(r)

\* bind_namespace: write-once, and the retry converges on its own.
Bindable(n, w, root) == binding[n] \in {None, [wh |-> w, root |-> root]}

\* A refusal leaves the native namespace behind.
BindWrites(r) ==
    /\ At(r, "write binding")
    /\ IF Bindable(N(r), W(r), request[r].root)
       THEN /\ SetBinding(r, [wh |-> W(r), root |-> request[r].root])
            /\ GoesTo(r, "read uuid")
            /\ UNCHANGED <<projects, record, claims, store, authz, trash, book>>
       ELSE Refused(r)

\* require_namespace_uuid, of what stands under the name by now: a failure
\* leaves namespace and binding ungranted, before any compensation.
BindReadsUuid(r) ==
    /\ At(r, "read uuid")
    /\ IF Space(r) # None
       THEN /\ Goes(r, [request[r] EXCEPT !.pc = "seed", !.obj = Space(r)])
            /\ UNCHANGED <<registry, store, authz, trash, book>>
       ELSE Refused(r)

\* seed_ownership_or_compensate: the grants land, or the write fails, or only
\* its answer is lost; what was adopted is not undone.
BindSeeds(r) ==
    /\ At(r, "seed")
    /\ Seeded(request[r].obj, W(r))
    /\ Ends(r)
    /\ UNCHANGED <<registry, store, admins, tenancy, trash, book>>

BindSeedFails(r) ==
    /\ At(r, "seed") /\ faults > 0 /\ faults' = faults - 1
    /\ (Seeded(request[r].obj, W(r)) \/ UNCHANGED <<grants, edges>>)
    /\ IF request[r].adopted THEN Ends(r) ELSE GoesTo(r, "take back grants")
    /\ UNCHANGED <<registry, store, admins, tenancy, trash, asked>>

\* compensate_create: the revoke is attempted, and the undo follows anyway.
BindTakesBackGrants(r) ==
    /\ At(r, "take back grants")
    /\ \/ Revoked(request[r].obj) /\ UNCHANGED faults
       \/ faults > 0 /\ faults' = faults - 1 /\ UNCHANGED <<grants, edges>>
    /\ GoesTo(r, "take back")
    /\ UNCHANGED <<registry, store, admins, tenancy, trash, asked>>

\* _undo_create: the native drop, which refuses a namespace with a table, then the unbind.
BindTakesBack(r) ==
    /\ At(r, "take back")
    /\ IF Held(r) = None /\ Space(r) # None
       THEN /\ SetSpace(r, None) /\ GoesTo(r, "take back binding")
            /\ UNCHANGED <<registry, buckets, tables, bytes, minted, authz, trash, book>>
       ELSE Refused(r)

\* unbind_namespace: _undo_create's, the unbind door's, and those of the drop
\* and the delete of a namespace. The record of the name goes, whatever it says.
Unbinds(r) == SetBinding(r, None) /\ UNCHANGED <<projects, record, claims, store, authz, trash, book>>

BindTakesBackBinding(r) == At(r, "take back binding") /\ Unbinds(r) /\ Ends(r)

UnbindJudges(r) ==
    /\ At(r, "unbind")
    /\ IF /\ Active(W(r)) /\ record[W(r)].project \in admins
          /\ binding[N(r)] # None /\ binding[N(r)].wh = W(r)
       THEN /\ Goes(r, [request[r] EXCEPT !.pc = "list", !.root = binding[N(r)].root])
            /\ UNCHANGED <<registry, store, authz, trash, book>>
       ELSE Refused(r)

\* _tables_in_namespace
UnbindLists(r) ==
    /\ At(r, "list")
    /\ IF Held(r) = None
       THEN GoesTo(r, "remove binding") /\ UNCHANGED <<registry, store, authz, trash, book>>
       ELSE Refused(r)

UnbindRemoves(r) == At(r, "remove binding") /\ Unbinds(r) /\ Ends(r)

-----------------------------------------------------------------------------
(* The cascading drop of a top-level namespace, and its undrop             *)

\* _resolve_warehouse_root: the bound warehouse's bucket, the estate's for an
\* unbound name, and none while the warehouse is deactivated or gone.
Root(n) ==
    IF binding[n] = None THEN Estate
    ELSE IF Active(binding[n].wh) THEN binding[n].root ELSE None

DropReads(r) ==
    LET root == Root(N(r))
    IN  /\ At(r, "drop")
        /\ IF root # None /\ spaces[root][N(r)] # None
           THEN /\ Goes(r, [request[r] EXCEPT
                       !.pc = IF With(r, "purge") THEN "destroy table"
                              ELSE IF tables[root][N(r)] = None THEN "drop space" ELSE "file",
                       !.root = root,
                       !.found = [space |-> spaces[root][N(r)], table |-> tables[root][N(r)]]])
                /\ UNCHANGED <<registry, store, authz, trash, book>>
           ELSE Refused(r)

\* _trash_subtree, the table's record before its deregistration.
DropFiles(r) ==
    /\ At(r, "file")
    /\ trash' = trash \cup {[obj |-> request[r].found.table, name |-> N(r), root |-> request[r].root,
                             bound |-> None, cascade |-> request[r].found.space, term |-> "running"]}
    /\ GoesTo(r, "deregister")
    /\ UNCHANGED <<registry, store, authz, book>>

DropDeregisters(r) ==
    /\ At(r, "deregister")
    /\ IF Held(r) # None
       THEN /\ SetTable(r, None) /\ GoesTo(r, "drop space")
            /\ UNCHANGED <<registry, buckets, spaces, bytes, minted, authz, trash, book>>
       ELSE Refused(r)

\* The binding is read for the record, then the namespace is dropped.
DropDropsSpace(r) ==
    /\ At(r, "drop space")
    /\ IF Held(r) = None /\ Space(r) # None
       THEN /\ SetSpace(r, None)
            /\ Goes(r, [request[r] EXCEPT !.pc = "file space", !.bound = binding[N(r)]])
            /\ UNCHANGED <<registry, buckets, tables, bytes, minted, authz, trash, book>>
       ELSE Refused(r)

DropFilesSpace(r) ==
    /\ At(r, "file space")
    /\ trash' = trash \cup {[obj |-> request[r].found.space, name |-> N(r), root |-> None,
                             bound |-> request[r].bound, cascade |-> request[r].found.space,
                             term |-> "running"]}
    /\ IF request[r].bound = None THEN Ends(r) ELSE GoesTo(r, "unbind dropped")
    /\ UNCHANGED <<registry, store, authz, book>>

DropUnbinds(r) == At(r, "unbind dropped") /\ Unbinds(r) /\ Ends(r)

\* _destroy_subtree: what is already gone is passed over. destroy_table files a
\* residue over any trash record of the table, and clears it (TableDoors).
DropDestroys(r) ==
    /\ At(r, "destroy table")
    /\ SetTable(r, None)
    /\ bytes' = bytes \ {<<request[r].root, Held(r)>>}
    /\ trash' = {e \in trash : e.obj # Held(r)}
    /\ GoesTo(r, "destroy space")
    /\ UNCHANGED <<registry, buckets, spaces, minted, authz, book>>

DropDestroysSpace(r) ==
    /\ At(r, "destroy space")
    /\ IF Held(r) = None
       THEN /\ SetSpace(r, None) /\ GoesTo(r, "unbind destroyed")
            /\ UNCHANGED <<registry, buckets, tables, bytes, minted, authz, trash, book>>
       ELSE Refused(r)

DropUnbindsDestroyed(r) ==
    /\ At(r, "unbind destroyed") /\ Unbinds(r)
    /\ Goes(r, [request[r] EXCEPT !.pc = "end", !.ending = Standing(request[r].found)])

\* The records the cascade that dropped a namespace filed.
FiledWith(e) == {t \in trash : t.cascade = e.cascade /\ t.name = e.name}

\* undrop_namespace's record, with the table its drop filed: require_restorable
\* of each.
UndropReads(r) ==
    LET root == Root(N(r))
        mine == {e \in trash : e.name = N(r) /\ e.obj.kind = "namespace"}
        ok   == {e \in mine : /\ root # None /\ spaces[root][N(r)] \in {None, e.obj}
                              /\ \A t \in FiledWith(e) : t.term = "running"}
    IN  /\ At(r, "undrop")
        /\ \/ \E e \in ok :
                 /\ Goes(r, [request[r] EXCEPT !.pc = "rebind", !.root = root, !.obj = e.obj, !.bound = e.bound,
                                               !.entries = FiledWith(e)])
                 /\ UNCHANGED <<registry, store, authz, trash, book>>
           \/ ok = {} /\ Refused(r)

\* The binding the record kept, into a warehouse that is active.
UndropRebinds(r) ==
    LET b == request[r].bound
    IN  /\ At(r, "rebind")
        /\ \/ /\ b = None
              /\ GoesTo(r, "rebuild")
              /\ UNCHANGED <<registry, store, authz, trash, book>>
           \/ /\ b # None /\ Active(b.wh) /\ Bindable(N(r), b.wh, b.root)
              /\ SetBinding(r, b)
              /\ Goes(r, [request[r] EXCEPT !.pc = "rebuild", !.root = b.root])
              /\ UNCHANGED <<projects, record, claims, store, authz, trash, book>>
           \/ /\ b # None /\ ~ (Active(b.wh) /\ Bindable(N(r), b.wh, b.root))
              /\ Refused(r)

\* The namespace first, then its table.
NextToRebuild(r) ==
    LET spacesLeft == {e \in request[r].entries : e.obj.kind = "namespace"}
    IN  IF spacesLeft # {} THEN spacesLeft ELSE request[r].entries

\* create_or_keep_namespace, or register_table: what stands there is kept.
UndropRebuilds(r) ==
    /\ At(r, "rebuild")
    /\ \E e \in NextToRebuild(r) :
          IF e.obj.kind = "namespace"
          THEN SetSpace(r, IF Space(r) = None THEN e.obj ELSE Space(r)) /\ UNCHANGED tables
          ELSE SetTable(r, IF Held(r) = None THEN e.obj ELSE Held(r)) /\ UNCHANGED spaces
    /\ GoesTo(r, "clear")
    /\ UNCHANGED <<registry, buckets, bytes, minted, authz, trash, book>>

UndropClears(r) ==
    /\ At(r, "clear")
    /\ \E e \in NextToRebuild(r) :
          /\ trash' = trash \ {e}
          /\ IF request[r].entries = {e} THEN Ends(r)
             ELSE Goes(r, [request[r] EXCEPT !.pc = "rebuild", !.entries = @ \ {e}])
    /\ UNCHANGED <<registry, store, authz, book>>

-----------------------------------------------------------------------------
(* The delete of a warehouse                                               *)

\* administered_warehouse and require_not_protected
DeleteReads(r) ==
    LET live == record[W(r)]
    IN  /\ At(r, "delete")
        /\ IF live # None /\ live.project \in admins /\ (live.protected => With(r, "force"))
           THEN /\ Goes(r, [request[r] EXCEPT !.pc = "judge", !.read = live, !.root = live.bucket])
                /\ UNCHANGED <<registry, store, authz, trash, book>>
           ELSE Refused(r)

\* namespaces_bound_to
BoundTo(w) == {n \in Names : binding[n] # None /\ binding[n].wh = w}

\* _require_bucket_purgeable
Purgeable(w, read) == \A v \in Warehouses \ {w} : record[v] # None => record[v].bucket # read.bucket

DeleteJudges(r) ==
    /\ At(r, "judge")
    /\ IF /\ BoundTo(W(r)) # {} => With(r, "cascade")
          /\ With(r, "purge") => Purgeable(W(r), request[r].read)
       THEN /\ Goes(r, [request[r] EXCEPT !.pc = "enumerate", !.todo = BoundTo(W(r))])
            /\ UNCHANGED <<registry, store, authz, trash, book>>
       ELSE Refused(r)

\* trash_owned_by: by the bindings that stand and those the trash keeps, and by
\* the bucket when no other warehouse's binding has the name.
TrashOwnedBy(w, bucket) ==
    LET filed(S)  == {e.name : e \in {x \in trash : x.bound # None /\ x.bound.wh \in S}}
        named(S)  == UNION {BoundTo(v) : v \in S} \cup filed(S)
        here      == named({w})
        elsewhere == named(Warehouses \ {w})
    IN  {e \in trash : e.name \notin elsewhere /\ (e.name \in here \/ e.root = bucket)}

\* _cascade_subtrees and trash_owned_by: all that is to go is listed before
\* anything does.
DeleteEnumerates(r) ==
    /\ At(r, "enumerate")
    /\ LET b == request[r].root
       IN  Goes(r, [request[r] EXCEPT !.pc = "trashed", !.entries = TrashOwnedBy(W(r), b),
                       !.listed = [n \in Names |-> [space |-> spaces[b][n], table |-> tables[b][n]]]])
    /\ UNCHANGED <<registry, store, authz, trash, book>>

DeleteRevokesTrashed(r) ==
    /\ At(r, "trashed") /\ request[r].entries # {}
    /\ LET tabs == {e \in request[r].entries : e.obj.kind = "table"}
       IN  \E e \in IF tabs # {} THEN tabs ELSE request[r].entries :
              \/ /\ Revoked(e.obj)
                 /\ Goes(r, [request[r] EXCEPT !.pc = "forget", !.obj = e.obj])
                 /\ UNCHANGED <<registry, store, admins, tenancy, trash, book>>
              \/ RevokeInterrupted(r, e.obj)

\* _forget_trashed: the trash record goes last.
DeleteForgetsTrashed(r) ==
    /\ At(r, "forget")
    /\ trash' = {e \in trash : e.obj # request[r].obj}
    /\ Goes(r, [request[r] EXCEPT !.pc = "trashed", !.entries = {e \in @ : e.obj # request[r].obj}])
    /\ UNCHANGED <<registry, store, authz, book>>

\* Mutant of DeleteDetaches: the grants of a subtree go before the subtree.
DeleteDetachesUngranted(r) ==
    /\ At(r, "trashed") /\ request[r].entries = {}
    /\ \E n \in request[r].todo :
          Goes(r, [request[r] EXCEPT !.pc = "end subtree", !.name = n,
                                     !.ending = Standing(request[r].listed[n]), !.seen = {}])
    /\ UNCHANGED <<registry, store, authz, trash, book>>

\* _detach_table of what the listing has under the next bound name.
DeleteDetaches(r) ==
    /\ At(r, "trashed") /\ request[r].entries = {}
    /\ \E n \in request[r].todo :
          LET found == request[r].listed[n]
          IN  /\ tables' = IF found.table = None THEN tables
                           ELSE [tables EXCEPT ![request[r].root][n] = None]
              /\ Goes(r, [request[r] EXCEPT !.pc = "delete space", !.name = n, !.found = found])
    /\ UNCHANGED <<registry, buckets, spaces, bytes, minted, authz, trash, book>>

\* The native drop refuses a namespace that is not empty.
DeleteDropsSpace(r) ==
    /\ At(r, "delete space")
    /\ IF Held(r) = None
       THEN /\ SetSpace(r, None)
            /\ Goes(r, [request[r] EXCEPT !.pc = "end subtree",
                           !.ending = Standing(request[r].found), !.seen = {}])
            /\ UNCHANGED <<registry, buckets, tables, bytes, minted, authz, trash, book>>
       ELSE Refused(r)

DeleteUnbinds(r) ==
    /\ At(r, "delete binding") /\ Unbinds(r)
    /\ Goes(r, [request[r] EXCEPT !.pc = "trashed", !.todo = @ \ {N(r)}, !.name = None])

\* Mutant of OrphansOf: what an earlier attempt removed is not looked for.
OrphansOfNone(w) == {}

\* orphaned_children; one this delete has ended itself has no tuple left.
OrphansOf(w) == {e[2] : e \in {x \in edges : x[1] = w}} \ InTrash

DeleteFindsOrphans(r) ==
    /\ At(r, "trashed") /\ request[r].entries = {} /\ request[r].todo = {}
    /\ Goes(r, [request[r] EXCEPT !.pc = "end orphans", !.ending = OrphansOf(W(r)), !.seen = {}])
    /\ UNCHANGED <<registry, store, authz, trash, book>>

\* revoke_removed_object of the warehouse, whose tuples go one write at a time.
DeleteRevokesWarehouse(r) ==
    /\ At(r, "revoke warehouse")
    /\ \/ /\ tenancy' = [tenancy EXCEPT ![W(r)] = {}]
          /\ edges' = {e \in edges : e[1] # W(r)}
          /\ GoesTo(r, "delete record")
          /\ UNCHANGED <<registry, store, admins, grants, trash, book>>
       \/ /\ GivesUp(r)
          /\ \/ tenancy' = [tenancy EXCEPT ![W(r)] = {}] /\ UNCHANGED edges
             \/ edges' = {e \in edges : e[1] # W(r)} /\ UNCHANGED tenancy
          /\ UNCHANGED <<registry, store, admins, grants, trash>>

DeleteRemovesRecord(r) ==
    /\ At(r, "delete record")
    /\ record' = [record EXCEPT ![W(r)] = None]
    /\ IF With(r, "purge") THEN GoesTo(r, "purge") ELSE Ends(r)
    /\ UNCHANGED <<projects, claims, binding, store, authz, trash, book>>

\* purge_bucket: every object of it, the manifest with them.
DeletePurges(r) ==
    /\ At(r, "purge")
    /\ LET b == request[r].root
       IN  /\ buckets' = buckets \ {b}
           /\ spaces' = [spaces EXCEPT ![b] = [n \in Names |-> None]]
           /\ tables' = [tables EXCEPT ![b] = [n \in Names |-> None]]
           /\ bytes' = {x \in bytes : x[1] # b}
    /\ Ends(r)
    /\ UNCHANGED <<registry, minted, authz, trash, book>>

-----------------------------------------------------------------------------

TenantDoors(r) ==
    \/ CreateJudges(r) \/ CreateClaims(r) \/ CreateProvisions(r) \/ CreateRegisters(r) \/ CreateSeeds(r)
    \/ LifecycleReads(r) \/ LifecycleWrites(r)
    \/ ProjectMints(r) \/ ProjectSeeds(r) \/ RetireReads(r) \/ RetireRevokes(r) \/ RetireRemoves(r)

BindingDoors(r) ==
    \/ BindJudges(r) \/ BindCreates(r) \/ BindWrites(r) \/ BindReadsUuid(r) \/ BindSeeds(r) \/ BindSeedFails(r)
    \/ BindTakesBackGrants(r) \/ BindTakesBack(r) \/ BindTakesBackBinding(r)
    \/ UnbindJudges(r) \/ UnbindLists(r) \/ UnbindRemoves(r)

DropDoors(r) ==
    \/ DropReads(r) \/ DropFiles(r) \/ DropDeregisters(r) \/ DropDropsSpace(r) \/ DropFilesSpace(r)
    \/ DropUnbinds(r) \/ DropDestroys(r) \/ DropDestroysSpace(r) \/ DropUnbindsDestroyed(r)
    \/ UndropReads(r) \/ UndropRebinds(r) \/ UndropRebuilds(r) \/ UndropClears(r)
    \/ EndsOne(r) \/ EndsLast(r)

DeleteDoor(r) ==
    \/ DeleteReads(r) \/ DeleteJudges(r) \/ DeleteEnumerates(r) \/ DeleteRevokesTrashed(r)
    \/ DeleteForgetsTrashed(r) \/ DeleteDetaches(r) \/ DeleteDropsSpace(r) \/ DeleteUnbinds(r)
    \/ DeleteFindsOrphans(r) \/ DeleteRevokesWarehouse(r) \/ DeleteRemovesRecord(r) \/ DeletePurges(r)

Next ==
    \/ AsksOn
    \/ \E r \in Requests :
          Begins(r) \/ Stops(r) \/ TenantDoors(r) \/ BindingDoors(r) \/ DropDoors(r) \/ DeleteDoor(r)

Spec == Init /\ [][Next]_vars

-----------------------------------------------------------------------------
(* Properties                                                              *)

\* Two tenants never share storage: the records that name one bucket are of one
\* project. create_warehouse judges it on a listing that two creates may read at
\* once; claim_bucket decides ("two concurrent creates naming one bucket under
\* different projects each scan a listing taken before the other existed").
TenantsStayApart ==
    \A v, w \in Warehouses :
       record[v] # None /\ record[w] # None /\ record[v].bucket = record[w].bucket
          => record[v].project = record[w].project

\* What is asked to change the status of w, or to clear its protection.
SetsStatus(r, w) == At(r, "set") /\ W(r) = w /\ request[r].ask.door = "status"
Unprotects(r, w) ==
    \/ At(r, "set") /\ W(r) = w /\ request[r].ask.door = "protect" /\ ~ With(r, "protected")
    \/ At(r, "register") /\ W(r) = w /\ With(r, "unprotected")

\* A warehouse is activated or deactivated by the doors that say so, and freed of
\* its protection by a request that asks for that, at the protection door or in a
\* create ("false clears it, and a request naming neither leaves it as it
\* stands"): a create repeated over a warehouse that stands, which may have read
\* the record before either was written, carries over what it does not name.
LifecycleIsKept ==
    [][\A w \in Warehouses : record[w] # None /\ record'[w] # None =>
          /\ record'[w].status # record[w].status => \E r \in Requests : SetsStatus(r, w)
          /\ record[w].protected /\ ~ record'[w].protected => \E r \in Requests : Unprotects(r, w)]_vars

\* What a binding leads to: the namespace of the name in its bucket, and its table.
Reached ==
    {spaces[binding[n].root][n] : n \in {m \in Names : binding[m] # None}} \cup
    {tables[binding[n].root][n] : n \in {m \in Names : binding[m] # None}}

\* An object that stands, can be reached and has its grants loses them at no door: a
\* grant goes after its object (end_removed_subtree, "run only once every object
\* in the subtree is gone"), whatever part of a delete failed before, unless its
\* own create takes it back or a drop has filed it in the trash.
StandingKeepsGrants ==
    [][request' # request => \A o \in (Reached \cap Reached') \ (InTrash \cup {None}) :
          /\ On(o) # {}
          /\ \A r \in Requests : ~ (At(r, "take back grants") /\ request[r].obj = o)
          => \E g \in grants' : g[1] = o]_vars

\* A warehouse's project edge is its record's (seed_warehouse after upsert_warehouse).
EdgesFollowRecords ==
    \A w \in Warehouses : record[w] # None => tenancy[w] \subseteq {record[w].project}

\* The record of a warehouse goes last: when it is gone, so is everything kept
\* for it - its project edge, its bindings, the tuples of what it held, the
\* edges to them and the trash it could be recovered from - however often the
\* delete was stopped and asked again.
GoneLeavesNothing ==
    \A w \in Warehouses : record[w] = None =>
       /\ tenancy[w] = {} /\ BoundTo(w) = {}
       /\ \A g \in grants : g[2] # w
       /\ \A e \in edges : e[1] # w
       /\ \A e \in trash : e.bound # None => e.bound.wh # w

\* A table in the trash can be recovered, and one a binding leads to can be
\* read: their bytes are there while the record, or the binding, is. The purge
\* of a bucket spares what a sibling warehouse keeps in it.
TablesHaveBytes ==
    /\ \A e \in trash : e.obj.kind = "table" => <<e.root, e.obj>> \in bytes
    /\ \A n \in Names : binding[n] # None =>
           LET t == tables[binding[n].root][n] IN t # None => <<binding[n].root, t>> \in bytes

=============================================================================

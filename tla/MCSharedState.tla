--------------------------- MODULE MCSharedState ---------------------------
(***************************************************************************)
(* What the catalog's requests share, one at a time: the records of the    *)
(* estate (Warehouses), the same records beside the reconcile tick         *)
(* (DriftReport), the record of an idempotency key (KeyedDoors), and a     *)
(* process's view of the tables' turn records (SharedReads).               *)
(***************************************************************************)
EXTENDS MCWarehouses, DriftReport, KeyedDoors, SharedReads, TLC

\* A request and its retries under one key, and two operations under one.
CONSTANTS a1, a2, a3, drop, rename

\* The parts a run is about.
CONSTANTS Parts

VARIABLE part  \* what is shared: "estate", "drift", "key", "view"

ticked == <<tick, stood, drift>>

\* An estate drifted already: a tenant, a warehouse and a table gone with their
\* tuples left, a bucket nobody claims and a binding that leads nowhere.
DriftedEstate == [One EXCEPT !.projects = {p1}, !.buckets = @ \cup {b2}, !.tenancy[w2] = {p2}, !.minted = 3,
                             !.binding[n2] = [wh |-> w2, root |-> b2], !.grants = @ \cup {<<Tab(3), Ns(1)>>}]

\* A tenant whose admin tuple was lost and whose warehouse was never seeded.
StrandedEstate == [One EXCEPT !.projects = {p1}, !.admins = {}, !.tenancy[w1] = {}]

\* One tenant, whose table was dropped: its record is in the trash.
Trashed == [One EXCEPT !.projects = {p1}, !.admins = {p1}, !.tables[b1][n1] = None,
               !.trash = {[obj |-> Tab(2), name |-> n1, root |-> b1, bound |-> None, cascade |-> Ns(1), term |-> "running"]}]

\* The grace period of that drop is over; the namespace went with the table; and
\* an undrop of both was stopped before it cleared either record.
Filed(o, t) == [obj |-> o, name |-> n1, root |-> IF o.kind = "table" THEN b1 ELSE None,
                bound |-> IF o.kind = "table" THEN None ELSE [wh |-> w1, root |-> b1], cascade |-> Ns(1), term |-> t]
Expired  == [Trashed EXCEPT !.trash = {Filed(Tab(2), "over")}]
BothGone == [Expired EXCEPT !.trash = {Filed(Tab(2), "over"), Filed(Ns(1), "over")}, !.spaces[b1][n1] = None, !.binding[n1] = None]
Restored == [One EXCEPT !.projects = {p1}, !.admins = {p1}, !.trash = {Filed(Tab(2), "over"), Filed(Ns(1), "over")}]

\* The record of a table of a warehouse that is gone, with its bytes and without.
Left(there) ==
    [Bare EXCEPT !.projects = {p1}, !.admins = {p1}, !.buckets = {b0, b1}, !.minted = 2, !.bytes = there,
               !.trash = {[obj |-> Tab(2), name |-> n1, root |-> b1, bound |-> None, cascade |-> Ns(1), term |-> "running"]}]

Alone == [One EXCEPT !.projects = {p1}, !.admins = {p1}]

OfferedTicks ==
    {Offer(DriftedEstate, <<{}>>, 1),
     Offer(StrandedEstate, <<{Project(p1)}>>, 1),
     Offer(Trashed, <<{}>>, 1), Offer(Left({<<b1, Tab(2)>>}), <<{}>>, 1), Offer(Left({}), <<{}>>, 1),
     Offer(Expired, <<{Delete(w1, {"cascade"})}>>, 0), Offer(Restored, <<{}>>, 1),
     Offer(BothGone, <<{}>>, 1), Offer(BothGone, <<{Undrop(n1)}, {Bind(w1, n1, {})}>>, 0),
     Offer(Alone, <<{Drop(n1, {})}>>, 1), Offer(Alone, <<{Delete(w1, {"cascade"})}>>, 0),
     Offer(Alone, <<{Create(p1, w2, b2, {})}>>, 0), Offer(Alone, <<{Project(p2)}>>, 0)}

\* Nothing is asked of the estate while a key or a view is looked at.
Quiet == Offer(Bare, <<{}>>, 0)
MCOffers == OfferedDoors \cup OfferedTicks \cup {Quiet}

Among(offers) == \E o \in offers : StartsFrom(o)

\* The first request and the third are of one operation, the second of it or of another.
MCNamings == {[a \in {a1, a2, a3} |-> IF a = a2 THEN e ELSE drop] : e \in {drop, rename}}

MCInit ==
    /\ KeyInit /\ ViewInit /\ part \in Parts
    /\ tick = NoTick /\ stood = {} /\ drift = {}
    /\ \/ part = "estate" /\ Among(OfferedDoors) /\ names[a2] = drop
       \/ part = "drift" /\ Among(OfferedTicks) /\ names[a2] = drop
       \/ part = "key" /\ Among({Quiet})
       \/ part = "view" /\ Among({Quiet}) /\ names[a2] = drop

MCNext ==
    /\ UNCHANGED part
    /\ \/ part = "estate" /\ Next /\ UNCHANGED <<ticked, keyVars, viewVars>>
       \/ part = "drift" /\ DriftNext /\ UNCHANGED <<keyVars, viewVars>>
       \/ part = "key" /\ KeyNext /\ UNCHANGED <<vars, ticked, viewVars>>
       \/ part = "view" /\ ViewNext /\ UNCHANGED <<vars, ticked, keyVars>>

MCSpec == MCInit /\ [][MCNext]_<<part, vars, ticked, keyVars, viewVars>>

\* Waiters are alike, and so are writers, and the two attempts that name one operation.
AlikeThreads == Permutations(Waiters) \cup Permutations(Writers) \cup Permutations({a1, a3})

\* A warehouse that is gone leaves nothing of it, one that stands is its record's
\* project's, and the tables that stand or can be recovered have their bytes
\* (Warehouses; the doors of an estate that begins whole).
EstateStaysWhole == part = "estate" => GoneLeavesNothing /\ EdgesFollowRecords /\ TablesHaveBytes
=============================================================================

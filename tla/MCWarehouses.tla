---------------------------- MODULE MCWarehouses ----------------------------
(* The estates and the requests Warehouses is model-checked on.            *)
EXTENDS Warehouses

CONSTANTS p1, p2, w1, w2, b0, b1, b2, n1, n2
NoSpaces == [b \in Buckets |-> [n \in Names |-> None]]
Ns(u)  == [uuid |-> u, kind |-> "namespace"]
Tab(u) == [uuid |-> u, kind |-> "table"]
Rec(p, b) == [project |-> p, bucket |-> b, status |-> "active", protected |-> FALSE]

\* No warehouse yet.
Bare == [projects |-> {p1, p2}, admins |-> {p1, p2}, trash |-> {}, record |-> [w \in Warehouses |-> None], claims |-> [b \in Buckets |-> None],
         binding |-> [n \in Names |-> None], buckets |-> {b0}, spaces |-> NoSpaces, tables |-> NoSpaces,
         bytes |-> {}, minted |-> 0, tenancy |-> [w \in Warehouses |-> {}], grants |-> {}, edges |-> {}]

\* One warehouse with a namespace and its table.
One == [Bare EXCEPT !.record[w1] = Rec(p1, b1), !.claims[b1] = p1, !.buckets = {b0, b1}, !.tenancy[w1] = {p1},
                    !.binding[n1] = [wh |-> w1, root |-> b1], !.spaces[b1][n1] = Ns(1), !.tables[b1][n1] = Tab(2),
                    !.bytes = {<<b1, Tab(2)>>}, !.minted = 2,
                    !.grants = {<<Ns(1), w1>>, <<Tab(2), Ns(1)>>}, !.edges = {<<w1, Ns(1)>>, <<Ns(1), Tab(2)>>}]

\* The same, protected.
Guarded == [One EXCEPT !.record[w1].protected = TRUE]

\* A second warehouse on the first one's bucket, with a namespace and a table.
Two == [One EXCEPT !.record[w2] = Rec(p1, b1), !.tenancy[w2] = {p1},
                   !.binding[n2] = [wh |-> w2, root |-> b1], !.spaces[b1][n2] = Ns(3), !.tables[b1][n2] = Tab(4),
                   !.bytes = @ \cup {<<b1, Tab(4)>>}, !.minted = 4,
                   !.grants = @ \cup {<<Ns(3), w2>>, <<Tab(4), Ns(3)>>},
                   !.edges = @ \cup {<<w2, Ns(3)>>, <<Ns(3), Tab(4)>>}]

\* A namespace bound to no warehouse beside the first one.
Shared == [One EXCEPT !.spaces[b0][n2] = Ns(3), !.tables[b0][n2] = Tab(4), !.bytes = @ \cup {<<b0, Tab(4)>>}, !.minted = 4,
                      !.grants = @ \cup {<<Ns(3), b0>>, <<Tab(4), Ns(3)>>},
                      !.edges = @ \cup {<<b0, Ns(3)>>, <<Ns(3), Tab(4)>>}]

A(door, p, w, b, n, flags) == [door |-> door, project |-> p, wh |-> w, bucket |-> b, name |-> n, flags |-> flags]

Create(p, w, b, f) == A("create", p, w, b, None, f)
Status(w, f)  == A("status", None, w, None, None, f)
Protect(w, f) == A("protect", None, w, None, None, f)
Bind(w, n, f) == A("bind", None, w, None, n, f)
Unbind(w, n)  == A("unbind", None, w, None, n, {})
Drop(n, f)    == A("drop", None, None, None, n, f)
Undrop(n)     == A("undrop", None, None, None, n, {})
Delete(w, f)  == A("delete", None, w, None, None, f)
Project(p)    == A("project", p, None, None, None, {})
Retire(p)     == A("retire", p, None, None, None, {})

Offer(world, asks, n) == [world |-> world, asks |-> asks, faults |-> n]

OfferedDoors ==
    {\* Two tenants ask for one bucket and one warehouse at once.
     Offer(Bare, <<{Create(p1, w1, b1, {}), Create(p2, w1, b2, {}), Create(p2, w2, b1, {})}>>, 1),
     \* A create repeated beside the lifecycle doors, arming the protection and
     \* clearing it, or naming neither while it is armed.
     Offer(One, <<{Create(p1, w1, b1, {"protected"}), Status(w1, {}), Protect(w1, {})}, {Status(w1, {"active"})}>>, 1),
     Offer(Guarded, <<{Create(p1, w1, b1, {}), Create(p1, w1, b1, {"unprotected"}), Protect(w1, {"protected"}), Status(w1, {})}>>, 1),
     \* A tenant whose last warehouse goes.
     Offer(One, <<{Bind(w1, n2, {}), Protect(w1, {"protected"})}, {Unbind(w1, n2), Unbind(w1, n1)},
                  {Delete(w1, {"cascade"})}, {Delete(w1, {"cascade", "force"})}, {Retire(p1), Retire(p2)}, {Project(p1)}>>, 1),
     \* A namespace bound twice, then its warehouse deleted.
     Offer(One, <<{Bind(w1, n2, {}), Bind(w1, n2, {"adopt"})}, {Delete(w1, {"cascade"})}>>, 2),
     \* Two deletes at once of a warehouse whose bucket another shares.
     Offer(Two, <<{Delete(w1, {"cascade"}), Delete(w1, {"cascade", "purge"})}, {Delete(w2, {"cascade", "purge"})}>>, 2),
     \* A drop, its undrop and the purging drop, and the delete after them.
     Offer(Two, <<{Drop(n1, {})}, {Undrop(n1)}, {Drop(n1, {"purge"})}, {Delete(w1, {"cascade"})}, {Undrop(n1)},
                  {Delete(w2, {"cascade", "purge"})}>>, 2),
     \* The name of a namespace in the trash is taken, given up and recovered.
     Offer(One, <<{Drop(n1, {})}, {Bind(w1, n1, {})}, {Undrop(n1), Unbind(w1, n1)}, {Delete(w1, {"cascade", "purge"})}>>, 2),
     Offer(One, <<{Drop(n1, {})}, {Status(w1, {})}, {Undrop(n1)}, {Delete(w1, {})}>>, 1),
     \* A namespace dropped twice at once, and one name bound to two warehouses.
     Offer(Two, <<{Drop(n1, {}), Drop(n1, {"force"})}, {Bind(w1, n1, {}), Bind(w2, n1, {"adopt"})}>>, 1),
     \* A delete beside the lifecycle doors.
     Offer(One, <<{Delete(w1, {"cascade"}), Status(w1, {}), Protect(w1, {"protected"})}>>, 1),
     \* A namespace of the estate's own bucket.
     Offer(Shared, <<{Drop(n2, {})}, {Undrop(n2)}, {Bind(w1, n2, {}), Drop(n2, {"purge"})}>>, 1)}

=============================================================================

---------------------------- MODULE MCAccessDoors ----------------------------
(* The tuples and the requests AccessDoors is model-checked on.            *)
EXTENDS Naturals, TLC

CONSTANTS ann, bob, cat, root, entry, upper, proj, other, depot, leaf, readers, writers, Everyone, None

Titles == (entry :> readers) @@ (upper :> writers)
Ancestry == (depot :> {depot}) @@ (leaf :> {leaf, depot})

Is(door, c, s, rel, on) == [door |-> door, caller |-> c, subject |-> s, rel |-> rel, on |-> on]

NoRecords == [n \in {readers, writers} |-> None]
Both == (readers :> [role |-> entry, ended |-> FALSE]) @@ (writers :> [role |-> upper, ended |-> FALSE])
Edges == {<<proj, "project", entry>>, <<proj, "project", upper>>, <<cat, "admin", other>>}

Offer(T, rec, menu, width, length, n, lone) ==
    [tuples |-> T, record |-> rec, menu |-> menu, width |-> width, length |-> length, faults |-> n, lone |-> lone]

Grants(c) == {Is("grant", c, s, rel, o) : s \in {c, entry, upper}, rel \in {"owner", "reader"}, o \in {depot, leaf}}
Fills(c)  == {Is(d, c, s, "assignee", x) : d \in {"assign", "unassign"}, s \in {c, entry}, x \in {entry, upper}}
Manages(c) == {Is(d, c, None, "managed_access", depot) : d \in {"managed", "unmanaged"}}

\* Everything one caller may ask, one request after another.
Alone(T) == Offer(T \cup Edges, Both,
                  Grants(ann) \cup Fills(ann) \cup Manages(ann) \cup {Is("revoke", ann, entry, "owner", leaf),
                     Is("member", ann, ann, "member", proj), Is("end_role", ann, None, None, entry)}, 1, 4, 0, ann)

Mixes ==
    {\* The admins of a project revoked, offboarded and ended at once.
     Offer({<<ann, "admin", proj>>, <<bob, "admin", proj>>, <<upper, "admin", proj>>, <<bob, "assignee", upper>>} \cup Edges, Both,
           {Is("unmember", ann, bob, "admin", proj), Is("unmember", bob, ann, "admin", proj), Is("offboard", root, ann, None, None),
            Is("end_role", ann, None, None, upper), Is("unassign", ann, bob, "assignee", upper)}, 3, 3, 1, None),
     Offer({<<ann, "admin", proj>>, <<bob, "assignee", entry>>} \cup Edges, Both,
           {Is("member", ann, bob, "admin", proj), Is("member", ann, entry, "admin", proj), Is("unmember", ann, ann, "admin", proj),
            Is("unmember", bob, entry, "admin", proj), Is("end_role", ann, None, None, entry), Is("offboard", root, bob, None, None)}, 2, 4, 1, None),
     \* Roles made under a name, filled and granted, while one ends.
     Offer({<<ann, "security_admin", proj>>, <<bob, "admin", proj>>, <<cat, "admin", other>>}, NoRecords,
           {Is("create_role", ann, None, None, entry), Is("assign", ann, bob, "assignee", entry), Is("end_role", ann, None, None, entry),
            Is("write", root, ann, "role_creator", proj), Is("delete", root, ann, "role_creator", proj),
            Is("unmember", bob, cat, "member", proj), Is("member", bob, cat, "member", proj)}, 2, 3, 1, None),
     \* One who administers access and reads nothing; a delegate; a role's own administrator.
     Alone({<<bob, "admin", proj>>, <<ann, "manage_grants", leaf>>, <<ann, "security_admin", proj>>, <<ann, "assignee", entry>>}),
     Alone({<<bob, "admin", proj>>, <<ann, "reader", depot>>, <<ann, "pass_grants", leaf>>, <<ann, "pass_grants", depot>>, <<ann, "security_admin", proj>>,
            <<entry, "assignee", upper>>, <<upper, "writer", leaf>>}),
     Alone({<<bob, "admin", proj>>, <<ann, "owner", leaf>>, <<Everyone, "managed_access", depot>>, <<ann, "manage_grants", depot>>,
            <<ann, "security_admin", proj>>, <<upper, "owner", depot>>})}

\* The last two assignees of a project's only admin, a role, removed at once.
SoleRole == {Offer({<<upper, "admin", proj>>, <<ann, "assignee", upper>>, <<bob, "assignee", upper>>} \cup Edges, Both,
                   {Is("unassign", bob, ann, "assignee", upper), Is("unassign", ann, bob, "assignee", upper)}, 2, 2, 0, None)}

\* Nobody asks for anything.
Nothing == Offer({<<ann, "admin", proj>>} \cup Edges, Both, {}, 0, 0, 0, None)
=============================================================================

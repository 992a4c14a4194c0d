----------------------------- MODULE AccessDoors -----------------------------
(***************************************************************************)
(* Who may do what, and the doors that change it: the per-object grants,   *)
(* a project's members, its roles and their assignees, offboarding and the *)
(* raw tuple door of the estate.  The authorization store (OpenFGA) holds  *)
(* relationship tuples; a request reads it, judges, and writes, and other  *)
(* requests write in between.  Two promises rest on that store alone: a    *)
(* project keeps a direct admin whatever is revoked at once, and nobody    *)
(* raises their own access.                                                *)
(*                                                                         *)
(* A subject is a user or a role (standing for role#assignee, its users).  *)
(* The rungs validator, maintainer and classifier are granted exactly as   *)
(* writer is and are left out, as are conditions, audit rows and events.   *)
(***************************************************************************)
EXTENDS Naturals, FiniteSets

CONSTANTS Users, Roles, Projects, Items, Names,
          RoleProject,   \* the project a role is minted in
          RoleName,      \* and the name it asks for
          TenantOf,      \* the project an item belongs to, by the registry
          AtOrAbove,     \* an item and the items it inherits from
          Tops,          \* the items directly under a project (warehouses)
          EstateAdmins,  \* hold can_observe_events on the estate
          Declared,      \* principals whose grants git declares
          Everyone,      \* the wildcard subject of managed access
          None,
          Requests,      \* how many requests the services serve at once
          Offers         \* the worlds and asks a behaviour starts from

VARIABLES tuples,    \* the relationship tuples <<subject, relation, object>>
          revision,  \* each project's admin_revision tuple, 0 before the first
          record,    \* the role record under each name: its role, and whether it stands
          req,       \* the requests being served
          faults,    \* how many outages are left
          left,      \* how many requests are still to come
          offer      \* what this behaviour was offered

vars == <<tuples, revision, record, req, faults, left, offer>>

ADMIN_REVOKE_READS == 2

Subjects == Users \cup Roles
Doors == {"grant", "revoke", "managed", "unmanaged", "member", "unmember", "create_role", "end_role",
          "assign", "unassign", "offboard", "write", "delete"}
Relations == {"owner", "writer", "reader", "manage_grants", "pass_grants", "managed_access",
              "admin", "member", "security_admin", "role_creator", "assignee", "project"}

Idle == [pc |-> "idle"]

---------------------------------------------------------------------------
(* What the tuples grant: the authorization model.                         *)

\* The users in a role, through roles assigned to it.
InsideIn(T, r) ==
    LET in[n \in 0..Cardinality(Roles)] ==
            [q \in Roles |->
                IF n = 0 THEN {u \in Users : <<u, "assignee", q>> \in T}
                ELSE UNION {in[n - 1][s] : s \in {q} \cup {x \in Roles : <<x, "assignee", q>> \in T}}]
    IN in[Cardinality(Roles)][r]

DirectIn(T, u, rel, o) ==
    \E s \in Subjects : <<s, rel, o>> \in T /\ (s = u \/ (s \in Roles /\ u \in InsideIn(T, s)))

AdminIn(T, u, p)         == DirectIn(T, u, "admin", p)
SecurityAdminIn(T, u, p) == DirectIn(T, u, "security_admin", p) \/ AdminIn(T, u, p)

\* A rung held on an item or inherited from one above it.
Inherited(T, u, rel, o) == \E a \in AtOrAbove[o] : DirectIn(T, u, rel, a)

OwnerIn(T, u, o)  == Inherited(T, u, "owner", o) \/ AdminIn(T, u, TenantOf[o])
WriterIn(T, u, o) == Inherited(T, u, "writer", o) \/ OwnerIn(T, u, o)
ReaderIn(T, u, o) == \/ Inherited(T, u, "reader", o)
                     \/ WriterIn(T, u, o)
                     \/ DirectIn(T, u, "member", TenantOf[o])

\* managed_access_inheritance: a warehouse's own mark, or one strictly above.
ManagedIn(T, o) ==
    \E a \in (IF o \in Tops THEN {o} ELSE AtOrAbove[o] \ {o}) : <<Everyone, "managed_access", a>> \in T

ManageGrantsIn(T, u, o) ==
    \/ AdminIn(T, u, TenantOf[o])
    \/ \E a \in AtOrAbove[o] : DirectIn(T, u, "manage_grants", a) \/ (OwnerIn(T, u, a) /\ ~ManagedIn(T, a))

PassGrantsIn(T, u, o) == DirectIn(T, u, "pass_grants", o) /\ ~ManagedIn(T, o)

RungIn(T, u, rel, o) ==
    CASE rel = "owner" -> OwnerIn(T, u, o)
      [] rel = "writer" -> WriterIn(T, u, o)
      [] rel = "reader" -> ReaderIn(T, u, o)
      [] rel = "manage_grants" -> ManageGrantsIn(T, u, o)
      [] rel = "pass_grants" -> PassGrantsIn(T, u, o)

\* can_grant_<rel> on an item.
CanGrant(u, rel, o) ==
    \/ ManageGrantsIn(tuples, u, o)
    \/ rel \in {"writer", "reader"} /\ RungIn(tuples, u, rel, o) /\ PassGrantsIn(tuples, u, o)

\* The project a role's edge names; its gates resolve through it.
EdgeOf(r) == {p \in Projects : <<p, "project", r>> \in tuples}

Admins(p) == {s \in Subjects : <<s, "admin", p>> \in tuples}
Assigned(r) == {s \in Subjects : <<s, "assignee", r>> \in tuples}

Standing(r) == record[RoleName[r]] = [role |-> r, ended |-> FALSE]

---------------------------------------------------------------------------
(* Requests.                                                               *)

InFlight == {i \in Requests : req[i] # Idle}

Goes(i, pc) == req' = [req EXCEPT ![i].pc = pc]
Ends(i)     == req' = [req EXCEPT ![i] = Idle]
At(i, pc)   == req[i].pc = pc
Ask(i)      == req[i].ask

Quiet == UNCHANGED <<left, offer, faults>>
StoreKept == UNCHANGED <<tuples, revision, record>>

\* A step that only reads: it goes on, or refuses and ends.
Judges(i, holds, next) ==
    /\ IF holds THEN Goes(i, next) ELSE Ends(i)
    /\ StoreKept /\ Quiet

\* A Write whose answer is lost may have landed; the request ends unavailable.
Writes(i, T, next) ==
    /\ UNCHANGED <<revision, record, left, offer>>
    /\ \/ tuples' = T /\ next /\ UNCHANGED faults
       \/ faults > 0 /\ faults' = faults - 1 /\ tuples' = T /\ Ends(i)

\* OpenFGA or the pod stops answering before the request's next call.
Outage(i) ==
    /\ req[i] # Idle /\ faults > 0
    /\ faults' = faults - 1
    /\ Ends(i) /\ StoreKept /\ UNCHANGED <<left, offer>>

First(door) ==
    CASE door \in {"grant", "revoke", "managed", "unmanaged"} -> "authority"
      [] door \in {"member", "unmember"} -> "member_gate"
      [] door = "create_role" -> "create_gate"
      [] door \in {"end_role", "assign", "unassign"} -> "role_gate"
      [] door = "offboard" -> "naming"
      [] door \in {"write", "delete"} -> "write"

\* The estate's doors judge the caller, and an offboarding its principal,
\* before any read the other steps wait on.
Admitted(a) ==
    /\ a.door \in {"offboard", "write", "delete"} => a.caller \in EstateAdmins
    /\ a.door = "offboard" => a.subject \notin Declared \cup {a.caller}

Asks(i) ==
    /\ req[i] = Idle /\ i = (CHOOSE j \in Requests : req[j] = Idle) /\ left > 0 /\ Cardinality(InFlight) < offer.width
    /\ \E a \in {x \in offer.menu : Admitted(x)} :
          req' = [req EXCEPT ![i] = [ask |-> a, pc |-> First(a.door), todo |-> {}, cur |-> None,
                                     assigned |-> {}, view |-> None, tries |-> 0]]
    /\ left' = left - 1
    /\ StoreKept /\ UNCHANGED <<faults, offer>>

---------------------------------------------------------------------------
(* The grant and revoke doors of an object, and its managed access.        *)

Authority(i) ==
    /\ At(i, "authority")
    /\ LET a == Ask(i) IN
       Judges(i, IF a.door = "grant" THEN CanGrant(a.caller, a.rel, a.on) ELSE ManageGrantsIn(tuples, a.caller, a.on),
              CASE a.door = "grant" -> "self"
                [] a.door = "revoke" -> "write"
                [] OTHER -> "managed_read")

\* Mutant of Reaches: only the caller's own name is looked at.
ReachesByName(a) == a.subject = a.caller

\* Whether the grant would reach its caller: named, or inside the role named.
Reaches(a) == a.subject = a.caller \/ (a.subject \in Roles /\ a.caller \in InsideIn(tuples, a.subject))

\* refuse_self_elevation asks whether the grant reaches the caller, and then
\* whether the caller holds the rung already.
SelfJudged(i) ==
    /\ At(i, "self")
    /\ Goes(i, IF Reaches(Ask(i)) THEN "already" ELSE IF Ask(i).door = "grant" THEN "tenant" ELSE "assignees")
    /\ StoreKept /\ Quiet

AlreadyHeld(i) ==
    /\ At(i, "already")
    /\ LET a == Ask(i) IN
       IF a.door = "grant"
       THEN Judges(i, RungIn(tuples, a.caller, a.rel, a.on), "tenant")
       ELSE Judges(i, a.caller \in InsideIn(tuples, a.on), "assignees")

\* A role one tenant owns is granted nothing on another tenant's object.
TenantJudged(i) ==
    /\ At(i, "tenant")
    /\ LET a == Ask(i)
           target == IF a.on \in Items THEN TenantOf[a.on] ELSE a.on
           owners == IF a.subject \in Roles THEN EdgeOf(a.subject) ELSE {}
       IN Judges(i, owners = {} \/ target \in owners, IF a.on \in Items THEN "write" ELSE "member_read")

Named(a) == <<a.subject, a.rel, a.on>>

\* write_tuples and delete_tuples of one tuple: present or absent is success.
WritesTuple(i) ==
    /\ At(i, "write")
    /\ LET a == Ask(i) IN
       Writes(i, IF a.door \in {"grant", "write", "member", "assign"} THEN tuples \cup {Named(a)} ELSE tuples \ {Named(a)}, Ends(i))

\* _set_managed_access writes only what is not there yet.
ManagedRead(i) ==
    /\ At(i, "managed_read")
    /\ LET a == Ask(i)
           already == <<Everyone, "managed_access", a.on>> \in tuples
       IN Judges(i, already = (a.door = "unmanaged"), "managed_write")

ManagedWrite(i) ==
    /\ At(i, "managed_write")
    /\ LET a == Ask(i)
           mark == <<Everyone, "managed_access", a.on>>
       IN Writes(i, IF a.door = "managed" THEN tuples \cup {mark} ELSE tuples \ {mark}, Ends(i))

---------------------------------------------------------------------------
(* A project's members.                                                    *)

\* can_grant_admin and can_grant_member are both the project's admins'.
MemberGate(i) ==
    /\ At(i, "member_gate")
    /\ Judges(i, AdminIn(tuples, Ask(i).caller, Ask(i).on), IF Ask(i).door = "member" THEN "tenant" ELSE "member_read")

\* What the door finds: nothing to do, a tuple to write or delete, or an admin
\* to revoke under the store's arbitration.
MemberRead(i) ==
    /\ At(i, "member_read")
    /\ LET a == Ask(i) IN
       IF a.door = "unmember" /\ a.rel = "admin"
       THEN /\ req' = [req EXCEPT ![i].pc = "revoking", ![i].todo = {Named(a)}]
            /\ StoreKept /\ Quiet
       ELSE Judges(i, (Named(a) \in tuples) = (a.door = "unmember"), "write")

---------------------------------------------------------------------------
(* Revoking tuples naming a subject: a project's admin and a role's        *)
(* assignee each judged on reads and committed by the store only if the    *)
(* project's admin_revision is the one read.                               *)

IsAdmin(t)    == t[2] = "admin" /\ t[3] \in Projects
IsAssignee(t) == t[2] = "assignee" /\ t[3] \in Roles

\* Admins first, then assignments, then the rest.
NextToRevoke(todo) ==
    LET admins == {t \in todo : IsAdmin(t)}
        assignments == {t \in todo : IsAssignee(t)}
    IN IF admins # {} THEN admins ELSE IF assignments # {} THEN assignments ELSE todo

Revokes(i) ==
    /\ At(i, "revoking") /\ req[i].todo # {}
    /\ \E t \in NextToRevoke(req[i].todo) :
          req' = [req EXCEPT ![i].cur = t,
                             ![i].pc = IF IsAdmin(t) THEN "admin_read" ELSE IF IsAssignee(t) THEN "role_read" ELSE "remove"]
    /\ StoreKept /\ Quiet

\* The tuple at hand is gone: go on to the next.
Revoked(i) == req' = [req EXCEPT ![i].todo = @ \ {req[i].cur}, ![i].pc = "revoking", ![i].cur = None,
                                 ![i].assigned = {}, ![i].view = None, ![i].tries = 0]

View(p) == [admins |-> Admins(p), revision |-> revision[p]]

\* sole_admin
Sole(view, s) == view.admins = {s}

AdminRead(i) ==
    /\ At(i, "admin_read")
    /\ LET s == req[i].cur[1]  p == req[i].cur[3] IN
       IF s \notin Admins(p) THEN Revoked(i)
       ELSE IF Sole(View(p), s) THEN Ends(i)
       ELSE req' = [req EXCEPT ![i].pc = "commit", ![i].view = View(p)]
    /\ StoreKept /\ Quiet

\* The role's edge and assignees are one read, its project's tuples the next.
RoleRead(i) ==
    /\ At(i, "role_read")
    /\ LET s == req[i].cur[1]  r == req[i].cur[3] IN
       IF s \notin Assigned(r) THEN Revoked(i)
       ELSE IF EdgeOf(r) = {} THEN Goes(i, "remove")
       ELSE req' = [req EXCEPT ![i].pc = "project_read", ![i].assigned = Assigned(r)]
    /\ StoreKept /\ Quiet

ProjectRead(i) ==
    /\ At(i, "project_read")
    /\ LET s == req[i].cur[1]  r == req[i].cur[3]  p == RoleProject[r] IN
       IF r \notin Admins(p) THEN Goes(i, "remove")
       ELSE IF req[i].assigned = {s} /\ Sole(View(p), r) THEN Ends(i)
       ELSE req' = [req EXCEPT ![i].pc = "commit", ![i].view = View(p), ![i].assigned = {}]
    /\ StoreKept /\ Quiet

ArbiterOf(t) == IF IsAdmin(t) THEN t[3] ELSE RoleProject[t[3]]

\* Mutant of CommitsUnlessChanged: the Write does not move the revision.
CommitsRegardless(i) == req[i].cur \in tuples

\* commit_unless_changed: the store refuses the Write whole once the tuple is
\* gone or another change moved the revision.
CommitsUnlessChanged(i) == req[i].cur \in tuples /\ revision[ArbiterOf(req[i].cur)] = req[i].view.revision

Commit(i) ==
    /\ At(i, "commit")
    /\ LET t == req[i].cur  p == ArbiterOf(t) IN
       \/ /\ CommitsUnlessChanged(i)
          /\ tuples' = tuples \ {t}
          /\ revision' = [revision EXCEPT ![p] = @ + 1]
          /\ \/ Revoked(i) /\ UNCHANGED faults
             \/ faults > 0 /\ faults' = faults - 1 /\ Ends(i)
       \/ /\ ~CommitsUnlessChanged(i)
          /\ IF req[i].tries + 1 < ADMIN_REVOKE_READS
             THEN req' = [req EXCEPT ![i].tries = @ + 1, ![i].view = None, ![i].pc = IF IsAdmin(t) THEN "admin_read" ELSE "role_read"]
             ELSE Ends(i)
          /\ UNCHANGED <<tuples, revision, faults>>
    /\ UNCHANGED <<record, left, offer>>

\* delete_tuples deletes one tuple per Write; one already gone is success.
Remove(i) ==
    /\ At(i, "remove")
    /\ Writes(i, tuples \ {req[i].cur}, Revoked(i))

\* All are revoked: the door that asked goes on.
RevokedAll(i) ==
    /\ At(i, "revoking") /\ req[i].todo = {}
    /\ IF Ask(i).door = "end_role" THEN Goes(i, "on_it") ELSE Ends(i)
    /\ StoreKept /\ Quiet

---------------------------------------------------------------------------
(* Ending a subject: a principal offboarded, or a role deleted.            *)

NamingOf(s) == {t \in tuples : t[1] = s /\ t[2] # "project"}

Ended(i) == IF Ask(i).door = "end_role" THEN Ask(i).on ELSE Ask(i).subject

\* tuples_naming reads every type; a project this would strand refuses it
\* before anything is revoked, on one read of each tuple's project.
Naming(i) ==
    /\ At(i, "naming")
    /\ req' = [req EXCEPT ![i].todo = NamingOf(Ended(i)), ![i].pc = "stranding"]
    /\ StoreKept /\ Quiet

Strands(s, t) ==
    \/ IsAdmin(t) /\ Sole(View(t[3]), s)
    \/ /\ IsAssignee(t) /\ EdgeOf(t[3]) # {} /\ Assigned(t[3]) = {s}
       /\ Sole(View(RoleProject[t[3]]), t[3])

Stranding(i) ==
    /\ At(i, "stranding")
    /\ Judges(i, \A t \in req[i].todo : ~Strands(Ended(i), t), "revoking")

\* end_role, once nothing names the role: its assignees, then its record, then
\* its edge, so that an ending stopped half-way can be asked again.
OnIt(i) ==
    /\ At(i, "on_it")
    /\ req' = [req EXCEPT ![i].todo = {t \in tuples : t[3] = Ask(i).on /\ t[2] # "project"}, ![i].pc = "emptying"]
    /\ StoreKept /\ Quiet

Empties(i) ==
    /\ At(i, "emptying")
    /\ IF req[i].todo = {}
       THEN Goes(i, "end_record") /\ StoreKept /\ Quiet
       ELSE \E t \in req[i].todo : Writes(i, tuples \ {t}, req' = [req EXCEPT ![i].todo = @ \ {t}])

EndsRecord(i) ==
    /\ At(i, "end_record")
    /\ record' = IF Standing(Ask(i).on) THEN [record EXCEPT ![RoleName[Ask(i).on]].ended = TRUE] ELSE record
    /\ Goes(i, "edge_gone")
    /\ UNCHANGED <<tuples, revision>> /\ Quiet

EdgeGone(i) ==
    /\ At(i, "edge_gone")
    /\ Writes(i, tuples \ {<<RoleProject[Ask(i).on], "project", Ask(i).on>>}, Ends(i))

---------------------------------------------------------------------------
(* A project's roles.                                                      *)

CreateGate(i) ==
    /\ At(i, "create_gate")
    /\ LET a == Ask(i)  p == RoleProject[a.on] IN
       Judges(i, DirectIn(tuples, a.caller, "role_creator", p) \/ SecurityAdminIn(tuples, a.caller, p), "edge")

CreatesEdge(i) ==
    /\ At(i, "edge")
    /\ Writes(i, tuples \cup {<<RoleProject[Ask(i).on], "project", Ask(i).on>>}, Goes(i, "record"))

\* create_role_record takes a free name, or one whose role has ended; refused,
\* or failed whether it landed or not, the edge is removed again.
CreatesRecord(i) ==
    /\ At(i, "record")
    /\ LET r == Ask(i).on
           free == record[RoleName[r]] \notin [role: Roles, ended: {FALSE}]
           written == [record EXCEPT ![RoleName[r]] = [role |-> r, ended |-> FALSE]]
       IN \/ free /\ record' = written /\ Ends(i) /\ UNCHANGED faults
          \/ free /\ faults > 0 /\ faults' = faults - 1 /\ record' \in {record, written} /\ Goes(i, "edge_gone")
          \/ ~free /\ record' = record /\ Goes(i, "edge_gone") /\ UNCHANGED faults
    /\ UNCHANGED <<tuples, revision, left, offer>>

\* can_manage_assignees and can_delete are the project's security admins'.
RoleGate(i) ==
    /\ At(i, "role_gate")
    /\ LET a == Ask(i) IN
       Judges(i, \E p \in EdgeOf(a.on) : SecurityAdminIn(tuples, a.caller, p), "role_found")

RoleFound(i) ==
    /\ At(i, "role_found")
    /\ Judges(i, Standing(Ask(i).on), IF Ask(i).door = "end_role" THEN "naming" ELSE "admin_grant")

\* A role that holds its project's admin is filled and emptied by its admins.
AdminGrant(i) ==
    /\ At(i, "admin_grant")
    /\ LET a == Ask(i)  p == RoleProject[a.on]
           allowed == a.on \in Admins(p) => AdminIn(tuples, a.caller, p)
       IN IF a.door = "assign" THEN Judges(i, allowed, "assignee")
          ELSE /\ IF allowed THEN req' = [req EXCEPT ![i].pc = "revoking", ![i].todo = {Named(a)}] ELSE Ends(i)
               /\ StoreKept /\ Quiet

\* A principal, or another standing role of the project.
AssigneeJudged(i) ==
    /\ At(i, "assignee")
    /\ LET a == Ask(i) IN
       Judges(i, a.subject \in Roles => /\ a.subject # a.on /\ Standing(a.subject)
                                        /\ RoleProject[a.subject] = RoleProject[a.on], "self")

AssigneesRead(i) ==
    /\ At(i, "assignees")
    /\ Judges(i, Ask(i).subject \notin Assigned(Ask(i).on), "write")

---------------------------------------------------------------------------

Init ==
    /\ offer \in Offers
    /\ tuples = offer.tuples /\ record = offer.record
    /\ revision = [p \in Projects |-> 0]
    /\ req = [i \in Requests |-> Idle]
    /\ faults = offer.faults /\ left = offer.length

Next ==
    \E i \in Requests :
        \/ Asks(i) \/ Outage(i)
        \/ Authority(i) \/ SelfJudged(i) \/ AlreadyHeld(i) \/ TenantJudged(i) \/ WritesTuple(i)
        \/ ManagedRead(i) \/ ManagedWrite(i)
        \/ MemberGate(i) \/ MemberRead(i)
        \/ Revokes(i) \/ AdminRead(i) \/ RoleRead(i) \/ ProjectRead(i) \/ Commit(i) \/ Remove(i) \/ RevokedAll(i)
        \/ Naming(i) \/ Stranding(i) \/ OnIt(i) \/ Empties(i) \/ EndsRecord(i) \/ EdgeGone(i)
        \/ CreateGate(i) \/ CreatesEdge(i) \/ CreatesRecord(i)
        \/ RoleGate(i) \/ RoleFound(i) \/ AdminGrant(i) \/ AssigneeJudged(i) \/ AssigneesRead(i)

Spec == Init /\ [][Next]_vars

---------------------------------------------------------------------------
(* Properties.                                                             *)

TypeOK ==
    /\ tuples \subseteq (Subjects \cup Projects \cup {Everyone}) \X Relations \X (Projects \cup Roles \cup Items)
    /\ revision \in [Projects -> Nat]
    /\ \A n \in Names : record[n] = None \/ record[n] \in [role: Roles, ended: BOOLEAN]
    /\ \A i \in Requests : req[i] = Idle \/ req[i].ask.door \in Doors
    /\ faults \in Nat /\ left \in Nat

\* However members are revoked, roles ended and people offboarded at once, and
\* wherever the authorization store stops answering, a project is never left
\* without a direct admin (project_admins.revoke_admin).
ProjectsKeepAnAdmin == \A p \in Projects : Admins(p) # {}

\* No sequence of requests a caller sends one after another gives the caller a
\* rung on data they did not hold: not by naming themselves, nor through a role
\* they are in, nor through one they fill (refuse_self_elevation).
NobodyRaisesThemselves ==
    offer.lone # None =>
        \A o \in Items, rel \in {"owner", "writer", "reader", "manage_grants"} :
            RungIn(tuples, offer.lone, rel, o) => RungIn(offer.tuples, offer.lone, rel, o)

\* The last assignee of a role that is its project's only direct admin is not
\* removed (role_membership.unassign), so the project keeps someone inside it
\* who can administer it.
SoleAdminRolesStayFilled ==
    \A p \in Projects, r \in Roles : Admins(p) = {r} => Assigned(r) # {}
=============================================================================

------------------------------ MODULE MCTables ------------------------------
(***************************************************************************)
(* What requests on a table contend for, one at a time: its history        *)
(* (HistoryFence), its data directory (DataDirectories), and the access to *)
(* it (AccessDoors).                                                       *)
(***************************************************************************)
EXTENDS HistoryFence, TLC

\* Branch ab's directory lies inside a's, as `a/b` lies inside `a`.
MCBranches == {"a", "ab"}
MCInside == {<<"ab", "a">>}

\* The tables, locations, files and slots of the directory's requests, and what
\* they ask for.
CONSTANTS bronze, silver, here, there, Files, Slots, DirectoryOffers

\* The people, roles and objects of the access requests, and what they ask for.
CONSTANTS ann, bob, cat, root, entry, upper, proj, other, depot, leaf, readers, writers, Everyone, Nobody,
          Turns, AccessOffers

CONSTANT Parts  \* what is contended for

VARIABLES
    part,    \* the concern: "history", "directory", "access"
    at, kept, declared, reads, stored, base, held, file, served, pass, menu,
    tuples, revision, record, req, faults, left, asked

directory == <<at, kept, declared, reads, stored, base, held, file, served, pass, menu>>
access == <<tuples, revision, record, req, faults, left, asked>>

DM == INSTANCE MCDirectories WITH None <- Nobody
AM == INSTANCE MCAccessDoors WITH None <- Nobody

Directory == INSTANCE DataDirectories WITH
    Names <- {bronze, silver}, Locations <- {here, there}, None <- Nobody, Requests <- Slots, Offers <- DirectoryOffers \cup {DM!Nothing},
    row <- at, trash <- kept, claim <- held, request <- served, offer <- menu

Access == INSTANCE AccessDoors WITH
    Users <- {ann, bob, cat, root}, Roles <- {entry, upper}, Projects <- {proj, other}, Items <- {depot, leaf},
    Names <- {readers, writers}, RoleProject <- [x \in {entry, upper} |-> proj], RoleName <- AM!Titles,
    TenantOf <- [o \in {depot, leaf} |-> proj], AtOrAbove <- AM!Ancestry, Tops <- {depot},
    EstateAdmins <- {root}, Declared <- {root}, None <- Nobody, Requests <- Turns,
    Offers <- AccessOffers \cup {AM!Nothing}, offer <- asked

DirectoryMixes == DM!Mixes
Readmitted == DM!Readmitted
AccessMixes == AM!Mixes
SoleRole == AM!SoleRole
NoMixes == {}

\* The calls on the table's history, where it is not the one contended for.
Resting == [c \in Calls |-> "reclaim"]

MCInit ==
    /\ part \in Parts /\ Init /\ Directory!Init /\ Access!Init
    /\ \/ part = "history" /\ menu = DM!Nothing /\ asked = AM!Nothing
       \/ part = "directory" /\ work = Resting /\ menu # DM!Nothing /\ asked = AM!Nothing
       \/ part = "access" /\ work = Resting /\ menu = DM!Nothing /\ asked # AM!Nothing

MCNext ==
    /\ UNCHANGED part
    /\ \/ part = "history" /\ Next /\ UNCHANGED <<directory, access>>
       \/ part = "directory" /\ Directory!Next /\ UNCHANGED <<vars, access>>
       \/ part = "access" /\ Access!Next /\ UNCHANGED <<vars, directory>>

MCSpec == MCInit /\ [][MCNext]_<<part, vars, directory, access>>

\* The calls are alike, each holds the history for any work, and so are the files.
AlikeCalls == Permutations(Calls) \cup Permutations(Files)

\* A file a table reads, standing or awaiting its undrop, is deleted only by a
\* request that ends that table (directories_to_end, protects_from_deletion,
\* base_reclaim.unreferenced).
ReadFilesStay == Directory!ReadFilesStay

\* The directory's files never outlive what leads to them, a base record or a
\* dataset that declares it (data_directories.end_base_record).
FilesAreFindable == part = "directory" => Directory!FilesAreFindable

\* "a table's data directory is its own, so the catalog does not admit a second
\* table reading through it" (table_bases.claim_registered_directories).
OneTableReadsIt == part = "directory" => Directory!OneTableReadsIt

\* A project keeps a direct admin, whatever is revoked, ended and offboarded at
\* once (project_admins.revoke_admin).
ProjectsKeepAnAdmin == part = "access" => Access!ProjectsKeepAnAdmin

\* No sequence of a caller's own requests raises what the caller may do
\* (fga_deps.refuse_self_elevation).
NobodyRaisesThemselves == part = "access" => Access!NobodyRaisesThemselves

\* The last assignee of a role that is its project's only direct admin is not
\* removed (role_membership.unassign).
SoleAdminRolesStayFilled == part = "access" => Access!SoleAdminRolesStayFilled
=============================================================================

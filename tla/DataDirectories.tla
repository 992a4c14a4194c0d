-------------------------- MODULE DataDirectories --------------------------
(***************************************************************************)
(* One data directory: the directory of its own a table keeps beneath an   *)
(* approved data base, away from its root.  Three things say whose it is:  *)
(* the manifest that reads files in it, the base record under the table's  *)
(* location, and the claim on the directory.  The doors that create,       *)
(* register, rename and end a table move them one store write at a time,   *)
(* beside the pass that reclaims the files no retained version reads.      *)
(*                                                                         *)
(* A table's location and its claim are TableDoors': here a row is written *)
(* and removed in one step, no two rows ever share a location, and none is *)
(* taken while a request still serves a table there.  Files a writer       *)
(* stores are committed before they are UNVERIFIED_AGE old, and nothing is *)
(* stored for a table that no longer stands.                               *)
(***************************************************************************)
EXTENDS Naturals, FiniteSets

CONSTANTS Names, Locations, Files, None,
          Requests,  \* how many requests are served at once
          Offers     \* the requests and faults a behaviour starts from

VARIABLES row,      \* the location each name is registered at
          trash,    \* trash records [name, at, residue]
          declared, \* locations holding a dataset that declares the directory
          reads,    \* the files a location's retained versions read
          stored,   \* a location's files no version names yet
          base,     \* locations whose base record names the directory
          claim,    \* the claim on the directory
          file,     \* what the directory holds
          request,  \* the requests being served
          pass,     \* the maintenance pass
          offer     \* what is still to come

vars == <<row, trash, declared, reads, stored, base, claim, file, request, pass, offer>>

Doors == {"create", "register", "deregister", "rename", "drop", "undrop", "destroy",
          "detach", "purge", "clear", "forget"}

Idle == [pc |-> "idle"]
Free == [table |-> None, held |-> FALSE, recent |-> FALSE]

TypeOK ==
    /\ row \in [Names -> Locations \cup {None}]
    /\ trash \subseteq [name: Names, at: Locations, residue: BOOLEAN]
    /\ declared \subseteq Locations /\ base \subseteq Locations
    /\ reads \in [Locations -> SUBSET Files] /\ stored \in [Locations -> SUBSET Files]
    /\ claim \in [table: Names \cup {None}, held: BOOLEAN, recent: BOOLEAN]
    /\ file \in [Files -> {"never", "fresh", "aged", "gone"}]

Init ==
    /\ row = [n \in Names |-> None] /\ trash = {}
    /\ declared = {} /\ base = {} /\ claim = Free
    /\ reads = [l \in Locations |-> {}] /\ stored = [l \in Locations |-> {}]
    /\ file = [f \in Files |-> "never"]
    /\ request = [r \in Requests |-> Idle] /\ pass = Idle
    /\ offer \in Offers

Present == {f \in Files : file[f] \in {"fresh", "aged"}}
Removed(F) == file' = [f \in Files |-> IF f \in F \cap Present THEN "gone" ELSE file[f]]

At(r, pc)   == request[r].pc = pc
Goes(r, pc) == request' = [request EXCEPT ![r].pc = pc]
Ends(r)     == request' = [request EXCEPT ![r] = Idle]
Door(r) == request[r].door
Name(r) == request[r].name
Loc(r)  == request[r].at

Rows     == UNCHANGED <<row, trash>>
Datasets == UNCHANGED <<declared, reads, stored>>
Records  == UNCHANGED <<base, claim>>
Others   == UNCHANGED <<pass, offer>>

Vacant(l) == \A n \in Names : row[n] # l
Trashed(l) == \E t \in trash : t.at = l
InTrash(n) == \E t \in trash : t.name = n

---------------------------------------------------------------------------
(* A request begins.  A door acts on the location its name resolves to,    *)
(* once the create, registration or rename of it answered, and no two      *)
(* requests delete one table's bytes at once.                              *)

Deletes == {"destroy", "detach", "purge", "clear"}

Answered(w) ==
    \A r \in Requests : request[r] # Idle /\ w.name \in {Name(r), request[r].to} =>
        /\ Door(r) \notin {"create", "register", "rename"}
        /\ ~ {Door(r), w.door} \subseteq Deletes

Starts(r) ==
    /\ request[r] = Idle /\ r = CHOOSE q \in Requests : request[q] = Idle
    /\ \E w \in offer.menu :
        /\ Answered(w)
        /\ offer' = [offer EXCEPT !.menu = @ \ {w}]
        /\ LET at == CASE w.door \in {"create", "register"} -> w.at
                       [] w.door \in {"undrop", "purge", "clear", "forget"} ->
                            (IF InTrash(w.name) THEN (CHOOSE t \in trash : t.name = w.name).at ELSE None)
                       [] OTHER -> row[w.name]
           IN request' = [request EXCEPT ![r] =
                [pc |-> IF at = None THEN "idle" ELSE "begun", door |-> w.door, name |-> w.name,
                 at |-> at, to |-> w.to, own |-> FALSE, made |-> FALSE, took |-> FALSE, seen |-> {}]]
    /\ Rows /\ Datasets /\ Records /\ UNCHANGED <<file, pass>>

\* declare_table and register_table: a row, on a location no other table holds.
\* Only registrations of a dataset that declares the directory matter here.
Attaches(r) ==
    /\ At(r, "begun") /\ Door(r) \in {"create", "register"}
    /\ \A q \in Requests \ {r} : request[q] # Idle /\ Loc(q) = Loc(r) => At(q, "begun")
    /\ IF row[Name(r)] = None /\ Vacant(Loc(r)) /\ ~ Trashed(Loc(r))
          /\ (Door(r) = "register") = (Loc(r) \in declared)
       THEN /\ row' = [row EXCEPT ![Name(r)] = Loc(r)]
            /\ Goes(r, IF Door(r) = "create" THEN "claiming" ELSE "weighing")
       ELSE Ends(r) /\ UNCHANGED row
    /\ UNCHANGED <<trash, file>> /\ Datasets /\ Records /\ Others

\* entries_for_registration: a base the location's record names needs no entry,
\* and one under an approved base is admitted where there is no record yet.
EntryFor(r) == Loc(r) \in declared /\ Loc(r) \notin base

JudgesBases(r) ==
    /\ At(r, "weighing")
    /\ Goes(r, IF EntryFor(r) THEN "claiming" ELSE "seeding")
    /\ Rows /\ Datasets /\ Records /\ UNCHANGED file /\ Others

\* data_directory_holder_is_gone: neither in the trash nor described.
HolderIsGone == ~ InTrash(claim.table) /\ row[claim.table] = None

\* location_claims._taken, on the directory's claim.
Takable(n, previous) ==
    \/ ~ claim.held
    \/ claim.table \in {n, previous}
    \/ ~ claim.recent /\ HolderIsGone

TakenBy(n) == IF claim.held /\ claim.table = n THEN claim ELSE [table |-> n, held |-> TRUE, recent |-> TRUE]

\* claim_data_directories.
Claims(r) ==
    /\ At(r, "claiming")
    /\ IF Takable(Name(r), None)
       THEN claim' = TakenBy(Name(r)) /\ request' = [request EXCEPT ![r].pc = "recording", ![r].took = TRUE]
       ELSE Goes(r, "refused") /\ UNCHANGED claim
    /\ Rows /\ Datasets /\ UNCHANGED <<base, file>> /\ Others

\* claim_bases: the record before the manifest that declares the base.
RecordsBase(r) ==
    /\ At(r, "recording")
    /\ base' = base \cup {Loc(r)}
    /\ request' = [request EXCEPT ![r].pc = IF Door(r) = "create" THEN "writing" ELSE "seeding",
                                  ![r].made = Loc(r) \notin base]
    /\ Rows /\ Datasets /\ UNCHANGED <<claim, file>> /\ Others

\* The create's first version, one file of it in the directory.
Writes(r) ==
    /\ At(r, "writing")
    /\ \E f \in Files :
        /\ file[f] = "never"
        /\ file' = [file EXCEPT ![f] = "fresh"]
        /\ reads' = [reads EXCEPT ![Loc(r)] = {f}]
    /\ declared' = declared \cup {Loc(r)}
    /\ Goes(r, "seeding")
    /\ Rows /\ Records /\ UNCHANGED stored /\ Others

\* The owner grant lands, and the request answers.
Seeds(r) ==
    /\ At(r, "seeding") /\ Ends(r)
    /\ Rows /\ Datasets /\ Records /\ UNCHANGED file /\ Others

---------------------------------------------------------------------------
(* What a refusal or a failure takes back.                                 *)

\* A create's write refused before a byte lands, or a seed that fails.
Fails(r) ==
    /\ offer.faults > 0 /\ offer' = [offer EXCEPT !.faults = @ - 1]
    /\ request[r].pc \in {"writing", "seeding"}
    /\ Goes(r, IF At(r, "seeding") /\ Door(r) = "create" THEN "undoing" ELSE "refused")
    /\ Rows /\ Datasets /\ Records /\ UNCHANGED <<file, pass>>

\* drop_table for a create, deregister_table for a registration.  A create that
\* had written ends its directory as a drop does, and one whose row is gone has
\* nothing to undo.
TakesBack(r) ==
    /\ request[r].pc \in {"refused", "undoing"}
    /\ IF row[Name(r)] = Loc(r)
       THEN /\ row' = [row EXCEPT ![Name(r)] = None]
            /\ Goes(r, IF At(r, "undoing") THEN "ending" ELSE "unrecording")
       ELSE UNCHANGED row /\ IF At(r, "refused") /\ Door(r) = "create" THEN Goes(r, "unrecording") ELSE Ends(r)
    /\ IF Door(r) = "create" /\ row[Name(r)] = Loc(r)
       THEN declared' = declared \ {Loc(r)} /\ reads' = [reads EXCEPT ![Loc(r)] = {}]
       ELSE UNCHANGED <<declared, reads>>
    /\ UNCHANGED <<trash, stored, file>> /\ Records /\ Others

\* directories_to_end: the record names it, and the claim names the table.
Owns(r) == Loc(r) \in base /\ claim.table = Name(r)

\* end_base_record, once the create's table is dropped.
JudgesUndo(r) ==
    /\ At(r, "ending")
    /\ request' = [request EXCEPT ![r].pc = "emptying", ![r].own = Owns(r)]
    /\ Rows /\ Datasets /\ Records /\ UNCHANGED file /\ Others

\* release_claim: the record goes only where this request made it.
Unrecords(r) ==
    /\ At(r, "unrecording")
    /\ base' = IF request[r].made THEN base \ {Loc(r)} ELSE base
    /\ Goes(r, "unclaiming")
    /\ Rows /\ Datasets /\ UNCHANGED <<claim, file>> /\ Others

ReleasedBy(n) == IF claim.held /\ claim.table = n THEN [claim EXCEPT !.held = FALSE] ELSE claim

\* release_data_directories.
Unclaims(r) ==
    /\ At(r, "unclaiming")
    /\ claim' = IF request[r].took THEN ReleasedBy(Name(r)) ELSE claim
    /\ Ends(r)
    /\ Rows /\ Datasets /\ UNCHANGED <<base, file>> /\ Others

---------------------------------------------------------------------------
(* The doors that keep the bytes.                                          *)

\* Deregister keeps the base record and the directory's claim.
Deregisters(r) ==
    /\ At(r, "begun") /\ Door(r) = "deregister"
    /\ row' = IF row[Name(r)] = Loc(r) THEN [row EXCEPT ![Name(r)] = None] ELSE row
    /\ Ends(r)
    /\ UNCHANGED <<trash, file>> /\ Datasets /\ Records /\ Others

Renames(r) ==
    /\ At(r, "begun") /\ Door(r) = "rename"
    /\ IF row[Name(r)] = Loc(r) /\ row[request[r].to] = None
       THEN row' = [row EXCEPT ![Name(r)] = None, ![request[r].to] = Loc(r)] /\ Goes(r, "handing")
       ELSE UNCHANGED row /\ Ends(r)
    /\ UNCHANGED <<trash, file>> /\ Datasets /\ Records /\ Others

\* hand_over_data_directories, once the rename has committed: a claim another
\* table holds stays with it.
HandsOver(r) ==
    /\ At(r, "handing")
    /\ claim' = IF Loc(r) \in base /\ (~ claim.held \/ claim.table \in {Name(r), request[r].to})
                THEN TakenBy(request[r].to) ELSE claim
    /\ Ends(r)
    /\ Rows /\ Datasets /\ UNCHANGED <<base, file>> /\ Others

TrashRecord(r) == [name |-> Name(r), at |-> Loc(r), residue |-> FALSE]

\* A recoverable drop, and the undrop of it.
Trashes(r) ==
    /\ At(r, "begun") /\ Door(r) = "drop"
    /\ IF row[Name(r)] = Loc(r)
       THEN /\ row' = [row EXCEPT ![Name(r)] = None]
            /\ trash' = trash \cup {TrashRecord(r)}
       ELSE Rows
    /\ Ends(r)
    /\ UNCHANGED file /\ Datasets /\ Records /\ Others

Undrops(r) ==
    /\ At(r, "begun") /\ Door(r) = "undrop"
    /\ IF TrashRecord(r) \in trash /\ row[Name(r)] = None
       THEN row' = [row EXCEPT ![Name(r)] = Loc(r)] /\ trash' = trash \ {TrashRecord(r)}
       ELSE Rows
    /\ Ends(r)
    /\ UNCHANGED file /\ Datasets /\ Records /\ Others

---------------------------------------------------------------------------
(* The doors that end the bytes: the directory is judged first, its files  *)
(* go before the record that names it, and the record goes last.           *)

\* destroy_table files a residue record before the row goes.
ResidueOf(r) == {[name |-> Name(r), at |-> Loc(r), residue |-> TRUE]}

\* destroy_table judges, and files its residue record.
JudgesDestroy(r) ==
    /\ At(r, "begun") /\ Door(r) = "destroy"
    /\ trash' = IF Loc(r) \in declared THEN trash \cup ResidueOf(r) ELSE trash
    /\ request' = [request EXCEPT ![r].pc = "removing", ![r].own = Owns(r)]
    /\ UNCHANGED <<row, file>> /\ Datasets /\ Records /\ Others

\* The commit point: a row another request removed first leaves nothing to drop.
Removes(r) ==
    /\ At(r, "removing")
    /\ IF row[Name(r)] = Loc(r)
       THEN /\ row' = [row EXCEPT ![Name(r)] = None] /\ UNCHANGED trash
            /\ Goes(r, IF Door(r) = "detach" THEN "releasing" ELSE "deleting")
       ELSE /\ trash' = IF Door(r) = "destroy" THEN trash \ ResidueOf(r) ELSE trash
            /\ UNCHANGED row /\ Ends(r)
    /\ UNCHANGED file /\ Datasets /\ Records /\ Others

\* The purge reads what other datasets resolve through before it judges one.
ReadsReferrers(r) ==
    /\ At(r, "begun") /\ Door(r) = "purge"
    /\ request' = [request EXCEPT ![r].pc = "judging", ![r].seen = declared \cap base]
    /\ Rows /\ Datasets /\ Records /\ UNCHANGED file /\ Others

\* protects_from_deletion, along with the table's own root.
Referred(r) == request[r].seen \ {Loc(r)} # {}

\* _recovered_since_the_snapshot and _judged_data_directories.
JudgesPurge(r) ==
    /\ At(r, "judging")
    /\ IF (\E t \in trash : t.name = Name(r) /\ t.at = Loc(r)) /\ Vacant(Loc(r)) /\ ~ (Owns(r) /\ Referred(r))
       THEN request' = [request EXCEPT ![r].pc = "deleting", ![r].own = Owns(r)]
       ELSE Ends(r)
    /\ Rows /\ Datasets /\ Records /\ UNCHANGED file /\ Others

\* A warehouse's delete: of a table still registered, or of a trashed one.
JudgesCascade(r) ==
    /\ At(r, "begun") /\ Door(r) \in {"detach", "clear", "forget"}
    /\ request' = [request EXCEPT ![r].pc = IF Door(r) = "forget" THEN "releasing" ELSE "emptying", ![r].own = Owns(r)]
    /\ Rows /\ Datasets /\ Records /\ UNCHANGED file /\ Others

\* Mutant of DeletesRoot: the record goes with the root, before the files it names.
DeletesRootAndRecord(r) ==
    /\ At(r, "deleting")
    /\ declared' = declared \ {Loc(r)}
    /\ reads' = [reads EXCEPT ![Loc(r)] = {}] /\ stored' = [stored EXCEPT ![Loc(r)] = {}]
    /\ base' = base \ {Loc(r)}
    /\ Goes(r, "emptying")
    /\ Rows /\ UNCHANGED <<claim, file>> /\ Others

DeletesRoot(r) ==
    /\ At(r, "deleting")
    /\ declared' = declared \ {Loc(r)}
    /\ reads' = [reads EXCEPT ![Loc(r)] = {}] /\ stored' = [stored EXCEPT ![Loc(r)] = {}]
    /\ Goes(r, "emptying")
    /\ Rows /\ Records /\ UNCHANGED file /\ Others

\* delete_directories, by key.
Empties(r) ==
    /\ At(r, "emptying")
    /\ IF request[r].own THEN Removed(Files) ELSE UNCHANGED file
    /\ Goes(r, IF Door(r) = "detach" THEN "removing" ELSE "releasing")
    /\ trash' = IF Door(r) = "destroy" THEN trash \ ResidueOf(r) ELSE trash
    /\ UNCHANGED row /\ Datasets /\ Records /\ Others

\* forget_base_record: the claims the record's directories carry, then it.
Releases(r) ==
    /\ At(r, "releasing")
    /\ claim' = IF Loc(r) \in base THEN ReleasedBy(Name(r)) ELSE claim
    /\ Goes(r, "forgetting")
    /\ Rows /\ Datasets /\ UNCHANGED <<base, file>> /\ Others

Forgets(r) ==
    /\ At(r, "forgetting")
    /\ base' = base \ {Loc(r)}
    /\ trash' = IF Door(r) \in {"purge", "clear", "forget"}
                THEN {t \in trash : ~ (t.name = Name(r) /\ t.at = Loc(r))} ELSE trash
    /\ Ends(r)
    /\ UNCHANGED <<row, claim, file>> /\ Datasets /\ Others

\* The store refuses a delete, or the process dies: the next request finishes.
Stops(r) ==
    /\ offer.faults > 0 /\ offer' = [offer EXCEPT !.faults = @ - 1]
    /\ request[r].pc \in {"deleting", "emptying", "forgetting"}
    /\ Ends(r)
    /\ Rows /\ Datasets /\ Records /\ UNCHANGED <<file, pass>>

---------------------------------------------------------------------------
(* The maintenance pass over one table.                                    *)

\* plan_sweep: the trash, then the names; a dataset in the trash is left out.
Plans ==
    /\ offer.passes > 0 /\ pass = Idle
    /\ \E n \in Names :
        /\ row[n] # None /\ ~ Trashed(row[n])
        /\ pass' = [pc |-> "reading", name |-> n, at |-> row[n], doomed |-> {}]
    /\ offer' = [offer EXCEPT !.passes = @ - 1]
    /\ Rows /\ Datasets /\ Records /\ UNCHANGED <<file, request>>

\* _data_directories: declared, recorded, and the claim held by the table now.
Reclaimable == pass.at \in declared \cap base /\ claim.held /\ claim.table = pass.name

ReadsDirectories ==
    /\ pass.pc = "reading"
    /\ pass' = IF Reclaimable THEN [pass EXCEPT !.pc = "scanning"] ELSE Idle
    /\ Rows /\ Datasets /\ Records /\ UNCHANGED <<file, request, offer>>

\* Mutant of Unreferenced: files of any age.
UnreferencedAtAnyAge == Present \ reads[pass.at]

\* unreferenced: old enough, and read by no retained version.
Unreferenced == {f \in Files : file[f] = "aged"} \ reads[pass.at]

Scans ==
    /\ pass.pc = "scanning"
    /\ pass' = IF pass.at \in declared THEN [pass EXCEPT !.pc = "reclaiming", !.doomed = Unreferenced] ELSE Idle
    /\ Rows /\ Datasets /\ Records /\ UNCHANGED <<file, request, offer>>

Reclaims ==
    /\ pass.pc = "reclaiming"
    /\ Removed(pass.doomed) /\ pass' = Idle
    /\ Rows /\ Datasets /\ Records /\ UNCHANGED <<request, offer>>

---------------------------------------------------------------------------
(* Writers of standing tables, time, and an operator's copy of a dataset.  *)

Stores ==
    \E n \in Names, f \in Files :
        /\ offer.writes > 0 /\ offer' = [offer EXCEPT !.writes = @ - 1]
        /\ row[n] \in declared \cap base /\ file[f] = "never"
        /\ file' = [file EXCEPT ![f] = "fresh"]
        /\ stored' = [stored EXCEPT ![row[n]] = @ \cup {f}]
        /\ UNCHANGED <<declared, reads, request, pass>> /\ Rows /\ Records

Commits ==
    \E l \in declared :
        /\ stored[l] # {}
        /\ reads' = [reads EXCEPT ![l] = @ \cup stored[l]] /\ stored' = [stored EXCEPT ![l] = {}]
        /\ UNCHANGED <<declared, file, request>> /\ Rows /\ Records /\ Others

\* A version is superseded and expires with the file only it read.
Expires ==
    \E l \in declared, f \in Files :
        /\ f \in reads[l] /\ reads[l] # {f}
        /\ reads' = [reads EXCEPT ![l] = @ \ {f}]
        /\ UNCHANGED <<declared, stored, file, request>> /\ Rows /\ Records /\ Others

Ages ==
    \E f \in Files :
        /\ file[f] = "fresh" /\ \A l \in Locations : f \notin stored[l]
        /\ file' = [file EXCEPT ![f] = "aged"]
        /\ UNCHANGED request /\ Rows /\ Datasets /\ Records /\ Others

LeaseEnds ==
    /\ claim.recent /\ claim' = [claim EXCEPT !.recent = FALSE]
    /\ UNCHANGED <<base, file, request>> /\ Rows /\ Datasets /\ Others

Copies ==
    \E from \in declared, to \in Locations \ declared :
        /\ offer.copies > 0 /\ offer' = [offer EXCEPT !.copies = @ - 1]
        /\ Vacant(to) /\ ~ Trashed(to) /\ to \notin base
        /\ \A r \in Requests : request[r] # Idle =>
              Loc(r) # to /\ (Door(r) = "create" => Loc(r) # from)
        /\ declared' = declared \cup {to} /\ reads' = [reads EXCEPT ![to] = reads[from]]
        /\ UNCHANGED <<stored, file, request, pass>> /\ Rows /\ Records

---------------------------------------------------------------------------

Serves(r) ==
    \/ Starts(r) \/ Attaches(r) \/ JudgesBases(r) \/ Claims(r) \/ RecordsBase(r) \/ Writes(r) \/ Seeds(r)
    \/ Fails(r) \/ TakesBack(r) \/ JudgesUndo(r) \/ Unrecords(r) \/ Unclaims(r)
    \/ Deregisters(r) \/ Renames(r) \/ HandsOver(r) \/ Trashes(r) \/ Undrops(r)
    \/ JudgesDestroy(r) \/ Removes(r) \/ ReadsReferrers(r) \/ JudgesPurge(r) \/ JudgesCascade(r)
    \/ DeletesRoot(r) \/ Empties(r) \/ Releases(r) \/ Forgets(r) \/ Stops(r)

Maintains == Plans \/ ReadsDirectories \/ Scans \/ Reclaims
World == Stores \/ Commits \/ Expires \/ Ages \/ LeaseEnds \/ Copies

Next == (\E r \in Requests : Serves(r)) \/ Maintains \/ World

Spec == Init /\ [][Next]_vars

---------------------------------------------------------------------------
(* Properties.                                                             *)

\* The tables a request of theirs is admitting, or ending for good.
Underway == {n \in Names : \E r \in Requests : request[r] # Idle /\ request[r].name = n
                /\ Door(r) \in {"create", "register", "destroy", "detach", "purge", "clear", "forget"}}

\* The pass deletes for a table the claim names no longer: it is read once, when
\* the pass looks at the directory (sweep._data_directories), not at its delete.
Overtaken == pass.pc = "reclaiming" /\ claim.table # pass.name

\* A file a table reads, standing or awaiting its undrop, is deleted by no one
\* but a request that ends that very table: not by another table's drop, not by
\* the purge, not by the pass that reclaims what another table no longer reads
\* (directories_to_end, protects_from_deletion, base_reclaim.unreferenced) - a
\* pass under way while another table takes the claim apart.
ReadFilesStay ==
    [][\A n \in Names \ Underway, l \in Locations :
        row[n] = l \/ [name |-> n, at |-> l, residue |-> FALSE] \in trash
            => \A f \in Files : file'[f] # file[f] /\ file'[f] = "gone"
                  => f \notin reads[l] \/ (Overtaken /\ pass' # pass)]_vars

\* The directory's files never outlive what leads to them: a base record or a
\* dataset that declares the directory ("nothing names them once the record is
\* gone"; data_directories.end_base_record, destroy_table's residue record).
FilesAreFindable == Present # {} => base \cup declared # {}

\* "a table's data directory is its own, so the catalog does not admit a second
\* table reading through it" (table_bases.claim_registered_directories).
OneTableReadsIt ==
    \A m, n \in Names : m # n /\ row[m] \in declared /\ row[n] \in declared =>
        \E r \in Requests : request[r] # Idle /\ request[r].name \in {m, n} /\ Door(r) = "register"
=============================================================================

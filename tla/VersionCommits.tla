--------------------------- MODULE VersionCommits ---------------------------
(***************************************************************************)
(* The commits of ONE ref of one table under managed versioning: the       *)
(* catalog doors' commit_stamped (services/dataplane.py) and the stock     *)
(* writers' version/create (api/v1/endpoints/versions.py with              *)
(* services/managed_versions.py), racing for versions the backend          *)
(* finalizes put-if-not-exists.                                            *)
(*                                                                         *)
(* A manifest is named by who made it and which of theirs it is: <<d, k>>  *)
(* is attempt k of door commit d, <<t, v>> is the stock transaction t      *)
(* staged for version v. Its digest is that name: every attempt of a door  *)
(* has a transaction of its own, and every request of a staged version     *)
(* carries its bytes unchanged. The commit turns only delay a finalize     *)
(* (module CommitTurns), so a step may simply be taken late. A crash is a  *)
(* commit that takes no further step: nothing here is fair.                *)
(***************************************************************************)
EXTENDS Integers, FiniteSets

CONSTANTS
    Doors,       \* door commits: calls of commit_stamped
    Txns,        \* stock writers' transactions
    Requests,    \* version/create requests
    Commits,     \* the transaction each request commits: [Requests -> Txns]
    Announced,   \* the door commits and transactions whose operation is announced
    ATTEMPTS,    \* _STAMPED_COMMIT_ATTEMPTS
    MaxVersion,  \* bound on the ref's versions
    Offers       \* who takes part: the doors, the requests, and how many versions an owner deletes

ASSUME CommitAssumption ==
    /\ Commits \in [Requests -> Txns]
    /\ Announced \subseteq Doors \cup Txns
    /\ Doors \cap Txns = {}
    /\ ATTEMPTS \in Nat \ {0}
    /\ MaxVersion \in Nat \ {0}
    /\ Offers \subseteq [doors: SUBSET Doors, requests: SUBSET Requests, deletes: Nat]

VARIABLES
    slot,      \* the manifest each version of the ref holds
    head,      \* the ref's latest version
    files,     \* the door attempts whose data and transaction files are stored
    recorded,  \* the door attempts whose committed-files record is kept
    authors,   \* the manifests whose commit-author record is kept
    door,      \* how far each door commit is
    staged,    \* the version each stock transaction is staged for
    req,       \* how far each version/create request is
    landed,    \* every <<manifest, version>> a put ever landed
    offer,     \* who takes part, and the deletes still to come
    exposed    \* the manifests deleted before their writer read the landing, freed to
               \* land late by a delete, or left without their author record by a twin

vars == <<slot, head, files, recorded, authors, door, staged, req, landed, offer, exposed>>

-----------------------------------------------------------------------------

Versions  == 1 .. MaxVersion
Attempt   == Doors \X (1 .. ATTEMPTS)
Manifest  == Attempt \cup (Txns \X Versions)
Empty     == <<>>
Elsewhere == <<"registered">>   \* the manifest the ref starts with

DoorPhase == {"open", "opened", "planned", "recorded", "authored", "conflict", "losing",
              "ambiguous", "discarding", "forgetting", "returned", "lost", "refused", "unknown",
              "turnedAway"}
DoorLocals == [pc: DoorPhase, attempt: 1 .. ATTEMPTS, version: 0 .. MaxVersion,
               then: {"again", "raise"}]

ReqPhase == {"idle", "staged", "authored", "failed", "deleting", "returned", "raised"}
ReqLocals == [pc: ReqPhase, version: 0 .. MaxVersion, created: {"yes", "no"}]

TypeOK ==
    /\ slot \in [Versions -> Manifest \cup {Empty, Elsewhere}]
    /\ head \in Versions
    /\ files \subseteq Attempt
    /\ recorded \subseteq Attempt
    /\ authors \subseteq Manifest
    /\ door \in [Doors -> DoorLocals]
    /\ staged \in [Txns -> 0 .. MaxVersion]
    /\ req \in [Requests -> ReqLocals]
    /\ landed \subseteq Manifest \X Versions
    /\ offer \in [doors: SUBSET Doors, requests: SUBSET Requests, deletes: Nat]
    /\ exposed \subseteq Manifest \cup {Elsewhere}

Init ==
    /\ slot = [v \in Versions |-> IF v = 1 THEN Elsewhere ELSE Empty]
    /\ head = 1
    /\ files = {} /\ recorded = {} /\ authors = {} /\ landed = {}
    /\ offer \in Offers /\ exposed = {}
    /\ door = [d \in Doors |-> [pc |-> "open", attempt |-> 1, version |-> 0, then |-> "again"]]
    /\ staged = [t \in Txns |-> 0]
    /\ req = [r \in Requests |-> [pc |-> "idle", version |-> 0, created |-> "no"]]

\* The manifest door commit `d` is at, and the one request `r` carries.
Own(d)    == <<d, door[d].attempt>>
Carried(r) == <<Commits[r], req[r].version>>

DoorAt(d, phase)    == door[d].pc = phase
DoorGoes(d, phase)  == door' = [door EXCEPT ![d].pc = phase]
ReqAt(r, phase)     == req[r].pc = phase
ReqGoes(r, phase)   == req' = [req EXCEPT ![r].pc = phase]

doors    == <<files, recorded, door>>
stock    == <<staged, req>>
ref      == <<slot, head, landed>>
owners   == <<offer, exposed>>

-----------------------------------------------------------------------------
(* The backend's put-if-not-exists and the reads that judge it (external). *)

\* The version's slot is free: create_table_version takes the put.
Vacant(v) == v \in Versions /\ slot[v] = Empty

Lands(manifest, v) ==
    /\ slot' = [slot EXCEPT ![v] = manifest]
    /\ head' = IF v > head THEN v ELSE head
    /\ landed' = landed \cup {<<manifest, v>>}

\* Mutant of Holds: the digest read back is not compared.
HoldsNever(v, manifest) == slot[v] = Empty /\ manifest = Empty

\* committed_manifest_digest answers this manifest's digest.
Holds(v, manifest) == slot[v] = manifest

-----------------------------------------------------------------------------
(* commit_stamped                                                          *)

DoorOpens(d) ==
    /\ DoorAt(d, "open") /\ d \in offer.doors
    /\ head < MaxVersion
    /\ door' = [door EXCEPT ![d].pc = "opened", ![d].version = head + 1]
    /\ UNCHANGED <<ref, files, recorded, authors, stock, owners>>

\* The door's next attempt (or a failure to take its turn), or its 409 after
\* the last.
NextAttempt(d) ==
    IF door[d].attempt = ATTEMPTS
    THEN DoorGoes(d, "lost")
    ELSE \/ door' = [door EXCEPT ![d].pc = "open", ![d].attempt = @ + 1]
         \/ DoorGoes(d, "refused")

\* _PlannedOnAStaleVersion: Lance refused the plan for a version committed since.
DoorPlanIsStale(d) ==
    /\ DoorAt(d, "opened")
    /\ head >= door[d].version
    /\ NextAttempt(d)
    /\ UNCHANGED <<ref, files, recorded, authors, stock, owners>>

\* The plan writes its files, and the transaction is committed detached.
DoorPlans(d) ==
    /\ DoorAt(d, "opened")
    /\ DoorGoes(d, "planned")
    /\ files' = files \cup {Own(d)}
    /\ UNCHANGED <<ref, recorded, authors, stock, owners>>

\* The judges passed: record_committed_files, before the version is final.
DoorRecordsFiles(d) ==
    /\ DoorAt(d, "planned")
    /\ DoorGoes(d, "recorded")
    /\ recorded' = recorded \cup {Own(d)}
    /\ UNCHANGED <<ref, files, authors, stock, owners>>

\* record_author, before the finalize, for an operation the doors announce.
DoorRecordsAuthor(d) ==
    /\ DoorAt(d, "recorded")
    /\ DoorGoes(d, "authored")
    /\ authors' = IF d \in Announced THEN authors \cup {Own(d)} ELSE authors
    /\ UNCHANGED <<ref, files, recorded, stock, owners>>

\* A judge refused, or the store failed, before the finalize: the attempt is
\* undone and the error raised. A failed record_author may have recorded.
DoorIsRefused(d) ==
    /\ \/ DoorAt(d, "planned") /\ UNCHANGED authors
       \/ DoorAt(d, "recorded") /\ authors' \in
              {authors, IF d \in Announced THEN authors \cup {Own(d)} ELSE authors}
    /\ door' = [door EXCEPT ![d].pc = "discarding", ![d].then = "raise"]
    /\ UNCHANGED <<ref, files, recorded, stock, owners>>

\* The finalize lands. The backend answers so, or the store answers the put
\* that landed as a conflict, or the answer is another failure.
DoorLands(d) ==
    /\ DoorAt(d, "authored")
    /\ Vacant(door[d].version)
    /\ Lands(Own(d), door[d].version)
    /\ \E answer \in {"returned", "conflict", "unknown"} : DoorGoes(d, answer)
    /\ UNCHANGED <<files, recorded, authors, stock, owners>>

\* Another commit took the version.
DoorLoses(d) ==
    /\ DoorAt(d, "authored")
    /\ ~ Vacant(door[d].version)
    /\ DoorGoes(d, "conflict")
    /\ UNCHANGED <<ref, files, recorded, authors, stock, owners>>

\* A failure of unknown outcome that landed nothing: everything is kept.
DoorFinalizeFails(d) ==
    /\ DoorAt(d, "authored")
    /\ DoorGoes(d, "unknown")
    /\ UNCHANGED <<ref, files, recorded, authors, stock, owners>>

\* TableChangedError or TurnWaitRefusedError before the put: the author is
\* forgotten (if the store lets it) and the error raised.
DoorIsTurnedAway(d) ==
    /\ DoorAt(d, "authored")
    /\ DoorGoes(d, "turnedAway")
    /\ authors' \in {authors, authors \ {Own(d)}}
    /\ UNCHANGED <<ref, files, recorded, stock, owners>>

\* Mutant of DoorReadsLanding: a conflict after the put is taken for a landing.
DoorAssumesLanded(d) ==
    /\ DoorAt(d, "conflict")
    /\ DoorGoes(d, "returned")
    /\ UNCHANGED <<ref, files, recorded, authors, stock, owners>>

\* _landed_digest: the version is this very commit, or another's, or found
\* under both naming schemes, or the store does not answer.
DoorReadsLanding(d) ==
    /\ DoorAt(d, "conflict")
    /\ IF Holds(door[d].version, Own(d))
       THEN DoorGoes(d, "returned") \/ DoorGoes(d, "unknown")
       ELSE \E found \in {"losing", "ambiguous", "unknown"} : DoorGoes(d, found)
    /\ UNCHANGED <<ref, files, recorded, authors, stock, owners>>

\* _forget_unlanded_author, unless the store refuses.
DoorForgetsAuthor(d) ==
    /\ DoorAt(d, "losing") \/ DoorAt(d, "ambiguous")
    /\ authors' \in {authors, IF Holds(door[d].version, Own(d)) THEN authors
                              ELSE authors \ {Own(d)}}
    /\ IF DoorAt(d, "losing")
       THEN door' = [door EXCEPT ![d].pc = "discarding", ![d].then = "again"]
       ELSE NextAttempt(d)
    /\ UNCHANGED <<ref, files, recorded, stock, owners>>

\* _discard_unlanded_attempt deletes what the attempt wrote, where the store
\* lets it (and, for a refused attempt, answers what that was) ...
DoorDiscards(d) ==
    /\ DoorAt(d, "discarding")
    /\ DoorGoes(d, "forgetting")
    /\ files' \in {files, files \ {Own(d)}}
    /\ UNCHANGED <<ref, recorded, authors, stock, owners>>

\* ... and then their committed-files record, and the attempt is over.
DoorForgetsFiles(d) ==
    /\ DoorAt(d, "forgetting")
    /\ recorded' \in {recorded, recorded \ {Own(d)}}
    /\ IF door[d].then = "raise" THEN DoorGoes(d, "refused") ELSE NextAttempt(d)
    /\ UNCHANGED <<ref, files, authors, stock, owners>>

-----------------------------------------------------------------------------
(* version/create                                                          *)

\* The client's commit loop (external): pylance stages the transaction for
\* the version after the latest, and again once a request was refused because
\* another writer's commit holds the version it was staged for.
StockStages(t) ==
    /\ staged[t] # 0 =>
           /\ slot[staged[t]] \notin {Empty, <<t, staged[t]>>}
           /\ \E r \in Requests : ReqAt(r, "raised") /\ Carried(r) = <<t, staged[t]>>
    /\ head < MaxVersion
    /\ staged' = [staged EXCEPT ![t] = head + 1]
    /\ UNCHANGED <<ref, authors, doors, req, owners>>

\* stage: the version must be the one after the ref's latest. An HTTP retry may
\* repeat a request whose answer is late, so requests of one staged version
\* overlap.
RequestStages(r) ==
    /\ ReqAt(r, "idle") /\ r \in offer.requests /\ staged[Commits[r]] # 0
    /\ LET v == staged[Commits[r]] IN
       req' = [req EXCEPT ![r].version = v,
                          ![r].pc = IF v = head + 1 THEN "staged" ELSE "raised"]
    /\ UNCHANGED <<ref, authors, doors, staged, owners>>

\* The judges refused the staged version; nothing was recorded for it.
RequestIsRefused(r) ==
    /\ ReqAt(r, "staged")
    /\ ReqGoes(r, "raised")
    /\ UNCHANGED <<ref, authors, doors, staged, owners>>

\* record_author before the finalize, answering whether this request created
\* the record; a create whose answer was lost reads as another's.
RequestRecordsAuthor(r) ==
    /\ ReqAt(r, "staged")
    /\ IF Commits[r] \in Announced
       THEN /\ authors' = authors \cup {Carried(r)}
            /\ \E created \in IF Carried(r) \in authors THEN {"no"} ELSE {"yes", "no"} :
                   req' = [req EXCEPT ![r].pc = "authored", ![r].created = created]
       ELSE ReqGoes(r, "authored") /\ UNCHANGED authors
    /\ UNCHANGED <<ref, doors, staged, owners>>

\* The finalize lands, and is answered so, or as a conflict or a failure.
RequestLands(r) ==
    /\ ReqAt(r, "authored")
    /\ Vacant(req[r].version)
    /\ Lands(Carried(r), req[r].version)
    /\ ReqGoes(r, "returned") \/ ReqGoes(r, "failed")
    /\ UNCHANGED <<authors, doors, staged, owners>>

\* It does not: the version is taken, the table changed, a record or the
\* store failed.
RequestFails(r) ==
    /\ ReqAt(r, "authored")
    /\ ReqGoes(r, "failed")
    /\ UNCHANGED <<ref, authors, doors, staged, owners>>

\* Mutant of RequestReadsLanding: the creator deletes without reading.
RequestReadsNothing(r) ==
    /\ ReqAt(r, "failed")
    /\ ReqGoes(r, IF req[r].created = "yes" THEN "deleting" ELSE "raised")
    /\ UNCHANGED <<ref, authors, doors, staged, owners>>

\* forget_unlanded_author, by the request that created the record only: it
\* reads what the version holds (or cannot) ...
RequestReadsLanding(r) ==
    /\ ReqAt(r, "failed")
    /\ \/ ReqGoes(r, "raised")
       \/ /\ req[r].created = "yes"
          /\ ~ Holds(req[r].version, Carried(r))
          /\ ReqGoes(r, "deleting")
    /\ UNCHANGED <<ref, authors, doors, staged, owners>>

\* ... and deletes the author record.
RequestForgetsAuthor(r) ==
    /\ ReqAt(r, "deleting")
    /\ authors' = authors \ {Carried(r)}
    /\ ReqGoes(r, "raised")
    /\ exposed' = IF \E q \in Requests \ {r} : ~ ReqAt(q, "staged") /\ Carried(q) = Carried(r)
                  THEN exposed \cup {Carried(r)} ELSE exposed
    /\ UNCHANGED <<ref, doors, staged, offer>>

-----------------------------------------------------------------------------

DoorStep(d) ==
    \/ DoorOpens(d) \/ DoorPlanIsStale(d) \/ DoorPlans(d)
    \/ DoorRecordsFiles(d) \/ DoorRecordsAuthor(d) \/ DoorIsRefused(d)
    \/ DoorLands(d) \/ DoorLoses(d) \/ DoorFinalizeFails(d) \/ DoorIsTurnedAway(d)
    \/ DoorReadsLanding(d) \/ DoorForgetsAuthor(d) \/ DoorDiscards(d) \/ DoorForgetsFiles(d)

RequestStep(r) ==
    \/ RequestStages(r) \/ RequestIsRefused(r) \/ RequestRecordsAuthor(r) \/ RequestLands(r)
    \/ RequestFails(r) \/ RequestReadsLanding(r) \/ RequestForgetsAuthor(r)

\* The manifest a request carries, or would carry if it arrived now.
Meant(r) == <<Commits[r], IF ReqAt(r, "idle") THEN staged[Commits[r]] ELSE req[r].version>>

\* A writer that has put this manifest, or may yet, has not read what became
\* of it: a door's commit, or a request of a stock writer that has not heard
\* of a landing.
Unread(manifest) ==
    \/ \E d \in Doors : door[d].pc \in {"authored", "conflict", "losing"} /\ Own(d) = manifest
    \/ \E r \in offer.requests : ~ ReqAt(r, "returned") /\ Meant(r) = manifest

\* The requests still to put at a version their transaction was staged for
\* before: its slot, once vacant, takes them.
Late(v) == {r \in Requests : req[r].pc \in {"staged", "authored"} /\ req[r].version = v
                             /\ staged[Commits[r]] # v}

\* version/delete: an owner deletes a version before the latest.
DeleteVersion ==
    /\ offer.deletes > 0
    /\ \E v \in Versions :
        /\ v < head /\ slot[v] # Empty
        /\ slot' = [slot EXCEPT ![v] = Empty]
        /\ exposed' = exposed \cup {m \in {slot[v]} : Unread(m)} \cup {Carried(r) : r \in Late(v)}
    /\ offer' = [offer EXCEPT !.deletes = @ - 1]
    /\ UNCHANGED <<head, landed, authors, doors, stock>>

Next ==
    \/ \E d \in Doors : DoorStep(d)
    \/ \E t \in Txns : StockStages(t)
    \/ \E r \in Requests : RequestStep(r)
    \/ DeleteVersion

Spec == Init /\ [][Next]_vars

-----------------------------------------------------------------------------
(* Properties. `exposed` bounds the three cases the code does not cover:   *)
(* an owner deletes the version between a put and the read that judges it; *)
(* the delete frees a version that a late copy of a request, whose         *)
(* transaction was staged anew meanwhile, still puts; and the request that *)
(* created an author record deletes it under a twin that relies on it.     *)

\* commit_stamped: "planning it again would apply the change twice". However
\* answers are lost and attempts retried, a commit lands at most once, a
\* stock writer's restaged transaction included.
LandsAtMostOnce ==
    \A a, b \in landed : a[1][1] = b[1][1] => a = b \/ {a[1], b[1]} \cap exposed # {}

\* What a writer is told is so: a door that answered a version has landed its
\* own manifest there, one that answered 409 landed nothing, and neither did
\* one it refused; a request answered 200 landed its staged manifest.
AnswersAreTrue ==
    /\ \A d \in Doors :
           /\ DoorAt(d, "returned") => <<Own(d), door[d].version>> \in landed
           /\ door[d].pc \in {"lost", "refused", "turnedAway"} =>
                  \A l \in landed : l[1][1] = d => l[1] \in exposed
    /\ \A r \in Requests : ReqAt(r, "returned") => <<Carried(r), req[r].version>> \in landed

\* _discard_unlanded_attempt: "Called only once the attempt cannot land, ... so
\* no version names these files"; and the reconciler signs a re-announcement
\* only for the author recorded for exactly the landed bytes. A landed version
\* keeps its files and, where it is announced, its author's record, however its
\* finalize was answered.
LandedKeepsItsParts ==
    \A l \in landed :
        /\ l[1] \in Attempt \ exposed => l[1] \in files
        /\ l[1][1] \in Announced /\ l[1] \notin exposed => l[1] \in authors
=============================================================================

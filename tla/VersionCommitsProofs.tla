------------------------ MODULE VersionCommitsProofs ------------------------
(***************************************************************************)
(* For any doors, transactions, requests and bounds: a commit lands at     *)
(* most once, what its writer is told is so, and a landed version keeps    *)
(* its files and its author.                                               *)
(***************************************************************************)
EXTENDS VersionCommits, TLAPS

\* The phases in which nothing of a door's commit is landed (but for what an
\* owner deleted unread), and those in which its attempt's files are stored.
Unlanded == DoorPhase \ {"conflict", "returned", "unknown"}
Written  == {"planned", "recorded", "authored", "conflict", "returned", "unknown"}

\* The phases of a request past its finalize.
Judged == {"returned", "failed", "deleting", "raised"}

\* The landings of a door's commit, or a stock transaction.
LandedBy(x) == {l \in landed : l[1][1] = x}

\* A version's slot holds what landed there, the latest version's last.
SlotsAreLanded ==
    /\ \A v \in Versions : slot[v] \notin {Empty, Elsewhere} => <<slot[v], v>> \in landed
    /\ \A v \in Versions : slot[v] # Empty => v <= head
    /\ \A l \in landed : l[2] <= head

\* A door knows of its own landing, or reads it where it landed.
DoorsKnow ==
    \A d \in Doors :
        /\ door[d].pc # "open" => door[d].version \in Versions
        /\ door[d].pc \in Unlanded => \A l \in LandedBy(d) : l[1] \in exposed
        /\ DoorAt(d, "conflict") => \A l \in LandedBy(d) :
               l[1] \in exposed \/ (l = <<Own(d), door[d].version>> /\ slot[door[d].version] = Own(d))
        /\ DoorAt(d, "returned") => <<Own(d), door[d].version>> \in landed

\* What a door recorded before its finalize is still there.
DoorsKeepParts ==
    \A d \in Doors :
        /\ door[d].pc \in Written => Own(d) \in files
        /\ DoorAt(d, "authored") /\ d \in Announced => Own(d) \in authors

\* Who sends a request, and for what.
RequestsShaped ==
    \A r \in Requests :
        /\ ReqAt(r, "idle") => req[r].version = 0
        /\ ~ ReqAt(r, "idle") => r \in offer.requests /\ req[r].version \in Versions
        /\ ReqAt(r, "authored") /\ Commits[r] \in Announced => Carried(r) \in authors \cup exposed
        /\ ReqAt(r, "returned") => <<Carried(r), req[r].version>> \in landed

\* A stock transaction lands where it is staged, and the version it is staged
\* for now unless the landing is exposed; a copy of an earlier staging is kept
\* out by what holds its version.
StagingIsCurrent ==
    /\ \A t \in Txns : \A l \in LandedBy(t) :
           l[2] = l[1][2] /\ (l[2] = staged[t] \/ l[1] \in exposed)
    /\ \A r \in Requests :
           req[r].pc \in {"staged", "authored"} /\ req[r].version # staged[Commits[r]] =>
               slot[req[r].version] # Empty \/ Carried(r) \in exposed

\* A landed stock manifest is still in its slot, or everybody who sent it has
\* heard of its landing.
LandingsAreHeard ==
    \A t \in Txns : \A l \in LandedBy(t) :
        \/ slot[l[2]] = l[1] \/ l[1] \in exposed
        \/ \A r \in offer.requests : Meant(r) = l[1] => ReqAt(r, "returned")

\* Behind every landed stock manifest is a request that put it, and one about
\* to delete the author record of a landed manifest has a twin that did.
LandersRemain ==
    /\ \A t \in Txns : \A l \in LandedBy(t) :
           \E q \in Requests : Carried(q) = l[1] /\ req[q].pc \in Judged
    /\ \A r \in Requests : ReqAt(r, "deleting") /\ <<Carried(r), req[r].version>> \in landed =>
           \/ Carried(r) \in exposed
           \/ \E q \in Requests \ {r} : Carried(q) = Carried(r) /\ ~ ReqAt(q, "staged")

VersionInv ==
    /\ TypeOK
    /\ SlotsAreLanded
    /\ DoorsKnow
    /\ DoorsKeepParts
    /\ RequestsShaped
    /\ StagingIsCurrent
    /\ LandingsAreHeard
    /\ LandersRemain
    /\ LandsAtMostOnce
    /\ LandedKeepsItsParts

-----------------------------------------------------------------------------
(* Names                                                                   *)

\* A manifest is neither of the two things a slot may hold besides.
LEMMA ManifestsAreNamed ==
    \A m \in Manifest : m # Empty /\ m # Elsewhere /\ m = <<m[1], m[2]>> /\ m[1] \in Doors \cup Txns
  BY CommitAssumption DEF Manifest, Attempt, Empty, Elsewhere

\* The manifests of a door and of a transaction are apart.
LEMMA OwnIsNamed ==
    ASSUME TypeOK, NEW d \in Doors
    PROVE  /\ Own(d) \in Attempt /\ Own(d) \in Manifest /\ Own(d)[1] = d /\ d \notin Txns
           /\ Own(d) \notin Txns \X Versions
<1>1. door[d].attempt \in 1 .. ATTEMPTS
  BY DEF TypeOK, DoorLocals
<1>2. QED
  BY <1>1, CommitAssumption DEF Own, Attempt, Manifest

\* A request's manifest is its transaction's.
LEMMA CarriedIsNamed ==
    ASSUME TypeOK, NEW r \in Requests
    PROVE  /\ Commits[r] \in Txns /\ Commits[r] \notin Doors
           /\ Carried(r)[1] = Commits[r] /\ Carried(r)[2] = req[r].version
           /\ req[r].version \in Versions =>
                 Carried(r) \in Manifest /\ Carried(r) \notin Attempt
<1>1. Commits[r] \in Txns /\ Commits[r] \notin Doors
  BY CommitAssumption
<1>2. Carried(r) = <<Commits[r], req[r].version>>
  BY DEF Carried
<1>3. Carried(r)[1] = Commits[r] /\ Carried(r)[2] = req[r].version
  BY <1>2
<1>4. QED
  BY <1>1, <1>2, <1>3 DEF Manifest, Attempt

\* What landed is a manifest, at a version.
LEMMA LandedIsNamed ==
    ASSUME TypeOK, NEW l \in landed
    PROVE  l[1] \in Manifest /\ l[2] \in Versions /\ l = <<l[1], l[2]>> /\ l[1][1] \in Doors \cup Txns
<1>1. l \in Manifest \X Versions
  BY DEF TypeOK
<1>2. l[1] \in Manifest /\ l[2] \in Versions /\ l = <<l[1], l[2]>>
  BY <1>1
<1>3. QED
  BY <1>2, ManifestsAreNamed

-----------------------------------------------------------------------------
(* The doors' steps                                                        *)

\* A step of one door that lands nothing, touches no file or author record but
\* its attempt's, and removes those only when nothing of it is landed unread.
LEMMA DoorQuiet ==
    ASSUME VersionInv, NEW d \in Doors, UNCHANGED <<ref, stock, owners>>,
           NEW l \in DoorLocals, door' = [door EXCEPT ![d] = l],
           files' \subseteq Attempt, recorded' \subseteq Attempt, authors' \subseteq Manifest,
           files \ {Own(d)} \subseteq files', authors \ {Own(d)} \subseteq authors',
           \/ files \subseteq files' /\ authors \subseteq authors'
           \/ \A k \in LandedBy(d) : k[1] \in exposed,
           l.pc # "open" => l.version \in Versions,
           l.pc \in Unlanded => \A k \in LandedBy(d) : k[1] \in exposed,
           l.pc = "conflict" => \A k \in LandedBy(d) :
               k[1] \in exposed \/ (k = <<<<d, l.attempt>>, l.version>> /\ slot[l.version] = <<d, l.attempt>>),
           l.pc = "returned" => <<<<d, l.attempt>>, l.version>> \in landed,
           l.pc \in Written => <<d, l.attempt>> \in files',
           l.pc = "authored" /\ d \in Announced => <<d, l.attempt>> \in authors'
    PROVE  VersionInv'
<1>0. /\ UNCHANGED <<slot, head, landed, staged, req, offer, exposed>> /\ TypeOK
      /\ door \in [Doors -> DoorLocals]
  BY DEF VersionInv, TypeOK, ref, stock, owners
<1>1. /\ door' \in [Doors -> DoorLocals] /\ door'[d] = l
      /\ \A e \in Doors \ {d} : door'[e] = door[e]
  BY <1>0
<1>2. TypeOK'
  BY <1>0, <1>1 DEF TypeOK
<1>3. SlotsAreLanded'
  BY <1>0 DEF VersionInv, SlotsAreLanded
<1>4. DoorsKnow'
  <2>1. LandedBy(d)' = LandedBy(d) /\ \A e \in Doors : LandedBy(e)' = LandedBy(e)
    BY <1>0 DEF LandedBy
  <2>2. ASSUME NEW e \in Doors
        PROVE  (/\ door[e].pc # "open" => door[e].version \in Versions
                /\ door[e].pc \in Unlanded => \A k \in LandedBy(e) : k[1] \in exposed
                /\ DoorAt(e, "conflict") => \A k \in LandedBy(e) :
                      k[1] \in exposed \/ (k = <<Own(e), door[e].version>> /\ slot[door[e].version] = Own(e))
                /\ DoorAt(e, "returned") => <<Own(e), door[e].version>> \in landed)'
    <3>1. CASE e = d
      <4>1. Own(d)' = <<d, l.attempt>> /\ \A pc : DoorAt(d, pc)' <=> l.pc = pc
        BY <1>1 DEF Own, DoorAt
      <4>2. QED
        BY <1>0, <1>1, <2>1, <3>1, <4>1
    <3>2. CASE e # d
      <4>1. Own(e)' = Own(e) /\ door'[e] = door[e] /\ \A pc : DoorAt(e, pc)' <=> DoorAt(e, pc)
        BY <1>1, <3>2 DEF Own, DoorAt
      <4>2. QED
        BY <1>0, <2>1, <3>2, <4>1 DEF VersionInv, DoorsKnow
    <3>3. QED
      BY <3>1, <3>2
  <2>3. QED
    BY <2>2 DEF DoorsKnow
<1>5. DoorsKeepParts'
  <2>1. ASSUME NEW e \in Doors
        PROVE  (/\ door[e].pc \in Written => Own(e) \in files
                /\ DoorAt(e, "authored") /\ e \in Announced => Own(e) \in authors)'
    <3>1. CASE e = d
      BY <1>1, <3>1 DEF Own, DoorAt
    <3>2. CASE e # d
      <4>1. Own(e)' = Own(e) /\ door'[e] = door[e] /\ Own(e) # Own(d)
        BY <1>0, <1>1, <3>2, OwnIsNamed DEF Own
      <4>2. QED
        BY <3>2, <4>1 DEF VersionInv, DoorsKeepParts, DoorAt
    <3>3. QED
      BY <3>1, <3>2
  <2>2. QED
    BY <2>1 DEF DoorsKeepParts
<1>6. RequestsShaped'
  <2>1. \A r \in Requests : Carried(r)' = Carried(r) /\ \A pc : ReqAt(r, pc)' <=> ReqAt(r, pc)
    BY <1>0 DEF Carried, ReqAt
  <2>2. \A r \in Requests : req[r].version \in Versions => Carried(r) # Own(d)
    BY <1>0, OwnIsNamed, CarriedIsNamed
  <2>3. QED
    BY <1>0, <2>1, <2>2 DEF VersionInv, RequestsShaped, ReqAt
<1>7. StagingIsCurrent'
  BY <1>0 DEF VersionInv, StagingIsCurrent, LandedBy, Carried
<1>8. LandingsAreHeard'
  BY <1>0 DEF VersionInv, LandingsAreHeard, LandedBy, Meant, ReqAt
<1>9. LandersRemain'
  BY <1>0 DEF VersionInv, LandersRemain, LandedBy, Carried, ReqAt
<1>10. LandsAtMostOnce'
  BY <1>0 DEF VersionInv, LandsAtMostOnce
<1>11. LandedKeepsItsParts'
  <2>1. ASSUME NEW k \in landed
        PROVE  /\ k[1] \in Attempt \ exposed => k[1] \in files'
               /\ k[1][1] \in Announced /\ k[1] \notin exposed => k[1] \in authors'
    <3>1. /\ k[1] \in Attempt \ exposed => k[1] \in files
          /\ k[1][1] \in Announced /\ k[1] \notin exposed => k[1] \in authors
      BY DEF VersionInv, LandedKeepsItsParts
    <3>2. CASE k[1] # Own(d)
      BY <3>1, <3>2
    <3>3. CASE k[1] = Own(d)
      <4>1. k \in LandedBy(d)
        BY <1>0, <3>3, OwnIsNamed DEF LandedBy
      <4>2. QED
        BY <3>1, <4>1
    <3>4. QED
      BY <3>2, <3>3
  <2>2. QED
    BY <1>0, <2>1 DEF LandedKeepsItsParts
<1>12. QED
  BY <1>2, <1>3, <1>4, <1>5, <1>6, <1>7, <1>8, <1>9, <1>10, <1>11 DEF VersionInv

\* Where a door goes, as its locals.
LEMMA DoorMoves ==
    ASSUME TypeOK, NEW d \in Doors, NEW phase \in DoorPhase, DoorGoes(d, phase)
    PROVE  \E l \in DoorLocals : /\ door' = [door EXCEPT ![d] = l]
                                 /\ l.pc = phase /\ l.attempt = door[d].attempt
                                 /\ l.version = door[d].version
<1>1. door[d] \in DoorLocals
  BY DEF TypeOK
<1> DEFINE l == [door[d] EXCEPT !.pc = phase]
<1>2. /\ l \in DoorLocals /\ l.pc = phase /\ l.attempt = door[d].attempt
      /\ l.version = door[d].version
  BY <1>1 DEF DoorLocals
<1>3. door' = [door EXCEPT ![d] = l]
  BY <1>1 DEF DoorGoes, TypeOK
<1>4. QED
  BY <1>2, <1>3

\* The next attempt, or the end of the last.
LEMMA NextAttemptMoves ==
    ASSUME TypeOK, NEW d \in Doors, NextAttempt(d)
    PROVE  \E l \in DoorLocals : /\ door' = [door EXCEPT ![d] = l]
                                 /\ l.pc \in {"lost", "open", "refused"}
                                 /\ l.version = door[d].version
<1>1. door[d] \in DoorLocals /\ "lost" \in DoorPhase /\ "refused" \in DoorPhase /\ "open" \in DoorPhase
  BY DEF TypeOK, DoorPhase
<1>2. CASE DoorGoes(d, "lost") \/ DoorGoes(d, "refused")
  BY <1>1, <1>2, DoorMoves
<1>3. CASE door[d].attempt # ATTEMPTS
           /\ door' = [door EXCEPT ![d].pc = "open", ![d].attempt = @ + 1]
  <2> DEFINE n == door[d].attempt + 1
             l == [door[d] EXCEPT !.pc = "open", !.attempt = n]
  <2>1. door[d].attempt \in 1 .. ATTEMPTS
    BY <1>1 DEF DoorLocals
  <2>2. n \in 1 .. ATTEMPTS
    BY <1>3, <2>1, CommitAssumption
  <2>3. door' = [door EXCEPT ![d] = l]
    BY <1>1, <1>3 DEF TypeOK
  <2> HIDE DEF n
  <2>4. l \in DoorLocals /\ l.pc = "open" /\ l.version = door[d].version
    BY <1>1, <2>2 DEF DoorLocals
  <2>5. QED
    BY <2>3, <2>4
<1>4. QED
  BY <1>2, <1>3 DEF NextAttempt

\* A step of a door that has landed nothing, and lands nothing.
LEMMA DoorUnlanded ==
    ASSUME VersionInv, NEW d \in Doors, UNCHANGED <<ref, stock, owners>>, door[d].pc \in Unlanded,
           NEW l \in DoorLocals, door' = [door EXCEPT ![d] = l], l.pc # "returned",
           l.pc = "open" \/ l.version \in Versions,
           files' \subseteq Attempt, recorded' \subseteq Attempt, authors' \subseteq Manifest,
           files \ {Own(d)} \subseteq files', authors \ {Own(d)} \subseteq authors',
           l.pc \in Written => <<d, l.attempt>> \in files',
           l.pc = "authored" /\ d \in Announced => <<d, l.attempt>> \in authors'
    PROVE  VersionInv'
<1>1. \A k \in LandedBy(d) : k[1] \in exposed
  BY DEF VersionInv, DoorsKnow
<1>2. QED
  BY <1>1, DoorQuiet

\* Every step of a door but the one that lands keeps the invariant.
LEMMA DoorStepKeeps ==
    ASSUME VersionInv, NEW d \in Doors, DoorStep(d), ~ DoorLands(d)
    PROVE  VersionInv'
<1>0. /\ TypeOK /\ door[d] \in DoorLocals /\ files \subseteq Attempt /\ recorded \subseteq Attempt
      /\ authors \subseteq Manifest
  BY DEF VersionInv, TypeOK
<1>1. /\ Own(d) = <<d, door[d].attempt>> /\ Own(d) \in Attempt /\ Own(d) \in Manifest
  BY <1>0, OwnIsNamed DEF Own
<1>2. /\ door[d].pc # "open" => door[d].version \in Versions
      /\ door[d].pc \in Written => Own(d) \in files
      /\ DoorAt(d, "authored") /\ d \in Announced => Own(d) \in authors
  BY DEF VersionInv, DoorsKnow, DoorsKeepParts
<1>3. CASE DoorOpens(d)
  <2> DEFINE v == head + 1
             l == [door[d] EXCEPT !.pc = "opened", !.version = v]
  <2>1. /\ UNCHANGED <<ref, stock, owners, files, recorded, authors>> /\ door[d].pc = "open"
        /\ door' = [door EXCEPT ![d] = l] /\ head < MaxVersion
    BY <1>0, <1>3 DEF DoorOpens, DoorAt, TypeOK
  <2>2. v \in Versions /\ v \in 0 .. MaxVersion
    BY <1>0, <2>1, CommitAssumption DEF TypeOK, Versions
  <2> HIDE DEF v
  <2>3. l \in DoorLocals /\ l.pc = "opened" /\ l.version = v
    BY <1>0, <2>2 DEF DoorLocals, DoorPhase
  <2>4. "open" \in Unlanded /\ "opened" \notin Written
    BY DEF Unlanded, DoorPhase, Written
  <2> HIDE DEF l
  <2>5. QED
    BY <1>0, <2>1, <2>2, <2>3, <2>4, DoorUnlanded
<1>4. CASE DoorPlanIsStale(d)
  <2>1. /\ UNCHANGED <<ref, stock, owners, files, recorded, authors>> /\ door[d].pc = "opened"
        /\ NextAttempt(d)
    BY <1>4 DEF DoorPlanIsStale, DoorAt
  <2>2. PICK l \in DoorLocals : /\ door' = [door EXCEPT ![d] = l]
                                /\ l.pc \in {"lost", "open", "refused"}
                                /\ l.version = door[d].version
    BY <1>0, <2>1, NextAttemptMoves
  <2>3. "opened" \in Unlanded /\ l.pc \notin Written /\ l.pc # "returned" /\ l.pc # "authored"
    BY <2>2 DEF Unlanded, DoorPhase, Written
  <2>4. QED
    BY <1>0, <1>2, <2>1, <2>2, <2>3, DoorUnlanded
<1>5. CASE DoorPlans(d)
  <2>1. /\ UNCHANGED <<ref, stock, owners, recorded, authors>> /\ door[d].pc = "opened"
        /\ DoorGoes(d, "planned") /\ files' = files \cup {Own(d)}
    BY <1>5 DEF DoorPlans, DoorAt
  <2>2. "opened" \in Unlanded /\ "planned" \in DoorPhase
    BY DEF Unlanded, DoorPhase
  <2>3. PICK l \in DoorLocals : /\ door' = [door EXCEPT ![d] = l]
                                /\ l.pc = "planned" /\ l.attempt = door[d].attempt
                                /\ l.version = door[d].version
    BY <1>0, <2>1, <2>2, DoorMoves
  <2>4. QED
    BY <1>0, <1>1, <1>2, <2>1, <2>2, <2>3, DoorUnlanded
<1>6. CASE DoorRecordsFiles(d)
  <2>1. /\ UNCHANGED <<ref, stock, owners, files, authors>> /\ door[d].pc = "planned"
        /\ DoorGoes(d, "recorded") /\ recorded' = recorded \cup {Own(d)}
    BY <1>6 DEF DoorRecordsFiles, DoorAt
  <2>2. "planned" \in Unlanded /\ "planned" \in Written /\ "recorded" \in DoorPhase
    BY DEF Unlanded, DoorPhase, Written
  <2>3. PICK l \in DoorLocals : /\ door' = [door EXCEPT ![d] = l]
                                /\ l.pc = "recorded" /\ l.attempt = door[d].attempt
                                /\ l.version = door[d].version
    BY <1>0, <2>1, <2>2, DoorMoves
  <2>4. QED
    BY <1>0, <1>1, <1>2, <2>1, <2>2, <2>3, DoorUnlanded
<1>7. CASE DoorRecordsAuthor(d)
  <2>1. /\ UNCHANGED <<ref, stock, owners, files, recorded>> /\ door[d].pc = "recorded"
        /\ DoorGoes(d, "authored")
        /\ authors' = IF d \in Announced THEN authors \cup {Own(d)} ELSE authors
    BY <1>7 DEF DoorRecordsAuthor, DoorAt
  <2>2. "recorded" \in Unlanded /\ "recorded" \in Written /\ "authored" \in DoorPhase
    BY DEF Unlanded, DoorPhase, Written
  <2>3. PICK l \in DoorLocals : /\ door' = [door EXCEPT ![d] = l]
                                /\ l.pc = "authored" /\ l.attempt = door[d].attempt
                                /\ l.version = door[d].version
    BY <1>0, <2>1, <2>2, DoorMoves
  <2>4. QED
    BY <1>0, <1>1, <1>2, <2>1, <2>2, <2>3, DoorUnlanded
<1>8. CASE DoorIsRefused(d)
  <2> DEFINE l == [door[d] EXCEPT !.pc = "discarding", !.then = "raise"]
  <2>1. /\ UNCHANGED <<ref, stock, owners, files, recorded>> /\ door[d].pc \in {"planned", "recorded"}
        /\ door' = [door EXCEPT ![d] = l]
        /\ authors' \in {authors, authors \cup {Own(d)}}
    BY <1>0, <1>8 DEF DoorIsRefused, DoorAt, TypeOK
  <2>2. door[d].pc \in Unlanded /\ "discarding" \notin Written
    BY <2>1 DEF Unlanded, DoorPhase, Written
  <2>3. l \in DoorLocals /\ l.pc = "discarding" /\ l.version = door[d].version
    BY <1>0 DEF DoorLocals, DoorPhase
  <2> HIDE DEF l
  <2>4. QED
    BY <1>0, <1>1, <1>2, <2>1, <2>2, <2>3, DoorUnlanded
<1>9. CASE DoorLoses(d) \/ DoorFinalizeFails(d)
  <2>1. UNCHANGED <<ref, stock, owners, files, recorded, authors>> /\ door[d].pc = "authored"
    BY <1>9 DEF DoorLoses, DoorFinalizeFails, DoorAt
  <2>2. PICK phase \in {"conflict", "unknown"} : DoorGoes(d, phase)
    BY <1>9 DEF DoorLoses, DoorFinalizeFails
  <2>3. "authored" \in Unlanded /\ "authored" \in Written /\ phase \in DoorPhase
    BY DEF Unlanded, DoorPhase, Written
  <2>4. PICK l \in DoorLocals : /\ door' = [door EXCEPT ![d] = l]
                                /\ l.pc = phase /\ l.attempt = door[d].attempt
                                /\ l.version = door[d].version
    BY <1>0, <2>2, <2>3, DoorMoves
  <2>5. QED
    BY <1>0, <1>1, <1>2, <2>1, <2>2, <2>3, <2>4, DoorUnlanded
<1>10. CASE DoorIsTurnedAway(d)
  <2>1. /\ UNCHANGED <<ref, stock, owners, files, recorded>> /\ door[d].pc = "authored"
        /\ DoorGoes(d, "turnedAway") /\ authors' \in {authors, authors \ {Own(d)}}
    BY <1>10 DEF DoorIsTurnedAway, DoorAt
  <2>2. "authored" \in Unlanded /\ "turnedAway" \notin Written /\ "turnedAway" \in DoorPhase
    BY DEF Unlanded, DoorPhase, Written
  <2>3. PICK l \in DoorLocals : /\ door' = [door EXCEPT ![d] = l]
                                /\ l.pc = "turnedAway" /\ l.attempt = door[d].attempt
                                /\ l.version = door[d].version
    BY <1>0, <2>1, <2>2, DoorMoves
  <2>4. QED
    BY <1>0, <1>1, <1>2, <2>1, <2>2, <2>3, DoorUnlanded
<1>11. CASE DoorReadsLanding(d)
  <2>1. /\ UNCHANGED <<ref, stock, owners, files, recorded, authors>> /\ door[d].pc = "conflict"
        /\ "conflict" \in Written
    BY <1>11 DEF DoorReadsLanding, DoorAt, Written
  <2>2. \A k \in LandedBy(d) : \/ k[1] \in exposed
                               \/ k = <<Own(d), door[d].version>> /\ slot[door[d].version] = Own(d)
    BY <2>1 DEF VersionInv, DoorsKnow, DoorAt
  <2>3. \E phase \in {"returned", "unknown", "losing", "ambiguous"} :
            /\ DoorGoes(d, phase)
            /\ phase = "returned" => Holds(door[d].version, Own(d))
            /\ phase \in {"losing", "ambiguous"} => ~ Holds(door[d].version, Own(d))
    BY <1>11 DEF DoorReadsLanding
  <2>4. PICK phase \in {"returned", "unknown", "losing", "ambiguous"} :
            /\ DoorGoes(d, phase)
            /\ phase = "returned" => Holds(door[d].version, Own(d))
            /\ phase \in {"losing", "ambiguous"} => ~ Holds(door[d].version, Own(d))
    BY <2>3
  <2>5. phase \in DoorPhase
    BY DEF DoorPhase
  <2>6. PICK l \in DoorLocals : /\ door' = [door EXCEPT ![d] = l]
                                /\ l.pc = phase /\ l.attempt = door[d].attempt
                                /\ l.version = door[d].version
    BY <1>0, <2>4, <2>5, DoorMoves
  <2>7. phase = "returned" => <<Own(d), door[d].version>> \in landed
    <3>1. door[d].version \in Versions
      BY <1>2, <2>1
    <3>2. Own(d) # Empty /\ Own(d) # Elsewhere
      BY <1>1, ManifestsAreNamed
    <3>3. QED
      BY <2>4, <3>1, <3>2 DEF Holds, VersionInv, SlotsAreLanded
  <2>8. phase \in {"losing", "ambiguous"} => \A k \in LandedBy(d) : k[1] \in exposed
    BY <2>2, <2>4 DEF Holds
  <2>9. phase \in Unlanded => phase \in {"losing", "ambiguous"}
    BY DEF Unlanded
  <2>10. QED
    BY <1>0, <1>1, <1>2, <2>1, <2>4, <2>6, <2>7, <2>8, <2>9, DoorQuiet
<1>12. CASE DoorForgetsAuthor(d)
  <2>1. /\ UNCHANGED <<ref, stock, owners, files, recorded>> /\ door[d].pc \in {"losing", "ambiguous"}
        /\ authors' \in {authors, authors \ {Own(d)}}
    BY <1>12 DEF DoorForgetsAuthor, DoorAt
  <2>2. door[d].pc \in Unlanded
    BY <2>1 DEF Unlanded, DoorPhase
  <2>3. CASE DoorAt(d, "losing")
    <3> DEFINE l == [door[d] EXCEPT !.pc = "discarding", !.then = "again"]
    <3>1. door' = [door EXCEPT ![d] = l]
      BY <1>0, <1>12, <2>3 DEF DoorForgetsAuthor, TypeOK
    <3>2. l \in DoorLocals /\ l.pc = "discarding" /\ l.version = door[d].version
      BY <1>0 DEF DoorLocals, DoorPhase
    <3>3. "discarding" \notin Written
      BY DEF Written
    <3> HIDE DEF l
    <3>4. QED
      BY <1>0, <1>1, <1>2, <2>1, <2>2, <3>1, <3>2, <3>3, DoorUnlanded
  <2>4. CASE ~ DoorAt(d, "losing")
    <3>1. NextAttempt(d)
      BY <1>12, <2>4 DEF DoorForgetsAuthor
    <3>2. PICK l \in DoorLocals : /\ door' = [door EXCEPT ![d] = l]
                                  /\ l.pc \in {"lost", "open", "refused"}
                                  /\ l.version = door[d].version
      BY <1>0, <3>1, NextAttemptMoves
    <3>3. l.pc \notin Written /\ l.pc # "returned" /\ l.pc # "authored"
      BY <3>2 DEF Written
    <3>4. QED
      BY <1>0, <1>1, <1>2, <2>1, <2>2, <3>2, <3>3, DoorUnlanded
  <2>5. QED
    BY <2>3, <2>4
<1>13. CASE DoorDiscards(d)
  <2>1. /\ UNCHANGED <<ref, stock, owners, recorded, authors>> /\ door[d].pc = "discarding"
        /\ DoorGoes(d, "forgetting") /\ files' \in {files, files \ {Own(d)}}
    BY <1>13 DEF DoorDiscards, DoorAt
  <2>2. "discarding" \in Unlanded /\ "forgetting" \in DoorPhase /\ "forgetting" \notin Written
    BY DEF Unlanded, DoorPhase, Written
  <2>3. PICK l \in DoorLocals : /\ door' = [door EXCEPT ![d] = l]
                                /\ l.pc = "forgetting" /\ l.attempt = door[d].attempt
                                /\ l.version = door[d].version
    BY <1>0, <2>1, <2>2, DoorMoves
  <2>4. QED
    BY <1>0, <1>1, <1>2, <2>1, <2>2, <2>3, DoorUnlanded
<1>14. CASE DoorForgetsFiles(d)
  <2>1. /\ UNCHANGED <<ref, stock, owners, files, authors>> /\ door[d].pc = "forgetting"
        /\ recorded' \in {recorded, recorded \ {Own(d)}}
    BY <1>14 DEF DoorForgetsFiles, DoorAt
  <2>2. "forgetting" \in Unlanded /\ "refused" \in DoorPhase
    BY DEF Unlanded, DoorPhase
  <2>3. PICK l \in DoorLocals : /\ door' = [door EXCEPT ![d] = l]
                                /\ l.pc \in {"lost", "open", "refused"}
                                /\ l.version = door[d].version
    <3>1. DoorGoes(d, "refused") \/ NextAttempt(d)
      BY <1>14 DEF DoorForgetsFiles
    <3>2. CASE DoorGoes(d, "refused")
      BY <1>0, <2>2, <3>2, DoorMoves
    <3>3. CASE NextAttempt(d)
      BY <1>0, <3>3, NextAttemptMoves
    <3>4. QED
      BY <3>1, <3>2, <3>3
  <2>4. l.pc \notin Written /\ l.pc # "returned" /\ l.pc # "authored"
    BY <2>3 DEF Written
  <2>5. QED
    BY <1>0, <1>1, <1>2, <2>1, <2>2, <2>3, <2>4, DoorUnlanded
<1>15. QED
  BY <1>3, <1>4, <1>5, <1>6, <1>7, <1>8, <1>9, <1>10, <1>11, <1>12, <1>13, <1>14 DEF DoorStep

\* What a put changes: the vacant version holds the manifest, every other one
\* what it held.
LEMMA LandsAt ==
    ASSUME TypeOK, NEW m \in Manifest, NEW v, Vacant(v), Lands(m, v)
    PROVE  /\ v \in Versions /\ slot[v] = Empty /\ slot'[v] = m
           /\ \A u \in Versions \ {v} : slot'[u] = slot[u]
           /\ landed' = landed \cup {<<m, v>>}
           /\ slot' \in [Versions -> Manifest \cup {Empty, Elsewhere}]
           /\ head' \in Versions /\ head <= head' /\ v <= head'
           /\ landed' \subseteq Manifest \X Versions
<1>1. /\ slot \in [Versions -> Manifest \cup {Empty, Elsewhere}] /\ head \in Versions
      /\ landed \subseteq Manifest \X Versions /\ v \in Versions /\ slot[v] = Empty
  BY DEF TypeOK, Vacant
<1>2. head' \in Versions /\ head <= head' /\ v <= head'
  BY <1>1, CommitAssumption DEF Lands, Versions
<1>3. QED
  BY <1>1, <1>2 DEF Lands

\* A put keeps the slots to what landed in them.
LEMMA LandsInSlots ==
    ASSUME VersionInv, NEW m \in Manifest, NEW v, Vacant(v), Lands(m, v)
    PROVE  SlotsAreLanded'
<1>0. TypeOK /\ SlotsAreLanded /\ head \in Versions
  BY DEF VersionInv, TypeOK
<1>1. /\ v \in Versions /\ slot'[v] = m /\ \A u \in Versions \ {v} : slot'[u] = slot[u]
      /\ landed' = landed \cup {<<m, v>>} /\ head' \in Versions /\ head <= head' /\ v <= head'
  BY <1>0, LandsAt
<1>2. \A u \in Versions : slot'[u] \notin {Empty, Elsewhere} => <<slot'[u], u>> \in landed'
  BY <1>0, <1>1 DEF SlotsAreLanded
<1>3. \A u \in Versions : u <= head => u <= head'
  BY <1>0, <1>1, CommitAssumption DEF Versions
<1>4. \A u \in Versions : slot'[u] # Empty => u <= head'
  BY <1>0, <1>1, <1>3 DEF SlotsAreLanded
<1>5. \A l \in landed' : l[2] <= head'
  BY <1>0, <1>1, <1>3, LandedIsNamed DEF SlotsAreLanded
<1>6. QED
  BY <1>2, <1>4, <1>5 DEF SlotsAreLanded

\* The step that lands a door's commit.
LEMMA DoorLandsKeeps ==
    ASSUME VersionInv, NEW d \in Doors, DoorLands(d)
    PROVE  VersionInv'
<1> DEFINE m == Own(d)
           v == door[d].version
<1>0. TypeOK /\ UNCHANGED <<files, recorded, authors, staged, req, offer, exposed>>
      /\ door[d].pc = "authored" /\ Vacant(v) /\ Lands(m, v)
  BY DEF VersionInv, DoorLands, DoorAt, stock, owners
<1>1. m \in Attempt /\ m \in Manifest /\ m[1] = d /\ d \notin Txns /\ m # Empty
  BY <1>0, OwnIsNamed, ManifestsAreNamed
<1>2. PICK phase \in {"returned", "conflict", "unknown"} : DoorGoes(d, phase)
  BY DEF DoorLands
<1>3. PICK l \in DoorLocals : /\ door' = [door EXCEPT ![d] = l]
                              /\ l.pc = phase /\ l.attempt = door[d].attempt
                              /\ l.version = v
  <2>1. phase \in DoorPhase
    BY DEF DoorPhase
  <2>2. QED
    BY <1>0, <1>2, <2>1, DoorMoves
<1>4. /\ door' \in [Doors -> DoorLocals] /\ door'[d] = l
      /\ \A e \in Doors \ {d} : door'[e] = door[e]
  BY <1>0, <1>3 DEF TypeOK
<1>5. Own(d)' = m /\ \A e \in Doors \ {d} : Own(e)' = Own(e) /\ Own(e) # m /\ Own(e) # Empty
  BY <1>0, <1>3, <1>4, OwnIsNamed, ManifestsAreNamed DEF Own
<1>6. /\ v \in Versions /\ slot[v] = Empty /\ slot'[v] = m
      /\ \A u \in Versions \ {v} : slot'[u] = slot[u]
      /\ landed' = landed \cup {<<m, v>>}
      /\ slot' \in [Versions -> Manifest \cup {Empty, Elsewhere}]
      /\ head' \in Versions /\ landed' \subseteq Manifest \X Versions
  BY <1>0, <1>1, LandsAt
<1> HIDE DEF m, v
<1>7. /\ LandedBy(d)' = LandedBy(d) \cup {<<m, v>>}
      /\ \A x : x # d => LandedBy(x)' = LandedBy(x)
  <2>1. <<m, v>>[1] = m
    OBVIOUS
  <2>2. QED
    BY <1>1, <1>6, <2>1 DEF LandedBy
<1>8. \A k \in LandedBy(d) : k[1] \in exposed
  <2>1. door[d].pc \in Unlanded
    BY <1>0 DEF Unlanded, DoorPhase
  <2>2. QED
    BY <2>1 DEF VersionInv, DoorsKnow
<1>9. TypeOK'
  BY <1>0, <1>4, <1>6 DEF TypeOK
<1>10. SlotsAreLanded'
  BY <1>0, <1>1, LandsInSlots
<1>11. DoorsKnow'
  <2>1. ASSUME NEW e \in Doors
        PROVE  (/\ door[e].pc # "open" => door[e].version \in Versions
                /\ door[e].pc \in Unlanded => \A k \in LandedBy(e) : k[1] \in exposed
                /\ DoorAt(e, "conflict") => \A k \in LandedBy(e) :
                      k[1] \in exposed \/ (k = <<Own(e), door[e].version>> /\ slot[door[e].version] = Own(e))
                /\ DoorAt(e, "returned") => <<Own(e), door[e].version>> \in landed)'
    <3>1. CASE e = d
      <4>1. phase \notin Unlanded
        BY DEF Unlanded
      <4>2. QED
        BY <1>0, <1>3, <1>4, <1>5, <1>6, <1>7, <1>8, <3>1, <4>1 DEF DoorAt
    <3>2. CASE e # d
      <4>1. /\ door[e].pc # "open" => door[e].version \in Versions
            /\ door[e].pc \in Unlanded => \A k \in LandedBy(e) : k[1] \in exposed
            /\ door[e].pc = "conflict" => \A k \in LandedBy(e) :
                  k[1] \in exposed \/ (k = <<Own(e), door[e].version>> /\ slot[door[e].version] = Own(e))
            /\ door[e].pc = "returned" => <<Own(e), door[e].version>> \in landed
        BY DEF VersionInv, DoorsKnow, DoorAt
      <4>2. Own(e)' = Own(e) /\ door'[e] = door[e] /\ LandedBy(e)' = LandedBy(e) /\ Own(e) # Empty
        BY <1>4, <1>5, <1>7, <3>2
      <4>3. door[e].version \in Versions /\ slot[door[e].version] = Own(e) =>
                slot'[door[e].version] = Own(e)
        BY <1>6, <4>2
      <4>4. QED
        BY <1>0, <1>6, <4>1, <4>2, <4>3 DEF DoorAt
    <3>3. QED
      BY <3>1, <3>2
  <2>2. QED
    BY <2>1 DEF DoorsKnow
<1>12. DoorsKeepParts'
  <2>1. m \in files
    BY <1>0 DEF VersionInv, DoorsKeepParts, Written, m
  <2>2. \A e \in Doors \ {d} : (/\ door[e].pc \in Written => Own(e) \in files
                                /\ DoorAt(e, "authored") /\ e \in Announced => Own(e) \in authors)'
    BY <1>0, <1>4, <1>5 DEF VersionInv, DoorsKeepParts, DoorAt
  <2>3. (/\ door[d].pc \in Written => Own(d) \in files
         /\ DoorAt(d, "authored") /\ d \in Announced => Own(d) \in authors)'
    BY <1>0, <1>3, <1>4, <1>5, <2>1 DEF DoorAt
  <2>4. QED
    BY <2>2, <2>3 DEF DoorsKeepParts
<1>13. \A r \in Requests : /\ Carried(r)' = Carried(r) /\ Meant(r)' = Meant(r)
                           /\ \A pc : ReqAt(r, pc)' <=> ReqAt(r, pc)
                           /\ Carried(r) # m
  BY <1>0, <1>1, CarriedIsNamed DEF Carried, Meant, ReqAt
<1>14. RequestsShaped'
  BY <1>0, <1>6, <1>13 DEF VersionInv, RequestsShaped
<1>15. StagingIsCurrent'
  <2>1. \A t \in Txns : LandedBy(t)' = LandedBy(t)
    BY <1>1, <1>7
  <2>2. \A u \in Versions : slot[u] # Empty => slot'[u] # Empty
    BY <1>6
  <2>3. \A r \in Requests : req[r].pc \in {"staged", "authored"} => req[r].version \in Versions
    BY DEF VersionInv, RequestsShaped, ReqAt
  <2>4. QED
    BY <1>0, <1>13, <2>1, <2>2, <2>3 DEF VersionInv, StagingIsCurrent
<1>16. LandingsAreHeard'
  <2>1. \A t \in Txns : LandedBy(t)' = LandedBy(t)
    BY <1>1, <1>7
  <2>2. \A k \in landed : slot[k[2]] = k[1] => slot'[k[2]] = k[1]
    BY <1>0, <1>6, LandedIsNamed, ManifestsAreNamed
  <2>3. \A t \in Txns : \A k \in LandedBy(t) : k \in landed
    BY DEF LandedBy
  <2>4. \A r \in offer.requests : r \in Requests
    BY <1>0 DEF TypeOK
  <2>5. QED
    BY <1>0, <1>13, <2>1, <2>2, <2>3, <2>4 DEF VersionInv, LandingsAreHeard
<1>17. LandersRemain'
  <2>1. \A t \in Txns : LandedBy(t)' = LandedBy(t)
    BY <1>1, <1>7
  <2>2. \A r \in Requests : <<Carried(r), req[r].version>> \in landed' =>
                            <<Carried(r), req[r].version>> \in landed
    BY <1>6, <1>13
  <2>3. QED
    BY <1>0, <1>13, <2>1, <2>2 DEF VersionInv, LandersRemain
<1>18. LandsAtMostOnce'
  <2>1. ASSUME NEW a \in landed', NEW b \in landed', a[1][1] = b[1][1]
        PROVE  a = b \/ {a[1], b[1]} \cap exposed # {}
    <3>1. CASE a \in landed /\ b \in landed
      BY <2>1, <3>1 DEF VersionInv, LandsAtMostOnce
    <3>2. \A k \in landed : k[1][1] = d => k[1] \in exposed
      BY <1>8 DEF LandedBy
    <3>3. <<m, v>>[1][1] = d
      BY <1>1
    <3>4. CASE a = <<m, v>>
      BY <1>6, <2>1, <3>2, <3>3, <3>4
    <3>5. CASE b = <<m, v>>
      BY <1>6, <2>1, <3>2, <3>3, <3>5
    <3>6. QED
      BY <1>6, <3>1, <3>4, <3>5
  <2>2. QED
    BY <1>0, <2>1 DEF LandsAtMostOnce
<1>19. LandedKeepsItsParts'
  <2>1. m \in files /\ (d \in Announced => m \in authors)
    BY <1>0 DEF VersionInv, DoorsKeepParts, Written, DoorAt, m
  <2>2. <<m, v>>[1] = m
    OBVIOUS
  <2>3. \A k \in landed' : k \in landed \/ k[1] = m
    BY <1>6, <2>2
  <2>4. QED
    BY <1>0, <1>1, <2>1, <2>3 DEF VersionInv, LandedKeepsItsParts
<1>20. QED
  BY <1>9, <1>10, <1>11, <1>12, <1>14, <1>15, <1>16, <1>17, <1>18, <1>19 DEF VersionInv

-----------------------------------------------------------------------------
(* The requests' steps                                                     *)

\* A step of one request that lands nothing, and touches no author record but
\* its manifest's.
LEMMA RequestQuiet ==
    ASSUME VersionInv, NEW r \in Requests, UNCHANGED <<ref, doors, staged, offer>>,
           NEW l \in ReqLocals, req' = [req EXCEPT ![r] = l],
           NEW m, m = <<Commits[r], l.version>>,
           authors' \subseteq Manifest, authors \ {m} \subseteq authors',
           exposed \subseteq exposed', exposed' \subseteq Manifest \cup {Elsewhere},
           r \in offer.requests, l.version \in Versions, l.pc \notin {"idle", "returned"},
           req[r].pc # "returned",
           req[r].pc # "idle" => l.version = req[r].version,
           req[r].pc = "idle" => l.version = staged[Commits[r]],
           req[r].pc \in Judged => l.pc \in Judged,
           req[r].pc \notin {"idle", "staged"} => l.pc # "staged",
           l.pc \in {"staged", "authored"} => req[r].pc \in {"idle", "staged", "authored"},
           l.pc = "authored" /\ Commits[r] \in Announced => m \in authors' \cup exposed',
           l.pc = "deleting" /\ <<m, l.version>> \in landed =>
               \/ m \in exposed'
               \/ \E q \in Requests \ {r} : Carried(q) = m /\ ~ ReqAt(q, "staged"),
           m \in authors \ authors' =>
               \/ m \in exposed'
               \/ /\ <<m, l.version>> \notin landed
                  /\ \A q \in Requests \ {r} : Carried(q) = m => ReqAt(q, "staged")
    PROVE  VersionInv'
<1>0. /\ TypeOK /\ UNCHANGED <<slot, head, landed, files, recorded, door, staged, offer>>
      /\ req \in [Requests -> ReqLocals] /\ offer.requests \subseteq Requests
  BY DEF VersionInv, TypeOK, ref, doors
<1>1. /\ req' \in [Requests -> ReqLocals] /\ req'[r] = l
      /\ \A q \in Requests \ {r} : req'[q] = req[q]
  BY <1>0
<1>2. /\ Carried(r)' = m /\ \A pc : ReqAt(r, pc)' <=> l.pc = pc
      /\ \A q \in Requests \ {r} : /\ Carried(q)' = Carried(q) /\ Meant(q)' = Meant(q)
                                   /\ \A pc : ReqAt(q, pc)' <=> ReqAt(q, pc)
  BY <1>0, <1>1 DEF Carried, Meant, ReqAt
<1>3. Meant(r)' = m /\ Meant(r) = m /\ (req[r].pc # "idle" => Carried(r) = m)
  BY <1>0, <1>1, <1>2 DEF Carried, Meant, ReqAt
<1>4. /\ m \in Manifest /\ m \notin Attempt /\ m[1] = Commits[r] /\ m[2] = l.version
      /\ Commits[r] \in Txns /\ Commits[r] \notin Doors
  BY <1>0, CommitAssumption DEF Manifest, Attempt
<1>5. TypeOK'
  BY <1>0, <1>1 DEF TypeOK
<1>6. SlotsAreLanded'
  BY <1>0 DEF VersionInv, SlotsAreLanded
<1>7. DoorsKnow'
  <2>1. \A d \in Doors : LandedBy(d)' = LandedBy(d) /\ Own(d)' = Own(d)
                         /\ \A pc : DoorAt(d, pc)' <=> DoorAt(d, pc)
    BY <1>0 DEF LandedBy, Own, DoorAt
  <2>2. QED
    BY <1>0, <2>1 DEF VersionInv, DoorsKnow
<1>8. DoorsKeepParts'
  <2>1. \A d \in Doors : Own(d) # m
    BY <1>0, <1>4, OwnIsNamed
  <2>2. QED
    BY <1>0, <2>1 DEF VersionInv, DoorsKeepParts, Own, DoorAt
<1>9. RequestsShaped'
  <2>1. ASSUME NEW q \in Requests
        PROVE  (/\ ReqAt(q, "idle") => req[q].version = 0
                /\ ~ ReqAt(q, "idle") => q \in offer.requests /\ req[q].version \in Versions
                /\ ReqAt(q, "authored") /\ Commits[q] \in Announced => Carried(q) \in authors \cup exposed
                /\ ReqAt(q, "returned") => <<Carried(q), req[q].version>> \in landed)'
    <3>1. CASE q = r
      BY <1>0, <1>1, <1>2, <3>1
    <3>2. CASE q # r
      <4>1. /\ ReqAt(q, "idle") => req[q].version = 0
            /\ ~ ReqAt(q, "idle") => q \in offer.requests /\ req[q].version \in Versions
            /\ ReqAt(q, "authored") /\ Commits[q] \in Announced => Carried(q) \in authors \cup exposed
            /\ ReqAt(q, "returned") => <<Carried(q), req[q].version>> \in landed
        BY DEF VersionInv, RequestsShaped
      <4>2. ReqAt(q, "authored") /\ Commits[q] \in Announced => Carried(q) \in authors' \cup exposed'
        BY <3>2, <4>1 DEF ReqAt
      <4>3. QED
        BY <1>0, <1>1, <1>2, <3>2, <4>1, <4>2
    <3>3. QED
      BY <3>1, <3>2
  <2>2. QED
    BY <2>1 DEF RequestsShaped
<1>10. StagingIsCurrent'
  <2>1. \A t \in Txns : \A k \in LandedBy(t)' :
            k[2] = k[1][2] /\ (k[2] = staged'[t] \/ k[1] \in exposed')
    BY <1>0 DEF VersionInv, StagingIsCurrent, LandedBy
  <2>2. ASSUME NEW q \in Requests, req'[q].pc \in {"staged", "authored"},
               req'[q].version # staged'[Commits[q]]
        PROVE  slot'[req'[q].version] # Empty \/ Carried(q)' \in exposed'
    <3>1. CASE q = r
      <4>1. req[r].pc \in {"staged", "authored"} /\ l.version = req[r].version
        BY <1>0, <1>1, <2>2, <3>1
      <4>2. slot[req[r].version] # Empty \/ Carried(r) \in exposed
        BY <1>0, <1>1, <2>2, <3>1, <4>1 DEF VersionInv, StagingIsCurrent
      <4>3. QED
        BY <1>0, <1>1, <1>2, <1>3, <3>1, <4>1, <4>2
    <3>2. CASE q # r
      BY <1>0, <1>1, <1>2, <2>2, <3>2 DEF VersionInv, StagingIsCurrent
    <3>3. QED
      BY <3>1, <3>2
  <2>3. QED
    BY <2>1, <2>2 DEF StagingIsCurrent
<1>11. LandingsAreHeard'
  <2>1. ASSUME NEW t \in Txns, NEW k \in LandedBy(t)
        PROVE  \/ slot[k[2]] = k[1] \/ k[1] \in exposed'
               \/ \A q \in offer.requests : Meant(q)' = k[1] => ReqAt(q, "returned")'
    <3>1. \/ slot[k[2]] = k[1] \/ k[1] \in exposed
          \/ \A q \in offer.requests : Meant(q) = k[1] => ReqAt(q, "returned")
      BY DEF VersionInv, LandingsAreHeard
    <3>2. Meant(r) = k[1] => ~ ReqAt(r, "returned")
      BY DEF ReqAt
    <3>3. QED
      BY <1>0, <1>2, <1>3, <3>1, <3>2
  <2>2. \A t \in Txns : LandedBy(t)' = LandedBy(t)
    BY <1>0 DEF LandedBy
  <2>3. QED
    BY <1>0, <2>1, <2>2 DEF LandingsAreHeard
<1>12. LandersRemain'
  <2>1. ASSUME NEW t \in Txns, NEW k \in LandedBy(t)
        PROVE  \E q \in Requests : Carried(q)' = k[1] /\ req'[q].pc \in Judged
    <3>1. PICK q \in Requests : Carried(q) = k[1] /\ req[q].pc \in Judged
      BY DEF VersionInv, LandersRemain
    <3>2. CASE q = r
      BY <1>1, <1>2, <1>3, <3>1, <3>2 DEF Judged
    <3>3. CASE q # r
      BY <1>1, <1>2, <3>1, <3>3
    <3>4. QED
      BY <3>2, <3>3
  <2>2. ASSUME NEW q \in Requests, ReqAt(q, "deleting")', <<Carried(q)', req'[q].version>> \in landed
        PROVE  \/ Carried(q)' \in exposed'
               \/ \E p \in Requests \ {q} : Carried(p)' = Carried(q)' /\ ~ ReqAt(p, "staged")'
    <3>1. CASE q = r
      <4>1. m \in exposed' \/ \E p \in Requests \ {r} : Carried(p) = m /\ ~ ReqAt(p, "staged")
        BY <1>1, <1>2, <2>2, <3>1
      <4>2. QED
        BY <1>2, <3>1, <4>1
    <3>2. CASE q # r
      <4>1. /\ ReqAt(q, "deleting") /\ <<Carried(q), req[q].version>> \in landed
            /\ Carried(q)' = Carried(q) /\ req[q].version \in Versions
        BY <1>1, <1>2, <2>2, <3>2 DEF VersionInv, RequestsShaped, ReqAt
      <4>2. CASE Carried(q) \in exposed
        BY <4>1, <4>2
      <4>3. CASE Carried(q) \notin exposed
        <5>1. PICK p \in Requests \ {q} : Carried(p) = Carried(q) /\ ~ ReqAt(p, "staged")
          BY <4>1, <4>3 DEF VersionInv, LandersRemain
        <5>2. CASE p # r
          BY <1>2, <4>1, <5>1, <5>2
        <5>3. CASE p = r
          <6>1. req[r].version = req[q].version
            BY <1>0, <5>1, <5>3, CarriedIsNamed
          <6>2. 0 \notin Versions
            BY CommitAssumption DEF Versions
          <6>3. ~ ReqAt(r, "idle")
            BY <4>1, <6>1, <6>2 DEF VersionInv, RequestsShaped
          <6>4. Carried(r) = m /\ l.pc # "staged"
            BY <1>3, <5>1, <5>3, <6>3 DEF ReqAt
          <6>5. QED
            BY <1>2, <3>2, <4>1, <5>1, <5>3, <6>4
        <5>4. QED
          BY <5>2, <5>3
      <4>4. QED
        BY <4>2, <4>3
    <3>3. QED
      BY <3>1, <3>2
  <2>3. \A t \in Txns : LandedBy(t)' = LandedBy(t)
    BY <1>0 DEF LandedBy
  <2>4. QED
    BY <1>0, <2>1, <2>2, <2>3 DEF LandersRemain
<1>13. LandsAtMostOnce'
  BY <1>0 DEF VersionInv, LandsAtMostOnce
<1>14. LandedKeepsItsParts'
  <2>1. ASSUME NEW k \in landed
        PROVE  /\ k[1] \in Attempt \ exposed' => k[1] \in files
               /\ k[1][1] \in Announced /\ k[1] \notin exposed' => k[1] \in authors'
    <3>1. /\ k[1] \in Attempt \ exposed => k[1] \in files
          /\ k[1][1] \in Announced /\ k[1] \notin exposed => k[1] \in authors
      BY DEF VersionInv, LandedKeepsItsParts
    <3>2. CASE k[1] # m
      BY <3>1, <3>2
    <3>3. CASE k[1] = m
      <4>1. k \in LandedBy(Commits[r]) /\ k = <<k[1], k[2]>>
        BY <1>0, <1>4, <3>3, LandedIsNamed DEF LandedBy
      <4>2. k[2] = l.version
        BY <1>4, <3>3, <4>1 DEF VersionInv, StagingIsCurrent
      <4>3. <<m, l.version>> \in landed
        BY <3>3, <4>1, <4>2
      <4>4. QED
        BY <1>4, <3>1, <3>3, <4>3
    <3>4. QED
      BY <3>2, <3>3
  <2>2. QED
    BY <1>0, <2>1 DEF LandedKeepsItsParts
<1>15. QED
  BY <1>5, <1>6, <1>7, <1>8, <1>9, <1>10, <1>11, <1>12, <1>13, <1>14 DEF VersionInv

\* Where a request goes, as its locals.
LEMMA RequestMoves ==
    ASSUME TypeOK, NEW r \in Requests, NEW phase \in ReqPhase, ReqGoes(r, phase)
    PROVE  \E l \in ReqLocals : /\ req' = [req EXCEPT ![r] = l]
                                /\ l.pc = phase /\ l.version = req[r].version
<1>1. req[r] \in ReqLocals
  BY DEF TypeOK
<1> DEFINE l == [req[r] EXCEPT !.pc = phase]
<1>2. l \in ReqLocals /\ l.pc = phase /\ l.version = req[r].version
  BY <1>1 DEF ReqLocals
<1>3. req' = [req EXCEPT ![r] = l]
  BY <1>1 DEF ReqGoes, TypeOK
<1>4. QED
  BY <1>2, <1>3

\* Every step of a request but the one that lands keeps the invariant.
LEMMA RequestStepKeeps ==
    ASSUME VersionInv, NEW r \in Requests, RequestStep(r), ~ RequestLands(r)
    PROVE  VersionInv'
<1>0. /\ TypeOK /\ req[r] \in ReqLocals /\ authors \subseteq Manifest
      /\ exposed \subseteq Manifest \cup {Elsewhere} /\ Commits[r] \in Txns
  BY CommitAssumption DEF VersionInv, TypeOK
<1>1. ~ ReqAt(r, "idle") => r \in offer.requests /\ req[r].version \in Versions
  BY DEF VersionInv, RequestsShaped
<1>2. /\ Carried(r) = <<Commits[r], req[r].version>>
      /\ req[r].version \in Versions => Carried(r) \in Manifest
  BY <1>0, CarriedIsNamed DEF Carried
<1>3. CASE RequestStages(r)
  <2> DEFINE v == staged[Commits[r]]
             phase == IF v = head + 1 THEN "staged" ELSE "raised"
             l == [req[r] EXCEPT !.version = v, !.pc = phase]
  <2>1. /\ UNCHANGED <<ref, doors, staged, offer, authors, exposed>> /\ req[r].pc = "idle"
        /\ r \in offer.requests /\ v # 0 /\ v \in 0 .. MaxVersion
        /\ req' = [req EXCEPT ![r] = l]
    BY <1>0, <1>3 DEF RequestStages, ReqAt, TypeOK, owners
  <2>2. v \in Versions
    BY <2>1, CommitAssumption DEF Versions
  <2>3. phase \in {"staged", "raised"}
    OBVIOUS
  <2> HIDE DEF v, phase
  <2>4. l \in ReqLocals /\ l.pc = phase /\ l.version = v
    BY <1>0, <2>1, <2>3 DEF ReqLocals, ReqPhase
  <2> HIDE DEF l
  <2>5. QED
    BY <1>0, <2>1, <2>2, <2>3, <2>4, RequestQuiet DEF v, Judged
<1>4. CASE RequestIsRefused(r) \/ RequestFails(r)
  <2>1. /\ UNCHANGED <<ref, doors, staged, offer, authors, exposed>>
        /\ req[r].pc \in {"staged", "authored"}
        /\ ReqGoes(r, "raised") \/ ReqGoes(r, "failed")
    BY <1>4 DEF RequestIsRefused, RequestFails, ReqAt, owners
  <2>2. PICK l \in ReqLocals : /\ req' = [req EXCEPT ![r] = l] /\ l.pc \in {"raised", "failed"}
                               /\ l.version = req[r].version
    BY <1>0, <2>1, RequestMoves DEF ReqPhase
  <2>3. QED
    BY <1>0, <1>1, <1>2, <2>1, <2>2, RequestQuiet DEF Judged, ReqAt
<1>5. CASE RequestRecordsAuthor(r)
  <2>1. /\ UNCHANGED <<ref, doors, staged, offer, exposed>> /\ req[r].pc = "staged"
    BY <1>5 DEF RequestRecordsAuthor, ReqAt, owners
  <2>2. /\ authors \subseteq authors' /\ authors' \subseteq authors \cup {Carried(r)}
        /\ Commits[r] \in Announced => Carried(r) \in authors'
    BY <1>5 DEF RequestRecordsAuthor
  <2>3. PICK l \in ReqLocals : /\ req' = [req EXCEPT ![r] = l] /\ l.pc = "authored"
                               /\ l.version = req[r].version
    <3>1. CASE Commits[r] \notin Announced
      BY <1>0, <1>5, <3>1, RequestMoves DEF RequestRecordsAuthor, ReqPhase
    <3>2. CASE Commits[r] \in Announced
      <4>1. PICK created \in {"yes", "no"} :
                req' = [req EXCEPT ![r].pc = "authored", ![r].created = created]
        BY <1>5, <3>2 DEF RequestRecordsAuthor
      <4> DEFINE l == [req[r] EXCEPT !.pc = "authored", !.created = created]
      <4>2. req' = [req EXCEPT ![r] = l]
        BY <1>0, <4>1 DEF TypeOK
      <4>3. l \in ReqLocals /\ l.pc = "authored" /\ l.version = req[r].version
        BY <1>0, <4>1 DEF ReqLocals, ReqPhase
      <4>4. QED
        BY <4>2, <4>3
    <3>3. QED
      BY <3>1, <3>2
  <2>4. QED
    BY <1>0, <1>1, <1>2, <2>1, <2>2, <2>3, RequestQuiet DEF Judged, ReqAt
<1>6. CASE RequestReadsLanding(r)
  <2>1. /\ UNCHANGED <<ref, doors, staged, offer, authors, exposed>> /\ req[r].pc = "failed"
        /\ \/ ReqGoes(r, "raised")
           \/ ReqGoes(r, "deleting") /\ slot[req[r].version] # Carried(r)
    BY <1>6 DEF RequestReadsLanding, ReqAt, Holds, owners
  <2>2. PICK l \in ReqLocals : /\ req' = [req EXCEPT ![r] = l] /\ l.pc \in {"raised", "deleting"}
                               /\ l.version = req[r].version
                               /\ l.pc = "deleting" => slot[req[r].version] # Carried(r)
    BY <1>0, <2>1, RequestMoves DEF ReqPhase
  <2>3. ASSUME l.pc = "deleting", <<Carried(r), req[r].version>> \in landed
        PROVE  Carried(r) \in exposed
    <3> DEFINE k == <<Carried(r), req[r].version>>
    <3>1. k[1] = Carried(r) /\ k[2] = req[r].version /\ k[1][1] = Commits[r]
      BY <1>2
    <3>2. k \in LandedBy(Commits[r])
      BY <2>3, <3>1 DEF LandedBy
    <3>3. Meant(r) = Carried(r) /\ ~ ReqAt(r, "returned") /\ r \in offer.requests
      BY <1>1, <2>1 DEF Meant, Carried, ReqAt
    <3> HIDE DEF k
    <3>4. QED
      BY <1>0, <2>2, <2>3, <3>1, <3>2, <3>3 DEF VersionInv, LandingsAreHeard
  <2>4. QED
    BY <1>0, <1>1, <1>2, <2>1, <2>2, <2>3, RequestQuiet DEF Judged, ReqAt
<1>7. CASE RequestForgetsAuthor(r)
  <2>1. /\ UNCHANGED <<ref, doors, staged, offer>> /\ ReqAt(r, "deleting") /\ req[r].pc = "deleting"
        /\ ReqGoes(r, "raised") /\ authors' = authors \ {Carried(r)}
    BY <1>7 DEF RequestForgetsAuthor, ReqAt
  <2>2. PICK l \in ReqLocals : /\ req' = [req EXCEPT ![r] = l] /\ l.pc = "raised"
                               /\ l.version = req[r].version
    BY <1>0, <2>1, RequestMoves DEF ReqPhase
  <2>3. /\ exposed \subseteq exposed' /\ exposed' \subseteq exposed \cup {Carried(r)}
        /\ (\E q \in Requests \ {r} : ~ ReqAt(q, "staged") /\ Carried(q) = Carried(r)) =>
               Carried(r) \in exposed'
    BY <1>7 DEF RequestForgetsAuthor
  <2>4. /\ req[r].version \in Versions /\ r \in offer.requests /\ Carried(r) \in Manifest
    BY <1>1, <1>2, <2>1 DEF ReqAt
  <2>5. Carried(r) \in exposed' \/ <<Carried(r), req[r].version>> \notin landed
    BY <2>1, <2>3 DEF VersionInv, LandersRemain
  <2>6. QED
    BY <1>0, <1>2, <2>1, <2>2, <2>3, <2>4, <2>5, RequestQuiet DEF Judged
<1>8. QED
  BY <1>3, <1>4, <1>5, <1>6, <1>7 DEF RequestStep

\* The step that lands a stock writer's manifest.
LEMMA RequestLandsKeeps ==
    ASSUME VersionInv, NEW r \in Requests, RequestLands(r)
    PROVE  VersionInv'
<1> DEFINE m == Carried(r)
           v == req[r].version
           t == Commits[r]
<1>0. /\ TypeOK /\ UNCHANGED <<files, recorded, authors, door, staged, offer, exposed>>
      /\ req[r].pc = "authored" /\ Vacant(v) /\ Lands(m, v) /\ offer.requests \subseteq Requests
  BY DEF VersionInv, TypeOK, RequestLands, ReqAt, doors, owners
<1>1. /\ r \in offer.requests /\ v \in Versions /\ t \in Txns /\ t \notin Doors /\ m = <<t, v>>
      /\ m[1] = t /\ m[2] = v /\ m \in Manifest /\ m \notin Attempt /\ m # Empty
  <2>1. r \in offer.requests /\ v \in Versions
    BY <1>0 DEF VersionInv, RequestsShaped, ReqAt
  <2>2. QED
    BY <1>0, <2>1, CarriedIsNamed, ManifestsAreNamed DEF Carried
<1>2. PICK l \in ReqLocals : /\ req' = [req EXCEPT ![r] = l] /\ l.pc \in {"returned", "failed"}
                             /\ l.version = v
  BY <1>0, RequestMoves DEF RequestLands, ReqPhase
<1>3. /\ req' \in [Requests -> ReqLocals] /\ req'[r] = l
      /\ \A q \in Requests \ {r} : req'[q] = req[q]
  BY <1>0, <1>2 DEF TypeOK
<1>4. /\ Carried(r)' = m /\ Meant(r)' = m /\ Meant(r) = m /\ \A pc : ReqAt(r, pc)' <=> l.pc = pc
      /\ \A q \in Requests \ {r} : /\ Carried(q)' = Carried(q) /\ Meant(q)' = Meant(q)
                                   /\ \A pc : ReqAt(q, pc)' <=> ReqAt(q, pc)
  BY <1>0, <1>2, <1>3 DEF Carried, Meant, ReqAt
<1>5. /\ v \in Versions /\ slot[v] = Empty /\ slot'[v] = m
      /\ \A u \in Versions \ {v} : slot'[u] = slot[u]
      /\ landed' = landed \cup {<<m, v>>}
      /\ slot' \in [Versions -> Manifest \cup {Empty, Elsewhere}]
      /\ head' \in Versions /\ landed' \subseteq Manifest \X Versions
  BY <1>0, <1>1, LandsAt
<1>6. v = staged[t] \/ m \in exposed
  BY <1>0, <1>5 DEF VersionInv, StagingIsCurrent
<1>7. t \in Announced => m \in authors \cup exposed
  BY <1>0 DEF VersionInv, RequestsShaped, ReqAt
<1> HIDE DEF m, v, t
<1>8. \A x : x # t => LandedBy(x)' = LandedBy(x)
  <2>1. <<m, v>>[1] = m
    OBVIOUS
  <2>2. QED
    BY <1>1, <1>5, <2>1 DEF LandedBy
<1>9. \A u \in Versions : slot[u] # Empty => slot'[u] = slot[u]
  BY <1>5
<1>10. TypeOK'
  BY <1>0, <1>3, <1>5 DEF TypeOK
<1>11. SlotsAreLanded'
  BY <1>0, <1>1, LandsInSlots
<1>12. DoorsKnow'
  <2>1. \A d \in Doors : /\ LandedBy(d)' = LandedBy(d) /\ Own(d)' = Own(d) /\ Own(d) # Empty
                         /\ \A pc : DoorAt(d, pc)' <=> DoorAt(d, pc)
    BY <1>0, <1>1, <1>8, OwnIsNamed, ManifestsAreNamed DEF Own, DoorAt
  <2>2. ASSUME NEW d \in Doors
        PROVE  (/\ door[d].pc # "open" => door[d].version \in Versions
                /\ door[d].pc \in Unlanded => \A k \in LandedBy(d) : k[1] \in exposed
                /\ DoorAt(d, "conflict") => \A k \in LandedBy(d) :
                      k[1] \in exposed \/ (k = <<Own(d), door[d].version>> /\ slot[door[d].version] = Own(d))
                /\ DoorAt(d, "returned") => <<Own(d), door[d].version>> \in landed)'
    <3>1. /\ door[d].pc # "open" => door[d].version \in Versions
          /\ door[d].pc \in Unlanded => \A k \in LandedBy(d) : k[1] \in exposed
          /\ DoorAt(d, "conflict") => \A k \in LandedBy(d) :
                k[1] \in exposed \/ (k = <<Own(d), door[d].version>> /\ slot[door[d].version] = Own(d))
          /\ DoorAt(d, "returned") => <<Own(d), door[d].version>> \in landed
      BY DEF VersionInv, DoorsKnow
    <3>2. door[d].version \in Versions /\ slot[door[d].version] = Own(d) =>
              slot'[door[d].version] = Own(d)
      BY <1>9, <2>1
    <3>3. DoorAt(d, "conflict") => door[d].version \in Versions
      BY <3>1 DEF DoorAt
    <3>4. QED
      BY <1>0, <1>5, <2>1, <3>1, <3>2, <3>3
  <2>3. QED
    BY <2>2 DEF DoorsKnow
<1>13. DoorsKeepParts'
  BY <1>0 DEF VersionInv, DoorsKeepParts, Own, DoorAt
<1>14. RequestsShaped'
  <2>1. ASSUME NEW q \in Requests
        PROVE  (/\ ReqAt(q, "idle") => req[q].version = 0
                /\ ~ ReqAt(q, "idle") => q \in offer.requests /\ req[q].version \in Versions
                /\ ReqAt(q, "authored") /\ Commits[q] \in Announced => Carried(q) \in authors \cup exposed
                /\ ReqAt(q, "returned") => <<Carried(q), req[q].version>> \in landed)'
    <3>1. CASE q = r
      BY <1>0, <1>1, <1>2, <1>3, <1>4, <1>5, <3>1
    <3>2. CASE q # r
      <4>1. /\ ReqAt(q, "idle") => req[q].version = 0
            /\ ~ ReqAt(q, "idle") => q \in offer.requests /\ req[q].version \in Versions
            /\ ReqAt(q, "authored") /\ Commits[q] \in Announced => Carried(q) \in authors \cup exposed
            /\ ReqAt(q, "returned") => <<Carried(q), req[q].version>> \in landed
        BY DEF VersionInv, RequestsShaped
      <4>2. QED
        BY <1>0, <1>3, <1>4, <1>5, <3>2, <4>1
    <3>3. QED
      BY <3>1, <3>2
  <2>2. QED
    BY <2>1 DEF RequestsShaped
<1>15. /\ \A x \in Txns : \A k \in LandedBy(x)' :
              k[2] = k[1][2] /\ (k[2] = staged[x] \/ k[1] \in exposed)
  <2>1. ASSUME NEW x \in Txns, NEW k \in LandedBy(x)'
        PROVE  k[2] = k[1][2] /\ (k[2] = staged[x] \/ k[1] \in exposed)
    <3>1. CASE k \in landed
      <4>1. k \in LandedBy(x)
        BY <2>1, <3>1 DEF LandedBy
      <4>2. QED
        BY <4>1 DEF VersionInv, StagingIsCurrent
    <3>2. CASE k = <<m, v>>
      <4>1. k[1] = m /\ k[2] = v
        BY <3>2
      <4>2. x = t
        BY <1>1, <2>1, <4>1 DEF LandedBy
      <4>3. QED
        BY <1>1, <1>6, <4>1, <4>2
    <3>3. k \in landed \/ k = <<m, v>>
      BY <1>5, <2>1 DEF LandedBy
    <3>4. QED
      BY <3>1, <3>2, <3>3
  <2>2. QED
    BY <2>1
<1>16. StagingIsCurrent'
  <2>1. ASSUME NEW q \in Requests, req'[q].pc \in {"staged", "authored"},
               req'[q].version # staged'[Commits[q]]
        PROVE  slot'[req'[q].version] # Empty \/ Carried(q)' \in exposed'
    <3>1. q # r /\ req'[q] = req[q] /\ Carried(q)' = Carried(q)
      BY <1>2, <1>3, <1>4, <2>1
    <3>2. req[q].version \in Versions
      BY <2>1, <3>1 DEF VersionInv, RequestsShaped, ReqAt
    <3>3. slot[req[q].version] # Empty \/ Carried(q) \in exposed
      BY <1>0, <2>1, <3>1 DEF VersionInv, StagingIsCurrent
    <3>4. QED
      BY <1>0, <1>9, <3>1, <3>2, <3>3
  <2>2. QED
    BY <1>0, <1>15, <2>1 DEF StagingIsCurrent
<1>17. LandingsAreHeard'
  <2>1. ASSUME NEW x \in Txns, NEW k \in LandedBy(x)'
        PROVE  \/ slot'[k[2]] = k[1] \/ k[1] \in exposed
               \/ \A q \in offer.requests : Meant(q)' = k[1] => ReqAt(q, "returned")'
    <3>1. CASE k \in landed
      <4>1. k \in LandedBy(x) /\ k[2] \in Versions /\ k[1] # Empty
        BY <1>0, <2>1, <3>1, LandedIsNamed, ManifestsAreNamed DEF LandedBy
      <4>2. \/ slot[k[2]] = k[1] \/ k[1] \in exposed
            \/ \A q \in offer.requests : Meant(q) = k[1] => ReqAt(q, "returned")
        BY <4>1 DEF VersionInv, LandingsAreHeard
      <4>3. ~ ReqAt(r, "returned")
        BY <1>0 DEF ReqAt
      <4>4. QED
        BY <1>0, <1>1, <1>4, <1>9, <4>1, <4>2, <4>3
    <3>2. CASE k = <<m, v>>
      BY <1>5, <3>2
    <3>3. k \in landed \/ k = <<m, v>>
      BY <1>5, <2>1 DEF LandedBy
    <3>4. QED
      BY <3>1, <3>2, <3>3
  <2>2. QED
    BY <1>0, <2>1 DEF LandingsAreHeard
<1>18. LandersRemain'
  <2>1. ASSUME NEW x \in Txns, NEW k \in LandedBy(x)'
        PROVE  \E q \in Requests : Carried(q)' = k[1] /\ req'[q].pc \in Judged
    <3>1. CASE k \in landed
      <4>1. k \in LandedBy(x)
        BY <2>1, <3>1 DEF LandedBy
      <4>2. PICK q \in Requests : Carried(q) = k[1] /\ req[q].pc \in Judged
        BY <4>1 DEF VersionInv, LandersRemain
      <4>3. q # r
        BY <1>0, <4>2 DEF Judged
      <4>4. QED
        BY <1>3, <1>4, <4>2, <4>3
    <3>2. CASE k = <<m, v>>
      <4>1. k[1] = m /\ req'[r].pc \in Judged
        BY <1>2, <1>3, <3>2 DEF Judged
      <4>2. QED
        BY <1>4, <4>1
    <3>3. k \in landed \/ k = <<m, v>>
      BY <1>5, <2>1 DEF LandedBy
    <3>4. QED
      BY <3>1, <3>2, <3>3
  <2>2. ASSUME NEW q \in Requests, ReqAt(q, "deleting")', <<Carried(q)', req'[q].version>> \in landed'
        PROVE  \/ Carried(q)' \in exposed
               \/ \E p \in Requests \ {q} : Carried(p)' = Carried(q)' /\ ~ ReqAt(p, "staged")'
    <3>1. /\ q # r /\ ReqAt(q, "deleting") /\ Carried(q)' = Carried(q) /\ req'[q] = req[q]
      BY <1>2, <1>3, <1>4, <2>2
    <3>2. ~ ReqAt(r, "staged")' /\ Carried(r)' = m
      BY <1>2, <1>4
    <3>3. CASE <<Carried(q), req[q].version>> \in landed
      <4>1. CASE Carried(q) \in exposed
        BY <3>1, <4>1
      <4>2. CASE Carried(q) \notin exposed
        <5>1. PICK p \in Requests \ {q} : Carried(p) = Carried(q) /\ ~ ReqAt(p, "staged")
          BY <3>1, <3>3, <4>2 DEF VersionInv, LandersRemain
        <5>2. Carried(p)' = Carried(p) /\ ~ ReqAt(p, "staged")'
          BY <1>4, <3>2, <5>1 DEF m
        <5>3. QED
          BY <3>1, <5>1, <5>2
      <4>3. QED
        BY <4>1, <4>2
    <3>4. CASE <<Carried(q), req[q].version>> = <<m, v>>
      BY <3>1, <3>2, <3>4
    <3>5. QED
      BY <1>5, <2>2, <3>1, <3>3, <3>4
  <2>3. QED
    BY <1>0, <2>1, <2>2 DEF LandersRemain
<1>19. LandsAtMostOnce'
  <2>1. ASSUME NEW k \in landed, k[1][1] = t
        PROVE  k = <<m, v>> \/ {k[1], m} \cap exposed # {}
    <3>1. /\ k = <<k[1], k[2]>> /\ k[1] = <<k[1][1], k[1][2]>> /\ k \in LandedBy(t)
      BY <1>0, <2>1, LandedIsNamed, ManifestsAreNamed DEF LandedBy
    <3>2. k[2] = k[1][2] /\ (k[2] = staged[t] \/ k[1] \in exposed)
      BY <1>1, <3>1 DEF VersionInv, StagingIsCurrent
    <3>3. CASE k[1] \notin exposed /\ m \notin exposed
      BY <1>1, <1>6, <2>1, <3>1, <3>2, <3>3
    <3>4. QED
      BY <3>3
  <2>2. ASSUME NEW a \in landed', NEW b \in landed', a[1][1] = b[1][1]
        PROVE  a = b \/ {a[1], b[1]} \cap exposed # {}
    <3>1. <<m, v>>[1] = m /\ m[1] = t
      BY <1>1
    <3>2. CASE a \in landed /\ b \in landed
      BY <2>2, <3>2 DEF VersionInv, LandsAtMostOnce
    <3>3. CASE a = <<m, v>> /\ b \in landed
      BY <2>1, <2>2, <3>1, <3>3
    <3>4. CASE b = <<m, v>> /\ a \in landed
      BY <2>1, <2>2, <3>1, <3>4
    <3>5. QED
      BY <1>5, <3>2, <3>3, <3>4
  <2>3. QED
    BY <1>0, <2>2 DEF LandsAtMostOnce
<1>20. LandedKeepsItsParts'
  <2>1. <<m, v>>[1] = m
    OBVIOUS
  <2>2. \A k \in landed' : k \in landed \/ k[1] = m
    BY <1>5, <2>1
  <2>3. QED
    BY <1>0, <1>1, <1>7, <2>2 DEF VersionInv, LandedKeepsItsParts
<1>21. QED
  BY <1>10, <1>11, <1>12, <1>13, <1>14, <1>16, <1>17, <1>18, <1>19, <1>20 DEF VersionInv

\* A stock writer stages its transaction, or stages it anew: nothing of it is
\* landed unheard.
LEMMA StockStagesKeeps ==
    ASSUME VersionInv, NEW t \in Txns, StockStages(t)
    PROVE  VersionInv'
<1> DEFINE n == head + 1
<1>0. /\ TypeOK /\ UNCHANGED <<slot, head, landed, authors, files, recorded, door, req, offer, exposed>>
      /\ staged \in [Txns -> 0 .. MaxVersion] /\ head \in Versions /\ head < MaxVersion
      /\ staged' = [staged EXCEPT ![t] = n] /\ offer.requests \subseteq Requests
  BY DEF VersionInv, TypeOK, StockStages, ref, doors, owners
<1>1. n \in 0 .. MaxVersion /\ \A u \in Versions : u <= head => u # n
  BY <1>0, CommitAssumption DEF Versions
<1> HIDE DEF n
<1>2. /\ staged' \in [Txns -> 0 .. MaxVersion] /\ staged'[t] = n
      /\ \A x \in Txns \ {t} : staged'[x] = staged[x]
  BY <1>0, <1>1
<1>3. \A x : LandedBy(x)' = LandedBy(x)
  BY <1>0 DEF LandedBy
<1>4. \A r \in Requests : Carried(r)' = Carried(r) /\ \A pc : ReqAt(r, pc)' <=> ReqAt(r, pc)
  BY <1>0 DEF Carried, ReqAt
<1>5. 0 \notin Versions
  BY CommitAssumption DEF Versions
<1>6. \A x \in Txns : \A k \in LandedBy(x) :
          /\ k[1] = <<x, k[2]>> /\ k[2] \in Versions /\ k[2] <= head
          /\ k[2] = staged[x] \/ k[1] \in exposed
  <2>1. ASSUME NEW x \in Txns, NEW k \in LandedBy(x)
        PROVE  /\ k[1] = <<x, k[2]>> /\ k[2] \in Versions /\ k[2] <= head
               /\ k[2] = staged[x] \/ k[1] \in exposed
    <3>1. k \in landed /\ k[1][1] = x
      BY DEF LandedBy
    <3>2. k[1] = <<k[1][1], k[1][2]>> /\ k[2] \in Versions /\ k[2] <= head
      BY <1>0, <3>1, LandedIsNamed, ManifestsAreNamed DEF VersionInv, SlotsAreLanded
    <3>3. k[2] = k[1][2] /\ (k[2] = staged[x] \/ k[1] \in exposed)
      BY DEF VersionInv, StagingIsCurrent
    <3>4. QED
      BY <3>1, <3>2, <3>3
  <2>2. QED
    BY <2>1
<1>7. TypeOK'
  BY <1>0, <1>2 DEF TypeOK
<1>8. SlotsAreLanded' /\ DoorsKnow' /\ DoorsKeepParts' /\ LandsAtMostOnce' /\ LandedKeepsItsParts'
  <2>1. \A d \in Doors : Own(d)' = Own(d) /\ \A pc : DoorAt(d, pc)' <=> DoorAt(d, pc)
    BY <1>0 DEF Own, DoorAt
  <2>2. DoorsKnow'
    BY <1>0, <1>3, <2>1 DEF VersionInv, DoorsKnow
  <2>3. DoorsKeepParts'
    BY <1>0, <2>1 DEF VersionInv, DoorsKeepParts
  <2>4. QED
    BY <1>0, <2>2, <2>3 DEF VersionInv, SlotsAreLanded, LandsAtMostOnce, LandedKeepsItsParts
<1>9. RequestsShaped' /\ LandersRemain'
  <2>1. RequestsShaped'
    BY <1>0, <1>4 DEF VersionInv, RequestsShaped
  <2>2. LandersRemain'
    BY <1>0, <1>3, <1>4 DEF VersionInv, LandersRemain
  <2>3. QED
    BY <2>1, <2>2
<1>10. StagingIsCurrent'
  <2>1. ASSUME NEW k \in LandedBy(t)
        PROVE  k[1] \in exposed
    <3>1. SUFFICES ASSUME k[1] \notin exposed
                   PROVE  FALSE
      OBVIOUS
    <3>2. k[2] = staged[t] /\ k[1] = <<t, staged[t]>> /\ staged[t] # 0
      BY <1>5, <1>6, <3>1
    <3>3. /\ slot[k[2]] # k[1]
          /\ \E r \in Requests : ReqAt(r, "raised") /\ Carried(r) = k[1]
      BY <3>2 DEF StockStages
    <3>4. PICK r \in Requests : ReqAt(r, "raised") /\ Carried(r) = k[1]
      BY <3>3
    <3>5. r \in offer.requests /\ Meant(r) = k[1] /\ ~ ReqAt(r, "returned")
      BY <3>4 DEF VersionInv, RequestsShaped, ReqAt, Meant, Carried
    <3>6. QED
      BY <3>1, <3>3, <3>5 DEF VersionInv, LandingsAreHeard
  <2>2. \A x \in Txns : \A k \in LandedBy(x)' :
            k[2] = k[1][2] /\ (k[2] = staged'[x] \/ k[1] \in exposed')
    BY <1>0, <1>2, <1>3, <2>1 DEF VersionInv, StagingIsCurrent
  <2>3. ASSUME NEW q \in Requests, req[q].pc \in {"staged", "authored"},
               req[q].version # staged'[Commits[q]]
        PROVE  slot[req[q].version] # Empty \/ Carried(q) \in exposed
    <3>1. Commits[q] \in Txns /\ req[q].version \in Versions
      BY <2>3, CommitAssumption DEF VersionInv, RequestsShaped, ReqAt
    <3>2. CASE req[q].version # staged[Commits[q]]
      BY <2>3, <3>2 DEF VersionInv, StagingIsCurrent
    <3>3. CASE req[q].version = staged[Commits[q]]
      <4>1. Commits[q] = t /\ staged[t] # 0
        BY <1>2, <1>5, <2>3, <3>1, <3>3
      <4>2. slot[staged[t]] # Empty
        BY <4>1 DEF StockStages
      <4>3. QED
        BY <3>3, <4>1, <4>2
    <3>4. QED
      BY <3>2, <3>3
  <2>4. QED
    BY <1>0, <1>4, <2>2, <2>3 DEF StagingIsCurrent
<1>11. LandingsAreHeard'
  <2>1. ASSUME NEW x \in Txns, NEW k \in LandedBy(x), NEW r \in offer.requests, Meant(r)' = k[1]
        PROVE  Meant(r) = k[1]
    <3>1. r \in Requests /\ Commits[r] \in Txns
      BY <1>0, CommitAssumption
    <3>2. k[1] = <<x, k[2]>> /\ k[2] # n
      BY <1>1, <1>6
    <3>3. Meant(r)' = <<Commits[r], IF ReqAt(r, "idle") THEN staged'[Commits[r]] ELSE req[r].version>>
      BY <1>0, <1>4, <3>1 DEF Meant
    <3>4. ReqAt(r, "idle") => staged'[Commits[r]] = k[2]
      BY <2>1, <3>2, <3>3
    <3>5. ReqAt(r, "idle") => Commits[r] # t
      BY <1>2, <3>2, <3>4
    <3>6. QED
      BY <1>2, <2>1, <3>1, <3>3, <3>5 DEF Meant
  <2>2. ASSUME NEW x \in Txns, NEW k \in LandedBy(x)
        PROVE  \/ slot[k[2]] = k[1] \/ k[1] \in exposed
               \/ \A r \in offer.requests : Meant(r)' = k[1] => ReqAt(r, "returned")
    <3>1. \/ slot[k[2]] = k[1] \/ k[1] \in exposed
          \/ \A r \in offer.requests : Meant(r) = k[1] => ReqAt(r, "returned")
      BY DEF VersionInv, LandingsAreHeard
    <3>2. QED
      BY <2>1, <3>1
  <2>3. QED
    BY <1>0, <1>3, <1>4, <2>2 DEF LandingsAreHeard
<1>12. QED
  BY <1>7, <1>8, <1>9, <1>10, <1>11 DEF VersionInv

-----------------------------------------------------------------------------
(* The owner's deletes                                                     *)

\* A version deleted before the latest exposes what nobody has read, and the
\* late copies it lets in.
LEMMA DeleteVersionKeeps ==
    ASSUME VersionInv, DeleteVersion
    PROVE  VersionInv'
<1>1. PICK v \in Versions :
          /\ v < head /\ slot[v] # Empty
          /\ slot' = [slot EXCEPT ![v] = Empty]
          /\ exposed' = exposed \cup {m \in {slot[v]} : Unread(m)} \cup {Carried(r) : r \in Late(v)}
  BY DEF DeleteVersion
<1>0. /\ TypeOK /\ UNCHANGED <<head, landed, authors, files, recorded, door, staged, req>>
      /\ slot \in [Versions -> Manifest \cup {Empty, Elsewhere}]
      /\ offer' = [offer EXCEPT !.deletes = @ - 1] /\ offer.deletes > 0
      /\ offer \in [doors: SUBSET Doors, requests: SUBSET Requests, deletes: Nat]
  BY DEF VersionInv, TypeOK, DeleteVersion, doors, stock
<1>2. /\ offer' \in [doors: SUBSET Doors, requests: SUBSET Requests, deletes: Nat]
      /\ offer'.requests = offer.requests /\ offer.requests \subseteq Requests
  <2>1. offer.deletes - 1 \in Nat
    BY <1>0
  <2>2. QED
    BY <1>0, <2>1
<1>3. /\ slot' \in [Versions -> Manifest \cup {Empty, Elsewhere}] /\ slot'[v] = Empty
      /\ \A u \in Versions \ {v} : slot'[u] = slot[u]
  BY <1>0, <1>1
<1>4. /\ exposed \subseteq exposed'
      /\ Unread(slot[v]) => slot[v] \in exposed'
      /\ \A r \in Late(v) : Carried(r) \in exposed'
      /\ exposed' \subseteq Manifest \cup {Elsewhere}
  <2>1. Unread(slot[v]) => slot[v] \in exposed'
    BY <1>1
  <2>2. exposed \subseteq exposed' /\ \A r \in Late(v) : Carried(r) \in exposed'
    BY <1>1
  <2>3. slot[v] \in Manifest \cup {Elsewhere}
    BY <1>0, <1>1
  <2>4. \A r \in Late(v) : Carried(r) \in Manifest
    BY <1>0, CarriedIsNamed DEF Late
  <2>5. exposed \subseteq Manifest \cup {Elsewhere}
    BY <1>0 DEF TypeOK
  <2>6. QED
    BY <1>1, <2>1, <2>2, <2>3, <2>4, <2>5
<1>5. \A x : LandedBy(x)' = LandedBy(x)
  BY <1>0 DEF LandedBy
<1>6. \A r \in Requests : /\ Carried(r)' = Carried(r) /\ Meant(r)' = Meant(r)
                          /\ \A pc : ReqAt(r, pc)' <=> ReqAt(r, pc)
  BY <1>0 DEF Carried, Meant, ReqAt
<1>7. \A d \in Doors : Own(d)' = Own(d) /\ \A pc : DoorAt(d, pc)' <=> DoorAt(d, pc)
  BY <1>0 DEF Own, DoorAt
<1>8. TypeOK'
  BY <1>0, <1>2, <1>3, <1>4 DEF TypeOK
<1>9. SlotsAreLanded'
  BY <1>0, <1>3 DEF VersionInv, SlotsAreLanded
<1>10. DoorsKnow'
  <2>1. ASSUME NEW d \in Doors, DoorAt(d, "conflict"), NEW k \in LandedBy(d)
        PROVE  k[1] \in exposed' \/ (k = <<Own(d), door[d].version>> /\ slot'[door[d].version] = Own(d))
    <3>1. /\ k[1] \in exposed \/ (k = <<Own(d), door[d].version>> /\ slot[door[d].version] = Own(d))
          /\ door[d].version \in Versions
      BY <2>1 DEF VersionInv, DoorsKnow, DoorAt
    <3>2. Unread(Own(d))
      BY <2>1 DEF Unread, DoorAt
    <3>3. QED
      BY <1>3, <1>4, <3>1, <3>2
  <2>2. QED
    BY <1>0, <1>4, <1>5, <1>7, <2>1 DEF VersionInv, DoorsKnow
<1>11. DoorsKeepParts'
  BY <1>0, <1>7 DEF VersionInv, DoorsKeepParts
<1>12. RequestsShaped'
  BY <1>0, <1>2, <1>4, <1>6 DEF VersionInv, RequestsShaped
<1>13. StagingIsCurrent'
  <2>1. \A t \in Txns : \A k \in LandedBy(t) :
            k[2] = k[1][2] /\ (k[2] = staged[t] \/ k[1] \in exposed')
    BY <1>4 DEF VersionInv, StagingIsCurrent
  <2>2. ASSUME NEW r \in Requests, req[r].pc \in {"staged", "authored"},
               req[r].version # staged[Commits[r]]
        PROVE  slot'[req[r].version] # Empty \/ Carried(r) \in exposed'
    <3>1. /\ slot[req[r].version] # Empty \/ Carried(r) \in exposed
          /\ req[r].version \in Versions
      BY <2>2 DEF VersionInv, StagingIsCurrent, RequestsShaped, ReqAt
    <3>2. req[r].version = v => r \in Late(v)
      BY <2>2 DEF Late
    <3>3. QED
      BY <1>3, <1>4, <3>1, <3>2
  <2>3. QED
    BY <1>0, <1>5, <1>6, <2>1, <2>2 DEF StagingIsCurrent
<1>14. LandingsAreHeard'
  <2>1. ASSUME NEW t \in Txns, NEW k \in LandedBy(t)
        PROVE  \/ slot'[k[2]] = k[1] \/ k[1] \in exposed'
               \/ \A r \in offer.requests : Meant(r) = k[1] => ReqAt(r, "returned")
    <3>1. /\ \/ slot[k[2]] = k[1] \/ k[1] \in exposed
             \/ \A r \in offer.requests : Meant(r) = k[1] => ReqAt(r, "returned")
          /\ k[2] \in Versions
      BY <1>0, LandedIsNamed DEF VersionInv, LandingsAreHeard, LandedBy
    <3>2. k[2] = v /\ slot[v] = k[1] /\ ~ Unread(slot[v]) =>
              \A r \in offer.requests : Meant(r) = k[1] => ReqAt(r, "returned")
      BY DEF Unread
    <3>3. QED
      BY <1>3, <1>4, <3>1, <3>2
  <2>2. QED
    BY <1>2, <1>5, <1>6, <2>1 DEF LandingsAreHeard
<1>15. LandersRemain'
  <2>1. \A t \in Txns : \A k \in LandedBy(t) :
            \E q \in Requests : Carried(q) = k[1] /\ req[q].pc \in Judged
    BY DEF VersionInv, LandersRemain
  <2>2. \A r \in Requests : ReqAt(r, "deleting") /\ <<Carried(r), req[r].version>> \in landed =>
            \/ Carried(r) \in exposed'
            \/ \E q \in Requests \ {r} : Carried(q) = Carried(r) /\ ~ ReqAt(q, "staged")
    BY <1>4 DEF VersionInv, LandersRemain
  <2>3. QED
    BY <1>0, <1>5, <1>6, <2>1, <2>2 DEF LandersRemain
<1>16. LandsAtMostOnce'
  BY <1>0, <1>4 DEF VersionInv, LandsAtMostOnce
<1>17. LandedKeepsItsParts'
  BY <1>0, <1>4 DEF VersionInv, LandedKeepsItsParts
<1>18. QED
  BY <1>8, <1>9, <1>10, <1>11, <1>12, <1>13, <1>14, <1>15, <1>16, <1>17 DEF VersionInv

-----------------------------------------------------------------------------
(* The theorems                                                            *)

\* The initial states have it.
LEMMA VersionInit == Init => VersionInv
<1> SUFFICES ASSUME Init
             PROVE  VersionInv
  OBVIOUS
<1>0. /\ landed = {} /\ exposed = {} /\ head = 1 /\ files = {} /\ recorded = {} /\ authors = {}
      /\ \A x : LandedBy(x) = {}
  BY DEF Init, LandedBy
<1>1. /\ 1 \in Versions /\ 0 \in 0 .. MaxVersion /\ 1 \in 1 .. ATTEMPTS
      /\ \A u \in Versions : u = 1 => u <= 1
  BY CommitAssumption DEF Versions
<1>2. \A d \in Doors : door[d] = [pc |-> "open", attempt |-> 1, version |-> 0, then |-> "again"]
  BY DEF Init
<1>3. \A r \in Requests : req[r] = [pc |-> "idle", version |-> 0, created |-> "no"]
  BY DEF Init
<1>4. TypeOK
  <2>1. slot \in [Versions -> Manifest \cup {Empty, Elsewhere}]
    BY DEF Init
  <2>2. door \in [Doors -> DoorLocals]
    BY <1>1 DEF Init, DoorLocals, DoorPhase
  <2>3. req \in [Requests -> ReqLocals] /\ staged \in [Txns -> 0 .. MaxVersion]
    BY <1>1 DEF Init, ReqLocals, ReqPhase
  <2>4. offer \in [doors: SUBSET Doors, requests: SUBSET Requests, deletes: Nat]
    BY CommitAssumption DEF Init
  <2>5. QED
    BY <1>0, <1>1, <2>1, <2>2, <2>3, <2>4 DEF TypeOK
<1>5. SlotsAreLanded
  BY <1>0, <1>1 DEF Init, SlotsAreLanded, Empty, Elsewhere
<1>6. DoorsKnow /\ DoorsKeepParts
  BY <1>0, <1>2 DEF DoorsKnow, DoorsKeepParts, DoorAt, Written
<1>7. RequestsShaped
  BY <1>3 DEF RequestsShaped, ReqAt
<1>8. StagingIsCurrent /\ LandingsAreHeard /\ LandersRemain
  BY <1>0, <1>3 DEF StagingIsCurrent, LandingsAreHeard, LandersRemain, ReqAt
<1>9. LandsAtMostOnce /\ LandedKeepsItsParts
  BY <1>0 DEF LandsAtMostOnce, LandedKeepsItsParts
<1>10. QED
  BY <1>4, <1>5, <1>6, <1>7, <1>8, <1>9 DEF VersionInv

\* Every step keeps it.
LEMMA VersionStep == VersionInv /\ [Next]_vars => VersionInv'
<1>1. ASSUME VersionInv, NEW d \in Doors, DoorStep(d)
      PROVE  VersionInv'
  BY <1>1, DoorStepKeeps, DoorLandsKeeps
<1>2. ASSUME VersionInv, NEW r \in Requests, RequestStep(r)
      PROVE  VersionInv'
  BY <1>2, RequestStepKeeps, RequestLandsKeeps
<1>3. ASSUME VersionInv, UNCHANGED vars
      PROVE  VersionInv'
  <2>0. UNCHANGED <<slot, head, files, recorded, authors, door, staged, req, landed, offer, exposed>>
    BY <1>3 DEF vars
  <2>1. TypeOK' /\ SlotsAreLanded'
    BY <1>3, <2>0 DEF VersionInv, TypeOK, SlotsAreLanded
  <2>2. DoorsKnow' /\ DoorsKeepParts'
    BY <1>3, <2>0 DEF VersionInv, DoorsKnow, DoorsKeepParts, LandedBy, Own, DoorAt
  <2>3. RequestsShaped' /\ StagingIsCurrent'
    BY <1>3, <2>0 DEF VersionInv, RequestsShaped, StagingIsCurrent, LandedBy, Carried, ReqAt
  <2>4. LandingsAreHeard' /\ LandersRemain'
    BY <1>3, <2>0 DEF VersionInv, LandingsAreHeard, LandersRemain, LandedBy, Carried, Meant, ReqAt
  <2>5. LandsAtMostOnce' /\ LandedKeepsItsParts'
    BY <1>3, <2>0 DEF VersionInv, LandsAtMostOnce, LandedKeepsItsParts
  <2>6. QED
    BY <2>1, <2>2, <2>3, <2>4, <2>5 DEF VersionInv
<1>4. QED
  BY <1>1, <1>2, <1>3, StockStagesKeeps, DeleteVersionKeeps DEF Next

LEMMA VersionInvHolds == Spec => []VersionInv
  BY VersionInit, VersionStep, PTL DEF Spec

\* However many doors and requests race for the ref's versions, and however
\* their finalizes are answered, lost and retried, a commit of commit_stamped
\* or version/create lands at most once, but for the manifests an owner's
\* delete or a twin exposed.
THEOREM CommitsLandOnce == Spec => []LandsAtMostOnce
<1>1. VersionInv => LandsAtMostOnce
  BY DEF VersionInv
<1>2. QED
  BY <1>1, VersionInvHolds, PTL

\* What a door or a request was answered is so: a version answered was landed
\* there, and a commit answered 409 or refused landed nothing.
THEOREM AnswersAreSo == Spec => []AnswersAreTrue
<1>1. VersionInv => AnswersAreTrue
  <2> SUFFICES ASSUME VersionInv
               PROVE  AnswersAreTrue
    OBVIOUS
  <2>1. {"lost", "refused", "turnedAway"} \subseteq Unlanded
    BY DEF Unlanded, DoorPhase
  <2>2. \A d \in Doors :
           /\ DoorAt(d, "returned") => <<Own(d), door[d].version>> \in landed
           /\ door[d].pc \in {"lost", "refused", "turnedAway"} =>
                  \A l \in landed : l[1][1] = d => l[1] \in exposed
    BY <2>1 DEF VersionInv, DoorsKnow, LandedBy
  <2>3. \A r \in Requests : ReqAt(r, "returned") => <<Carried(r), req[r].version>> \in landed
    BY DEF VersionInv, RequestsShaped
  <2>4. QED
    BY <2>2, <2>3 DEF AnswersAreTrue
<1>2. QED
  BY <1>1, VersionInvHolds, PTL

\* A landed version keeps the files its attempt wrote and, where it is
\* announced, the record of its author: no discard and no forgetting reaches
\* what landed.
THEOREM PartsAreKept == Spec => []LandedKeepsItsParts
<1>1. VersionInv => LandedKeepsItsParts
  BY DEF VersionInv
<1>2. QED
  BY <1>1, VersionInvHolds, PTL
=============================================================================

--------------------------- MODULE SharedStateProofs ---------------------------
(***************************************************************************)
(* What the catalog's requests share, for any of it.  Warehouses: for any  *)
(* tenants, warehouses and requests, asked in any order and stopped        *)
(* anywhere, no two tenants' warehouses are on one bucket, and no door but *)
(* the lifecycle's own changes a warehouse's status or lifts its           *)
(* protection.  DriftReport: beside all of them, no clean report of the    *)
(* reconcile tick leaves out a drift that was there throughout.            *)
(* KeyedDoors: the keyed doors for any number of requests, endpoints and   *)
(* faults, and any lease and clock.  SharedReads: the shared view for any  *)
(* number of threads and tables, and any limit on the locks.               *)
(***************************************************************************)
EXTENDS DriftReport, KeyedDoors, SharedReads, TLAPS

(***************************************************************************)
(* Module Warehouses                                                       *)
(***************************************************************************)

Fields == {"pc", "ask", "read", "root", "name", "obj", "found", "adopted", "bound", "todo",
           "listed", "entries", "ending", "seen"}

CreateSteps == {"create", "claim", "provision", "register", "seed warehouse"}

\* The registry's records and claims, and the shape of what is asked and run.
Shaped ==
    /\ record \in [Warehouses -> Maybe(WarehouseRecord)]
    /\ claims \in [Buckets -> Maybe(Projects)]
    /\ asked \in Seq(SUBSET Asks)
    /\ request = [r \in Requests |-> request[r]]
    /\ \A r \in Requests : DOMAIN request[r] = Fields

\* Every warehouse stands on a bucket its project has claimed.
BucketsAreClaimed ==
    \A w \in Warehouses : record[w] # None => claims[record[w].bucket] = record[w].project

\* A request runs while what was asked with it is not over.
AsksAreKept ==
    \A r \in Requests : ~ At(r, "idle") => asked # <<>> /\ request[r].ask \in Asks

\* A create past its claim holds it.
CreatesHoldTheirClaim ==
    \A r \in Requests :
        /\ request[r].pc \in CreateSteps => request[r].ask.door = "create"
        /\ request[r].pc \in {"claim", "provision", "register"} => request[r].root = request[r].ask.bucket
        /\ request[r].pc \in {"provision", "register"} => claims[request[r].root] = P(r)

EstateInv == Shaped /\ BucketsAreClaimed /\ AsksAreKept /\ CreatesHoldTheirClaim

-----------------------------------------------------------------------------
(* What a step may do to a request                                         *)

LEMMA IdleShape == DOMAIN Idle = Fields /\ Idle.pc = "idle"
  BY DEF Idle, Fields

\* A step of one request that claims nothing keeps the invariant when what it
\* writes over a record is on a claimed bucket.
LEMMA OneMoves ==
    ASSUME EstateInv, NEW r \in Requests, UNCHANGED claims,
           record' \in [Warehouses -> Maybe(WarehouseRecord)],
           \A w \in Warehouses : record'[w] # None => claims[record'[w].bucket] = record'[w].project,
           asked' \in Seq(SUBSET Asks), asked # <<>> => asked' # <<>>,
           NEW l, request' = [request EXCEPT ![r] = l], DOMAIN l = Fields,
           l.pc # "idle" => asked' # <<>> /\ l.ask \in Asks,
           l.pc \in CreateSteps => l.ask.door = "create",
           l.pc \in {"claim", "provision", "register"} => l.root = l.ask.bucket,
           l.pc \in {"provision", "register"} => claims[l.root] = l.ask.project
    PROVE  EstateInv'
<1>1. /\ request' = [q \in Requests |-> request'[q]] /\ request'[r] = l
      /\ \A q \in Requests \ {r} : request'[q] = request[q]
  BY DEF EstateInv, Shaped
<1>2. Shaped'
  <2>1. \A q \in Requests : DOMAIN request'[q] = Fields
    BY <1>1 DEF EstateInv, Shaped
  <2>2. QED
    BY <1>1, <2>1 DEF EstateInv, Shaped
<1>3. BucketsAreClaimed'
  BY DEF BucketsAreClaimed
<1>4. AsksAreKept'
  <2>1. \A q \in Requests : request'[q].pc # "idle" => asked' # <<>> /\ request'[q].ask \in Asks
    BY <1>1 DEF EstateInv, AsksAreKept, At
  <2>2. QED
    BY <2>1 DEF AsksAreKept, At
<1>5. CreatesHoldTheirClaim'
  <2>1. ASSUME NEW q \in Requests
        PROVE  /\ request'[q].pc \in CreateSteps => request'[q].ask.door = "create"
               /\ request'[q].pc \in {"claim", "provision", "register"} =>
                      request'[q].root = request'[q].ask.bucket
               /\ request'[q].pc \in {"provision", "register"} =>
                      claims[request'[q].root] = request'[q].ask.project
    <3>1. CASE q = r
      BY <1>1, <3>1
    <3>2. CASE q # r
      BY <1>1, <3>2 DEF EstateInv, CreatesHoldTheirClaim, P
    <3>3. QED
      BY <3>1, <3>2
  <2>2. QED
    BY <2>1 DEF CreatesHoldTheirClaim, P
<1>6. QED
  BY <1>2, <1>3, <1>4, <1>5 DEF EstateInv

\* A request goes on with what it was asked, or ends.
RequestGoesOn(r) ==
    LET l == request'[r]
    IN  /\ request' = [request EXCEPT ![r] = l] /\ DOMAIN l = Fields
        /\ l.pc = "idle" \/ (l.ask = request[r].ask /\ l.pc \notin CreateSteps)

\* What was asked stays, or its caller asks again.
AskedStays(r) == asked' \in {asked, <<Head(asked) \cup {request[r].ask}>> \o Tail(asked)}

\* A step that concerns no record and no claim.
Quiet(r) == ~ At(r, "idle") /\ UNCHANGED <<record, claims>> /\ AskedStays(r) /\ RequestGoesOn(r)

LEMMA MovesGoesOn ==
    ASSUME EstateInv, NEW r \in Requests, NEW l, Goes(r, l), DOMAIN l = Fields,
           l.pc = "idle" \/ (l.ask = request[r].ask /\ l.pc \notin CreateSteps)
    PROVE  RequestGoesOn(r)
<1>1. request = [q \in Requests |-> request[q]] /\ request' = [request EXCEPT ![r] = l]
  BY DEF EstateInv, Shaped, Goes
<1>2. request'[r] = l
  BY <1>1
<1>3. QED
  BY <1>1, <1>2 DEF RequestGoesOn

LEMMA EndsGoesOn ==
    ASSUME EstateInv, NEW r \in Requests, Ends(r)
    PROVE  RequestGoesOn(r)
  BY IdleShape, MovesGoesOn DEF Ends

LEMMA GoesToGoesOn ==
    ASSUME EstateInv, NEW r \in Requests, NEW pc, pc \notin CreateSteps, GoesTo(r, pc)
    PROVE  RequestGoesOn(r)
<1> DEFINE l == [request[r] EXCEPT !.pc = pc]
<1>1. DOMAIN request[r] = Fields
  BY DEF EstateInv, Shaped
<1>2. DOMAIN l = Fields /\ l.pc = pc /\ l.ask = request[r].ask
  BY <1>1 DEF Fields
<1>3. Goes(r, l)
  BY DEF GoesTo
<1> HIDE DEF l
<1>4. QED
  BY <1>2, <1>3, MovesGoesOn

LEMMA RefusedGoesOn ==
    ASSUME EstateInv, NEW r \in Requests, Refused(r)
    PROVE  UNCHANGED <<record, claims>> /\ AskedStays(r) /\ RequestGoesOn(r)
  BY EndsGoesOn DEF Refused, AskedStays, registry, book

LEMMA GivesUpGoesOn ==
    ASSUME EstateInv, NEW r \in Requests, GivesUp(r)
    PROVE  AskedStays(r) /\ RequestGoesOn(r)
  BY EndsGoesOn DEF GivesUp, AskedStays

\* What was asked stays well-formed.
LEMMA AskedStaysAsked ==
    ASSUME EstateInv, NEW r \in Requests, ~ At(r, "idle"), AskedStays(r)
    PROVE  asked' \in Seq(SUBSET Asks) /\ asked' # <<>> /\ request[r].ask \in Asks
<1>1. asked \in Seq(SUBSET Asks) /\ asked # <<>> /\ request[r].ask \in Asks
  BY DEF EstateInv, Shaped, AsksAreKept
<1>2. QED
  BY <1>1 DEF AskedStays

LEMMA QuietKeeps ==
    ASSUME EstateInv, NEW r \in Requests, Quiet(r)
    PROVE  EstateInv'
<1>1. asked' \in Seq(SUBSET Asks) /\ asked' # <<>> /\ request[r].ask \in Asks
  BY AskedStaysAsked DEF Quiet
<1> DEFINE l == request'[r]
<1>2. /\ request' = [request EXCEPT ![r] = l] /\ DOMAIN l = Fields
      /\ l.pc = "idle" \/ (l.ask = request[r].ask /\ l.pc \notin CreateSteps)
  BY DEF Quiet, RequestGoesOn
<1> HIDE DEF l
<1>3. l.pc \notin CreateSteps
  BY <1>2 DEF CreateSteps
<1>4. l.pc \notin {"claim", "provision", "register"}
  BY <1>3 DEF CreateSteps
<1>5. /\ record' = record /\ claims' = claims
      /\ record \in [Warehouses -> Maybe(WarehouseRecord)]
      /\ \A w \in Warehouses : record[w] # None => claims[record[w].bucket] = record[w].project
  BY DEF Quiet, EstateInv, Shaped, BucketsAreClaimed
<1>6. QED
  BY <1>1, <1>2, <1>3, <1>4, <1>5, OneMoves

-----------------------------------------------------------------------------
(* The doors' quiet steps                                                  *)

\* The namespaces' doors.
LEMMA BindingDoorsQuiet ==
    ASSUME EstateInv, NEW r \in Requests, BindingDoors(r)
    PROVE  Quiet(r)
<1>0. DOMAIN request[r] = Fields
  BY DEF EstateInv, Shaped
<1>1. CASE BindJudges(r)
  <2>1. CASE Refused(r)
    BY <1>1, <2>1, RefusedGoesOn DEF BindJudges, Quiet, At
  <2>2. CASE ~ Refused(r)
    <3> DEFINE l == [request[r] EXCEPT !.pc = "make", !.root = record[W(r)].bucket]
    <3>1. /\ ~ At(r, "idle") /\ UNCHANGED <<record, claims, asked>> /\ Goes(r, l)
      BY <1>1, <2>2 DEF BindJudges, At, registry, book
    <3>2. DOMAIN l = Fields /\ l.ask = request[r].ask /\ l.pc = "make"
      BY <1>0 DEF Fields
    <3> HIDE DEF l
    <3>3. QED
      BY <3>1, <3>2, MovesGoesOn DEF Quiet, AskedStays, CreateSteps
  <2>3. QED
    BY <2>1, <2>2
<1>2. CASE BindWrites(r)
  BY <1>2, RefusedGoesOn, GoesToGoesOn DEF BindWrites, Quiet, At, AskedStays, registry, book, CreateSteps
<1>3. CASE BindSeeds(r)
  BY <1>3, EndsGoesOn DEF BindSeeds, Quiet, At, AskedStays, registry, book
<1>4. CASE BindSeedFails(r)
  BY <1>4, EndsGoesOn, GoesToGoesOn DEF BindSeedFails, Quiet, At, AskedStays, registry, CreateSteps
<1>5. CASE BindTakesBackGrants(r)
  BY <1>5, GoesToGoesOn DEF BindTakesBackGrants, Quiet, At, AskedStays, registry, CreateSteps
<1>6. CASE BindTakesBack(r)
  BY <1>6, GoesToGoesOn, RefusedGoesOn DEF BindTakesBack, Quiet, At, AskedStays, registry, book, CreateSteps
<1>7. CASE BindTakesBackBinding(r) \/ UnbindRemoves(r)
  BY <1>7, EndsGoesOn DEF BindTakesBackBinding, UnbindRemoves, Unbinds, Quiet, At, AskedStays, book
<1>8. CASE UnbindLists(r)
  BY <1>8, GoesToGoesOn, RefusedGoesOn DEF UnbindLists, Quiet, At, AskedStays, registry, book, CreateSteps
<1>9. CASE UnbindJudges(r)
  <2>1. CASE Refused(r)
    BY <1>9, <2>1, RefusedGoesOn DEF UnbindJudges, Quiet, At
  <2>2. CASE ~ Refused(r)
    <3> DEFINE l == [request[r] EXCEPT !.pc = "list", !.root = binding[N(r)].root]
    <3>1. /\ ~ At(r, "idle") /\ UNCHANGED <<record, claims, asked>> /\ Goes(r, l)
      BY <1>9, <2>2 DEF UnbindJudges, At, registry, book
    <3>2. DOMAIN l = Fields /\ l.ask = request[r].ask /\ l.pc = "list"
      BY <1>0 DEF Fields
    <3> HIDE DEF l
    <3>3. QED
      BY <3>1, <3>2, MovesGoesOn DEF Quiet, AskedStays, CreateSteps
  <2>3. QED
    BY <2>1, <2>2
<1>10. CASE BindCreates(r)
  <2>1. CASE Refused(r)
    BY <1>10, <2>1, RefusedGoesOn DEF BindCreates, Quiet, At
  <2>2. CASE ~ Refused(r)
    <3>1. /\ ~ At(r, "idle") /\ UNCHANGED <<record, claims, asked>>
          /\ \/ Goes(r, [request[r] EXCEPT !.pc = "write binding"])
             \/ Goes(r, [request[r] EXCEPT !.pc = "write binding", !.adopted = TRUE])
      BY <1>10, <2>2 DEF BindCreates, At, GoesTo, registry, book
    <3>2. PICK l : Goes(r, l) /\ DOMAIN l = Fields /\ l.ask = request[r].ask /\ l.pc = "write binding"
      <4> DEFINE k == [request[r] EXCEPT !.pc = "write binding"]
                 m == [request[r] EXCEPT !.pc = "write binding", !.adopted = TRUE]
      <4>1. /\ DOMAIN k = Fields /\ k.ask = request[r].ask /\ k.pc = "write binding"
            /\ DOMAIN m = Fields /\ m.ask = request[r].ask /\ m.pc = "write binding"
        BY <1>0 DEF Fields
      <4>2. Goes(r, k) \/ Goes(r, m)
        BY <3>1
      <4> HIDE DEF k, m
      <4>3. QED
        BY <4>1, <4>2
    <3>3. QED
      BY <3>1, <3>2, MovesGoesOn DEF Quiet, AskedStays, CreateSteps
  <2>3. QED
    BY <2>1, <2>2
<1>11. CASE BindReadsUuid(r)
  <2>1. CASE Refused(r)
    BY <1>11, <2>1, RefusedGoesOn DEF BindReadsUuid, Quiet, At
  <2>2. CASE ~ Refused(r)
    <3> DEFINE l == [request[r] EXCEPT !.pc = "seed", !.obj = Space(r)]
    <3>1. /\ ~ At(r, "idle") /\ UNCHANGED <<record, claims, asked>> /\ Goes(r, l)
      BY <1>11, <2>2 DEF BindReadsUuid, At, registry, book
    <3>2. DOMAIN l = Fields /\ l.ask = request[r].ask /\ l.pc = "seed"
      BY <1>0 DEF Fields
    <3> HIDE DEF l
    <3>3. QED
      BY <3>1, <3>2, MovesGoesOn DEF Quiet, AskedStays, CreateSteps
  <2>3. QED
    BY <2>1, <2>2
<1>12. QED
  BY <1>1, <1>2, <1>3, <1>4, <1>5, <1>6, <1>7, <1>8, <1>9, <1>10, <1>11 DEF BindingDoors

\* The cascading drop and the undrop of a namespace.
LEMMA DropDoorsQuiet ==
    ASSUME EstateInv, NEW r \in Requests, DropDoors(r)
    PROVE  Quiet(r)
<1>0. DOMAIN request[r] = Fields
  BY DEF EstateInv, Shaped
<1>1. CASE DropReads(r)
  <2>1. CASE Refused(r)
    BY <1>1, <2>1, RefusedGoesOn DEF DropReads, Quiet, At
  <2>2. CASE ~ Refused(r)
    <3> DEFINE root == Root(N(r))
               pc == IF With(r, "purge") THEN "destroy table"
                     ELSE IF tables[root][N(r)] = None THEN "drop space" ELSE "file"
               found == [space |-> spaces[root][N(r)], table |-> tables[root][N(r)]]
               l == [request[r] EXCEPT !.pc = pc, !.root = root, !.found = found]
    <3>1. /\ ~ At(r, "idle") /\ UNCHANGED <<record, claims, asked>> /\ Goes(r, l)
      BY <1>1, <2>2 DEF DropReads, At, registry, book
    <3>2. pc \in {"destroy table", "drop space", "file"}
      OBVIOUS
    <3> HIDE DEF root, pc, found
    <3>3. DOMAIN l = Fields /\ l.ask = request[r].ask /\ l.pc = pc
      BY <1>0 DEF Fields
    <3> HIDE DEF l
    <3>4. QED
      BY <3>1, <3>2, <3>3, MovesGoesOn DEF Quiet, AskedStays, CreateSteps
  <2>3. QED
    BY <2>1, <2>2
<1>2. CASE DropFiles(r)
  BY <1>2, GoesToGoesOn DEF DropFiles, Quiet, At, AskedStays, registry, book, CreateSteps
<1>3. CASE DropDeregisters(r)
  BY <1>3, GoesToGoesOn, RefusedGoesOn DEF DropDeregisters, Quiet, At, AskedStays, registry, book, CreateSteps
<1>4. CASE DropDropsSpace(r)
  <2>1. CASE Refused(r)
    BY <1>4, <2>1, RefusedGoesOn DEF DropDropsSpace, Quiet, At
  <2>2. CASE ~ Refused(r)
    <3> DEFINE l == [request[r] EXCEPT !.pc = "file space", !.bound = binding[N(r)]]
    <3>1. /\ ~ At(r, "idle") /\ UNCHANGED <<record, claims, asked>> /\ Goes(r, l)
      BY <1>4, <2>2 DEF DropDropsSpace, At, registry, book
    <3>2. DOMAIN l = Fields /\ l.ask = request[r].ask /\ l.pc = "file space"
      BY <1>0 DEF Fields
    <3> HIDE DEF l
    <3>3. QED
      BY <3>1, <3>2, MovesGoesOn DEF Quiet, AskedStays, CreateSteps
  <2>3. QED
    BY <2>1, <2>2
<1>5. CASE DropFilesSpace(r)
  BY <1>5, GoesToGoesOn, EndsGoesOn DEF DropFilesSpace, Quiet, At, AskedStays, registry, book, CreateSteps
<1>6. CASE DropUnbinds(r)
  BY <1>6, EndsGoesOn DEF DropUnbinds, Quiet, At, AskedStays, Unbinds, book
<1>7. CASE DropDestroys(r)
  BY <1>7, GoesToGoesOn DEF DropDestroys, Quiet, At, AskedStays, registry, book, CreateSteps
<1>8. CASE DropDestroysSpace(r)
  BY <1>8, GoesToGoesOn, RefusedGoesOn DEF DropDestroysSpace, Quiet, At, AskedStays, registry, book, CreateSteps
<1>9. CASE DropUnbindsDestroyed(r)
  <2> DEFINE l == [request[r] EXCEPT !.pc = "end", !.ending = Standing(request[r].found)]
  <2>1. /\ ~ At(r, "idle") /\ UNCHANGED <<record, claims, asked>> /\ Goes(r, l)
    BY <1>9 DEF DropUnbindsDestroyed, At, Unbinds, book
  <2>2. DOMAIN l = Fields /\ l.ask = request[r].ask /\ l.pc = "end"
    BY <1>0 DEF Fields
  <2> HIDE DEF l
  <2>3. QED
    BY <2>1, <2>2, MovesGoesOn DEF Quiet, AskedStays, CreateSteps
<1>10. CASE UndropReads(r)
  <2>1. CASE Refused(r)
    BY <1>10, <2>1, RefusedGoesOn DEF UndropReads, Quiet, At
  <2>2. CASE ~ Refused(r)
    <3>1. PICK e \in trash :
              Goes(r, [request[r] EXCEPT !.pc = "rebind", !.root = Root(N(r)), !.obj = e.obj, !.bound = e.bound,
                           !.entries = FiledWith(e)])
      BY <1>10, <2>2 DEF UndropReads
    <3> DEFINE es == FiledWith(e)
               l == [request[r] EXCEPT !.pc = "rebind", !.root = Root(N(r)), !.obj = e.obj, !.bound = e.bound,
                                       !.entries = es]
    <3>2. ~ At(r, "idle") /\ UNCHANGED <<record, claims, asked>> /\ Goes(r, l)
      BY <1>10, <2>2, <3>1 DEF UndropReads, At, registry, book
    <3> HIDE DEF es
    <3>3. DOMAIN l = Fields /\ l.ask = request[r].ask /\ l.pc = "rebind"
      BY <1>0 DEF Fields
    <3> HIDE DEF l
    <3>4. QED
      BY <3>2, <3>3, MovesGoesOn DEF Quiet, AskedStays, CreateSteps
  <2>3. QED
    BY <2>1, <2>2
<1>11. CASE UndropRebinds(r)
  <2>1. CASE Refused(r)
    BY <1>11, <2>1, RefusedGoesOn DEF UndropRebinds, Quiet, At
  <2>2. CASE GoesTo(r, "rebuild")
    <3>1. ~ At(r, "idle") /\ (UNCHANGED <<record, claims, asked>>)
      BY <1>11 DEF UndropRebinds, Refused, At, registry, book
    <3>2. QED
      BY <2>2, <3>1, GoesToGoesOn DEF Quiet, AskedStays, CreateSteps
  <2>3. CASE ~ Refused(r) /\ ~ GoesTo(r, "rebuild")
    <3> DEFINE l == [request[r] EXCEPT !.pc = "rebuild", !.root = request[r].bound.root]
    <3>1. /\ ~ At(r, "idle") /\ UNCHANGED <<record, claims, asked>> /\ Goes(r, l)
      BY <1>11, <2>3 DEF UndropRebinds, At, registry, book
    <3>2. DOMAIN l = Fields /\ l.ask = request[r].ask /\ l.pc = "rebuild"
      BY <1>0 DEF Fields
    <3> HIDE DEF l
    <3>3. QED
      BY <3>1, <3>2, MovesGoesOn DEF Quiet, AskedStays, CreateSteps
  <2>4. QED
    BY <2>1, <2>2, <2>3
<1>12. CASE UndropRebuilds(r)
  BY <1>12, GoesToGoesOn DEF UndropRebuilds, Quiet, At, AskedStays, registry, book, CreateSteps
<1>13. CASE UndropClears(r)
  <2>1. ~ At(r, "idle") /\ UNCHANGED <<record, claims, asked>>
    BY <1>13 DEF UndropClears, At, registry, book
  <2>2. CASE Ends(r)
    BY <2>1, <2>2, EndsGoesOn DEF Quiet, AskedStays
  <2>3. CASE ~ Ends(r)
    <3>1. PICK e : Goes(r, [request[r] EXCEPT !.pc = "rebuild", !.entries = @ \ {e}])
      BY <1>13, <2>3 DEF UndropClears
    <3> DEFINE l == [request[r] EXCEPT !.pc = "rebuild", !.entries = @ \ {e}]
    <3>2. DOMAIN l = Fields /\ l.ask = request[r].ask /\ l.pc = "rebuild"
      BY <1>0 DEF Fields
    <3> HIDE DEF l
    <3>3. QED
      BY <2>1, <3>1, <3>2, MovesGoesOn DEF Quiet, AskedStays, CreateSteps, l
  <2>4. QED
    BY <2>2, <2>3
<1>14. CASE EndsOne(r)
  <2>1. PICK o \in NextToEnd(r) :
            \/ /\ Goes(r, [request[r] EXCEPT !.ending = (@ \cup Children(@, r)) \ {o}, !.seen = @ \cup {o}])
               /\ UNCHANGED <<registry, book>>
            \/ RevokeInterrupted(r, o)
    BY <1>14 DEF EndsOne
  <2>2. request[r].pc \in {"end", "end subtree", "end orphans"} /\ ~ At(r, "idle")
    BY <1>14 DEF EndsOne, At
  <2>3. CASE RevokeInterrupted(r, o)
    BY <2>2, <2>3, GivesUpGoesOn DEF RevokeInterrupted, Quiet, registry
  <2>4. CASE ~ RevokeInterrupted(r, o)
    <3> DEFINE es == (request[r].ending \cup Children(request[r].ending, r)) \ {o}
               l == [request[r] EXCEPT !.ending = es, !.seen = @ \cup {o}]
    <3>1. UNCHANGED <<record, claims, asked>> /\ Goes(r, l)
      BY <2>1, <2>4 DEF registry, book, Goes
    <3> HIDE DEF es
    <3>2. DOMAIN l = Fields /\ l.ask = request[r].ask /\ l.pc = request[r].pc
      BY <1>0 DEF Fields
    <3> HIDE DEF l
    <3>3. QED
      BY <2>2, <3>1, <3>2, MovesGoesOn DEF Quiet, AskedStays, CreateSteps
  <2>5. QED
    BY <2>3, <2>4
<1>15. CASE EndsLast(r)
  BY <1>15, EndsGoesOn, GoesToGoesOn DEF EndsLast, Quiet, At, AskedStays, registry, book, CreateSteps
<1>16. QED
  BY <1>1, <1>2, <1>3, <1>4, <1>5, <1>6, <1>7, <1>8, <1>9, <1>10, <1>11, <1>12, <1>13, <1>14, <1>15 DEF DropDoors

\* The delete of a warehouse, up to the removal of its record.
LEMMA DeleteDoorQuiet ==
    ASSUME EstateInv, NEW r \in Requests, DeleteDoor(r), ~ DeleteRemovesRecord(r)
    PROVE  Quiet(r)
<1>0. DOMAIN request[r] = Fields
  BY DEF EstateInv, Shaped
<1>1. CASE DeleteReads(r)
  <2>1. CASE Refused(r)
    BY <1>1, <2>1, RefusedGoesOn DEF DeleteReads, Quiet, At
  <2>2. CASE ~ Refused(r)
    <3> DEFINE l == [request[r] EXCEPT !.pc = "judge", !.read = record[W(r)], !.root = record[W(r)].bucket]
    <3>1. /\ ~ At(r, "idle") /\ UNCHANGED <<record, claims, asked>> /\ Goes(r, l)
      BY <1>1, <2>2 DEF DeleteReads, At, registry, book
    <3>2. DOMAIN l = Fields /\ l.ask = request[r].ask /\ l.pc = "judge"
      BY <1>0 DEF Fields
    <3> HIDE DEF l
    <3>3. QED
      BY <3>1, <3>2, MovesGoesOn DEF Quiet, AskedStays, CreateSteps
  <2>3. QED
    BY <2>1, <2>2
<1>2. CASE DeleteJudges(r)
  <2>1. CASE Refused(r)
    BY <1>2, <2>1, RefusedGoesOn DEF DeleteJudges, Quiet, At
  <2>2. CASE ~ Refused(r)
    <3> DEFINE l == [request[r] EXCEPT !.pc = "enumerate", !.todo = BoundTo(W(r))]
    <3>1. /\ ~ At(r, "idle") /\ UNCHANGED <<record, claims, asked>> /\ Goes(r, l)
      BY <1>2, <2>2 DEF DeleteJudges, At, registry, book
    <3>2. DOMAIN l = Fields /\ l.ask = request[r].ask /\ l.pc = "enumerate"
      BY <1>0 DEF Fields
    <3> HIDE DEF l
    <3>3. QED
      BY <3>1, <3>2, MovesGoesOn DEF Quiet, AskedStays, CreateSteps
  <2>3. QED
    BY <2>1, <2>2
<1>3. CASE DeleteEnumerates(r)
  <2> DEFINE b == request[r].root
             seen == [m \in Names |-> [space |-> spaces[b][m], table |-> tables[b][m]]]
             l == [request[r] EXCEPT !.pc = "trashed", !.entries = TrashOwnedBy(W(r), b), !.listed = seen]
  <2>1. ~ At(r, "idle") /\ UNCHANGED <<record, claims, asked>> /\ Goes(r, l)
    BY <1>3 DEF DeleteEnumerates, At, registry, book
  <2> HIDE DEF b, seen
  <2>2. DOMAIN l = Fields /\ l.ask = request[r].ask /\ l.pc = "trashed"
    BY <1>0 DEF Fields
  <2> HIDE DEF l
  <2>3. QED
    BY <2>1, <2>2, MovesGoesOn DEF Quiet, AskedStays, CreateSteps
<1>4. CASE DeleteRevokesTrashed(r)
  <2>1. PICK e : \/ /\ Goes(r, [request[r] EXCEPT !.pc = "forget", !.obj = e.obj])
                    /\ UNCHANGED <<registry, book>>
                 \/ RevokeInterrupted(r, e.obj)
    BY <1>4 DEF DeleteRevokesTrashed
  <2>2. ~ At(r, "idle")
    BY <1>4 DEF DeleteRevokesTrashed, At
  <2>3. CASE RevokeInterrupted(r, e.obj)
    BY <2>2, <2>3, GivesUpGoesOn DEF RevokeInterrupted, Quiet, registry
  <2>4. CASE ~ RevokeInterrupted(r, e.obj)
    <3> DEFINE l == [request[r] EXCEPT !.pc = "forget", !.obj = e.obj]
    <3>1. UNCHANGED <<record, claims, asked>> /\ Goes(r, l)
      BY <2>1, <2>4 DEF registry, book
    <3>2. DOMAIN l = Fields /\ l.ask = request[r].ask /\ l.pc = "forget"
      BY <1>0 DEF Fields
    <3> HIDE DEF l
    <3>3. QED
      BY <2>2, <3>1, <3>2, MovesGoesOn DEF Quiet, AskedStays, CreateSteps
  <2>5. QED
    BY <2>3, <2>4
<1>5. CASE DeleteForgetsTrashed(r)
  <2> DEFINE es == {e \in request[r].entries : e.obj # request[r].obj}
             l == [request[r] EXCEPT !.pc = "trashed", !.entries = es]
  <2>1. ~ At(r, "idle") /\ UNCHANGED <<record, claims, asked>> /\ Goes(r, l)
    BY <1>5 DEF DeleteForgetsTrashed, At, registry, book, Goes
  <2> HIDE DEF es
  <2>2. DOMAIN l = Fields /\ l.ask = request[r].ask /\ l.pc = "trashed"
    BY <1>0 DEF Fields
  <2> HIDE DEF l
  <2>3. QED
    BY <2>1, <2>2, MovesGoesOn DEF Quiet, AskedStays, CreateSteps
<1>6. CASE DeleteDetaches(r)
  <2>1. PICK n \in request[r].todo :
            Goes(r, [request[r] EXCEPT !.pc = "delete space", !.name = n, !.found = request[r].listed[n]])
    BY <1>6 DEF DeleteDetaches
  <2> DEFINE l == [request[r] EXCEPT !.pc = "delete space", !.name = n, !.found = request[r].listed[n]]
  <2>2. ~ At(r, "idle") /\ UNCHANGED <<record, claims, asked>> /\ Goes(r, l)
    BY <1>6, <2>1 DEF DeleteDetaches, At, registry, book
  <2>3. DOMAIN l = Fields /\ l.ask = request[r].ask /\ l.pc = "delete space"
    BY <1>0 DEF Fields
  <2> HIDE DEF l
  <2>4. QED
    BY <2>2, <2>3, MovesGoesOn DEF Quiet, AskedStays, CreateSteps
<1>7. CASE DeleteDropsSpace(r)
  <2>1. CASE Refused(r)
    BY <1>7, <2>1, RefusedGoesOn DEF DeleteDropsSpace, Quiet, At
  <2>2. CASE ~ Refused(r)
    <3> DEFINE l == [request[r] EXCEPT !.pc = "end subtree", !.ending = Standing(request[r].found), !.seen = {}]
    <3>1. /\ ~ At(r, "idle") /\ UNCHANGED <<record, claims, asked>> /\ Goes(r, l)
      BY <1>7, <2>2 DEF DeleteDropsSpace, At, registry, book
    <3>2. DOMAIN l = Fields /\ l.ask = request[r].ask /\ l.pc = "end subtree"
      BY <1>0 DEF Fields
    <3> HIDE DEF l
    <3>3. QED
      BY <3>1, <3>2, MovesGoesOn DEF Quiet, AskedStays, CreateSteps
  <2>3. QED
    BY <2>1, <2>2
<1>8. CASE DeleteUnbinds(r)
  <2> DEFINE ns == request[r].todo \ {N(r)}
             l == [request[r] EXCEPT !.pc = "trashed", !.todo = ns, !.name = None]
  <2>1. ~ At(r, "idle") /\ UNCHANGED <<record, claims, asked>> /\ Goes(r, l)
    BY <1>8 DEF DeleteUnbinds, Unbinds, At, book, Goes
  <2> HIDE DEF ns
  <2>2. DOMAIN l = Fields /\ l.ask = request[r].ask /\ l.pc = "trashed"
    BY <1>0 DEF Fields
  <2> HIDE DEF l
  <2>3. QED
    BY <2>1, <2>2, MovesGoesOn DEF Quiet, AskedStays, CreateSteps
<1>9. CASE DeleteFindsOrphans(r)
  <2> DEFINE l == [request[r] EXCEPT !.pc = "end orphans", !.ending = OrphansOf(W(r)), !.seen = {}]
  <2>1. /\ ~ At(r, "idle") /\ UNCHANGED <<record, claims, asked>> /\ Goes(r, l)
    BY <1>9 DEF DeleteFindsOrphans, At, registry, book
  <2>2. DOMAIN l = Fields /\ l.ask = request[r].ask /\ l.pc = "end orphans"
    BY <1>0 DEF Fields
  <2> HIDE DEF l
  <2>3. QED
    BY <2>1, <2>2, MovesGoesOn DEF Quiet, AskedStays, CreateSteps
<1>10. CASE DeleteRevokesWarehouse(r)
  BY <1>10, GoesToGoesOn, GivesUpGoesOn DEF DeleteRevokesWarehouse, Quiet, At, AskedStays, registry, book, CreateSteps
<1>11. CASE DeletePurges(r)
  BY <1>11, EndsGoesOn DEF DeletePurges, Quiet, At, AskedStays, registry, book
<1>12. QED
  BY <1>1, <1>2, <1>3, <1>4, <1>5, <1>6, <1>7, <1>8, <1>9, <1>10, <1>11 DEF DeleteDoor

-----------------------------------------------------------------------------
(* The tenants' doors                                                      *)

\* A request that comes in.
LEMMA BeginsKeeps ==
    ASSUME EstateInv, NEW r \in Requests, Begins(r)
    PROVE  EstateInv'
<1>1. PICK a \in Head(asked) : /\ Goes(r, [Idle EXCEPT !.pc = a.door, !.ask = a, !.name = a.name])
                               /\ asked' = <<Head(asked) \ {a}>> \o Tail(asked)
  BY DEF Begins
<1> DEFINE l == [Idle EXCEPT !.pc = a.door, !.ask = a, !.name = a.name]
<1>2. /\ record' = record /\ claims' = claims /\ request' = [request EXCEPT ![r] = l] /\ asked # <<>>
      /\ asked \in Seq(SUBSET Asks) /\ record \in [Warehouses -> Maybe(WarehouseRecord)]
      /\ \A w \in Warehouses : record[w] # None => claims[record[w].bucket] = record[w].project
  BY <1>1 DEF Begins, Goes, EstateInv, Shaped, BucketsAreClaimed, registry
<1>3. a \in Asks /\ asked' \in Seq(SUBSET Asks) /\ asked' # <<>>
  BY <1>1, <1>2
<1>4. a.door \in Doors /\ a.door \notin {"claim", "provision", "register", "seed warehouse"}
  BY <1>3 DEF Asks, Ask, Doors
<1>5. DOMAIN l = Fields /\ l.pc = a.door /\ l.ask = a
  BY IdleShape DEF Fields
<1> HIDE DEF l
<1>6. /\ l.pc \in CreateSteps => l.ask.door = "create"
      /\ l.pc \notin {"claim", "provision", "register"}
  BY <1>4, <1>5 DEF CreateSteps
<1>7. QED
  BY <1>2, <1>3, <1>5, <1>6, OneMoves

\* A create judges on what it reads, and claims nothing yet.
LEMMA CreateJudgesKeeps ==
    ASSUME EstateInv, NEW r \in Requests, CreateJudges(r), ~ Refused(r)
    PROVE  EstateInv'
<1> DEFINE l == [request[r] EXCEPT !.pc = "claim", !.read = record[W(r)], !.root = request[r].ask.bucket]
<1>1. /\ record' = record /\ claims' = claims /\ asked' = asked /\ request' = [request EXCEPT ![r] = l]
      /\ request[r].pc = "create"
  BY DEF CreateJudges, Goes, At, registry, book
<1>2. DOMAIN request[r] = Fields
  BY DEF EstateInv, Shaped
<1>3. /\ DOMAIN l = Fields /\ l.pc = "claim" /\ l.ask = request[r].ask /\ l.root = l.ask.bucket
  BY <1>2 DEF Fields
<1> HIDE DEF l
<1>4. /\ asked \in Seq(SUBSET Asks) /\ record \in [Warehouses -> Maybe(WarehouseRecord)]
      /\ asked # <<>> /\ request[r].ask \in Asks /\ request[r].ask.door = "create"
      /\ \A w \in Warehouses : record[w] # None => claims[record[w].bucket] = record[w].project
  BY <1>1 DEF EstateInv, Shaped, BucketsAreClaimed, AsksAreKept, CreatesHoldTheirClaim, CreateSteps, At
<1>5. QED
  BY <1>1, <1>3, <1>4, OneMoves

\* A create that goes on within its claim.
LEMMA CreateGoesOn ==
    ASSUME EstateInv, NEW r \in Requests, UNCHANGED <<claims, asked>>,
           record' \in [Warehouses -> Maybe(WarehouseRecord)],
           \A w \in Warehouses : record'[w] # None => claims[record'[w].bucket] = record'[w].project,
           request[r].pc \in {"provision", "register"},
           NEW pc \in {"register", "seed warehouse"}, GoesTo(r, pc)
    PROVE  EstateInv'
<1> DEFINE l == [request[r] EXCEPT !.pc = pc]
<1>1. request' = [request EXCEPT ![r] = l]
  BY DEF GoesTo, Goes
<1>2. DOMAIN request[r] = Fields
  BY DEF EstateInv, Shaped
<1>3. DOMAIN l = Fields /\ l.pc = pc /\ l.ask = request[r].ask /\ l.root = request[r].root
  BY <1>2 DEF Fields
<1> HIDE DEF l
<1>4. /\ asked \in Seq(SUBSET Asks) /\ asked # <<>> /\ request[r].ask \in Asks
      /\ request[r].ask.door = "create" /\ request[r].root = request[r].ask.bucket
      /\ claims[request[r].root] = request[r].ask.project
  BY DEF EstateInv, Shaped, AsksAreKept, CreatesHoldTheirClaim, CreateSteps, At, P
<1>5. QED
  BY <1>1, <1>3, <1>4, OneMoves

\* claim_bucket: a claim once made is nobody else's.
LEMMA CreateClaimsKeeps ==
    ASSUME EstateInv, NEW r \in Requests, CreateClaims(r), ~ Refused(r)
    PROVE  EstateInv'
<1> DEFINE b == request[r].root
           p == P(r)
           l == [request[r] EXCEPT !.pc = "provision"]
<1>1. /\ record' = record /\ asked' = asked /\ claims' = [claims EXCEPT ![b] = p]
      /\ claims[b] \in {None, p} /\ request[r].pc = "claim" /\ request' = [request EXCEPT ![r] = l]
  BY DEF CreateClaims, Claimable, GoesTo, Goes, At, book
<1>2. /\ DOMAIN request[r] = Fields /\ request = [q \in Requests |-> request[q]]
      /\ record \in [Warehouses -> Maybe(WarehouseRecord)] /\ claims \in [Buckets -> Maybe(Projects)]
      /\ asked \in Seq(SUBSET Asks) /\ asked # <<>>
      /\ request[r].ask \in Asks /\ request[r].ask.door = "create" /\ b = request[r].ask.bucket
  BY <1>1 DEF EstateInv, Shaped, AsksAreKept, CreatesHoldTheirClaim, CreateSteps, At
<1>3. b \in Buckets /\ p \in Projects /\ p = request[r].ask.project
  BY <1>2 DEF Asks, P
<1>4. /\ DOMAIN l = Fields /\ l.pc = "provision" /\ l.ask = request[r].ask /\ l.root = b
  BY <1>2 DEF Fields
<1> HIDE DEF l, b, p
<1>5. /\ request' = [q \in Requests |-> request'[q]] /\ request'[r] = l
      /\ \A q \in Requests \ {r} : request'[q] = request[q]
  BY <1>1, <1>2
<1>6. /\ claims' \in [Buckets -> Maybe(Projects)] /\ claims'[b] = p
      /\ \A c \in Buckets : claims[c] \in Projects => claims'[c] = claims[c]
  BY <1>1, <1>2, <1>3, EstateAssumption DEF Maybe
<1>7. Shaped'
  <2>1. \A q \in Requests : DOMAIN request'[q] = Fields
    BY <1>4, <1>5 DEF EstateInv, Shaped
  <2>2. QED
    BY <1>1, <1>2, <1>5, <1>6, <2>1 DEF Shaped
<1>8. BucketsAreClaimed'
  <2>1. ASSUME NEW w \in Warehouses, record[w] # None
        PROVE  claims'[record[w].bucket] = record[w].project
    <3>1. record[w].bucket \in Buckets /\ record[w].project \in Projects
      BY <1>2, <2>1 DEF Maybe, WarehouseRecord
    <3>2. claims[record[w].bucket] = record[w].project
      BY <2>1 DEF EstateInv, BucketsAreClaimed
    <3>3. QED
      BY <1>6, <3>1, <3>2
  <2>2. QED
    BY <1>1, <2>1 DEF BucketsAreClaimed
<1>9. AsksAreKept'
  <2>1. \A q \in Requests : request'[q].pc # "idle" => asked' # <<>> /\ request'[q].ask \in Asks
    BY <1>1, <1>2, <1>4, <1>5 DEF EstateInv, AsksAreKept, At
  <2>2. QED
    BY <2>1 DEF AsksAreKept, At
<1>10. CreatesHoldTheirClaim'
  <2>1. ASSUME NEW q \in Requests
        PROVE  /\ request'[q].pc \in CreateSteps => request'[q].ask.door = "create"
               /\ request'[q].pc \in {"claim", "provision", "register"} =>
                      request'[q].root = request'[q].ask.bucket
               /\ request'[q].pc \in {"provision", "register"} =>
                      claims'[request'[q].root] = request'[q].ask.project
    <3>1. CASE q = r
      BY <1>2, <1>3, <1>4, <1>5, <1>6, <3>1 DEF b
    <3>2. CASE q # r
      <4>1. /\ request[q].pc \in CreateSteps => request[q].ask.door = "create"
            /\ request[q].pc \in {"claim", "provision", "register"} => request[q].root = request[q].ask.bucket
            /\ request[q].pc \in {"provision", "register"} =>
                   claims[request[q].root] = request[q].ask.project
        BY DEF EstateInv, CreatesHoldTheirClaim, P
      <4>2. request[q].pc \in {"provision", "register"} =>
                request[q].root \in Buckets /\ request[q].ask.project \in Projects
        BY <4>1 DEF EstateInv, AsksAreKept, Asks, At, CreateSteps
      <4>3. QED
        BY <1>5, <1>6, <3>2, <4>1, <4>2
    <3>3. QED
      BY <3>1, <3>2
  <2>2. QED
    BY <2>1 DEF CreatesHoldTheirClaim, P
<1>11. QED
  BY <1>7, <1>8, <1>9, <1>10 DEF EstateInv

\* What a create writes over a record: the tenant's own, on the bucket it
\* claimed, with the status that stood, and its protection unless the request
\* asks for it to be cleared.
LEMMA CreateRegistersWrites ==
    ASSUME EstateInv, NEW r \in Requests, CreateRegisters(r), ~ Refused(r)
    PROVE  /\ UNCHANGED <<claims, asked>> /\ request[r].pc = "register" /\ GoesTo(r, "seed warehouse")
           /\ \E new \in WarehouseRecord :
                 /\ record' = [record EXCEPT ![W(r)] = new]
                 /\ claims[new.bucket] = new.project
                 /\ record[W(r)] = None \/ (new.status = record[W(r)].status
                                            /\ (record[W(r)].protected = TRUE /\ ~ With(r, "unprotected")
                                                  => new.protected = TRUE))
<1>1. /\ UNCHANGED <<claims, asked>> /\ request[r].pc = "register" /\ GoesTo(r, "seed warehouse")
      /\ \/ /\ record[W(r)] = None /\ record' = [record EXCEPT ![W(r)] = MintedRecord(r)]
         \/ /\ record[W(r)] # None /\ record[W(r)].project = P(r)
            /\ record' = [record EXCEPT ![W(r)] = Merged(record[W(r)], r)]
  BY DEF CreateRegisters, At, book
<1>2. /\ claims[request[r].root] = P(r) /\ request[r].root \in Buckets /\ P(r) \in Projects
      /\ W(r) \in Warehouses
  <2>1. /\ claims[request[r].root] = P(r) /\ request[r].root = request[r].ask.bucket
        /\ request[r].ask \in Asks /\ request[r].ask.door = "create"
    BY <1>1 DEF EstateInv, AsksAreKept, CreatesHoldTheirClaim, CreateSteps, At
  <2>2. QED
    BY <2>1 DEF Asks, P, W
<1>3. With(r, "protected") \in BOOLEAN /\ With(r, "unprotected") \in BOOLEAN
  BY DEF With
<1>4. CASE record[W(r)] = None
  <2>1. /\ MintedRecord(r) \in WarehouseRecord /\ MintedRecord(r).bucket = request[r].root
        /\ MintedRecord(r).project = P(r)
    BY <1>2, <1>3 DEF MintedRecord, WarehouseRecord
  <2>2. QED
    BY <1>1, <1>2, <1>4, <2>1
<1>5. CASE record[W(r)] # None
  <2> DEFINE live == record[W(r)]
             new == Merged(live, r)
  <2>1. live \in WarehouseRecord /\ live.project = P(r)
    BY <1>1, <1>2, <1>5 DEF EstateInv, Shaped, Maybe
  <2> HIDE DEF live
  <2>2. live.protected \in BOOLEAN /\ Declared(live.protected, r) \in BOOLEAN
    BY <1>3, <2>1 DEF Declared, WarehouseRecord
  <2>3. /\ new \in WarehouseRecord /\ new.bucket = request[r].root /\ new.project = P(r)
        /\ new.status = live.status /\ new.protected = Declared(live.protected, r)
    BY <1>2, <2>1, <2>2 DEF Merged, WarehouseRecord
  <2>4. live.protected = TRUE /\ ~ With(r, "unprotected") => new.protected = TRUE
    BY <2>3 DEF Declared
  <2>5. record' = [record EXCEPT ![W(r)] = new]
    BY <1>1, <1>5 DEF live
  <2> HIDE DEF new
  <2>6. QED
    BY <1>1, <1>2, <2>3, <2>4, <2>5 DEF live
<1>6. QED
  BY <1>4, <1>5

\* The register and the provision of a create keep the invariant.
LEMMA CreateRegistersKeeps ==
    ASSUME EstateInv, NEW r \in Requests, CreateRegisters(r), ~ Refused(r)
    PROVE  EstateInv'
<1>1. /\ UNCHANGED <<claims, asked>> /\ request[r].pc = "register" /\ GoesTo(r, "seed warehouse")
  BY CreateRegistersWrites
<1>2. PICK new \in WarehouseRecord : /\ record' = [record EXCEPT ![W(r)] = new]
                                     /\ claims[new.bucket] = new.project
  BY CreateRegistersWrites
<1>3. /\ record \in [Warehouses -> Maybe(WarehouseRecord)]
      /\ \A w \in Warehouses : record[w] # None => claims[record[w].bucket] = record[w].project
  BY DEF EstateInv, Shaped, BucketsAreClaimed
<1>4. /\ record' \in [Warehouses -> Maybe(WarehouseRecord)]
      /\ \A w \in Warehouses : record'[w] # None => claims[record'[w].bucket] = record'[w].project
  BY <1>2, <1>3 DEF Maybe
<1>5. QED
  BY <1>1, <1>4, CreateGoesOn

\* A request that goes on, or ends, with a record written on a claimed bucket.
LEMMA WritesKeeps ==
    ASSUME EstateInv, NEW r \in Requests, ~ At(r, "idle"), UNCHANGED claims, AskedStays(r), RequestGoesOn(r),
           record' \in [Warehouses -> Maybe(WarehouseRecord)],
           \A w \in Warehouses : record'[w] # None => claims[record'[w].bucket] = record'[w].project
    PROVE  EstateInv'
<1>1. asked' \in Seq(SUBSET Asks) /\ asked' # <<>> /\ request[r].ask \in Asks
  BY AskedStaysAsked
<1> DEFINE l == request'[r]
<1>2. /\ request' = [request EXCEPT ![r] = l] /\ DOMAIN l = Fields
      /\ l.pc = "idle" \/ (l.ask = request[r].ask /\ l.pc \notin CreateSteps)
  BY DEF RequestGoesOn
<1> HIDE DEF l
<1>3. l.pc \notin CreateSteps /\ l.pc \notin {"claim", "provision", "register"}
  BY <1>2 DEF CreateSteps
<1>4. QED
  BY <1>1, <1>2, <1>3, OneMoves

\* What mutate_json writes: the status, or the protection, of the record.
LEMMA LifecycleWritesOne ==
    ASSUME EstateInv, NEW r \in Requests, LifecycleWrites(r), ~ Refused(r)
    PROVE  /\ ~ At(r, "idle") /\ UNCHANGED <<claims, asked>> /\ RequestGoesOn(r) /\ At(r, "set")
           /\ record' \in [Warehouses -> Maybe(WarehouseRecord)]
           /\ \A w \in Warehouses \ {W(r)} : record'[w] = record[w]
           /\ \A w \in Warehouses : record[w] # None =>
                 /\ record'[w].project = record[w].project /\ record'[w].bucket = record[w].bucket
                 /\ record'[w].status # record[w].status => request[r].ask.door = "status"
                 /\ record'[w].protected # record[w].protected =>
                       request[r].ask.door = "protect" /\ record'[w].protected = With(r, "protected")
           /\ \A w \in Warehouses : record[w] = None => record'[w] = None
<1>0. /\ record \in [Warehouses -> Maybe(WarehouseRecord)]
  BY DEF EstateInv, Shaped
<1> DEFINE to == IF With(r, "active") THEN "active" ELSE "deactivated"
           shut == With(r, "protected")
<1>1. /\ At(r, "set") /\ ~ At(r, "idle") /\ UNCHANGED <<claims, asked>> /\ Ends(r) /\ record[W(r)] # None
      /\ \/ request[r].ask.door = "status" /\ record' = [record EXCEPT ![W(r)].status = to]
         \/ request[r].ask.door = "protect" /\ record' = [record EXCEPT ![W(r)].protected = shut]
  BY DEF LifecycleWrites, At, book
<1>2. to \in {"active", "deactivated"} /\ shut \in BOOLEAN
  BY DEF With
<1>2a. shut = With(r, "protected")
  OBVIOUS
<1> HIDE DEF to, shut
<1>3. CASE W(r) \notin Warehouses
  <2>1. record' = record
    BY <1>0, <1>1, <1>3
  <2>2. QED
    BY <1>0, <1>1, <2>1, EndsGoesOn
<1>4. CASE W(r) \in Warehouses
  <2> DEFINE w == W(r)
             live == record[w]
  <2>1. live \in WarehouseRecord
    BY <1>0, <1>1, <1>4 DEF Maybe
  <2>2. CASE request[r].ask.door = "status" /\ record' = [record EXCEPT ![w].status = to]
    <3> DEFINE new == [live EXCEPT !.status = to]
    <3>1. /\ new \in WarehouseRecord /\ new.project = live.project /\ new.bucket = live.bucket
          /\ new.protected = live.protected
      BY <1>2, <2>1 DEF WarehouseRecord
    <3>2. record' = [record EXCEPT ![w] = new]
      BY <1>0, <2>2
    <3> HIDE DEF new
    <3>3. /\ record' \in [Warehouses -> Maybe(WarehouseRecord)] /\ record'[w] = new
          /\ \A v \in Warehouses \ {w} : record'[v] = record[v]
      BY <1>0, <1>4, <3>1, <3>2 DEF Maybe
    <3>4. QED
      BY <1>1, <2>2, <3>1, <3>3, EndsGoesOn
  <2>3. CASE request[r].ask.door = "protect" /\ record' = [record EXCEPT ![w].protected = shut]
    <3> DEFINE new == [live EXCEPT !.protected = shut]
    <3>1. /\ new \in WarehouseRecord /\ new.project = live.project /\ new.bucket = live.bucket
          /\ new.status = live.status /\ new.protected = shut
      BY <1>2, <2>1 DEF WarehouseRecord
    <3>2. record' = [record EXCEPT ![w] = new]
      BY <1>0, <2>3
    <3> HIDE DEF new
    <3>3. /\ record' \in [Warehouses -> Maybe(WarehouseRecord)] /\ record'[w] = new
          /\ \A v \in Warehouses \ {w} : record'[v] = record[v]
      BY <1>0, <1>4, <3>1, <3>2 DEF Maybe
    <3>4. QED
      BY <1>1, <1>2a, <2>3, <3>1, <3>3, EndsGoesOn
  <2>4. QED
    BY <1>1, <2>2, <2>3
<1>5. QED
  BY <1>3, <1>4

LEMMA LifecycleWritesKeeps ==
    ASSUME EstateInv, NEW r \in Requests, LifecycleWrites(r), ~ Refused(r)
    PROVE  EstateInv'
<1>1. /\ ~ At(r, "idle") /\ UNCHANGED <<claims, asked>> /\ RequestGoesOn(r)
      /\ record' \in [Warehouses -> Maybe(WarehouseRecord)]
      /\ \A w \in Warehouses : record[w] # None =>
            record'[w].project = record[w].project /\ record'[w].bucket = record[w].bucket
      /\ \A w \in Warehouses : record[w] = None => record'[w] = None
  BY LifecycleWritesOne
<1>2. \A w \in Warehouses : record'[w] # None => claims[record'[w].bucket] = record'[w].project
  BY <1>1 DEF EstateInv, BucketsAreClaimed
<1>3. QED
  BY <1>1, <1>2, WritesKeeps DEF AskedStays

\* delete_warehouse_record: the claim of the bucket stays.
LEMMA DeleteRemovesRecordKeeps ==
    ASSUME EstateInv, NEW r \in Requests, DeleteRemovesRecord(r)
    PROVE  EstateInv' /\ \A w \in Warehouses : record'[w] \in {None, record[w]}
<1>1. /\ ~ At(r, "idle") /\ UNCHANGED <<claims, asked>> /\ record' = [record EXCEPT ![W(r)] = None]
      /\ GoesTo(r, "purge") \/ Ends(r)
  BY DEF DeleteRemovesRecord, At, book
<1>2. RequestGoesOn(r)
  BY <1>1, GoesToGoesOn, EndsGoesOn DEF CreateSteps
<1>3. /\ record \in [Warehouses -> Maybe(WarehouseRecord)]
      /\ \A w \in Warehouses : record[w] # None => claims[record[w].bucket] = record[w].project
  BY DEF EstateInv, Shaped, BucketsAreClaimed
<1>4. /\ record' \in [Warehouses -> Maybe(WarehouseRecord)]
      /\ \A w \in Warehouses : record'[w] \in {None, record[w]}
  BY <1>1, <1>3 DEF Maybe
<1>5. \A w \in Warehouses : record'[w] # None => claims[record'[w].bucket] = record'[w].project
  BY <1>3, <1>4
<1>6. QED
  BY <1>1, <1>2, <1>4, <1>5, WritesKeeps DEF AskedStays

\* A step of the tenants' doors that concerns no record and no claim.
LEMMA TenantDoorsQuiet ==
    ASSUME EstateInv, NEW r \in Requests,
           \/ CreateSeeds(r) \/ LifecycleReads(r) \/ ProjectMints(r) \/ ProjectSeeds(r)
           \/ RetireReads(r) \/ RetireRevokes(r) \/ RetireRemoves(r)
           \/ Refused(r) /\ ~ At(r, "idle")
           \/ Stops(r)
    PROVE  Quiet(r)
<1>0. DOMAIN request[r] = Fields
  BY DEF EstateInv, Shaped
<1>1. CASE CreateSeeds(r)
  BY <1>1, EndsGoesOn DEF CreateSeeds, Quiet, At, AskedStays, registry, book
<1>2. CASE LifecycleReads(r)
  <2>1. CASE Refused(r)
    BY <1>2, <2>1, RefusedGoesOn DEF LifecycleReads, Quiet, At
  <2>2. CASE ~ Refused(r)
    <3> DEFINE l == [request[r] EXCEPT !.pc = "set", !.read = record[W(r)]]
    <3>1. /\ ~ At(r, "idle") /\ UNCHANGED <<record, claims, asked>> /\ Goes(r, l)
      BY <1>2, <2>2 DEF LifecycleReads, At, registry, book
    <3>2. DOMAIN l = Fields /\ l.ask = request[r].ask /\ l.pc = "set"
      BY <1>0 DEF Fields
    <3> HIDE DEF l
    <3>3. QED
      BY <3>1, <3>2, MovesGoesOn DEF Quiet, AskedStays, CreateSteps
  <2>3. QED
    BY <2>1, <2>2
<1>3. CASE ProjectMints(r)
  BY <1>3, GoesToGoesOn DEF ProjectMints, Quiet, At, AskedStays, book, CreateSteps
<1>4. CASE ProjectSeeds(r)
  BY <1>4, EndsGoesOn DEF ProjectSeeds, Quiet, At, AskedStays, registry, book
<1>5. CASE RetireReads(r)
  BY <1>5, GoesToGoesOn, RefusedGoesOn DEF RetireReads, Quiet, At, AskedStays, registry, book, CreateSteps
<1>6. CASE RetireRevokes(r)
  BY <1>6, GoesToGoesOn DEF RetireRevokes, Quiet, At, AskedStays, registry, book, CreateSteps
<1>7. CASE RetireRemoves(r)
  BY <1>7, EndsGoesOn DEF RetireRemoves, Quiet, At, AskedStays, book
<1>8. CASE Refused(r) /\ ~ At(r, "idle")
  BY <1>8, RefusedGoesOn DEF Quiet
<1>9. CASE Stops(r)
  BY <1>9, GivesUpGoesOn DEF Stops, Quiet, registry
<1>10. QED
  BY <1>1, <1>2, <1>3, <1>4, <1>5, <1>6, <1>7, <1>8, <1>9

-----------------------------------------------------------------------------
(* The theorems                                                            *)

\* The steps of one request, by what they do to records and claims.
Concerns(r) ==
    \/ Quiet(r) \/ Begins(r) \/ DeleteRemovesRecord(r)
    \/ CreateJudges(r) /\ ~ Refused(r)
    \/ CreateClaims(r) /\ ~ Refused(r)
    \/ CreateProvisions(r)
    \/ CreateRegisters(r) /\ ~ Refused(r)
    \/ LifecycleWrites(r) /\ ~ Refused(r)

LEMMA RequestStepsConcern ==
    ASSUME EstateInv, NEW r \in Requests,
           Begins(r) \/ Stops(r) \/ TenantDoors(r) \/ BindingDoors(r) \/ DropDoors(r) \/ DeleteDoor(r)
    PROVE  Concerns(r)
<1>1. CASE TenantDoors(r)
  <2>1. CASE /\ CreateJudges(r) \/ CreateClaims(r) \/ CreateRegisters(r) \/ LifecycleWrites(r)
             /\ Refused(r)
    <3>1. ~ At(r, "idle")
      BY <2>1 DEF CreateJudges, CreateClaims, CreateRegisters, LifecycleWrites, At
    <3>2. QED
      BY <2>1, <3>1, TenantDoorsQuiet DEF Concerns
  <2>2. QED
    BY <1>1, <2>1, TenantDoorsQuiet DEF TenantDoors, Concerns
<1>2. QED
  BY <1>1, TenantDoorsQuiet, BindingDoorsQuiet, DropDoorsQuiet, DeleteDoorQuiet DEF Concerns

\* Every step keeps the invariant.
LEMMA EstateStep == EstateInv /\ [Next]_vars => EstateInv'
<1> SUFFICES ASSUME EstateInv, [Next]_vars
             PROVE  EstateInv'
  OBVIOUS
<1>0. /\ record \in [Warehouses -> Maybe(WarehouseRecord)]
      /\ \A w \in Warehouses : record[w] # None => claims[record[w].bucket] = record[w].project
  BY DEF EstateInv, Shaped, BucketsAreClaimed
<1>1. ASSUME NEW r \in Requests, Concerns(r)
      PROVE  EstateInv'
  <2>1. CASE CreateProvisions(r)
    <3>1. /\ UNCHANGED <<record, claims, asked>> /\ request[r].pc = "provision" /\ GoesTo(r, "register")
      BY <2>1 DEF CreateProvisions, At, registry, book
    <3>2. QED
      BY <1>0, <3>1, CreateGoesOn
  <2>2. QED
    BY <1>1, <2>1, QuietKeeps, BeginsKeeps, DeleteRemovesRecordKeeps, CreateJudgesKeeps,
       CreateClaimsKeeps, CreateRegistersKeeps, LifecycleWritesKeeps DEF Concerns
<1>2. CASE AsksOn
  <2>1. /\ record' = record /\ claims' = claims /\ request' = request /\ asked' = Tail(asked)
        /\ asked # <<>> /\ \A r \in Requests : request[r].pc = "idle"
    BY <1>2 DEF AsksOn, At, registry
  <2>2. asked' \in Seq(SUBSET Asks)
    BY <2>1 DEF EstateInv, Shaped
  <2>3. Shaped' /\ BucketsAreClaimed'
    BY <2>1, <2>2 DEF EstateInv, Shaped, BucketsAreClaimed
  <2>4. AsksAreKept' /\ CreatesHoldTheirClaim'
    BY <2>1 DEF AsksAreKept, CreatesHoldTheirClaim, CreateSteps, At
  <2>5. QED
    BY <2>3, <2>4 DEF EstateInv
<1>3. CASE UNCHANGED vars
  <2>1. record' = record /\ claims' = claims /\ request' = request /\ asked' = asked
    BY <1>3 DEF vars, registry, book
  <2>2. Shaped' /\ BucketsAreClaimed' /\ AsksAreKept'
    BY <2>1 DEF EstateInv, Shaped, BucketsAreClaimed, AsksAreKept, At
  <2>3. CreatesHoldTheirClaim'
    BY <2>1 DEF EstateInv, CreatesHoldTheirClaim, P
  <2>4. QED
    BY <2>2, <2>3 DEF EstateInv
<1>4. QED
  BY <1>1, <1>2, <1>3, RequestStepsConcern DEF Next

LEMMA EstateInit == Init => EstateInv
<1> SUFFICES ASSUME Init
             PROVE  EstateInv
  OBVIOUS
<1>1. PICK o \in Offers : /\ record = o.world.record /\ claims = o.world.claims /\ asked = o.asks
                          /\ request = [r \in Requests |-> Idle]
  BY DEF Init, StartsFrom
<1>2. \A r \in Requests : request[r] = Idle
  BY <1>1
<1>3. Shaped
  <2>1. request = [r \in Requests |-> request[r]]
    BY <1>1
  <2>2. \A r \in Requests : DOMAIN request[r] = Fields
    BY <1>2, IdleShape
  <2>3. QED
    BY <1>1, <2>1, <2>2, EstateAssumption DEF Shaped
<1>4. BucketsAreClaimed
  BY <1>1, EstateAssumption DEF BucketsAreClaimed
<1>5. AsksAreKept /\ CreatesHoldTheirClaim
  BY <1>2, IdleShape DEF AsksAreKept, CreatesHoldTheirClaim, CreateSteps, At
<1>6. QED
  BY <1>3, <1>4, <1>5 DEF EstateInv

LEMMA EstateInvHolds == Spec => []EstateInv
  BY EstateInit, EstateStep, PTL DEF Spec

\* However many creates race for a bucket, whatever each of them read and
\* wherever it was stopped, the warehouses on it are one tenant's:
\* claim_bucket's create-only write is the only judge that is needed.
THEOREM OneTenantPerBucket == Spec => []TenantsStayApart
<1>1. EstateInv => TenantsStayApart
  BY DEF EstateInv, BucketsAreClaimed, TenantsStayApart
<1>2. QED
  BY <1>1, EstateInvHolds, PTL

\* No create, repeated over a warehouse that stands and however late, undoes a
\* deactivation, an activation or, unless it asks for that itself, a protection:
\* upsert_warehouse merges onto the live record what the request names.
THEOREM LifecycleStands == Spec => LifecycleIsKept
<1> DEFINE Keeps(w) ==
              /\ record'[w].status # record[w].status => \E r \in Requests : SetsStatus(r, w)
              /\ record[w].protected /\ ~ record'[w].protected => \E r \in Requests : Unprotects(r, w)
           Kept == \A w \in Warehouses : record[w] # None /\ record'[w] # None =>
              /\ record'[w].status # record[w].status => \E r \in Requests : SetsStatus(r, w)
              /\ record[w].protected /\ ~ record'[w].protected => \E r \in Requests : Unprotects(r, w)
<1>1. EstateInv /\ [Next]_vars => Kept
  <2> SUFFICES ASSUME EstateInv, [Next]_vars, NEW w \in Warehouses, record[w] # None, record'[w] # None
               PROVE  Keeps(w)
    OBVIOUS
  <2>0. /\ record \in [Warehouses -> Maybe(WarehouseRecord)] /\ record[w] \in WarehouseRecord
        /\ record[w].protected \in BOOLEAN
    BY DEF EstateInv, Shaped, Maybe, WarehouseRecord
  <2>1. CASE record'[w] = record[w]
    BY <2>1
  <2>2. ASSUME NEW r \in Requests, Concerns(r), record'[w] # record[w]
        PROVE  Keeps(w)
    <3>1. CASE CreateRegisters(r) /\ ~ Refused(r)
      <4>1. PICK new \in WarehouseRecord :
                /\ record' = [record EXCEPT ![W(r)] = new]
                /\ record[W(r)] = None \/ (new.status = record[W(r)].status
                                           /\ (record[W(r)].protected = TRUE /\ ~ With(r, "unprotected")
                                                 => new.protected = TRUE))
        BY <3>1, CreateRegistersWrites
      <4>2. w = W(r) /\ record'[w] = new /\ At(r, "register")
        BY <2>0, <2>2, <3>1, <4>1 DEF CreateRegisters
      <4>3. /\ new.status = record[w].status
            /\ record[w].protected = TRUE /\ ~ With(r, "unprotected") => new.protected = TRUE
        BY <4>1, <4>2
      <4>4. record[w].protected /\ ~ record'[w].protected => With(r, "unprotected")
        BY <2>0, <4>2, <4>3
      <4>5. QED
        BY <4>2, <4>3, <4>4 DEF Unprotects
    <3>2. CASE LifecycleWrites(r) /\ ~ Refused(r)
      <4>1. /\ At(r, "set") /\ W(r) = w
            /\ record'[w].status # record[w].status => request[r].ask.door = "status"
            /\ record'[w].protected # record[w].protected =>
                  request[r].ask.door = "protect" /\ record'[w].protected = With(r, "protected")
        BY <2>2, <3>2, LifecycleWritesOne
      <4>2. record[w].protected /\ ~ record'[w].protected => record'[w].protected # record[w].protected
        BY <2>0
      <4>3. record[w].protected /\ ~ record'[w].protected
              => request[r].ask.door = "protect" /\ ~ With(r, "protected")
        BY <4>1, <4>2
      <4>4. QED
        BY <4>1, <4>3 DEF SetsStatus, Unprotects
    <3>3. CASE DeleteRemovesRecord(r)
      BY <2>2, <3>3, DeleteRemovesRecordKeeps
    <3>4. CASE Quiet(r) \/ Begins(r) \/ CreateProvisions(r)
      BY <2>2, <3>4 DEF Quiet, Begins, CreateProvisions, registry
    <3>5. CASE (CreateJudges(r) \/ CreateClaims(r)) /\ ~ Refused(r)
      BY <2>2, <3>5 DEF CreateJudges, CreateClaims, registry
    <3>6. QED
      BY <2>2, <3>1, <3>2, <3>3, <3>4, <3>5 DEF Concerns
  <2>3. CASE AsksOn \/ UNCHANGED vars
    BY <2>1, <2>3 DEF AsksOn, vars, registry
  <2>4. QED
    BY <2>1, <2>2, <2>3, RequestStepsConcern DEF Next
<1>2. EstateInv /\ [Next]_vars => [Kept]_vars
  BY <1>1
<1>3. [][Kept]_vars => LifecycleIsKept
  BY DEF LifecycleIsKept
<1>4. QED
  BY <1>2, <1>3, EstateInvHolds, PTL DEF Spec

-----------------------------------------------------------------------------

(***************************************************************************)
(* Module DriftReport                                                      *)
(***************************************************************************)

\* How far a tick is, and that the bindings are by name.
TickShaped ==
    /\ DOMAIN binding = Names
    /\ DOMAIN tick = {"pc", "how", "seen", "todo"}
    /\ tick.how \in [Sources -> Outcomes]
    /\ DOMAIN tick.seen = Sources
    /\ tick.pc \notin {"idle", "reading"} => HasRead(Gathered)

\* A store that was read whole shows every drift that has stood since the tick
\* began, whenever it was read.
TuplesShow ==
    How("tuples") = "whole" => \A x \in drift :
       /\ x[1] = "ghost_projects" => <<"project", x[2]>> \in Seen("tuples")
       /\ x[1] = "ghost_warehouses" => <<"warehouse", x[2]>> \in Seen("tuples")
       /\ x[1] = "unreferenced_projects" => \A y \in Seen("tuples") : y[1] = "project" => y[2] # x[2]

ProjectsShow ==
    How("projects") = "whole" => \A x \in drift :
       /\ x[1] = "ghost_projects" => x[2] \notin Seen("projects")
       /\ x[1] = "unreferenced_projects" => x[2] \in Seen("projects")

WarehousesShow ==
    How("warehouses") = "whole" => \A x \in drift :
       /\ x[1] = "ghost_warehouses" => x[2] \notin Ids(Seen("warehouses"))
       /\ x[1] = "orphan_buckets" => x[2] \notin ClaimedBuckets
       /\ x[1] = "dangling_bindings" => binding[x[2]].wh \notin Ids(Seen("warehouses"))

BindingsShow ==
    How("bindings") = "whole" => \A x \in drift :
       x[1] = "dangling_bindings" => [name |-> x[2], wh |-> binding[x[2]].wh] \in Seen("bindings")

BucketsShow ==
    How("buckets") = "whole" => \A x \in drift : x[1] = "orphan_buckets" => x[2] \in Seen("buckets")

DriftInv ==
    /\ TickShaped /\ drift \subseteq Drifted
    /\ TuplesShow /\ ProjectsShow /\ WarehousesShow /\ BindingsShow /\ BucketsShow
    /\ CleanMeansClean

-----------------------------------------------------------------------------
(* What drifts, and what a read of it answers                              *)

\* A drift is of one kind.
LEMMA KindsApart ==
    ASSUME NEW A, NEW B, NEW C, NEW D, NEW E,
           NEW x \in {<<"ghost_projects", p>> : p \in A} \cup {<<"ghost_warehouses", w>> : w \in B}
                       \cup {<<"unreferenced_projects", p>> : p \in C} \cup {<<"orphan_buckets", b>> : b \in D}
                       \cup {<<"dangling_bindings", n>> : n \in E}
    PROVE  \/ x[1] = "ghost_projects" /\ x[2] \in A
           \/ x[1] = "ghost_warehouses" /\ x[2] \in B
           \/ x[1] = "unreferenced_projects" /\ x[2] \in C
           \/ x[1] = "orphan_buckets" /\ x[2] \in D
           \/ x[1] = "dangling_bindings" /\ x[2] \in E
<1>1. CASE x \in {<<"ghost_projects", p>> : p \in A}
  BY <1>1
<1>2. CASE x \in {<<"ghost_warehouses", w>> : w \in B}
  BY <1>2
<1>3. CASE x \in {<<"unreferenced_projects", p>> : p \in C}
  BY <1>3
<1>4. CASE x \in {<<"orphan_buckets", b>> : b \in D}
  BY <1>4
<1>5. CASE x \in {<<"dangling_bindings", n>> : n \in E}
  BY <1>5
<1>6. QED
  BY <1>1, <1>2, <1>3, <1>4, <1>5

LEMMA DriftIs ==
    ASSUME NEW x \in Drifted
    PROVE  /\ x[1] \in {"ghost_projects", "ghost_warehouses", "unreferenced_projects", "orphan_buckets",
                        "dangling_bindings"}
           /\ x[1] = "ghost_projects" => x[2] \in admins \ projects
           /\ x[1] = "ghost_warehouses" => x[2] \in Warehouses \ Registered /\ <<"warehouse", x[2]>> \in Tupled
           /\ x[1] = "unreferenced_projects" => x[2] \in projects \ admins
           /\ x[1] = "orphan_buckets" => x[2] \in buckets \ Claimed
           /\ x[1] = "dangling_bindings" => x[2] \in Bound /\ binding[x[2]].wh \notin Registered
<1>1. \/ x[1] = "ghost_projects" /\ x[2] \in admins \ projects
      \/ x[1] = "ghost_warehouses" /\ x[2] \in {v \in Warehouses : <<"warehouse", v>> \in Tupled} \ Registered
      \/ x[1] = "unreferenced_projects" /\ x[2] \in projects \ admins
      \/ x[1] = "orphan_buckets" /\ x[2] \in buckets \ Claimed
      \/ x[1] = "dangling_bindings" /\ x[2] \in {m \in Bound : binding[m].wh \notin Registered}
  <2> DEFINE gone == {v \in Warehouses : <<"warehouse", v>> \in Tupled} \ Registered
             loose == {m \in Bound : binding[m].wh \notin Registered}
  <2>1. x \in {<<"ghost_projects", p>> : p \in admins \ projects} \cup {<<"ghost_warehouses", w>> : w \in gone}
              \cup {<<"unreferenced_projects", p>> : p \in projects \ admins}
              \cup {<<"orphan_buckets", b>> : b \in buckets \ Claimed}
              \cup {<<"dangling_bindings", n>> : n \in loose}
    BY DEF Drifted
  <2> HIDE DEF gone, loose
  <2>2. \/ x[1] = "ghost_projects" /\ x[2] \in admins \ projects
        \/ x[1] = "ghost_warehouses" /\ x[2] \in gone
        \/ x[1] = "unreferenced_projects" /\ x[2] \in projects \ admins
        \/ x[1] = "orphan_buckets" /\ x[2] \in buckets \ Claimed
        \/ x[1] = "dangling_bindings" /\ x[2] \in loose
    BY <2>1, KindsApart
  <2>3. QED
    BY <2>2 DEF gone, loose
<1>2. QED
  BY <1>1

LEMMA ProjectsTupled ==
    /\ \A p \in admins : <<"project", p>> \in Tupled
    /\ \A y \in Tupled : y[1] = "project" => y[2] \in admins
<1>1. \A o \in Objects : o.kind # "project"
  BY DEF Objects, Namespace, Table
<1>2. \A p \in admins : <<"project", p>> \in Tupled
  BY DEF Tupled
<1>3. ASSUME NEW y \in Tupled, y[1] = "project"
      PROVE  y[2] \in admins
  <2>1. CASE y \in {<<"project", p>> : p \in admins}
    BY <2>1
  <2>2. CASE y \in {<<"warehouse", w>> : w \in {v \in Warehouses : tenancy[v] # {} \/ Below(v) # {}}}
    BY <1>3, <2>2
  <2>3. CASE y \in {<<o.kind, o>> : o \in {z \in Objects : On(z) # {} \/ Below(z) # {}}}
    BY <1>1, <1>3, <2>3
  <2>4. QED
    BY <2>1, <2>2, <2>3 DEF Tupled
<1>4. QED
  BY <1>2, <1>3

LEMMA ContentsAre ==
    /\ Contents["tuples"] = Tupled
    /\ Contents["projects"] = projects
    /\ Contents["warehouses"] =
          {[id |-> w, project |-> record[w].project, bucket |-> record[w].bucket] : w \in Registered}
    /\ Contents["bindings"] = {[name |-> n, wh |-> binding[n].wh] : n \in Bound}
    /\ Contents["buckets"] = buckets
  BY DEF Contents

\* The answer of a read has the drift.
LEMMA ReadsShow ==
    ASSUME NEW x \in Drifted
    PROVE  /\ x[1] = "ghost_projects" => <<"project", x[2]>> \in Contents["tuples"] /\ x[2] \notin Contents["projects"]
           /\ x[1] = "ghost_warehouses" =>
                 <<"warehouse", x[2]>> \in Contents["tuples"] /\ x[2] \notin Ids(Contents["warehouses"])
           /\ x[1] = "unreferenced_projects" =>
                 /\ \A y \in Contents["tuples"] : y[1] = "project" => y[2] # x[2]
                 /\ x[2] \in Contents["projects"]
           /\ x[1] = "orphan_buckets" =>
                 /\ x[2] \in Contents["buckets"]
                 /\ x[2] \notin {r.bucket : r \in Contents["warehouses"]} \cup {Estate}
           /\ x[1] = "dangling_bindings" =>
                 /\ [name |-> x[2], wh |-> binding[x[2]].wh] \in Contents["bindings"]
                 /\ binding[x[2]].wh \notin Ids(Contents["warehouses"])
<1> DEFINE row(w) == [id |-> w, project |-> record[w].project, bucket |-> record[w].bucket]
<1>0. /\ Contents["warehouses"] = {row(w) : w \in Registered}
      /\ \A w : row(w).id = w /\ row(w).bucket = record[w].bucket
  BY ContentsAre
<1> HIDE DEF row
<1>1. Ids(Contents["warehouses"]) = Registered
  BY <1>0 DEF Ids
<1>2. {r.bucket : r \in Contents["warehouses"]} \cup {Estate} = Claimed
  BY <1>0 DEF Claimed
<1>3. CASE x[1] = "ghost_projects"
  BY <1>3, DriftIs, ContentsAre, ProjectsTupled
<1>4. CASE x[1] = "ghost_warehouses"
  BY <1>4, <1>1, DriftIs, ContentsAre
<1>5. CASE x[1] = "unreferenced_projects"
  BY <1>5, DriftIs, ContentsAre, ProjectsTupled
<1>6. CASE x[1] = "orphan_buckets"
  BY <1>6, <1>2, DriftIs, ContentsAre
<1>7. CASE x[1] = "dangling_bindings"
  <2>1. x[2] \in Bound /\ binding[x[2]].wh \notin Registered
    BY <1>7, DriftIs
  <2>2. [name |-> x[2], wh |-> binding[x[2]].wh] \in Contents["bindings"]
    BY <2>1, ContentsAre
  <2>3. QED
    BY <1>7, <1>1, <2>1, <2>2
<1>8. QED
  BY <1>3, <1>4, <1>5, <1>6, <1>7

-----------------------------------------------------------------------------
(* The bindings beside the tick                                            *)

\* A name bound before a step and after it is bound to the same warehouse.
BindingsHold ==
    /\ DOMAIN binding' = Names
    /\ \A n \in Names : binding[n] # None /\ binding'[n] # None => binding'[n].wh = binding[n].wh

LEMMA UnchangedHold ==
    ASSUME DOMAIN binding = Names, UNCHANGED binding
    PROVE  BindingsHold
  BY DEF BindingsHold

LEMMA SetHolds ==
    ASSUME DOMAIN binding = Names, NEW n, NEW b, binding' = [binding EXCEPT ![n] = b],
           b = None \/ binding[n] = None \/ binding[n].wh = b.wh
    PROVE  BindingsHold
  BY DEF BindingsHold

LEMMA BindingDoorsHold ==
    ASSUME DOMAIN binding = Names, NEW r \in Requests, BindingDoors(r)
    PROVE  BindingsHold
<1>1. CASE BindWrites(r)
  <2>1. CASE Bindable(N(r), W(r), request[r].root)
    <3>1. SetBinding(r, [wh |-> W(r), root |-> request[r].root])
      BY <1>1, <2>1 DEF BindWrites
    <3>2. binding[N(r)] = None \/ binding[N(r)].wh = W(r)
      BY <2>1 DEF Bindable
    <3>3. QED
      BY <3>1, <3>2, SetHolds DEF SetBinding
  <2>2. CASE ~ Bindable(N(r), W(r), request[r].root)
    BY <1>1, <2>2, UnchangedHold DEF BindWrites, Refused, registry
  <2>3. QED
    BY <2>1, <2>2
<1>2. CASE Unbinds(r)
  BY <1>2, SetHolds DEF Unbinds, SetBinding
<1>3. CASE BindJudges(r) \/ BindCreates(r) \/ BindReadsUuid(r) \/ BindSeeds(r) \/ BindSeedFails(r)
         \/ BindTakesBackGrants(r)
  BY <1>3, UnchangedHold
     DEF BindJudges, BindCreates, BindReadsUuid, BindSeeds, BindSeedFails, BindTakesBackGrants, Refused, registry
<1>4. CASE BindTakesBack(r) \/ UnbindJudges(r) \/ UnbindLists(r)
  BY <1>4, UnchangedHold DEF BindTakesBack, UnbindJudges, UnbindLists, Refused, registry
<1>5. BindTakesBackBinding(r) \/ UnbindRemoves(r) => Unbinds(r)
  BY DEF BindTakesBackBinding, UnbindRemoves
<1>6. QED
  BY <1>1, <1>2, <1>3, <1>4, <1>5 DEF BindingDoors

LEMMA DropDoorsHold ==
    ASSUME DOMAIN binding = Names, NEW r \in Requests, DropDoors(r)
    PROVE  BindingsHold
<1>1. CASE UndropRebinds(r)
  <2> DEFINE b == request[r].bound
  <2>1. CASE b # None /\ Active(b.wh) /\ Bindable(N(r), b.wh, b.root)
    <3>1. SetBinding(r, b)
      BY <1>1, <2>1 DEF UndropRebinds
    <3>2. binding[N(r)] = None \/ binding[N(r)].wh = b.wh
      BY <2>1 DEF Bindable
    <3>3. QED
      BY <3>1, <3>2, SetHolds DEF SetBinding
  <2>2. CASE ~ (b # None /\ Active(b.wh) /\ Bindable(N(r), b.wh, b.root))
    BY <1>1, <2>2, UnchangedHold DEF UndropRebinds, Refused, registry
  <2>3. QED
    BY <2>1, <2>2
<1>2. CASE Unbinds(r)
  BY <1>2, SetHolds DEF Unbinds, SetBinding
<1>3. CASE DropReads(r) \/ DropFiles(r) \/ DropDeregisters(r) \/ DropDropsSpace(r) \/ DropFilesSpace(r)
  BY <1>3, UnchangedHold
     DEF DropReads, DropFiles, DropDeregisters, DropDropsSpace, DropFilesSpace, Refused, registry
<1>4. CASE DropDestroys(r) \/ DropDestroysSpace(r) \/ UndropReads(r) \/ UndropRebuilds(r) \/ UndropClears(r)
  BY <1>4, UnchangedHold
     DEF DropDestroys, DropDestroysSpace, UndropReads, UndropRebuilds, UndropClears, Refused, registry
<1>5. CASE EndsOne(r) \/ EndsLast(r)
  BY <1>5, UnchangedHold DEF EndsOne, EndsLast, RevokeInterrupted, registry
<1>6. DropUnbinds(r) \/ DropUnbindsDestroyed(r) => Unbinds(r)
  BY DEF DropUnbinds, DropUnbindsDestroyed
<1>7. QED
  BY <1>1, <1>2, <1>3, <1>4, <1>5, <1>6 DEF DropDoors

LEMMA DeleteDoorHolds ==
    ASSUME DOMAIN binding = Names, NEW r \in Requests, DeleteDoor(r)
    PROVE  BindingsHold
<1>1. CASE DeleteUnbinds(r)
  BY <1>1, SetHolds DEF DeleteUnbinds, Unbinds, SetBinding
<1>2. CASE DeleteReads(r) \/ DeleteJudges(r) \/ DeleteEnumerates(r) \/ DeleteRevokesTrashed(r)
  BY <1>2, UnchangedHold
     DEF DeleteReads, DeleteJudges, DeleteEnumerates, DeleteRevokesTrashed, RevokeInterrupted, Refused, registry
<1>3. CASE DeleteForgetsTrashed(r) \/ DeleteDetaches(r) \/ DeleteDropsSpace(r) \/ DeleteFindsOrphans(r)
  BY <1>3, UnchangedHold
     DEF DeleteForgetsTrashed, DeleteDetaches, DeleteDropsSpace, DeleteFindsOrphans, Refused, registry
<1>4. CASE DeleteRevokesWarehouse(r) \/ DeleteRemovesRecord(r) \/ DeletePurges(r)
  BY <1>4, UnchangedHold DEF DeleteRevokesWarehouse, DeleteRemovesRecord, DeletePurges, registry
<1>5. QED
  BY <1>1, <1>2, <1>3, <1>4 DEF DeleteDoor

LEMMA TenantDoorsHold ==
    ASSUME DOMAIN binding = Names, NEW r \in Requests, TenantDoors(r)
    PROVE  BindingsHold
<1>1. CASE CreateJudges(r) \/ CreateClaims(r) \/ CreateProvisions(r) \/ CreateRegisters(r) \/ CreateSeeds(r)
  BY <1>1, UnchangedHold
     DEF CreateJudges, CreateClaims, CreateProvisions, CreateRegisters, CreateSeeds, Refused, registry
<1>2. CASE LifecycleReads(r) \/ LifecycleWrites(r) \/ ProjectMints(r) \/ ProjectSeeds(r)
  BY <1>2, UnchangedHold DEF LifecycleReads, LifecycleWrites, ProjectMints, ProjectSeeds, Refused, registry
<1>3. CASE RetireReads(r) \/ RetireRevokes(r) \/ RetireRemoves(r)
  BY <1>3, UnchangedHold DEF RetireReads, RetireRevokes, RetireRemoves, Refused, registry
<1>4. QED
  BY <1>1, <1>2, <1>3 DEF TenantDoors

\* Whatever the doors do, a binding is not moved.
LEMMA DoorsHoldBindings ==
    ASSUME DOMAIN binding = Names, Next
    PROVE  BindingsHold
<1>1. CASE AsksOn
  BY <1>1, UnchangedHold DEF AsksOn, registry
<1>2. ASSUME NEW r \in Requests, Begins(r) \/ Stops(r)
      PROVE  BindingsHold
  BY <1>2, UnchangedHold DEF Begins, Stops, registry
<1>3. QED
  BY <1>1, <1>2, TenantDoorsHold, BindingDoorsHold, DropDoorsHold, DeleteDoorHolds DEF Next

-----------------------------------------------------------------------------
(* The tick                                                                *)

\* A store is as it was read, or has not been read whole, or was read now.
Reading(s) ==
    \/ tick'.how[s] = tick.how[s] /\ tick'.seen[s] = tick.seen[s]
    \/ tick'.how[s] # "whole"
    \/ tick'.how[s] = "whole" /\ tick'.seen[s] = Contents[s]

LEMMA ShownStays ==
    ASSUME DriftInv, BindingsHold, drift' \subseteq drift, drift' \subseteq Drifted',
           \A s \in {"tuples", "projects", "warehouses", "bindings", "buckets"} : Reading(s)
    PROVE  TuplesShow' /\ ProjectsShow' /\ WarehousesShow' /\ BindingsShow' /\ BucketsShow'
<1>1. drift \subseteq Drifted
  BY DEF DriftInv
<1>2. \A x \in drift' : x \in drift /\ x \in Drifted
  BY <1>1
<1>3. TuplesShow'
  BY <1>2, ReadsShow DEF DriftInv, TuplesShow, Reading, How, Seen
<1>4. ProjectsShow'
  BY <1>2, ReadsShow DEF DriftInv, ProjectsShow, Reading, How, Seen
<1>5. ASSUME NEW x \in drift', x[1] = "dangling_bindings" PROVE binding'[x[2]].wh = binding[x[2]].wh
  <2>1. x[2] \in Names /\ binding[x[2]] # None
    BY <1>2, <1>5, DriftIs DEF Bound
  <2>2. x \in Drifted'
    OBVIOUS
  <2>3. binding'[x[2]] # None
    <3>1. x[2] \in {m \in Bound' : binding'[m].wh \notin Registered'}
      BY <2>2, <1>5, KindsApart DEF Drifted
    <3>2. QED
      BY <3>1 DEF Bound
  <2>4. QED
    BY <2>1, <2>3 DEF BindingsHold
<1>6. WarehousesShow'
  <2>1. SUFFICES ASSUME tick'.how["warehouses"] = "whole", NEW x \in drift'
                 PROVE  /\ x[1] = "ghost_warehouses" => x[2] \notin Ids(tick'.seen["warehouses"])
                        /\ x[1] = "orphan_buckets" => x[2] \notin {r.bucket : r \in tick'.seen["warehouses"]} \cup {Estate}
                        /\ x[1] = "dangling_bindings" => binding[x[2]].wh \notin Ids(tick'.seen["warehouses"])
    BY <1>5 DEF WarehousesShow, How, Seen, ClaimedBuckets, Ids
  <2>2. CASE tick'.how["warehouses"] = tick.how["warehouses"] /\ tick'.seen["warehouses"] = tick.seen["warehouses"]
    BY <1>2, <2>1, <2>2 DEF DriftInv, WarehousesShow, How, Seen, ClaimedBuckets
  <2>3. CASE tick'.seen["warehouses"] = Contents["warehouses"]
    BY <1>2, <2>3, ReadsShow
  <2>4. QED
    BY <2>1, <2>2, <2>3 DEF Reading
<1>7. BindingsShow'
  <2>1. SUFFICES ASSUME tick'.how["bindings"] = "whole", NEW x \in drift', x[1] = "dangling_bindings"
                 PROVE  [name |-> x[2], wh |-> binding[x[2]].wh] \in tick'.seen["bindings"]
    BY <1>5 DEF BindingsShow, How, Seen
  <2>2. CASE tick'.how["bindings"] = tick.how["bindings"] /\ tick'.seen["bindings"] = tick.seen["bindings"]
    BY <1>2, <2>1, <2>2 DEF DriftInv, BindingsShow, How, Seen
  <2>3. CASE tick'.seen["bindings"] = Contents["bindings"]
    BY <1>2, <2>1, <2>3, ReadsShow
  <2>4. QED
    BY <2>1, <2>2, <2>3 DEF Reading
<1>8. BucketsShow'
  BY <1>2, ReadsShow DEF DriftInv, BucketsShow, Reading, How, Seen
<1>9. QED
  BY <1>3, <1>4, <1>6, <1>7, <1>8

\* A step that only goes on with what was read, or reads one store more.
LEMMA TickGoesOn ==
    ASSUME DriftInv, BindingsHold, TickShaped', drift' = drift \cap Drifted',
           \A s \in {"tuples", "projects", "warehouses", "bindings", "buckets"} : Reading(s),
           tick'.pc # "purge" \/ tick'.pc = tick.pc
    PROVE  DriftInv'
<1>1. drift' \subseteq drift /\ drift' \subseteq Drifted'
  OBVIOUS
<1>2. TuplesShow' /\ ProjectsShow' /\ WarehousesShow' /\ BindingsShow' /\ BucketsShow'
  BY <1>1, ShownStays
<1>3. CleanMeansClean'
  BY <1>1 DEF DriftInv, CleanMeansClean
<1>4. QED
  BY <1>1, <1>2, <1>3 DEF DriftInv

\* A report that is clean was read whole, and shows no drift.
LEMMA CleanShowsNone ==
    ASSUME DriftInv, HasRead(Gathered), ReportIsClean
    PROVE  drift = {}
<1>1. ASSUME NEW c \in {"ghost_projects", "ghost_warehouses", "unreferenced_projects", "orphan_buckets",
                        "dangling_bindings"}
      PROVE  Detected(c) = {} /\ \A s \in Inputs[c] : How(s) # "error"
  <2>1. c \in Categories \ NonGating
    BY DEF Categories, NonGating
  <2>2. Findings(c) = {} /\ ~ Unavailable(c)
    BY <2>1 DEF ReportIsClean
  <2>3. QED
    BY <2>2 DEF Findings, Unavailable
<1>2. \A s \in Gathered : How(s) \in {"whole", "error"}
  <2>1. \A s \in Gathered : s \in Sources /\ How(s) \in Outcomes /\ How(s) # "unread"
    BY DEF DriftInv, TickShaped, HasRead, How, Sources
  <2>2. \A s \in Sources : How(s) # "part"
    BY DEF ReportIsClean, Incomplete
  <2>3. QED
    BY <2>1, <2>2 DEF Outcomes
<1>3. /\ Inputs["ghost_projects"] = {"tuples", "projects"}
      /\ Inputs["unreferenced_projects"] = {"tuples", "projects"}
      /\ Inputs["ghost_warehouses"] = {"tuples", "warehouses"}
      /\ Inputs["orphan_buckets"] = {"buckets", "warehouses"}
      /\ Inputs["dangling_bindings"] = {"bindings", "warehouses"}
  BY DEF Inputs, Categories
<1>4. /\ How("tuples") = "whole" /\ How("projects") = "whole" /\ How("warehouses") = "whole"
      /\ How("bindings") = "whole" /\ How("buckets") = "whole"
  BY <1>1, <1>2, <1>3 DEF Gathered
<1>5. SUFFICES ASSUME NEW x \in drift
               PROVE  FALSE
  OBVIOUS
<1>6. x \in Drifted
  BY DEF DriftInv
<1>7. CASE x[1] = "ghost_projects"
  <2>1. <<"project", x[2]>> \in Seen("tuples") /\ x[2] \notin Seen("projects")
    BY <1>4, <1>7 DEF DriftInv, TuplesShow, ProjectsShow
  <2>2. x[2] \in ByType("project")
    BY <2>1 DEF ByType
  <2>3. x[2] \in Detected("ghost_projects")
    BY <2>1, <2>2 DEF Detected, Ghosts
  <2>4. QED
    BY <1>1, <2>3
<1>8. CASE x[1] = "ghost_warehouses"
  <2>1. <<"warehouse", x[2]>> \in Seen("tuples") /\ x[2] \notin Ids(Seen("warehouses"))
    BY <1>4, <1>8 DEF DriftInv, TuplesShow, WarehousesShow
  <2>2. x[2] \in ByType("warehouse")
    BY <2>1 DEF ByType
  <2>3. x[2] \in Detected("ghost_warehouses")
    BY <2>1, <2>2 DEF Detected, Ghosts
  <2>4. QED
    BY <1>1, <2>3
<1>9. CASE x[1] = "unreferenced_projects"
  <2>1. x[2] \in Seen("projects") /\ \A y \in Seen("tuples") : y[1] = "project" => y[2] # x[2]
    BY <1>4, <1>9 DEF DriftInv, TuplesShow, ProjectsShow
  <2>2. PICK y \in {z \in Seen("tuples") : z[1] = "project"} : y[2] = x[2]
    <3>1. x[2] \notin Detected("unreferenced_projects")
      BY <1>1
    <3>2. x[2] \in ByType("project")
      BY <2>1, <3>1 DEF Detected
    <3>3. QED
      BY <3>2 DEF ByType
  <2>3. QED
    BY <2>1, <2>2
<1>10. CASE x[1] = "orphan_buckets"
  <2>1. x[2] \in Seen("buckets") /\ x[2] \notin ClaimedBuckets
    BY <1>4, <1>10 DEF DriftInv, BucketsShow, WarehousesShow
  <2>2. x[2] \in Detected("orphan_buckets")
    BY <2>1 DEF Detected
  <2>3. QED
    BY <1>1, <2>2
<1>11. CASE x[1] = "dangling_bindings"
  <2> DEFINE row == [name |-> x[2], wh |-> binding[x[2]].wh]
  <2>1. row \in Seen("bindings") /\ row.wh \notin Ids(Seen("warehouses"))
    BY <1>4, <1>11 DEF DriftInv, BindingsShow, WarehousesShow
  <2> HIDE DEF row
  <2>2. row \in Detected("dangling_bindings")
    BY <2>1 DEF Detected
  <2>3. QED
    BY <1>1, <2>2
<1>12. QED
  BY <1>6, <1>7, <1>8, <1>9, <1>10, <1>11, DriftIs

-----------------------------------------------------------------------------
(* The steps of a tick                                                     *)

LEMMA TookOne ==
    ASSUME TickShaped, Begun("reading"), NEW s \in Sources, NEW how \in Outcomes, NEW what, Took(s, how, what),
           UNCHANGED binding
    PROVE  /\ TickShaped' /\ tick'.pc = tick.pc
           /\ tick'.how[s] = how /\ tick'.seen[s] = what
           /\ \A z \in Sources \ {s} : tick'.how[z] = tick.how[z] /\ tick'.seen[z] = tick.seen[z]
<1>1. /\ tick'.pc = tick.pc /\ DOMAIN tick' = DOMAIN tick
      /\ tick'.how = [tick.how EXCEPT ![s] = how]
      /\ tick'.seen = [tick.seen EXCEPT ![s] = what]
  BY DEF TickShaped, Took
<1>2. tick'.how \in [Sources -> Outcomes] /\ DOMAIN tick'.seen = Sources
  BY <1>1 DEF TickShaped
<1>3. QED
  BY <1>1, <1>2 DEF TickShaped, Begun

LEMMA WentOn ==
    ASSUME TickShaped, tick.pc \notin {"idle", "reading"}, NEW pc, NEW todo, GoesOn(pc, todo), UNCHANGED binding
    PROVE  TickShaped' /\ tick'.pc = pc /\ tick'.how = tick.how /\ tick'.seen = tick.seen
<1>1. tick'.pc = pc /\ tick'.how = tick.how /\ tick'.seen = tick.seen /\ DOMAIN tick' = DOMAIN tick
  BY DEF TickShaped, GoesOn
<1>2. HasRead(Gathered)'
  BY <1>1 DEF TickShaped, HasRead, How
<1>3. QED
  BY <1>1, <1>2 DEF TickShaped

\* A read answers what the store has, or does not count as whole.
LEMMA ReadStep ==
    ASSUME DriftInv, Begun("reading"), NEW s \in Sources, NEW how \in Outcomes, NEW what, Took(s, how, what),
           s \in Gathered /\ how = "whole" => what = Contents[s],
           UNCHANGED binding, Watched
    PROVE  DriftInv'
<1>1. /\ TickShaped' /\ tick'.pc = tick.pc
      /\ tick'.how[s] = how /\ tick'.seen[s] = what
      /\ \A z \in Sources \ {s} : tick'.how[z] = tick.how[z] /\ tick'.seen[z] = tick.seen[z]
  BY TookOne DEF DriftInv
<1>2. \A z \in Gathered : Reading(z)
  BY <1>1 DEF Reading, Sources
<1>3. BindingsHold
  BY UnchangedHold DEF DriftInv, TickShaped
<1>4. QED
  BY <1>1, <1>2, <1>3, TickGoesOn DEF Watched, Gathered

\* A pass acts on what was read.
LEMMA PassStep ==
    ASSUME DriftInv, tick.pc \notin {"idle", "reading"}, NEW pc, pc # "purge", NEW todo, GoesOn(pc, todo),
           UNCHANGED binding, drift' = drift \cap Drifted'
    PROVE  DriftInv'
<1>1. TickShaped' /\ tick'.pc = pc /\ tick'.how = tick.how /\ tick'.seen = tick.seen
  BY WentOn DEF DriftInv
<1>2. \A z \in Gathered : Reading(z)
  BY <1>1 DEF Reading
<1>3. BindingsHold
  BY UnchangedHold DEF DriftInv, TickShaped
<1>4. QED
  BY <1>1, <1>2, <1>3, TickGoesOn DEF Watched, Gathered

LEMMA Restful ==
    ASSUME DOMAIN binding' = Names, tick' = [NoTick EXCEPT !.pc = "reading"] \/ tick' = NoTick, drift' \subseteq Drifted',
           tick'.pc = "purge" => drift' = {}
    PROVE  DriftInv'
<1>1. /\ tick'.pc \in {"idle", "reading"} /\ DOMAIN tick' = {"pc", "how", "seen", "todo"}
      /\ tick'.how = [s \in Sources |-> "unread"] /\ tick'.seen = [s \in Sources |-> {}]
  BY DEF NoTick
<1>2. TickShaped'
  BY <1>1 DEF TickShaped, Outcomes
<1>3. \A s \in Gathered : tick'.how[s] # "whole"
  BY <1>1 DEF Sources
<1>4. TuplesShow' /\ ProjectsShow' /\ WarehousesShow' /\ BindingsShow' /\ BucketsShow'
  BY <1>3 DEF TuplesShow, ProjectsShow, WarehousesShow, BindingsShow, BucketsShow, How, Gathered
<1>5. QED
  BY <1>2, <1>4 DEF DriftInv, CleanMeansClean

LEMMA ReadsKeep ==
    ASSUME DriftInv, NEW s \in Gathered, Reads(s) \/ ReadFails(s) \/ ReadsInPart(s)
    PROVE  DriftInv'
<1>1. s \in Sources /\ {"whole", "part", "error"} \subseteq Outcomes
  BY DEF Sources, Outcomes
<1>2. CASE Reads(s)
  <2>1. Begun("reading") /\ Took(s, "whole", Contents[s]) /\ UNCHANGED binding /\ Watched
    BY <1>2 DEF Reads, vars, registry
  <2>2. QED
    BY <1>1, <2>1, ReadStep
<1>3. CASE ReadFails(s)
  <2>1. Begun("reading") /\ Took(s, "error", {}) /\ UNCHANGED binding /\ Watched
    BY <1>3 DEF ReadFails, Falters, registry
  <2>2. QED
    BY <1>1, <2>1, ReadStep
<1>4. CASE ReadsInPart(s)
  <2>1. PICK what : Took(s, "part", what)
    BY <1>4 DEF ReadsInPart
  <2>2. Begun("reading") /\ UNCHANGED binding /\ Watched
    BY <1>4 DEF ReadsInPart, Falters, registry
  <2>3. QED
    BY <1>1, <2>1, <2>2, ReadStep
<1>5. QED
  BY <1>2, <1>3, <1>4

LEMMA LaterReadsKeep ==
    ASSUME DriftInv, ReadsNamespaces \/ ReadsTables \/ ReadsUuids
    PROVE  DriftInv'
<1> DEFINE took(what) ==
              \E s \in {"namespaces", "tables", "uuids"}, how \in {"whole", "part", "error"} : Took(s, how, what)
<1>1. PICK what : took(what)
  BY DEF ReadsNamespaces, ReadsTables, ReadsUuids
<1>2. PICK s \in {"namespaces", "tables", "uuids"}, how \in {"whole", "part", "error"} : Took(s, how, what)
  BY <1>1
<1>3. Begun("reading") /\ UNCHANGED binding /\ Watched
  BY DEF ReadsNamespaces, ReadsTables, ReadsUuids, ReadNext, Falters, vars, registry
<1>4. s \in Sources /\ s \notin Gathered /\ how \in Outcomes
  BY DEF Sources, Gathered, Outcomes
<1>5. QED
  BY <1>2, <1>3, <1>4, ReadStep

LEMMA WalkKeeps ==
    ASSUME DriftInv, WalksBuckets
    PROVE  DriftInv'
<1>0. TickShaped /\ How("tables") \in Outcomes
  BY DEF DriftInv, TickShaped, How, Sources
<1> DEFINE goes(how, what, tabs) ==
              tick' = [tick EXCEPT !.how = [@ EXCEPT !["files"] = how, !["tables"] = tabs],
                                   !.seen["files"] = what, !.pc = "rebuild"]
<1>1. \E what : \E how \in {"whole", "part", "error"}, tabs \in Outcomes : goes(how, what, tabs)
  <2>1. \/ \E what : goes("whole", what, How("tables")) \/ goes("error", what, How("tables"))
        \/ \E what, b : goes("part", what, TablesWalked(b))
    BY Zenon DEF WalksBuckets
  <2>2. \A b : TablesWalked(b) \in Outcomes
    BY <1>0 DEF TablesWalked, Outcomes
  <2> HIDE DEF goes
  <2>3. QED
    BY <1>0, <2>1, <2>2
<1>2. PICK what : \E how \in {"whole", "part", "error"}, tabs \in Outcomes : goes(how, what, tabs)
  BY <1>1
<1>3. PICK how \in {"whole", "part", "error"}, tabs \in Outcomes : goes(how, what, tabs)
  BY <1>2
<1>4. HasRead(Gathered) /\ UNCHANGED binding /\ Watched
  BY DEF WalksBuckets, ReadNext, Falters, vars, registry
<1>5. /\ DOMAIN tick' = DOMAIN tick /\ tick'.pc = "rebuild"
      /\ tick'.how = [tick.how EXCEPT !["files"] = how, !["tables"] = tabs]
      /\ tick'.seen = [tick.seen EXCEPT !["files"] = what]
  BY <1>0, <1>3 DEF TickShaped
<1> HIDE DEF goes
<1>6. \A z \in Gathered : tick'.how[z] = tick.how[z] /\ tick'.seen[z] = tick.seen[z]
  BY <1>0, <1>5 DEF TickShaped, Gathered, Sources
<1>7. TickShaped'
  <2>1. how \in Outcomes
    BY DEF Outcomes
  <2>2. tick'.how \in [Sources -> Outcomes]
    BY <1>0, <1>5, <2>1 DEF TickShaped
  <2>3. DOMAIN tick'.seen = Sources
    BY <1>0, <1>5 DEF TickShaped
  <2>4. QED
    BY <1>0, <1>4, <1>5, <1>6, <2>2, <2>3 DEF TickShaped, HasRead, How
<1>8. BindingsHold
  BY <1>0, <1>4, UnchangedHold DEF TickShaped
<1>9. QED
  BY <1>4, <1>5, <1>6, <1>7, <1>8, TickGoesOn DEF Watched, Gathered, Reading

LEMMA PassesKeep ==
    ASSUME DriftInv, Rebuilds \/ RepairRevokes \/ RepairFails \/ RepairEnds \/ SweepProbes \/ SweepClears
                        \/ SweepFails \/ SweepEnds
    PROVE  DriftInv'
<1>1. tick.pc \in {"rebuild", "repair", "probe", "clear"} /\ drift' = drift \cap Drifted'
  BY DEF Rebuilds, RepairRevokes, RepairFails, RepairEnds, SweepProbes, SweepClears, SweepFails, SweepEnds, Begun, Watched
<1>2. UNCHANGED binding
  <2>1. CASE Rebuilds \/ RepairRevokes \/ RepairFails \/ RepairEnds
    BY <2>1 DEF Rebuilds, RepairRevokes, RepairFails, RepairEnds, Falters, vars, registry
  <2>2. CASE SweepProbes \/ SweepClears \/ SweepFails \/ SweepEnds
    BY <2>2 DEF SweepProbes, SweepClears, SweepFails, SweepEnds, Falters, vars, registry
  <2>3. QED
    BY <2>1, <2>2
<1>3. PICK todo : \E pc \in {"repair", "probe", "clear", "release"} : GoesOn(pc, todo)
  BY DEF Rebuilds, RepairRevokes, RepairFails, RepairEnds, SweepProbes, SweepClears, SweepFails, SweepEnds
<1>4. QED
  BY <1>1, <1>2, <1>3, PassStep

LEMMA DueKeep ==
    ASSUME DriftInv, DueReads \/ DueBlocked \/ DueRevokes \/ DueFails \/ DueEnds
    PROVE  DriftInv'
<1>1. tick.pc \in {"release", "revoke"} /\ drift' = drift \cap Drifted' /\ UNCHANGED binding
  BY DEF DueReads, DueBlocked, DueRevokes, DueFails, DueEnds, Begun, Watched, Falters, vars, registry
<1>2. PICK todo : \E pc \in {"revoke", "judge"} : GoesOn(pc, todo)
  BY DEF DueReads, DueBlocked, DueRevokes, DueFails, DueEnds
<1>3. QED
  BY <1>1, <1>2, PassStep

LEMMA JudgingKeeps ==
    ASSUME DriftInv, PurgeJudges
    PROVE  DriftInv'
<1>1. tick.pc = "judge" /\ UNCHANGED binding /\ DOMAIN binding = Names /\ TickShaped
  BY DEF PurgeJudges, Begun, vars, registry, DriftInv, TickShaped
<1>2. CASE ReportIsClean /\ GoesOn("purge", {}) /\ Watched
  <2>1. HasRead(Gathered)
    BY <1>1 DEF TickShaped
  <2>2. drift = {}
    BY <1>2, <2>1, CleanShowsNone
  <2>3. drift' = {}
    BY <1>2, <2>2 DEF Watched
  <2>4. TickShaped' /\ tick'.pc = "purge"
    BY <1>1, <1>2, WentOn
  <2>5. TuplesShow' /\ ProjectsShow' /\ WarehousesShow' /\ BindingsShow' /\ BucketsShow'
    BY <2>3 DEF TuplesShow, ProjectsShow, WarehousesShow, BindingsShow, BucketsShow
  <2>6. QED
    BY <2>3, <2>4, <2>5 DEF DriftInv, CleanMeansClean
<1>3. CASE tick' = NoTick /\ Forgotten
  <2>1. drift' = {} /\ DOMAIN binding' = Names
    BY <1>1, <1>3 DEF Forgotten
  <2>2. QED
    BY <1>3, <2>1, Restful
<1>4. QED
  BY <1>2, <1>3 DEF PurgeJudges

LEMMA DriftStep == DriftInv /\ [DriftNext]_driftVars => DriftInv'
<1> SUFFICES ASSUME DriftInv, [DriftNext]_driftVars
             PROVE  DriftInv'
  OBVIOUS
<1>0. TickShaped /\ DOMAIN binding = Names
  BY DEF DriftInv, TickShaped
<1>1. CASE TickBegins
  <2>1. /\ tick' = [NoTick EXCEPT !.pc = "reading"] /\ drift' = Drifted /\ UNCHANGED vars
    BY <1>1 DEF TickBegins
  <2>2. Drifted' = Drifted
    BY <2>1 DEF Drifted, Tupled, Registered, Bound, Claimed, Below, On, vars, registry, store, authz
  <2>3. DOMAIN binding' = Names /\ tick'.pc = "reading"
    BY <1>0, <2>1 DEF vars, registry, NoTick
  <2>4. QED
    BY <2>1, <2>2, <2>3, Restful
<1>2. CASE TickEnds
  <2>1. tick' = NoTick /\ drift' = {} /\ DOMAIN binding' = Names
    BY <1>0, <1>2 DEF TickEnds, Forgotten, vars, registry
  <2>2. QED
    BY <2>1, Restful
<1>3. CASE Next /\ UNCHANGED tick /\ Watched
  <2>1. BindingsHold
    BY <1>0, <1>3, DoorsHoldBindings
  <2>2. TickShaped'
    BY <1>0, <1>3, <2>1 DEF TickShaped, BindingsHold, HasRead, How
  <2>3. QED
    BY <1>3, <2>1, <2>2, TickGoesOn DEF Watched, Reading
<1>4. CASE UNCHANGED driftVars
  <2>1. /\ UNCHANGED <<tick, drift, binding>> /\ Drifted' = Drifted
    BY <1>4 DEF driftVars, Drifted, Tupled, Registered, Bound, Claimed, Below, On, vars, registry, store, authz
  <2>2. BindingsHold
    BY <1>0, <2>1, UnchangedHold
  <2>3. TickShaped'
    BY <1>0, <2>1 DEF TickShaped, HasRead, How
  <2>4. drift' = drift \cap Drifted'
    BY <2>1 DEF DriftInv
  <2>5. QED
    BY <2>1, <2>2, <2>3, <2>4, TickGoesOn DEF Reading
<1>5. QED
  BY <1>1, <1>2, <1>3, <1>4, ReadsKeep, LaterReadsKeep, WalkKeeps, PassesKeep, DueKeep, JudgingKeeps DEF DriftNext, TickSteps

LEMMA DriftBegins == DriftInit => DriftInv
<1> SUFFICES ASSUME DriftInit
             PROVE  DriftInv
  OBVIOUS
<1>1. tick = NoTick /\ drift = {}
  BY DEF DriftInit
<1>2. DOMAIN binding = Names
  <2>1. PICK o \in Offers : binding = o.world.binding
    BY DEF DriftInit, Init, StartsFrom
  <2>2. QED
    BY <2>1, EstateAssumption
<1>3. TickShaped
  BY <1>1, <1>2 DEF TickShaped, NoTick, Outcomes
<1>4. QED
  BY <1>1, <1>3 DEF DriftInv, TuplesShow, ProjectsShow, WarehousesShow, BindingsShow, BucketsShow, CleanMeansClean

\* The purge is let through only over an estate the tick has seen: for any
\* tenants, warehouses and requests, any drift to begin with, reads in any order
\* that fail or come back in part, and doors at work between any two of them, a
\* report that is clean leaves out no ghost, project without admin, unclaimed
\* bucket or dangling binding that was there throughout (report_is_clean).
THEOREM CleanReportsAreClean == DriftSpec => []CleanMeansClean
<1>1. DriftInv => CleanMeansClean
  BY DEF DriftInv
<1>2. QED
  BY <1>1, DriftBegins, DriftStep, PTL DEF DriftSpec

(***************************************************************************)
(* Module KeyedDoors                                                       *)
(***************************************************************************)

\* Where a request is that the store, or a judgement, let past the claim.
Admitted == Running \cup {"takeover", "release", "releasing"}

\* A request's time is of the past.
ClaimedInThePast == \A a \in Attempts : req[a].at <= now

\* Before the record is there nobody got past the claim.
NobodyBeforeTheRecord ==
  rec.state = "absent" =>
    /\ rec = NoRecord /\ ran = {}
    /\ \A a \in Attempts : req[a].pc \in {"new", "claim"}

\* Who judged, judged a record; who was let run named its operation.
AdmittedByTheRecord ==
  \A a \in Attempts :
    /\ req[a].pc = "takeover" => req[a].read.state # "absent"
    /\ req[a].pc \in Admitted => names[a] = rec.endpoint
    /\ req[a].pc = "remember" => a \in ran

\* The request that made the record is alone with it until its lease is over.
FirstIsAlone ==
  \A a \in Attempts : First(a) /\ now - req[a].at < Lease =>
    /\ rec.state = "in_flight" /\ rec.at = req[a].at
    /\ ran \subseteq {a}
    /\ \A b \in Attempts \ {a} : req[b].pc \notin Admitted

\* An outcome on the record, or read from it, is of a request that carried the
\* record's operation out.
OutcomesAreReal ==
  /\ rec.state = "done" => rec.by # NoAttempt
  /\ rec.by # NoAttempt => rec.by \in ran /\ names[rec.by] = rec.endpoint
  /\ \A a \in Attempts : req[a].pc = "replayed" =>
       req[a].read.by \in ran /\ names[req[a].read.by] = names[a]

KeyInv ==
  /\ KeyTypeOK /\ ClaimedInThePast /\ NobodyBeforeTheRecord
  /\ AdmittedByTheRecord /\ FirstIsAlone /\ OutcomesAreReal

-----------------------------------------------------------------------------

\* The phases of a request and the type of one.
Phases == Running \cup {"new", "claim", "judge", "takeover", "release", "releasing",
             "answered", "replayed", "refused", "busy", "reused", "failed"}
Request == [pc : Phases, at : Time, read : Record]

\* The record there is before any claim is a record.
LEMMA NoRecordTyped == NoRecord \in Record
  BY KeyAssumption DEF NoRecord, Record, States, Time

\* What the actions make of a request and of the record keeps its type.
LEMMA RequestTyped ==
  ASSUME NEW r \in Request, NEW pc \in Phases, NEW at \in Time, NEW read \in Record
  PROVE  /\ [r EXCEPT !.pc = pc] \in Request
         /\ [r EXCEPT !.pc = pc, !.at = at] \in Request
         /\ [r EXCEPT !.pc = pc, !.read = read] \in Request
  BY DEF Request

LEMMA RecordTyped ==
  ASSUME NEW r \in Record, NEW state \in States, NEW at \in Time, NEW by \in Attempts \cup {NoAttempt}
  PROVE  /\ [r EXCEPT !.state = state] \in Record
         /\ [r EXCEPT !.state = state, !.at = at] \in Record
         /\ [r EXCEPT !.state = state, !.by = by] \in Record
  BY DEF Record

\* The program starts in the inductive invariant.
LEMMA KeyInitial == ASSUME KeyInit PROVE KeyInv
<1>1. NoRecord \in Record
  BY NoRecordTyped
<1>2. KeyTypeOK
  BY <1>1, KeyAssumption DEF KeyInit, KeyTypeOK, Time, Running
<1>3. ClaimedInThePast /\ NobodyBeforeTheRecord
  BY DEF KeyInit, ClaimedInThePast, NobodyBeforeTheRecord
<1>4. AdmittedByTheRecord /\ FirstIsAlone
  BY DEF KeyInit, AdmittedByTheRecord, FirstIsAlone, First, Running, Admitted
<1>5. OutcomesAreReal
  BY DEF KeyInit, OutcomesAreReal, NoRecord
<1> QED BY <1>2, <1>3, <1>4, <1>5 DEF KeyInv

\* Every action keeps the variables in their types.
LEMMA KeyTypes == ASSUME KeyTypeOK, KeyNext PROVE KeyTypeOK'
<1>t. /\ now \in Time /\ names \in Namings /\ rec \in Record /\ req \in [Attempts -> Request]
      /\ ran \subseteq Attempts /\ losses \in 0..MaxLosses
  BY DEF KeyTypeOK, Request, Phases
<1>p. {"claim", "run", "judge", "reused", "replayed", "busy", "takeover", "remember", "release",
       "failed", "answered", "releasing", "refused"} \subseteq Phases
  BY DEF Phases, Running
<1>s. {"in_flight", "done", "released"} \subseteq States
  BY DEF States
<1>1. ASSUME req' \in [Attempts -> Request], rec' \in Record, ran' \subseteq Attempts,
             names' = names, now' \in Time, losses' \in 0..MaxLosses
      PROVE  KeyTypeOK'
  BY <1>1, <1>t DEF KeyTypeOK, Request, Phases
<1>2. CASE Tick
  <2>1. now' \in Time
    BY <1>2, <1>t, KeyAssumption DEF Tick, Time
  <2> QED BY <1>1, <1>2, <1>t, <2>1 DEF Tick
<1>3. ASSUME NEW a \in Attempts, NEW pc \in Phases, ReqGoes(a, pc) PROVE req' \in [Attempts -> Request]
  BY <1>3, <1>t, RequestTyped DEF ReqGoes
<1>f. ASSUME Fault PROVE losses' \in 0..MaxLosses
  BY <1>f, <1>t, KeyAssumption DEF Fault
<1>c. ASSUME NEW a \in Attempts PROVE ClaimOf(a) \in Record
  <2>1. names[a] \in Endpoints /\ req[a].at \in Time
    BY <1>t, KeyAssumption DEF Request
  <2> QED BY <2>1, <1>s DEF ClaimOf, Record
<1>4. ASSUME NEW a \in Attempts, BeginsClaim(a) PROVE KeyTypeOK'
  <2>1. req' \in [Attempts -> Request]
    BY <1>4, <1>t, <1>p, RequestTyped DEF BeginsClaim
  <2> QED BY <1>1, <1>4, <1>t, <2>1 DEF BeginsClaim
<1>5. ASSUME NEW a \in Attempts, Claims(a) PROVE KeyTypeOK'
  BY <1>5, <1>1, <1>3, <1>c, <1>p, <1>t DEF Claims
<1>6. ASSUME NEW a \in Attempts, ClaimAnswerLost(a) PROVE KeyTypeOK'
  BY <1>6, <1>1, <1>3, <1>c, <1>f, <1>p, <1>t DEF ClaimAnswerLost
<1>7. ASSUME NEW a \in Attempts, Judges(a) PROVE KeyTypeOK'
  <2>1. Verdict(a) \in Phases
    BY <1>p DEF Verdict
  <2>2. req' \in [Attempts -> Request]
    BY <1>7, <1>t, <2>1, RequestTyped DEF Judges
  <2> QED BY <1>1, <1>7, <1>t, <2>2 DEF Judges
<1>8. ASSUME NEW a \in Attempts, TakesOver(a) PROVE KeyTypeOK'
  <2>1. rec' \in Record
    <3>1. req[a].at \in Time
      BY <1>t DEF Request
    <3> QED BY <1>8, <1>t, <1>s, <3>1, RecordTyped DEF TakesOver
  <2> QED BY <1>8, <1>1, <1>3, <1>p, <1>t, <2>1 DEF TakesOver
<1>9. ASSUME NEW a \in Attempts, Carries(a) \/ IsRefused(a) \/ Fails(a) PROVE KeyTypeOK'
  BY <1>9, <1>1, <1>3, <1>f, <1>p, <1>t DEF Carries, IsRefused, Fails
<1>10. ASSUME NEW a \in Attempts, Remembers(a) PROVE KeyTypeOK'
  <2>1. rec' \in Record
    BY <1>10, <1>t, <1>s, RecordTyped DEF Remembers
  <2> QED BY <1>10, <1>1, <1>3, <1>p, <1>t, <2>1 DEF Remembers
<1>11. ASSUME NEW a \in Attempts, ReleaseReads(a) PROVE KeyTypeOK'
  <2>1. req' \in [Attempts -> Request]
    BY <1>11, <1>t, <1>p, RequestTyped DEF ReleaseReads
  <2> QED BY <1>11, <1>1, <1>t, <2>1 DEF ReleaseReads
<1>12. ASSUME NEW a \in Attempts, ReleaseWrites(a) PROVE KeyTypeOK'
  <2>1. rec' \in Record
    BY <1>12, <1>t, <1>s, RecordTyped DEF ReleaseWrites
  <2> QED BY <1>12, <1>1, <1>3, <1>p, <1>t, <2>1 DEF ReleaseWrites
<1>13. CASE Done
  BY <1>13 DEF Done, keyVars, KeyTypeOK
<1> QED BY <1>2, <1>4, <1>5, <1>6, <1>7, <1>8, <1>9, <1>10, <1>11, <1>12, <1>13 DEF KeyNext

\* What a request reads and claims stays of the past.
LEMMA PastStep == ASSUME KeyTypeOK, ClaimedInThePast, KeyNext PROVE ClaimedInThePast'
<1>t. now \in Int /\ req \in [Attempts -> Request] /\ \A a \in Attempts : req[a].at \in Int
  BY DEF KeyTypeOK, Request, Phases, Time
<1>1. CASE Tick
  BY <1>1, <1>t DEF Tick, ClaimedInThePast
<1>2. ASSUME NEW a \in Attempts, BeginsClaim(a) PROVE ClaimedInThePast'
  BY <1>2, <1>t DEF BeginsClaim, ClaimedInThePast, Request
<1>3. ASSUME NEW a \in Attempts, NEW pc, ReqGoes(a, pc), now' = now PROVE ClaimedInThePast'
  BY <1>3, <1>t DEF ReqGoes, ClaimedInThePast, Request
<1>4. ASSUME NEW a \in Attempts,
             Claims(a) \/ ClaimAnswerLost(a) \/ TakesOver(a) \/ Carries(a) \/ IsRefused(a)
               \/ Fails(a) \/ Remembers(a) \/ ReleaseWrites(a)
      PROVE  ClaimedInThePast'
  BY <1>3, <1>4 DEF Claims, ClaimAnswerLost, TakesOver, Carries, IsRefused, Fails, Remembers, ReleaseWrites
<1>5. ASSUME NEW a \in Attempts, Judges(a) \/ ReleaseReads(a) PROVE ClaimedInThePast'
  BY <1>5, <1>t DEF Judges, ReleaseReads, ClaimedInThePast, Request
<1>6. CASE Done
  BY <1>6 DEF Done, keyVars, ClaimedInThePast
<1> QED BY <1>1, <1>2, <1>4, <1>5, <1>6 DEF KeyNext

\* Every action keeps the rest of the invariant.
LEMMA KeyStep == ASSUME KeyInv, KeyNext PROVE KeyInv'
<1>y. KeyTypeOK' /\ ClaimedInThePast'
  BY KeyTypes, PastStep DEF KeyInv
<1>t. /\ now \in Int /\ names \in [Attempts -> Endpoints] /\ rec \in Record
      /\ req \in [Attempts -> Request] /\ ran \subseteq Attempts
      /\ \A a \in Attempts : req[a].at \in Int
      /\ rec.at \in Int /\ Lease \in Int
  BY KeyAssumption DEF KeyInv, KeyTypeOK, Request, Phases, Time, Record
<1> USE DEF KeyInv
<1> SUFFICES NobodyBeforeTheRecord' /\ AdmittedByTheRecord' /\ FirstIsAlone' /\ OutcomesAreReal'
  BY <1>y
<1>1. CASE Tick
  <2>1. NobodyBeforeTheRecord' /\ AdmittedByTheRecord' /\ OutcomesAreReal'
    BY <1>1 DEF Tick, NobodyBeforeTheRecord, AdmittedByTheRecord, OutcomesAreReal
  <2>2. FirstIsAlone'
    BY <1>1, <1>t DEF Tick, FirstIsAlone, First
  <2> QED BY <2>1, <2>2
<1>2. ASSUME NEW a \in Attempts, BeginsClaim(a)
      PROVE  NobodyBeforeTheRecord' /\ AdmittedByTheRecord' /\ FirstIsAlone' /\ OutcomesAreReal'
  <2>1. /\ req'[a].pc = "claim" /\ req'[a].read = req[a].read
        /\ \A b \in Attempts \ {a} : req'[b] = req[b]
    BY <1>2, <1>t DEF BeginsClaim, Request
  <2>2. rec' = rec /\ ran' = ran /\ names' = names /\ now' = now
    BY <1>2 DEF BeginsClaim
  <2>3. NobodyBeforeTheRecord' /\ AdmittedByTheRecord'
    BY <2>1, <2>2 DEF NobodyBeforeTheRecord, AdmittedByTheRecord, Admitted, Running
  <2>4. FirstIsAlone'
    BY <2>1, <2>2 DEF FirstIsAlone, First, Admitted, Running
  <2>5. OutcomesAreReal'
    BY <2>1, <2>2 DEF OutcomesAreReal
  <2> QED BY <2>3, <2>4, <2>5
<1>g. ASSUME NEW a \in Attempts, NEW pc, ReqGoes(a, pc)
      PROVE  /\ req'[a].pc = pc /\ req'[a].at = req[a].at /\ req'[a].read = req[a].read
             /\ \A b \in Attempts \ {a} : req'[b] = req[b]
  BY <1>g, <1>t DEF ReqGoes, Request
<1>3. ASSUME NEW a \in Attempts, Claims(a) \/ ClaimAnswerLost(a), rec.state = "absent"
      PROVE  NobodyBeforeTheRecord' /\ AdmittedByTheRecord' /\ FirstIsAlone' /\ OutcomesAreReal'
  <2>1. /\ rec' = ClaimOf(a) /\ ran' = ran /\ names' = names /\ now' = now
        /\ ReqGoes(a, "run") \/ ReqGoes(a, "judge")
    BY <1>3 DEF Claims, ClaimAnswerLost
  <2>2. /\ rec'.state = "in_flight" /\ rec'.endpoint = names[a] /\ rec'.at = req[a].at
        /\ rec'.by = NoAttempt
    BY <2>1 DEF ClaimOf
  <2>3. ran = {} /\ \A b \in Attempts : req[b].pc \in {"new", "claim"}
    BY <1>3 DEF NobodyBeforeTheRecord
  <2>4. /\ req'[a].pc \in {"run", "judge"} /\ req'[a].at = req[a].at /\ req'[a].read = req[a].read
        /\ \A b \in Attempts \ {a} : req'[b] = req[b]
    BY <2>1, <1>g
  <2>5. NobodyBeforeTheRecord'
    BY <2>2 DEF NobodyBeforeTheRecord
  <2>6. AdmittedByTheRecord'
    BY <2>1, <2>2, <2>3, <2>4 DEF AdmittedByTheRecord, Admitted, Running
  <2>7. FirstIsAlone'
    BY <2>1, <2>2, <2>3, <2>4 DEF FirstIsAlone, First, Admitted, Running
  <2>8. OutcomesAreReal'
    BY <2>1, <2>2, <2>3, <2>4 DEF OutcomesAreReal
  <2> QED BY <2>5, <2>6, <2>7, <2>8
<1>4. ASSUME NEW a \in Attempts, Claims(a), rec.state # "absent"
      PROVE  NobodyBeforeTheRecord' /\ AdmittedByTheRecord' /\ FirstIsAlone' /\ OutcomesAreReal'
  <2>1. rec' = rec /\ ran' = ran /\ names' = names /\ now' = now /\ ReqGoes(a, "judge")
    BY <1>4 DEF Claims
  <2>2. /\ req'[a].pc = "judge" /\ req'[a].at = req[a].at /\ req'[a].read = req[a].read
        /\ \A b \in Attempts \ {a} : req'[b] = req[b]
    BY <2>1, <1>g
  <2>3. NobodyBeforeTheRecord' /\ AdmittedByTheRecord'
    BY <1>4, <2>1, <2>2 DEF NobodyBeforeTheRecord, AdmittedByTheRecord, Admitted, Running
  <2>4. FirstIsAlone'
    BY <2>1, <2>2 DEF FirstIsAlone, First, Admitted, Running
  <2>5. OutcomesAreReal'
    BY <2>1, <2>2 DEF OutcomesAreReal
  <2> QED BY <2>3, <2>4, <2>5
<1>5. ASSUME NEW a \in Attempts, Judges(a)
      PROVE  NobodyBeforeTheRecord' /\ AdmittedByTheRecord' /\ FirstIsAlone' /\ OutcomesAreReal'
  <2>1. rec' = rec /\ ran' = ran /\ names' = names /\ now' = now /\ req[a].pc = "judge"
    BY <1>5 DEF Judges
  <2>2. /\ req'[a].pc = Verdict(a) /\ req'[a].at = req[a].at /\ req'[a].read = rec
        /\ \A b \in Attempts \ {a} : req'[b] = req[b]
    BY <1>5, <1>t DEF Judges, Request
  <2>3. rec.state # "absent"
    BY <2>1 DEF NobodyBeforeTheRecord
  <2>4. /\ Verdict(a) \in {"reused", "replayed", "busy", "takeover"}
        /\ Verdict(a) = "takeover" => /\ names[a] = rec.endpoint
                                      /\ rec.state = "in_flight" => Lapsed(a)
        /\ Verdict(a) = "replayed" => names[a] = rec.endpoint /\ rec.state = "done"
    BY DEF Verdict
  <2>5. NobodyBeforeTheRecord'
    BY <2>1, <2>3 DEF NobodyBeforeTheRecord
  <2>6. AdmittedByTheRecord'
    BY <2>1, <2>2, <2>3, <2>4 DEF AdmittedByTheRecord, Admitted, Running
  <2>7. FirstIsAlone'
    <3>1. ASSUME NEW b \in Attempts, First(b), now - req[b].at < Lease, a # b PROVE Verdict(a) # "takeover"
      <4>1. rec.state = "in_flight" /\ rec.at = req[b].at
        BY <3>1 DEF FirstIsAlone
      <4>2. ~ Lapsed(a)
        BY <4>1, <3>1, <1>t DEF Lapsed, ClaimedInThePast
      <4> QED BY <4>1, <4>2, <2>4
    <3> QED BY <3>1, <2>1, <2>2, <2>4 DEF FirstIsAlone, First, Admitted, Running
  <2>8. OutcomesAreReal'
    BY <2>1, <2>2, <2>4 DEF OutcomesAreReal
  <2> QED BY <2>5, <2>6, <2>7, <2>8
<1>6. ASSUME NEW a \in Attempts, TakesOver(a)
      PROVE  NobodyBeforeTheRecord' /\ AdmittedByTheRecord' /\ FirstIsAlone' /\ OutcomesAreReal'
  <2>1. ran' = ran /\ names' = names /\ now' = now /\ req[a].pc = "takeover"
    BY <1>6 DEF TakesOver
  <2>2. /\ rec'.state = "in_flight" /\ rec'.endpoint = rec.endpoint /\ rec'.at = req[a].at
        /\ rec'.by = rec.by
    BY <1>6, <1>t DEF TakesOver, Record
  <2>3. /\ req'[a].pc = "run" /\ req'[a].at = req[a].at /\ req'[a].read = req[a].read
        /\ \A b \in Attempts \ {a} : req'[b] = req[b]
    BY <1>6, <1>g DEF TakesOver
  <2>4. NobodyBeforeTheRecord'
    BY <2>2 DEF NobodyBeforeTheRecord
  <2>5. AdmittedByTheRecord'
    BY <2>1, <2>2, <2>3 DEF AdmittedByTheRecord, Admitted, Running
  <2>6. FirstIsAlone'
    <3>1. ~ First(a)'
      BY <2>1, <2>3 DEF First, AdmittedByTheRecord
    <3>2. \A b \in Attempts \ {a} : First(b) => now - req[b].at >= Lease
      BY <2>1, <1>t DEF FirstIsAlone, Admitted
    <3> QED BY <3>1, <3>2, <2>1, <2>3, <1>t DEF FirstIsAlone, First
  <2>7. OutcomesAreReal'
    BY <2>1, <2>2, <2>3 DEF OutcomesAreReal
  <2> QED BY <2>4, <2>5, <2>6, <2>7
<1>7. ASSUME NEW a \in Attempts, Carries(a) \/ IsRefused(a) \/ Fails(a)
      PROVE  NobodyBeforeTheRecord' /\ AdmittedByTheRecord' /\ FirstIsAlone' /\ OutcomesAreReal'
  <2>1. /\ rec' = rec /\ names' = names /\ now' = now
        /\ \/ req[a].pc = "run" /\ ran' = ran \cup {a} /\ (ReqGoes(a, "remember") \/ ReqGoes(a, "failed"))
           \/ /\ req[a].pc \in Admitted \cup {"judge"} /\ ran' = ran
              /\ ReqGoes(a, "release") \/ ReqGoes(a, "failed")
              /\ ReqGoes(a, "release") => req[a].pc = "run"
    BY <1>7, <1>g DEF Carries, IsRefused, Fails, Admitted, Running
  <2>2. PICK pc \in {"remember", "failed", "release"} : req'[a].pc = pc
    BY <2>1, <1>g
  <2>3. /\ pc \in Admitted => req[a].pc = "run"
        /\ pc = "remember" => a \in ran'
        /\ ran \subseteq ran' /\ ran' \subseteq ran \cup {a}
        /\ ran' # ran => req[a].pc = "run"
        /\ req[a].pc \in Admitted \cup {"judge"}
    BY <2>1, <2>2, <1>g DEF Admitted, Running
  <2>4. /\ req'[a].at = req[a].at /\ req'[a].read = req[a].read
        /\ \A b \in Attempts \ {a} : req'[b] = req[b]
    BY <2>1, <1>g
  <2>5. NobodyBeforeTheRecord'
    BY <2>1, <2>3 DEF NobodyBeforeTheRecord, Admitted, Running
  <2>6. AdmittedByTheRecord'
    BY <2>1, <2>2, <2>3, <2>4 DEF AdmittedByTheRecord, Admitted, Running
  <2>7. FirstIsAlone'
    <3>1. ASSUME NEW b \in Attempts, First(b)', (now - req[b].at < Lease)'
          PROVE  First(b) /\ now - req[b].at < Lease
      BY <3>1, <2>1, <2>2, <2>3, <2>4 DEF First, Running, Admitted
    <3>2. ASSUME NEW b \in Attempts, First(b), now - req[b].at < Lease
          PROVE  /\ (rec.state = "in_flight" /\ rec.at = req[b].at)' /\ (ran \subseteq {b})'
                 /\ \A x \in Attempts \ {b} : req'[x].pc \notin Admitted
      <4>1. /\ rec.state = "in_flight" /\ rec.at = req[b].at /\ ran \subseteq {b}
            /\ \A x \in Attempts \ {b} : req[x].pc \notin Admitted
        BY <3>2 DEF FirstIsAlone
      <4>2. ran' \subseteq {b}
        BY <4>1, <2>3 DEF Admitted, Running
      <4>3. \A x \in Attempts \ {b} : req'[x].pc \notin Admitted
        BY <4>1, <2>2, <2>3, <2>4 DEF Admitted, Running
      <4> QED BY <4>1, <4>2, <4>3, <2>1, <2>4
    <3> QED BY <3>1, <3>2 DEF FirstIsAlone
  <2>8. OutcomesAreReal'
    BY <2>1, <2>2, <2>3, <2>4 DEF OutcomesAreReal
  <2> QED BY <2>5, <2>6, <2>7, <2>8
<1>8. ASSUME NEW a \in Attempts, Remembers(a)
      PROVE  NobodyBeforeTheRecord' /\ AdmittedByTheRecord' /\ FirstIsAlone' /\ OutcomesAreReal'
  <2>1. ran' = ran /\ names' = names /\ now' = now /\ req[a].pc = "remember"
    BY <1>8 DEF Remembers
  <2>2. /\ rec'.state = "done" /\ rec'.endpoint = rec.endpoint /\ rec'.at = rec.at
        /\ rec'.by = a
    BY <1>8, <1>t DEF Remembers, Record
  <2>3. /\ req'[a].pc = "answered" /\ req'[a].at = req[a].at /\ req'[a].read = req[a].read
        /\ \A b \in Attempts \ {a} : req'[b] = req[b]
    BY <1>8, <1>g DEF Remembers
  <2>4. a \in ran /\ names[a] = rec.endpoint
    BY <2>1 DEF AdmittedByTheRecord, Admitted, Running
  <2>5. NobodyBeforeTheRecord'
    BY <2>2 DEF NobodyBeforeTheRecord
  <2>6. AdmittedByTheRecord'
    BY <2>1, <2>2, <2>3 DEF AdmittedByTheRecord, Admitted, Running
  <2>7. FirstIsAlone'
    <3>1. ~ First(a)'
      BY <2>3 DEF First, Running
    <3>2. \A b \in Attempts \ {a} : First(b) => now - req[b].at >= Lease
      BY <2>1, <1>t DEF FirstIsAlone, Admitted, Running
    <3> QED BY <3>1, <3>2, <2>1, <2>3, <1>t DEF FirstIsAlone, First
  <2>8. OutcomesAreReal'
    BY <2>1, <2>2, <2>3, <2>4, KeyAssumption DEF OutcomesAreReal
  <2> QED BY <2>5, <2>6, <2>7, <2>8
<1>9. ASSUME NEW a \in Attempts, ReleaseReads(a)
      PROVE  NobodyBeforeTheRecord' /\ AdmittedByTheRecord' /\ FirstIsAlone' /\ OutcomesAreReal'
  <2>1. rec' = rec /\ ran' = ran /\ names' = names /\ now' = now /\ req[a].pc = "release"
    BY <1>9 DEF ReleaseReads
  <2>2. /\ req'[a].pc \in {"releasing", "refused"} /\ req'[a].at = req[a].at
        /\ \A b \in Attempts \ {a} : req'[b] = req[b]
    BY <1>9, <1>t DEF ReleaseReads, Request
  <2>3. NobodyBeforeTheRecord'
    BY <2>1 DEF NobodyBeforeTheRecord
  <2>4. AdmittedByTheRecord'
    BY <2>1, <2>2 DEF AdmittedByTheRecord, Admitted, Running
  <2>5. FirstIsAlone'
    BY <2>1, <2>2 DEF FirstIsAlone, First, Admitted, Running
  <2>6. OutcomesAreReal'
    BY <2>1, <2>2 DEF OutcomesAreReal
  <2> QED BY <2>3, <2>4, <2>5, <2>6
<1>10. ASSUME NEW a \in Attempts, ReleaseWrites(a)
       PROVE  NobodyBeforeTheRecord' /\ AdmittedByTheRecord' /\ FirstIsAlone' /\ OutcomesAreReal'
  <2>1. ran' = ran /\ names' = names /\ now' = now /\ req[a].pc = "releasing"
    BY <1>10 DEF ReleaseWrites
  <2>2. /\ rec'.state \in {"released", rec.state} /\ rec'.endpoint = rec.endpoint
        /\ rec'.by = rec.by
    BY <1>10, <1>t DEF ReleaseWrites, Record
  <2>3. /\ req'[a].pc = "refused" /\ req'[a].at = req[a].at /\ req'[a].read = req[a].read
        /\ \A b \in Attempts \ {a} : req'[b] = req[b]
    BY <1>10, <1>g DEF ReleaseWrites
  <2>4. NobodyBeforeTheRecord'
    BY <2>1, <2>2 DEF NobodyBeforeTheRecord
  <2>5. AdmittedByTheRecord'
    BY <2>1, <2>2, <2>3 DEF AdmittedByTheRecord, Admitted, Running
  <2>6. FirstIsAlone'
    <3>1. ~ First(a)'
      BY <2>3 DEF First, Running
    <3>2. \A b \in Attempts \ {a} : First(b) => now - req[b].at >= Lease
      BY <2>1, <1>t DEF FirstIsAlone, Admitted
    <3> QED BY <3>1, <3>2, <2>1, <2>3, <1>t DEF FirstIsAlone, First
  <2>7. OutcomesAreReal'
    BY <2>1, <2>2, <2>3 DEF OutcomesAreReal
  <2> QED BY <2>4, <2>5, <2>6, <2>7
<1>11. CASE Done
  BY <1>11 DEF Done, keyVars, NobodyBeforeTheRecord, AdmittedByTheRecord, FirstIsAlone, OutcomesAreReal, First
<1> QED BY <1>1, <1>2, <1>3, <1>4, <1>5, <1>6, <1>7, <1>8, <1>9, <1>10, <1>11 DEF KeyNext, ClaimAnswerLost

-----------------------------------------------------------------------------

\* The invariant holds of the program, whatever the constants are.
LEMMA KeyInvariant == KeySpec => []KeyInv
<1> SUFFICES KeySpec => []KeyInv
  OBVIOUS
<1>1. KeyInit => KeyInv
  BY KeyInitial
<1>2. KeyInv /\ [KeyNext]_keyVars => KeyInv'
  <2>1. KeyInv /\ KeyNext => KeyInv'
    BY KeyStep
  <2>2. KeyInv /\ UNCHANGED keyVars => KeyInv'
    BY DEF KeyInv, keyVars, KeyTypeOK, ClaimedInThePast, NobodyBeforeTheRecord, AdmittedByTheRecord,
           FirstIsAlone, OutcomesAreReal, First
  <2> QED BY <2>1, <2>2
<1> QED BY <1>1, <1>2, PTL DEF KeySpec

\* While the request whose claim made a key's record runs inside its lease nobody
\* else has carried the operation out or been let run, and a replay answers with
\* what a request for the same operation did (idempotency.claim, record_outcome).
THEOREM FirstRunsAlone == KeySpec => []OneOutcomePerKey
<1> SUFFICES KeySpec => []OneOutcomePerKey
  OBVIOUS
<1>1. KeySpec => []KeyInv
  BY KeyInvariant
<1>2. KeyInv => OneOutcomePerKey
  BY DEF KeyInv, OneOutcomePerKey, FirstIsAlone, OutcomesAreReal, Admitted
<1> QED BY <1>1, <1>2, PTL

-----------------------------------------------------------------------------

(***************************************************************************)
(* Module SharedReads                                                      *)
(***************************************************************************)

\* A forget follows its write, and a get begins after the forgets it counts.
ForgetFollowsWrite ==
    /\ \A t \in Tables : forgotten[t] <= stored[t]
    /\ \A w \in Writers : writer[w].pc = "written" => writer[w].wrote <= stored[writer[w].table]
    /\ \A w \in Waiters : waiter[w].since <= forgotten[waiter[w].table]

\* The clearings a load counted are of the past, in the order (starts, clearings).
CountedInThePast ==
    \A w \in Waiters : waiter[w].pc \in {"counted", "loaded"} =>
        /\ waiter[w].before[1] <= starts
        /\ waiter[w].before[1] = starts => waiter[w].before[2] <= clearings[waiter[w].table]

\* What a load answered has every write forgotten before its get, and every
\* write forgotten so far unless a clearing was counted since.
LoadedIsFresh ==
    \A w \in Waiters : waiter[w].pc = "loaded" =>
        /\ waiter[w].got >= waiter[w].since
        /\ waiter[w].table \notin astray /\ Cleared(waiter[w].table) = waiter[w].before =>
               waiter[w].got >= forgotten[waiter[w].table]

ViewInv == ViewTypeOK /\ ForgetFollowsWrite /\ CountedInThePast /\ LoadedIsFresh /\ NoViewFromBeforeOwnWrite

-----------------------------------------------------------------------------

\* The locals a get begins with, and the ones at rest, are typed.
LEMMA RestTyped ==
    ASSUME ViewTypeOK
    PROVE  /\ AnyTable \in Tables /\ IdleWaiter \in WaiterLocals /\ IdleWriter \in WriterLocals
           /\ \A t \in Tables : Enters(t, "missed") \in WaiterLocals
           /\ \A t \in Tables, got \in Writes \cup {NoView} :
                  [Enters(t, "answered") EXCEPT !.got = got] \in WaiterLocals
<1>1. AnyTable \in Tables
  BY ViewAssumption DEF AnyTable
<1>2. 0 \in Writes /\ 0 \in 0 .. MaxStarts /\ NoView \in Writes \cup {NoView}
  BY ViewAssumption DEF Writes
<1>3. \A t \in Tables : <<t, 0>> \in Locks
  BY <1>2 DEF Locks
<1>4. \A t \in Tables : forgotten[t] \in Writes
  BY DEF ViewTypeOK
<1>5. IdleWaiter \in WaiterLocals
  BY <1>1, <1>2, <1>3 DEF IdleWaiter, WaiterLocals
<1>6. IdleWriter \in WriterLocals
  BY <1>1, <1>2 DEF IdleWriter, WriterLocals
<1>7. ASSUME NEW t \in Tables, NEW pc \in {"missed", "answered"}, NEW got \in Writes \cup {NoView}
      PROVE  Enters(t, pc) \in WaiterLocals /\ [Enters(t, pc) EXCEPT !.got = got] \in WaiterLocals
  BY <1>2, <1>3, <1>4, <1>7 DEF Enters, WaiterLocals
<1> QED BY <1>1, <1>2, <1>5, <1>6, <1>7

\* The program starts in the inductive invariant.
LEMMA ViewInitial == ASSUME ViewInit PROVE ViewInv
<1>0. 0 \in Writes /\ 0 \in 0 .. MaxStarts
  BY ViewAssumption DEF Writes
<1>1. AnyTable \in Tables /\ <<AnyTable, 0>> \in Locks
  BY <1>0, ViewAssumption DEF AnyTable, Locks
<1>2. IdleWaiter \in WaiterLocals /\ IdleWriter \in WriterLocals
  BY <1>0, <1>1 DEF IdleWaiter, WaiterLocals, IdleWriter, WriterLocals
<1>3. ViewTypeOK
  BY <1>0, <1>2 DEF ViewInit, ViewTypeOK
<1>4. ForgetFollowsWrite /\ CountedInThePast /\ LoadedIsFresh
  BY <1>1 DEF ViewInit, ForgetFollowsWrite, CountedInThePast, LoadedIsFresh, IdleWaiter, IdleWriter
<1>5. NoViewFromBeforeOwnWrite
  BY DEF ViewInit, NoViewFromBeforeOwnWrite, IdleWaiter
<1> QED BY <1>3, <1>4, <1>5 DEF ViewInv

\* Every action keeps the variables in their types.
LEMMA ViewTypes == ASSUME ViewTypeOK, ViewNext PROVE ViewTypeOK'
<1>r. /\ AnyTable \in Tables /\ IdleWaiter \in WaiterLocals /\ IdleWriter \in WriterLocals
      /\ \A t \in Tables : Enters(t, "missed") \in WaiterLocals
      /\ \A t \in Tables, got \in Writes \cup {NoView} :
             [Enters(t, "answered") EXCEPT !.got = got] \in WaiterLocals
  BY RestTyped
<1>l. ASSUME NEW w \in Waiters
      PROVE  /\ waiter[w] \in WaiterLocals /\ waiter[w].table \in Tables /\ waiter[w].lock \in Locks
             /\ waiter[w].got \in Writes \cup {NoView}
  BY DEF ViewTypeOK, WaiterLocals
<1>1. ASSUME NEW w \in Waiters, NEW t \in Tables, GetPeeks(w, t) PROVE ViewTypeOK'
  BY <1>1, <1>r DEF GetPeeks, ViewTypeOK, view
<1>2. ASSUME NEW w \in Waiters, LockFor(w) PROVE ViewTypeOK'
  <2>1. starts' \in 0 .. MaxStarts /\ locked' \subseteq Tables
    BY <1>2, <1>l, ViewAssumption DEF LockFor, ViewTypeOK
  <2>2. held' \in [Tables -> Writes \cup {NoView}] /\ clearings' \in [Tables -> Nat]
    <3>1. held' \in {held, [u \in Tables |-> NoView]} /\ clearings' \in {clearings, [u \in Tables |-> 0]}
      BY <1>2 DEF LockFor
    <3>2. [u \in Tables |-> NoView] \in [Tables -> Writes \cup {NoView}] /\ [u \in Tables |-> 0] \in [Tables -> Nat]
      OBVIOUS
    <3> QED BY <3>1, <3>2 DEF ViewTypeOK
  <2>3. <<waiter[w].table, starts'>> \in Locks
    BY <2>1, <1>l DEF Locks
  <2>4. waiter' \in [Waiters -> WaiterLocals]
    <3>1. [[waiter[w] EXCEPT !.pc = "queued"] EXCEPT !.lock = <<waiter[w].table, starts'>>] \in WaiterLocals
      BY <1>l, <2>3 DEF WaiterLocals
    <3> QED BY <1>2, <3>1 DEF LockFor, ViewTypeOK
  <2> QED BY <1>2, <2>1, <2>2, <2>4 DEF LockFor, ViewTypeOK
<1>3. ASSUME NEW w \in Waiters, GetEnters(w) PROVE ViewTypeOK'
  <2>1. /\ [waiter[w] EXCEPT !.pc = "entered"] \in WaiterLocals
        /\ [[waiter[w] EXCEPT !.pc = "answered"] EXCEPT !.got = held[waiter[w].table]] \in WaiterLocals
    <3>1. held[waiter[w].table] \in Writes \cup {NoView}
      BY <1>l DEF ViewTypeOK
    <3> QED BY <1>l, <3>1 DEF WaiterLocals
  <2>2. waiter' \in [Waiters -> WaiterLocals]
    BY <1>3, <2>1 DEF GetEnters, ViewTypeOK
  <2>3. owner' \in [Locks -> Waiters \cup {Free}]
    BY <1>3, <1>l DEF GetEnters, ViewTypeOK
  <2> QED BY <1>3, <2>2, <2>3 DEF GetEnters, ViewTypeOK, view
<1>4. ASSUME NEW w \in Waiters, GetCounts(w) PROVE ViewTypeOK'
  <2>1. Cleared(waiter[w].table) \in (0 .. MaxStarts) \X Nat
    BY <1>l DEF Cleared, ViewTypeOK
  <2>2. [[waiter[w] EXCEPT !.pc = "counted"] EXCEPT !.before = Cleared(waiter[w].table)] \in WaiterLocals
    BY <1>l, <2>1 DEF WaiterLocals
  <2>3. waiter' \in [Waiters -> WaiterLocals]
    BY <1>4, <2>2 DEF GetCounts, ViewTypeOK
  <2> QED BY <1>4, <2>3 DEF GetCounts, ViewTypeOK, view
<1>5. ASSUME NEW w \in Waiters, GetLoads(w) PROVE ViewTypeOK'
  <2>1. [[waiter[w] EXCEPT !.pc = "loaded"] EXCEPT !.got = stored[waiter[w].table]] \in WaiterLocals
    <3>1. stored[waiter[w].table] \in Writes \cup {NoView}
      BY <1>l DEF ViewTypeOK
    <3> QED BY <1>l, <3>1 DEF WaiterLocals
  <2>2. waiter' \in [Waiters -> WaiterLocals]
    BY <1>5, <2>1 DEF GetLoads, ViewTypeOK
  <2> QED BY <1>5, <2>2 DEF GetLoads, ViewTypeOK, view
<1>6. ASSUME NEW w \in Waiters, GetKeeps(w) PROVE ViewTypeOK'
  <2>1. [waiter[w] EXCEPT !.pc = "answered"] \in WaiterLocals
    BY <1>l DEF WaiterLocals
  <2>2. waiter' \in [Waiters -> WaiterLocals] /\ owner' \in [Locks -> Waiters \cup {Free}]
    BY <1>6, <2>1 DEF GetKeeps, ViewTypeOK
  <2>3. held' \in [Tables -> Writes \cup {NoView}]
    BY <1>6, <1>l DEF GetKeeps, ViewTypeOK
  <2> QED BY <1>6, <2>2, <2>3 DEF GetKeeps, ViewTypeOK
<1>7. ASSUME NEW w \in Waiters, GetFails(w) \/ GetReturns(w) PROVE ViewTypeOK'
  BY <1>7, <1>r DEF GetFails, GetReturns, ViewTypeOK, view
<1>8. ASSUME NEW w \in Writers, NEW t \in Tables, WriteRecord(w, t) PROVE ViewTypeOK'
  <2>1. stored' \in [Tables -> Writes]
    BY <1>8, ViewAssumption DEF WriteRecord, ViewTypeOK, Writes
  <2>2. [pc |-> "written", table |-> t, wrote |-> stored'[t]] \in WriterLocals
    BY <2>1 DEF WriterLocals
  <2>3. writer' \in [Writers -> WriterLocals]
    BY <1>8, <2>2 DEF WriteRecord, ViewTypeOK
  <2> QED BY <1>8, <2>1, <2>3 DEF WriteRecord, ViewTypeOK, view
<1>9. ASSUME NEW w \in Writers, Forget(w) PROVE ViewTypeOK'
  <2>1. writer[w].table \in Tables /\ writer[w].wrote \in Writes
    BY DEF ViewTypeOK, WriterLocals
  <2>2. held' \in [Tables -> Writes \cup {NoView}] /\ clearings' \in [Tables -> Nat]
    BY <1>9, <2>1 DEF Forget, Clearings, ViewTypeOK
  <2>3. forgotten' \in [Tables -> Writes] /\ astray' \subseteq Tables
    BY <1>9, <2>1 DEF Forget, ViewTypeOK
  <2>4. writer' \in [Writers -> WriterLocals]
    BY <1>9, <1>r DEF Forget, ViewTypeOK
  <2> QED BY <1>9, <2>2, <2>3, <2>4 DEF Forget, ViewTypeOK
<1> QED BY <1>1, <1>2, <1>3, <1>4, <1>5, <1>6, <1>7, <1>8, <1>9 DEF ViewNext

\* Every action keeps the invariant.
LEMMA ViewStep == ASSUME ViewInv, ViewNext PROVE ViewInv'
<1>y. ViewTypeOK'
  BY ViewTypes DEF ViewInv
<1>t. /\ stored \in [Tables -> Int] /\ held \in [Tables -> Int] /\ clearings \in [Tables -> Int]
      /\ starts \in Int /\ forgotten \in [Tables -> Int]
      /\ waiter \in [Waiters -> WaiterLocals] /\ writer \in [Writers -> WriterLocals]
  BY DEF ViewInv, ViewTypeOK, Writes, NoView
<1>l. ASSUME NEW w \in Waiters
      PROVE  /\ waiter[w].table \in Tables /\ waiter[w].got \in Int /\ waiter[w].since \in Int
             /\ waiter[w].before[1] \in Int /\ waiter[w].before[2] \in Int
             /\ waiter[w].before = <<waiter[w].before[1], waiter[w].before[2]>>
  BY <1>t DEF WaiterLocals, Writes, NoView
<1>m. ASSUME NEW w \in Writers PROVE writer[w].table \in Tables /\ writer[w].wrote \in Int
  BY <1>t DEF WriterLocals, Writes
<1>a. AnyTable \in Tables /\ \A t \in Tables : forgotten[t] >= 0
  BY ViewAssumption DEF AnyTable, ViewInv, ViewTypeOK, Writes
<1> DEFINE Rest == ForgetFollowsWrite /\ CountedInThePast /\ LoadedIsFresh /\ NoViewFromBeforeOwnWrite
<1> SUFFICES Rest'
  BY <1>y DEF ViewInv
<1> USE DEF ViewInv
<1>o. ASSUME NEW w \in Waiters, waiter' = [waiter EXCEPT ![w] = waiter'[w]],
             waiter'[w].pc \notin {"counted", "loaded"},
             waiter'[w].table \in Tables, waiter'[w].since <= forgotten[waiter'[w].table],
             waiter'[w].pc = "answered" /\ waiter'[w].table \notin astray => waiter'[w].got >= waiter'[w].since,
             UNCHANGED <<stored, view, writer, forgotten, astray>>
      PROVE  Rest'
  <2>1. ASSUME NEW v \in Waiters, v # w PROVE waiter'[v] = waiter[v]
    BY <1>o, <1>t, <2>1
  <2>2. ForgetFollowsWrite'
    BY <1>o, <2>1 DEF ForgetFollowsWrite, view
  <2>3. CountedInThePast' /\ LoadedIsFresh'
    BY <1>o, <2>1 DEF CountedInThePast, LoadedIsFresh, Cleared, view
  <2>4. NoViewFromBeforeOwnWrite'
    BY <1>o, <2>1 DEF NoViewFromBeforeOwnWrite, view
  <2> QED BY <2>2, <2>3, <2>4
<1>1. ASSUME NEW w \in Waiters, NEW t \in Tables, GetPeeks(w, t) PROVE Rest'
  <2>1. waiter' = [waiter EXCEPT ![w] = waiter'[w]] /\ UNCHANGED <<stored, view, writer, forgotten, astray>>
    BY <1>1, <1>t DEF GetPeeks
  <2>2. \/ waiter'[w] = Enters(t, "missed")
        \/ held[t] # NoView /\ waiter'[w] = [Enters(t, "answered") EXCEPT !.got = held[t]]
    BY <1>1, <1>t DEF GetPeeks
  <2>3. /\ waiter'[w].pc \in {"missed", "answered"} /\ waiter'[w].table = t /\ waiter'[w].since = forgotten[t]
        /\ waiter'[w].pc = "answered" => waiter'[w].got = held[t] /\ held[t] # NoView
    BY <2>2 DEF Enters
  <2>4. t \notin astray /\ held[t] # NoView => held[t] >= forgotten[t]
    BY DEF NoViewFromBeforeOwnWrite
  <2>5. waiter'[w].since <= forgotten[waiter'[w].table]
    BY <2>3, <1>t
  <2>6. waiter'[w].pc = "answered" /\ waiter'[w].table \notin astray => waiter'[w].got >= waiter'[w].since
    BY <2>3, <2>4
  <2> QED BY <2>1, <2>3, <2>5, <2>6, <1>o
<1>2. ASSUME NEW w \in Waiters, LockFor(w) PROVE Rest'
  <2>1. /\ waiter'[w].pc = "queued" /\ waiter'[w].table = waiter[w].table /\ waiter'[w].since = waiter[w].since
        /\ \A v \in Waiters \ {w} : waiter'[v] = waiter[v]
    BY <1>2, <1>t DEF LockFor, WaiterLocals
  <2>2. UNCHANGED <<stored, writer, forgotten, astray>>
    BY <1>2 DEF LockFor
  <2>3. \/ starts' = starts + 1 /\ \A t \in Tables : held'[t] = NoView
        \/ starts' = starts /\ held' = held /\ clearings' = clearings
    BY <1>2 DEF LockFor
  <2>4. ForgetFollowsWrite'
    BY <2>1, <2>2 DEF ForgetFollowsWrite
  <2>5. CountedInThePast'
    BY <2>1, <2>3, <1>l, <1>t DEF CountedInThePast
  <2>6. ASSUME NEW v \in Waiters, waiter'[v].pc = "loaded", Cleared(waiter[v].table)' = waiter[v].before
        PROVE  v # w /\ Cleared(waiter[v].table) = waiter[v].before
    <3>1. v # w /\ waiter'[v] = waiter[v]
      BY <2>6, <2>1
    <3>2. starts' = waiter[v].before[1]
      BY <2>6, <1>l DEF Cleared
    <3>3. starts' = starts /\ clearings' = clearings
      BY <3>1, <3>2, <2>6, <2>3, <1>l, <1>t DEF CountedInThePast
    <3> QED BY <3>1, <3>3, <2>6 DEF Cleared
  <2>7. LoadedIsFresh'
    <3> SUFFICES ASSUME NEW v \in Waiters, (waiter[v].pc = "loaded")'
                 PROVE  /\ (waiter[v].got >= waiter[v].since)'
                        /\ (waiter[v].table \notin astray /\ Cleared(waiter[v].table) = waiter[v].before =>
                               waiter[v].got >= forgotten[waiter[v].table])'
      BY DEF LoadedIsFresh
    <3>1. v # w /\ waiter'[v] = waiter[v]
      BY <2>1
    <3> QED BY <3>1, <2>2, <2>6 DEF LoadedIsFresh
  <2>8. NoViewFromBeforeOwnWrite'
    BY <2>1, <2>2, <2>3 DEF NoViewFromBeforeOwnWrite
  <2> QED BY <2>4, <2>5, <2>7, <2>8
<1>3. ASSUME NEW w \in Waiters, GetEnters(w) PROVE Rest'
  <2>1. waiter' = [waiter EXCEPT ![w] = waiter'[w]] /\ UNCHANGED <<stored, view, writer, forgotten, astray>>
    BY <1>3, <1>t DEF GetEnters
  <2>2. /\ waiter'[w].pc \in {"entered", "answered"} /\ waiter'[w].table = waiter[w].table
        /\ waiter'[w].since = waiter[w].since
        /\ waiter'[w].pc = "answered" => waiter'[w].got = held[waiter[w].table] /\ held[waiter[w].table] # NoView
    BY <1>3, <1>t DEF GetEnters, WaiterLocals
  <2>3. waiter[w].table \notin astray /\ held[waiter[w].table] # NoView =>
            held[waiter[w].table] >= forgotten[waiter[w].table]
    BY <1>l DEF NoViewFromBeforeOwnWrite
  <2>4. waiter[w].since <= forgotten[waiter[w].table]
    BY DEF ForgetFollowsWrite
  <2>5. waiter'[w].pc = "answered" /\ waiter'[w].table \notin astray => waiter'[w].got >= waiter'[w].since
    BY <2>2, <2>3, <2>4, <1>l, <1>t
  <2> QED BY <2>1, <2>2, <2>4, <2>5, <1>l, <1>o
<1>4. ASSUME NEW w \in Waiters, GetCounts(w) PROVE Rest'
  <2>1. UNCHANGED <<stored, view, writer, forgotten, astray>>
    BY <1>4 DEF GetCounts
  <2>2. /\ waiter'[w].pc = "counted" /\ waiter'[w].table = waiter[w].table /\ waiter'[w].since = waiter[w].since
        /\ waiter'[w].before = Cleared(waiter[w].table)
        /\ \A v \in Waiters \ {w} : waiter'[v] = waiter[v]
    BY <1>4, <1>t DEF GetCounts, WaiterLocals
  <2>3. ForgetFollowsWrite' /\ LoadedIsFresh' /\ NoViewFromBeforeOwnWrite'
    BY <2>1, <2>2 DEF ForgetFollowsWrite, LoadedIsFresh, NoViewFromBeforeOwnWrite, Cleared, view
  <2>4. CountedInThePast'
    BY <2>1, <2>2, <1>t, <1>l DEF CountedInThePast, Cleared, view
  <2> QED BY <2>3, <2>4
<1>5. ASSUME NEW w \in Waiters, GetLoads(w) PROVE Rest'
  <2>1. UNCHANGED <<stored, view, writer, forgotten, astray>> /\ waiter[w].pc = "counted"
    BY <1>5 DEF GetLoads
  <2>2. /\ waiter'[w].pc = "loaded" /\ waiter'[w].table = waiter[w].table /\ waiter'[w].since = waiter[w].since
        /\ waiter'[w].before = waiter[w].before /\ waiter'[w].got = stored[waiter[w].table]
        /\ \A v \in Waiters \ {w} : waiter'[v] = waiter[v]
    BY <1>5, <1>t DEF GetLoads, WaiterLocals
  <2>3. ForgetFollowsWrite' /\ CountedInThePast' /\ NoViewFromBeforeOwnWrite'
    BY <2>1, <2>2 DEF ForgetFollowsWrite, CountedInThePast, NoViewFromBeforeOwnWrite, view
  <2>4. stored[waiter[w].table] >= forgotten[waiter[w].table] /\ stored[waiter[w].table] >= waiter[w].since
    BY <1>l, <1>t DEF ForgetFollowsWrite
  <2>5. LoadedIsFresh'
    BY <2>1, <2>2, <2>4 DEF LoadedIsFresh, Cleared, view
  <2> QED BY <2>3, <2>5
<1>6. ASSUME NEW w \in Waiters, GetKeeps(w) PROVE Rest'
  <2>1. UNCHANGED <<stored, locked, clearings, starts, writer, forgotten, astray>> /\ waiter[w].pc = "loaded"
    BY <1>6 DEF GetKeeps
  <2>2. /\ waiter'[w].pc = "answered" /\ waiter'[w].table = waiter[w].table /\ waiter'[w].since = waiter[w].since
        /\ waiter'[w].got = waiter[w].got
        /\ \A v \in Waiters \ {w} : waiter'[v] = waiter[v]
    BY <1>6, <1>t DEF GetKeeps, WaiterLocals
  <2>3. ForgetFollowsWrite' /\ CountedInThePast' /\ LoadedIsFresh'
    BY <2>1, <2>2 DEF ForgetFollowsWrite, CountedInThePast, LoadedIsFresh, Cleared
  <2>4. ASSUME NEW t \in Tables \ astray, held'[t] # NoView PROVE held'[t] >= forgotten[t]
    <3>1. CASE t = waiter[w].table /\ Cleared(t) = waiter[w].before
      <4>1. held'[t] = waiter[w].got
        BY <1>6, <3>1, <1>t DEF GetKeeps
      <4> QED BY <4>1, <3>1, <2>1, <2>4 DEF LoadedIsFresh
    <3>2. CASE ~ (t = waiter[w].table /\ Cleared(t) = waiter[w].before)
      <4>1. held'[t] = held[t]
        BY <1>6, <3>2, <1>t DEF GetKeeps
      <4> QED BY <4>1, <2>4 DEF NoViewFromBeforeOwnWrite
    <3> QED BY <3>1, <3>2
  <2>5. NoViewFromBeforeOwnWrite'
    BY <2>1, <2>2, <2>4 DEF NoViewFromBeforeOwnWrite, LoadedIsFresh
  <2> QED BY <2>3, <2>5
<1>7. ASSUME NEW w \in Waiters, GetFails(w) \/ GetReturns(w) PROVE Rest'
  <2>1. waiter' = [waiter EXCEPT ![w] = waiter'[w]] /\ UNCHANGED <<stored, view, writer, forgotten, astray>>
    BY <1>7, <1>t DEF GetFails, GetReturns
  <2>2. waiter'[w].pc = "idle" /\ waiter'[w].table = AnyTable /\ waiter'[w].since = 0
    BY <1>7, <1>t DEF GetFails, GetReturns, IdleWaiter
  <2>3. waiter'[w].since <= forgotten[waiter'[w].table]
    BY <2>2, <1>a, <1>t
  <2> QED BY <2>1, <2>2, <2>3, <1>a, <1>o
<1>8. ASSUME NEW w \in Writers, NEW t \in Tables, WriteRecord(w, t) PROVE Rest'
  <2>1. UNCHANGED <<view, owner, waiter, forgotten, astray>>
    BY <1>8 DEF WriteRecord
  <2>2. \A u \in Tables : stored'[u] >= stored[u]
    BY <1>8, <1>t DEF WriteRecord
  <2>3. /\ writer'[w].table = t /\ writer'[w].wrote = stored'[t]
        /\ \A v \in Writers \ {w} : writer'[v] = writer[v]
    BY <1>8, <1>t DEF WriteRecord
  <2>4. stored' \in [Tables -> Int]
    BY <1>y DEF ViewTypeOK, Writes
  <2>5. ForgetFollowsWrite'
    BY <2>1, <2>2, <2>3, <2>4, <1>t, <1>m DEF ForgetFollowsWrite
  <2>6. CountedInThePast' /\ LoadedIsFresh' /\ NoViewFromBeforeOwnWrite'
    BY <2>1 DEF CountedInThePast, LoadedIsFresh, NoViewFromBeforeOwnWrite, Cleared, view
  <2> QED BY <2>5, <2>6
<1>9. ASSUME NEW w \in Writers, Forget(w) PROVE Rest'
  <2> DEFINE t == writer[w].table
  <2>t. t \in Tables
    BY <1>m
  <2>1. UNCHANGED <<stored, locked, starts, owner, waiter>> /\ writer[w].pc = "written"
    BY <1>9 DEF Forget
  <2>2. /\ held'[t] = NoView
        /\ \A u \in Tables \ {t} : /\ held'[u] = held[u] /\ clearings'[u] = clearings[u]
                                   /\ forgotten'[u] = forgotten[u]
    <3>1. held'[t] = NoView /\ \A u \in Tables \ {t} : held'[u] = held[u]
      BY <1>9, <1>t, <2>t DEF Forget
    <3>2. \A u \in Tables \ {t} : clearings'[u] = clearings[u] /\ forgotten'[u] = forgotten[u]
      BY <1>9, <1>t, <2>t DEF Forget, Clearings
    <3> QED BY <3>1, <3>2
  <2>3. forgotten'[t] \in {forgotten[t], writer[w].wrote} /\ forgotten'[t] >= forgotten[t]
    BY <1>9, <1>t, <1>m DEF Forget
  <2>4. /\ writer'[w].pc = "idle"
        /\ \A v \in Writers \ {w} : writer'[v] = writer[v]
    BY <1>9, <1>t DEF Forget, IdleWriter
  <2>5. clearings'[t] = IF t \in locked THEN clearings[t] + 1 ELSE clearings[t]
    BY <1>9, <1>t, <2>t DEF Forget, Clearings
  <2>6. /\ astray \subseteq astray'
        /\ t \notin astray' /\ t \notin locked =>
              \A v \in Waiters : waiter[v].table = t => waiter[v].pc \notin {"counted", "loaded"}
    BY <1>9 DEF Forget
  <2>7. forgotten' \in [Tables -> Int]
    BY <1>y DEF ViewTypeOK, Writes
  <2>8. ForgetFollowsWrite'
    <3>1. \A u \in Tables : forgotten'[u] <= stored'[u] /\ forgotten'[u] >= forgotten[u]
      BY <2>1, <2>2, <2>3, <1>t, <1>m, <2>t DEF ForgetFollowsWrite
    <3>2. \A v \in Writers : writer'[v].pc = "written" => writer'[v].wrote <= stored'[writer'[v].table]
      BY <2>1, <2>4 DEF ForgetFollowsWrite
    <3>3. \A v \in Waiters : waiter'[v].since <= forgotten'[waiter'[v].table]
      BY <3>1, <2>1, <2>7, <1>t, <1>l DEF ForgetFollowsWrite
    <3> QED BY <3>1, <3>2, <3>3 DEF ForgetFollowsWrite
  <2>9. CountedInThePast'
    <3>1. \A u \in Tables : clearings'[u] >= clearings[u] /\ clearings'[u] \in Int
      BY <2>2, <2>5, <1>t, <2>t
    <3> QED BY <3>1, <2>1, <1>l, <1>t DEF CountedInThePast
  <2>10. LoadedIsFresh'
    <3> SUFFICES ASSUME NEW v \in Waiters, waiter[v].pc = "loaded"
                 PROVE  /\ waiter[v].got >= waiter[v].since
                        /\ (/\ waiter[v].table \notin astray'
                            /\ <<starts', clearings'[waiter[v].table]>> = waiter[v].before) =>
                               waiter[v].got >= forgotten'[waiter[v].table]
      BY <2>1 DEF LoadedIsFresh, Cleared
    <3>1. waiter[v].got >= waiter[v].since
      BY DEF LoadedIsFresh
    <3>2. CASE waiter[v].table # t
      BY <3>1, <3>2, <2>1, <2>2, <2>6, <1>l DEF LoadedIsFresh, Cleared
    <3>3. ASSUME waiter[v].table = t, t \notin astray', <<starts', clearings'[t]>> = waiter[v].before
          PROVE  FALSE
      <4>1. t \in locked
        BY <3>3, <2>6
      <4>2. starts = waiter[v].before[1] /\ clearings[t] + 1 = waiter[v].before[2]
        BY <4>1, <3>3, <2>1, <2>5, <1>l
      <4> QED BY <4>2, <3>3, <1>l, <1>t, <2>t DEF CountedInThePast
    <3> QED BY <3>1, <3>2, <3>3
  <2>11. NoViewFromBeforeOwnWrite'
    BY <2>1, <2>2, <2>6, <2>t DEF NoViewFromBeforeOwnWrite
  <2> QED BY <2>8, <2>9, <2>10, <2>11
<1> QED BY <1>1, <1>2, <1>3, <1>4, <1>5, <1>6, <1>7, <1>8, <1>9 DEF ViewNext

-----------------------------------------------------------------------------

\* No thread of a process acts on a view from before a write of its process that
\* was forgotten before the thread asked, whatever loads were in flight across
\* the forget (_SharedReads.get, forget), but for the load astray.
THEOREM ViewsAreFresh == ViewSpec => []NoViewFromBeforeOwnWrite
<1> SUFFICES ViewSpec => []NoViewFromBeforeOwnWrite
  OBVIOUS
<1>1. ViewInit => ViewInv
  BY ViewInitial
<1>2. ViewInv /\ [ViewNext]_viewVars => ViewInv'
  <2>1. ViewInv /\ ViewNext => ViewInv'
    BY ViewStep
  <2>2. ViewInv /\ UNCHANGED viewVars => ViewInv'
    BY DEF ViewInv, viewVars, ViewTypeOK, ForgetFollowsWrite, CountedInThePast, LoadedIsFresh, Cleared, NoViewFromBeforeOwnWrite
  <2> QED BY <2>1, <2>2
<1>3. ViewInv => NoViewFromBeforeOwnWrite
  BY DEF ViewInv
<1> QED BY <1>1, <1>2, <1>3, PTL DEF ViewSpec

===============================================================================

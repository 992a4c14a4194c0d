----------------------------- MODULE TableDoors -----------------------------
(***************************************************************************)
(* One table's location and the requests that change which name resolves   *)
(* to it: the doors of catalog/api/v1/endpoints/tables.py (drop,           *)
(* deregister, rename, register, undrop), the destructive drop and the     *)
(* rename of catalog/services/dataplane.py, and the trash purge of         *)
(* maintenance/services/purge.py, over the location's claim                *)
(* (lakehouse_kit/location_claims.py, catalog/services/table_claims.py)    *)
(* and the trash (lakehouse_kit/trash.py).                                 *)
(*                                                                         *)
(* The backend's __manifest keeps no location exclusive: the claim does.   *)
(* An ETag is a hash of the body, so a claim is unchanged since a read     *)
(* when it equals what was read, though it was fenced and the fence lifted *)
(* in between. A request acts within the LEASE of the claim it wrote       *)
(* ("minutes so that a slow attach is never overtaken"), except that the   *)
(* deletion of a table's objects may outlast it. A token is the request.   *)
(***************************************************************************)
EXTENDS Naturals, FiniteSets

CONSTANTS
    Names,      \* table ids
    First,      \* the id the table is created under
    Requests,   \* the requests, and the uuids and tokens they mint
    Offers,     \* what the table's users ask for together, by request, and one of which faults happens
    MaxServed,  \* bound on the requests served
    LEASE,      \* location_claims.LEASE, in ticks of the store's clock
    MaxClock    \* bound on the clock

None   == "none"
Origin == "origin"   \* the uuid the table was created with

Door == {"drop", "destroy", "deregister", "rename", "register", "undrop", "purge", "create"}
Work == [door: Door, name: Names, to: Names]

\* A call that fails with no effect, one that takes effect and whose answer is
\* lost (of a claim's write, a deregister or a register), a process that dies.
Fault == {"failure", "claim lost", "deregister lost", "register lost", "crash"}

ASSUME DoorsAssumption ==
    /\ First \in Names /\ None \notin Names
    /\ {None, Origin} \cap Requests = {}
    /\ MaxServed \in Nat
    /\ \A o \in Offers : /\ DOMAIN o.asks \subseteq Requests /\ o.faults \subseteq Fault
                        /\ \A r \in DOMAIN o.asks : o.asks[r] \in Work
    /\ LEASE \in Nat \ {0} /\ MaxClock \in Nat

VARIABLES
    clock,    \* the store's clock
    row,      \* where __manifest says each name is: here, at another location, nowhere
    claim,    \* the location's claim
    trash,    \* the trash records kept for tables of this location, by uuid
    bytes,    \* the dataset at the location
    offer,    \* what each request asks for, and the fault to come
    request   \* how far each request is

vars == <<clock, row, claim, trash, bytes, offer, request>>

-----------------------------------------------------------------------------

Time  == 0 .. MaxClock
Uuids == Requests \cup {Origin}

Claim == [table: Names \cup {None}, uuid: Uuids \cup {None}, at: Time, token: Requests \cup {None},
          state: {"held", "released"}, fence: Requests \cup {None}, fencedAt: Time]

\* No record at the location's key.
NoClaim == [table |-> None, uuid |-> None, at |-> 0, token |-> None,
            state |-> "released", fence |-> None, fencedAt |-> 0]

Phase == {"idle", "reading", "fencing", "handing", "filing", "deregistering", "unfiling", "lifting",
          "deleting", "clearing", "releasing", "registering", "restoring", "taking", "writing",
          "judging", "detaching", "freeing", "rechecking", "ended", "dead"}

Locals == [pc: Phase, seen: Claim, want: Claim,
           uuid: Uuids \cup {None}, at: Time]

Idle == [pc |-> "idle", seen |-> NoClaim, want |-> NoClaim, uuid |-> None, at |-> 0]

TypeOK ==
    /\ clock \in Time
    /\ row \in [Names -> {"here", "elsewhere", "none"}]
    /\ claim \in Claim
    /\ trash \in [Uuids -> [state: {"none", "kept", "due", "residue"}, name: Names \cup {None}]]
    /\ bytes \in {"data", "gone"}
    /\ DOMAIN offer.asks \subseteq Requests /\ offer.faults \subseteq Fault
    /\ request \in [Requests -> Locals]

NoRecord == [state |-> "none", name |-> None]

Init ==
    /\ clock = 0
    /\ row = [n \in Names |-> IF n = First THEN "here" ELSE "none"]
    /\ claim = [NoClaim EXCEPT !.table = First, !.uuid = Origin, !.state = "held"]
    /\ trash = [u \in Uuids |-> NoRecord]
    /\ bytes = "data"
    /\ offer \in Offers
    /\ request = [r \in Requests |-> Idle]

rest == <<clock, offer>>

At(r, pc) == request[r].pc = pc
Is(r, door) == offer.asks[r].door = door
Name(r)   == offer.asks[r].name
To(r)     == offer.asks[r].to

Goes(r, locals) == request' = [request EXCEPT ![r] = locals]
GoesTo(r, pc)   == Goes(r, [request[r] EXCEPT !.pc = pc])
Ends(r)         == Goes(r, [Idle EXCEPT !.pc = "ended"])

\* The requests served so far.
Served == {r \in Requests : ~ At(r, "idle")}

\* A request begins.
Begins(r) ==
    /\ At(r, "idle") /\ Cardinality(Served) < MaxServed
    /\ UNCHANGED rest

Here == {n \in Names : row[n] = "here"}

-----------------------------------------------------------------------------
(* Claims: location_claims.py as table_claims.py calls it                  *)

Free(c)    == c.table = None \/ c.state = "released"
Recent(at) == clock - at < LEASE

\* Mutant of FencedAgainst: a fence stops nobody.
FencedAgainstNobody(c, token) == FALSE

\* LocationClaim.fenced_against
FencedAgainst(c, token) == c.state = "held" /\ c.fence \notin {None, token} /\ Recent(c.fencedAt)

\* kept_in_trash
KeptInTrash(c) == c.uuid # None /\ trash[c.uuid].state # "none"

\* Mutant of HolderIsGone: the trash is not asked.
HolderIsNotNamed(c) == row[c.table] # "here"

\* holder_is_gone
HolderIsGone(c) == ~ KeptInTrash(c) /\ row[c.table] # "here"

NewClaim(table, uuid, token) ==
    [table |-> table, uuid |-> uuid, at |-> clock, token |-> token,
     state |-> "held", fence |-> None, fencedAt |-> 0]

\* _taken: who may take the location ...
Takes(c, ask) ==
    \/ Free(c)
    \/ /\ ~ FencedAgainst(c, ask.token)
       /\ IF c.table = ask.table /\ ask.uuid # None THEN ~ KeptInTrash(c)
          ELSE \/ c.table = ask.table /\ ask.token \in {None, c.token}
               \/ c.table = ask.previous
               \/ ~ Recent(c.at) /\ HolderIsGone(c)

\* ... and the claim it then holds.
Taken(c, ask) ==
    IF Free(c) THEN NewClaim(ask.table, ask.uuid, ask.token)
    ELSE IF c.table = ask.table /\ ask.uuid = None /\ ask.token \in {None, c.token} THEN c
    ELSE NewClaim(ask.table, IF ask.uuid = None THEN c.uuid ELSE ask.uuid, ask.token)

\* What each door asks for: a registration is a new table, an undrop takes what
\* its drop kept, and a rename that failed takes back what it handed over.
Asks(r) ==
    [table |-> Name(r), token |-> None,
     previous |-> IF Is(r, "rename") THEN To(r) ELSE None,
     uuid |-> IF Is(r, "register") THEN r ELSE None]

\* hand_over asks for the destination, under the request's token.
HandsOver(r) == [table |-> To(r), token |-> r, previous |-> Name(r), uuid |-> None]

\* location_claims.fence: who may fence the claim of table n ...
Fences(c, n, r) ==
    /\ ~ FencedAgainst(c, r)
    /\ Free(c) \/ c.table = n \/ (~ Recent(c.at) /\ HolderIsGone(c))

\* ... and the claim it leaves.
Fenced(c, n, r) ==
    LET kept == IF ~ Free(c) /\ c.table = n THEN c
                ELSE NewClaim(n, IF Free(c) /\ c.table # n THEN None ELSE c.uuid, None)
    IN [kept EXCEPT !.fence = r, !.fencedAt = clock]

\* Mutant of Unchanged: the write asks for no ETag.
UnchangedOrNot(r) == TRUE

\* _write_over lands while the record is what the request read.
Unchanged(r) == claim = request[r].seen

\* lift_fence: only the request's own.
Lifted(r) == IF claim.fence = r THEN [claim EXCEPT !.fence = None, !.fencedAt = 0] ELSE claim

\* release: only while table n holds the location.
Released(n) == IF ~ Free(claim) /\ claim.table = n THEN [claim EXCEPT !.state = "released"] ELSE claim

-----------------------------------------------------------------------------
(* A door resolves its name once                                           *)

Starts(r) ==
    /\ Begins(r)
    /\ offer.asks[r].door \in {"drop", "destroy", "deregister", "rename"}
    /\ row[Name(r)] = "here"
    /\ GoesTo(r, "reading")
    /\ UNCHANGED <<row, claim, trash, bytes>>

\* resolve reads the claim at the location the name describes; the rename asks
\* whether its destination is free. Only a deregister takes a table no uuid
\* identifies.
ReadsClaim(r) ==
    /\ At(r, "reading")
    /\ IF \/ claim.uuid = None /\ ~ Is(r, "deregister")
          \/ Is(r, "rename") /\ row[To(r)] # "none"
       THEN Ends(r)
       ELSE Goes(r, [request[r] EXCEPT !.pc = IF Is(r, "rename") THEN "handing" ELSE "fencing",
                                       !.seen = claim, !.uuid = claim.uuid])
    /\ UNCHANGED <<rest, row, claim, trash, bytes>>

\* table_claims.fence, judged on the claim the resolution read.
FencesClaim(r) ==
    /\ At(r, "fencing")
    /\ IF Fences(request[r].seen, Name(r), r) /\ Unchanged(r)
       THEN /\ claim' = Fenced(request[r].seen, Name(r), r)
            /\ Goes(r, [request[r] EXCEPT !.seen = NoClaim, !.at = clock,
                            !.pc = IF Is(r, "deregister") THEN "deregistering" ELSE "filing"])
       ELSE Ends(r) /\ UNCHANGED claim
    /\ UNCHANGED <<rest, row, trash, bytes>>

\* table_claims.hand_over, the rename's take.
HandsClaimOver(r) ==
    /\ At(r, "handing")
    /\ IF Takes(request[r].seen, HandsOver(r)) /\ Unchanged(r)
       THEN /\ claim' = Taken(request[r].seen, HandsOver(r))
            /\ Goes(r, [request[r] EXCEPT !.seen = NoClaim, !.at = clock, !.pc = "deregistering"])
       ELSE Ends(r) /\ UNCHANGED claim
    /\ UNCHANGED <<rest, row, trash, bytes>>

-----------------------------------------------------------------------------
(* Drop, destroy, deregister                                               *)

\* A record first: the recoverable drop's, or the residue's while a destroy
\* deletes a dataset.
FilesRecord(r) ==
    /\ At(r, "filing")
    /\ IF Is(r, "destroy") /\ bytes = "gone"
       THEN Goes(r, [request[r] EXCEPT !.pc = "deregistering", !.uuid = None]) /\ UNCHANGED trash
       ELSE /\ trash' = [trash EXCEPT ![request[r].uuid] =
                            [state |-> IF Is(r, "drop") THEN "kept" ELSE "residue", name |-> Name(r)]]
            /\ GoesTo(r, "deregistering")
    /\ UNCHANGED <<rest, row, claim, bytes>>

\* The backend's DeregisterTable: by name, wherever the name is by now.
Deregisters(r) ==
    /\ At(r, "deregistering")
    /\ IF row[Name(r)] = "none"
       THEN /\ GoesTo(r, CASE Is(r, "destroy") -> "unfiling" [] Is(r, "rename") -> "taking" [] OTHER -> "lifting")
            /\ UNCHANGED row
       ELSE /\ row' = [row EXCEPT ![Name(r)] = "none"]
            /\ CASE Is(r, "drop") -> GoesTo(r, "lifting")
                 [] Is(r, "deregister") -> GoesTo(r, "releasing")
                 [] Is(r, "rename") -> GoesTo(r, "registering")
                 [] Is(r, "destroy") ->
                      \* A row of another location is not the one judged: the bytes are left.
                      IF row[Name(r)] = "here" THEN GoesTo(r, "deleting") ELSE Ends(r)
    /\ UNCHANGED <<rest, claim, trash, bytes>>

\* The trash without the request's record, if it has one.
RecordCleared(r) == [u \in Uuids |-> IF u = request[r].uuid THEN NoRecord ELSE trash[u]]

\* A destroy that removed no row clears its residue record ...
Unfiles(r) ==
    /\ At(r, "unfiling")
    /\ trash' = RecordCleared(r)
    /\ GoesTo(r, "lifting")
    /\ UNCHANGED <<rest, row, claim, bytes>>

\* ... and a door that removed none, or moved the table to the trash, lifts its
\* fence.
LiftsFence(r) ==
    /\ At(r, "lifting")
    /\ claim' = Lifted(r)
    /\ Ends(r)
    /\ UNCHANGED <<rest, row, trash, bytes>>

\* The objects go: the destroy's and the purge's deletes.
DeletesBytes(r) ==
    /\ At(r, "deleting")
    /\ bytes' = "gone"
    /\ GoesTo(r, IF Is(r, "destroy") THEN "clearing" ELSE "releasing")
    /\ UNCHANGED <<rest, row, claim, trash>>

\* A record whose table is gone, or stands again, is cleared: the destroy's
\* residue before its claim, the purge's record after.
ClearsRecord(r) ==
    /\ At(r, "clearing")
    /\ trash' = RecordCleared(r)
    /\ IF Is(r, "destroy") THEN GoesTo(r, "releasing") ELSE Ends(r)
    /\ UNCHANGED <<rest, row, claim, bytes>>

ReleasesClaim(r) ==
    /\ At(r, "releasing")
    /\ claim' = Released(Name(r))
    /\ IF Is(r, "purge") THEN GoesTo(r, "clearing") ELSE Ends(r)
    /\ UNCHANGED <<rest, row, trash, bytes>>

-----------------------------------------------------------------------------
(* Rename, register, undrop                                                *)

\* A registration attaches the row before anything is claimed or judged.
Attaches(r) ==
    /\ Begins(r)
    /\ Is(r, "register") /\ row[Name(r)] = "none"
    /\ row' = [row EXCEPT ![Name(r)] = "here"]
    /\ GoesTo(r, "taking")
    /\ UNCHANGED <<claim, trash, bytes>>

\* An undrop finds the record its caller names: one no residue and not past its
\* deadline, whose name no other table holds.
FindsRecord(r) ==
    /\ Begins(r)
    /\ Is(r, "undrop")
    /\ \E u \in Uuids :
        /\ trash[u] = [state |-> "kept", name |-> Name(r)]
        /\ row[Name(r)] = "none" \/ (row[Name(r)] = "here" /\ claim.uuid = u)
        /\ Goes(r, [Idle EXCEPT !.pc = "taking", !.uuid = u])
    /\ UNCHANGED <<row, claim, trash, bytes>>

\* What a door does once its take answered the claim c: an undrop whose claim
\* records another uuid stops, and a rename that failed is done.
Holding(r, c) ==
    CASE Is(r, "register") -> Goes(r, [request[r] EXCEPT !.pc = "judging", !.seen = NoClaim, !.want = NoClaim, !.at = clock])
      [] Is(r, "undrop") /\ c.uuid = request[r].uuid -> Goes(r, [request[r] EXCEPT !.pc = "registering", !.seen = NoClaim, !.want = NoClaim])
      [] OTHER -> Ends(r)

\* A round of take reads and judges the claim ...
JudgesClaim(r) ==
    /\ At(r, "taking")
    /\ IF ~ Takes(claim, Asks(r))
       THEN IF Is(r, "register") THEN GoesTo(r, "detaching") ELSE Ends(r)
       ELSE IF Taken(claim, Asks(r)) = claim THEN Holding(r, claim)
       ELSE Goes(r, [request[r] EXCEPT !.pc = "writing", !.seen = claim, !.want = Taken(claim, Asks(r))])
    /\ UNCHANGED <<rest, row, claim, trash, bytes>>

\* ... and writes the claim it wants over the one it read, or takes another.
WritesClaim(r) ==
    /\ At(r, "writing")
    /\ IF Unchanged(r)
       THEN claim' = request[r].want /\ Holding(r, request[r].want)
       ELSE /\ Goes(r, [request[r] EXCEPT !.pc = "taking", !.seen = NoClaim, !.want = NoClaim])
            /\ UNCHANGED claim
    /\ UNCHANGED <<rest, row, trash, bytes>>

\* The backend's RegisterTable, refusing a name that is taken: the rename's
\* destination or the undrop's name. An undrop takes a taken name for its own
\* recovery; a rename whose destination came to this location is another's.
RegistersName(r) ==
    /\ At(r, "registering")
    /\ LET n == IF Is(r, "rename") THEN To(r) ELSE Name(r) IN
       /\ row' = IF row[n] = "none" THEN [row EXCEPT ![n] = "here"] ELSE row
       /\ CASE Is(r, "undrop") -> GoesTo(r, "clearing")
            [] Is(r, "rename") /\ row[n] = "elsewhere" -> GoesTo(r, "restoring")
            [] OTHER -> Ends(r)
    /\ UNCHANGED <<rest, claim, trash, bytes>>

\* A rename that could not register its destination puts its source back, and
\* takes the claim back if it could.
Restores(r) ==
    /\ At(r, "restoring")
    /\ IF row[Name(r)] = "none"
       THEN row' = [row EXCEPT ![Name(r)] = "here"] /\ GoesTo(r, "taking")
       ELSE Ends(r) /\ UNCHANGED row
    /\ UNCHANGED <<rest, claim, trash, bytes>>

\* require_exclusive_location: no other row at the location.
Exclusive == Cardinality(Here) <= 1

\* judge_registered_table, and the seed after it: admitted, or refused for its
\* location, for its dataset or because the seed failed.
JudgesTable(r) ==
    /\ At(r, "judging")
    /\ \/ Exclusive /\ Ends(r)
       \/ GoesTo(r, "detaching")
    /\ UNCHANGED <<rest, row, claim, trash, bytes>>

\* _detach: the row goes, if it is there ...
Detaches(r) ==
    /\ At(r, "detaching")
    /\ row' = [row EXCEPT ![Name(r)] = "none"]
    /\ IF row[Name(r)] = "none" THEN Ends(r) ELSE GoesTo(r, "freeing")
    /\ UNCHANGED <<rest, claim, trash, bytes>>

\* ... and then the claim of the registered name.
FreesClaim(r) ==
    /\ At(r, "freeing")
    /\ claim' = Released(Name(r))
    /\ Ends(r)
    /\ UNCHANGED <<rest, row, trash, bytes>>

-----------------------------------------------------------------------------
(* The purge of the trash                                                  *)

Due(u) == trash[u].state \in {"due", "residue"}

\* check: no live table resolves to the location.
Unregistered == Here = {}

\* purge_expired_trash judges the records on one snapshot ...
Lists(r) ==
    /\ Begins(r)
    /\ Is(r, "purge") /\ Unregistered
    /\ \E u \in Uuids :
        /\ trash[u].name = Name(r) /\ Due(u)
        /\ Goes(r, [Idle EXCEPT !.pc = "rechecking", !.uuid = u])
    /\ UNCHANGED <<row, claim, trash, bytes>>

\* ... and asks again before it deletes.
Rechecks(r) ==
    /\ At(r, "rechecking")
    /\ IF Unregistered THEN GoesTo(r, "deleting") ELSE Ends(r)
    /\ UNCHANGED <<rest, row, claim, trash, bytes>>

-----------------------------------------------------------------------------
(* Failures, other tables, time                                            *)

\* Where a door goes when the call it makes next fails with no effect.
OnFailure(r) ==
    LET pc == request[r].pc IN
    CASE pc = "filing" -> "lifting"
      [] pc = "deregistering" ->
           \* A destroy goes on when its name is not described any more.
           (CASE Is(r, "destroy") -> IF row[Name(r)] = "none" THEN "deleting" ELSE "unfiling"
              [] Is(r, "rename") -> "taking" [] OTHER -> "lifting")
      [] pc = "unfiling" -> "lifting"
      [] pc = "clearing" /\ Is(r, "destroy") -> "releasing"
      [] pc = "registering" /\ Is(r, "rename") -> "restoring"
      [] pc \in {"taking", "writing", "judging"} /\ Is(r, "register") -> "detaching"
      \* PartiallyApplied: the refused table stays attached.
      [] pc = "detaching" -> "dead"
      [] OTHER -> "ended"

Meets(fault) == fault \in offer.faults /\ offer' = [offer EXCEPT !.faults = {}] /\ UNCHANGED clock

Active(r) == request[r].pc \notin {"idle", "ended", "dead"}

Fails(r) ==
    /\ Meets("failure")
    /\ Active(r)
    /\ IF OnFailure(r) = "ended" THEN Ends(r)
       ELSE Goes(r, [request[r] EXCEPT !.pc = OnFailure(r), !.seen = NoClaim, !.want = NoClaim])
    /\ UNCHANGED <<row, claim, trash, bytes>>

\* The deregister's answer is lost: the door takes it for failed, except that a
\* destroy asks whether its name is described and goes on (that this second
\* call fails too is beyond the one fault of an offer).
DeregisterAnswerLost(r) ==
    /\ Meets("deregister lost")
    /\ At(r, "deregistering") /\ row[Name(r)] # "none"
    /\ row' = [row EXCEPT ![Name(r)] = "none"]
    /\ GoesTo(r, IF Is(r, "destroy") THEN "deleting" ELSE OnFailure(r))
    /\ UNCHANGED <<claim, trash, bytes>>

\* The registration's answer is lost: an undrop fails, its record on a live
\* table; a rename puts its source back.
RegisterAnswerLost(r) ==
    /\ Meets("register lost")
    /\ At(r, "registering")
    /\ LET n == IF Is(r, "rename") THEN To(r) ELSE Name(r) IN
       row[n] = "none" /\ row' = [row EXCEPT ![n] = "here"]
    /\ IF Is(r, "rename") THEN GoesTo(r, "restoring") ELSE Ends(r)
    /\ UNCHANGED <<claim, trash, bytes>>

\* The fence or the hand-over lands and its answer is lost: the store's refusal
\* of the client's retry reads as a claim that changed.
ClaimAnswerLost(r) ==
    /\ Meets("claim lost")
    /\ \/ /\ At(r, "fencing") /\ Fences(request[r].seen, Name(r), r) /\ Unchanged(r)
          /\ claim' = Fenced(request[r].seen, Name(r), r)
       \/ /\ At(r, "handing") /\ Takes(request[r].seen, HandsOver(r)) /\ Unchanged(r)
          /\ claim' = Taken(request[r].seen, HandsOver(r))
    /\ Ends(r)
    /\ UNCHANGED <<row, trash, bytes>>

Dies(r) ==
    /\ Meets("crash")
    /\ Active(r)
    /\ Goes(r, [request[r] EXCEPT !.pc = "dead", !.seen = NoClaim, !.want = NoClaim])
    /\ UNCHANGED <<row, claim, trash, bytes>>

\* Another table comes to be under a name nobody holds, at a location of its own.
Creates(r) ==
    /\ Begins(r)
    /\ Is(r, "create") /\ row[Name(r)] = "none"
    /\ row' = [row EXCEPT ![Name(r)] = "elsewhere"]
    /\ Ends(r)
    /\ UNCHANGED <<claim, trash, bytes>>

\* A record's grace period ends: undrop refuses it and the purge may take it.
Expires ==
    /\ \E u \in Uuids :
        trash[u].state = "kept" /\ trash' = [trash EXCEPT ![u].state = "due"]
    /\ UNCHANGED <<rest, row, claim, bytes, request>>

\* The steps a door takes under the claim it wrote, within its lease.
Acting(r) ==
    \/ request[r].pc \in {"filing", "deregistering", "unfiling", "lifting", "judging"}
    \/ Is(r, "rename") /\ request[r].pc \in {"registering", "restoring", "taking", "writing"}
    \/ Is(r, "deregister") /\ At(r, "releasing")

Tick ==
    /\ clock < MaxClock
    /\ \A r \in Served : Acting(r) => clock + 1 - request[r].at < LEASE
    /\ clock' = clock + 1
    /\ UNCHANGED <<row, claim, trash, bytes, offer, request>>

Serves(r) ==
    \/ Starts(r) \/ ReadsClaim(r) \/ FencesClaim(r) \/ HandsClaimOver(r)
    \/ FilesRecord(r) \/ Deregisters(r) \/ Unfiles(r) \/ LiftsFence(r)
    \/ DeletesBytes(r) \/ ClearsRecord(r) \/ ReleasesClaim(r)
    \/ Attaches(r) \/ FindsRecord(r) \/ JudgesClaim(r) \/ WritesClaim(r) \/ RegistersName(r)
    \/ Restores(r) \/ JudgesTable(r) \/ Detaches(r) \/ FreesClaim(r)
    \/ Lists(r) \/ Rechecks(r)

\* The requests that can move.
Alive == {r \in DOMAIN offer.asks : request[r].pc \notin {"ended", "dead"}}

Next ==
    \/ \E r \in Alive :
        Serves(r) \/ Fails(r) \/ DeregisterAnswerLost(r) \/ RegisterAnswerLost(r) \/ ClaimAnswerLost(r) \/ Dies(r) \/ Creates(r)
    \/ Expires \/ Tick

Spec == Init /\ [][Next]_vars

-----------------------------------------------------------------------------
(* Properties                                                              *)

\* The names a registration attached and has not been admitted under.
Unjudged == {Name(r) : r \in {q \in Served : Is(q, "register") /\ request[q].pc # "ended"}}

\* "a rename never shows two ids on the dataset": apart from a registration
\* still to be judged, one name resolves to the location, however renames,
\* undrops and their compensations interleave.
OneNamePerLocation == Cardinality(Here \ Unjudged) <= 1

\* The names an undrop brings back while a purge that asked before it deletes
\* ("what an undrop must win" is then one call of the purge).
Regained ==
    {Name(r) : r \in {q \in Served : /\ Is(q, "undrop")
                                     /\ \E p \in Served : Is(p, "purge") /\ At(p, "deleting")}}

\* "a destructive drop of either deletes the bytes the other still resolves to"
\* is what the claims prevent, and a rename hands a table's uuid to its new name,
\* so that "nothing granted to an earlier table at the location reaches this
\* one": bytes and uuid go only when no admitted name resolves there (but for
\* the window of the purge, which holds no claim).
NamedTablesLast ==
    [][/\ bytes' # bytes => Here \subseteq Unjudged \cup Regained
       /\ claim'.uuid # claim.uuid => Here \subseteq Unjudged]_vars

\* "The trashed id keeps its location's claim until undrop or purge, so no
\* other id registers over bytes someone can still restore": until its grace
\* period ends, a dropped table has its bytes and its claim.
TrashedStaysRecoverable ==
    \A u \in Uuids : trash[u].state = "kept" =>
        bytes = "data" /\ claim.state = "held" /\ claim.uuid = u

\* "a rename landing between the door's read and its act cannot make the door
\* act on another table": no door on this location ends another's row.
DoorsEndTheirOwnTable ==
    [][\A n \in Names : row[n] = "elsewhere" => row'[n] = "elsewhere"]_vars
=============================================================================

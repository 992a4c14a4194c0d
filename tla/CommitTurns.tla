---------------------------- MODULE CommitTurns ----------------------------
(***************************************************************************)
(* The commit turns of ONE table: TableTurns of                            *)
(* lakehouse_kit/commit_turns.py, with the commits that wait for a turn,   *)
(* take one and are handed one: the doors' commit_stamped                  *)
(* (services/dataplane.py) and the stock writers' version/create           *)
(* (api/v1/endpoints/versions.py, DoorTable of services/table_claims.py).  *)
(*                                                                         *)
(* Time is relative: a turn, a deadline and a hold judged on an earlier    *)
(* read count down together with every tick of the one clock, so the model *)
(* is finite though its commits go on for ever. A tick outlives the shared *)
(* view of a process (module SharedReads has the threads behind it).       *)
(* Versions are told apart only by whether a plan is still on the latest.  *)
(***************************************************************************)
EXTENDS Integers, FiniteSets

CONSTANTS
    DoorCommits, \* door commits
    Writers,     \* stock writers
    Processes,   \* catalog replicas
    Refs,        \* refs of the table
    RefOf,       \* the ref each commits on
    ServedBy,    \* the process that serves each
    Nonces,      \* what tells one commit's turns apart: uuid4, a transaction's uuid
    HOLD,        \* HOLD, in ticks
    ROUNDS,      \* _ATTEMPTS: rounds of a take or a release
    PLANS,       \* _STAMPED_COMMIT_ATTEMPTS
    SEATS        \* THREAD_WAITERS

\* Whoever takes a turn.
Takers == DoorCommits \cup Writers

ASSUME TurnAssumption ==
    /\ DoorCommits \cap Writers = {}
    /\ RefOf \in [Takers -> Refs]
    /\ ServedBy \in [Takers -> Processes]
    /\ HOLD \in Nat \ {0} /\ ROUNDS \in Nat \ {0} /\ PLANS \in Nat \ {0} /\ SEATS \in Nat
    /\ Nonces # {}

VARIABLES
    record,     \* the table's turn record: whether the store holds one, and its turns
    view,       \* each process's shared read of it
    seats,      \* how many threads of each process sleep waiting
    commit,     \* how far each commit is
    recent,     \* the turns written since the last tick
    abandoned   \* the turns nobody is left to release: they lapse

turnVars == <<record, view, seats, commit, recent, abandoned>>

-----------------------------------------------------------------------------

Token == Takers \X Nonces
TurnTime == 0 .. HOLD
Turn == [token: Token, ref: Refs, left: TurnTime]
Record == [kept: {"absent", "stored"}, turns: SUBSET Turn]
Absent == [kept |-> "absent", turns |-> {}]

Waiting   == {"waiting", "takeWaits"}
Taking    == {"takeWaits", "takeReads", "takeWrites"}
Releasing == {"releaseReads", "releaseWrites"}
CommitPhase == {"idle", "staged", "waiting", "keeps", "finalizing"} \cup Taking \cup Releasing

\* `has` is the turn a door holds (commit_stamped's `turn`) or a stock writer
\* was found to hold (`kept`); `txn` whether a stock writer's transaction is
\* new or a retry of one that lost; `left` the deadline of the wait or the
\* take, `hold` what is left of a hold judged on `seen`.
CommitLocals ==
    [pc: CommitPhase, nonce: Nonces, has: {"no", "yes"}, txn: {"new", "again"},
     plan: {"latest", "behind"}, attempt: 1 .. PLANS, rounds: 0 .. ROUNDS,
     left: TurnTime, hold: TurnTime, seated: {"no", "yes"}, seen: Record]

AnyNonce == CHOOSE k \in Nonces : TRUE
Fresh == [pc |-> "idle", nonce |-> AnyNonce, has |-> "no", txn |-> "new", plan |-> "latest",
          attempt |-> 1, rounds |-> 0, left |-> 0, hold |-> 0, seated |-> "no", seen |-> Absent]

\* At rest: only a transaction to be tried again is remembered.
Rest(k, txn) == [Fresh EXCEPT !.nonce = IF txn = "again" THEN k ELSE @, !.txn = txn]

TurnTypeOK ==
    /\ record \in Record
    /\ view \in [Processes -> [kept: {"none", "kept"}, turns: SUBSET Turn]]
    /\ seats \in [Processes -> 0 .. SEATS]
    /\ commit \in [Takers -> CommitLocals]
    /\ recent \in SUBSET Token
    /\ abandoned \in SUBSET Token

NoView == [kept |-> "none", turns |-> {}]

TurnsInit ==
    /\ record = Absent
    /\ view = [p \in Processes |-> NoView]
    /\ seats = [p \in Processes |-> 0]
    /\ commit = [c \in Takers |-> Fresh]
    /\ recent = {} /\ abandoned = {}

-----------------------------------------------------------------------------
(* Reading the record                                                      *)

CommitAt(c, pc)  == commit[c].pc = pc
TokenOf(c) == <<c, commit[c].nonce>>

\* _kept: the turns that have not lapsed.
Live(turns) == {t \in turns : t.left > 0}

OnRef(turns, c) == {t \in turns : t.ref = RefOf[c]}

\* The commit goes by this token's turn as its own: a stock writer by its
\* transaction's, a door by the one it holds or is taking.
Owns(c, token) ==
    /\ token = TokenOf(c)
    /\ c \in Writers \/ commit[c].has = "yes" \/ commit[c].pc \in Taking

\* _holds: a turn on the ref that is not this commit's own. A stock writer
\* waiting to finalize (`handed=False`) races one handed to another.
Minds(c, t) ==
    /\ t.ref = RefOf[c]
    /\ ~ Owns(c, t.token)
    /\ c \in DoorCommits \/ t.token[1] \in DoorCommits

\* What a poll may answer: the process's view, or a load that becomes it.
PollAnswers(c) ==
    LET p == ServedBy[c] IN
    {[kept |-> "kept", turns |-> Live(record.turns)]}
        \cup {v \in {view[p]} : v.kept = "kept"}

Sees(c, answer) == view' = [view EXCEPT ![ServedBy[c]] = answer]
Forgets(c)      == Sees(c, NoView)

\* Nothing the model still compares carries the token.
Unused(c, k) ==
    LET all == UNION {record.turns, UNION {view[p].turns : p \in Processes},
                      UNION {commit[d].seen.turns : d \in Takers}}
    IN <<c, k>> \notin {t.token : t \in all}

-----------------------------------------------------------------------------
(* Where a commit goes next. Each gives its locals.                        *)

\* A wait or a take begins; a take whose deadline has passed reads at once.
Deadline(l, pc) == [l EXCEPT !.pc = pc, !.left = HOLD, !.seated = "no"]

\* The commit is over: it releases the turn it holds, or rests.
CommitEnds(l, txn) ==
    IF l.has = "yes"
    THEN [Fresh EXCEPT !.pc = "releaseReads", !.nonce = l.nonce, !.has = "yes", !.txn = txn,
                       !.rounds = 1]
    ELSE Rest(l.nonce, txn)

\* The door plans its next attempt on the latest version.
Replans(l) ==
    [Fresh EXCEPT !.pc = "staged", !.nonce = IF l.has = "yes" THEN l.nonce ELSE @, !.has = l.has,
                  !.attempt = l.attempt + 1]

\* CommitTurnBusyError: a door plans again without a turn; hand_turn answers
\* False, and version/create releases the turn its writer kept.
Busy(c) == IF c \in DoorCommits THEN Replans(commit[c]) ELSE CommitEnds(commit[c], "again")

\* The turn is the commit's: a door plans its remaining attempts under it,
\* and a stock writer's request ends in 409 with its next turn handed.
TurnTaken(c) == IF c \in DoorCommits THEN Replans([commit[c] EXCEPT !.has = "yes"])
            ELSE Rest(commit[c].nonce, "again")

\* Another round of the take. A hand's deadline is now, so it never waits.
NextRound(c) ==
    IF commit[c].rounds = ROUNDS THEN Busy(c)
    ELSE [commit[c] EXCEPT !.pc = IF commit[c].left = 0 THEN "takeReads" ELSE "takeWaits",
                           !.rounds = @ + 1, !.hold = 0, !.seen = Absent]

CommitGoes(c, locals) == commit' = [commit EXCEPT ![c] = locals]

\* Of these turns, nobody is left to release the ones the record still lists.
Abandons(tokens) == abandoned' = tokens \cap {t.token : t \in record'.turns}

\* The seat a sleeping thread gives back.
SeatBack(c) ==
    seats' = IF commit[c].seated = "yes" THEN [seats EXCEPT ![ServedBy[c]] = @ - 1] ELSE seats

-----------------------------------------------------------------------------
(* The commits                                                             *)

\* A commit is planned (a door) or staged (a stock writer's client) on the
\* latest version, a retried transaction under its own uuid. A client may
\* give a transaction up, and leaves its turn to lapse.
Stages(c) ==
    /\ CommitAt(c, "idle")
    /\ UNCHANGED <<record, view, seats, recent>>
    /\ \/ /\ c \in Writers /\ commit[c].txn = "again"
          /\ CommitGoes(c, [commit[c] EXCEPT !.pc = "staged"])
          /\ UNCHANGED abandoned
       \/ /\ c \in Writers
          /\ \E k \in Nonces : Unused(c, k) /\ CommitGoes(c, [Fresh EXCEPT !.pc = "staged", !.nonce = k])
          /\ Abandons(abandoned \cup {TokenOf(c)})
       \/ /\ c \in DoorCommits
          /\ CommitGoes(c, [Fresh EXCEPT !.pc = "staged"])
          /\ UNCHANGED abandoned

\* It asks to finalize: every finalize waits out a turn first.
AsksToFinalize(c) ==
    /\ CommitAt(c, "staged")
    /\ CommitGoes(c, Deadline(commit[c], "waiting"))
    /\ UNCHANGED <<record, view, seats, recent, abandoned>>

\* Mutant of Outlasted: a waiter waits for as long as turns follow each other.
OutlastedNever(c) == commit[c].left > HOLD

\* The wait has reached its deadline.
Outlasted(c) == commit[c].left = 0

\* One poll of a wait: the thread passes once no turn it minds is held, or at
\* its deadline; else it sleeps on in its seat.
Polls(c) ==
    /\ commit[c].pc \in Waiting
    /\ \E answer \in PollAnswers(c) :
        /\ Sees(c, answer)
        /\ LET held == \E t \in answer.turns : Minds(c, t)
               next == CASE CommitAt(c, "takeWaits") -> "takeReads"
                         [] CommitAt(c, "waiting") /\ c \in DoorCommits -> "finalizing"
                         [] OTHER -> "keeps"
           IN
           \/ /\ ~ held \/ Outlasted(c)
              /\ CommitGoes(c, [commit[c] EXCEPT !.pc = next, !.seated = "no",
                                         !.left = IF next = "takeReads" THEN @ ELSE 0])
              /\ SeatBack(c)
           \/ /\ held /\ ~ Outlasted(c)
              /\ c \in Writers \/ commit[c].seated = "yes"
              /\ UNCHANGED <<commit, seats>>
           \/ /\ held /\ ~ Outlasted(c)
              /\ c \in DoorCommits /\ commit[c].seated = "no" /\ seats[ServedBy[c]] < SEATS
              /\ CommitGoes(c, [commit[c] EXCEPT !.seated = "yes"])
              /\ seats' = [seats EXCEPT ![ServedBy[c]] = @ + 1]
    /\ UNCHANGED <<record, recent, abandoned>>

\* Every seat is taken: TurnWaitRefusedError ends the commit, and a take goes
\* on without its turn.
IsRefusedASeat(c) ==
    /\ commit[c].pc \in Waiting /\ c \in DoorCommits
    /\ commit[c].seated = "no" /\ ~ Outlasted(c)
    /\ seats[ServedBy[c]] = SEATS
    /\ \E answer \in PollAnswers(c) :
        /\ Sees(c, answer)
        /\ \E t \in answer.turns : Minds(c, t)
    /\ CommitGoes(c, IF CommitAt(c, "waiting") THEN CommitEnds(commit[c], "new") ELSE Busy(c))
    /\ UNCHANGED <<record, seats, recent, abandoned>>

\* wait_in_loop's last read, from the store: does the record keep its turn?
AsksWhetherKept(w) ==
    /\ CommitAt(w, "keeps")
    /\ LET kept == \E t \in Live(record.turns) : t.token = TokenOf(w) IN
       CommitGoes(w, [commit[w] EXCEPT !.pc = "finalizing", !.has = IF kept THEN "yes" ELSE "no"])
    /\ UNCHANGED <<record, view, seats, recent, abandoned>>

\* The other plans on a ref, after a commit landed there.
Outdated(ref, c) ==
    IF RefOf[c] = ref /\ commit[c].pc \in {"staged", "waiting", "keeps", "finalizing"}
    THEN [commit[c] EXCEPT !.plan = "behind"] ELSE commit[c]

\* The finalize lands: every other plan on the ref is behind.
FinalizeLands(c) ==
    /\ CommitAt(c, "finalizing") /\ commit[c].plan = "latest"
    /\ commit' = [d \in Takers |->
           IF d = c THEN CommitEnds(commit[c], "new") ELSE Outdated(RefOf[c], d)]
    /\ UNCHANGED <<record, view, seats, recent, abandoned>>

\* Another writer of the ref lands, one already past its wait.
AnotherLands(ref) ==
    /\ commit' = [c \in Takers |-> Outdated(ref, c)]
    /\ UNCHANGED <<record, view, seats, recent, abandoned>>

\* The finalize lost its race (or, before it, Lance refused the stale plan and
\* version/create the taken version). A door holding a turn plans again under
\* it, and one without takes its ref's; the last attempt ends in 409. A stock
\* writer is handed the ref's next turn, which waits for none.
Loses(c) ==
    /\ CommitAt(c, "finalizing") \/ CommitAt(c, "staged")
    /\ commit[c].plan = "behind"
    /\ CASE c \in Writers ->
              CommitGoes(c, [commit[c] EXCEPT !.pc = "takeReads", !.txn = "again",
                                               !.plan = "latest", !.rounds = 1])
         [] c \in DoorCommits /\ commit[c].attempt = PLANS -> CommitGoes(c, CommitEnds(commit[c], "new"))
         [] c \in DoorCommits /\ commit[c].attempt < PLANS /\ commit[c].has = "yes" ->
              CommitGoes(c, Replans(commit[c]))
         [] OTHER -> \E k \in Nonces :
              /\ Unused(c, k)
              /\ CommitGoes(c, [Deadline(commit[c], "takeWaits") EXCEPT !.nonce = k,
                                               !.plan = "latest", !.rounds = 1])
    /\ UNCHANGED <<record, view, seats, recent, abandoned>>

-----------------------------------------------------------------------------
(* _take and release                                                       *)

\* Mutant of TakeReads: the record is not judged again after the wait.
TakeReadsTrusting(c) ==
    /\ CommitAt(c, "takeReads")
    /\ CommitGoes(c, [commit[c] EXCEPT !.pc = "takeWrites", !.hold = HOLD, !.seen = record])
    /\ UNCHANGED <<record, view, seats, recent, abandoned>>

\* The round's read from the store: the turn is ours already (a write whose
\* answer was lost), or another's, or free.
TakeReads(c) ==
    LET live == OnRef(Live(record.turns), c)
        mine == {t \in live : t.token = TokenOf(c)}
    IN
    /\ CommitAt(c, "takeReads")
    /\ UNCHANGED <<record, seats, recent>>
    /\ IF mine # {}
       THEN CommitGoes(c, TurnTaken(c)) /\ Abandons(abandoned \ {TokenOf(c)}) /\ UNCHANGED view
       ELSE IF live = {}
       THEN /\ CommitGoes(c, [commit[c] EXCEPT !.pc = "takeWrites", !.hold = HOLD, !.seen = record])
            /\ UNCHANGED <<abandoned, view>>
       ELSE IF commit[c].left = 0
       THEN CommitGoes(c, Busy(c)) /\ UNCHANGED <<abandoned, view>>
       ELSE CommitGoes(c, NextRound(c)) /\ Forgets(c) /\ UNCHANGED abandoned

Writes(c, turns) == record' = [kept |-> "stored", turns |-> turns]

\* The turns a take writes: the ones it read, and its own.
TakenTurns(c) ==
    Live(commit[c].seen.turns)
        \cup {[token |-> TokenOf(c), ref |-> RefOf[c], left |-> commit[c].hold]}

\* The conditional write lands, and the process forgets its view ...
TakeWrites(c) ==
    /\ CommitAt(c, "takeWrites") /\ record = commit[c].seen
    /\ Writes(c, TakenTurns(c))
    /\ Forgets(c)
    /\ CommitGoes(c, TurnTaken(c))
    /\ recent' = recent \cup {TokenOf(c)}
    /\ Abandons(abandoned \ {TokenOf(c)})
    /\ UNCHANGED seats

\* ... or lands with its answer lost, which the client's retry reads as a
\* lost race, and the view is not forgotten ...
TakeAnswerLost(c) ==
    /\ CommitAt(c, "takeWrites") /\ record = commit[c].seen
    /\ Writes(c, TakenTurns(c))
    /\ CommitGoes(c, NextRound(c))
    /\ recent' = recent \cup {TokenOf(c)}
    /\ Abandons(abandoned \cup {TokenOf(c)})
    /\ UNCHANGED <<view, seats>>

\* ... or loses to another writer of the record.
TakeLoses(c) ==
    /\ CommitAt(c, "takeWrites") /\ record # commit[c].seen
    /\ CommitGoes(c, NextRound(c))
    /\ UNCHANGED <<record, view, seats, recent, abandoned>>

ReleaseReads(c) ==
    /\ CommitAt(c, "releaseReads")
    /\ CommitGoes(c, IF \E t \in Live(record.turns) : t.token = TokenOf(c)
               THEN [commit[c] EXCEPT !.pc = "releaseWrites", !.seen = record]
               ELSE Rest(commit[c].nonce, commit[c].txn))
    /\ UNCHANGED <<record, view, seats, recent, abandoned>>

KeptTurns(c) == {t \in Live(commit[c].seen.turns) : t.token # TokenOf(c)}

ReleaseWrites(c) ==
    /\ CommitAt(c, "releaseWrites") /\ record = commit[c].seen
    /\ Writes(c, KeptTurns(c))
    /\ Forgets(c)
    /\ CommitGoes(c, Rest(commit[c].nonce, commit[c].txn))
    /\ recent' = recent \ {TokenOf(c)}
    /\ Abandons(abandoned)
    /\ UNCHANGED seats

\* The write lost to another writer, and another round reads again until the
\* rounds run out; or the store failed. Then the turn is left to lapse.
ReleaseLoses(c) ==
    /\ CommitAt(c, "releaseWrites")
    /\ UNCHANGED <<record, view, seats, recent>>
    /\ \/ /\ record # commit[c].seen /\ commit[c].rounds < ROUNDS
          /\ CommitGoes(c, [commit[c] EXCEPT !.pc = "releaseReads", !.rounds = @ + 1, !.seen = Absent])
          /\ UNCHANGED abandoned
       \/ /\ CommitGoes(c, Rest(commit[c].nonce, commit[c].txn))
          /\ Abandons(abandoned \cup {TokenOf(c)})

\* The store refuses a read or a write, the table changed, the request is
\* cancelled: a door's commit raises, and so does a stock writer's, which
\* releases the turn it kept only if it reached its finalize. A failed hand
\* is a turn not handed.
CommitFails(c) ==
    /\ commit[c].pc \in {"waiting", "keeps", "finalizing"} \cup Taking
    /\ CommitGoes(c, CommitEnds(commit[c], IF c \in Writers THEN "again" ELSE "new"))
    /\ SeatBack(c)
    /\ UNCHANGED <<record, view, recent>>
    /\ Abandons(IF commit[c].pc \in Taking /\ c \in DoorCommits
                THEN abandoned \cup {TokenOf(c)} ELSE abandoned)

-----------------------------------------------------------------------------

\* A process dies and starts again: its requests and its view are gone, and
\* the turns its doors held are left to lapse.
Restarts(p) ==
    LET gone == {c \in Takers : ServedBy[c] = p /\ ~ CommitAt(c, "idle")} IN
    /\ gone # {}
    /\ commit' = [c \in Takers |-> IF c \in gone
           THEN IF c \in Writers THEN Rest(commit[c].nonce, "again") ELSE Fresh
           ELSE commit[c]]
    /\ seats' = [seats EXCEPT ![p] = 0]
    /\ view' = [view EXCEPT ![p] = NoView]
    /\ UNCHANGED <<record, recent>>
    /\ Abandons(abandoned \cup {TokenOf(c) : c \in gone \cap DoorCommits})

Elapse(n) == IF n > 0 THEN n - 1 ELSE 0

Aged(turns) == {[t EXCEPT !.left = Elapse(@)] : t \in turns}

\* Mutant of TimePasses: a shared view never grows too old.
TimePassesKeepingViews ==
    /\ record' = [record EXCEPT !.turns = Aged(@)]
    /\ commit' = [c \in Takers |->
           [commit[c] EXCEPT !.left = Elapse(@), !.hold = Elapse(@), !.seen.turns = Aged(@)]]
    /\ recent' = {}
    /\ UNCHANGED <<view, seats, abandoned>>

\* Time passes. A shared view is too old by then.
TimePasses ==
    /\ record' = [record EXCEPT !.turns = Aged(@)]
    /\ view' = [p \in Processes |-> NoView]
    /\ commit' = [c \in Takers |->
           [commit[c] EXCEPT !.left = Elapse(@), !.hold = Elapse(@), !.seen.turns = Aged(@)]]
    /\ recent' = {}
    /\ UNCHANGED <<seats, abandoned>>

Take(c)    == TakeReads(c) \/ TakeWrites(c) \/ TakeAnswerLost(c) \/ TakeLoses(c)
Release(c) == ReleaseReads(c) \/ ReleaseWrites(c) \/ ReleaseLoses(c)

\* What a commit does of itself, once it has begun.
Step(c) ==
    \/ AsksToFinalize(c) \/ Polls(c) \/ IsRefusedASeat(c) \/ AsksWhetherKept(c)
    \/ FinalizeLands(c) \/ Loses(c) \/ Take(c) \/ Release(c)

TurnsNext ==
    \/ \E c \in Takers : Stages(c) \/ Step(c) \/ CommitFails(c)
    \/ \E ref \in Refs : AnotherLands(ref)
    \/ \E p \in Processes : Restarts(p)
    \/ TimePasses

TurnsSpec == TurnsInit /\ [][TurnsNext]_turnVars

\* A running thread is scheduled, and time passes.
TurnsFairness == WF_turnVars(TimePasses) /\ \A c \in Takers : WF_turnVars(Step(c))

-----------------------------------------------------------------------------
(* Properties                                                              *)

\* CommitTurns: "at most one live per ref", however reads are stale, writes
\* lost or answered late.
OneLiveTurnPerRef ==
    \A s, t \in Live(record.turns) : s.ref = t.ref => s = t

\* "so the holder meets only the writers already past their wait": a writer
\* goes on to its finalize (or its own take) beside a live turn it minds only
\* at its deadline, or in the tick the turn was taken, on a view from before.
TurnHoldsOthersBack ==
    [][\A c \in Takers :
           /\ commit[c].pc \in Waiting /\ commit[c].left > 0
           /\ commit'[c].pc \in {"finalizing", "keeps", "takeReads"}
           => \A t \in Live(record.turns) : Minds(c, t) => t.token \in recent]_turnVars

\* A turn outlives its commit only by lapsing where nobody is left to end it:
\* a release that failed, a take whose answer was lost, a dead process, a
\* transaction given up. A stock writer that landed holds none.
EndedCommitsHoldNoTurn ==
    \A t \in Live(record.turns) :
        \/ t.token \in abandoned
        \/ LET l == commit[t.token[1]] IN
           /\ t.token[2] = l.nonce
           /\ \/ l.has = "yes" \/ l.pc \in Releasing
              \/ t.token[1] \in Writers /\ l.txn = "again"

\* A ref has at most one live turn, and it is of a commit under way or lapses.
TurnsEndWithCommits == OneLiveTurnPerRef /\ EndedCommitsHoldNoTurn

\* "a waiter waits HOLD at most in all, however many commits take the turn
\* one after another": every wait ends, though turns are taken for ever and
\* holders die.
WaitsEnd == \A c \in Takers : (commit[c].pc \in Waiting) ~> (commit[c].pc \notin Waiting)
=============================================================================

---------------------------- MODULE SharedReads ----------------------------
(***************************************************************************)
(* The process-wide shared view of the tables' commit-turn records:        *)
(* _SharedReads of lakehouse_kit/commit_turns.py, with the threads that    *)
(* take answers from it (get, peek) and the ones that write a record and   *)
(* then forget its view (_take, release).                                  *)
(*                                                                         *)
(* A record is the number of this process's writes it has seen. A lock is  *)
(* named by its table and by the start of the locks it was made in: once   *)
(* the locks start over, the next waiter of a table makes another one.     *)
(***************************************************************************)
EXTENDS Integers, FiniteSets

CONSTANTS
    Waiters,    \* threads that call get
    Writers,    \* threads that write a record and forget its view
    Tables,     \* the shared reads: one table, store and signer each
    LIMIT,      \* _SHARED_READ_TABLES
    MaxWrites,  \* bound on the writes of one record
    MaxStarts   \* bound on how often the locks start over

\* There is a table to read.
ASSUME ViewAssumption == MaxWrites \in Nat /\ MaxStarts \in Nat /\ Tables # {}

VARIABLES
    stored,     \* each table's record in the store
    held,       \* _held: the view kept for each table, NoView for none
    locked,     \* _locks: the tables that have a lock
    clearings,  \* _clearings: how often each table's view was cleared
    starts,     \* _starts
    owner,      \* the waiter holding each lock, or Free
    waiter,     \* each waiter's locals
    writer,     \* each writer's locals
    forgotten,  \* the latest write of each record whose forget returned
    astray      \* the tables a forget of which met a load in flight and no lock to count it by

viewVars == <<stored, held, locked, clearings, starts, owner, waiter, writer, forgotten, astray>>

-----------------------------------------------------------------------------

Writes == 0 .. MaxWrites
NoView == -1
Free   == "free"
Locks  == Tables \X (0 .. MaxStarts)

WaiterLocals ==
    [pc: {"idle", "missed", "queued", "entered", "counted", "loaded", "answered"},
     table: Tables, lock: Locks, before: (0 .. MaxStarts) \X Nat, got: Writes \cup {NoView},
     since: Writes]
WriterLocals == [pc: {"idle", "written"}, table: Tables, wrote: Writes]

ViewTypeOK ==
    /\ stored \in [Tables -> Writes]
    /\ held \in [Tables -> Writes \cup {NoView}]
    /\ locked \in SUBSET Tables
    /\ clearings \in [Tables -> Nat]
    /\ starts \in 0 .. MaxStarts
    /\ owner \in [Locks -> Waiters \cup {Free}]
    /\ waiter \in [Waiters -> WaiterLocals]
    /\ writer \in [Writers -> WriterLocals]
    /\ forgotten \in [Tables -> Writes]
    /\ astray \subseteq Tables

\* A waiter's locals as it enters get for a table, and a writer's at rest.
Enters(t, pc) == [pc |-> pc, table |-> t, lock |-> <<t, 0>>, before |-> <<0, 0>>,
                  got |-> NoView, since |-> forgotten[t]]
AnyTable   == CHOOSE t \in Tables : TRUE
IdleWaiter == [pc |-> "idle", table |-> AnyTable, lock |-> <<AnyTable, 0>>,
               before |-> <<0, 0>>, got |-> NoView, since |-> 0]
IdleWriter == [pc |-> "idle", table |-> AnyTable, wrote |-> 0]

ViewInit ==
    /\ stored = [t \in Tables |-> 0]
    /\ held = [t \in Tables |-> NoView]
    /\ locked = {}
    /\ clearings = [t \in Tables |-> 0]
    /\ starts = 0
    /\ owner = [l \in Locks |-> Free]
    /\ waiter = [w \in Waiters |-> IdleWaiter]
    /\ writer = [w \in Writers |-> IdleWriter]
    /\ forgotten = [t \in Tables |-> 0]
    /\ astray = {}

view == <<held, locked, clearings, starts>>

\* _cleared: where a table's clearings stand.
Cleared(t) == <<starts, clearings[t]>>

-----------------------------------------------------------------------------
(* get                                                                     *)

\* A waiter calls get: it takes the held view (peek, without a lock), or
\* finds none. A view may always be found too old: the tenth of a second it
\* is kept for is not modelled.
GetPeeks(w, t) ==
    /\ waiter[w].pc = "idle"
    /\ \/ /\ held[t] # NoView
          /\ waiter' = [waiter EXCEPT ![w] = [Enters(t, "answered") EXCEPT !.got = held[t]]]
       \/ waiter' = [waiter EXCEPT ![w] = Enters(t, "missed")]
    /\ UNCHANGED <<stored, view, owner, writer, forgotten, astray>>

\* _lock_for, under the guard: past the limit the locks start over.
LockFor(w) ==
    LET t     == waiter[w].table
        over  == t \notin locked /\ Cardinality(locked) >= LIMIT
    IN
    /\ waiter[w].pc = "missed"
    /\ over => starts < MaxStarts
    /\ starts' = IF over THEN starts + 1 ELSE starts
    /\ locked' = IF over THEN {t} ELSE locked \cup {t}
    /\ held' = IF over THEN [u \in Tables |-> NoView] ELSE held
    /\ clearings' = IF over THEN [u \in Tables |-> 0] ELSE clearings
    /\ waiter' = [waiter EXCEPT ![w].pc = "queued", ![w].lock = <<t, starts'>>]
    /\ UNCHANGED <<stored, owner, writer, forgotten, astray>>

\* The waiter enters its lock once it is free, and peeks again.
GetEnters(w) ==
    /\ waiter[w].pc = "queued"
    /\ owner[waiter[w].lock] = Free
    /\ \/ /\ held[waiter[w].table] # NoView
          /\ waiter' = [waiter EXCEPT ![w].pc = "answered", ![w].got = held[waiter[w].table]]
          /\ UNCHANGED owner
       \/ /\ waiter' = [waiter EXCEPT ![w].pc = "entered"]
          /\ owner' = [owner EXCEPT ![waiter[w].lock] = w]
    /\ UNCHANGED <<stored, view, writer, forgotten, astray>>

\* It counts the clearings, under the guard, before its load.
GetCounts(w) ==
    /\ waiter[w].pc = "entered"
    /\ waiter' = [waiter EXCEPT ![w].pc = "counted", ![w].before = Cleared(waiter[w].table)]
    /\ UNCHANGED <<stored, view, owner, writer, forgotten, astray>>

\* The store answers the load ...
GetLoads(w) ==
    /\ waiter[w].pc = "counted"
    /\ waiter' = [waiter EXCEPT ![w].pc = "loaded", ![w].got = stored[waiter[w].table]]
    /\ UNCHANGED <<stored, view, owner, writer, forgotten, astray>>

\* Mutant of GetKeeps: the answer is kept whatever happened meanwhile.
GetKeepsAlways(w) ==
    /\ waiter[w].pc = "loaded"
    /\ held' = [held EXCEPT ![waiter[w].table] = waiter[w].got]
    /\ owner' = [owner EXCEPT ![waiter[w].lock] = Free]
    /\ waiter' = [waiter EXCEPT ![w].pc = "answered"]
    /\ UNCHANGED <<stored, locked, clearings, starts, writer, forgotten, astray>>

\* ... and the answer is kept unless the view was cleared meanwhile.
GetKeeps(w) ==
    /\ waiter[w].pc = "loaded"
    /\ held' = IF Cleared(waiter[w].table) = waiter[w].before
               THEN [held EXCEPT ![waiter[w].table] = waiter[w].got] ELSE held
    /\ owner' = [owner EXCEPT ![waiter[w].lock] = Free]
    /\ waiter' = [waiter EXCEPT ![w].pc = "answered"]
    /\ UNCHANGED <<stored, locked, clearings, starts, writer, forgotten, astray>>

\* The load raised: nothing is kept, and get raises too.
GetFails(w) ==
    /\ waiter[w].pc = "counted"
    /\ owner' = [owner EXCEPT ![waiter[w].lock] = Free]
    /\ waiter' = [waiter EXCEPT ![w] = IdleWaiter]
    /\ UNCHANGED <<stored, view, writer, forgotten, astray>>

\* The answer was acted on; the waiter may call get again.
GetReturns(w) ==
    /\ waiter[w].pc = "answered"
    /\ waiter' = [waiter EXCEPT ![w] = IdleWaiter]
    /\ UNCHANGED <<stored, view, owner, writer, forgotten, astray>>

-----------------------------------------------------------------------------
(* A write of a table's record, and forget                                 *)

WriteRecord(w, t) ==
    /\ writer[w].pc = "idle"
    /\ stored[t] < MaxWrites
    /\ stored' = [stored EXCEPT ![t] = @ + 1]
    /\ writer' = [writer EXCEPT ![w] = [pc |-> "written", table |-> t, wrote |-> stored'[t]]]
    /\ UNCHANGED <<view, owner, waiter, forgotten, astray>>

\* A clearing is counted only for a read that has a lock.
Clearings(t) ==
    IF t \in locked THEN [clearings EXCEPT ![t] = @ + 1] ELSE clearings

Forget(w) ==
    LET t == writer[w].table IN
    /\ writer[w].pc = "written"
    /\ held' = [held EXCEPT ![t] = NoView]
    /\ clearings' = Clearings(t)
    /\ writer' = [writer EXCEPT ![w] = IdleWriter]
    /\ forgotten' = [forgotten EXCEPT ![t] = IF writer[w].wrote > @ THEN writer[w].wrote ELSE @]
    /\ astray' = IF t \notin locked /\ \E v \in Waiters : /\ waiter[v].table = t
                                                      /\ waiter[v].pc \in {"counted", "loaded"}
                 THEN astray \cup {t} ELSE astray
    /\ UNCHANGED <<stored, locked, starts, owner, waiter>>

ViewNext ==
    \/ \E w \in Waiters :
           \/ \E t \in Tables : GetPeeks(w, t)
           \/ LockFor(w) \/ GetEnters(w) \/ GetCounts(w) \/ GetLoads(w)
           \/ GetKeeps(w) \/ GetFails(w) \/ GetReturns(w)
    \/ \E w \in Writers : (\E t \in Tables : WriteRecord(w, t)) \/ Forget(w)

ViewSpec == ViewInit /\ [][ViewNext]_viewVars

-----------------------------------------------------------------------------
(* Properties                                                              *)

\* _SharedReads: "no waiter of the process acts on a view from before the
\* process's own write". No view is held that lacks a write whose forget has
\* returned, whatever load was in flight across it, and a get that began after
\* that forget answers with the write, whether it found the view, queued behind
\* another waiter's load or loaded itself. Not covered by the code: a load
\* under a lock of before the locks started over, which a forget cannot count
\* once the table has no lock (`astray`).
NoViewFromBeforeOwnWrite ==
    /\ \A t \in Tables \ astray : held[t] # NoView => held[t] >= forgotten[t]
    /\ \A w \in Waiters : /\ waiter[w].pc = "answered" /\ waiter[w].table \notin astray
                         => waiter[w].got >= waiter[w].since
=============================================================================

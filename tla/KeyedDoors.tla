------------------------------ MODULE KeyedDoors ------------------------------
(***************************************************************************)
(* Requests that carry one caller's Idempotency-Key, at the catalog's      *)
(* keyed doors (create, drop, deregister, register, rename, restore).  A   *)
(* request claims the key's record, runs, and records its answer; a        *)
(* refusal gives the claim back; a replay is answered from the record; a   *)
(* claim past its lease, or given back, is taken over.                     *)
(***************************************************************************)
EXTENDS Integers, FiniteSets

CONSTANTS
  Attempts,   \* requests under the key
  Endpoints,  \* the operations they name
  NoAttempt,  \* nobody's outcome
  Lease,      \* DEFAULT_LEASE_SECONDS
  MaxTime,    \* bound: where the clock stops
  MaxLosses,  \* bound: crashes, faults and lost answers
  Namings     \* which endpoint each request names

\* A key is for an endpoint, each request names one, and no request is nobody.
ASSUME KeyAssumption ==
  /\ Lease \in Nat /\ MaxTime \in Nat /\ MaxLosses \in Nat
  /\ Endpoints # {}
  /\ Namings \subseteq [Attempts -> Endpoints]
  /\ NoAttempt \notin Attempts

VARIABLES
  now,     \* the clock
  names,   \* the endpoint each request names
  rec,     \* the key's record
  req,     \* per request: where it is
  ran,     \* requests whose operation was carried out
  losses   \* failures so far

keyVars == <<now, names, rec, req, ran, losses>>

Time == 0..MaxTime
States == {"absent", "in_flight", "released", "done"}
Record == [state : States, endpoint : Endpoints, at : Time, by : Attempts \cup {NoAttempt}]
Running == {"run", "remember"}

KeyTypeOK ==
  /\ now \in Time
  /\ names \in Namings
  /\ rec \in Record
  /\ req \in [Attempts -> [pc : Running \cup {"new", "claim", "judge", "takeover", "release", "releasing",
                                 "answered", "replayed", "refused", "busy", "reused", "failed"},
                           at : Time, read : Record]]
  /\ ran \subseteq Attempts
  /\ losses \in 0..MaxLosses

NoRecord == [state |-> "absent", endpoint |-> CHOOSE e \in Endpoints : TRUE, at |-> 0, by |-> NoAttempt]

KeyInit ==
  /\ now = 0
  /\ names \in Namings
  /\ rec = NoRecord
  /\ req = [a \in Attempts |-> [pc |-> "new", at |-> 0, read |-> NoRecord]]
  /\ ran = {}
  /\ losses = 0

Fault == losses < MaxLosses /\ losses' = losses + 1

Tick ==
  /\ now < MaxTime
  /\ now' = now + 1
  /\ UNCHANGED <<names, rec, req, ran, losses>>

ReqGoes(a, pc) == req' = [req EXCEPT ![a].pc = pc]

-----------------------------------------------------------------------------
(* begin and claim.                                                        *)

\* begin: the claim's time is read before the store is asked.
BeginsClaim(a) ==
  /\ req[a].pc = "new"
  /\ req' = [req EXCEPT ![a].pc = "claim", ![a].at = now]
  /\ UNCHANGED <<now, names, rec, ran, losses>>

ClaimOf(a) == [state |-> "in_flight", endpoint |-> names[a], at |-> req[a].at, by |-> NoAttempt]

\* create_json: the store lets one request create the record.
Claims(a) ==
  /\ req[a].pc = "claim"
  /\ rec' = IF rec.state = "absent" THEN ClaimOf(a) ELSE rec
  /\ ReqGoes(a, IF rec.state = "absent" THEN "run" ELSE "judge")
  /\ UNCHANGED <<now, names, ran, losses>>

\* The create lands and its answer is lost: the client's retry of the put meets
\* the record it wrote.
ClaimAnswerLost(a) ==
  /\ req[a].pc = "claim"
  /\ rec.state = "absent"
  /\ Fault
  /\ rec' = ClaimOf(a)
  /\ ReqGoes(a, "judge")
  /\ UNCHANGED <<now, names, ran>>

\* Mutant of Lapsed: the lease is not waited out.
LapsedAtOnce(a) == TRUE

Lapsed(a) == req[a].at - rec.at >= Lease

\* What the record read tells the request to do.
Verdict(a) ==
  IF rec.endpoint # names[a] THEN "reused"
  ELSE IF rec.state = "done" THEN "replayed"
  ELSE IF rec.state = "in_flight" /\ ~Lapsed(a) THEN "busy"
  ELSE "takeover"

Judges(a) ==
  /\ req[a].pc = "judge"
  /\ req' = [req EXCEPT ![a].pc = Verdict(a), ![a].read = rec]
  /\ UNCHANGED <<now, names, rec, ran, losses>>

\* mutate_json: the merge lands on whatever the record holds by then.
TakesOver(a) ==
  /\ req[a].pc = "takeover"
  /\ rec' = [rec EXCEPT !.state = "in_flight", !.at = req[a].at]
  /\ ReqGoes(a, "run")
  /\ UNCHANGED <<now, names, ran, losses>>

-----------------------------------------------------------------------------
(* The door, and what keyed_door and Converge make of its end.             *)

Carries(a) ==
  /\ req[a].pc = "run"
  /\ ran' = ran \cup {a}
  /\ ReqGoes(a, "remember")
  /\ UNCHANGED <<now, names, rec, losses>>

\* A refusal comes before any write.
IsRefused(a) ==
  /\ req[a].pc = "run"
  /\ ReqGoes(a, "release")
  /\ UNCHANGED <<now, names, rec, ran, losses>>

\* A 5xx, or the process dying, with the operation carried out or not: the
\* claim keeps its lease.
Fails(a) ==
  /\ req[a].pc \in Running \cup {"judge", "takeover", "release", "releasing"}
  /\ Fault
  /\ ran' \in IF req[a].pc = "run" THEN {ran, ran \cup {a}} ELSE {ran}
  /\ ReqGoes(a, "failed")
  /\ UNCHANGED <<now, names, rec>>

\* remember: record_outcome merges the answer onto the record.
Remembers(a) ==
  /\ req[a].pc = "remember"
  /\ rec' = [rec EXCEPT !.state = "done", !.by = a]
  /\ ReqGoes(a, "answered")
  /\ UNCHANGED <<now, names, ran, losses>>

\* Whether the record still holds the claim the request made.
Own(a) == rec.state = "in_flight" /\ rec.at = req[a].at

ReleaseReads(a) ==
  /\ req[a].pc = "release"
  /\ req' = [req EXCEPT ![a].pc = IF Own(a) THEN "releasing" ELSE "refused", ![a].read = rec]
  /\ UNCHANGED <<now, names, rec, ran, losses>>

\* replace_json under the ETag read; a changed record is left alone.
ReleaseWrites(a) ==
  /\ req[a].pc = "releasing"
  /\ rec' = IF rec = req[a].read THEN [rec EXCEPT !.state = "released"] ELSE rec
  /\ ReqGoes(a, "refused")
  /\ UNCHANGED <<now, names, ran, losses>>

-----------------------------------------------------------------------------

Ended == {"answered", "replayed", "refused", "busy", "reused", "failed"}
Done == (\A a \in Attempts : req[a].pc \in Ended) /\ UNCHANGED keyVars

KeyNext ==
  \/ Tick
  \/ \E a \in Attempts :
       \/ BeginsClaim(a) \/ Claims(a) \/ ClaimAnswerLost(a) \/ Judges(a) \/ TakesOver(a)
       \/ Carries(a) \/ IsRefused(a) \/ Fails(a) \/ Remembers(a)
       \/ ReleaseReads(a) \/ ReleaseWrites(a)
  \/ Done

KeySpec == KeyInit /\ [][KeyNext]_keyVars

-----------------------------------------------------------------------------

\* The request whose claim made the record, while it runs.
First(a) == req[a].pc \in Running /\ req[a].read.state = "absent"

\* While the request whose claim made the record runs inside its lease, no other
\* has carried the operation out or been let run. A replay answers with the
\* outcome of a request that named the same operation and carried it out
\* (idempotency.claim, record_outcome). What is not so: requests that judge one
\* abandoned claim before any of them restamps it all take it over.
OneOutcomePerKey ==
  \A a \in Attempts :
    /\ First(a) /\ now - req[a].at < Lease =>
         /\ ran \subseteq {a}
         /\ \A b \in Attempts \ {a} : req[b].pc \notin Running \cup {"takeover"}
    /\ req[a].pc = "replayed" =>
         LET b == req[a].read.by IN b \in ran /\ names[b] = names[a]

=============================================================================

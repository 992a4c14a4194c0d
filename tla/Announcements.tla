--------------------------- MODULE Announcements ---------------------------
(***************************************************************************)
(* What the catalog and lineage promise a reader of the commit feed about  *)
(* one ref of one table: a version is heard of at most once and never      *)
(* before it is committed, and the reconciler puts behind it (settles)     *)
(* only a prefix of the versions, each of them heard of or excused.        *)
(***************************************************************************)
EXTENDS Integers

CONSTANT Versions

VARIABLES
  committed,  \* versions the ref holds
  heard,      \* versions the feed has held a row for
  excused,    \* versions no row is owed for any more
  settled     \* the version up to which nothing is left to announce

vars == <<committed, heard, excused, settled>>

Init ==
  /\ committed \subseteq Versions
  /\ heard = {}
  /\ excused \subseteq Versions
  /\ settled \in {0} \cup Versions
  /\ \A v \in Versions : v <= settled => v \in excused

\* A commit adds one version, for which a row may be owed or not.
Commit(v) ==
  /\ v \notin committed
  /\ committed' = committed \cup {v}
  /\ excused' \in {excused, excused \cup {v}}
  /\ UNCHANGED <<heard, settled>>

Hear(v) ==
  /\ v \in committed \ heard
  /\ heard' = heard \cup {v}
  /\ UNCHANGED <<committed, excused, settled>>

\* Time passes a version by: its row may have left the feed unread.
Excuse ==
  /\ excused' \in SUBSET Versions
  /\ excused \subseteq excused'
  /\ UNCHANGED <<committed, heard, settled>>

\* The mark moves, forward or back, over versions heard of or excused.
Settle(m) ==
  /\ \A v \in Versions : v <= m => v \in heard \cup excused
  /\ settled' = m
  /\ UNCHANGED <<committed, heard, excused>>

Next ==
  \/ \E v \in Versions : Commit(v) \/ Hear(v)
  \/ Excuse
  \/ \E m \in {0} \cup Versions : Settle(m)

Spec == Init /\ [][Next]_vars

=============================================================================

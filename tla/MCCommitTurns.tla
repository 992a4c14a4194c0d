--------------------------- MODULE MCCommitTurns ---------------------------
(***************************************************************************)
(* Two commits of one replica that take the turns of one ref for ever: two *)
(* doors, or a door and a stock writer. The others never begin.            *)
(***************************************************************************)
EXTENDS CommitTurns

MCRefs      == {"main"}
OneRef      == [c \in Takers |-> "main"]
MCProcesses == {"p"}
Together    == [c \in Takers |-> "p"]

VARIABLE who  \* the two that commit

OneDoor == CHOOSE d \in DoorCommits : TRUE

MCInit == TurnsInit /\ who \in {DoorCommits, {OneDoor} \cup Writers}

\* One nonce serves the writer: it begins another transaction once nothing
\* lists the turn of its last.
MCNext ==
    /\ TurnsNext /\ UNCHANGED who
    /\ \A c \in Takers \ who : CommitAt(c, "idle")'
    /\ \A w \in Writers : commit'[w].nonce = AnyNonce

MCSpec == MCInit /\ [][MCNext]_<<turnVars, who>> /\ TurnsFairness
=============================================================================

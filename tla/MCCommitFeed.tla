---------------------------- MODULE MCCommitFeed ----------------------------
(* CommitFeed on two versions and two catalog replicas.                    *)
EXTENDS CommitFeed

CONSTANTS r1, r2

MCReplicas == {r1, r2}
\* A door's commit under one past every door, other bytes over a record beside
\* a version no door announces, and a door's commit on a registered table.
MCHistories ==
  {<<"door", "past">>, <<"other", "quiet">>, <<"registered", "door">>}
=============================================================================

-------------------------- MODULE MCVersionCommits --------------------------
(* Door commits and one stock transaction on one ref, beside an owner who  *)
(* deletes a version: two doors and a transaction sent once, or one door   *)
(* and a transaction sent twice.                                           *)
EXTENDS VersionCommits, TLC

\* Every request commits the one stock transaction.
MCCommits == [r \in Requests |-> CHOOSE t \in Txns : TRUE]

Taking(d, r, deletes) ==
    [doors: {D \in SUBSET Doors : Cardinality(D) = d},
     requests: {R \in SUBSET Requests : Cardinality(R) = r}, deletes: {deletes}]

MCOffers == Taking(2, 1, 1) \cup Taking(1, 2, 1)

\* The door commits are alike, and so are the requests.
AlikeWriters == Permutations(Doors) \cup Permutations(Requests)
=============================================================================

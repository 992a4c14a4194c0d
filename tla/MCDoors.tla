------------------------------ MODULE MCDoors ------------------------------
(***************************************************************************)
(* What meets at one table, one at a time: the doors that name and end it  *)
(* (TableDoors), the doors that publish its versions (Publication), and a  *)
(* door commit and a stock writer on two replicas that take turns on one   *)
(* ref (CommitTurns).                                                      *)
(***************************************************************************)
EXTENDS MCTableDoors, MCPublication, Publication, CommitTurns

VARIABLE part  \* what meets: "doors", "publication", "turns"

OneOffer  == CHOOSE o \in MCOffers : TRUE
OneReview == CHOOSE o \in Reviews : TRUE

MCRefs      == {"main"}
OneRef      == [c \in Takers |-> "main"]
MCProcesses == {"p", "q"}
Apart       == [c \in Takers |-> IF c \in DoorCommits THEN "p" ELSE "q"]

MCInit ==
    /\ Init /\ PubInit /\ TurnsInit
    /\ part \in {"doors", "publication", "turns"}
    /\ part # "doors" => offer = OneOffer
    /\ part # "publication" => offering = OneReview

MCNext ==
    /\ UNCHANGED part
    /\ \/ part = "doors" /\ Next /\ UNCHANGED <<pubVars, turnVars>>
       \/ part = "publication" /\ PubNext /\ UNCHANGED <<vars, turnVars>>
       \/ part = "turns" /\ TurnsNext /\ UNCHANGED <<vars, pubVars>>

\* What moves in each part. The rest stays as it began there, so a state is
\* told from every other by this.
WhatMoves == CASE part = "doors"       -> <<part, vars>>
            [] part = "publication" -> <<part, pubVars>>
            [] part = "turns"       -> <<part, turnVars>>

MCSpec == MCInit /\ [][MCNext]_<<part, vars, pubVars, turnVars>>
=============================================================================

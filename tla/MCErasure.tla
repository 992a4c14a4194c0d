----------------------------- MODULE MCErasure -----------------------------
(***************************************************************************)
(* The two halves of an erasure, one at a time: erasureVarss of one       *)
(* table's erasure, or the replicas' release of the refs that pin it.      *)
(***************************************************************************)
EXTENDS ErasureRelease, Erasure

\* The release: `deeper` is cut from `work`; `late` is a name a user may cut.
MCBranches == {"work", "deeper", "late"}
MCForks    == [b \in MCBranches |->
                  CASE b = "work" -> Main [] b = "deeper" -> "work" [] OTHER -> None]

VARIABLE part  \* which half runs: "release", "verify"

One(ref, kinds) == [objs |-> {<<ref, k>> : k \in kinds}, deleted |-> {}, old |-> FALSE]
Subject         == One(Main, {"rows", "rest", "dirty"})
Behind          == [Subject EXCEPT !.deleted = {<<Main, "rows">>}]

Offer(trunk, work, at, named, known, asks) ==
    [log |-> (Main :> trunk) @@ ("work" :> work), fork |-> "work" :> at, tag |-> ("t" :> named) @@ ("u" :> NoRef),
     edges |-> known, asks |-> asks \cup {<<"erase", Main>>}, faults |-> 0]

\* Where the order of many steps is the matter, nothing fails.
Unfailing(offer) == [offer EXCEPT !.faults = MaxFailures]

MCOffers ==
    { \* The job rewrites main beside a erasureVars and a user's tag.
      Offer(<<One(Main, {"rows", "rest"})>>, <<>>, NoRef, NoRef, {},
            {<<"delete", Main>>, <<"compact", Main>>, <<"age", Main>>, <<"verify", "v">>, <<"tag", "t">>}),
      \* A branch is cut, and the rows written again, beside a erasureVars.
      Offer(<<Subject, One(Main, {"rest", "good", "clean"})>>, <<>>, NoRef, NoRef, {},
            {<<"age", Main>>, <<"verify", "v">>, <<"cut", "work">>, <<"write", Main>>}),
      \* A branch is rewritten and swept; a tag names what it was cut from.
      Offer(<<Subject, One(Main, {"rest", "clean"})>>,
            <<Behind>>, <<Main, 1>>, <<Main, 1>>, {},
            {<<"compact", "work">>, <<"unindex", "work">>, <<"age", Main>>, <<"verify", "v">>, <<"sweep", "work">>}),
      \* A branch and a tag on a version of it pin the subject; a tag is made
      \* beside two erasureVarss.
      Unfailing(Offer(<<Subject, One(Main, {"clean"})>>, <<Behind, One(Main, {"rest"})>>, <<Main, 1>>, <<"work", 1>>, {},
            {<<"age", Main>>, <<"verify", "v">>, <<"verify", "w">>, <<"tag", "u">>})),
      \* A branch is dropped, and main indexed, beside a erasureVars.
      Offer(<<Subject, One(Main, {"clean"})>>, <<One(Main, {"rest"})>>, <<Main, 1>>, NoRef, {},
            {<<"age", Main>>, <<"verify", "v">>, <<"drop", "work">>, <<"index", Main>>}),
      \* Tables derived from one that holds nothing.
      Offer(<<One(Main, {"rest"})>>, <<>>, NoRef, NoRef, {<<"source", "d1">>},
            {<<"verify", "v">>, <<"follow", <<"source", "d1">>>>,
             <<"follow", <<"d1", "d2">>>>, <<"declare", <<"d1", "d2">>>>,
             <<"deregister", "d2">>, <<"take", "d2">>, <<"purge", "d2">>}) }

\* Nothing is asked of the table while the release runs.
AtRest == [Offer(<<Subject>>, <<>>, NoRef, NoRef, {}, {}) EXCEPT !.asks = {}]

AllOffers == MCOffers \cup {AtRest}
NoOffers  == {AtRest}

\* No release is scheduled while the table is verified.
Unscheduled ==
    /\ record = [kept |-> "gone", phase |-> "pending", lease |-> 0, tags |-> {}, plan |-> <<>>]
    /\ branch = [b \in Branches |-> NoCut] /\ tag = [t \in Tags |-> None]
    /\ versions = {1} /\ head = 1
    /\ tick = [c \in Ticks |-> Idle] /\ hold = [c \in Ticks |-> 0]
    /\ owed = {} /\ faults = 0 /\ changes = 0

MCInit ==
    /\ ErasureInit
    /\ \/ asked = {} /\ part = "release" /\ Init
       \/ asked # {} /\ part = "verify" /\ Unscheduled

MCNext ==
    /\ UNCHANGED part
    /\ \/ part = "release" /\ Next /\ UNCHANGED erasureVars
       \/ part = "verify" /\ ErasureNext /\ UNCHANGED vars

MCSpec ==
    /\ MCInit /\ [][MCNext]_<<part, vars, erasureVars>>
    /\ WF_vars(part = "release" /\ Passes)
    /\ \A c \in Ticks : WF_vars(part = "release" /\ Runs(c))

=============================================================================

---------------------------- MODULE MCTableDoors ----------------------------
(* Requests on one location, by what the table's users ask for together.   *)
EXTENDS TableDoors, TLC

MCNames == {"a", "b", "c", "d"}

Ask(door, name)  == [door |-> door, name |-> name, to |-> name]
Rename(name, to) == [door |-> "rename", name |-> name, to |-> to]

MCRequests == {"q", "r", "s", "t", "u", "v"}

Offer(asks, faults) == [asks |-> asks, faults |-> faults]

Keeping == [q |-> Ask("drop", "a"), r |-> Ask("drop", "b"), s |-> Ask("undrop", "a"), t |-> Ask("undrop", "b"),
            u |-> Rename("a", "b"), v |-> Ask("register", "d")]
Ending(beside) ==
           [q |-> Rename("a", "b"), r |-> Rename("a", "c"), s |-> Ask("destroy", "a"), t |-> Ask("destroy", "b"),
            u |-> Ask("deregister", "a"), v |-> beside]
Moving(beside) == [q |-> Rename("a", "b"), r |-> Rename("a", "c"), s |-> beside]
Kept(beside)   == [q |-> Ask("drop", "a"), r |-> Ask("undrop", "a"), s |-> beside]

\* A rename whose registration is lost puts its source back beside it.
Bearable == Fault \ {"register lost"}

\* Tables kept and restored, among faults, and renamed, among none; purged when
\* their time is up, beside an undrop found in time; renamed, destroyed and
\* deregistered, beside a registration or a table that takes a name; renames
\* beside a table that takes a name; the purge of what a destroy left.
MCOffers == {
    Offer(Kept(Ask("register", "d")), Fault), Offer(Kept(Ask("create", "a")), Fault),
    Offer(Keeping, {}),
    Offer([q |-> Ask("drop", "a"), r |-> Ask("purge", "a"), s |-> Ask("register", "d")], Bearable),
    Offer(Kept(Ask("purge", "a")), Fault),
    Offer(Ending(Ask("create", "b")), Bearable), Offer(Ending(Ask("register", "d")), {}),
    Offer(Moving(Ask("create", "a")), {}), Offer(Moving(Ask("create", "b")), Bearable),
    Offer([q |-> Ask("destroy", "a"), r |-> Ask("purge", "a"), s |-> Ask("register", "d"), t |-> Ask("create", "a")],
          Bearable)}
=============================================================================

--------------------------- MODULE MCDirectories ---------------------------
(* The tables and requests DataDirectories is model-checked on.            *)
EXTENDS Naturals

CONSTANTS bronze, silver, here, there, None

Is(door, n, l) == [door |-> door, name |-> n, at |-> l, to |-> None]
Moves(n, m) == [door |-> "rename", name |-> n, at |-> None, to |-> m]

Asks(menu, copies, passes, writes, faults) ==
    [menu |-> menu, copies |-> copies, passes |-> passes, writes |-> writes, faults |-> faults]

Made == Is("create", bronze, here)
Again == Is("register", silver, there)

Mixes ==
    {\* A copy of the dataset registered beside each way its table ends.
     Asks({Made, Again, Is("destroy", bronze, None), Is("purge", bronze, None)}, 1, 1, 0, 1),
     Asks({Made, Again, Is("drop", bronze, None), Is("undrop", bronze, None), Is("destroy", silver, None)}, 1, 1, 0, 1),
     Asks({Made, Again, Is("drop", bronze, None), Is("purge", bronze, None), Is("drop", silver, None)}, 1, 1, 0, 1),
     Asks({Made, Again, Is("drop", bronze, None), Is("forget", bronze, None), Is("register", bronze, here)}, 1, 1, 0, 0),
     Asks({Made, Again, Is("drop", bronze, None), Is("clear", bronze, None)}, 1, 1, 0, 1),
     Asks({Made, Again, Is("detach", bronze, None)}, 1, 1, 0, 1),
     \* The same beside a pass that reclaims what the table no longer reads.
     Asks({Made, Again, Is("destroy", bronze, None), Is("purge", bronze, None)}, 1, 1, 1, 0),
     Asks({Made, Again, Is("drop", bronze, None), Is("undrop", bronze, None), Is("destroy", silver, None)}, 1, 1, 1, 0),
     Asks({Made, Again, Is("drop", bronze, None), Is("purge", bronze, None), Is("drop", silver, None)}, 1, 1, 1, 0),
     Asks({Made, Again, Is("drop", bronze, None), Is("forget", bronze, None), Is("register", bronze, here)}, 1, 1, 1, 0),
     Asks({Made, Again, Is("drop", bronze, None), Is("clear", bronze, None)}, 1, 1, 1, 0),
     Asks({Made, Again, Is("detach", bronze, None)}, 1, 1, 1, 0),
     \* A table renamed, detached and attached again, with no copy of it.
     Asks({Made, Moves(bronze, silver), Is("deregister", silver, None), Is("register", silver, here),
           Is("destroy", silver, None)}, 0, 1, 1, 1),
     \* A copy registered while its table is detached; the table comes back and ends.
     Asks({Made, Is("deregister", bronze, None), Again, Is("register", bronze, here),
           Is("destroy", bronze, None)}, 1, 0, 0, 1)}

\* A copy registered while its table is detached, and the table attached again.
Readmitted == {Asks({Made, Is("deregister", bronze, None), Again, Is("register", bronze, here)}, 1, 0, 0, 0)}

\* Nobody asks for anything.
Nothing == Asks({}, 0, 0, 0, 0)
=============================================================================

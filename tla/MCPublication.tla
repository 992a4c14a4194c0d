--------------------------- MODULE MCPublication ---------------------------
(* What is asked of a table of two or three versions, the first published  *)
(* or none.                                                                *)
EXTENDS Naturals

Fine     == [failed |-> {}, rows |-> 4]
Doubtful == [failed |-> {"waivable"}, rows |-> 4]
Sparse   == [failed |-> {}, rows |-> 1]
Broken   == [failed |-> {"structural"}, rows |-> 4]

Doing(door, v, by) == [door |-> door, version |-> v, waives |-> FALSE, by |-> by]
Publish(v)    == Doing("publish", v, 0)
Waive(v)      == [Publish(v) EXCEPT !.waives = TRUE]
Approve(v)    == Doing("approve", v, 0)
Reject(v, by) == Doing("reject", v, by)
Expire(by)    == Doing("expire", 0, by)

Review(made, published, work) ==
    [contents |-> made, published |-> published, work |-> work, faults |-> {}, review |-> TRUE,
     commits |-> FALSE, cleans |-> FALSE]
Unreviewed(o)    == [o EXCEPT !.review = FALSE]
Failing(o, what) == [o EXCEPT !.faults = what]
Beside(o)        == [o EXCEPT !.commits = TRUE, !.cleans = TRUE]

\* A hold decided by two people, among faults and expired by two replicas; a hold
\* replaced by a newer one, or passed by a publication; a rejection repeated; the
\* first publication, and two that overlap, beside a writer and the cleanup; and
\* a gate without review.
Reviews == {
    Failing(Review(<<Fine, Doubtful, Sparse>>, 1, {Publish(2), Approve(2), Reject(2, 0)}),
            {"gate", "tag", "record", "answer", "restore"}),
    Review(<<Fine, Doubtful, Sparse>>, 1, {Publish(2), Publish(3), Approve(3), Reject(3, 0)}),
    Review(<<Fine, Doubtful>>, 1, {Publish(2), Approve(2), Reject(2, 0), Expire(0), Expire(1)}),
    Review(<<Fine, Doubtful, Fine>>, 1, {Publish(2), Publish(3), Approve(2), Reject(2, 0)}),
    Failing(Review(<<Fine, Doubtful>>, 1, {Publish(2), Reject(2, 0), Reject(2, 1)}), {"restore", "answer"}),
    Beside(Review(<<Fine, Doubtful>>, 0, {Publish(2), Approve(2), Reject(2, 0)})),
    Beside(Review(<<Fine, Doubtful, Sparse>>, 1, {Publish(2), Publish(3)})),
    Unreviewed(Review(<<Fine, Doubtful, Broken>>, 1, {Publish(2), Publish(3), Waive(2), Waive(3)}))}

Reviewing == UNION {o.work : o \in Reviews}
=============================================================================

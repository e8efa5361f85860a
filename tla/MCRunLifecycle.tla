--------------------------- MODULE MCRunLifecycle ---------------------------
(* RunLifecycle on small instances: how many calls of each kind arrive.    *)
EXTENDS RunLifecycle, TLC

None == [k \in Kinds |-> 0]

Once         == [None EXCEPT !.webhook = 1, !.approve = 1]
Calls        == [None EXCEPT !.webhook = 2, !.retry = 1, !.approve = 1]
TwoApprovals == [None EXCEPT !.webhook = 1, !.approve = 2]
Answers      == [None EXCEPT !.webhook = 2, !.respond = 2, !.approve = 2, !.reject = 1,
                             !.request_changes = 1, !.cancel = 1]

Symmetry == Permutations(Workers)
=============================================================================

---------------------------- MODULE MCCiFeedback ----------------------------
(* Instances of CiFeedback and its ledger for TLC.                         *)
EXTENDS FeedbackLedger, TLC

CONSTANTS r1, r2, o1, o2, none

On(workflow, pr, branch, origin, depth) ==
    [workflow |-> workflow, pr |-> pr, branch |-> branch, origin |-> origin, depth |-> depth]

\* Two workflows of one pull request.
OnePullRequest ==
    (r1 :> On("ci", 1, "symphony/a", o1, 0)) @@ (r2 :> On("security", 1, "symphony/a", o1, 0))

\* One workflow on two pull requests, the second a remediation.
TwoPullRequests ==
    (r1 :> On("ci", 1, "symphony/a", o1, 0)) @@ (r2 :> On("ci", 2, "symphony/b", o2, 2))

OneRun == r1 :> On("ci", 1, "symphony/a", o1, 0)

Job(slot, check) == [slot |-> slot, check |-> check]
Result(conclusion, jobs) == [conclusion |-> conclusion, jobs |-> jobs]

Green == Result("success", {})
Red == Result("failure", {Job(1, "unit")})
NotStarted == Result("failure", {})
Cancelled == Result("cancelled", {Job(1, "unit")})
\* Two jobs of one matrix, whose names normalise to the same signature.
Matrix == Result("failure", {Job(1, "unit"), Job(2, "unit")})

Results == {Green, Red}
StartResults == {Green, NotStarted}
AllResults == {Green, Red, NotStarted, Cancelled, Matrix}

=============================================================================

---------------------------- MODULE DefectLedger ----------------------------
(***************************************************************************)
(* What CI feedback (ci_feedback/) promises, whatever is delivered late or *)
(* twice and wherever an invocation stops:                                 *)
(*                                                                         *)
(*   a defect is a failing check of a workflow, entered once; failures of  *)
(*   that check reopen it, each bringing it nearer to human review, which  *)
(*   is never taken back; it is resolved by a success of its workflow on   *)
(*   its pull request only; an issue returns to review when such a success *)
(*   has resolved a defect of it and no other is open on the pull request. *)
(*                                                                         *)
(* FeedbackLedger maps the service onto this specification.                *)
(***************************************************************************)
EXTENDS Naturals

CONSTANTS
    Runs,                 \* workflow runs
    Context,              \* per run: workflow, pr, branch, origin, depth
    Checks,               \* what may fail in a run
    NoValue,              \* no pull request, no origin
    HumanReviewAfter,     \* failures after which an agent is not to try again
    MaxRemediationDepth   \* work as deep as this is not for an agent

VARIABLES
    completed,  \* <<run, conclusion>>: what runs have come to
    ledger,     \* the defects
    in_review   \* the originating issues that are back in review

vars == <<completed, ledger, in_review>>

Init == completed = {} /\ ledger = {} /\ in_review = {}

-----------------------------------------------------------------------------
ForAgents(times, r) ==
    times < HumanReviewAfter /\ Context[r].depth < MaxRemediationDepth

Opened(r, check) ==
    [fingerprint |-> <<Context[r].workflow, check>>,
     workflow    |-> Context[r].workflow,
     pr          |-> Context[r].pr,
     branch      |-> Context[r].branch,
     origin      |-> Context[r].origin,
     status      |-> "open",
     times       |-> 1,
     eligible    |-> ForAgents(1, r)]

\* A defect is where it failed last, and remembers the issue it came from.
Reopened(d, r) ==
    [fingerprint |-> d.fingerprint,
     workflow    |-> d.workflow,
     pr          |-> Context[r].pr,
     branch      |-> Context[r].branch,
     origin      |-> IF Context[r].origin # NoValue THEN Context[r].origin ELSE d.origin,
     status      |-> "open",
     times       |-> d.times + 1,
     eligible    |-> d.eligible /\ ForAgents(d.times + 1, r)]

Covers(r, d) ==
    /\ Context[r].workflow = d.workflow /\ Context[r].pr = d.pr
    /\ d.pr = NoValue => Context[r].branch = d.branch

Complete(r) ==
    /\ \E conclusion \in {"success", "failure", "cancelled"} :
           completed' = completed \cup {<<r, conclusion>>}
    /\ UNCHANGED <<ledger, in_review>>

Report(r) ==
    /\ <<r, "failure">> \in completed
    /\ \E check \in Checks :
           LET known == {d \in ledger : d.fingerprint = <<Context[r].workflow, check>>} IN
           \/ known = {} /\ ledger' = ledger \cup {Opened(r, check)}
           \/ \E d \in known : ledger' = (ledger \ {d}) \cup {Reopened(d, r)}
    /\ UNCHANGED <<completed, in_review>>

Resolve(r) ==
    /\ <<r, "success">> \in completed
    /\ \E d \in ledger :
           /\ d.status = "open" /\ Covers(r, d)
           /\ ledger' = (ledger \ {d}) \cup {[d EXCEPT !.status = "resolved"]}
    /\ UNCHANGED <<completed, in_review>>

Resume(r) ==
    /\ <<r, "success">> \in completed
    /\ \E o \in {d.origin : d \in {e \in ledger : e.status = "resolved" /\ Covers(r, e)}} \ {NoValue} :
           /\ \A d \in ledger : d.origin = o /\ d.pr = Context[r].pr => d.status = "resolved"
           /\ in_review' = in_review \cup {o}
    /\ UNCHANGED <<completed, ledger>>

\* People and agents take an issue out of review again.
Leave(o) ==
    /\ in_review' = in_review \ {o}
    /\ UNCHANGED <<completed, ledger>>

Next ==
    \/ \E r \in Runs : Complete(r) \/ Report(r) \/ Resolve(r) \/ Resume(r)
    \/ \E o \in in_review : Leave(o)

Spec == Init /\ [][Next]_vars

-----------------------------------------------------------------------------
(* Properties.                                                             *)

\* A failing check has one entry, however often it fails (the fingerprint of
\* service.py).
OneEntryPerCheck ==
    \A d, e \in ledger : d.fingerprint = e.fingerprint => d = e

Failed(r) == r \in Runs /\ <<r, "failure">> \in completed
Succeeded(r) == r \in Runs /\ <<r, "success">> \in completed

\* A defect is where a run of its workflow did fail, and its originating issue is one
\* that such a run came from (the metadata of service.py).
FromFailures ==
    \A d \in ledger :
        /\ \E r \in Runs :
               /\ Failed(r)
               /\ Context[r].workflow = d.workflow
               /\ Context[r].pr = d.pr /\ Context[r].branch = d.branch
        /\ d.origin # NoValue =>
               \E r \in Runs :
                   Failed(r) /\ Context[r].workflow = d.workflow /\ Context[r].origin = d.origin

\* What is resolved, a success of its workflow where it failed has resolved
\* (_process_recovery of service.py).
ResolvedOnSuccess ==
    \A d \in ledger : d.status = "resolved" => \E r \in Runs : Succeeded(r) /\ Covers(r, d)

\* An issue is in review only if a workflow that failed on work for it has both
\* failed and succeeded on one pull request (_process_recovery of service.py).
ReviewEarned ==
    \A o \in in_review :
        \E first, last, success \in Runs :
            /\ Failed(first) /\ Failed(last) /\ Succeeded(success)
            /\ Context[first].origin = o
            /\ Context[first].workflow = Context[success].workflow
            /\ Context[last].workflow = Context[success].workflow
            /\ Context[last].pr = Context[success].pr

\* An entry stays: its failures are not counted back, an agent does not regain it, its
\* origin is not lost, and only another failure reopens it (record_failure and
\* record_recovery of model.py).
Remembered(d, e) ==
    /\ e.fingerprint = d.fingerprint
    /\ e.times >= d.times
    /\ e.eligible => d.eligible
    /\ d.origin # NoValue => e.origin # NoValue
    /\ d.status = "resolved" /\ e.status = "open" => e.times > d.times

Remembering == \A d \in ledger : \E e \in ledger' : Remembered(d, e)

=============================================================================
